SPECIFICATION Spec
CONSTANTS
  Modes = {FALSE, TRUE}
  TUPLES = 2
  FAR = 2
  UNITS = 1
  DROPS = 2
  Verdicts = {"DR_OK", "DR_NEED_IDR"}
INVARIANTS
  RequestIsKept
  RangesInOrder
  WaitHasReason
PROPERTIES
  OffersDecodable
