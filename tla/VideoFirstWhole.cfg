SPECIFICATION Spec
CONSTANTS
  Modes = {FALSE}
  TUPLES = 1
  FAR = 2
  UNITS = 1
  DROPS = 3
  Verdicts = {"DR_OK"}
PROPERTIES
  WholeFrameAsks
