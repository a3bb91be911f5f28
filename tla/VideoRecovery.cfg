SPECIFICATION Spec
CONSTANTS
  Modes = {FALSE}
  TUPLES = 1
  FAR = 1
  UNITS = 1
  DROPS = 2
  Verdicts = {"DR_OK"}
PROPERTIES
  Recovers
