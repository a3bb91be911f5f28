SPECIFICATION Spec
CONSTANTS
  W = 16
  Layout <- MCLayout
  Behind = 4
  Ahead = 5
  COOLDOWN = 1
INVARIANTS
  HolesCounted
  ForetoldIsHopeless
  SettledFramesPlay
PROPERTIES
  ImplementsFeed
CHECK_DEADLOCK FALSE
