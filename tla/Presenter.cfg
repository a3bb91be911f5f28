SPECIFICATION Spec
CONSTANTS
  SESSIONS = 2
  PICTURES = 4
  Textures = {1, 2, 3}
  Targets = {1, 2}
INVARIANTS
  SlotWaitsForPaint
  HandedOutIsHeld
  PaintedAsDecoded
CHECK_DEADLOCK FALSE
