SPECIFICATION Spec
CONSTANTS
  Threads = {main, poll}
  main = main
  poll = poll
  Kinds = {"move", "position", "sensor", "batch", "other"}
  Axes = {"x", "y"}
  Streams = {"pad", "pen"}
  QUEUE = 2
  SHORT = 1
  CALLS = 3
INVARIANTS
  MotionConserved
  DirtyIsQueued
  LastIsShown
  Drained
  ButtonsInOrder
CHECK_DEADLOCK FALSE
SYMMETRY Alike
