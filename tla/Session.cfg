SPECIFICATION Spec
CONSTANTS
  ConnectionThreads = {c1, c2}
  StopThreads = {s1, s2}
  TermThreads = {t1, t2}
  InputThreads = {i1, i2}
  NoThread = NoThread
  Reporters = {8, 10}
  Env = {"surfaceFails", "startFails", "decoderFails", "userStops", "stopsConnecting", "stopsIdle", "hostEnds"}
INVARIANTS
  TypeOK
  StageAssertions
  QuietIsDown
  QuietIsReleased
  StopNotDuringStart
PROPERTIES
  ImplementsLifecycle
  SessionEnds
CHECK_DEADLOCK FALSE
