SPECIFICATION Spec
CONSTANTS
  ConnectionThreads = {c1}
  StopThreads = {s1}
  TermThreads = {t1}
  InputThreads = {i1}
  NoThread = NoThread
  Reporters = {8}
  Env = {"hostEnds", "userStops", "endsTogether"}
INVARIANTS
  StageNoneAfterStop
CHECK_DEADLOCK FALSE
