CONSTANTS
  a1 = a1
  a2 = a2
  m1 = m1
  m2 = m2
  r1 = r1
  r2 = r2
  p1 = p1
  p2 = p2
  Atask = {a1, a2}
  Envmodel = {m1}
  Rule <- TwoAndOne
  Setting <- Settings
  MaxTasks = 2
  EMGThreads = 1
  RPWorkers = {p1}
  KeepDirs = FALSE
  Null = Null
  Idle = Idle
  Ended = Ended
SPECIFICATION FairSpec
INVARIANTS WaitingExact DirKept NoLateTask
PROPERTIES ImplementsLedger CoreEnds
CHECK_DEADLOCK FALSE
