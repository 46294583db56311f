CONSTANTS
  t1 = t1
  t2 = t2
  s1 = s1
  s2 = s2
  m1 = m1
  m2 = m2
  Null = Null
  Threads = {t1, t2}
  Schedulers <- SchedulerList
  Pollers = {s1}
  MetaThreads = {m1, m2}
  Late = {m2}
  RunModeOf <- Modes
  AffinityOf <- MetaAffinity
  Home <- ThreadHome
  SomeCount = 1
  MaxWork <- Work
  MaxRefs = 1
SPECIFICATION FairSpec
INVARIANTS TypeOK RunLeavesNothing ListsAgree MetaThreadsAreShared
PROPERTIES PostedWorkIsRun RunReturns

