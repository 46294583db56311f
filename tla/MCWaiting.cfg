CONSTANTS
  t1 = t1
  t2 = t2
  t3 = t3
  e1 = e1
  e2 = e2
  m1 = m1
  m2 = m2
  Threads = {t1, t2, t3}
  Events = {e1, e2}
  Mutexes = {m1, m2}
  Null = Null
  Address <- Places
  Calls <- MixedCalls
  MaxSets <- Sets
SPECIFICATION FairSpec
INVARIANTS TypeOK NothingLeftBehind ResultIsTrue NoCircularWait
PROPERTY EveryCallEnds
