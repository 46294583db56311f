CONSTANTS
  t1 = t1
  t2 = t2
  t3 = t3
  Threads = {t1, t2}
  Modulus = 8
  Calls <- CallSet
  AndBits <- WordAnd
  OrBits <- WordOr
  XorBits <- WordXor
  MaxCalls = 2
  n1 = n1
  n2 = n2
  Clients = {t1, t2}
  Nodes = {n1, n2}
  NoNode = NoNode
  TagRange = 64
  MaxUses = 8
  Callers = {t1, t2, t3}
  SpinCount = 1
  MaxSemaphoreCalls = 2
  Parties = {t1, t2, t3}
  Barriers = 2
  CounterRange = 16
  MaxRounds = 4
SPECIFICATION PartSpec
PROPERTIES IsAtomicWord IsLifoStack IsPosixSemaphore IsRendezvous
CHECK_DEADLOCK FALSE
