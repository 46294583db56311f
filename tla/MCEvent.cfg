CONSTANTS
  Threads = {s1, s2, w1, c1}
  Setters = {s1, s2}
  Resetters = {s1}
  Waiters = {w1, c1}
  Cancellers = {c1}
  Null = Null
  AbaRange = 65536
  InitialState = FALSE
  MaxRounds <- Rounds
  Twice = {s1, c1}
SPECIFICATION FairSpec
INVARIANTS NotifiedOnce SetLeavesNobody LockHasOneOwner
PROPERTY SetServesWaiters
