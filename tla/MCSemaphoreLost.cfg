CONSTANTS
  Threads = {p1, w1}
  Posters = {p1}
  Waiters = {w1}
  Cancellers = {}
  Null = Null
  AbaRange = 65536
  InitialCount = 0
  MaxRounds <- Rounds
  Twice = {}
SPECIFICATION Spec
INVARIANT NoPermitLost
