CONSTANTS
  Threads = {s1, c1, c2}
  Setters = {s1}
  Resetters = {}
  Waiters = {c1, c2}
  Cancellers = {c1, c2}
  Null = Null
  AbaRange = 65536
  InitialState = FALSE
  MaxRounds <- Rounds
  Twice = {}
SPECIFICATION FairSpec
PROPERTY SetWaitsForUnlock
