CONSTANTS
  Threads = {p1, p2, c1, c2, w1}
  Posters = {p1, p2}
  Waiters = {c1, c2, w1}
  Cancellers = {c1, c2}
  Null = Null
  AbaRange = 65536
  InitialCount = 0
  MaxRounds <- Rounds
  Twice = {}
SYMMETRY Symmetry
SPECIFICATION Spec
INVARIANTS NoOverGrant ListIntegrity RemovalMatchesGrant
