CONSTANTS
  Threads = {t1, c1, c2}
  Cancellers = {c1, c2}
  Null = Null
  AbaRange = 65536
  SpinCount = 1
  MaxRounds <- Rounds
  Twice = {t1, c1}
SPECIFICATION FairSpec
INVARIANTS
  TypeOK MutualExclusion ListIntegrity RemovalMatchesGrant AssertionsHold
  InductiveInvariant
PROPERTIES IsLifoLock EveryRequestEnds
