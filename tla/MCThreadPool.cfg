CONSTANTS
  Tasks = {a, b, c, d}
  Throwing = {d}
  Workers = {w1, w2, w3}
  mMaxThreadCount = 3
SPECIFICATION FairSpec
INVARIANTS TypeOK RunOnce WorkIsAttended QuietWhenDestroyed
PROPERTY EveryTaskRuns
