CONSTANTS
  Tasks = {a}
  Throwing = {}
  Workers = {w1}
  mMaxThreadCount = 1
SPECIFICATION FairSpec
PROPERTY DestructorJoins
