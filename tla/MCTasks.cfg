CONSTANTS
  main = main
  setter = setter
  getter = getter
  Threads = {main, setter, getter}
  Users = {main, setter, getter}
  Main = main
  NoThread = NoThread
  Nobody = NoThread
  MayFail = {setter, getter}
  Catchers = {setter, main}
  Program <- ProgramOf
SPECIFICATION Spec
INVARIANTS TypeOK DataLifetime HandleIsJoinable ResultIsPublished
PROPERTY EveryThreadEnds
