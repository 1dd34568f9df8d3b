CONSTANTS
  Mutators = {t1, t2}
  Jdwp = jdwp
  Nobody = nobody
  Policies = {"all", "thread"}
  Requests = {"suspendVM", "resumeVM", "suspend", "resume"}
  Collectors = {t1, t2}
  Posters = {t2}
  Listers = {t2}
  MaxCount = 2
  MaxDebt = 1
SPECIFICATION FairSpec
INVARIANTS
  TypeOK
  StopTheWorld
  CountsCover
  SleeperHasWaker
PROPERTIES
  SuspendAllCompletes
CHECK_DEADLOCK FALSE
