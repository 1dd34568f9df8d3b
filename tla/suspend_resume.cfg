CONSTANTS
  Mutators = {t1, t2}
  Jdwp = jdwp
  Nobody = nobody
  Policies = {"thread"}
  Requests = {"suspend", "resume"}
  Collectors = {t1}
  Posters = {t2}
  Listers = {}
  MaxCount = 2
  MaxDebt = 1
SPECIFICATION Spec
INVARIANTS
  GcKeepsThreads
CHECK_DEADLOCK FALSE
