CONSTANTS
  Mutators = {t1, t2}
  Jdwp = jdwp
  Nobody = nobody
  Policies = {"all"}
  Requests = {"resumeVM"}
  Collectors = {t1}
  Posters = {t2}
  Listers = {}
  MaxCount = 2
  MaxDebt = 0
SPECIFICATION FairLocksSpec
PROPERTIES
  DisconnectResumes
CHECK_DEADLOCK FALSE
