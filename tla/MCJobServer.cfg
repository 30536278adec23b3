SPECIFICATION Spec
CONSTANTS
  r1 = r1
  r2 = r2
  k1 = k1
  NoKey = NoKey
  NoJob = NoJob
  Submissions <- TwoSubmissions
  Keys <- OneKey
  KeyOf <- SameKey
  SyncRequests = {s1}
  CancelCalls = {c1}
  WithCallback <- OnlySecond
  Timed <- OnlyFirst
  MayAbort = TRUE
  Stores = {"memory", "sqlite"}
  MaxConcurrentJobs = 1
  JobHistory = 1
  JobTTL = TRUE
INVARIANTS TypeOK VerdictKept StatusJustified KeyKept
PROPERTIES NoReturnFromTerminal
