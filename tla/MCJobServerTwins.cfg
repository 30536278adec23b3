SPECIFICATION Spec
CONSTANTS
  r1 = r1
  r2 = r2
  k1 = k1
  NoKey = NoKey
  NoJob = NoJob
  Submissions <- TwoSubmissions
  Keys <- OneKey
  KeyOf <- SameKey
  SyncRequests = {}
  CancelCalls = {}
  WithCallback = {}
  Timed = {}
  MayAbort = TRUE
  Stores = {"memory"}
  MaxConcurrentJobs = 1
  JobHistory = 0
  JobTTL = FALSE
INVARIANT OneJobPerKey
