SPECIFICATION Spec
CONSTANTS
  j1 = j1
  j2 = j2
  c1 = c1
  s1 = s1
  s2 = s2
  NoJob = NoJob
  Jobs <- TwoJobs
  CancelCalls = {c1}
  Instances <- TwoServers
  Cleaners = {s1}
  HomeOf <- Spread
  JobHistory = 1
  JobTTL = TRUE
  MaxFailures = 1
INVARIANTS TypeOK IndicesAgree DeleteResumable
PROPERTY ActiveKeptUnlessCancelled
