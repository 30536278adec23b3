SPECIFICATION Spec
CONSTANTS
  j1 = j1
  j2 = j2
  c1 = c1
  s1 = s1
  s2 = s2
  NoJob = NoJob
  Jobs <- OneJob
  CancelCalls = {c1}
  Instances <- TwoServers
  Cleaners = {s2}
  HomeOf <- Apart
  JobHistory = 0
  JobTTL = TRUE
  MaxFailures = 0
PROPERTY ActiveKept
