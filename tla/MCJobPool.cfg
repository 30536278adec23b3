SPECIFICATION FairSpec
CONSTANTS
  NumWorkers = 3
  NumTasks = 3
  Cap = 2
  RampUp = TRUE
  Paced = TRUE
  TaskTimeout = TRUE
  CtxEnds <- BothEnds
INVARIANTS TypeOK TaskInOnePlace ExitCodeFaithful ReportExact QuietOnReturn
PROPERTIES NoWorkAfterCtxEnd ImplementsBatch PoolReturns NothingLeaks
