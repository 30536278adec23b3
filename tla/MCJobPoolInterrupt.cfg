SPECIFICATION Spec
CONSTANTS
  NumWorkers = 2
  NumTasks = 2
  Cap = 2
  RampUp = TRUE
  Paced = FALSE
  TaskTimeout = FALSE
  CtxEnds <- OnlyCancel
INVARIANT InterruptExits130
