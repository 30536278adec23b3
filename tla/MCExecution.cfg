SPECIFICATION FairDeliverySpec
CONSTANTS
  Workers = {w1, w2}
  NoWorker = NoWorker
  Counters = {"c"}
  Files = {"f"}
  MaxLines = 2
  Requests <- AllRequests
  CtxEnds = {"deadline"}
  CallbackRetry = 1
INVARIANTS TemplateTypeOK CountsOnce LinesInTurn PipelineTypeOK StepsInOrder OkMeansRun
           DeliveryTypeOK ToldOneVerdict CompletedMeansDone RepeatedOnlyUnaccepted 
PROPERTIES CachedOnce ImplementsDispenser NoStepAfterCtxEnd JobEnds
