SPECIFICATION FairSpec
CONSTANTS
  Workers = {w1}
  Runner = Runner
  NumResults = 2
  Sse = {s1}
  Ws = {c1}
  BufCap = 1
  WSMaxClients = 1
  RampUp = TRUE
INVARIANTS TypeOK NoSendOnClosed StreamInOrder StreamComplete
PROPERTIES SubscribedEnds
