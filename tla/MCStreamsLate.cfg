SPECIFICATION FairSpec
CONSTANTS
  Workers = {w1}
  Runner = Runner
  NumResults = 1
  Sse = {s1}
  Ws = {}
  BufCap = 1
  WSMaxClients = 1
  RampUp = FALSE
PROPERTY StreamEnds
