SPECIFICATION FairSpec
CONSTANTS
  r1 = r1
  r2 = r2
  r3 = r3
  h1 = h1
  Requests = {r1, r2, r3}
  Handlers = {h1}
  NumWorkers = 2
  MaxQueueDepth = 1
  IdSpace = 4
  Route <- Mixed
  HasValidator = TRUE
  None = None
  Closed = Closed
PROPERTIES
  ImplementsGateway
  ForwardedRequestsEnd
