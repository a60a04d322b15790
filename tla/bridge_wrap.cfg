SPECIFICATION Spec
CONSTANTS
  r1 = r1
  r2 = r2
  r3 = r3
  h1 = h1
  Requests = {r1, r2, r3}
  Handlers = {h1}
  NumWorkers = 2
  MaxQueueDepth = 1
  IdSpace = 2
  Route <- AllPhp
  HasValidator = TRUE
  None = None
  Closed = Closed
SYMMETRY Symmetry
INVARIANTS
  TypeOK
  ForeignResultNeedsWrap
  EmptyResultNeedsWrap
  WaiterIsReachable
  LeakOnlyByAbandonment
  ParkedOnlyWhenFull
  ActiveAccounting
PROPERTIES
  RespondReachesItsClient
  LineIsFifo
  OnlyPollEndsAStall
