SPECIFICATION FairSpec
CONSTANTS
  Servers = {s1, s2}
  NumWorkers = 1
  Sockets = {k1, k2}
  Clients = {c1, c2}
  Depths = {"small", "large"}
  None = None
INVARIANTS
  TypeOK
  DrainReachesServing
  DrainTellsAServer
  PreboundNeverReset
  ConnectionsHaveAnOwner
PROPERTIES
  ToldServersEnd
