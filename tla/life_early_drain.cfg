SPECIFICATION FairSpec
CONSTANTS
  Servers = {s1}
  NumWorkers = 1
  Sockets = {k1}
  Clients = {c1}
  Depths = {"small", "large"}
  None = None
PROPERTIES
  DrainEndsServers
