SPECIFICATION Spec
CONSTANTS
  Threads = {t1}
  LocalEndpoints = {l1}
  RemoteEndpoints = {r1}
  MaxConnections = 1
  SeqMod = 2
  InitialSeqs = {0, 1}
  MaxData = 0
  Arrivals <- BranchArrivals
  IpMayFail = FALSE
  NoEndpoint = NoEndpoint
  NoSegment = NoSegment
PROPERTY SynIsAnswered
