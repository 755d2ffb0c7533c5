SPECIFICATION Spec
CONSTANTS
  Threads = {t1, t2, t3}
  LocalEndpoints = {l1}
  RemoteEndpoints = {r1}
  MaxConnections = 1
  SeqMod = 1
  InitialSeqs = {0}
  MaxData = 1
  Arrivals <- BranchArrivals
  IpMayFail = TRUE
  NoEndpoint = NoEndpoint
  NoSegment = NoSegment
SYMMETRY Symmetry
INVARIANTS TypeOK CallsInPhase TransientStates
PROPERTY ClosedIsFinal
