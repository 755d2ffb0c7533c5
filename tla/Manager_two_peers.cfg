SPECIFICATION FairSpec
CONSTANTS
  Threads = {t1, t2}
  LocalEndpoints = {l1}
  RemoteEndpoints = {r1, r2}
  MaxConnections = 2
  SeqMod = 1
  InitialSeqs = {0}
  MaxData = 0
  Arrivals <- TwoPeersArrivals
  IpMayFail = TRUE
  NoEndpoint = NoEndpoint
  NoSegment = NoSegment
INVARIANTS CallsInPhase TransientStates UsedOnlyOnceOpened
PROPERTIES ClosedIsFinal TransientStatesPass
