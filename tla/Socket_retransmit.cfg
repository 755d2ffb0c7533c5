SPECIFICATION Spec
CONSTANTS
  App = app_thread
  Processor = processor_thread
  Others = {other}
  l1 = l1
  r1 = r1
  LocalEndpoints = {l1}
  RemoteEndpoints = {r1}
  MaxConnections = 1
  SeqMod = 2
  InitialSeqs = {0}
  MaxData = 1
  Arrivals <- OpenOnly
  IpMayFail = FALSE
  NoEndpoint = NoEndpoint
  NoSegment = NoSegment
  Window = 1
  Chunk = 1
  MaxRetransmits = 1
  MaxBytes = 1
PROPERTY SegmentsKeepTheirNumbers
