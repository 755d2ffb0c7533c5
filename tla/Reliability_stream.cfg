SPECIFICATION Spec
CONSTANTS
  SeqMod = 16
  InitialSeqs = {1, 3, 8, 13}
  Windows = {1, 3}
  InitialWindow = 3
  Sizes = {1, 2, 3}
  MaxRetransmits = 1
  MaxBytes = 5
INVARIANTS TypeOK RetainedUntilAcked NeverOvercounts BoundedRetransmits SegmentsTileTheStream
PROPERTY ImplementsStream
