SPECIFICATION FairSpec
CONSTANTS
  Apps = {a1, a2}
  Sockets = {s1, s2}
  MaxThreads = 3
INVARIANTS EveryThreadHasOneOwner UnmovedIsThere StopIsSeen
PROPERTY StopReturns
