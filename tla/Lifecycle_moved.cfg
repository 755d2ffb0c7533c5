SPECIFICATION FairSpec
CONSTANTS
  Apps = {a1}
  Sockets = {s1, s2}
  MaxThreads = 2
PROPERTY MovedStopReturns
