SPECIFICATION Spec
CONSTANTS
  LittleEndian = TRUE
  Addresses <- SomeAddresses
  Protocols = {6}
  Lengths <- SomeLengths
  Sizes <- SomeSizes
  Changed <- SomeBytes
  Ids <- SomeIds
INVARIANT SentIsAccepted
CHECK_DEADLOCK FALSE
