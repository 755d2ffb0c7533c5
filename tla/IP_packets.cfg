SPECIFICATION Spec
CONSTANTS
  LittleEndian = TRUE
  Addresses <- SomeAddresses
  Protocols = {6}
  Lengths <- SomeLengths
  Sizes <- SomeSizes
  Changed <- SomeBytes
  Ids <- SomeIds
INVARIANTS RoundTrip DamagedIsRefused PayloadIsInside MissingInWholeWords KernelPacketsByByteOrder
CHECK_DEADLOCK FALSE
