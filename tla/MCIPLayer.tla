------------------------------ MODULE MCIPLayer ------------------------------
(***************************************************************************)
(* A small instance of IPLayer: addresses of little and of large bytes,    *)
(* payloads about the sizes at which the length wraps, and one with which  *)
(* the two bytes of a checksum are the same.                               *)
(***************************************************************************)
EXTENDS IPLayer

SomeAddresses == {<<10, 0, 0, 1>>, <<255, 255, 254, 255>>}
SomeLengths == {0, 1, 189, 65515, 65516, 65535, 65537}
SomeSizes == {0, 19, 20, 21}
SomeBytes == {0, 1, 64, 68, 70, 79, 85, 128, 255}
SomeIds == {65535, 0}
=============================================================================
