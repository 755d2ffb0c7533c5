---------------------------- MODULE ReliableStream ----------------------------
(***************************************************************************)
(* What the sending half of a reliable byte stream promises: bytes are     *)
(* given to the network in the order they were written, none twice, and a  *)
(* byte is kept for retransmission until the peer acknowledged it.  Bytes  *)
(* go in segments, and a segment may be kept until all of it is            *)
(* acknowledged: a sender may keep a byte longer, but not take one back.   *)
(*                                                                         *)
(* A byte is its position in the stream.                                   *)
(***************************************************************************)
EXTENDS Integers

VARIABLES
  written,   \* number of bytes the application wrote
  given,     \* of them, those given to the network
  acked,     \* of those, the ones the peer acknowledged
  kept       \* the bytes kept for retransmission

vars == <<written, given, acked, kept>>

Init == written = 0 /\ given = 0 /\ acked = 0 /\ kept = {}

Write ==
  /\ written' \in Nat /\ written' > written
  /\ UNCHANGED <<given, acked, kept>>

Send ==
  /\ given' \in given + 1 .. written
  /\ kept' = kept \cup given .. given' - 1
  /\ UNCHANGED <<written, acked>>

Acknowledge ==
  /\ acked' \in acked + 1 .. given
  /\ kept' \subseteq kept
  /\ \A b \in kept : b >= acked' => b \in kept'
  /\ UNCHANGED <<written, given>>

Next == Write \/ Send \/ Acknowledge

Spec == Init /\ [][Next]_vars
=============================================================================
