----------------------- MODULE MCTCPConnectionManager -----------------------
(***************************************************************************)
(* Small instances of TCPConnectionManager.                                *)
(***************************************************************************)
EXTENDS TCPConnectionManager, TLC

\* Every combination of the four flags the dispatch looks at, with and
\* without payload.
AllFlagArrivals ==
  [src : RemoteEndpoints, dst : LocalEndpoints,
   flags : SUBSET {"SYN", "ACK", "FIN", "RST"}, seq : SeqNum, len : 0 .. MaxData]

\* One segment for each branch of the dispatch, with and without payload.
BranchArrivals ==
  {seg \in AllFlagArrivals :
     seg.flags \in {{"SYN"}, {"SYN", "ACK"}, {"ACK"}, {"FIN"}, {"RST"}, {}}}

\* One of the peers sends all of these, the other only opens connections.
TwoPeersArrivals ==
  {seg \in BranchArrivals :
     seg.flags = {"SYN"} \/ seg.src = CHOOSE r \in RemoteEndpoints : TRUE}

\* A SYN+ACK, and the last data of a peer with the FIN and the ACK flag that
\* any TCP sets on it.
FinAckArrivals ==
  {seg \in AllFlagArrivals :
     \/ seg.flags = {"SYN", "ACK"} /\ seg.len = 0
     \/ seg.flags = {"FIN", "ACK"} /\ seg.len > 0}

Symmetry == Permutations(Threads) \cup Permutations(RemoteEndpoints)
=============================================================================
