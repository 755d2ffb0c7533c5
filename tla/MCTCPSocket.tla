----------------------------- MODULE MCTCPSocket -----------------------------
(***************************************************************************)
(* Small instances of TCPSocket.                                           *)
(***************************************************************************)
EXTENDS TCPSocket

CONSTANTS l1, r1

\* A segment of the peer with these flags.
Arrival(flags) == [src |-> r1, dst |-> l1, flags |-> flags, seq |-> 0, len |-> 0]

\* What establishes a connection.
OpenOnly == {Arrival({"SYN", "ACK"})}

\* A second connection is one that the socket makes when it is closed, after the
\* first was given out; from then on nobody listens, this socket does not wait in
\* accept or recv, and the others only accept.
SecondIsAReconnect ==
  allocated' = 2
    => /\ 1 \in handed
       /\ allocated = 1 => app.at = "closed"
       /\ listening_sockets' = {}
       /\ app'.at \notin {"accept", "wait", "wait_for"}
       /\ \A u \in Others : thread[u].at = "idle" => thread'[u].at \in {"idle", "receive"}
=============================================================================
