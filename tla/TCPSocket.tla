------------------------------ MODULE TCPSocket ------------------------------
(***************************************************************************)
(* Class TCPSocket: one socket, with the application thread that calls it, *)
(* its packet processor thread, its TCPReliability and the process's       *)
(* TCPConnectionManager, which other sockets use at the same time.         *)
(*                                                                         *)
(* TCPConnectionManager (M) and TCPReliability (R) are the modules of that *)
(* name over the variables declared here: every call a thread makes on     *)
(* them is a step, or several, of theirs.  What the socket adds is         *)
(*                                                                         *)
(*   app                where the application thread stands in a call of   *)
(*                      the socket; `left' bytes of a send are still to be *)
(*                      sent, of which segment `seg' is on its way         *)
(*   packet_processor_  the thread: "none" (not joinable), "check" (at the *)
(*                      loop condition), "woken", "retransmit" (going      *)
(*                      through its list), "finished" (not joined yet)     *)
(*   shared             history: connections other sockets have been given *)
(*                                                                         *)
(* Nothing calls process_received_data or process_ack: receive_buffer_ is  *)
(* empty in every state and left out, and nothing is ever acknowledged.    *)
(* bind only sets the address that listen and connect take as parameter.   *)
(***************************************************************************)
EXTENDS Naturals

CONSTANTS
  App,             \* the application thread of the socket
  Processor,       \* its packet processor thread
  Others,          \* threads of the process that use other sockets
  LocalEndpoints, RemoteEndpoints, MaxConnections, SeqMod, InitialSeqs,
  MaxData, Arrivals, IpMayFail, NoEndpoint, NoSegment,  \* see TCPConnectionManager
  Window,          \* the windows, which nothing changes, 65535 in the code
  Chunk,           \* largest segment of a send, 1024 in the code
  MaxRetransmits,  \* max_retransmits_
  MaxBytes         \* bound: bytes given to send in a behaviour

VARIABLES
  raw_valid, listening_sockets, allocated, conn, connections, handed, wire, thread,
  next_seq_num_, last_ack_received_, send_buffer_, created, segment,
  unacked_segments_, bytes_in_flight_, send_window_size_, remote_window_size_,
  to_retransmit, isn, sent, acked,
  connection_,       \* the connection the socket holds
  is_listening_,
  packet_processor_,
  should_stop_,
  app,
  shared

Threads == {App, Processor} \cup Others

M == INSTANCE TCPConnectionManagerSafety
R == INSTANCE TCPReliability WITH
       InitialSeqs <- 0 .. SeqMod - 1, Windows <- {Window}, InitialWindow <- Window,
       Sizes <- 1 .. MaxBytes

ASSUME SocketAssumption ==
  /\ M!ManagerAssumption
  /\ R!ReliabilityAssumption
  /\ App # Processor
  /\ {App, Processor} \cap Others = {}
  /\ Chunk \in 1 .. MaxData
  /\ Window \in 0 .. SeqMod - 1

manager == <<raw_valid, listening_sockets, allocated, conn, connections, handed,
             wire, thread>>
reliability == <<next_seq_num_, last_ack_received_, send_buffer_, created, segment,
                 unacked_segments_, bytes_in_flight_, send_window_size_,
                 remote_window_size_, to_retransmit, isn, sent, acked>>
socket == <<connection_, is_listening_, packet_processor_, should_stop_>>
vars == <<manager, reliability, socket, app, shared>>

Label == {"new", "idle", "closed", "connect", "accept", "set_initial_seq", "start",
          "send", "transmit", "wait", "wait_for", "join", "close", "established", "closing"}

At(label) == [at |-> label, left |-> 0, seg |-> 0]

Init ==
  /\ M!Init
  /\ R!Init
  /\ connection_ = M!NoConn
  /\ is_listening_ = FALSE
  /\ packet_processor_ = "none"
  /\ should_stop_ = FALSE
  /\ app = At("new")
  /\ shared = {}

\* The application is in no call of the socket.
Free == app.at \in {"idle", "closed"}

is_connected ==
  connection_ # M!NoConn /\ M!is_established(conn[connection_].state)

\* accept_connection returns the first of these, if there is one.
Established == {c \in connections : M!is_established(conn[c].state)}

-----------------------------------------------------------------------------
(* Construction, listen, accept and connect *)

\* The constructor of a socket of its own.
TCPSocket ==
  /\ app.at = "new" /\ thread[App].at = "idle"
  /\ app' = At("idle")
  /\ UNCHANGED <<manager, reliability, socket, shared>>

\* This thread accepts on another socket, to get this one.
accept_new ==
  /\ app.at = "new"
  /\ M!accept_connection(App)
  /\ UNCHANGED <<reliability, socket, app, shared>>

\* The constructor of an accepted socket, when there is a connection for it.
TCPSocket_accepted ==
  /\ app.at = "new"
  /\ M!accept_return(App)
  /\ \/ /\ M!First(Established) = {}
        /\ UNCHANGED <<connection_, app>>
     \/ /\ connection_' \in M!First(Established)
        /\ app' = At("set_initial_seq")
  /\ UNCHANGED <<reliability, is_listening_, packet_processor_, should_stop_, shared>>

listen(local) ==
  /\ Free
  /\ M!listen(App, local)
  /\ is_listening_' = TRUE
  /\ app' = At("start")
  /\ UNCHANGED <<reliability, connection_, packet_processor_, should_stop_, shared>>

accept ==
  /\ Free /\ is_listening_
  /\ M!accept_connection(App)
  /\ app' = At("accept")
  /\ UNCHANGED <<reliability, socket, shared>>

\* What accept returns is a socket of its own.
accept_return ==
  /\ app.at = "accept"
  /\ M!accept_return(App)
  /\ shared' = shared \cup M!First(Established)
  /\ app' = At("idle")
  /\ UNCHANGED <<reliability, socket>>

\* The drain loop of an accept of this thread.
accept_receive ==
  /\ app.at \in {"new", "accept"}
  /\ M!Continue(App) \/ \E seg \in Arrivals : M!process_incoming_segment(App, seg)
  /\ UNCHANGED <<reliability, socket, app, shared>>

\* connect does not look whether the socket has a connection.
connect(local, remote) ==
  /\ Free
  /\ M!connect(App, local, remote)
  /\ app' = At("connect")
  /\ UNCHANGED <<reliability, socket, shared>>

\* A mutant: the connection is kept although connect failed.
connect_keeps_failed ==
  /\ app.at = "connect"
  /\ M!Continue(App)
  /\ \/ thread'[App].at # "idle" /\ UNCHANGED <<connection_, app>>
     \/ /\ thread'[App].at = "idle"
        /\ connection_' = thread[App].conn
        /\ app' = At("set_initial_seq")
  /\ UNCHANGED <<reliability, is_listening_, packet_processor_, should_stop_, shared>>

\* The manager's connect returns the connection, or nullptr after a refused SYN.
connect_continue ==
  /\ app.at = "connect"
  /\ M!Continue(App)
  /\ \/ /\ thread'[App].at # "idle"
        /\ UNCHANGED <<connection_, app>>
     \/ /\ thread[App].at = "syn" /\ thread'[App].at = "idle"
        /\ connection_' = thread[App].conn
        /\ app' = At("set_initial_seq")
     \/ /\ thread[App].at = "drop"
        /\ connection_' = M!NoConn
        /\ app' = At("idle")
  /\ UNCHANGED <<reliability, is_listening_, packet_processor_, should_stop_, shared>>

set_initial_seq ==
  /\ app.at = "set_initial_seq"
  /\ next_seq_num_' = conn[connection_].local_seq
  /\ isn' = conn[connection_].local_seq
  /\ app' = At("start")
  /\ UNCHANGED <<manager, socket, shared, last_ack_received_, send_buffer_, created,
                 segment, unacked_segments_, bytes_in_flight_, send_window_size_,
                 remote_window_size_, to_retransmit, sent, acked>>

\* A mutant: the flag of an earlier stop is not cleared.
start_still_stopped ==
  /\ app.at = "start"
  /\ packet_processor_' = IF packet_processor_ = "none" THEN "check" ELSE packet_processor_
  /\ app' = At("idle")
  /\ UNCHANGED <<manager, reliability, connection_, is_listening_, should_stop_, shared>>

\* connect then sleeps, and returns is_connected.
start_packet_processor ==
  /\ app.at = "start"
  /\ \/ /\ packet_processor_ = "none"
        /\ should_stop_' = FALSE
        /\ packet_processor_' = "check"
     \/ /\ packet_processor_ # "none"
        /\ UNCHANGED <<should_stop_, packet_processor_>>
  /\ app' = At("idle")
  /\ UNCHANGED <<manager, reliability, connection_, is_listening_, shared>>

-----------------------------------------------------------------------------
(* send and recv *)

\* The manager's send_segment may return false for connection c.
Refused(c) == c # M!NoConn => \E ok \in M!IpSend : ~M!Sends(conn[c], ok)

send(length) ==
  /\ Free /\ is_connected
  /\ R!buffer_data(length)
  /\ app' = [at |-> "send", left |-> length, seg |-> 0]
  /\ UNCHANGED <<manager, socket, shared>>

send_chunk ==
  /\ app.at = "send" /\ thread[App].at = "idle"
  /\ app.left > 0 /\ R!can_send_data(Chunk)
  /\ R!get_data_to_send(Chunk)
  /\ app' = [app EXCEPT !.at = "transmit", !.seg = created + 1]
  /\ UNCHANGED <<manager, socket, shared>>

\* A segment the manager refuses ends the call, and stays in unacked_segments_.
send_transmit ==
  /\ app.at = "transmit" /\ thread[App].at = "idle"
  /\ \/ M!send_data(App, connection_, segment[app.seg].len) /\ UNCHANGED app
     \/ Refused(connection_) /\ app' = At("idle") /\ UNCHANGED manager
  /\ UNCHANGED <<reliability, socket, shared>>

\* The chunk may hold bytes of earlier calls, and be longer than what is left.
send_advance ==
  LET len == segment[app.seg].len IN
  /\ app.at = "transmit"
  /\ M!send_data_advance(App)
  /\ app' = [at |-> "send", left |-> IF app.left > len THEN app.left - len ELSE 0,
             seg |-> 0]
  /\ UNCHANGED <<reliability, socket, shared>>

send_return ==
  /\ app.at = "send"
  /\ app.left = 0 \/ ~R!can_send_data(Chunk) \/ R!BytesToSend(Chunk) = 0
  /\ app' = At("idle")
  /\ UNCHANGED <<manager, reliability, socket, shared>>

\* receive_buffer_ is empty: a blocking recv waits, with a timeout or without;
\* a non-blocking one returns at once and changes nothing.
recv ==
  /\ Free /\ is_connected
  /\ \E label \in {"wait", "wait_for"} : app' = At(label)
  /\ UNCHANGED <<manager, reliability, socket, shared>>

recv_timeout ==
  /\ app.at = "wait_for"
  /\ app' = At("idle")
  /\ UNCHANGED <<manager, reliability, socket, shared>>

\* Nobody notifies receive_cv_: the predicate is read again only if the wait
\* ends by itself, as a condition variable's may.
recv_wake ==
  /\ app.at = "wait" /\ ~is_connected
  /\ app' = At("idle")
  /\ UNCHANGED <<manager, reliability, socket, shared>>

-----------------------------------------------------------------------------
(* close *)

close ==
  /\ Free
  /\ should_stop_' = TRUE
  /\ app' = At("join")
  /\ UNCHANGED <<manager, reliability, connection_, is_listening_, packet_processor_,
                 shared>>

\* A mutant: the thread is detached and not waited for.
close_detach ==
  /\ app.at = "join"
  /\ app' = At("close")
  /\ UNCHANGED <<manager, reliability, socket, shared>>

close_join ==
  /\ app.at = "join"
  /\ packet_processor_ \in {"none", "finished"}
  /\ packet_processor_' = "none"
  /\ app' = At("close")
  /\ UNCHANGED <<manager, reliability, connection_, is_listening_, should_stop_, shared>>

ResetConnection ==
  /\ connection_' = M!NoConn
  /\ is_listening_' = FALSE
  /\ app' = At("closed")

\* Only a connection that is ESTABLISHED is closed; any is let go.
close_check ==
  /\ app.at = "close"
  /\ \/ is_connected /\ app' = At("established") /\ UNCHANGED <<connection_, is_listening_>>
     \/ ~is_connected /\ ResetConnection
  /\ UNCHANGED <<manager, reliability, packet_processor_, should_stop_, shared>>

\* The state may have changed since: the manager closes the connection all the same.
close_connection ==
  /\ app.at = "established"
  /\ M!close_connection(App, connection_)
  /\ app' = At("closing")
  /\ UNCHANGED <<reliability, socket, shared>>

close_continue ==
  /\ app.at = "closing"
  /\ M!Continue(App)
  /\ \/ thread'[App].at # "idle" /\ UNCHANGED <<connection_, is_listening_, app>>
     \/ thread'[App].at = "idle" /\ ResetConnection
  /\ UNCHANGED <<reliability, packet_processor_, should_stop_, shared>>

-----------------------------------------------------------------------------
(* packet_processing_loop *)

\* A mutant: the loop never looks at the flag.
loop_for_ever ==
  /\ packet_processor_ = "check"
  /\ packet_processor_' = "woken"
  /\ UNCHANGED <<manager, reliability, connection_, is_listening_, should_stop_, app,
                 shared>>

loop_check ==
  /\ packet_processor_ = "check"
  /\ packet_processor_' = IF should_stop_ THEN "finished" ELSE "woken"
  /\ UNCHANGED <<manager, reliability, connection_, is_listening_, should_stop_, app,
                 shared>>

\* After the sleep: the list of the segments that are due.
loop_collect ==
  /\ packet_processor_ = "woken"
  /\ \/ /\ connection_ = M!NoConn
        /\ packet_processor_' = "check"
        /\ UNCHANGED reliability
     \/ /\ connection_ # M!NoConn
        /\ R!get_segments_to_retransmit
        /\ packet_processor_' = "retransmit"
  /\ UNCHANGED <<manager, connection_, is_listening_, should_stop_, app, shared>>

\* A retransmission is a send_segment on the connection of the moment; the
\* segment counts as sent whether or not it was.
loop_retransmit ==
  /\ packet_processor_ = "retransmit" /\ thread[Processor].at = "idle"
  /\ \E n \in M!First(to_retransmit) :
       \/ M!send_data(Processor, connection_, segment[n].len) /\ UNCHANGED reliability
       \/ Refused(connection_) /\ R!mark_segment_sent(n) /\ UNCHANGED manager
  /\ UNCHANGED <<socket, app, shared>>

loop_advance ==
  /\ M!send_data_advance(Processor)
  /\ \E n \in M!First(to_retransmit) : R!mark_segment_sent(n)
  /\ UNCHANGED <<socket, app, shared>>

loop_again ==
  /\ packet_processor_ = "retransmit" /\ to_retransmit = {}
  /\ packet_processor_' = "check"
  /\ UNCHANGED <<manager, reliability, connection_, is_listening_, should_stop_, app,
                 shared>>

-----------------------------------------------------------------------------
(* The threads of other sockets *)

\* They connect and accept, and use what they got as a TCPSocket does.
OtherCall(u) ==
  \/ M!accept_connection(u)
  \/ \E local \in LocalEndpoints, remote \in RemoteEndpoints : M!connect(u, local, remote)
  \/ \E c \in shared \cap Established : M!close_connection(u, c)
  \/ \E c \in shared, len \in 1 .. Chunk : M!send_data(u, c, len)

OtherStep(u) ==
  \/ /\ \/ OtherCall(u)
        \/ M!Continue(u)
        \/ \E seg \in Arrivals : M!process_incoming_segment(u, seg)
     /\ shared' = shared \cup (handed' \ handed)
  \/ /\ M!accept_return(u)
     /\ shared' = shared \cup M!First(Established)

Other ==
  /\ \E u \in Others : OtherStep(u)
  /\ UNCHANGED <<reliability, socket, app>>

-----------------------------------------------------------------------------

AppBegin ==
  \/ TCPSocket
  \/ accept_new
  \/ accept
  \/ close
  \/ recv
  \/ \E local \in LocalEndpoints : listen(local)
  \/ \E local \in LocalEndpoints, remote \in RemoteEndpoints : connect(local, remote)
  \/ \E length \in 1 .. MaxBytes : send(length)

AppContinue ==
  \/ connect_continue
  \/ set_initial_seq
  \/ start_packet_processor
  \/ send_chunk
  \/ send_transmit
  \/ send_advance
  \/ send_return
  \/ recv_timeout
  \/ close_join
  \/ close_check
  \/ close_connection
  \/ close_continue

Loop ==
  \/ loop_check
  \/ loop_collect
  \/ loop_retransmit
  \/ loop_advance
  \/ loop_again

Next ==
  \/ AppBegin
  \/ AppContinue
  \/ Loop
  \/ TCPSocket_accepted
  \/ accept_return
  \/ accept_receive
  \/ recv_wake
  \/ Other

Spec == Init /\ [][Next]_vars

\* Every segment that may be retransmitted is due when the loop looks.
AllAreDue ==
  /\ loop_collect
  /\ to_retransmit' = R!Retransmittable(unacked_segments_)

\* Calls that do not wait go on, the loop goes round, and from time to time it
\* comes when rto_ has passed for every segment.
Fairness == WF_vars(AppContinue) /\ WF_vars(Loop) /\ SF_vars(AllAreDue)
FairSpec == Spec /\ Fairness
-----------------------------------------------------------------------------
\* The manager's, the reliability's and the socket's variables have their types;
\* the connection the socket holds, and every one another socket has, was handed
\* out by the manager.
TypeOK ==
  /\ M!TypeOK
  /\ R!TypeOK
  /\ connection_ \in handed \cup {M!NoConn}
  /\ shared \subseteq handed
  /\ is_listening_ \in BOOLEAN
  /\ packet_processor_ \in {"none", "check", "woken", "retransmit", "finished"}
  /\ should_stop_ \in BOOLEAN
  /\ app \in [at : Label, left : 0 .. MaxBytes, seg : 0 .. MaxBytes]

\* After close has returned, and until the next call, nothing of the socket is
\* left at work: no segment of its stream is sent, taken or counted, and
\* neither of its threads is inside the manager.  (close, stop_packet_processor,
\* packet_processing_loop)
QuietAfterClose ==
  [][app.at = "closed" /\ app'.at = "closed" =>
       /\ packet_processor_ = "none"
       /\ UNCHANGED <<reliability, socket, thread[App], thread[Processor]>>]_vars

\* Nothing is acknowledged, so the socket never gives out more than one window of
\* bytes, in all the calls of send together.  (send, can_send_data,
\* get_data_to_send)
WithinWindow == sent <= R!get_effective_window

\* The threads are inside the manager only where a call of the socket puts them,
\* and the packet processor is gone when close gets to the connection.
ThreadsInPhase ==
  /\ thread[App].at # "idle"
       => app.at \in {"new", "accept", "connect", "transmit", "closing"}
  /\ thread[Processor].at # "idle"
       => /\ thread[Processor].at = "advance"
          /\ packet_processor_ = "retransmit"
          /\ to_retransmit # {}
  /\ app.at \in {"close", "established", "closing", "closed"} => packet_processor_ = "none"
  /\ app.at \in {"set_initial_seq", "established"} => connection_ # M!NoConn

\* What is out is in flight, in segments no longer than Chunk.
SegmentsInPhase ==
  /\ bytes_in_flight_ = sent
  /\ created <= sent
  /\ \A n \in 1 .. created : segment[n].len \in 1 .. Chunk
  /\ app.at = "transmit" => app.seg \in 1 .. created
  /\ R!BoundedRetransmits

\* The inductive invariant of the socket.
IInv == TypeOK /\ WithinWindow /\ ThreadsInPhase /\ SegmentsInPhase

\* A close that has begun returns, whatever the packet processor is doing.
\* (close, stop_packet_processor, packet_processing_loop)
CloseReturns == app.at = "join" ~> app.at = "closed"

\* The socket is connected and keeps a segment that is not given up.
HasToSendAgain ==
  /\ is_connected /\ raw_valid
  /\ \E n \in unacked_segments_ : segment[n].retransmit_count < MaxRetransmits

\* A segment that is kept and not given up is sent again, by a loop that is there
\* and not about to end, as long as the socket is connected and no close begins:
\* on its first connection, and on one it got by another connect after a close.
\* To mark a segment without sending it is not enough.
\* (start_packet_processor, packet_processing_loop, get_segments_to_retransmit)
KeptIsSentAgain ==
  HasToSendAgain
    ~> \/ thread[Processor].at = "advance"
       \/ ~is_connected
       \/ app.at \in {"join", "close", "established", "closing"}

-----------------------------------------------------------------------------
(* What the documentation says and the code does not do *)

\* README "Sequence number management": a segment goes out under its own number.
\* (packet_processing_loop, send, send_segment)
SegmentsKeepTheirNumbers ==
  [][/\ loop_retransmit /\ thread'[Processor].at = "advance"
     => \A n \in M!First(to_retransmit), s \in wire' : s.seq = segment[n].seq_num]_vars
=============================================================================
