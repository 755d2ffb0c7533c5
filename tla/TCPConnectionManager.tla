------------------------- MODULE TCPConnectionManager -------------------------
(***************************************************************************)
(* Class TCPConnectionManager: the one object, shared without a lock by    *)
(* every socket of a process, that owns the connections and the raw IP     *)
(* socket.  Threads are the application and packet-processor threads that  *)
(* call into it.                                                           *)
(*                                                                         *)
(* A call that reads shared state and acts on it later is several steps,   *)
(* and the frame of the calling thread says where the call stands:         *)
(*                                                                         *)
(*   process_event      "assign" (next state computed, to be compared with  *)
(*                      current_state_ and written to it)                  *)
(*   connect            "open" (pushed, CLOSED), "syn" (ACTIVE_OPEN        *)
(*                      processed), "drop" (send_syn failed)               *)
(*   close_connection   "fin" (CLOSE processed), "remove"                  *)
(*   send_segment       "advance" (sent, local_seq not yet advanced)       *)
(*   accept_connection  "receive" (drain loop); of the segment it handles, *)
(*                      "ack" (to be answered), "reset" (to be removed),   *)
(*                      "payload" (flags handled, payload not)             *)
(*                                                                         *)
(* connections_ is only ever extended by the object just allocated and     *)
(* std::remove keeps its order, so the vector is the set of the identities *)
(* in it, its order the order of allocation; an operation on the vector is *)
(* one step.  remote_seq, window_size and last_activity are written and    *)
(* never read: they are left out.                                          *)
(***************************************************************************)
EXTENDS Naturals, TCPStates

CONSTANTS
  Threads,         \* threads of the process
  LocalEndpoints,  \* (ip, port) pairs of this host
  RemoteEndpoints, \* (ip, port) pairs of peers
  MaxConnections,  \* bound: TCPConnection objects allocated in a behaviour
  SeqMod,          \* size of the sequence space, 2^32 in the code
  InitialSeqs,     \* numbers generate_sequence_number may give, all in the code
  MaxData,         \* bound: bytes after the 20-byte header of one segment
  Arrivals,        \* segments the network may deliver
  IpMayFail,       \* whether sendto may fail on a valid raw socket
  NoEndpoint,      \* address of an object not yet allocated
  NoSegment        \* no segment is being handled

ConnId == 1 .. MaxConnections
NoConn == 0

SeqNum == 0 .. SeqMod - 1
SeqPlusUnbounded(seq, n) == seq + n   \* a mutant: the sum does not wrap
SeqPlus(seq, n) == (seq + n) % SeqMod

\* Flags a handler or a sender names; ack_num of an arriving segment, its
\* window and its data offset are not read by any handler.
Flag == {"SYN", "ACK", "FIN", "RST", "PSH"}

Segment == [src : RemoteEndpoints, dst : LocalEndpoints, flags : SUBSET Flag,
            seq : SeqNum, len : 0 .. MaxData]

\* What this host has put on the wire, by the connection that sent it.
Transmission == [conn : ConnId, flags : SUBSET Flag, seq : SeqNum, ack : SeqNum,
                 len : 0 .. MaxData]

TCPConnection == [local     : LocalEndpoints \cup {NoEndpoint},
                  remote    : RemoteEndpoints \cup {NoEndpoint},
                  local_seq : SeqNum,
                  local_ack : SeqNum,
                  state     : TCPState]

Label == {"idle", "assign", "open", "syn", "drop", "fin", "remove", "advance",
          "receive", "ack", "reset", "payload"}

\* event, to: the event being processed and the state it leads to, at "assign".
Frame == [at : Label, conn : ConnId \cup {NoConn}, event : TCPEvent, to : TCPState,
          seg : Segment \cup {NoSegment}, len : 0 .. MaxData]

ASSUME ManagerAssumption ==
  /\ MaxConnections \in Nat
  /\ SeqMod \in Nat \ {0}
  /\ InitialSeqs \subseteq SeqNum
  /\ MaxData \in Nat
  /\ IpMayFail \in BOOLEAN
  /\ Arrivals \subseteq Segment
  /\ NoEndpoint \notin LocalEndpoints \cup RemoteEndpoints
  /\ NoSegment \notin Segment

VARIABLES
  raw_valid,         \* RawSocket::is_valid: initialize() got a raw socket
  listening_sockets, \* endpoints in listening_sockets_
  allocated,         \* TCPConnection objects allocated so far
  conn,              \* the objects
  connections,       \* connections_
  handed,            \* objects returned by connect or accept_connection
  wire,              \* the segment IPLayer::send_packet sent last, if any
  thread             \* call in progress of each thread

vars == <<raw_valid, listening_sockets, allocated, conn, connections, handed,
          wire, thread>>

Unallocated == [local |-> NoEndpoint, remote |-> NoEndpoint, local_seq |-> 0,
                local_ack |-> 0, state |-> "CLOSED"]

Call(at, c) == [at |-> at, conn |-> c, event |-> "CLOSE", to |-> "CLOSED",
                seg |-> NoSegment, len |-> 0]
Idle == Call("idle", NoConn)

Goto(t, frame) == thread' = [thread EXCEPT ![t] = frame]

Init ==
  /\ raw_valid \in BOOLEAN   \* get_connection_manager ignores the result
  /\ listening_sockets = {}
  /\ allocated = 0
  /\ conn = [c \in ConnId |-> Unallocated]
  /\ connections = {}
  /\ handed = {}
  /\ wire = {}
  /\ thread = [t \in Threads |-> Idle]

-----------------------------------------------------------------------------
(* Helpers *)

\* The first of the objects S in the order of connections_: a singleton, or
\* the empty set when there is none.
First(S) == {c \in S : \A d \in S : c <= d}

find_connection(local, remote) ==
  First({c \in connections : conn[c].local = local /\ conn[c].remote = remote})

\* The connection a received segment belongs to, if any.
Receiver(seg) == find_connection(seg.dst, seg.src)

\* The results IPLayer::send_packet may give: FALSE without a raw socket.
IpSend == IF IpMayFail THEN {FALSE, raw_valid} ELSE {raw_valid}

\* send_segment of `flags' and `len' bytes on an object c whose value is r.
Sends(r, ok) == can_send_data(r.state) /\ ok

send_segment(c, r, flags, len, ok) ==
  wire' = IF Sends(r, ok)
          THEN {[conn |-> c, flags |-> flags, seq |-> r.local_seq,
                 ack |-> r.local_ack, len |-> len]}
          ELSE wire

send_syn(c, r, ok) == send_segment(c, r, {"SYN"}, 0, ok)
send_syn_ack(c, r, ok) == send_segment(c, r, {"SYN", "ACK"}, 0, ok)
send_ack(c, r, ok) == send_segment(c, r, {"ACK"}, 0, ok)
send_fin(c, r, ok) == send_segment(c, r, {"FIN", "ACK"}, 0, ok)

\* The step of its caller that follows process_event.
After(event) == CASE event = "ACTIVE_OPEN"  -> "syn"
                  [] event = "CLOSE"        -> "fin"
                  [] event = "RST_RECEIVED" -> "reset"
                  [] event \in {"SYN_ACK_RECEIVED", "FIN_RECEIVED"} -> "ack"
                  [] OTHER                  -> "payload"

\* The flags are handled: the payload is next, by a handler that does not read
\* them, or else the drain loop.
Payload(t, seg) ==
  Goto(t, IF seg.len > 0
          THEN [Call("payload", NoConn) EXCEPT !.seg = [seg EXCEPT !.flags = {}]]
          ELSE Call("receive", NoConn))

\* Thread t takes up its call on c after an event of segment seg.
Resume(t, c, event, seg) ==
  IF After(event) = "payload"
  THEN Payload(t, seg)
  ELSE Goto(t, [Call(After(event), c) EXCEPT !.event = event, !.seg = seg])

\* process_event reads current_state_ to compute the next state, and again to see
\* whether it differs before it logs the change and assigns it: what another
\* thread writes in between is overwritten, by an event that changes nothing too.
process_event(t, c, event, seg) ==
  Goto(t, [Call("assign", c) EXCEPT !.event = event, !.seg = seg,
                                    !.to = transition(conn[c].state, event)])

assign_state(t) ==
  LET c == thread[t].conn IN
  /\ thread[t].at = "assign"
  /\ conn' = [conn EXCEPT ![c].state = thread[t].to]
  /\ Resume(t, c, thread[t].event, thread[t].seg)
  /\ UNCHANGED <<raw_valid, listening_sockets, allocated, connections, handed, wire>>

\* make_shared<TCPConnection>() and the push_back of the new object.
Allocate(r) ==
  /\ allocated < MaxConnections
  /\ allocated' = allocated + 1
  /\ conn' = [conn EXCEPT ![allocated + 1] = r]
  /\ connections' = connections \cup {allocated + 1}

-----------------------------------------------------------------------------
(* Calls of the sockets *)

listen(t, local) ==
  /\ thread[t].at = "idle"
  /\ listening_sockets' = listening_sockets \cup {local}
  /\ UNCHANGED <<raw_valid, allocated, conn, connections, handed, wire, thread>>

connect(t, local, remote) ==
  /\ thread[t].at = "idle"
  /\ \E isn \in InitialSeqs :
       Allocate([local |-> local, remote |-> remote, local_seq |-> isn,
                 local_ack |-> 0, state |-> "CLOSED"])
  /\ Goto(t, Call("open", allocated + 1))
  /\ UNCHANGED <<raw_valid, listening_sockets, handed, wire>>

connect_active_open(t) ==
  LET c == thread[t].conn IN
  /\ thread[t].at = "open"
  /\ process_event(t, c, "ACTIVE_OPEN", NoSegment)
  /\ UNCHANGED <<raw_valid, listening_sockets, allocated, conn, connections,
                 handed, wire>>

\* A mutant: connect returns nullptr and leaves its connection in the vector.
connect_keeps_failed(t) ==
  LET c == thread[t].conn IN
  /\ thread[t].at = "syn"
  /\ \E ok \in IpSend :
       /\ send_syn(c, conn[c], ok)
       /\ handed' = IF Sends(conn[c], ok) THEN handed \cup {c} ELSE handed
       /\ Goto(t, Idle)
  /\ UNCHANGED <<raw_valid, listening_sockets, allocated, conn, connections>>

\* connect returns the connection when send_syn succeeds.
connect_send_syn(t) ==
  LET c == thread[t].conn IN
  /\ thread[t].at = "syn"
  /\ \E ok \in IpSend :
       /\ send_syn(c, conn[c], ok)
       /\ IF Sends(conn[c], ok)
          THEN handed' = handed \cup {c} /\ Goto(t, Idle)
          ELSE handed' = handed /\ Goto(t, Call("drop", c))
  /\ UNCHANGED <<raw_valid, listening_sockets, allocated, conn, connections>>

close_connection(t, c) ==
  /\ thread[t].at = "idle"
  /\ c \in handed
  /\ process_event(t, c, "CLOSE", NoSegment)
  /\ UNCHANGED <<raw_valid, listening_sockets, allocated, conn, connections,
                 handed, wire>>

\* A mutant: close_connection gives up when the FIN cannot be sent.
close_gives_up(t) ==
  LET c == thread[t].conn IN
  /\ thread[t].at = "fin"
  /\ \E ok \in IpSend :
       /\ send_fin(c, conn[c], ok)
       /\ Goto(t, IF Sends(conn[c], ok) THEN Call("remove", c) ELSE Idle)
  /\ UNCHANGED <<raw_valid, listening_sockets, allocated, conn, connections, handed>>

close_send_fin(t) ==
  LET c == thread[t].conn IN
  /\ thread[t].at = "fin"
  /\ \E ok \in IpSend : send_fin(c, conn[c], ok)
  /\ Goto(t, Call("remove", c))
  /\ UNCHANGED <<raw_valid, listening_sockets, allocated, conn, connections, handed>>

\* The end of close_connection and of a connect whose SYN was not sent.
remove_connection(t) ==
  /\ thread[t].at \in {"drop", "remove"}
  /\ connections' = connections \ {thread[t].conn}
  /\ Goto(t, Idle)
  /\ UNCHANGED <<raw_valid, listening_sockets, allocated, conn, handed, wire>>

\* send_segment with payload: the header takes local_seq before the IP send,
\* which comes before the addition to local_seq; the check, the header and the send
\* are one step.
send_data(t, c, len) ==
  /\ thread[t].at = "idle"
  /\ c \in handed
  /\ \E ok \in IpSend :
       /\ Sends(conn[c], ok)
       /\ send_segment(c, conn[c], {"PSH", "ACK"}, len, ok)
  /\ Goto(t, [Call("advance", c) EXCEPT !.len = len])
  /\ UNCHANGED <<raw_valid, listening_sockets, allocated, conn, connections, handed>>

send_data_advance(t) ==
  /\ thread[t].at = "advance"
  /\ conn' = [conn EXCEPT ![thread[t].conn].local_seq = SeqPlus(@, thread[t].len)]
  /\ Goto(t, Idle)
  /\ UNCHANGED <<raw_valid, listening_sockets, allocated, connections, handed, wire>>

-----------------------------------------------------------------------------
(* accept_connection: the drain loop over received packets *)

accept_connection(t) ==
  /\ thread[t].at = "idle"
  /\ Goto(t, Call("receive", NoConn))
  /\ UNCHANGED <<raw_valid, listening_sockets, allocated, conn, connections,
                 handed, wire>>

\* A mutant: the first connection is returned, whatever its state.
accept_return_any(t) ==
  /\ thread[t].at = "receive"
  /\ handed' = handed \cup First(connections)
  /\ Goto(t, Idle)
  /\ UNCHANGED <<raw_valid, listening_sockets, allocated, conn, connections, wire>>

\* The loop ends at the first packet that is missing or does not parse.
accept_return(t) ==
  /\ thread[t].at = "receive"
  /\ handed' = handed \cup First({c \in connections : is_established(conn[c].state)})
  /\ Goto(t, Idle)
  /\ UNCHANGED <<raw_valid, listening_sockets, allocated, conn, connections, wire>>

\* process_incoming_segment dispatches a segment that passed the header checks:
\* SYN first, then ACK, then FIN, then RST.
Dispatch(t) ==
  /\ thread[t].at = "receive"
  /\ raw_valid
  /\ UNCHANGED <<raw_valid, listening_sockets, handed>>

handle_syn_segment(t, seg) ==
  /\ "SYN" \in seg.flags /\ "ACK" \notin seg.flags
  /\ Dispatch(t)
  /\ \/ /\ seg.dst \notin listening_sockets
        /\ UNCHANGED <<allocated, conn, connections, wire>>
     \/ /\ seg.dst \in listening_sockets
        /\ \E isn \in InitialSeqs, ok \in IpSend :
             LET r == [local |-> seg.dst, remote |-> seg.src, local_seq |-> isn,
                       local_ack |-> SeqPlus(seg.seq, 1),
                       state |-> transition("CLOSED", "SYN_RECEIVED")]
             IN Allocate(r) /\ send_syn_ack(allocated + 1, r, ok)
  /\ Payload(t, seg)

handle_syn_ack_segment(t, seg) ==
  /\ {"SYN", "ACK"} \subseteq seg.flags
  /\ Dispatch(t)
  /\ \/ Receiver(seg) = {} /\ UNCHANGED conn /\ Payload(t, seg)
     \/ \E c \in Receiver(seg) :
          /\ conn' = [conn EXCEPT ![c].local_ack = SeqPlus(seg.seq, 1)]
          /\ process_event(t, c, "SYN_ACK_RECEIVED", seg)
  /\ UNCHANGED <<allocated, connections, wire>>

\* A segment whose handler begins with process_event.
HandleEvent(t, seg, event) ==
  /\ Dispatch(t)
  /\ \/ Receiver(seg) = {} /\ Payload(t, seg)
     \/ \E c \in Receiver(seg) : process_event(t, c, event, seg)
  /\ UNCHANGED <<allocated, conn, connections, wire>>

handle_ack_segment(t, seg) ==
  /\ "SYN" \notin seg.flags /\ "ACK" \in seg.flags
  /\ HandleEvent(t, seg, "ACK_RECEIVED")

handle_fin_segment(t, seg) ==
  /\ seg.flags \cap {"SYN", "ACK"} = {} /\ "FIN" \in seg.flags
  /\ HandleEvent(t, seg, "FIN_RECEIVED")

handle_rst_segment(t, seg) ==
  /\ seg.flags \cap {"SYN", "ACK", "FIN"} = {} /\ "RST" \in seg.flags
  /\ HandleEvent(t, seg, "RST_RECEIVED")

\* None of the four flags: only the payload is handled.
handle_no_flag(t, seg) ==
  /\ seg.flags \cap {"SYN", "ACK", "FIN", "RST"} = {}
  /\ Dispatch(t)
  /\ Payload(t, seg)
  /\ UNCHANGED <<allocated, conn, connections, wire>>

\* The end of handle_syn_ack_segment and of handle_fin_segment, which sets
\* local_ack only after process_event.
handle_send_ack(t) ==
  LET c == thread[t].conn
      seg == thread[t].seg
      r == IF thread[t].event = "FIN_RECEIVED"
           THEN [conn[c] EXCEPT !.local_ack = SeqPlus(seg.seq, 1)]
           ELSE conn[c]
  IN
  /\ thread[t].at = "ack"
  /\ conn' = [conn EXCEPT ![c] = r]
  /\ \E ok \in IpSend : send_ack(c, r, ok)
  /\ Payload(t, seg)
  /\ UNCHANGED <<raw_valid, listening_sockets, allocated, connections, handed>>

\* The end of handle_rst_segment.
handle_reset(t) ==
  /\ thread[t].at = "reset"
  /\ connections' = connections \ {thread[t].conn}
  /\ Payload(t, thread[t].seg)
  /\ UNCHANGED <<raw_valid, listening_sockets, allocated, conn, handed, wire>>

\* handle_data_segment, and back to the drain loop.
handle_data_segment(t) ==
  LET seg == thread[t].seg
      accepting == {c \in Receiver(seg) : can_receive_data(conn[c].state)}
  IN
  /\ thread[t].at = "payload"
  /\ \/ accepting = {} /\ UNCHANGED <<conn, wire>>
     \/ \E c \in accepting, ok \in IpSend :
          LET r == [conn[c] EXCEPT !.local_ack = SeqPlus(seg.seq, seg.len)]
          IN conn' = [conn EXCEPT ![c] = r] /\ send_ack(c, r, ok)
  /\ Goto(t, Call("receive", NoConn))
  /\ UNCHANGED <<raw_valid, listening_sockets, allocated, connections, handed>>

process_incoming_segment(t, seg) ==
  \/ handle_syn_segment(t, seg)
  \/ handle_syn_ack_segment(t, seg)
  \/ handle_ack_segment(t, seg)
  \/ handle_fin_segment(t, seg)
  \/ handle_rst_segment(t, seg)
  \/ handle_no_flag(t, seg)

-----------------------------------------------------------------------------

\* A thread begins a call.
Begin(t) ==
  \/ accept_connection(t)
  \/ \E local \in LocalEndpoints : listen(t, local)
  \/ \E local \in LocalEndpoints, remote \in RemoteEndpoints : connect(t, local, remote)
  \/ \E c \in handed : close_connection(t, c)
  \/ \E c \in handed, len \in 1 .. MaxData : send_data(t, c, len)

\* A thread takes the next step of a call it has begun.
Continue(t) ==
  \/ assign_state(t)
  \/ connect_active_open(t)
  \/ connect_send_syn(t)
  \/ close_send_fin(t)
  \/ remove_connection(t)
  \/ send_data_advance(t)
  \/ handle_send_ack(t)
  \/ handle_reset(t)
  \/ handle_data_segment(t)

Next ==
  \E t \in Threads :
    \/ Begin(t)
    \/ Continue(t)
    \/ \E seg \in Arrivals : process_incoming_segment(t, seg)
    \/ accept_return(t)

Spec == Init /\ [][Next]_vars

\* The operating system schedules every thread; nothing forces a packet to
\* arrive, the drain loop to run dry or the application to make a call.
FairSpec == Spec /\ \A t \in Threads : WF_vars(Continue(t))
-----------------------------------------------------------------------------
(* Properties *)

\* A frame of a call on an object names an object, one of a segment a segment.
FrameOK(f) ==
  /\ f.at \notin {"idle", "receive", "payload"} => f.conn \in 1 .. allocated
  /\ \/ f.at \in {"ack", "reset", "payload"}
     \/ f.at = "assign" /\ f.event \notin {"ACTIVE_OPEN", "CLOSE"}
     => f.seg \in Segment

\* Every variable has its type; identities are handed out in order.
TypeOK ==
  /\ raw_valid \in BOOLEAN
  /\ listening_sockets \subseteq LocalEndpoints
  /\ allocated \in 0 .. MaxConnections
  /\ conn \in [ConnId -> TCPConnection]
  /\ connections \subseteq 1 .. allocated
  /\ handed \subseteq 1 .. allocated
  /\ wire \subseteq Transmission
  /\ \A s \in wire : s.conn \in 1 .. allocated
  /\ thread \in [Threads -> Frame]
  /\ \A t \in Threads : thread[t].conn \in 0 .. allocated /\ FrameOK(thread[t])

Closing == {"FIN_WAIT_1", "FIN_WAIT_2", "CLOSING", "LAST_ACK", "TIME_WAIT"}

\* Thread t is in connect, from the push to the first write of the state.
Opens(t) ==
  \/ thread[t].at = "open"
  \/ thread[t].at = "assign" /\ thread[t].event = "ACTIVE_OPEN"

\* Thread t is in connect after that, with an object it may still remove.
Opened(t) == thread[t].at \in {"syn", "drop"}

\* Thread t is in close_connection after it has processed CLOSE.
Closes(t) == thread[t].at \in {"fin", "remove"}

\* c is being opened or torn down by a call that will remove it.
Transient(c) ==
  /\ c \in connections
  /\ \/ conn[c].state = "SYN_SENT" /\ c \notin handed
     \/ conn[c].state \in Closing

\* connections_ keeps no connection that nobody is working on: one found there
\* in SYN_SENT has its connect call still running or a holder, one found there
\* past CLOSE has a close_connection call still running, whatever segments
\* arrive and however other threads overwrite its state in between.  (connect,
\* close_connection, remove_connection, process_event)
TransientStates ==
  \A c \in connections :
    /\ conn[c].state = "SYN_SENT"
         => c \in handed \/ \E t \in Threads : thread[t].conn = c /\ Opened(t)
    /\ conn[c].state \in Closing
         => \E t \in Threads : thread[t].conn = c /\ Closes(t)

\* A connection that an application holds, or that sent the last segment, has
\* its opening behind it, although connect pushes its object before it opens it
\* and any thread in accept_connection can find it: no ACTIVE_OPEN is still to
\* be processed, or written, on it.  (connect, accept_connection, send_segment,
\* process_event)
UsedOnlyOnceOpened ==
  \A c \in handed \cup {s.conn : s \in wire}, t \in Threads :
    thread[t].conn = c => ~Opens(t)

\* c is CLOSED and no thread is about to write another state to it.
Dead(c) ==
  /\ c <= allocated
  /\ conn[c].state = "CLOSED"
  /\ \A t \in Threads : thread[t].conn = c =>
       ~Opens(t) /\ (thread[t].at = "assign" => thread[t].to = "CLOSED")

\* A connection that is CLOSED, with no state change under way, is dead for
\* good: no segment for its 4-tuple, no retry and no call of a holder revives
\* it or begins a change of its state.  (process_event and all its callers)
ClosedIsFinal == [][\A c \in ConnId : Dead(c) => Dead(c)']_vars

\* The state thread t is about to write suits the phase its object is in.
WritesInPhase(t) ==
  LET c == thread[t].conn IN
  IF thread[t].event = "ACTIVE_OPEN"
  THEN thread[t].to = "SYN_SENT"
  ELSE /\ thread[t].to = "SYN_SENT"
            => \/ c \in handed
               \/ c \notin connections
               \/ \E u \in Threads : thread[u].conn = c /\ Opened(u)
       /\ thread[t].to \in Closing
            => \/ thread[t].event = "CLOSE"
               \/ c \notin connections
               \/ \E u \in Threads : thread[u].conn = c /\ Closes(u)

\* The calls that open a connection and those that use one never meet on the
\* same object: an object has at most one opening call, and is CLOSED, with no
\* other state to be written, until that call has processed ACTIVE_OPEN.  A
\* write under way to SYN_SENT or to a state past CLOSE finds the object
\* removed, held or still in the hands of the connect call that opened it, or
\* of a close_connection call.  (connect, close_connection, accept_connection,
\* process_event)
CallsInPhase ==
  /\ \A t, u \in Threads :
       (Opens(t) \/ Opened(t)) /\ thread[u].conn = thread[t].conn /\ t # u
         => /\ ~Opens(u) /\ ~Opened(u)
            /\ Opens(t) /\ thread[u].at = "assign" => thread[u].to = "CLOSED"
  /\ \A t \in Threads :
       /\ Opens(t) => conn[thread[t].conn].state = "CLOSED"
       /\ thread[t].at = "assign" => WritesInPhase(t)

\* The inductive invariant of the manager.
IInv == /\ TypeOK
        /\ CallsInPhase
        /\ TransientStates
        /\ UsedOnlyOnceOpened

\* No connection stays in connections_ half open or half closed: the call that
\* made it so removes it or a segment moves it on.  (connect, close_connection)
TransientStatesPass == \A c \in ConnId : Transient(c) ~> ~Transient(c)

-----------------------------------------------------------------------------
(* What the documentation says and the code does not do *)

\* The comment in connect, "Initiate connection with SYN": on a working IP
\* layer (IpMayFail = FALSE) a connection in SYN_SENT has its SYN sent.
ActiveOpenSendsSyn ==
  [][\A t \in Threads :
       /\ connect_send_syn(t)
       /\ raw_valid
       /\ conn[thread[t].conn].state = "SYN_SENT"
       => \E s \in wire' : s.conn = thread[t].conn /\ s.flags = {"SYN"}]_vars

\* README "Complete 3-way handshake", and the comment in handle_syn_segment, "Send
\* SYN-ACK": on a working IP layer (IpMayFail = FALSE) a SYN for an endpoint that
\* listens leaves a connection waiting for the handshake's ACK, and its SYN+ACK is
\* sent.  (handle_syn_segment, process_event, send_segment)
SynIsAnswered ==
  [][\A t \in Threads, seg \in Arrivals :
       /\ handle_syn_segment(t, seg)
       /\ raw_valid
       /\ seg.dst \in listening_sockets
       => /\ conn'[allocated'].state = "SYN_RECEIVED"
          /\ \E s \in wire' : /\ s.conn = allocated' /\ s.flags = {"SYN", "ACK"}
                             /\ s.ack = SeqPlus(seg.seq, 1)]_vars

\* The comment on TCPEvent::FIN_RECEIVED, "FIN segment received": a segment
\* that carries a FIN is processed as a FIN by its established connection.
FinIsProcessed ==
  [][\A t \in Threads, seg \in Arrivals :
       /\ process_incoming_segment(t, seg)
       /\ "FIN" \in seg.flags /\ "SYN" \notin seg.flags
       /\ \E c \in Receiver(seg) : is_established(conn[c].state)
       => thread'[t].event = "FIN_RECEIVED"]_vars

\* README "Thread-safe operations": a connection an application holds has been
\* established and is not back in SYN_SENT.  (process_event)
HeldStaysOpened == \A c \in handed : conn[c].state # "SYN_SENT"

\* README "Thread-safe operations": a connection an application holds in a
\* state that carries data is in connections_, where its segments reach it.
HeldIsReachable ==
  \A c \in handed : can_send_data(conn[c].state) => c \in connections
=============================================================================
