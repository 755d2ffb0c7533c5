---------------------- MODULE TCPConnectionManagerProofs ----------------------
(***************************************************************************)
(* Theorems about TCPConnectionManager, for every set of threads and of    *)
(* endpoints, every bound and every set of arriving segments.              *)
(***************************************************************************)
EXTENDS TCPConnectionManager, TLAPS

\* The events the manager processes on an object other threads may see.
ManagerEvent == {"ACTIVE_OPEN", "CLOSE", "SYN_ACK_RECEIVED", "ACK_RECEIVED",
                 "FIN_RECEIVED", "RST_RECEIVED"}

-----------------------------------------------------------------------------
(* The transition table *)

\* TCPStateMachine::transition returns a state.
LEMMA TransitionType ==
  ASSUME NEW s \in TCPState, NEW e \in TCPEvent
  PROVE  transition(s, e) \in TCPState
BY DEF transition, FromClosed, TCPState, TCPEvent

\* Only ACTIVE_OPEN changes a CLOSED object, and it makes it SYN_SENT.
LEMMA TransitionFromClosed ==
  ASSUME NEW e \in ManagerEvent
  PROVE  transition("CLOSED", e) = IF e = "ACTIVE_OPEN" THEN "SYN_SENT" ELSE "CLOSED"
BY DEF transition, FromClosed, ManagerEvent

\* No event but ACTIVE_OPEN takes an object to SYN_SENT.
LEMMA TransitionOpens ==
  ASSUME NEW s \in TCPState, NEW e \in ManagerEvent \ {"ACTIVE_OPEN"},
         transition(s, e) = "SYN_SENT"
  PROVE  s = "SYN_SENT"
BY DEF transition, FromClosed, ManagerEvent, TCPState

\* No segment takes an object past CLOSE: only a call of close does.
LEMMA TransitionCloses ==
  ASSUME NEW s \in TCPState, NEW e \in ManagerEvent \ {"CLOSE"},
         transition(s, e) \in Closing
  PROVE  s \in Closing
BY DEF transition, FromClosed, ManagerEvent, TCPState, Closing

-----------------------------------------------------------------------------
(* Types of the pieces the actions are built from *)

\* Every typed fact about a thread's frame but its object's bound.
Typed(f) == f \in Frame /\ f.conn \in 0 .. allocated /\ FrameOK(f)

\* The states and the events that labels of a call stand for.
LEMMA Names ==
  /\ ManagerEvent \subseteq TCPEvent
  /\ "CLOSED" \in TCPState
  /\ 0 \in SeqNum
  /\ 0 \in 0 .. MaxData
BY ManagerAssumption DEF ManagerEvent, TCPEvent, TCPState, SeqNum

\* Sequence arithmetic stays in the sequence space.
LEMMA SeqPlusType ==
  ASSUME NEW a \in SeqNum, NEW n \in Nat
  PROVE  SeqPlus(a, n) \in SeqNum
BY ManagerAssumption DEF SeqPlus, SeqNum

\* An object whose acknowledgement number is set.
LEMMA AckType ==
  ASSUME NEW r \in TCPConnection, NEW ack \in SeqNum
  PROVE  [r EXCEPT !.local_ack = ack] \in TCPConnection
BY DEF TCPConnection

\* A frame with no segment.
LEMMA CallType ==
  ASSUME TypeOK, NEW at \in Label, NEW c \in 0 .. allocated,
         at \notin {"assign", "ack", "reset", "payload"},
         at \notin {"idle", "receive"} => c # 0
  PROVE  Typed(Call(at, c))
<1>1. c \in ConnId \cup {NoConn}
  BY ManagerAssumption DEF TypeOK, ConnId, NoConn
<1>2. Call(at, c) \in Frame
  BY <1>1, ManagerAssumption DEF Call, Frame, TCPEvent, TCPState
<1> QED
  BY <1>2 DEF Typed, Call, FrameOK, Label, TypeOK

\* The frame of a thread that has handled the flags of a segment.
LEMMA PayloadType ==
  ASSUME TypeOK, NEW t \in Threads, NEW seg \in Segment, Payload(t, seg)
  PROVE  \E f : Typed(f) /\ thread' = [thread EXCEPT ![t] = f]
<1> DEFINE headless == [seg EXCEPT !.flags = {}]
           f == [Call("payload", NoConn) EXCEPT !.seg = headless]
<1>1. headless \in Segment
  BY DEF Segment
<1>2. f \in Frame
  BY <1>1, ManagerAssumption DEF Call, Frame, Label, TCPEvent, TCPState, NoConn
<1>3. Typed(f)
  BY <1>1, <1>2 DEF Typed, Call, FrameOK, NoConn, TypeOK
<1>4. Typed(Call("receive", NoConn))
  BY CallType DEF Label, NoConn, TypeOK
<1> QED
  BY <1>3, <1>4 DEF Payload, Goto

\* The frame of a thread after an event, and while it assigns a state.
LEMMA ResumeType ==
  ASSUME TypeOK, NEW t \in Threads, NEW c \in 1 .. allocated,
         NEW event \in TCPEvent, NEW seg \in Segment \cup {NoSegment},
         event \notin {"ACTIVE_OPEN", "CLOSE"} => seg \in Segment,
         Resume(t, c, event, seg)
  PROVE  \E f : Typed(f) /\ thread' = [thread EXCEPT ![t] = f]
<1>1. CASE After(event) = "payload"
  <2>1. seg \in Segment
    BY <1>1 DEF After
  <2> QED
    BY <1>1, <2>1, PayloadType DEF Resume
<1>2. CASE After(event) # "payload"
  <2> DEFINE f == [Call(After(event), c) EXCEPT !.event = event, !.seg = seg]
  <2>1. After(event) \in {"syn", "fin", "reset", "ack"}
    BY <1>2 DEF After
  <2>2. c \in ConnId
    BY ManagerAssumption DEF TypeOK, ConnId
  <2>3. f \in Frame
    BY <2>1, <2>2, Names, ManagerAssumption DEF Call, Frame, Label
  <2>4. f.at \in {"ack", "reset"} => seg \in Segment
    BY <2>1 DEF After, Call
  <2>5. Typed(f)
    BY <2>1, <2>3, <2>4 DEF Typed, FrameOK, Call, TypeOK
  <2> QED
    BY <1>2, <2>5 DEF Resume, Goto
<1> QED
  BY <1>1, <1>2

\* process_event leaves its thread with a typed frame.
LEMMA ProcessEventType ==
  ASSUME TypeOK, NEW t \in Threads, NEW c \in 1 .. allocated,
         NEW event \in TCPEvent, NEW seg \in Segment \cup {NoSegment},
         event \notin {"ACTIVE_OPEN", "CLOSE"} => seg \in Segment,
         process_event(t, c, event, seg)
  PROVE  \E f : Typed(f) /\ thread' = [thread EXCEPT ![t] = f]
<1> DEFINE new_state == transition(conn[c].state, event)
           f == [Call("assign", c) EXCEPT !.event = event, !.to = new_state, !.seg = seg]
<1>1. c \in ConnId
  BY ManagerAssumption DEF TypeOK, ConnId
<1>2. new_state \in TCPState
  BY <1>1, TransitionType, Names DEF TypeOK, TCPConnection
<1>3. f \in Frame
  BY <1>1, <1>2, Names, ManagerAssumption DEF Call, Frame, Label
<1>4. Typed(f)
  BY <1>3 DEF Typed, FrameOK, Call, TypeOK
<1> QED
  BY <1>4 DEF process_event, Goto

\* A step that gives one thread a typed frame keeps the threads typed.
LEMMA ThreadType ==
  ASSUME TypeOK, allocated' \in allocated .. MaxConnections,
         NEW t \in Threads, NEW f, Typed(f), thread' = [thread EXCEPT ![t] = f]
  PROVE  (/\ thread \in [Threads -> Frame]
          /\ \A u \in Threads : thread[u].conn \in 0 .. allocated /\ FrameOK(thread[u]))'
BY ManagerAssumption DEF TypeOK, Typed, FrameOK

\* What send_segment puts on the wire.
LEMMA WireType ==
  ASSUME TypeOK, allocated' \in allocated .. MaxConnections,
         NEW c \in 1 .. allocated', NEW r \in TCPConnection,
         NEW flags \in SUBSET Flag, NEW len \in 0 .. MaxData, NEW ok,
         send_segment(c, r, flags, len, ok)
  PROVE  wire' \subseteq Transmission /\ \A s \in wire' : s.conn \in 1 .. allocated'
<1>1. c \in ConnId
  BY ManagerAssumption DEF TypeOK, ConnId
<1> QED
  BY <1>1, ManagerAssumption DEF send_segment, TypeOK, Transmission, TCPConnection

\* The same for a step that sends on an object that was there before.
LEMMA SentType ==
  ASSUME TypeOK, allocated' = allocated, NEW c \in 1 .. allocated,
         NEW flags \in SUBSET Flag, NEW len \in 0 .. MaxData, NEW ok,
         send_segment(c, conn[c], flags, len, ok)
  PROVE  wire' \subseteq Transmission /\ \A s \in wire' : s.conn \in 1 .. allocated
<1>1. allocated' \in allocated .. MaxConnections /\ conn[c] \in TCPConnection
  BY ManagerAssumption DEF TypeOK, ConnId
<1> QED
  BY <1>1, WireType

-----------------------------------------------------------------------------
(* Type correctness *)

\* The connection a segment is for is in connections_.
LEMMA ReceiverType ==
  ASSUME NEW seg PROVE Receiver(seg) \subseteq connections
BY DEF Receiver, find_connection, First

\* What a push of a new object leaves typed.
LEMMA AllocateType ==
  ASSUME TypeOK, NEW r \in TCPConnection, Allocate(r)
  PROVE  /\ allocated' \in allocated .. MaxConnections
         /\ allocated' \in 0 .. MaxConnections
         /\ allocated' = allocated + 1
         /\ conn' \in [ConnId -> TCPConnection]
         /\ connections' \subseteq 1 .. allocated'
BY ManagerAssumption DEF Allocate, TypeOK, ConnId

\* The initial states are typed.
LEMMA InitTypeOK == Init => TypeOK
<1> SUFFICES ASSUME Init PROVE TypeOK
  OBVIOUS
<1>1. Idle \in Frame
  BY ManagerAssumption DEF Idle, Call, Frame, Label, TCPEvent, TCPState
<1>2. Unallocated \in TCPConnection
  BY ManagerAssumption, Names DEF Unallocated, TCPConnection
<1> QED
  BY <1>1, <1>2, ManagerAssumption DEF Init, TypeOK, Idle, Call, FrameOK, NoConn

\* A step that allocates nothing and gives one thread a typed frame.
LEMMA SameObjects ==
  ASSUME TypeOK, NEW t \in Threads, NEW f, Typed(f),
         thread' = [thread EXCEPT ![t] = f],
         UNCHANGED <<raw_valid, allocated>>,
         listening_sockets' \subseteq LocalEndpoints,
         conn' \in [ConnId -> TCPConnection],
         connections' \subseteq 1 .. allocated, handed' \subseteq 1 .. allocated,
         wire' \subseteq Transmission, \A s \in wire' : s.conn \in 1 .. allocated
  PROVE  TypeOK'
<1>1. allocated' \in allocated .. MaxConnections
  BY ManagerAssumption DEF TypeOK
<1> QED
  BY <1>1, ThreadType DEF TypeOK

\* The calls of the sockets keep the types.
LEMMA BeginTypeOK == ASSUME TypeOK, NEW t \in Threads, Begin(t) PROVE TypeOK'
<1>1. CASE accept_connection(t)
  <2>1. Typed(Call("receive", NoConn))
    BY CallType DEF Label, NoConn, TypeOK
  <2> QED
    BY <1>1, <2>1, SameObjects DEF accept_connection, Goto, TypeOK
<1>2. ASSUME NEW local \in LocalEndpoints, listen(t, local) PROVE TypeOK'
  BY <1>2 DEF listen, TypeOK, FrameOK
<1>3. ASSUME NEW local \in LocalEndpoints, NEW remote \in RemoteEndpoints,
             connect(t, local, remote)
      PROVE  TypeOK'
  <2>1. PICK isn \in SeqNum :
          Allocate([local |-> local, remote |-> remote, local_seq |-> isn,
                    local_ack |-> 0, state |-> "CLOSED"])
    BY <1>3, ManagerAssumption DEF connect
  <2> DEFINE f == Call("open", allocated + 1)
  <2>2. /\ allocated' \in allocated .. MaxConnections
        /\ allocated' \in 0 .. MaxConnections
        /\ allocated' = allocated + 1
        /\ conn' \in [ConnId -> TCPConnection]
        /\ connections' \subseteq 1 .. allocated'
    BY <2>1, AllocateType, Names DEF TCPConnection
  <2>3. f \in Frame
    BY <2>2, ManagerAssumption DEF Call, Frame, Label, TCPEvent, TCPState, ConnId, TypeOK
  <2>4. thread' = [thread EXCEPT ![t] = f]
    BY <1>3 DEF connect, Goto
  <2>5. (/\ thread \in [Threads -> Frame]
         /\ \A u \in Threads : thread[u].conn \in 0 .. allocated /\ FrameOK(thread[u]))'
    BY <2>2, <2>3, <2>4, ManagerAssumption DEF TypeOK, FrameOK, Call
  <2> QED
    BY <1>3, <2>2, <2>5 DEF connect, TypeOK
<1>4. ASSUME NEW c \in handed, close_connection(t, c) PROVE TypeOK'
  <2>1. PICK f : Typed(f) /\ thread' = [thread EXCEPT ![t] = f]
    BY <1>4, ProcessEventType DEF close_connection, TCPEvent, TypeOK
  <2> QED
    BY <1>4, <2>1, SameObjects DEF close_connection, TypeOK
<1>5. ASSUME NEW c \in handed, NEW len \in 1 .. MaxData, send_data(t, c, len)
      PROVE  TypeOK'
  <2> DEFINE f == [Call("advance", c) EXCEPT !.len = len]
  <2>1. c \in 1 .. allocated /\ c \in ConnId
    BY ManagerAssumption DEF TypeOK, ConnId
  <2>2. Typed(f)
    BY <2>1, ManagerAssumption DEF Typed, Call, Frame, FrameOK, Label, TCPEvent,
                                   TCPState, TypeOK
  <2>3. wire' \subseteq Transmission /\ \A s \in wire' : s.conn \in 1 .. allocated
    <3>1. PICK ok \in IpSend : send_segment(c, conn[c], {"PSH", "ACK"}, len, ok)
      BY <1>5 DEF send_data
    <3>2. len \in 0 .. MaxData /\ {"PSH", "ACK"} \in SUBSET Flag
      BY ManagerAssumption DEF Flag
    <3>3. allocated' = allocated
      BY <1>5 DEF send_data
    <3> QED
      BY <2>1, <3>1, <3>2, <3>3, SentType
  <2> QED
    BY <1>5, <2>2, <2>3, SameObjects DEF send_data, Goto, TypeOK
<1> QED
  BY <1>1, <1>2, <1>3, <1>4, <1>5 DEF Begin

\* The steps of a call in progress keep the types.
LEMMA ContinueTypeOK == ASSUME TypeOK, NEW t \in Threads, Continue(t) PROVE TypeOK'
<1> DEFINE c == thread[t].conn
           seg == thread[t].seg
<1>0. /\ thread[t] \in Frame
      /\ FrameOK(thread[t])
      /\ c \in 0 .. allocated
      /\ \A d \in 1 .. allocated : d \in ConnId /\ conn[d] \in TCPConnection
  BY ManagerAssumption DEF TypeOK, ConnId
<1>1. CASE assign_state(t)
  <2>1. c \in 1 .. allocated /\ thread[t].to \in TCPState /\ thread[t].event \in TCPEvent
    BY <1>0, <1>1 DEF assign_state, FrameOK, Frame
  <2>2. conn' \in [ConnId -> TCPConnection]
    BY <1>0, <1>1, <2>1 DEF assign_state, TypeOK, TCPConnection
  <2>3. seg \in Segment \cup {NoSegment}
    BY <1>0 DEF Frame
  <2>4. thread[t].event \notin {"ACTIVE_OPEN", "CLOSE"} => seg \in Segment
    BY <1>0, <1>1 DEF assign_state, FrameOK
  <2>5. PICK f : Typed(f) /\ thread' = [thread EXCEPT ![t] = f]
    BY <1>1, <2>1, <2>3, <2>4, ResumeType DEF assign_state
  <2> QED
    BY <1>1, <2>2, <2>5, SameObjects DEF assign_state, TypeOK
<1>2. CASE connect_active_open(t)
  <2>1. c \in 1 .. allocated
    BY <1>0, <1>2 DEF connect_active_open, FrameOK
  <2>2. PICK f : Typed(f) /\ thread' = [thread EXCEPT ![t] = f]
    BY <1>2, <2>1, ProcessEventType DEF connect_active_open, TCPEvent
  <2> QED
    BY <1>2, <2>2, SameObjects DEF connect_active_open, TypeOK
<1>3. CASE connect_send_syn(t)
  <2>1. c \in 1 .. allocated
    BY <1>0, <1>3 DEF connect_send_syn, FrameOK
  <2>2. wire' \subseteq Transmission /\ \A s \in wire' : s.conn \in 1 .. allocated
    <3>1. PICK ok \in IpSend : send_segment(c, conn[c], {"SYN"}, 0, ok)
      BY <1>3 DEF connect_send_syn, send_syn
    <3>2. 0 \in 0 .. MaxData /\ {"SYN"} \in SUBSET Flag
      BY ManagerAssumption DEF Flag
    <3>3. allocated' = allocated
      BY <1>3 DEF connect_send_syn
    <3> QED
      BY <2>1, <3>1, <3>2, <3>3, SentType
  <2>3. Typed(Idle) /\ Typed(Call("drop", c))
    BY <2>1, CallType DEF Idle, Label, NoConn, TypeOK
  <2>4. handed' \subseteq 1 .. allocated
    BY <1>3, <2>1 DEF connect_send_syn, TypeOK
  <2>5. PICK f : Typed(f) /\ thread' = [thread EXCEPT ![t] = f]
    BY <1>3, <2>3 DEF connect_send_syn, Goto
  <2> QED
    BY <1>3, <2>2, <2>4, <2>5, SameObjects DEF connect_send_syn, TypeOK
<1>4. CASE close_send_fin(t)
  <2>1. c \in 1 .. allocated
    BY <1>0, <1>4 DEF close_send_fin, FrameOK
  <2>2. wire' \subseteq Transmission /\ \A s \in wire' : s.conn \in 1 .. allocated
    <3>1. PICK ok \in IpSend : send_segment(c, conn[c], {"FIN", "ACK"}, 0, ok)
      BY <1>4 DEF close_send_fin, send_fin
    <3>2. 0 \in 0 .. MaxData /\ {"FIN", "ACK"} \in SUBSET Flag
      BY ManagerAssumption DEF Flag
    <3>3. allocated' = allocated
      BY <1>4 DEF close_send_fin
    <3> QED
      BY <2>1, <3>1, <3>2, <3>3, SentType
  <2>3. Typed(Call("remove", c))
    BY <2>1, CallType DEF Label, TypeOK
  <2> QED
    BY <1>4, <2>2, <2>3, SameObjects DEF close_send_fin, Goto, TypeOK
<1>5. CASE remove_connection(t)
  <2>1. Typed(Idle)
    BY CallType DEF Idle, Label, NoConn, TypeOK
  <2> QED
    BY <1>5, <2>1, SameObjects DEF remove_connection, Goto, TypeOK
<1>6. CASE send_data_advance(t)
  <2>1. c \in 1 .. allocated /\ thread[t].len \in Nat
    BY <1>0, <1>6, ManagerAssumption DEF send_data_advance, FrameOK, Frame
  <2>2. SeqPlus(conn[c].local_seq, thread[t].len) \in SeqNum
    BY <1>0, <2>1, SeqPlusType DEF TCPConnection
  <2>3. conn' \in [ConnId -> TCPConnection]
    BY <1>0, <1>6, <2>1, <2>2 DEF send_data_advance, TypeOK, TCPConnection
  <2>4. Typed(Idle)
    BY CallType DEF Idle, Label, NoConn, TypeOK
  <2> QED
    BY <1>6, <2>3, <2>4, SameObjects DEF send_data_advance, Goto, TypeOK
<1>7. CASE handle_send_ack(t)
  <2> DEFINE r == IF thread[t].event = "FIN_RECEIVED"
                  THEN [conn[c] EXCEPT !.local_ack = SeqPlus(seg.seq, 1)]
                  ELSE conn[c]
  <2>1. c \in 1 .. allocated /\ seg \in Segment
    BY <1>0, <1>7 DEF handle_send_ack, FrameOK
  <2>2. r \in TCPConnection
    BY <1>0, <2>1, SeqPlusType DEF TCPConnection, Segment
  <2>3. conn' = [conn EXCEPT ![c] = r] /\ \E ok \in IpSend : send_ack(c, r, ok)
    BY <1>7 DEF handle_send_ack
  <2>4. wire' \subseteq Transmission /\ \A s \in wire' : s.conn \in 1 .. allocated
    <3>1. allocated' = allocated /\ allocated \in 0 .. MaxConnections
      BY <1>7 DEF handle_send_ack, TypeOK
    <3>2. PICK ok \in IpSend : send_segment(c, r, {"ACK"}, 0, ok)
      BY <2>3 DEF send_ack
    <3> HIDE DEF r
    <3> QED
      BY <3>1, <3>2, <2>1, <2>2, WireType, ManagerAssumption DEF Flag
  <2>5. PICK f : Typed(f) /\ thread' = [thread EXCEPT ![t] = f]
    BY <1>7, <2>1, PayloadType DEF handle_send_ack
  <2>6. conn' \in [ConnId -> TCPConnection]
    BY <1>0, <2>1, <2>2, <2>3 DEF TypeOK
  <2> QED
    BY <1>7, <2>4, <2>5, <2>6, SameObjects DEF handle_send_ack, TypeOK
<1>8. CASE handle_reset(t)
  <2>1. seg \in Segment
    BY <1>0, <1>8 DEF handle_reset, FrameOK
  <2>2. PICK f : Typed(f) /\ thread' = [thread EXCEPT ![t] = f]
    BY <1>8, <2>1, PayloadType DEF handle_reset
  <2> QED
    BY <1>8, <2>2, SameObjects DEF handle_reset, TypeOK
<1>9. CASE handle_data_segment(t)
  <2>1. Typed(Call("receive", NoConn))
    BY CallType DEF Label, NoConn, TypeOK
  <2>2. seg \in Segment
    BY <1>0, <1>9 DEF handle_data_segment, FrameOK
  <2>3. /\ conn' \in [ConnId -> TCPConnection]
        /\ wire' \subseteq Transmission
        /\ \A s \in wire' : s.conn \in 1 .. allocated
    <3>1. CASE UNCHANGED <<conn, wire>>
      BY <3>1 DEF TypeOK
    <3>2. ASSUME NEW d \in Receiver(seg), NEW ok \in IpSend,
                 NEW r, r = [conn[d] EXCEPT !.local_ack = SeqPlus(seg.seq, seg.len)],
                 conn' = [conn EXCEPT ![d] = r], send_ack(d, r, ok)
          PROVE  /\ conn' \in [ConnId -> TCPConnection]
                 /\ wire' \subseteq Transmission
                 /\ \A s \in wire' : s.conn \in 1 .. allocated
      <4>1. d \in 1 .. allocated
        BY ReceiverType DEF TypeOK
      <4>2. r \in TCPConnection
        <5>1. SeqPlus(seg.seq, seg.len) \in SeqNum
          BY <2>2, SeqPlusType, ManagerAssumption DEF Segment
        <5>2. conn[d] \in TCPConnection
          BY <1>0, <4>1
        <5> QED
          BY <3>2, <5>1, <5>2, AckType
      <4>3. allocated' = allocated /\ allocated \in 0 .. MaxConnections
        BY <1>9 DEF handle_data_segment, TypeOK
      <4>4. conn' \in [ConnId -> TCPConnection]
        BY <3>2, <4>2 DEF TypeOK
      <4>5. send_segment(d, r, {"ACK"}, 0, ok) /\ {"ACK"} \in SUBSET Flag
        BY <3>2 DEF send_ack, Flag
      <4>6. wire' \subseteq Transmission /\ \A s \in wire' : s.conn \in 1 .. allocated
        <5>1. allocated' \in allocated .. MaxConnections /\ 0 \in 0 .. MaxData
          BY <4>3, ManagerAssumption
        <5> QED
          BY <4>1, <4>2, <4>3, <4>5, <5>1, WireType
      <4> QED
        BY <4>4, <4>6
    <3> QED
      BY <1>9, <3>1, <3>2 DEF handle_data_segment
  <2> QED
    BY <1>9, <2>1, <2>3, SameObjects DEF handle_data_segment, Goto, TypeOK
<1> QED
  BY <1>1, <1>2, <1>3, <1>4, <1>5, <1>6, <1>7, <1>8, <1>9 DEF Continue

\* The receipt of a segment keeps the types.
LEMMA ReceiveTypeOK ==
  ASSUME TypeOK, NEW t \in Threads, NEW seg \in Arrivals,
         process_incoming_segment(t, seg)
  PROVE  TypeOK'
<1>0. /\ seg \in Segment
      /\ \A d \in 1 .. allocated : d \in ConnId /\ conn[d] \in TCPConnection
  BY ManagerAssumption DEF TypeOK, ConnId
<1>1. ASSUME NEW event \in {"SYN_ACK_RECEIVED", "ACK_RECEIVED", "FIN_RECEIVED",
                            "RST_RECEIVED"},
             \/ Payload(t, seg)
             \/ \E c \in Receiver(seg) : process_event(t, c, event, seg)
      PROVE  \E f : Typed(f) /\ thread' = [thread EXCEPT ![t] = f]
  <2>1. \A c \in Receiver(seg) : c \in 1 .. allocated
    BY ReceiverType DEF TypeOK
  <2> QED
    BY <1>0, <1>1, <2>1, PayloadType, ProcessEventType DEF TCPEvent
<1>2. CASE handle_syn_segment(t, seg)
  <2>1. PICK f : Typed(f) /\ thread' = [thread EXCEPT ![t] = f]
    BY <1>0, <1>2, PayloadType DEF handle_syn_segment
  <2>2. CASE UNCHANGED <<allocated, conn, connections, wire>>
    BY <1>2, <2>1, <2>2, SameObjects DEF handle_syn_segment, Dispatch, TypeOK
  <2>3. CASE ~UNCHANGED <<allocated, conn, connections, wire>>
    <3>1. PICK isn \in SeqNum, ok \in IpSend :
            LET r == [local |-> seg.dst, remote |-> seg.src, local_seq |-> isn,
                      local_ack |-> SeqPlus(seg.seq, 1),
                      state |-> transition("CLOSED", "SYN_RECEIVED")]
            IN Allocate(r) /\ send_syn_ack(allocated + 1, r, ok)
      BY <1>2, <2>3, ManagerAssumption DEF handle_syn_segment
    <3> DEFINE r == [local |-> seg.dst, remote |-> seg.src, local_seq |-> isn,
                     local_ack |-> SeqPlus(seg.seq, 1),
                     state |-> transition("CLOSED", "SYN_RECEIVED")]
    <3>2. Allocate(r) /\ send_segment(allocated + 1, r, {"SYN", "ACK"}, 0, ok)
      BY <3>1 DEF send_syn_ack
    <3>3. transition("CLOSED", "SYN_RECEIVED") \in TCPState
      BY TransitionType DEF TCPState, TCPEvent
    <3>4. SeqPlus(seg.seq, 1) \in SeqNum
      BY <1>0, SeqPlusType DEF Segment
    <3>5. r \in TCPConnection
      BY <1>0, <3>3, <3>4 DEF TCPConnection, Segment
    <3> HIDE DEF r
    <3>6. /\ allocated' \in allocated .. MaxConnections
          /\ allocated' \in 0 .. MaxConnections
          /\ allocated' = allocated + 1
          /\ conn' \in [ConnId -> TCPConnection]
          /\ connections' \subseteq 1 .. allocated'
      BY <3>2, <3>5, AllocateType
    <3>7. wire' \subseteq Transmission /\ \A s \in wire' : s.conn \in 1 .. allocated'
      <4>1. allocated + 1 \in 1 .. allocated'
        BY <3>6 DEF TypeOK
      <4> QED
        BY <3>2, <3>5, <3>6, <4>1, WireType, Names DEF Flag
    <3>8. (/\ thread \in [Threads -> Frame]
           /\ \A u \in Threads : thread[u].conn \in 0 .. allocated /\ FrameOK(thread[u]))'
      BY <2>1, <3>6, ThreadType
    <3>9. /\ UNCHANGED <<raw_valid, listening_sockets, handed>>
          /\ handed' \subseteq 1 .. allocated'
      BY <1>2, <3>6, ManagerAssumption DEF handle_syn_segment, Dispatch, TypeOK
    <3> QED
      BY <3>6, <3>7, <3>8, <3>9 DEF TypeOK
  <2> QED
    BY <2>2, <2>3
<1>3. CASE handle_syn_ack_segment(t, seg)
  <2>1. PICK f : Typed(f) /\ thread' = [thread EXCEPT ![t] = f]
    BY <1>1, <1>3 DEF handle_syn_ack_segment
  <2>2. conn' \in [ConnId -> TCPConnection]
    <3>1. ASSUME NEW c \in Receiver(seg),
                 conn' = [conn EXCEPT ![c].local_ack = SeqPlus(seg.seq, 1)]
          PROVE  conn' \in [ConnId -> TCPConnection]
      <4>1. c \in 1 .. allocated
        BY ReceiverType DEF TypeOK
      <4>2. SeqPlus(seg.seq, 1) \in SeqNum
        BY <1>0, SeqPlusType DEF Segment
      <4> QED
        BY <1>0, <3>1, <4>1, <4>2 DEF TypeOK, TCPConnection
    <3> QED
      BY <1>3, <3>1 DEF handle_syn_ack_segment, TypeOK
  <2> QED
    BY <1>3, <2>1, <2>2, SameObjects DEF handle_syn_ack_segment, Dispatch, TypeOK
<1>4. ASSUME NEW event \in {"ACK_RECEIVED", "FIN_RECEIVED", "RST_RECEIVED"},
             HandleEvent(t, seg, event)
      PROVE  TypeOK'
  <2>1. PICK f : Typed(f) /\ thread' = [thread EXCEPT ![t] = f]
    BY <1>1, <1>4 DEF HandleEvent
  <2> QED
    BY <1>4, <2>1, SameObjects DEF HandleEvent, Dispatch, TypeOK
<1>5. CASE handle_no_flag(t, seg)
  <2>1. PICK f : Typed(f) /\ thread' = [thread EXCEPT ![t] = f]
    BY <1>0, <1>5, PayloadType DEF handle_no_flag
  <2> QED
    BY <1>5, <2>1, SameObjects DEF handle_no_flag, Dispatch, TypeOK
<1> QED
  BY <1>2, <1>3, <1>4, <1>5 DEF process_incoming_segment, handle_ack_segment,
                               handle_fin_segment, handle_rst_segment

\* So does the end of the drain loop.
LEMMA AcceptTypeOK == ASSUME TypeOK, NEW t \in Threads, accept_return(t) PROVE TypeOK'
<1>1. Typed(Idle)
  BY CallType DEF Idle, Label, NoConn, TypeOK
<1>2. handed' \subseteq 1 .. allocated
  BY DEF accept_return, First, TypeOK
<1> QED
  BY <1>1, <1>2, SameObjects DEF accept_return, Goto, TypeOK

\* Every step keeps the types.
LEMMA NextTypeOK == TypeOK /\ [Next]_vars => TypeOK'
<1> SUFFICES ASSUME TypeOK, [Next]_vars PROVE TypeOK'
  OBVIOUS
<1>1. CASE UNCHANGED vars
  BY <1>1 DEF vars, TypeOK, FrameOK
<1>2. CASE Next
  BY <1>2, BeginTypeOK, ContinueTypeOK, ReceiveTypeOK, AcceptTypeOK DEF Next
<1> QED
  BY <1>1, <1>2

\* The manager is type correct: in particular a call in progress always names
\* an allocated object, and a handler a segment.
THEOREM TypeCorrect == Spec => []TypeOK
BY InitTypeOK, NextTypeOK, PTL DEF Spec
=============================================================================
