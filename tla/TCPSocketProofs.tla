--------------------------- MODULE TCPSocketProofs ---------------------------
(***************************************************************************)
(* Theorems about TCPSocket, for every value of its constants.  The        *)
(* socket's threads take steps of the manager (StepOfManager), so that the *)
(* theorems about the manager hold for it; the invariant of the socket is  *)
(* then shown for the three things it relates: the segments, the places of *)
(* the threads, and the connection.                                        *)
(***************************************************************************)
EXTENDS TCPSocket, TLAPS

\* The actions that are no step of the manager.
Apart ==
  \/ TCPSocket \/ set_initial_seq \/ start_packet_processor
  \/ send_chunk \/ send_return \/ recv \/ recv_timeout \/ recv_wake
  \/ close \/ close_join \/ close_check \/ loop_check \/ loop_collect \/ loop_again
  \/ \E length \in 1 .. MaxBytes : send(length)

\* Every action is apart, or one of these.
Together ==
  \/ accept_new \/ accept \/ TCPSocket_accepted \/ accept_return \/ accept_receive
  \/ connect_continue \/ send_transmit \/ send_advance
  \/ close_connection \/ close_continue \/ loop_retransmit \/ loop_advance \/ Other
  \/ \E local \in LocalEndpoints : listen(local)
  \/ \E local \in LocalEndpoints, remote \in RemoteEndpoints : connect(local, remote)

LEMMA NextIsApartOrTogether == Next <=> Apart \/ Together
BY DEF Next, AppBegin, AppContinue, Loop, Apart, Together

\* The numbers the proofs use.
LEMMA Numbers ==
  /\ Chunk \in Nat /\ Chunk <= MaxData
  /\ MaxData \in Nat /\ SeqMod \in Nat \ {0} /\ MaxBytes \in Nat
  /\ MaxRetransmits \in Nat /\ Window \in Nat /\ Window < SeqMod
BY SocketAssumption DEF M!ManagerAssumption, R!ReliabilityAssumption

LEMMA ThreadsAre ==
  /\ App \in Threads /\ Processor \in Threads /\ App # Processor
  /\ \A u \in Others : u \in Threads /\ u # App /\ u # Processor
BY SocketAssumption DEF Threads

-----------------------------------------------------------------------------
(* Steps of the manager *)

\* What thread t may do in the manager.
Takes(t) ==
  \/ M!Begin(t)
  \/ M!Continue(t)
  \/ \E seg \in Arrivals : M!process_incoming_segment(t, seg)
  \/ M!accept_return(t)

\* A segment the socket sends has a length the manager accepts.
LEMMA SentLength ==
  ASSUME IInv, NEW n \in 1 .. created
  PROVE  segment[n].len \in 1 .. MaxData
BY Numbers DEF IInv, SegmentsInPhase

LEMMA DueSegments ==
  ASSUME IInv PROVE M!First(to_retransmit) \subseteq 1 .. created
BY DEF IInv, TypeOK, R!TypeOK, M!First

LEMMA StepOfApp ==
  ASSUME IInv,
         \/ accept_new \/ accept \/ TCPSocket_accepted \/ accept_return
         \/ accept_receive \/ connect_continue \/ send_transmit \/ send_advance
         \/ close_connection \/ close_continue
         \/ \E local \in LocalEndpoints : listen(local)
         \/ \E local \in LocalEndpoints, remote \in RemoteEndpoints : connect(local, remote)
  PROVE  Takes(App) \/ UNCHANGED manager
<1>1. CASE accept_new \/ accept
  BY <1>1 DEF accept_new, accept, Takes, M!Begin
<1>2. CASE TCPSocket_accepted \/ accept_return
  BY <1>2 DEF TCPSocket_accepted, accept_return, Takes
<1>3. CASE accept_receive
  BY <1>3 DEF accept_receive, Takes
<1>4. CASE connect_continue \/ close_continue
  BY <1>4 DEF connect_continue, close_continue, Takes
<1>5. CASE send_transmit
  <2>1. CASE M!send_data(App, connection_, segment[app.seg].len)
    <3>1. app.seg \in 1 .. created
      BY <1>5 DEF send_transmit, IInv, SegmentsInPhase
    <3>2. connection_ \in handed
      BY <2>1 DEF M!send_data
    <3> QED
      BY <2>1, <3>1, <3>2, SentLength DEF Takes, M!Begin
  <2> QED
    BY <1>5, <2>1 DEF send_transmit
<1>6. CASE send_advance
  BY <1>6 DEF send_advance, Takes, M!Continue
<1>7. CASE close_connection
  BY <1>7 DEF close_connection, Takes, M!Begin, M!close_connection
<1>8. CASE \E local \in LocalEndpoints : listen(local)
  BY <1>8 DEF listen, Takes, M!Begin
<1>9. CASE \E local \in LocalEndpoints, remote \in RemoteEndpoints : connect(local, remote)
  BY <1>9 DEF connect, Takes, M!Begin
<1> QED
  BY <1>1, <1>2, <1>3, <1>4, <1>5, <1>6, <1>7, <1>8, <1>9

LEMMA StepOfProcessor ==
  ASSUME IInv, loop_retransmit \/ loop_advance
  PROVE  Takes(Processor) \/ UNCHANGED manager
<1>1. CASE loop_advance
  BY <1>1 DEF loop_advance, Takes, M!Continue
<1>2. CASE loop_retransmit
  <2>1. PICK n \in M!First(to_retransmit) :
          \/ M!send_data(Processor, connection_, segment[n].len)
          \/ UNCHANGED manager
    BY <1>2 DEF loop_retransmit
  <2>2. segment[n].len \in 1 .. MaxData
    BY SentLength, DueSegments
  <2>3. CASE M!send_data(Processor, connection_, segment[n].len)
    BY <2>2, <2>3 DEF Takes, M!Begin, M!send_data
  <2> QED
    BY <2>1, <2>3
<1> QED
  BY <1>1, <1>2

LEMMA StepOfOther ==
  ASSUME NEW u \in Others, OtherStep(u), shared \subseteq handed
  PROVE  Takes(u)
<1>1. CASE OtherCall(u)
  <2>1. 1 .. Chunk \subseteq 1 .. MaxData
    BY Numbers
  <2> QED
    BY <1>1, <2>1 DEF OtherCall, Takes, M!Begin
<1> QED
  BY <1>1 DEF OtherStep, Takes

\* Every step of the socket is a step of one thread in the manager, or none.
LEMMA StepOfManager ==
  ASSUME IInv, [Next]_vars
  PROVE  [M!Next]_(M!vars)
<1>1. ASSUME NEW t \in Threads, Takes(t) PROVE M!Next
  BY <1>1 DEF Takes, M!Next
<1>2. UNCHANGED manager => UNCHANGED M!vars
  BY DEF manager, M!vars
<1>3. CASE UNCHANGED vars
  BY <1>2, <1>3 DEF vars
<1>4. CASE Apart
  <2>1. UNCHANGED manager
    BY <1>4 DEF Apart, TCPSocket, set_initial_seq, start_packet_processor, send,
       send_chunk, send_return, recv, recv_timeout, recv_wake, close, close_join, close_check,
       loop_check, loop_collect, loop_again
  <2> QED
    BY <1>2, <2>1
<1>5. CASE Together
  <2>1. CASE Other
    BY <1>1, <2>1, StepOfOther, ThreadsAre DEF Other, IInv, TypeOK
  <2> QED
    BY <1>1, <1>2, <1>5, <2>1, StepOfApp, StepOfProcessor, ThreadsAre DEF Together
<1> QED
  BY <1>3, <1>4, <1>5, NextIsApartOrTogether

LEMMA ManagerTypes ==
  ASSUME IInv, [Next]_vars PROVE M!TypeOK'
BY StepOfManager, M!NextTypeOK, SocketAssumption DEF IInv, TypeOK

\* A step of thread t in the manager moves no other thread, and takes back no
\* connection that was handed out.
LEMMA TakesEffect ==
  ASSUME NEW t \in Threads, Takes(t), M!TypeOK
  PROVE  /\ \A u \in Threads : u # t => thread'[u] = thread[u]
         /\ handed \subseteq handed'
<1>1. ASSUME NEW f, thread' = [thread EXCEPT ![t] = f]
      PROVE  \A u \in Threads : u # t => thread'[u] = thread[u]
  BY <1>1 DEF M!TypeOK
<1>2. (\E f : thread' = [thread EXCEPT ![t] = f]) /\ handed \subseteq handed'
  <2>0. thread = [thread EXCEPT ![t] = thread[t]]
    BY DEF M!TypeOK
  <2>1. CASE M!Begin(t)
    BY <2>0, <2>1 DEF M!Begin, M!accept_connection, M!listen, M!connect,
       M!close_connection, M!send_data, M!process_event, M!Goto
  <2>2. CASE M!Continue(t)
    BY <2>2 DEF M!Continue, M!assign_state, M!Resume, M!Payload, M!connect_active_open,
       M!process_event, M!connect_send_syn, M!close_send_fin, M!remove_connection,
       M!send_data_advance, M!handle_send_ack, M!handle_reset, M!handle_data_segment,
       M!Goto
  <2>3. CASE \E seg \in Arrivals : M!process_incoming_segment(t, seg)
    BY <2>3 DEF M!process_incoming_segment, M!handle_syn_segment,
       M!handle_syn_ack_segment, M!handle_ack_segment, M!handle_fin_segment,
       M!handle_rst_segment, M!handle_no_flag, M!HandleEvent, M!Dispatch,
       M!process_event, M!Payload, M!Goto
  <2>4. CASE M!accept_return(t)
    BY <2>4 DEF M!accept_return, M!Goto
  <2> QED
    BY <2>1, <2>2, <2>3, <2>4 DEF Takes
<1> QED
  BY <1>1, <1>2

-----------------------------------------------------------------------------
(* The invariant *)

LEMMA InitIInv == Init => IInv
<1> SUFFICES ASSUME Init PROVE IInv
  OBVIOUS
<1>1. M!TypeOK
  BY M!InitTypeOK, SocketAssumption DEF Init
<1>2. R!TypeOK /\ SegmentsInPhase /\ WithinWindow
  BY Numbers DEF Init, R!Init, R!TypeOK, R!TCPSegment, R!SeqNum, SegmentsInPhase,
     WithinWindow, R!get_effective_window, R!Least, R!BoundedRetransmits, At
<1>3. TypeOK
  <2>1. app \in [at : Label, left : 0 .. MaxBytes, seg : 0 .. MaxBytes]
    BY Numbers DEF Init, At, Label
  <2>2. /\ connection_ = M!NoConn /\ shared = {}
        /\ is_listening_ = FALSE /\ should_stop_ = FALSE /\ packet_processor_ = "none"
    BY DEF Init
  <2> QED
    BY <1>1, <1>2, <2>1, <2>2 DEF TypeOK
<1>4. ThreadsInPhase
  BY ThreadsAre DEF Init, M!Init, M!Idle, M!Call, ThreadsInPhase, At
<1> QED
  BY <1>2, <1>3, <1>4 DEF IInv

\* The segments: what every step but five leaves alone.
Segments == R!TypeOK /\ SegmentsInPhase /\ WithinWindow

LEMMA SegmentsKept ==
  ASSUME IInv, UNCHANGED reliability, app'.at = "transmit" => app' = app
  PROVE  Segments'
BY DEF IInv, TypeOK, Segments, reliability, R!TypeOK, SegmentsInPhase, WithinWindow,
   R!BoundedRetransmits, R!End, R!get_effective_window, R!Least

LEMMA SetInitialSeqSegments ==
  ASSUME IInv, set_initial_seq PROVE Segments'
<1>1. conn[connection_].local_seq \in R!SeqNum
  <2>1. connection_ \in M!ConnId
    BY Numbers, SocketAssumption DEF IInv, TypeOK, M!TypeOK, ThreadsInPhase,
       set_initial_seq, M!ConnId, M!ManagerAssumption
  <2> QED
    BY <2>1 DEF IInv, TypeOK, M!TypeOK, M!TCPConnection, M!SeqNum, R!SeqNum
<1>2. UNCHANGED <<last_ack_received_, send_buffer_, created, segment,
                  unacked_segments_, bytes_in_flight_, send_window_size_,
                  remote_window_size_, to_retransmit, sent, acked>>
  BY DEF set_initial_seq
<1>3. /\ next_seq_num_' \in R!SeqNum /\ isn' \in R!SeqNum
      /\ app'.at # "transmit"
  BY <1>1 DEF set_initial_seq, At
<1>4. R!TypeOK'
  BY <1>2, <1>3 DEF IInv, TypeOK, R!TypeOK
<1> QED
  BY <1>2, <1>3, <1>4 DEF IInv, Segments, SegmentsInPhase, WithinWindow,
     R!BoundedRetransmits, R!get_effective_window, R!Least

LEMMA SendSegments ==
  ASSUME IInv, NEW length \in 1 .. MaxBytes, send(length) PROVE Segments'
<1>1. UNCHANGED <<next_seq_num_, last_ack_received_, bytes_in_flight_, created,
                  segment, unacked_segments_, send_window_size_,
                  remote_window_size_, to_retransmit, isn, sent, acked>>
  BY DEF send, R!buffer_data, R!counters, R!segments, R!windows
<1>2. send_buffer_' \in 0 .. MaxBytes - sent
  BY Numbers DEF send, R!buffer_data, IInv, TypeOK, R!TypeOK
<1>3. app'.at # "transmit"
  BY DEF send
<1>4. R!TypeOK'
  BY <1>1, <1>2 DEF IInv, TypeOK, R!TypeOK
<1> QED
  BY <1>1, <1>3, <1>4 DEF IInv, Segments, SegmentsInPhase, WithinWindow,
     R!BoundedRetransmits, R!get_effective_window, R!Least

\* The window has room for a whole chunk, so nothing wraps.
LEMMA ChunkAmount ==
  ASSUME IInv, R!can_send_data(Chunk), R!BytesToSend(Chunk) > 0
  PROVE  LET to_send == R!BytesToSend(Chunk) IN
         /\ to_send \in 1 .. Chunk
         /\ to_send <= send_buffer_
         /\ sent + to_send <= Window
         /\ sent + to_send <= MaxBytes
<1>1. /\ bytes_in_flight_ = sent /\ sent \in Nat /\ send_buffer_ \in 0 .. MaxBytes - sent
      /\ R!get_effective_window = Window
  BY Numbers DEF IInv, TypeOK, R!TypeOK, SegmentsInPhase, R!get_effective_window, R!Least
<1>2. sent + Chunk <= Window
  BY <1>1 DEF R!can_send_data
<1>3. R!available_window \in Nat
  BY <1>1, Numbers DEF R!available_window
<1>4. R!BytesToSend(Chunk) \in Nat /\ R!BytesToSend(Chunk) <= Chunk
      /\ R!BytesToSend(Chunk) <= send_buffer_
  BY <1>1, <1>3, Numbers DEF R!BytesToSend, R!BytesAskedFor, R!Least
<1> QED
  BY <1>1, <1>2, <1>4, Numbers

LEMMA SendChunkSegments ==
  ASSUME IInv, send_chunk PROVE Segments'
<1> DEFINE k == R!BytesToSend(Chunk)
           new == created + 1
<1>1. /\ k \in 1 .. Chunk /\ k <= send_buffer_
      /\ sent + k <= Window /\ sent + k <= MaxBytes
  BY ChunkAmount DEF send_chunk, R!get_data_to_send
<1>2. /\ send_buffer_' = send_buffer_ - k
      /\ created' = new
      /\ segment' = [segment EXCEPT ![new] =
                       [seq_num |-> next_seq_num_, first |-> sent, len |-> k,
                        retransmit_count |-> 0]]
      /\ unacked_segments_' = unacked_segments_ \cup {new}
      /\ next_seq_num_' = (next_seq_num_ + k) % SeqMod
      /\ bytes_in_flight_' = (bytes_in_flight_ + k) % SeqMod
      /\ sent' = sent + k
      /\ app'.seg = new
      /\ UNCHANGED <<last_ack_received_, send_window_size_, remote_window_size_,
                     to_retransmit, isn, acked>>
  BY DEF send_chunk, R!get_data_to_send, R!advance_seq, R!CountInFlight, R!SeqPlus,
     R!windows, IInv, TypeOK
<1> HIDE DEF k
<1>3. /\ sent \in Nat /\ created \in Nat /\ created <= sent /\ bytes_in_flight_ = sent
      /\ new \in 1 .. MaxBytes
  BY <1>1, Numbers DEF IInv, TypeOK, R!TypeOK, SegmentsInPhase
<1>4. bytes_in_flight_' = sent' /\ bytes_in_flight_' \in R!SeqNum
      /\ next_seq_num_' \in R!SeqNum
  BY <1>1, <1>2, <1>3, Numbers DEF IInv, TypeOK, R!TypeOK, R!SeqNum
<1>5. segment' \in [R!SegmentId -> R!TCPSegment]
  <2> DEFINE seg == [seq_num |-> next_seq_num_, first |-> sent, len |-> k,
                     retransmit_count |-> 0]
  <2>1. next_seq_num_ \in R!SeqNum /\ segment \in [R!SegmentId -> R!TCPSegment]
    BY DEF IInv, TypeOK, R!TypeOK
  <2>2. /\ sent \in 0 .. MaxBytes /\ k \in 0 .. MaxBytes /\ 0 \in 0 .. MaxRetransmits
        /\ k \in 1 .. MaxBytes
    BY <1>1, <1>3, Numbers
  <2>3. seg \in R!TCPSegment
    BY <2>1, <2>2 DEF R!TCPSegment
  <2>4. segment' = [segment EXCEPT ![new] = seg]
    BY <1>2
  <2> HIDE DEF seg, new
  <2> QED
    BY <2>1, <2>3, <2>4
<1>6. /\ \A n \in 1 .. created : segment'[n] = segment[n]
      /\ segment'[new].len = k /\ segment'[new].retransmit_count = 0
  BY <1>2, <1>3 DEF IInv, TypeOK, R!TypeOK, R!SegmentId
<1>7. R!TypeOK'
  BY <1>1, <1>2, <1>3, <1>4, <1>5, Numbers DEF IInv, TypeOK, R!TypeOK
<1>8. SegmentsInPhase'
  <2>1. \A n \in 1 .. created' : segment'[n].len \in 1 .. Chunk
    BY <1>1, <1>2, <1>3, <1>6 DEF IInv, SegmentsInPhase
  <2>2. R!BoundedRetransmits'
    BY <1>2, <1>3, <1>6, Numbers DEF IInv, SegmentsInPhase, R!BoundedRetransmits,
       TypeOK, R!TypeOK
  <2> QED
    BY <1>1, <1>2, <1>3, <1>4, <2>1, <2>2 DEF SegmentsInPhase
<1>9. WithinWindow'
  BY <1>1, <1>2, Numbers DEF WithinWindow, IInv, TypeOK, R!TypeOK,
     R!get_effective_window, R!Least
<1> QED
  BY <1>7, <1>8, <1>9 DEF Segments

LEMMA CollectSegments ==
  ASSUME IInv, R!get_segments_to_retransmit, UNCHANGED app PROVE Segments'
<1>1. UNCHANGED <<next_seq_num_, last_ack_received_, bytes_in_flight_, created,
                  segment, unacked_segments_, send_window_size_,
                  remote_window_size_, send_buffer_, isn, sent, acked>>
  BY DEF R!get_segments_to_retransmit, R!counters, R!segments, R!windows
<1>2. /\ to_retransmit' \subseteq unacked_segments_
      /\ \A n \in to_retransmit' : segment[n].retransmit_count < MaxRetransmits
  BY DEF R!get_segments_to_retransmit, R!Retransmittable
<1>3. R!TypeOK'
  BY <1>1, <1>2 DEF IInv, TypeOK, R!TypeOK
<1> QED
  BY <1>1, <1>2, <1>3 DEF IInv, Segments, SegmentsInPhase, WithinWindow,
     R!BoundedRetransmits, R!get_effective_window, R!Least

LEMMA MarkSegments ==
  ASSUME IInv, NEW n \in to_retransmit, R!mark_segment_sent(n), UNCHANGED app
  PROVE  Segments'
<1>1. UNCHANGED <<next_seq_num_, last_ack_received_, bytes_in_flight_, created,
                  unacked_segments_, send_window_size_,
                  remote_window_size_, send_buffer_, isn, sent, acked>>
  BY DEF R!mark_segment_sent, R!counters, R!windows
<1>2. /\ segment' = [segment EXCEPT ![n].retransmit_count = @ + 1]
      /\ to_retransmit' = to_retransmit \ {n}
  BY DEF R!mark_segment_sent
<1>3. /\ n \in 1 .. created /\ created <= sent /\ sent \in 0 .. MaxBytes /\ created \in Nat
      /\ n \in R!SegmentId
      /\ segment[n].retransmit_count < MaxRetransmits
      /\ segment[n] \in R!TCPSegment
  BY Numbers DEF IInv, TypeOK, R!TypeOK, SegmentsInPhase, R!BoundedRetransmits, R!SegmentId
<1>4. /\ segment' \in [R!SegmentId -> R!TCPSegment]
      /\ \A m \in R!SegmentId : segment'[m].len = segment[m].len
      /\ \A m \in R!SegmentId \ {n} : segment'[m] = segment[m]
      /\ segment'[n].retransmit_count <= MaxRetransmits
  BY <1>2, <1>3, Numbers DEF IInv, TypeOK, R!TypeOK, R!TCPSegment
<1>5. \A m \in 1 .. created : m \in R!SegmentId
  BY <1>3, Numbers DEF R!SegmentId
<1>6. R!TypeOK'
  BY <1>1, <1>2, <1>4 DEF IInv, TypeOK, R!TypeOK
<1>7. R!BoundedRetransmits'
  BY <1>1, <1>2, <1>4, <1>5 DEF IInv, TypeOK, R!TypeOK, SegmentsInPhase,
     R!BoundedRetransmits
<1>8. SegmentsInPhase'
  BY <1>1, <1>4, <1>5, <1>7 DEF IInv, SegmentsInPhase
<1> QED
  BY <1>1, <1>6, <1>8 DEF IInv, Segments, WithinWindow, R!get_effective_window, R!Least

LEMMA NextSegments ==
  ASSUME IInv, [Next]_vars PROVE Segments'
<1>1. CASE UNCHANGED vars
  BY <1>1, SegmentsKept DEF vars
<1>2. CASE set_initial_seq
  BY <1>2, SetInitialSeqSegments
<1>3. CASE \E length \in 1 .. MaxBytes : send(length)
  BY <1>3, SendSegments
<1>4. CASE send_chunk
  BY <1>4, SendChunkSegments
<1>5. CASE loop_collect
  <2>1. CASE R!get_segments_to_retransmit
    BY <1>5, <2>1, CollectSegments DEF loop_collect
  <2> QED
    BY <1>5, <2>1, SegmentsKept DEF loop_collect
<1>6. CASE loop_retransmit \/ loop_advance
  <2>1. UNCHANGED app
    BY <1>6 DEF loop_retransmit, loop_advance
  <2>2. UNCHANGED reliability \/ \E n \in to_retransmit : R!mark_segment_sent(n)
    BY <1>6 DEF loop_retransmit, loop_advance, M!First
  <2> QED
    BY <2>1, <2>2, MarkSegments, SegmentsKept
<1>7. CASE \/ TCPSocket \/ start_packet_processor \/ send_return \/ recv \/ recv_timeout
           \/ recv_wake \/ close \/ close_join \/ close_check \/ loop_check \/ loop_again
  BY <1>7, SegmentsKept DEF TCPSocket, start_packet_processor, send_return, recv,
     recv_timeout, recv_wake, close, close_join, close_check, ResetConnection, loop_check,
     loop_again, At
<1>8. CASE Together /\ ~loop_retransmit /\ ~loop_advance
  <2>1. UNCHANGED reliability
    BY <1>8 DEF Together, TCPSocket_accepted, accept_new, accept, accept_return,
       accept_receive, connect_continue, send_transmit, send_advance, close_connection,
       close_continue, Other, listen, connect
  <2>2. app'.at = "transmit" => app' = app
    BY <1>8 DEF Together, TCPSocket_accepted, accept_new, accept, accept_return,
       accept_receive, connect_continue, send_transmit, send_advance,
       close_connection, close_continue, ResetConnection, Other, listen, connect, At
  <2> QED
    BY <2>1, <2>2, SegmentsKept
<1> QED
  BY <1>1, <1>2, <1>3, <1>4, <1>5, <1>6, <1>7, <1>8, NextIsApartOrTogether DEF Apart

\* The connections accept_connection returns are none of them NoConn.
LEMMA NoConnIsNone ==
  ASSUME IInv PROVE M!NoConn \notin connections
BY DEF IInv, TypeOK, M!TypeOK, M!NoConn

\* The end of a connect that failed.
LEMMA DroppedIsIdle ==
  ASSUME IInv, NEW t \in Threads, thread[t].at = "drop", M!Continue(t)
  PROVE  thread'[t].at = "idle"
BY DEF IInv, TypeOK, M!TypeOK, M!Continue, M!assign_state, M!connect_active_open,
   M!connect_send_syn, M!close_send_fin, M!remove_connection, M!send_data_advance,
   M!handle_send_ack, M!handle_reset, M!handle_data_segment, M!Goto, M!Idle, M!Call

\* The end of a connect that succeeded.
LEMMA SynSentIsHanded ==
  ASSUME IInv, NEW t \in Threads, thread[t].at = "syn", M!Continue(t),
         thread'[t].at = "idle"
  PROVE  thread[t].conn \in handed'
<1>1. thread \in [Threads -> M!Frame]
  BY DEF IInv, TypeOK, M!TypeOK
<1>2. M!connect_send_syn(t)
  BY DEF M!Continue, M!assign_state, M!connect_active_open, M!close_send_fin,
     M!remove_connection, M!send_data_advance, M!handle_send_ack, M!handle_reset,
     M!handle_data_segment
<1> QED
  BY <1>1, <1>2 DEF M!connect_send_syn, M!Goto, M!Call

\* Where the threads are.
LEMMA NextThreads ==
  ASSUME IInv, [Next]_vars PROVE ThreadsInPhase'
<1> DEFINE a == thread[App].at
           p == thread[Processor].at
<1>0. /\ a # "idle" => app.at \in {"new", "accept", "connect", "transmit", "closing"}
      /\ p # "idle" => /\ p = "advance" /\ packet_processor_ = "retransmit"
                       /\ to_retransmit # {}
      /\ app.at \in {"close", "established", "closing", "closed"} => packet_processor_ = "none"
      /\ app.at \in {"set_initial_seq", "established"} => connection_ # M!NoConn
  BY DEF IInv, ThreadsInPhase
<1>1. M!TypeOK /\ thread \in [Threads -> M!Frame]
  BY DEF IInv, TypeOK, M!TypeOK
<1>2. CASE UNCHANGED vars
  BY <1>0, <1>2 DEF vars, manager, reliability, socket, ThreadsInPhase
<1>3. CASE Apart
  <2>1. UNCHANGED thread
    BY <1>3 DEF Apart, TCPSocket, set_initial_seq, start_packet_processor, send,
       send_chunk, send_return, recv, recv_timeout, recv_wake, close, close_join, close_check,
       loop_check, loop_collect, loop_again, manager
  <2>2. CASE TCPSocket \/ set_initial_seq \/ start_packet_processor \/ send_chunk
    <3>1. CASE send_chunk
      <4>1. app'.at = "transmit" /\ UNCHANGED <<to_retransmit, packet_processor_>>
        BY <3>1 DEF send_chunk, R!get_data_to_send, socket, IInv, TypeOK
      <4> QED
        BY <1>0, <2>1, <4>1 DEF ThreadsInPhase
    <3>2. CASE TCPSocket \/ set_initial_seq \/ start_packet_processor
      BY <1>0, <2>1, <3>2 DEF TCPSocket, set_initial_seq, start_packet_processor,
         socket, reliability, At, ThreadsInPhase
    <3> QED
      BY <2>2, <3>1, <3>2
  <2>3. CASE send_return \/ recv \/ recv_timeout \/ recv_wake \/ close \/ close_join
             \/ close_check \/ \E length \in 1 .. MaxBytes : send(length)
    BY <1>0, <2>1, <2>3 DEF send_return, recv, recv_timeout, recv_wake, close,
       close_join, close_check, is_connected, ResetConnection, send, R!buffer_data, Free,
       socket, reliability, At, ThreadsInPhase
  <2>4. CASE loop_check \/ loop_collect \/ loop_again
    BY <1>0, <2>1, <2>4 DEF loop_check, loop_collect, loop_again, reliability,
       ThreadsInPhase
  <2> QED
    BY <1>3, <2>2, <2>3, <2>4 DEF Apart
<1>4. CASE Other
  <2>1. PICK u \in Others : OtherStep(u)
    BY <1>4 DEF Other
  <2>2. UNCHANGED <<thread[App], thread[Processor]>>
    BY <1>1, <2>1, StepOfOther, TakesEffect, ThreadsAre DEF IInv, TypeOK
  <2> QED
    BY <1>0, <1>4, <2>2 DEF Other, reliability, socket, ThreadsInPhase
<1>5. CASE loop_retransmit
  <2>1. UNCHANGED thread[App]
    BY <1>1, <1>5, StepOfProcessor, TakesEffect, ThreadsAre DEF manager
  <2>2. CASE UNCHANGED manager
    BY <1>0, <1>5, <2>2 DEF loop_retransmit, manager, socket, ThreadsInPhase
  <2>3. PICK n \in M!First(to_retransmit) :
          \/ M!send_data(Processor, connection_, segment[n].len) /\ UNCHANGED reliability
          \/ UNCHANGED manager
    BY <1>5 DEF loop_retransmit
  <2>4. CASE M!send_data(Processor, connection_, segment[n].len) /\ UNCHANGED reliability
    <3>1. thread'[Processor].at = "advance"
      BY <1>1, <2>4, ThreadsAre DEF M!send_data, M!Goto, M!Call
    <3> QED
      BY <1>0, <1>5, <2>1, <2>4, <3>1 DEF loop_retransmit, reliability, socket,
         M!First, ThreadsInPhase
  <2> QED
    BY <2>2, <2>3, <2>4
<1>6. CASE loop_advance
  <2>1. UNCHANGED thread[App]
    BY <1>1, <1>6, TakesEffect, ThreadsAre DEF loop_advance, Takes, M!Continue
  <2>2. thread'[Processor].at = "idle"
    BY <1>1, <1>6, ThreadsAre DEF loop_advance, M!send_data_advance, M!Goto, M!Idle, M!Call
  <2> QED
    BY <1>0, <1>6, <2>1, <2>2 DEF loop_advance, socket, ThreadsInPhase
<1>7. CASE \/ accept_new \/ accept \/ TCPSocket_accepted \/ accept_return
           \/ accept_receive \/ connect_continue \/ send_transmit \/ send_advance
           \/ close_connection \/ close_continue
           \/ \E local \in LocalEndpoints : listen(local)
           \/ \E local \in LocalEndpoints, remote \in RemoteEndpoints : connect(local, remote)
  <2>1. UNCHANGED thread[Processor]
    BY <1>1, <1>7, StepOfApp, TakesEffect, ThreadsAre DEF manager
  <2>2. UNCHANGED reliability
    BY <1>7 DEF TCPSocket_accepted, accept_new, accept, accept_return, accept_receive,
       connect_continue, send_transmit, send_advance, close_connection, close_continue,
       listen, connect
  <2>3. CASE accept_new \/ accept \/ accept_receive
    BY <1>0, <2>1, <2>2, <2>3 DEF accept_new, accept, accept_receive, reliability,
       socket, At, ThreadsInPhase
  <2>4. CASE TCPSocket_accepted \/ accept_return
    <3>1. thread'[App].at = "idle"
      BY <1>1, <2>4, ThreadsAre DEF TCPSocket_accepted, accept_return, M!accept_return,
         M!Goto, M!Idle, M!Call
    <3>2. app'.at = "set_initial_seq" => connection_' # M!NoConn
      BY <2>4, NoConnIsNone DEF TCPSocket_accepted, accept_return, M!First, Established, At
    <3> QED
      BY <1>0, <2>1, <2>2, <2>4, <3>1, <3>2 DEF TCPSocket_accepted, accept_return,
         reliability, socket, ThreadsInPhase, At
  <2>5. CASE connect_continue
    <3>1. thread'[App].at # "idle" => app' = app
      <4>1. CASE thread[App].at = "drop"
        BY <2>5, <4>1, DroppedIsIdle, ThreadsAre DEF connect_continue
      <4> QED
        BY <2>5, <4>1 DEF connect_continue
    <3>2. app'.at = "set_initial_seq" => connection_' # M!NoConn
      <4>1. thread[App].at = "syn" => thread[App].conn # M!NoConn
        BY <1>1, ThreadsAre DEF M!TypeOK, M!FrameOK, M!NoConn
      <4> QED
        BY <2>5, <4>1 DEF connect_continue, At
    <3>3. app'.at \in {"connect", "set_initial_seq", "idle"}
      BY <2>5 DEF connect_continue, At
    <3> QED
      BY <1>0, <2>1, <2>2, <2>5, <3>1, <3>2, <3>3 DEF connect_continue, reliability,
         ThreadsInPhase
  <2>6. CASE send_transmit
    BY <1>0, <2>1, <2>2, <2>6 DEF send_transmit, reliability, manager, socket, At,
       ThreadsInPhase
  <2>7. CASE send_advance
    <3>1. thread'[App].at = "idle"
      BY <1>1, <2>7, ThreadsAre DEF send_advance, M!send_data_advance, M!Goto, M!Idle, M!Call
    <3> QED
      BY <1>0, <2>1, <2>2, <2>7, <3>1 DEF send_advance, reliability, socket, ThreadsInPhase
  <2>8. CASE close_connection \/ close_continue
    <3>1. app'.at # "closing" => thread'[App].at = "idle"
      BY <1>0, <2>8 DEF close_connection, close_continue, At, ResetConnection
    <3>2. app'.at \in {"closing", "closed"} /\ UNCHANGED packet_processor_
      BY <2>8 DEF close_connection, close_continue, ResetConnection, At, socket
    <3> QED
      BY <1>0, <2>1, <2>2, <2>8, <3>1, <3>2 DEF close_connection, close_continue,
         reliability, socket, ThreadsInPhase
  <2>9. CASE \/ \E local \in LocalEndpoints : listen(local)
             \/ \E local \in LocalEndpoints, remote \in RemoteEndpoints : connect(local, remote)
    BY <1>0, <2>1, <2>2, <2>9 DEF listen, connect, M!listen, Free, reliability, socket,
       At, ThreadsInPhase
  <2> QED
    BY <1>7, <2>3, <2>4, <2>5, <2>6, <2>7, <2>8, <2>9
<1> QED
  BY <1>2, <1>3, <1>4, <1>5, <1>6, <1>7, NextIsApartOrTogether DEF Together

-----------------------------------------------------------------------------

\* The socket's own variables.
Own == /\ connection_ \in handed \cup {M!NoConn}
       /\ shared \subseteq handed
       /\ is_listening_ \in BOOLEAN
       /\ packet_processor_ \in {"none", "check", "woken", "retransmit", "finished"}
       /\ should_stop_ \in BOOLEAN
       /\ app \in [at : Label, left : 0 .. MaxBytes, seg : 0 .. MaxBytes]

LEMMA HandedGrows ==
  ASSUME IInv, [Next]_vars PROVE handed \subseteq handed'
<1>1. M!TypeOK
  BY DEF IInv, TypeOK
<1>2. CASE M!Next
  BY <1>1, <1>2, TakesEffect DEF M!Next, Takes
<1>3. CASE UNCHANGED M!vars
  BY <1>3 DEF M!vars
<1> QED
  BY <1>2, <1>3, StepOfManager

LEMMA LabelType ==
  ASSUME NEW label \in Label
  PROVE  At(label) \in [at : Label, left : 0 .. MaxBytes, seg : 0 .. MaxBytes]
BY Numbers DEF At

LEMMA NextOwn ==
  ASSUME IInv, [Next]_vars PROVE Own'
<1>0. Own
  BY DEF IInv, TypeOK, Own
<1>1. CASE UNCHANGED vars
  BY <1>0, <1>1 DEF vars, manager, socket, Own
<1>2. CASE Next
  <2>1. app' \in [at : Label, left : 0 .. MaxBytes, seg : 0 .. MaxBytes]
    <3>1. app' = app \/ \E label \in Label : app' = At(label)
          \/ send_chunk \/ send_advance \/ \E length \in 1 .. MaxBytes : send(length)
      BY <1>2, NextIsApartOrTogether DEF Apart, Together, TCPSocket, set_initial_seq,
         start_packet_processor, send_return, recv, recv_timeout, recv_wake, close,
         close_join, close_check, loop_check, loop_collect, loop_again, accept_new, accept,
         TCPSocket_accepted, accept_return, accept_receive, connect_continue,
         send_transmit, close_connection, close_continue, ResetConnection,
         loop_retransmit, loop_advance, Other, listen, connect, Label
    <3>2. CASE send_chunk
      <4>1. created + 1 \in 0 .. MaxBytes
        BY <3>2, ChunkAmount, Numbers DEF send_chunk, R!get_data_to_send, IInv, TypeOK,
           R!TypeOK, SegmentsInPhase
      <4> QED
        BY <3>2, <4>1, <1>0 DEF send_chunk, Own, Label
    <3>3. CASE send_advance
      <4>1. /\ segment[app.seg].len \in Nat
            /\ app.left \in 0 .. MaxBytes
        BY <3>3, <1>0, SentLength DEF send_advance, Own, IInv, SegmentsInPhase
      <4> QED
        BY <3>3, <4>1, Numbers DEF send_advance, Label
    <3>4. ASSUME NEW length \in 1 .. MaxBytes, send(length)
          PROVE  app' \in [at : Label, left : 0 .. MaxBytes, seg : 0 .. MaxBytes]
      BY <3>4, Numbers DEF send, Label
    <3> QED
      BY <1>0, <3>1, <3>2, <3>3, <3>4, LabelType DEF Own
  <2>2. connection_' \in handed' \cup {M!NoConn}
    <3>1. CASE TCPSocket_accepted
      BY <1>0, <3>1, HandedGrows DEF TCPSocket_accepted, M!accept_return, Established, Own
    <3>2. CASE connect_continue
      BY <1>0, <3>2, HandedGrows, SynSentIsHanded, ThreadsAre DEF connect_continue, Own
    <3>3. connection_' = connection_ \/ connection_' = M!NoConn
          \/ TCPSocket_accepted \/ connect_continue
      BY <1>2, NextIsApartOrTogether DEF Apart, Together, TCPSocket, set_initial_seq,
         start_packet_processor, send, send_chunk, send_return, recv, recv_timeout,
         recv_wake, close, close_join, close_check, loop_check, loop_collect, loop_again, accept_new,
         accept, accept_return, accept_receive, send_transmit, send_advance,
         close_connection, close_continue, ResetConnection, loop_retransmit,
         loop_advance, Other, listen, connect, socket
    <3> QED
      BY <1>0, <3>1, <3>2, <3>3, HandedGrows DEF Own
  <2>3. shared' \subseteq handed'
    <3>1. CASE accept_return
      BY <1>0, <3>1, HandedGrows DEF accept_return, M!accept_return, Established, Own
    <3>2. CASE Other
      BY <1>0, <3>2, HandedGrows DEF Other, OtherStep, M!accept_return, Established, Own
    <3>3. shared' = shared \/ accept_return \/ Other
      BY <1>2, NextIsApartOrTogether DEF Apart, Together, TCPSocket, set_initial_seq,
         start_packet_processor, send, send_chunk, send_return, recv, recv_timeout,
         recv_wake, close, close_join, close_check, loop_check, loop_collect, loop_again, accept_new,
         accept, TCPSocket_accepted, accept_receive, connect_continue, send_transmit,
         send_advance, close_connection, close_continue, loop_retransmit,
         loop_advance, listen, connect
    <3> QED
      BY <1>0, <3>1, <3>2, <3>3, HandedGrows DEF Own
  <2>4. /\ is_listening_' \in BOOLEAN /\ should_stop_' \in BOOLEAN
        /\ packet_processor_' \in {"none", "check", "woken", "retransmit", "finished"}
    <3>1. CASE Apart
      BY <1>0, <3>1 DEF Apart, TCPSocket, set_initial_seq, start_packet_processor, send,
         send_chunk, send_return, recv, recv_timeout, recv_wake, close, close_join, close_check,
         ResetConnection, loop_check, loop_collect, loop_again, socket, Own
    <3>2. CASE Together
      BY <1>0, <3>2 DEF Together, accept_new, accept, TCPSocket_accepted, accept_return,
         accept_receive, connect_continue, send_transmit, send_advance,
         close_connection, close_continue, ResetConnection, loop_retransmit,
         loop_advance, Other, listen, connect, socket, Own
    <3> QED
      BY <1>2, <3>1, <3>2, NextIsApartOrTogether
  <2> QED
    BY <2>1, <2>2, <2>3, <2>4 DEF Own
<1> QED
  BY <1>1, <1>2

LEMMA NextIInv == IInv /\ [Next]_vars => IInv'
BY ManagerTypes, NextSegments, NextThreads, NextOwn DEF IInv, TypeOK, Segments, Own

LEMMA Invariance == Spec => []IInv
BY InitIInv, NextIInv, PTL DEF Spec

-----------------------------------------------------------------------------
(* The theorems *)

\* Every variable of the socket, of its manager and of its reliability keeps its
\* type, whatever the threads do: a socket holds no connection the manager did
\* not hand out.
THEOREM TypeCorrect == Spec => []TypeOK
BY Invariance, PTL DEF IInv

\* All calls of send together give out no more than one window.
THEOREM StaysWithinWindow == Spec => []WithinWindow
BY Invariance, PTL DEF IInv

\* The threads of the socket call the manager as its specification says: what it
\* guarantees its callers it guarantees them.
LEMMA ManagerBehaves == Spec => M!Spec
<1>1. Init => M!Init
  BY DEF Init
<1>2. IInv /\ [Next]_vars => [M!Next]_(M!vars)
  BY StepOfManager
<1> QED
  BY <1>1, <1>2, Invariance, PTL DEF Spec, M!Spec

\* So the theorems about the manager hold in the presence of the socket: a thread
\* of it leaves no half-open connection behind, and never uses one that is being
\* opened.
THEOREM ManagerIsSafe ==
  Spec => [](M!TransientStates /\ M!UsedOnlyOnceOpened /\ M!CallsInPhase)
BY ManagerBehaves, M!NothingLeftBehind, M!UsedOnceOpened, M!PhasesOfCalls,
   SocketAssumption, PTL

\* Nor does one of its threads bring a connection back to life that is closed, with
\* a retransmission or a send on a connection that another socket has closed.
THEOREM ClosedStaysClosed == Spec => M!ClosedIsFinal
BY ManagerBehaves, M!ClosedForGood, SocketAssumption, PTL

\* The loop sends no segment again more than max_retransmits_ times, through all
\* closes and further connects of the socket.  (packet_processing_loop,
\* get_segments_to_retransmit, mark_segment_sent)
THEOREM RetransmitsStayBounded == Spec => []R!BoundedRetransmits
BY Invariance, PTL DEF IInv, SegmentsInPhase

\* Once closed, and until its next call, the socket does nothing.
THEOREM QuietOnceClosed == Spec => QuietAfterClose
<1> DEFINE Quiet == app.at = "closed" /\ app'.at = "closed" =>
             /\ packet_processor_ = "none"
             /\ UNCHANGED <<reliability, socket, thread[App], thread[Processor]>>
<1>1. ASSUME IInv, [Next]_vars PROVE Quiet
  <2> SUFFICES ASSUME app.at = "closed", app'.at = "closed"
               PROVE  /\ packet_processor_ = "none"
                      /\ UNCHANGED <<reliability, socket, thread[App], thread[Processor]>>
    OBVIOUS
  <2>1. packet_processor_ = "none" /\ thread[App].at = "idle" /\ thread[Processor].at = "idle"
    BY <1>1 DEF IInv, ThreadsInPhase
  <2>2. CASE Other
    <3>1. PICK u \in Others : OtherStep(u)
      BY <2>2 DEF Other
    <3>2. UNCHANGED <<thread[App], thread[Processor]>>
      BY <1>1, <3>1, StepOfOther, TakesEffect, ThreadsAre DEF IInv, TypeOK
    <3> QED
      BY <2>1, <2>2, <3>2 DEF Other
  <2>3. CASE UNCHANGED vars
    BY <2>1, <2>3 DEF vars, manager
  <2>4. ~Apart
    BY <2>1 DEF Apart, TCPSocket, set_initial_seq, start_packet_processor, send,
       send_chunk, send_return, recv, recv_timeout, recv_wake, close, close_join, close_check,
       loop_check, loop_collect, loop_again, Free, At
  <2>5. Together => Other
    BY <2>1 DEF Together, accept_new, accept, TCPSocket_accepted, accept_return,
       accept_receive, connect_continue, send_transmit, send_advance, close_connection,
       close_continue, loop_retransmit, loop_advance, M!send_data_advance, listen,
       connect, At
  <2> QED
    BY <1>1, <2>2, <2>3, <2>4, <2>5, NextIsApartOrTogether
<1> QED
  BY <1>1, Invariance, PTL DEF Spec, QuietAfterClose
=============================================================================
