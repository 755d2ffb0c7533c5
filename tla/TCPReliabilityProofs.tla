------------------------- MODULE TCPReliabilityProofs -------------------------
(***************************************************************************)
(* Proofs about TCPReliability, for every sequence space, window, size of  *)
(* a segment and initial sequence number: the segments tile the stream and *)
(* are retransmitted a bounded number of times, through any number of      *)
(* wraps; and until the first, what is not acknowledged is kept, the       *)
(* window does not leak, and the class implements ReliableStream.          *)
(***************************************************************************)
EXTENDS TCPReliability, TLAPS

(* Remainders, for a modulus that is not a literal *)

LEMMA Remainder ==
  ASSUME NEW a \in Nat
  PROVE  a % SeqMod \in 0 .. SeqMod - 1 /\ \E q \in Nat : a = SeqMod * q + (a % SeqMod)
<1>1. a % SeqMod \in 0 .. SeqMod - 1
  BY ReliabilityAssumption
<1>2. a \div SeqMod \in Nat
  BY ReliabilityAssumption
<1>3. a = SeqMod * (a \div SeqMod) + (a % SeqMod)
  BY ReliabilityAssumption
<1> QED BY <1>1, <1>2, <1>3

\* Of the multiples of the modulus only 0 lies less than the modulus from 0.
LEMMA NoOtherMultiple ==
  ASSUME NEW d \in Int, NEW r \in Int, r = SeqMod * d, r < SeqMod, r > 0 - SeqMod
  PROVE  d = 0
<1>1. SeqMod \in Int /\ SeqMod > 0
  BY ReliabilityAssumption
<1>2. CASE d >= 1
  <2>1. PICK e \in Nat : d = e + 1
    BY <1>2
  <2>2. SeqMod * e \in Nat
    BY <1>1, <2>1
  <2>3. SeqMod * (e + 1) = SeqMod * e + SeqMod
    BY <1>1, <2>1
  <2> QED BY <1>1, <2>1, <2>2, <2>3
<1>3. CASE d <= -1
  <2>1. PICK e \in Nat : d = -(e + 1)
    <3>1. -d - 1 \in Nat /\ d = -((-d - 1) + 1)
      BY <1>3
    <3> QED BY <3>1
  <2>2. SeqMod * e \in Nat
    BY <1>1, <2>1
  <2>3. SeqMod * (-(e + 1)) = -(SeqMod * e) - SeqMod
    BY <1>1, <2>1
  <2> QED BY <1>1, <2>1, <2>2, <2>3
<1> QED BY <1>2, <1>3

\* The sum of two numbers is a sequence number.
LEMMA SeqPlusIsANumber ==
  ASSUME NEW a \in Nat, NEW b \in Nat
  PROVE  SeqPlus(a, b) \in SeqNum
<1>1. a + b \in Nat
  OBVIOUS
<1> QED BY <1>1, Remainder DEF SeqPlus, SeqNum

\* Sequence numbers may be added up in any number of steps.
LEMMA SeqPlusTwice ==
  ASSUME NEW a \in Nat, NEW b \in Nat, NEW c \in Nat
  PROVE  SeqPlus(SeqPlus(a, b), c) = SeqPlus(a, b + c)
<1> DEFINE n == a + b
           r == n % SeqMod
           x == (r + c) % SeqMod
           y == (n + c) % SeqMod
<1>0. n \in Nat
  OBVIOUS
<1> HIDE DEF n
<1>1. PICK q \in Nat : n = SeqMod * q + r
  BY <1>0, Remainder
<1>2. r \in 0 .. SeqMod - 1
  BY <1>0, Remainder
<1>3. r + c \in Nat /\ n + c \in Nat
  BY <1>0, <1>2
<1> HIDE DEF r
<1>4. x \in 0 .. SeqMod - 1 /\ y \in 0 .. SeqMod - 1
  BY <1>3, Remainder
<1>5. PICK p \in Nat : r + c = SeqMod * p + x
  BY <1>3, Remainder
<1>6. PICK t \in Nat : n + c = SeqMod * t + y
  BY <1>3, Remainder
<1> HIDE DEF x, y
<1>7. SeqMod \in Int
  BY ReliabilityAssumption
<1>8. SeqMod * (t - p - q) = SeqMod * t - SeqMod * p - SeqMod * q
  BY <1>7
<1>9. /\ SeqMod * t \in Int /\ SeqMod * p \in Int /\ SeqMod * q \in Int /\ r \in Int
  BY <1>7, <1>2
<1>10. x - y = SeqMod * (t - p - q)
  BY <1>0, <1>1, <1>4, <1>5, <1>6, <1>7, <1>8, <1>9
<1>11. t - p - q = 0
  BY <1>4, <1>7, <1>10, NoOtherMultiple
<1>12. SeqMod * 0 = 0
  BY <1>7
<1>13. x = y
  BY <1>4, <1>7, <1>10, <1>11, <1>12
<1>14. (a + b) + c = a + (b + c)
  OBVIOUS
<1> QED BY <1>13, <1>14 DEF SeqPlus, n, r, x, y

\* Below the end of the sequence space the modulus does nothing.
LEMMA SeqPlusSmall ==
  ASSUME NEW a \in Nat, NEW b \in Nat, a + b < SeqMod
  PROVE  SeqPlus(a, b) = a + b
  BY ReliabilityAssumption DEF SeqPlus

\* Numbers of bytes of a stream that has not wrapped.
LEMMA StreamSmall ==
  ASSUME TypeOK, BeforeWrap, NEW k \in 0 .. sent
  PROVE  isn + k \in SeqNum /\ SeqPlus(isn, k) = isn + k
<1>1. isn \in Nat /\ k \in Nat /\ isn + k < SeqMod
  BY ReliabilityAssumption DEF TypeOK, SeqNum, BeforeWrap
<1> QED
  BY <1>1, SeqPlusSmall, ReliabilityAssumption DEF SeqNum
-----------------------------------------------------------------------------
(* The inductive invariant *)

\* The invariant holds initially.
LEMMA InitIInv == Init => IInv
<1> SUFFICES ASSUME Init PROVE IInv
  OBVIOUS
<1>1. TypeOK
  BY ReliabilityAssumption DEF Init, TypeOK, TCPSegment, SeqNum
<1>2. SeqPlus(0, 0) = 0
  BY ReliabilityAssumption, SeqPlusSmall
<1> QED
  BY <1>1, <1>2
     DEF Init, IInv, CountersFollowTheStream, InsideTheStream, SegmentsTileTheStream, RetainedUntilAcked,
         KeptUntilAcked, DroppedWhenAcked, NeverOvercounts, BoundedRetransmits

\* A fresh object is given its initial sequence number.
LEMMA SetInitialSeqStep ==
  ASSUME IInv, NEW seq \in InitialSeqs, set_initial_seq(seq) PROVE IInv'
<1>1. created = 0 /\ sent = 0 /\ acked = 0 /\ last_ack_received_ = 0
  BY DEF IInv, set_initial_seq, TypeOK, CountersFollowTheStream
<1>2. seq \in SeqNum /\ SeqPlus(seq, 0) = seq
  BY ReliabilityAssumption, SeqPlusSmall DEF SeqNum
<1>3. /\ next_seq_num_' = seq /\ isn' = seq
      /\ UNCHANGED <<last_ack_received_, bytes_in_flight_, segments, windows,
                     send_buffer_, to_retransmit, sent, acked>>
  BY DEF set_initial_seq
<1>4. TypeOK'
  BY <1>2, <1>3 DEF IInv, TypeOK, segments, windows
<1>5. BeforeWrap
  BY <1>1, ReliabilityAssumption DEF IInv, TypeOK, SeqNum, BeforeWrap
<1>6. NeverOvercounts'
  BY <1>3, <1>5 DEF IInv, NeverOvercounts
<1>7. CountersFollowTheStream'
  BY <1>1, <1>2, <1>3 DEF CountersFollowTheStream, segments
<1>8. SegmentsTileTheStream' /\ RetainedUntilAcked' /\ BoundedRetransmits' /\ InsideTheStream'
  BY <1>1, <1>3 DEF segments, IInv, TypeOK, InsideTheStream, SegmentsTileTheStream, RetainedUntilAcked,
     KeptUntilAcked, DroppedWhenAcked, BoundedRetransmits
<1> QED
  BY <1>4, <1>6, <1>7, <1>8 DEF IInv

\* The steps that touch neither a segment nor a counter.
LEMMA OtherSteps ==
  ASSUME IInv,
         \/ \E window \in Windows : set_window_size(window) \/ update_remote_window(window)
         \/ \E n \in Sizes : buffer_data(n)
         \/ UNCHANGED vars
  PROVE  IInv'
<1>1. UNCHANGED <<counters, segments, to_retransmit, isn, sent, acked>>
  BY DEF set_window_size, update_remote_window, buffer_data, vars
<1>2. /\ send_window_size_' \in Windows /\ remote_window_size_' \in Windows
      /\ send_buffer_' \in 0 .. MaxBytes - sent
  BY ReliabilityAssumption
     DEF IInv, TypeOK, set_window_size, update_remote_window, buffer_data, windows, vars
<1> QED
  BY <1>1, <1>2
     DEF counters, segments, IInv, TypeOK, CountersFollowTheStream, InsideTheStream,
         SegmentsTileTheStream, RetainedUntilAcked, KeptUntilAcked, DroppedWhenAcked, BeforeWrap, NeverOvercounts,
         BoundedRetransmits, End

\* What get_data_to_send takes is a positive number of bytes that were buffered.
LEMMA SendAmount ==
  ASSUME IInv, NEW max_size \in Sizes
  PROVE  LET to_send == BytesToSend(max_size) IN
         to_send \in Nat /\ sent + to_send \in 0 .. MaxBytes /\ to_send <= send_buffer_
<1>1. get_effective_window \in SeqNum
  BY ReliabilityAssumption DEF IInv, TypeOK, get_effective_window, Least
<1>2. available_window \in Nat
  BY <1>1, ReliabilityAssumption DEF available_window, IInv, TypeOK, SeqNum
<1>3. max_size \in Nat /\ send_buffer_ \in 0 .. MaxBytes - sent /\ sent \in 0 .. MaxBytes
  BY ReliabilityAssumption DEF IInv, TypeOK
<1> QED
  BY <1>2, <1>3, ReliabilityAssumption DEF Least, BytesToSend, BytesAskedFor

\* A segment is cut off the buffered bytes.
LEMMA GetDataStep ==
  ASSUME IInv, NEW max_size \in Sizes, get_data_to_send(max_size) PROVE IInv'
<1> DEFINE new == created + 1
<1>1. PICK k \in 1 .. MaxBytes :
        /\ k = BytesToSend(max_size)
        /\ sent + k \in 0 .. MaxBytes
        /\ k <= send_buffer_
  BY SendAmount, ReliabilityAssumption DEF get_data_to_send, IInv, TypeOK
<1>2. /\ send_buffer_' = send_buffer_ - k
      /\ created' = new
      /\ segment' = [segment EXCEPT ![new] = [seq_num |-> next_seq_num_, first |-> sent,
                                             len |-> k, retransmit_count |-> 0]]
      /\ unacked_segments_' = unacked_segments_ \cup {new}
      /\ next_seq_num_' = SeqPlus(next_seq_num_, k)
      /\ bytes_in_flight_' = SeqPlus(bytes_in_flight_, k)
      /\ sent' = sent + k
      /\ UNCHANGED <<last_ack_received_, windows, to_retransmit, isn, acked>>
  BY <1>1 DEF get_data_to_send, advance_seq, CountInFlight
<1>3. /\ created \in Nat /\ sent \in Nat /\ created <= sent /\ acked \in 0 .. sent
      /\ bytes_in_flight_ \in Nat /\ isn \in Nat /\ MaxBytes \in Nat /\ SeqMod \in Nat
      /\ next_seq_num_ \in SeqNum /\ next_seq_num_ = SeqPlus(isn, sent)
  BY ReliabilityAssumption DEF IInv, TypeOK, CountersFollowTheStream, SeqNum
<1>4. /\ next_seq_num_' = SeqPlus(isn, sent + k)
      /\ next_seq_num_' \in SeqNum /\ bytes_in_flight_' \in SeqNum
  <2>1. k \in Nat /\ sent + k \in Nat
    BY <1>1, <1>3
  <2>2. SeqPlus(SeqPlus(isn, sent), k) = SeqPlus(isn, sent + k)
    BY <1>3, <2>1, SeqPlusTwice
  <2> QED BY <1>2, <1>3, <2>1, <2>2, SeqPlusIsANumber
<1>5. /\ new \in SegmentId
      /\ \A n \in 1 .. created : segment'[n] = segment[n] /\ n # new
      /\ segment'[new] = [seq_num |-> next_seq_num_, first |-> sent,
                          len |-> k, retransmit_count |-> 0]
      /\ 1 .. created' = (1 .. created) \cup {new}
  <2>1. new \in SegmentId /\ 1 .. created' = (1 .. created) \cup {new}
    BY <1>1, <1>2, <1>3 DEF SegmentId
  <2>2. \A n \in 1 .. created : n \in SegmentId /\ n # new
    BY <1>3, <2>1 DEF SegmentId
  <2>3. segment \in [SegmentId -> TCPSegment]
    BY DEF IInv, TypeOK
  <2> QED
    BY <1>2, <2>1, <2>2, <2>3
<1>6. TypeOK'
  <2>1. next_seq_num_' \in SeqNum /\ bytes_in_flight_' \in SeqNum
    BY <1>4
  <2>2. segment' \in [SegmentId -> TCPSegment]
    <3>1. [seq_num |-> next_seq_num_, first |-> sent, len |-> k,
           retransmit_count |-> 0] \in TCPSegment
      BY <1>1, <1>3, ReliabilityAssumption DEF IInv, TypeOK, TCPSegment
    <3> QED
      BY <1>2, <3>1 DEF IInv, TypeOK
  <2>3. /\ created' \in 0 .. MaxBytes
        /\ sent' \in 0 .. MaxBytes
        /\ acked' \in 0 .. sent'
        /\ send_buffer_' \in 0 .. MaxBytes - sent'
    <3>1. created' \in 0 .. MaxBytes
      BY <1>2, <1>3, <1>5 DEF SegmentId
    <3>2. send_buffer_ \in 0 .. MaxBytes - sent
      BY DEF IInv, TypeOK
    <3> QED
      BY <1>1, <1>2, <1>3, <3>1, <3>2
  <2>4. unacked_segments_' \subseteq 1 .. created' /\ to_retransmit' \subseteq 1 .. created'
    BY <1>2, <1>5 DEF IInv, TypeOK
  <2> QED
    BY <1>2, <2>1, <2>2, <2>3, <2>4 DEF IInv, TypeOK, windows
<1>7. CountersFollowTheStream' /\ NeverOvercounts'
  <2>1. created' <= sent' /\ next_seq_num_' = SeqPlus(isn', sent')
    BY <1>1, <1>2, <1>3, <1>4
  <2>2. CASE ~BeforeWrap'
    BY <2>1, <2>2 DEF CountersFollowTheStream, NeverOvercounts
  <2>3. CASE BeforeWrap'
    <3>1. isn + sent + k < SeqMod /\ BeforeWrap
      BY <1>1, <1>2, <1>3, <2>3 DEF BeforeWrap
    <3>2. /\ bytes_in_flight_ <= sent - acked
          /\ last_ack_received_ \in {0, isn + acked}
          /\ acked > 0 => last_ack_received_ = isn + acked
      BY <3>1 DEF IInv, NeverOvercounts, CountersFollowTheStream
    <3>3. bytes_in_flight_' = bytes_in_flight_ + k
      BY <1>1, <1>2, <1>3, <3>1, <3>2, SeqPlusSmall
    <3>4. NeverOvercounts'
      BY <1>1, <1>2, <1>3, <3>2, <3>3 DEF NeverOvercounts
    <3>5. CountersFollowTheStream'
      BY <1>2, <2>1, <3>2 DEF CountersFollowTheStream
    <3> QED BY <3>4, <3>5
  <2> QED BY <2>2, <2>3
<1>8. SegmentsTileTheStream'
  <2>1. segment'[new].seq_num = SeqPlus(isn', segment'[new].first)
    BY <1>2, <1>3, <1>4, <1>5
  <2>2. ASSUME NEW n \in 1 .. created
        PROVE  /\ segment'[n].seq_num = SeqPlus(isn', segment'[n].first)
               /\ segment'[n].first + segment'[n].len = segment'[n + 1].first
    <3>1. CASE n = created
      BY <1>2, <1>5, <3>1 DEF IInv, SegmentsTileTheStream, End
    <3>2. CASE n # created
      <4>1. n + 1 \in 1 .. created
        BY <1>3, <3>2
      <4> QED
        BY <1>2, <1>5, <3>2, <4>1 DEF IInv, SegmentsTileTheStream, End
    <3> QED
      BY <3>1, <3>2
  <2>3. segment'[1].first = 0
    <3>1. CASE created = 0
      BY <1>3, <1>5, <3>1 DEF IInv, SegmentsTileTheStream, TypeOK, CountersFollowTheStream
    <3>2. CASE created > 0
      BY <1>3, <1>5, <3>2 DEF IInv, SegmentsTileTheStream
    <3> QED
      BY <1>3, <3>1, <3>2
  <2> QED
    BY <1>1, <1>2, <1>3, <1>5, <2>1, <2>2, <2>3 DEF SegmentsTileTheStream, End
<1>9. RetainedUntilAcked'
  <2> SUFFICES ASSUME BeforeWrap' PROVE KeptUntilAcked' /\ DroppedWhenAcked'
    BY DEF RetainedUntilAcked
  <2>1. BeforeWrap
    BY <1>1, <1>2, <1>3 DEF BeforeWrap
  <2>2. KeptUntilAcked /\ DroppedWhenAcked
    BY <2>1 DEF IInv, RetainedUntilAcked
  <2>3. \A n \in 1 .. created : End(n)' = End(n)
    BY <1>5 DEF End
  <2>4. segment'[new].first + segment'[new].len > acked'
    BY <1>1, <1>2, <1>3, <1>5
  <2>5. unacked_segments_ \subseteq 1 .. created
    BY DEF IInv, TypeOK
  <2> QED
    BY <1>2, <1>5, <2>2, <2>3, <2>4, <2>5 DEF KeptUntilAcked, DroppedWhenAcked, End
<1>10. BoundedRetransmits'
  BY <1>2, <1>5, ReliabilityAssumption DEF IInv, BoundedRetransmits, TypeOK
<1>11. InsideTheStream'
  <2>1. ASSUME NEW n \in 1 .. created
        PROVE  segment'[n].len > 0 /\ segment'[n].first + segment'[n].len <= sent'
    <3>1. n \in SegmentId /\ segment[n] \in TCPSegment
      BY <1>3, <1>5 DEF IInv, TypeOK, SegmentId
    <3>2. segment[n].first \in Int /\ segment[n].len \in Int
      BY <3>1 DEF TCPSegment
    <3>3. segment[n].len > 0 /\ segment[n].first + segment[n].len <= sent
      BY DEF IInv, InsideTheStream, End
    <3> QED BY <1>1, <1>2, <1>3, <1>5, <3>2, <3>3
  <2>2. segment'[new].len > 0 /\ segment'[new].first + segment'[new].len <= sent'
    BY <1>1, <1>2, <1>3, <1>5
  <2> QED BY <1>2, <1>5, <2>1, <2>2 DEF InsideTheStream, End
<1> QED
  BY <1>6, <1>7, <1>8, <1>9, <1>10, <1>11 DEF IInv

\* An acknowledgement: a new one drops the segments it covers, an old one none.
LEMMA ProcessAckStep ==
  ASSUME IInv, NEW count \in 0 .. MaxBytes, process_ack(count) PROVE IInv'
<1> DEFINE ack_num == SeqPlus(isn, count)
<1>1. /\ count \in 0 .. sent /\ sent \in 0 .. MaxBytes /\ MaxBytes \in Nat
      /\ acked \in 0 .. sent /\ created \in 0 .. MaxBytes
      /\ bytes_in_flight_ \in SeqNum /\ last_ack_received_ \in SeqNum
      /\ isn \in Nat /\ SeqMod \in Nat \ {0}
      /\ unacked_segments_ \subseteq 1 .. created
  BY ReliabilityAssumption DEF process_ack, IInv, TypeOK, SeqNum
<1>2. ack_num \in SeqNum
  BY <1>1, SeqPlusIsANumber
<1>3. /\ acked' = IF count > acked THEN count ELSE acked
      /\ UNCHANGED <<next_seq_num_, created, segment, windows, send_buffer_,
                     to_retransmit, isn, sent>>
  BY DEF process_ack
<1>4. \/ /\ ack_num > last_ack_received_
         /\ last_ack_received_' = ack_num
         /\ unacked_segments_' =
              {n \in unacked_segments_ : segment[n].seq_num + segment[n].len > ack_num}
         /\ bytes_in_flight_' =
              IF bytes_in_flight_ >= ack_num - last_ack_received_
              THEN bytes_in_flight_ - (ack_num - last_ack_received_) ELSE 0
      \/ /\ ~(ack_num > last_ack_received_)
         /\ UNCHANGED <<last_ack_received_, unacked_segments_, bytes_in_flight_>>
  BY DEF process_ack, remove_acknowledged_segments, InFlightAfterAck
<1> HIDE DEF ack_num
<1>5. TypeOK'
  <2>1. bytes_in_flight_' \in SeqNum /\ last_ack_received_' \in SeqNum
    <3>1. ack_num \in Int /\ last_ack_received_ \in Int /\ bytes_in_flight_ \in Int
      BY <1>1, <1>2 DEF SeqNum
    <3> QED BY <1>1, <1>2, <1>4, <3>1 DEF SeqNum
  <2>2. acked' \in 0 .. sent'
    BY <1>1, <1>3
  <2>3. unacked_segments_' \subseteq 1 .. created'
    BY <1>1, <1>3, <1>4
  <2> QED
    BY <1>3, <2>1, <2>2, <2>3 DEF IInv, TypeOK, windows
<1>6. SegmentsTileTheStream' /\ BoundedRetransmits' /\ InsideTheStream'
  BY <1>3 DEF IInv, InsideTheStream, SegmentsTileTheStream, BoundedRetransmits, End
<1>7. created' <= sent' /\ next_seq_num_' = SeqPlus(isn', sent')
  BY <1>3 DEF IInv, CountersFollowTheStream
<1>8. CASE ~BeforeWrap
  <2>1. ~BeforeWrap'
    BY <1>3, <1>8 DEF BeforeWrap
  <2> QED
    BY <1>5, <1>6, <1>7, <2>1
       DEF IInv, CountersFollowTheStream, RetainedUntilAcked, NeverOvercounts
<1>9. CASE BeforeWrap
  <2>1. /\ bytes_in_flight_ <= sent - acked
        /\ last_ack_received_ \in {0, isn + acked}
        /\ acked > 0 => last_ack_received_ = isn + acked
        /\ KeptUntilAcked /\ DroppedWhenAcked
    BY <1>9 DEF IInv, CountersFollowTheStream, NeverOvercounts, RetainedUntilAcked
  <2>2. ack_num = isn + count
    BY <1>1, <1>9, StreamSmall DEF IInv, ack_num
  <2>3. ASSUME NEW n \in 1 .. created
        PROVE  /\ segment[n].seq_num = isn + segment[n].first
               /\ segment[n].first \in Nat /\ segment[n].len \in Nat
    <3>1. n \in SegmentId /\ segment[n] \in TCPSegment
      BY <1>1 DEF IInv, TypeOK, SegmentId
    <3>2. segment[n].first \in 0 .. sent
      BY <1>1, <3>1 DEF TCPSegment, IInv, InsideTheStream, End
    <3> QED
      BY <1>9, <3>1, <3>2, StreamSmall DEF TCPSegment, IInv, SegmentsTileTheStream
  <2>4. CASE ack_num > last_ack_received_
    <3>1. count >= acked /\ acked' = count /\ last_ack_received_' = isn + count
      BY <1>1, <1>3, <1>4, <2>1, <2>2, <2>4
    <3>2. bytes_in_flight_' <= sent - count
      <4>1. bytes_in_flight_ \in Nat
        BY <1>1 DEF SeqNum
      <4>2. CASE acked = 0
        BY <1>1, <1>4, <2>1, <2>2, <2>4, <4>1, <4>2
      <4>3. CASE acked > 0
        BY <1>1, <1>4, <2>1, <2>2, <2>4, <4>1, <4>3
      <4> QED BY <1>1, <4>2, <4>3
    <3>3. unacked_segments_' = {n \in unacked_segments_ : End(n) > count}
      <4>1. \A n \in 1 .. created :
              segment[n].seq_num + segment[n].len > ack_num <=> End(n) > count
        BY <1>1, <2>2, <2>3 DEF End
      <4> QED BY <1>1, <1>4, <2>4, <4>1
    <3>4. KeptUntilAcked' /\ DroppedWhenAcked'
      <4>1. \A n \in 1 .. created : End(n)' = End(n) /\ End(n) \in Int
        BY <1>3, <2>3 DEF End
      <4> QED
        BY <1>1, <1>3, <2>1, <3>1, <3>3, <4>1 DEF KeptUntilAcked, DroppedWhenAcked
    <3>5. CountersFollowTheStream'
      BY <1>3, <1>7, <3>1 DEF CountersFollowTheStream
    <3>6. NeverOvercounts'
      BY <1>3, <3>1, <3>2 DEF NeverOvercounts
    <3> QED
      BY <1>5, <1>6, <3>4, <3>5, <3>6 DEF IInv, RetainedUntilAcked
  <2>5. CASE ~(ack_num > last_ack_received_)
    <3>1. UNCHANGED <<last_ack_received_, unacked_segments_, bytes_in_flight_>>
      BY <1>4, <2>5
    <3>2. acked' = acked
      BY <1>1, <1>3, <2>1, <2>2, <2>5
    <3>3. KeptUntilAcked' /\ DroppedWhenAcked'
      BY <1>3, <2>1, <3>1, <3>2 DEF KeptUntilAcked, DroppedWhenAcked, End
    <3> QED
      BY <1>3, <1>5, <1>6, <1>7, <2>1, <3>1, <3>2, <3>3
         DEF IInv, CountersFollowTheStream, RetainedUntilAcked, NeverOvercounts
  <2> QED BY <2>4, <2>5
<1> QED BY <1>8, <1>9

\* The list of segments to retransmit holds none that is given up.
LEMMA GetSegmentsStep == ASSUME IInv, get_segments_to_retransmit PROVE IInv'
<1>1. PICK due \in SUBSET unacked_segments_ :
        to_retransmit' = {n \in due : segment[n].retransmit_count < MaxRetransmits}
  BY DEF get_segments_to_retransmit, Retransmittable
<1>2. UNCHANGED <<counters, segments, windows, send_buffer_, isn, sent, acked>>
  BY DEF get_segments_to_retransmit, Retransmittable
<1> QED
  BY <1>1, <1>2
     DEF counters, segments, windows, IInv, TypeOK, CountersFollowTheStream, InsideTheStream,
         SegmentsTileTheStream, RetainedUntilAcked, KeptUntilAcked, DroppedWhenAcked, BeforeWrap, NeverOvercounts,
         BoundedRetransmits, End

\* A segment of the list is counted once and leaves it.
LEMMA MarkStep ==
  ASSUME IInv, NEW n \in to_retransmit, mark_segment_sent(n) PROVE IInv'
<1>1. /\ n \in 1 .. created /\ n \in SegmentId
      /\ segment[n] \in TCPSegment /\ segment[n].retransmit_count < MaxRetransmits
  <2>1. n \in 1 .. created /\ created \in 0 .. MaxBytes
    BY DEF IInv, TypeOK
  <2>2. n \in SegmentId
    BY <2>1, ReliabilityAssumption DEF SegmentId
  <2> QED
    BY <2>1, <2>2 DEF IInv, TypeOK, BoundedRetransmits
<1>2. /\ segment' = [segment EXCEPT ![n].retransmit_count = @ + 1]
      /\ to_retransmit' = to_retransmit \ {n}
      /\ UNCHANGED <<counters, created, unacked_segments_, windows, send_buffer_,
                     isn, sent, acked>>
  BY DEF mark_segment_sent
<1>3. segment' \in [SegmentId -> TCPSegment]
  <2>1. [segment[n] EXCEPT !.retransmit_count = @ + 1] \in TCPSegment
    BY <1>1, ReliabilityAssumption DEF TCPSegment
  <2> QED
    BY <1>1, <1>2, <2>1 DEF IInv, TypeOK
<1>4. \A m \in 1 .. created :
        /\ segment'[m].seq_num = segment[m].seq_num
        /\ segment'[m].first = segment[m].first
        /\ segment'[m].len = segment[m].len
        /\ m # n => segment'[m] = segment[m]
  BY <1>1, <1>2 DEF IInv, TypeOK, TCPSegment
<1>5. segment'[n].retransmit_count <= MaxRetransmits
  BY <1>1, <1>3, ReliabilityAssumption DEF TCPSegment
<1>6. TypeOK' /\ CountersFollowTheStream' /\ NeverOvercounts'
  <2>1. to_retransmit' \subseteq 1 .. created
    BY <1>2 DEF IInv, TypeOK
  <2>2. TypeOK'
    BY <1>2, <1>3, <2>1 DEF IInv, TypeOK, counters, windows
  <2>3. CountersFollowTheStream' /\ NeverOvercounts'
    BY <1>2 DEF IInv, counters, CountersFollowTheStream, NeverOvercounts, BeforeWrap
  <2> QED
    BY <2>2, <2>3
<1>7. SegmentsTileTheStream' /\ RetainedUntilAcked' /\ InsideTheStream'
  <2>1. \A m \in 1 .. created : m # created => m + 1 \in 1 .. created
    BY DEF IInv, TypeOK
  <2>2. created # 0 => 1 \in 1 .. created
    BY DEF IInv, TypeOK
  <2>3. \A m \in 1 .. created : End(m)' = End(m)
    BY <1>4 DEF End
  <2>4. SegmentsTileTheStream'
    BY <1>2, <1>4, <2>1, <2>2, <2>3 DEF IInv, SegmentsTileTheStream
  <2>5. RetainedUntilAcked'
    BY <1>2, <2>3
       DEF IInv, TypeOK, RetainedUntilAcked, KeptUntilAcked, DroppedWhenAcked, BeforeWrap
  <2>6. InsideTheStream'
    BY <1>2, <1>4, <2>3 DEF IInv, InsideTheStream
  <2> QED
    BY <2>4, <2>5, <2>6
<1>8. BoundedRetransmits'
  BY <1>2, <1>4, <1>5 DEF IInv, TypeOK, BoundedRetransmits
<1> QED
  BY <1>2, <1>6, <1>7, <1>8 DEF IInv

\* Every step of a stream that does not wrap keeps the invariant.
LEMMA NextIInv == IInv /\ [Next]_vars => IInv'
<1> SUFFICES ASSUME IInv, [Next]_vars PROVE IInv'
  OBVIOUS
<1>1. CASE \E seq \in InitialSeqs : set_initial_seq(seq)
  BY <1>1, SetInitialSeqStep
<1>2. CASE \/ \E window \in Windows : set_window_size(window) \/ update_remote_window(window)
           \/ \E n \in Sizes : buffer_data(n)
           \/ UNCHANGED vars
  BY <1>2, OtherSteps
<1>3. CASE \E n \in Sizes : get_data_to_send(n)
  BY <1>3, GetDataStep
<1>4. CASE \E count \in 0 .. MaxBytes : process_ack(count)
  BY <1>4, ProcessAckStep
<1>5. CASE get_segments_to_retransmit
  BY <1>5, GetSegmentsStep
<1>6. CASE \E n \in to_retransmit : mark_segment_sent(n)
  BY <1>6, MarkStep
<1> QED
  BY <1>1, <1>2, <1>3, <1>4, <1>5, <1>6 DEF Next

\* The invariant holds throughout every stream that does not wrap.
LEMMA Invariance == Spec => []IInv
<1>1. Init => IInv
  BY InitIInv
<1>2. IInv /\ [Next]_vars => IInv'
  BY NextIInv
<1> QED
  BY <1>1, <1>2, PTL DEF Spec

-----------------------------------------------------------------------------
(* The refinement *)

LEMMA InitStream == Init => Stream!Init
  BY DEF Init, Stream!Init, KeptBytes

\* What is kept is told by the ends of the unacknowledged segments.
LEMMA SameKept ==
  ASSUME unacked_segments_' = unacked_segments_,
         \A n \in unacked_segments_ :
           segment'[n].first = segment[n].first /\ End(n)' = End(n)
  PROVE  KeptBytes' = KeptBytes
  BY DEF KeptBytes, BytesOf

\* The steps the stream does not see.
LEMMA UnseenSteps ==
  ASSUME IInv,
         \/ \E seq \in InitialSeqs : set_initial_seq(seq)
         \/ \E window \in Windows : set_window_size(window) \/ update_remote_window(window)
         \/ get_segments_to_retransmit
         \/ \E n \in to_retransmit : mark_segment_sent(n)
         \/ UNCHANGED vars
  PROVE  UNCHANGED Stream!vars
<1>1. UNCHANGED <<send_buffer_, sent, acked, unacked_segments_>>
  BY DEF set_initial_seq, set_window_size, update_remote_window, get_segments_to_retransmit,
         mark_segment_sent, segments, vars
<1>2. \A n \in unacked_segments_ :
        segment'[n].first = segment[n].first /\ segment'[n].len = segment[n].len
  <2>1. CASE segment' = segment
    BY <2>1
  <2>2. CASE \E m \in to_retransmit : mark_segment_sent(m)
    <3>1. PICK m \in to_retransmit :
            segment' = [segment EXCEPT ![m].retransmit_count = @ + 1]
      BY <2>2 DEF mark_segment_sent
    <3>2. ASSUME NEW n \in unacked_segments_ PROVE n \in SegmentId
      BY ReliabilityAssumption DEF IInv, TypeOK, SegmentId
    <3>3. segment \in [SegmentId -> TCPSegment]
      BY DEF IInv, TypeOK
    <3> QED BY <3>1, <3>2, <3>3 DEF TCPSegment
  <2>3. segment' = segment \/ \E m \in to_retransmit : mark_segment_sent(m)
    BY DEF set_initial_seq, set_window_size, update_remote_window,
           get_segments_to_retransmit, segments, vars
  <2> QED BY <2>1, <2>2, <2>3
<1>3. KeptBytes' = KeptBytes
  BY <1>1, <1>2, SameKept DEF End
<1> QED BY <1>1, <1>3 DEF Stream!vars

\* Buffered bytes are written, unless there are none.
LEMMA BufferIsWrite ==
  ASSUME IInv, NEW n \in Sizes, buffer_data(n)
  PROVE  Stream!Write \/ UNCHANGED Stream!vars
<1>1. /\ send_buffer_' = send_buffer_ + n
      /\ UNCHANGED <<segments, sent, acked>>
  BY DEF buffer_data
<1>2. KeptBytes' = KeptBytes
  BY <1>1 DEF segments, KeptBytes, BytesOf, End
<1>3. n \in Nat /\ sent \in Nat /\ send_buffer_ \in Nat
  BY ReliabilityAssumption DEF IInv, TypeOK
<1>4. CASE n = 0
  BY <1>1, <1>2, <1>3, <1>4 DEF Stream!vars
<1>5. CASE n > 0
  <2>1. /\ sent' + send_buffer_' \in Nat
        /\ sent' + send_buffer_' > sent + send_buffer_
    BY <1>1, <1>3, <1>5
  <2> QED BY <1>1, <1>2, <2>1 DEF Stream!Write
<1> QED BY <1>3, <1>4, <1>5

\* A segment gives its bytes to the network and keeps them.
LEMMA GetDataIsSend ==
  ASSUME IInv, NEW max_size \in Sizes, get_data_to_send(max_size)
  PROVE  Stream!Send
<1>1. PICK k \in 1 .. MaxBytes :
        /\ k = BytesToSend(max_size)
        /\ sent + k \in 0 .. MaxBytes
        /\ k <= send_buffer_
  BY SendAmount, ReliabilityAssumption DEF get_data_to_send, IInv, TypeOK
<1>2. /\ sent \in Nat /\ send_buffer_ \in Nat /\ created \in Nat /\ MaxBytes \in Nat
      /\ created <= sent /\ segment \in [SegmentId -> TCPSegment]
      /\ unacked_segments_ \subseteq 1 .. created
  BY ReliabilityAssumption DEF IInv, TypeOK, CountersFollowTheStream
<1>3. PICK new \in SegmentId : new = created + 1
  <2>1. created + 1 \in SegmentId
    BY <1>1, <1>2 DEF SegmentId
  <2> QED BY <2>1
<1>4. /\ send_buffer_' = send_buffer_ - k
      /\ segment' = [segment EXCEPT ![new] =
                       [seq_num |-> next_seq_num_, first |-> sent, len |-> k,
                        retransmit_count |-> 0]]
      /\ unacked_segments_' = unacked_segments_ \cup {new}
      /\ sent' = sent + k
      /\ acked' = acked
  BY <1>1, <1>3 DEF get_data_to_send
<1>5. \A n \in unacked_segments_ : n \in SegmentId /\ n # new
  BY <1>1, <1>2, <1>3 DEF SegmentId
<1>6. BytesOf(new)' = sent .. sent' - 1
  <2>1. segment'[new].first = sent /\ segment'[new].len = k
    BY <1>2, <1>4
  <2> QED BY <1>4, <2>1 DEF BytesOf, End
<1>7. \A n \in unacked_segments_ : BytesOf(n)' = BytesOf(n)
  <2>1. \A n \in unacked_segments_ : segment'[n] = segment[n]
    BY <1>2, <1>4, <1>5
  <2> QED BY <2>1 DEF BytesOf, End
<1>8. KeptBytes' = KeptBytes \cup (sent .. sent' - 1)
  BY <1>4, <1>6, <1>7 DEF KeptBytes
<1>9. sent' \in sent + 1 .. sent + send_buffer_ /\ sent' + send_buffer_' = sent + send_buffer_
  BY <1>1, <1>2, <1>4
<1> QED BY <1>4, <1>8, <1>9 DEF Stream!Send

\* An acknowledgement of new bytes takes back no byte beyond it, and one of old bytes
\* nothing at all.
LEMMA AckIsAcknowledge ==
  ASSUME IInv, BeforeWrap, NEW count \in 0 .. MaxBytes, process_ack(count)
  PROVE  Stream!Acknowledge \/ UNCHANGED Stream!vars
<1> DEFINE ack_num == SeqPlus(isn, count)
<1>1. /\ count \in 0 .. sent /\ sent \in Nat /\ acked \in 0 .. sent /\ isn \in Nat
      /\ created \in 0 .. MaxBytes /\ MaxBytes \in Nat
      /\ unacked_segments_ \subseteq 1 .. created
      /\ segment \in [SegmentId -> TCPSegment]
      /\ last_ack_received_ \in {0, isn + acked}
      /\ acked > 0 => last_ack_received_ = isn + acked
      /\ DroppedWhenAcked
  BY ReliabilityAssumption
     DEF process_ack, IInv, TypeOK, SeqNum, CountersFollowTheStream, RetainedUntilAcked
<1>2. ack_num = isn + count
  BY <1>1, StreamSmall DEF IInv
<1>3. /\ acked' = IF count > acked THEN count ELSE acked
      /\ UNCHANGED <<segment, send_buffer_, sent>>
  BY DEF process_ack
<1>4. ASSUME NEW n \in unacked_segments_
      PROVE  /\ segment[n].seq_num = isn + segment[n].first
             /\ segment[n].first \in Nat /\ segment[n].len \in Nat
  <2>1. n \in SegmentId /\ n \in 1 .. created /\ segment[n] \in TCPSegment
    BY <1>1 DEF SegmentId
  <2>2. segment[n].first \in 0 .. sent
    BY <1>1, <2>1 DEF TCPSegment, IInv, InsideTheStream, End
  <2> QED
    BY <2>1, <2>2, StreamSmall DEF TCPSegment, IInv, SegmentsTileTheStream
<1>5. \/ /\ ack_num > last_ack_received_
         /\ unacked_segments_' = {n \in unacked_segments_ : End(n) > count}
      \/ ~(ack_num > last_ack_received_) /\ unacked_segments_' = unacked_segments_
  <2>1. CASE ack_num > last_ack_received_
    <3>1. unacked_segments_' =
            {n \in unacked_segments_ : segment[n].seq_num + segment[n].len > ack_num}
      BY <2>1 DEF process_ack, remove_acknowledged_segments
    <3>2. \A n \in unacked_segments_ :
            segment[n].seq_num + segment[n].len > ack_num <=> End(n) > count
      BY <1>1, <1>2, <1>4 DEF End
    <3> QED BY <2>1, <3>1, <3>2
  <2>2. CASE ~(ack_num > last_ack_received_)
    BY <2>2 DEF process_ack
  <2> QED BY <2>1, <2>2
<1> HIDE DEF ack_num
<1>6. CASE count > acked
  <2>1. unacked_segments_' = {n \in unacked_segments_ : End(n) > count}
    BY <1>1, <1>2, <1>5, <1>6
  <2>2. acked' = count /\ acked' \in acked + 1 .. sent
    BY <1>1, <1>3, <1>6
  <2>3. KeptBytes' = UNION {segment[n].first .. End(n) - 1 : n \in unacked_segments_'}
    BY <1>3 DEF KeptBytes, BytesOf, End
  <2>4. KeptBytes' \subseteq KeptBytes
    BY <2>1, <2>3 DEF KeptBytes, BytesOf
  <2>5. ASSUME NEW b \in KeptBytes, b >= acked' PROVE b \in KeptBytes'
    <3>1. PICK n \in unacked_segments_ : b \in segment[n].first .. End(n) - 1
      BY DEF KeptBytes, BytesOf
    <3>2. End(n) > count
      BY <1>1, <1>4, <2>2, <2>5, <3>1 DEF End
    <3> QED BY <2>1, <2>3, <3>1, <3>2
  <2> QED BY <1>3, <2>2, <2>4, <2>5 DEF Stream!Acknowledge
<1>7. CASE ~(count > acked)
  <2>1. acked' = acked
    BY <1>1, <1>3, <1>7
  <2>2. unacked_segments_' = unacked_segments_
    <3>1. \A n \in unacked_segments_ : End(n) > count
      BY <1>1, <1>4, <1>7 DEF DroppedWhenAcked, End
    <3> QED BY <1>5, <3>1
  <2>3. KeptBytes' = KeptBytes
    BY <1>3, <2>2 DEF KeptBytes, BytesOf, End
  <2> QED BY <1>3, <2>1, <2>3 DEF Stream!vars
<1> QED BY <1>6, <1>7

\* Every step up to the wrap is one of the stream, or none.
LEMMA StepOfStream ==
  ASSUME IInv, [Next]_vars, BeforeWrap'
  PROVE  Stream!Next \/ UNCHANGED Stream!vars
<1>1. CASE \/ \E seq \in InitialSeqs : set_initial_seq(seq)
           \/ \E window \in Windows : set_window_size(window) \/ update_remote_window(window)
           \/ get_segments_to_retransmit
           \/ \E n \in to_retransmit : mark_segment_sent(n)
           \/ UNCHANGED vars
  BY <1>1, UnseenSteps
<1>2. CASE \E n \in Sizes : buffer_data(n)
  BY <1>2, BufferIsWrite DEF Stream!Next
<1>3. CASE \E n \in Sizes : get_data_to_send(n)
  BY <1>3, GetDataIsSend DEF Stream!Next
<1>4. CASE \E count \in 0 .. MaxBytes : process_ack(count)
  <2>1. PICK count \in 0 .. MaxBytes : process_ack(count)
    BY <1>4
  <2>2. isn' = isn /\ sent' = sent
    BY <2>1 DEF process_ack
  <2>3. BeforeWrap
    BY <2>2 DEF BeforeWrap
  <2> QED BY <2>1, <2>3, AckIsAcknowledge DEF Stream!Next
<1> QED BY <1>1, <1>2, <1>3, <1>4 DEF Next
-----------------------------------------------------------------------------
(* Theorems *)

\* Every variable keeps its type, through any number of wraps.
THEOREM TypeCorrect == Spec => []TypeOK
  BY Invariance, PTL DEF IInv

\* Until the stream wraps, the segments kept are exactly those not acknowledged in
\* full, for every initial sequence number, order of acknowledgements and sequence of
\* windows.
THEOREM NothingLostNothingLeft == Spec => []RetainedUntilAcked
  BY Invariance, PTL DEF IInv

\* Until the stream wraps, bytes_in_flight_ never exceeds the bytes not acknowledged.
THEOREM WindowDoesNotLeak == Spec => []NeverOvercounts
  BY Invariance, PTL DEF IInv

\* The segments tile the stream, also where their numbers wrap.
THEOREM Tiling == Spec => []SegmentsTileTheStream
  BY Invariance, PTL DEF IInv

\* No segment is retransmitted more often than max_retransmits_.
THEOREM RetransmitsAreBounded == Spec => []BoundedRetransmits
  BY Invariance, PTL DEF IInv

\* Until the stream wraps, the class does what the sending half of a reliable stream
\* promises: it gives bytes to the network in order and once, and keeps each until it
\* is acknowledged.
THEOREM ReliabilityImplementsStream == Spec => ImplementsStream
<1>1. IInv /\ [Next]_vars => [BeforeWrap' => Stream!Next]_(Stream!vars)
  BY StepOfStream
<1> QED BY <1>1, InitStream, Invariance, PTL DEF Spec, ImplementsStream
=============================================================================
