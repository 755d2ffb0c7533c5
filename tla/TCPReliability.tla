---------------------------- MODULE TCPReliability ----------------------------
(***************************************************************************)
(* Class TCPReliability: the sending half of one connection's reliable     *)
(* byte stream.  Bytes are buffered, cut into segments that are kept until *)
(* they are acknowledged, and retransmitted a bounded number of times.     *)
(*                                                                         *)
(* The bytes themselves are not modelled: a byte is its position in the    *)
(* stream.  unacked_segments_ only ever loses segments and gains the one   *)
(* just made, so the vector is the set of the identities in it, its order  *)
(* the order of creation.  TCPSegment::acknowledged is set when a segment  *)
(* leaves the vector and read only of segments in it: it is left out.      *)
(*                                                                         *)
(* isn, sent, acked and TCPSegment.first are history: what was set, given  *)
(* out and reported so far, counted without wrapping.                      *)
(***************************************************************************)
EXTENDS Integers

CONSTANTS
  SeqMod,        \* size of the sequence space, 2^32 in the code
  InitialSeqs,   \* initial sequence numbers
  Windows,       \* windows set_window_size and update_remote_window may set
  InitialWindow, \* window of a new object, 65535 in the code
  Sizes,         \* sizes asked of get_data_to_send and given to buffer_data
  MaxRetransmits,\* max_retransmits_
  MaxBytes       \* bound: bytes written in a behaviour

SeqNum == 0 .. SeqMod - 1
SeqPlus(seq, n) == (seq + n) % SeqMod

\* A segment has at least one byte.
SegmentId == 1 .. MaxBytes

TCPSegment == [seq_num : SeqNum, first : 0 .. MaxBytes, len : 0 .. MaxBytes,
               retransmit_count : 0 .. MaxRetransmits]

ASSUME ReliabilityAssumption ==
  /\ SeqMod \in Nat \ {0}
  /\ MaxBytes \in Nat
  /\ MaxRetransmits \in Nat
  /\ InitialSeqs \subseteq SeqNum
  /\ Sizes \subseteq Nat
  /\ InitialWindow \in Windows
  /\ Windows \subseteq SeqNum

VARIABLES
  next_seq_num_,
  last_ack_received_,
  send_buffer_,        \* number of bytes in the queue
  created,             \* TCPSegment objects created so far
  segment,             \* the objects
  unacked_segments_,
  bytes_in_flight_,
  send_window_size_,
  remote_window_size_,
  to_retransmit,       \* the list its caller got and has not marked yet
  isn,                 \* history: the last initial sequence number set
  sent,                \* history: bytes get_data_to_send returned
  acked                \* history: bytes of them the peer acknowledged

windows == <<send_window_size_, remote_window_size_>>
counters == <<next_seq_num_, last_ack_received_, bytes_in_flight_>>
segments == <<created, segment, unacked_segments_>>
vars == <<counters, segments, windows, send_buffer_, to_retransmit, isn, sent, acked>>

Init ==
  /\ next_seq_num_ = 0
  /\ last_ack_received_ = 0
  /\ send_buffer_ = 0
  /\ created = 0
  /\ segment = [n \in SegmentId |->
                  [seq_num |-> 0, first |-> 0, len |-> 0, retransmit_count |-> 0]]
  /\ unacked_segments_ = {}
  /\ bytes_in_flight_ = 0
  /\ send_window_size_ = InitialWindow
  /\ remote_window_size_ = InitialWindow
  /\ to_retransmit = {}
  /\ isn = 0
  /\ sent = 0
  /\ acked = 0

-----------------------------------------------------------------------------

Least(a, b) == IF a < b THEN a ELSE b

get_effective_window == Least(send_window_size_, remote_window_size_)

can_send_data(data_size) == bytes_in_flight_ + data_size <= get_effective_window

\* The difference of two unsigned 32-bit numbers.
available_window == (get_effective_window - bytes_in_flight_ + SeqMod) % SeqMod

\* A new object is given its initial sequence number before it is used.  The guard is
\* the model's: a second connect of a socket has no such care, see TCPSocket.
set_initial_seq(seq) ==
  /\ sent = 0 /\ last_ack_received_ = 0
  /\ next_seq_num_' = seq
  /\ isn' = seq
  /\ UNCHANGED <<last_ack_received_, bytes_in_flight_, segments, windows,
                 send_buffer_, to_retransmit, sent, acked>>

set_window_size(window) ==
  /\ send_window_size_' = window
  /\ UNCHANGED <<counters, segments, remote_window_size_, send_buffer_,
                 to_retransmit, isn, sent, acked>>

update_remote_window(window) ==
  /\ remote_window_size_' = window
  /\ UNCHANGED <<counters, segments, send_window_size_, send_buffer_,
                 to_retransmit, isn, sent, acked>>

buffer_data(n) ==
  /\ sent + send_buffer_ + n <= MaxBytes   \* the bound
  /\ send_buffer_' = send_buffer_ + n
  /\ UNCHANGED <<counters, segments, windows, to_retransmit, isn, sent, acked>>

\* What get_data_to_send takes of the buffer; a mutant does not look at what is there.
BytesAskedFor(max_size) == Least(max_size, available_window)
BytesToSend(max_size) == Least(BytesAskedFor(max_size), send_buffer_)

\* A mutant counts a segment as one byte more, as TCP counts a SYN or a FIN.
advance_seq_and_one(bytes) == next_seq_num_' = SeqPlus(next_seq_num_, bytes + 1)
advance_seq(bytes) == next_seq_num_' = SeqPlus(next_seq_num_, bytes)

\* A mutant does not count what is sent.
CountInFlightNothing(bytes) == bytes_in_flight_' = bytes_in_flight_
CountInFlight(bytes) == bytes_in_flight_' = SeqPlus(bytes_in_flight_, bytes)

\* The bytes leave the buffer as a segment kept for retransmission.
get_data_to_send(max_size) ==
  LET to_send == BytesToSend(max_size) IN
  /\ to_send > 0   \* otherwise nothing changes
  /\ send_buffer_' = send_buffer_ - to_send
  /\ created' = created + 1
  /\ segment' = [segment EXCEPT ![created + 1] =
                   [seq_num |-> next_seq_num_, first |-> sent, len |-> to_send,
                    retransmit_count |-> 0]]
  /\ unacked_segments_' = unacked_segments_ \cup {created + 1}
  /\ advance_seq(to_send)
  /\ CountInFlight(to_send)
  /\ sent' = sent + to_send
  /\ UNCHANGED <<last_ack_received_, windows, to_retransmit, isn, acked>>

\* A mutant: a segment is dropped as soon as its first byte is acknowledged.
remove_begun_segments(ack_num) ==
  unacked_segments_' = {n \in unacked_segments_ : segment[n].seq_num >= ack_num}

\* seq_num is promoted to 64 bits: the end of a segment does not wrap.
remove_acknowledged_segments(ack_num) ==
  unacked_segments_' =
    {n \in unacked_segments_ : segment[n].seq_num + segment[n].len > ack_num}

\* bytes_in_flight_ after an acknowledgement; a mutant leaves a count alone that
\* is smaller than the difference of two acknowledgements.
InFlightUnlessLess(newly_acked_bytes) ==
  IF bytes_in_flight_ >= newly_acked_bytes
  THEN bytes_in_flight_ - newly_acked_bytes
  ELSE bytes_in_flight_

InFlightAfterAck(newly_acked_bytes) ==
  IF bytes_in_flight_ >= newly_acked_bytes
  THEN bytes_in_flight_ - newly_acked_bytes
  ELSE 0

\* An acknowledgement of the first `count' bytes: new, repeated or late, but never of
\* bytes that were not sent, which the code does not exclude.
process_ack(count) ==
  LET ack_num == SeqPlus(isn, count)
      newly_acked_bytes == ack_num - last_ack_received_
  IN
  /\ count <= sent
  /\ IF ack_num > last_ack_received_
     THEN /\ last_ack_received_' = ack_num
          /\ remove_acknowledged_segments(ack_num)
          /\ bytes_in_flight_' = InFlightAfterAck(newly_acked_bytes)
     ELSE UNCHANGED <<last_ack_received_, unacked_segments_, bytes_in_flight_>>
  /\ acked' = IF count > acked THEN count ELSE acked
  /\ UNCHANGED <<next_seq_num_, created, segment, windows, send_buffer_,
                 to_retransmit, isn, sent>>

\* Segments still worth a retransmission; a mutant allows one too many.
OnceTooOften(due) == {n \in due : segment[n].retransmit_count <= MaxRetransmits}
Retransmittable(due) == {n \in due : segment[n].retransmit_count < MaxRetransmits}

\* The caller goes through one list before it asks for the next; any segment
\* old enough and not yet given up may be in it.
get_segments_to_retransmit ==
  /\ to_retransmit = {}
  /\ \E due \in SUBSET unacked_segments_ : to_retransmit' = Retransmittable(due)
  /\ UNCHANGED <<counters, segments, windows, send_buffer_, isn, sent, acked>>

mark_segment_sent(n) ==
  /\ n \in to_retransmit
  /\ segment' = [segment EXCEPT ![n].retransmit_count = @ + 1]
  /\ to_retransmit' = to_retransmit \ {n}
  /\ UNCHANGED <<counters, created, unacked_segments_, windows, send_buffer_,
                 isn, sent, acked>>

Next ==
  \/ \E seq \in InitialSeqs : set_initial_seq(seq)
  \/ \E window \in Windows : set_window_size(window) \/ update_remote_window(window)
  \/ \E n \in Sizes : buffer_data(n) \/ get_data_to_send(n)
  \/ \E count \in 0 .. MaxBytes : process_ack(count)
  \/ get_segments_to_retransmit
  \/ \E n \in to_retransmit : mark_segment_sent(n)

Spec == Init /\ [][Next]_vars
-----------------------------------------------------------------------------
\* Every variable has its type, and what is sent was buffered before.
TypeOK ==
  /\ next_seq_num_ \in SeqNum
  /\ last_ack_received_ \in SeqNum
  /\ bytes_in_flight_ \in SeqNum
  /\ created \in 0 .. MaxBytes
  /\ segment \in [SegmentId -> TCPSegment]
  /\ unacked_segments_ \subseteq 1 .. created
  /\ to_retransmit \subseteq 1 .. created
  /\ send_window_size_ \in Windows
  /\ remote_window_size_ \in Windows
  /\ isn \in SeqNum
  /\ sent \in 0 .. MaxBytes
  /\ acked \in 0 .. sent
  /\ send_buffer_ \in 0 .. MaxBytes - sent

\* The stream has not reached the end of the sequence space: what holds only until
\* then says so, and what does not say so holds through any number of wraps.
BeforeWrap == isn + sent < SeqMod

\* The byte after the last one of segment n.
End(n) == segment[n].first + segment[n].len

\* No segment is dropped before its last byte is acknowledged.
KeptUntilAcked == \A n \in 1 .. created : End(n) > acked => n \in unacked_segments_

\* No segment is kept once its last byte is acknowledged.
DroppedWhenAcked == \A n \in unacked_segments_ : End(n) > acked

\* The reliability of the stream, until it wraps: the segments kept for retransmission
\* are exactly those with a byte the peer has not acknowledged, whatever the
\* initial sequence number and the order in which acknowledgements arrive.
\* (get_data_to_send, process_ack, remove_acknowledged_segments)
RetainedUntilAcked == BeforeWrap => KeptUntilAcked /\ DroppedWhenAcked

\* The window does not leak, until the stream wraps: bytes_in_flight_ never exceeds
\* what the peer has yet to acknowledge, so a window that is full opens again.
\* (process_ack)
NeverOvercounts == BeforeWrap => bytes_in_flight_ <= sent - acked

\* A segment is retransmitted at most max_retransmits_ times although the list
\* is made at one time and gone through later.  (get_segments_to_retransmit,
\* mark_segment_sent)
BoundedRetransmits ==
  /\ \A n \in 1 .. created : segment[n].retransmit_count <= MaxRetransmits
  /\ \A n \in to_retransmit : segment[n].retransmit_count < MaxRetransmits

\* The sequence number of a segment is the place of its bytes in the stream,
\* and the segments follow one another without a gap, also across a wrap.
\* (get_data_to_send)
SegmentsTileTheStream ==
  /\ \A n \in 1 .. created :
       /\ segment[n].seq_num = SeqPlus(isn, segment[n].first)
       /\ End(n) = IF n = created THEN sent ELSE segment[n + 1].first
  /\ IF created = 0 THEN sent = 0 ELSE segment[1].first = 0

\* The counters follow the stream; the last acknowledgement as long as it does not wrap.
CountersFollowTheStream ==
  /\ created <= sent
  /\ next_seq_num_ = SeqPlus(isn, sent)
  /\ BeforeWrap => /\ last_ack_received_ \in {0, isn + acked}
                   /\ acked > 0 => last_ack_received_ = isn + acked

\* No segment is empty or lies beyond what was sent.
InsideTheStream == \A n \in 1 .. created : segment[n].len > 0 /\ End(n) <= sent

\* The inductive invariant.
IInv == /\ TypeOK
        /\ CountersFollowTheStream
        /\ InsideTheStream
        /\ SegmentsTileTheStream
        /\ RetainedUntilAcked
        /\ NeverOvercounts
        /\ BoundedRetransmits
-----------------------------------------------------------------------------
(* What the class promises *)

\* The bytes of a segment, and those of the unacknowledged segments.
BytesOf(n) == segment[n].first .. End(n) - 1
KeptBytes == UNION {BytesOf(n) : n \in unacked_segments_}

Stream == INSTANCE ReliableStream WITH
  written <- sent + send_buffer_, given <- sent, acked <- acked, kept <- KeptBytes

\* Until the stream wraps, the class implements the sending half of a reliable stream.
\* (buffer_data, get_data_to_send, process_ack)
ImplementsStream == Stream!Init /\ [][BeforeWrap' => Stream!Next]_(Stream!vars)
-----------------------------------------------------------------------------
(* What the documentation says and the code does not do *)

\* README "Flow control and window management": no data is taken beyond the
\* window of the time.  (get_data_to_send, update_remote_window)
WindowIsRespected ==
  [][sent' > sent => sent' - acked' <= get_effective_window]_vars
=============================================================================
