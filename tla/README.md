# A TLA+ verification of tcp-impl-demo

This directory models the C++ TCP stack of the repository (`src/`, `include/`)
in TLA+, model-checks it with TLC and proves the properties that matter most
with TLAPS. Paths below are relative to the repository's root.

Contents: [1 the system](#1-the-system) - [2 the modules](#2-the-modules) -
[3 the connection manager](#3-the-connection-manager) -
[4 the other components](#4-the-other-components) - [5 the runs](#5-the-runs-and-their-bounds) -
[6 the proofs](#6-the-proofs) - [7 where code and documentation part](#7-where-the-code-and-its-documentation-part) -
[8 what is not modelled](#8-what-is-not-modelled) - [9 the plan](#9-the-plan)

## 1 The system

The repository implements TCP in user space over a raw IP socket, with a
BSD-like socket class on top, and a second socket class that wraps the kernel's
TCP.

| Component | State | Operations | Correct when |
|---|---|---|---|
| **TCP state machine** `src/tcp_state_machine.cpp` | `current_state_` | `process_event`, `reset`, queries | it moves as RFC 793 says; a closed machine stays closed |
| **TCP connection manager** `src/tcp_connection_manager.cpp` | `connections_`, `listening_sockets_`, the `TCPConnection` objects (4-tuple, sequence numbers, state machine) | `listen`, `accept_connection`, `connect`, `send_segment`, `close_connection`, `find_connection`, `process_incoming_segment` and its handlers | one connection per 4-tuple; nothing half open or half closed stays behind; no thread uses a connection another is opening; a handshake and a teardown take place |
| **TCP reliability** `src/tcp_reliability.cpp` | sequence counters, send buffer, `unacked_segments_`, windows | `buffer_data`, `get_data_to_send`, `process_ack`, `get_segments_to_retransmit`, `mark_segment_sent`, window setters | unacknowledged bytes are kept, acknowledged ones are not; the window does not leak; retransmission is bounded |
| **Round-trip estimator** (in the same class) | `srtt_`, `rttvar_`, `rto_` | `update_rtt`, `set_initial_rto` | the timeout covers the round trips measured |
| **TCP socket** `src/tcp_socket.cpp` | its connection, its `TCPReliability`, receive buffer, flags, a packet processor thread | `bind`, `listen`, `accept`, `connect`, `send`, `recv`, `close`, move, the processing loop | a close ends the thread, whatever was moved where; no thread is lost; bytes go out within the window, are sent again until given up, and keep their numbers |
| **IP layer** `src/ip_layer.cpp` | packet counter | `send_packet`, `receive_packet`, `create_packet`, `parse_packet` | a packet it makes is one it accepts, a damaged one is refused, and what is copied lies inside the packet |
| **Raw socket** `src/raw_socket.cpp` | descriptor, `initialized_` | `initialize`, `send_packet`, `receive_packet`, `close`, move | a valid socket owns one descriptor |
| **Network utilities** `src/network_utils.cpp` | a random generator | checksum, address conversion, `generate_sequence_number` | the checksum of a checked header is 0 |
| **Headers** `include/tcp_header.h`, `include/ip_header.h` | - | field access, byte order | conversions are inverse |
| **Local TCP socket** `src/local_tcp_socket.cpp` | a kernel descriptor, flags | the socket calls | one descriptor, closed once |
| **Examples, tests, build** | - | - | - |

How they interact. `TCPSocket` objects share **one** `TCPConnectionManager`
(`get_connection_manager`, `src/tcp_socket.cpp:12`): its creation is locked, its
use is not. Application threads call it through their sockets, and so does the
packet processor thread each socket starts (`start_packet_processor`). Only
`accept_connection` reads packets: whichever thread accepts handles the segments
of every connection of the process. The manager owns the IP layer, which owns
the raw socket. A socket's application thread and its packet processor share
the socket's `TCPReliability`, without a lock.

What is hard in it: threads that interleave inside one manager call, calls that
fail half way (a refused SYN or FIN), segments that are late, repeated or out of
order, counters that wrap or underflow, and state read before a step and used
after it. `PROJECT.json` lists each hazard at its line, with the properties that
are about it.

## 2 The modules

| Module | What it is |
|---|---|
| `TCPStates` | the states, the events and the transition table; no variable |
| `TCPStateMachine` | one state machine driven by one thread; in no run, see section 7 |
| `TCPConnectionManager` | the manager, called by a set of threads |
| `MCTCPConnectionManager` | its small instances: the segments that may arrive, symmetry |
| `TCPConnectionManagerProofs` | type correctness of the manager |
| `TCPConnectionManagerSafety` | its safety theorems |
| `ReliableStream` | what the sending half of a reliable byte stream promises, without segments or numbers |
| `TCPReliability`, `TCPReliabilityProofs` | the reliability class, its theorems, and that it implements `ReliableStream` |
| `RttEstimator`, `RttEstimatorProofs` | the estimator and its theorems |
| `TCPSocket` | one socket with its two threads, composed of the manager and the reliability class |
| `MCTCPSocket`, `TCPSocketProofs` | its small instances; its theorems, and those of the manager carried over to it |
| `TCPSocketLifecycle`, `TCPSocketLifecycleProofs` | the socket objects and their threads: construction, move, destruction |
| `DescriptorTable` | the descriptors of the process, shared by the next two |
| `LocalTCPSocket`, `RawSocket` | the two classes that own a descriptor |
| `SocketDescriptors`, `SocketDescriptorsProofs` | both in one process, and the theorems |
| `IPLayer`, `MCIPLayer`, `IPLayerProofs` | packets made, sent, damaged and parsed; the instance; the theorems |

What composes what: `TCPConnectionManager` takes `TCPStates`; `TCPSocket` takes
`TCPConnectionManager` (with its theorems) and `TCPReliability` by `INSTANCE` over
its own variables; `SocketDescriptors` takes `LocalTCPSocket` and `RawSocket`
over one kernel table. `TCPReliability` takes the abstract `ReliableStream` with
its variables mapped to the class's. `TCPSocketLifecycle` looks at many socket objects and
leaves out what a call does with its connection; `TCPSocket` looks at one object
that stays where it is, and has all of that. The failures of the IP layer and of
its raw socket, as the manager sees them, are choices of the manager's model.

Names are the source's. Definitions introduced as *a mutant* in their comment
are not part of a specification: each is a plausible bug that one of the
properties must catch, and `PROJECT.json` says which definition it stands in
for and which property then fails.

## 3 The connection manager

### State and actions

`conn` holds the `TCPConnection` objects in order of allocation, `connections`
the identities in `connections_`, `handed` those a caller got back, `wire` the
segment sent last. A set is enough for the vector: it is only extended with the
newest object and `std::remove` keeps its order, so "first in the vector" is
"smallest identity". `thread[t]` is the frame of thread `t`: the place in the
call and the values the call holds across it. Every call that reads shared
state and acts on it later has a step for each part:

| Call | Steps |
|---|---|
| `process_event` | `process_event` (line 9 reads the state and computes the next), `assign_state` (lines 11-14) |
| `connect` | `connect` (the push), `connect_active_open`, `assign_state`, `connect_send_syn`, and `remove_connection` after a refusal |
| `close_connection` | `close_connection`, `assign_state`, `close_send_fin`, `remove_connection` |
| `send_segment` with data | `send_data`, `send_data_advance` |
| `accept_connection` | `accept_connection`, one `handle_..._segment` per packet with its following steps (`assign_state`, `handle_send_ack`, `handle_reset`, `handle_data_segment`), `accept_return` |

`process_event` reads `current_state_` twice, once for the table and once for
the comparison. The default build has no optimisation (`CMakeLists.txt` sets no
build type) and reads it twice indeed; a build that keeps the first value skips
the assignment of an event that changes nothing, which is a subset of the
behaviours here: a write of the value that is there. A write that the second
comparison skips is a write of the value it compared with, so `assign_state`
may write unconditionally.

The dispatch is that of `process_incoming_segment`: SYN+ACK, SYN, ACK, FIN, RST
in this order of flags, then the payload. The acknowledgement number, window
and data offset of a received segment are read by no handler and are left out;
so are `remote_seq`, `window_size` and `last_activity`, which are written and
never read.

### What is assumed

- One operation on a vector, one read and one write of `current_state_`, and
  one update of another field are atomic steps. A race on a `std::vector` has no
  defined outcome and is outside the model.
- `handle_syn_segment` is one step: nobody else can change the new object
  between the push and the SYN+ACK, since a CLOSED object only leaves CLOSED by
  the ACTIVE_OPEN of the `connect` that allocated it.
- `local_seq += data.size()` is one step of its own (`send_data_advance`); two
  sends can carry one number, but no update is lost.
- `initialize()`'s result is ignored by `get_connection_manager`, so the raw
  socket may be valid or not from the start (`raw_valid`). `sendto` may fail if
  `IpMayFail`. Any segment of `Arrivals` may arrive at any time, any number of
  times: loss, repetition and reordering are all there.
- `send_segment`'s check of the state, the header it builds and `send_packet` are one
  step: a write of another thread falls before the check or after the send.
- The manager's own interface is modelled: a holder may close or send at any
  time. `TCPSocket` uses it in a narrower way (it checks for ESTABLISHED first) and
  is built from its actions (section 4.2).
- `InitialSeqs` are the numbers `generate_sequence_number` may give: any, and a
  run may fix them where its properties do not depend on them.

### Properties

`TypeOK`, and properties that relate the calls of several threads:

- `CallsInPhase`: the phases of the calls on one object exclude one another. An
  object has one opening call and is CLOSED until that call has processed
  ACTIVE_OPEN; a write under way to SYN_SENT or to a closing state finds its
  object removed, held, or with the call still running that will remove it.
- `TransientStates`: what is in `connections_` in SYN_SENT has its `connect`
  running or a holder; what is there past CLOSE has its `close_connection`
  running. Threads overwrite each other's states, and still nothing is orphaned
  in a transient state.
- `UsedOnlyOnceOpened`: what is held or has sent is not being opened, although
  `connect` publishes its object before it opens it.
- `ClosedIsFinal` (an action property): once CLOSED with no other write under
  way, for good.
- `TransientStatesPass` (liveness): a connection that is half open, or half
  closed, does not stay so in `connections_`.

Fairness: `FairSpec` asks weak fairness of `Continue(t)` for every thread, the
steps inside a call. The code blocks nowhere inside a manager call (there is no
lock, `sendto` is taken to return), and the operating system schedules every
thread. Nothing is asked of the arrival of packets, of the end of the drain
loop, or of the application. `accept_return` is not in `Continue`: a peer that
never stops sending keeps the loop going.

That a SYN is answered is documented and not so: `SynIsAnswered` is the property of
`Manager_handshake`, which TLC violates (section 7).

## 4 The other components

### 4.1 Reliability and the estimator

`TCPReliability` is the class as its interface is meant to be used: a stream
gets its initial number, bytes are buffered and taken out as segments,
acknowledgements arrive, windows change, segments are retransmitted. A byte is
its position in the stream. The clock is left out: any subset of the unacked
segments may be due (`get_segments_to_retransmit`). The list returned lives in
`to_retransmit` until its caller has marked every segment, and acknowledgements
may come in between. `process_ack(count)` is an acknowledgement of the first
`count` bytes, new or old, so late, repeated and reordered acknowledgements are
covered, also those that end inside a segment. `isn`, `sent`, `acked` and a
segment's `first` are history variables that do not wrap; `BeforeWrap` says that
the sequence numbers of the stream have not wrapped yet. `available_window` is
the unsigned difference of `src/tcp_reliability.cpp:50`, modulo `SeqMod`.

- `RetainedUntilAcked`: before the wrap, the unacked segments are exactly those with
  a byte that is not acknowledged.
- `NeverOvercounts`: before the wrap, `bytes_in_flight_` is at most what is
  unacknowledged: a full window opens again.
- `BoundedRetransmits`: counts stay within `max_retransmits_`, also for a list
  that was made earlier.
- `SegmentsTileTheStream`: numbers and lengths of consecutive segments fit, also
  across a wrap.
- `ImplementsStream` is the refinement. `ReliableStream` has the bytes written, given
  to the network, acknowledged and kept; `kept` is mapped to `KeptBytes`, the bytes
  of `unacked_segments_`. Before the wrap, every step of the class writes, sends the
  next bytes and keeps them, acknowledges some and lets go of none that is not
  acknowledged, or is no step of the stream: windows, retransmissions and old
  acknowledgements. The class drops whole segments, so the abstract
  acknowledgement may keep bytes longer. After the wrap a step need not
  implement anything, because the code's does not (section 7).

Some restrictions are the model's and not the class's. `set_initial_seq` is called before
the stream begins; a socket's second `connect` calls it on an object in use, so `TCPSocket`
has a `set_initial_seq` of its own, without that guard. An acknowledgement covers no
more than was sent, as from a peer that follows the protocol; `process_ack` takes any number.
`set_initial_rto` of `RttEstimator` comes before the first measurement.

`RttEstimator` is `update_rtt` in milliseconds. The weights 1/8 and 1/4 are
binary fractions, so that the floating-point sums are exact for the values in
question and the casts are integer quotients. `CoversLastRoundTrip` says that
the timeout is at least the round trip just measured (up to the cap of 60 s):
srtt moves an eighth of the way and 4 rttvar makes up for the rest, in spite of
two truncations. `SrttMovesTowards` says that the estimate does not overshoot.
`DoesNotDrift` relates the state to all measurements so far (`fastest` and
`slowest` are history): the estimate is never outside them, and the timeout
exceeds the longest by no more than the spread accounts for. It would fail if the
truncations added up, or if the restart at a round trip of 0 ms left a
variation that belongs to no measurement.

### 4.2 The TCP socket

`TCPSocket` is the composition: an application thread `App` that calls one
socket, its packet processor thread `Processor`, and `Others`, threads that use
other sockets of the process and so the same manager. `M` is the manager and `R`
the reliability class, over the variables declared in `TCPSocket`. Every call of the
socket on either of them is a step, or several, of theirs. What the socket adds:

| Variable | Code |
|---|---|
| `connection_`, `is_listening_`, `should_stop_` | the members of that name |
| `packet_processor_` | the thread: not joinable, at the condition of the loop, after its sleep, inside the `for` over the list, at its end |
| `app` | where the application thread is in a call; in `send` also how much is left and which chunk is on its way |
| `shared` | history: connections that other sockets were given |

| Call | Steps |
|---|---|
| construction | `TCPSocket`, or `accept_new` (an accept on another socket) and `TCPSocket_accepted`, `set_initial_seq`, `start_packet_processor` |
| `listen` | `listen`, `start_packet_processor` |
| `accept` | `accept`, `accept_receive` for each step of the drain loop, `accept_return` |
| `connect` | `connect`, `connect_continue` for each step of the manager's, `set_initial_seq`, `start_packet_processor` |
| `send` | `send` (the buffering), then `send_chunk`, `send_transmit`, `send_advance` for each chunk, `send_return` |
| `recv` | `recv`, `recv_timeout` or `recv_wake` |
| `close` | `close` (the flag), `close_join`, `close_check` (`is_connected`), `close_connection`, `close_continue` |
| `packet_processing_loop` | `loop_check`, `loop_collect`, then `loop_retransmit`, `loop_advance` for each segment of the list, `loop_again` |

`send` and the loop run at the same time on one `TCPReliability` and on one
connection, and both may be inside the manager. One operation of
`TCPReliability` is one step: its containers are not synchronised in the code, and a
race on them has no defined outcome. The example programs and the tests use a
socket from one application thread, and so does the model.

- `WithinWindow`: nothing is ever acknowledged, so in all the calls of `send` together
  no more than one window goes out, also after a close and another connect.
- `QuietAfterClose`: when `close` has returned and until the next call, no thread of
  the socket is inside the manager and nothing of its stream changes.
- `CloseReturns` (liveness): the join ends, whatever the loop is doing.
- `KeptIsSentAgain` (liveness): while the socket is connected, a segment it keeps and has not
  given up goes out again, unless a close begins. The packet processor is then inside
  `send_segment`, past the send: a refused segment, which the loop marks as sent too, does
  not count. This holds on the socket's second connection as on its first: the flag that stopped
  the thread was cleared, and there is a new thread.

By construction every step of the socket's threads is one of the manager's or leaves the
manager alone, so what is proved of the manager holds in the presence of packet
processors, of retransmissions on a connection another thread closes, and of
sockets that let go of a connection without closing it (section 6).

Fairness: weak on `AppContinue` and on `Loop`, for the operating system runs both
threads and neither blocks without end in these steps (a sleep ends, `recv` with a
timeout ends, the join waits for `Loop`). Strong on `AllAreDue`, the `loop_collect`
that finds every segment due: `rto_` is finite, so the loop, which comes round
every 10 ms, comes round after it again and again. Nothing is asked of the end
of an accept, of `recv` without a timeout, of packets, or of the application.

### 4.3 The life of a socket object

A `std::thread` is bound to the object that started it, while its handle moves
with `packet_processor_`. `TCPSocketLifecycle` has the places objects may be at, the
threads with the place each is bound to, and the application threads in their
calls. A call is one step up to the join and one after it (`joined`): no other
call uses the object, and what the loop reads is one flag and two pointers.
So no two threads are in calls on one object (`Free`). `stop_packet_processor` locks nothing,
and two closes of one socket at a time may join one thread twice; README.md:184
("Thread-safe operations") does not exclude such a use, the model does.
Reading an object that is gone gives any value. `parts` says that
`connection_manager_` and `reliability_` have not been moved out. A listening or
connecting call on a moved-from object would use a null pointer and is left out.

- `EveryThreadHasOneOwner`: a thread that was started and not joined is the
  `packet_processor_` of one object; otherwise the program would be terminated by
  the destructor of, or an assignment to, a joinable `std::thread`, or would
  join twice.
- `UnmovedIsThere`: the loop of a socket that was not moved finds the object and its
  members as long as it runs.
- `StopIsSeen`: while a thread waits in `stop_packet_processor` no other call touches
  its objects, the flag stays set, and the thread waited for, unless it was
  moved, is bound to the object with that flag.
- `StopReturns` (liveness): hence a close, destructor or assignment of an object whose
  thread was not moved returns. Fairness is weak on each thread's loop and on each join.

### 4.4 Descriptors

`LocalTCPSocket` and `RawSocket` objects share the process's table: `socket()` gives
the lowest free number (`IsNext`), so a number one object has closed is the next one
another gets. The kernel is external, modelled from the calls the code makes. A call
is one step: it touches its own objects and the table only. (`close` has `::close` and
then `socket_fd_ = -1`; the object is used by one thread, which does not look at it in between.) A failing `bind`, or
a `connect` that makes a socket and fails to connect it, leaves the object with
an unconnected socket, as `bind` does. `lost` (descriptors that `create_socket`
overwrote) and `reopened` are history.

- `OneOwner`: no two objects hold one number, so none closes another's socket.
- `HeldIsOpen`: a number an object holds is an open socket of its kind; `is_valid`
  of a raw socket, which looks at the number alone, implies `initialized_` and a
  configured socket.
- `NothingElseLeaks`: what is open is held or was overwritten by `create_socket`.
- `FlagsMatch`: the flags say what the socket is, unless it was reopened.

### 4.5 The IP layer

`IPLayer` has the 20 bytes of a header as they are in memory and the length of
the payload. The code sums the header in 16-bit words of the host's byte order,
so `LittleEndian` is a constant. `create_packet` is the function; `send_packet` has
the kernel fill in the checksum, as it does for a socket with IP_HDRINCL; on
the way one byte of the header changes (`Damage`) or the end of the packet is
lost (`Cut`); `parse_packet` takes it apart.

- `RoundTrip`: what was made is accepted, with the addresses, the protocol and the
  payload asked for, as long as the length fits its field, whatever the
  identification and the checksum come to.
- `DamagedIsRefused`: any single changed byte is noticed, the checksum's own included.
- `PayloadIsInside`: what is copied lies inside the packet.
- `KernelPacketsByByteOrder`: of the packets that arrive as the kernel sent them, with
  the checksum of RFC 791, a big-endian host accepts all and a little-endian one
  exactly those whose checksum has two equal bytes. This says all there is to say
  about the disagreement that `IP_rfc791` shows.
- `MissingInWholeWords`: for payloads of every length, what a 16-bit `total_length` makes of
  them. A packet whose length modulo 65536 is less than 20 is refused. Any other is accepted,
  and what is missing of the payload is a multiple of 65536 bytes at its end: nothing as long as the
  length fits, and from 65536 bytes on the packet passes for a shorter one (section 7).

## 5 The runs and their bounds

Every bound is a constant of its module. `SeqMod` is 1 in the manager's runs,
whose properties do not tell sequence numbers apart, 2 in the socket's and 16 in
that of `TCPReliability`.

| Run | Instance | Shows |
|---|---|---|
| `Manager_three_threads` | 3 threads, 1 object, with payloads, sends may fail | types, phases, nothing left behind, closed for good, with two stale writers and a third thread |
| `Manager_two_peers` | 2 threads, 2 objects, 2 peers of which one sends everything and the other opens only, sends may fail, fairness | the same, `UsedOnlyOnceOpened` and `TransientStatesPass`, with two objects of one 4-tuple or of two |
| `Reliability_stream` | 5 bytes, windows 1 and 3, initial numbers 1, 3, 8 and 13, the last of which wraps | types and the five properties of 4.1 |
| `Rtt_samples` | 5 measurements out of 8 values from 0 ms to 70 s | types and the three properties |
| `Socket_threads` | the socket's two threads and one more, 2 objects of which the second is a reconnect, window and chunk of 1 byte, sends of up to 2 bytes, 1 retransmission, fairness | the properties of 4.2 |
| `Lifecycle_moves` | 2 application threads, 2 places, 3 packet processors, fairness | the properties of 4.3 |
| `Descriptors_shared` | 3 local and 2 raw sockets, 3 descriptors | the properties of 4.4 |
| `IP_packets` | 2 addresses, payloads about 0, 189 (a checksum of two equal bytes), 65516 and 65536 bytes, 9 values of a changed byte, cuts about 20 | the properties of 4.5 |
| `Manager_handshake`, `Socket_retransmit`, `Lifecycle_moved`, `IP_rfc791` | the same or smaller | the violations of section 7 |

Why the bounds are enough. The properties of the manager are about one object
and at most three threads: the one that opens or closes it and two that hold
stale states of it, which `Manager_three_threads` has. A second object matters
for the 4-tuple lookup and for the scan of `accept_connection`
(`Manager_two_peers`). Arrivals have one segment for each branch of the
dispatch: segments with more flags take one of the same branches. Threads and
peers are interchangeable, so symmetry is sound in `Manager_three_threads`; the
runs with liveness do not use it.

In `Reliability_stream` five bytes with windows 1 and 3 make the window full, shrink
it below the bytes in flight, cut segments of 1, 2 and 3 bytes, and acknowledge
inside them. Initial numbers 1, 3 and 8 make the first difference of
acknowledgements smaller and larger than the bytes in flight; a stream from 13 wraps
after three bytes of `SeqMod` = 16. `MaxUpdates`
bounds the estimator and ends its behaviours, so its run does not check deadlock.

In `Socket_threads` two bytes fill a window of one and leave one in the buffer. The first
connection may be opened by another thread's accept, or closed by another socket while
this one uses it; the second is made by the socket itself, after a close of the first
(`SecondIsAReconnect`, an action constraint that keeps the run small: any other way to
the second object is left out). Until then nothing is constrained; from then on nobody
listens, the socket does not wait in `accept` or `recv`, and the others only accept. The
steps left out begin a call or belong to other sockets, so no fair action is disabled. The peer sends nothing but what
establishes the connection: a FIN that takes it to CLOSE_WAIT changes only what
the manager refuses, and the theorems have every segment. In `Lifecycle_moves` three packet processors in two places make one that was
moved, one bound to the place it was moved from, and a new one there. In
`Descriptors_shared` there are more objects than numbers, so numbers run out and
are used again by the other class. `IP_packets` has the payloads on both sides
of the two sizes at which a length wraps; it stops where its packets are done with
(`Ids`), so it does not check deadlock. The theorems below remove the bounds
for all of these properties but liveness, and, for what is not liveness, that constraint.

## 6 The proofs

All theorems hold for every value of the constants that the modules' `ASSUME`s
allow: any number of threads, connections, endpoints, segments, sockets and
descriptors, any sequence space, both byte orders and every address.

**Manager.** `TypeOK` is inductive by itself (`TypeCorrect`,
`TCPConnectionManagerProofs`). The safety properties are not: a write under way
carries a state computed earlier, so what can be found in `connections_`
depends on what threads are about to write, and what they may write depends on
what was found. `CallsInPhase` is the strengthening that closes the circle, and
`IInv`, the conjunction of the four invariants, is inductive
(`Invariance`). The argument in `TCPConnectionManagerSafety`: each
disjunct of `Next` is classified once (`Step`). Most only move a frame from one
phase to another (`SameStates`, with the seven kinds of `Move`), two push an
object (`Pushes`), and one writes a state (`assign_state`). The invariants are
then shown for the three classes. `PhasesOfCalls`, `NothingLeftBehind` and
`UsedOnceOpened` follow; `ClosedForGood` is the action
property, from `TransitionFromClosed`: only ACTIVE_OPEN leads out of CLOSED, and
`IInv` leaves no ACTIVE_OPEN for an object that is past its opening.

**Reliability.** `TypeCorrect`, `Tiling` and `RetransmitsAreBounded` hold through any
number of wraps; `NothingLostNothingLeft` and `WindowDoesNotLeak` until the stream
wraps, as their properties say (`BeforeWrap`): what happens then is in section 7.
No theorem assumes that there is no wrap. The inductive invariant adds
`CountersFollowTheStream`: the next number is `isn + sent` modulo `SeqMod`, and the
last acknowledgement, before the wrap, `isn + acked`, or 0 as long as there is
none; and `InsideTheStream`: no segment is empty or beyond what was sent, which
saves an induction along the chain of segments. The numbers need two facts about
remainders, that adding twice is adding once (`SeqPlusTwice`) and that a number
below `SeqMod` is its own (`SeqPlusIsANumber`); both come from the uniqueness of
the quotient (`Remainder`, `NoOtherMultiple`), for every `SeqMod`.

`ReliabilityImplementsStream` is the refinement, step by step: `BufferIsWrite`,
`GetDataIsSend` and `AckIsAcknowledge` for the steps the stream sees, `UnseenSteps`
for the others. `AckIsAcknowledge` is where `RetainedUntilAcked` is needed: the
segments dropped are those that end at or before the acknowledged byte.

**Estimator.** `TypeCorrect`, `TimeoutCovers` and `EstimateMovesTowards` hold for samples of any
length: a linear argument about the two integer quotients. `EstimateDoesNotDrift`
needs `VariationInProportion`, that the variation is at most the spread of the
measurements or half the longest (what the first one leaves), and
`NeverMeasured`; `SmoothedBetween` shows that smoothing keeps both, `WiderRange`
that a new extreme does, for any number of measurements.

**Socket.** The actions of the socket's threads are written as steps of the manager, or
leave its variables alone; the lemmas `StepOfManager`, one for each thread under it, and
`ManagerBehaves` say so to the prover, and are a means only. `ManagerIsSafe` then has the manager's
invariant in the composition, and `InitIInv` and `NextIInv` use it: a segment is
sent on `connection_` only if that was handed out, which the manager's phases
guarantee for what `connect` returns and the dispatch for what accept returns. `IInv`
has `WithinWindow` strengthened by `SegmentsInPhase` (what is out is in flight)
and `ThreadsInPhase` (a thread is inside the manager only where a call puts
it, and the packet processor is gone when `close` gets to the connection).
`TypeCorrect`, `StaysWithinWindow`, `QuietOnceClosed` and `RetransmitsStayBounded`
follow; `ClosedStaysClosed` carries the manager's action property over.

**Life of the objects.** `TypeCorrect`, `NoThreadIsLost`, `LoopFindsItsObject`. The
invariants are inductive together with: threads are started in order, an
object that is gone owns nothing, and a thread not moved is owned by the object it is
bound to. One lemma for each way an object changes (`Putting`, `Joining`, `Taking`,
`Starting`), so an assignment is a `Joining` followed by a `Taking`.
`StopReachesTheThread` is the safety half of `StopReturns`. Its invariant `WaitInv`
says which objects a waiting call holds: no two calls hold one (`Exclusive`), they
are as the calls left them (`Seen`), and an object's thread that was not moved is
bound to it whether it still runs or not (`Bound`). A step keeps it because it
changes only free objects (`HeldStay`, `FreeIsNotHeld`) or, in `joined`, those
of the call that ends.

**Descriptors.** `TypeCorrect`, `NobodyElsesSocket`, `HeldSocketsAreGood`,
`OnlyReopeningLeaks`, `FlagsTellTheTruth`, in the same way: `Good` is a
predicate of the objects, the table and the lost descriptors, and each of
the few things a call does (closing, moving, losing, opening, configuring) keeps it.

**IP layer.** `PacketsComeBack` and `CopiesFromThePacket` say that the checksum is
one that `validate_checksum` accepts and the fields are read where they were
written. `DamageIsNoticed` is arithmetic: adding the carries leaves a sum as it is
modulo 2^16 - 1 (`CarriesAdded`); one changed byte changes the sum by less than
that and not by 0 (`OneByteChanges`); so two headers that differ in one byte do not
have the same checksum (`DifferentSums`), and a changed checksum field does not
match the sum it did match. `WhatIsMissing` is about lengths that do not fit, and rests on
one fact: `total_length` is the packet's length modulo 65536 (`LengthModulo`), although
the payload's is cut to 16 bits before the header's is added.

`KernelPackets` is about two sums of the same bytes. Exchanging the two bytes of a
word multiplies it by 256 modulo 2^16 - 1, so the host's sum of a header is 256
times the network's (`ByteOrder`, from `SwappedWord` and `SameRemainder`), and the
complement of it is the kernel's checksum with its bytes exchanged
(`SwappedComplement`). The one the code expects is not exchanged, so the two
agree where the bytes are equal and nowhere else (`KernelVerdict`).
`SentIsAcceptedBigEndian`: with the other byte order `SentIsAccepted`, which
`IP_rfc791` shows violated, holds.

What these results leave open: a property with `BeforeWrap` says nothing of a stream
from the byte on whose number wraps, and `UnmovedIsThere` and `StopIsSeen` nothing
of a thread whose handle was moved; section 7 has the runs for both.

Only model-checked: the liveness (`TransientStatesPass`, `CloseReturns`,
`KeptIsSentAgain`, `StopReturns`), which is out of the prover's reach,
and the runs of section 7, which are counterexamples.

## 7 Where the code and its documentation part

Each is a run that fails on one property, with the statement it contradicts.

| Run | What happens | Where |
|---|---|---|
| `Manager_handshake` | a SYN for an endpoint that listens is not answered: its connection, never given PASSIVE_OPEN, stays CLOSED for ever, and CLOSED may not send | `src/tcp_connection_manager.cpp`:250, README.md:169 |
| `Socket_retransmit` | a retransmission is numbered like a new segment | README.md:174 |
| `Lifecycle_moved` | closing a socket that was moved waits for a thread that reads the flag of the old one | `include/tcp_socket.h`:20 |
| `IP_rfc791` | the checksum is in the wrong byte order on a little-endian host: a packet with the checksum the kernel fills in is refused, unless the two bytes of the checksum are equal | README.md:159 |

`SynIsAnswered` asks for the SYN+ACK only with a raw socket that is valid and an IP layer
that does not fail (`IpMayFail = FALSE`).

Others are stated in the modules, in the sections that say what the documentation
says and the code does not do. TLC violates each of them with the constants of
`Manager_three_threads` (the first four) or `Reliability_stream` (the next two) and
the change in parentheses, if there is one; the last two name their own:

- PROPERTY `ActiveOpenSendsSyn`: `connect` moves to SYN_SENT first,
  and SYN_SENT may not send, so there is no SYN
  (`src/tcp_connection_manager.cpp`:65, "Initiate connection with SYN");
- PROPERTY `FinIsProcessed` (`Arrivals <- FinAckArrivals`): a FIN with the ACK flag, as every TCP
  sends it, is handled as an ACK (`include/tcp_state_machine.h`:30);
- INVARIANT `HeldStaysOpened`: a stale ACK writes SYN_SENT over ESTABLISHED; and
  INVARIANT `HeldIsReachable`: a failed `connect` removes a connection that an accept has
  handed out (README.md:184, on thread safety);
- INVARIANT `KeptUntilAcked` (`InitialSeqs = {13}`, which wraps): an unacknowledged segment is
  dropped at the wrap (README.md:174);
- PROPERTY `WindowIsRespected`: a window that shrinks below the bytes in flight
  makes the available window huge (README.md:178);
- PROPERTY `CloseOfHalfOpenSendsFin` of `TCPStateMachine` (`SPECIFICATION Spec`, no constants):
  CLOSE in SYN_RECEIVED gives CLOSED, where RFC 793 sends a FIN and goes to
  FIN-WAIT-1 (README.md:165);
- INVARIANT `NothingIsCutOff` of `MCIPLayer` (the constants of `IP_packets`): a payload of 65536 bytes
  or more comes back short, in a packet that is accepted (README.md:159).

Seen while modelling, and plain in one step of the model:

- `close_connection` processes CLOSE first, and FIN_WAIT_1 and LAST_ACK may not
  send: the FIN is never sent (README.md:170, "Graceful connection teardown");
- two connects or a repeated SYN give two connections of one 4-tuple, and only
  the first is ever found;
- any data segment sets the acknowledgement number, past a gap or back;
- `last_ack_received_` of a new stream is 0, so its first acknowledgement counts
  the initial sequence number as bytes and sets `bytes_in_flight_` to 0 (this is
  why `NeverOvercounts` is an inequality);
- a round trip of 0 ms leaves `srtt_` at the value that means "no measurement";
- nothing calls `process_ack`, so a socket sends one window (65535 bytes) in its life and
  `send` returns 0 from then on (`src/tcp_socket.cpp`:168);
- a chunk the manager refuses is kept for retransmission although `send` reports it as not
  sent, so a caller that tries again sends it twice (`src/tcp_socket.cpp`:175);
- nothing fills `receive_buffer_` or notifies `receive_cv_`, so a `recv` without a
  timeout ends only by a wakeup of no cause (`src/tcp_socket.cpp`:197);
- `close` lets go of a connection in CLOSE_WAIT without closing it, and it
  stays in `connections_` (`src/tcp_socket.cpp`:218);
- a second `bind` or `connect` of a `LocalTCPSocket` loses the first descriptor
  (README.md:188, on RAII); `lost` in `SocketDescriptors`;
- `send_packet` fails for a payload that does not fit `total_length`: the kernel takes no longer packet;
- packets with IP options are refused: the checksum covers the first 20 bytes only.

Because no SYN and no SYN+ACK is sent, an ESTABLISHED connection only comes about in the model
(and in the program) through the window `HeldIsReachable` is about: a thread in
`accept_connection` handles a SYN+ACK while a `connect` is between ACTIVE_OPEN
and its removal. That window is open in the code, so the properties about
established connections, and those of an open socket, are not vacuous.

## 8 What is not modelled

- The TCP checksum and `calculate_checksum` over several segments: received segments are
  not verified, and the fields of a TCP header are those of the manager's segments.
- Address conversion, which is the C library's, and the options that only set a
  value (`set_blocking`, timeouts: a choice of `recv`; `SO_REUSEADDR`).
- The payload of a packet or a segment: its length or position in the stream.
- The clock: which segments are due, and when a sleep ends, is a choice.
- The data path of `LocalTCPSocket` (`send`, `recv` but for the end of a stream): the kernel's.
- Memory races on containers and members, whose outcome C++ does not define,
  and the use of a moved-from socket's null members by the thread bound to it.
- The example programs, tests and build files: they keep no state of the system.

## 9 The plan

Done: the state machine, the connection manager, the reliability class, shown to
implement an abstract byte stream, and the estimator; the TCP socket as their
composition; the life of the socket objects; the
descriptors of both socket classes; the IP layer; with theorems for all of them.
Left, in this order:

1. `ConnectionTable`, an abstract table of connections, and the manager shown to
   implement it, by TLC and by proof.
2. `TwoHosts`: two managers and a network that loses, repeats and reorders, to
   say what a receiver makes of duplicate numbers and of segments out of order.
