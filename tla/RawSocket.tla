------------------------------- MODULE RawSocket -------------------------------
(***************************************************************************)
(* RawSocket: who holds which descriptor, and whether the raw socket       *)
(* behind it is configured.  As in LocalTCPSocket a call is one step.      *)
(***************************************************************************)
EXTENDS DescriptorTable

CONSTANT Raws

VARIABLE raw   \* the objects

RawObject == [live : BOOLEAN, socket_fd_ : Descriptors \cup {NoDescriptor},
              initialized_ : BOOLEAN]

NewRaw == [live |-> TRUE, socket_fd_ |-> NoDescriptor, initialized_ |-> FALSE]
GoneRaw == [NewRaw EXCEPT !.live = FALSE]

RawInit == raw = [w \in Raws |-> GoneRaw]

is_valid(w) == raw[w].socket_fd_ # NoDescriptor

construct(w) ==
  /\ ~raw[w].live
  /\ raw' = [raw EXCEPT ![w] = NewRaw]
  /\ UNCHANGED kernel

close(w) ==
  /\ raw[w].live
  /\ kernel' = Without(raw[w].socket_fd_)
  /\ raw' = [raw EXCEPT ![w] = NewRaw]

destroy(w) ==
  /\ raw[w].live
  /\ kernel' = Without(raw[w].socket_fd_)
  /\ raw' = [raw EXCEPT ![w] = GoneRaw]

construct_moved(w, v) ==
  /\ ~raw[w].live /\ raw[v].live
  /\ raw' = [raw EXCEPT ![w] = raw[v], ![v] = NewRaw]
  /\ UNCHANGED kernel

assign(w, v) ==
  /\ w # v /\ raw[w].live /\ raw[v].live
  /\ kernel' = Without(raw[w].socket_fd_)
  /\ raw' = [raw EXCEPT ![w] = raw[v], ![v] = NewRaw]

\* socket() fails, for want of CAP_NET_RAW or of a descriptor.
create_fails(w) ==
  /\ raw[w].live /\ ~raw[w].initialized_
  /\ raw' = [raw EXCEPT ![w].socket_fd_ = NoDescriptor]
  /\ UNCHANGED kernel

\* A mutant: a socket that could not be configured stays open.
configure_fails_open(w) ==
  /\ raw[w].live /\ ~raw[w].initialized_
  /\ \E fd \in Descriptors :
       /\ IsNext(fd)
       /\ raw' = [raw EXCEPT ![w].socket_fd_ = fd]
       /\ kernel' = [kernel EXCEPT ![fd] = "raw"]

\* setsockopt or fcntl fails on the new socket, and it is closed.
configure_fails(w) ==
  /\ raw[w].live /\ ~raw[w].initialized_
  /\ \E fd \in Descriptors : IsNext(fd)
  /\ raw' = [raw EXCEPT ![w] = NewRaw]
  /\ UNCHANGED kernel

initialize(w) ==
  /\ raw[w].live /\ ~raw[w].initialized_
  /\ \E fd \in Descriptors :
       /\ IsNext(fd)
       /\ raw' = [raw EXCEPT ![w].socket_fd_ = fd, ![w].initialized_ = TRUE]
       /\ kernel' = [kernel EXCEPT ![fd] = "ready"]

set_non_blocking(w, non_blocking) ==
  /\ is_valid(w)
  /\ kernel' = [kernel EXCEPT ![raw[w].socket_fd_] =
                  IF non_blocking THEN "ready" ELSE "blocking"]
  /\ UNCHANGED raw

RawNext ==
  \/ \E w \in Raws : \/ construct(w)
                     \/ close(w)
                     \/ destroy(w)
                     \/ create_fails(w)
                     \/ configure_fails(w)
                     \/ initialize(w)
                     \/ \E non_blocking \in BOOLEAN : set_non_blocking(w, non_blocking)
  \/ \E w, v \in Raws : construct_moved(w, v) \/ assign(w, v)
=============================================================================
