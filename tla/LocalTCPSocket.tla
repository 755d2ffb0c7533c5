---------------------------- MODULE LocalTCPSocket ----------------------------
(***************************************************************************)
(* LocalTCPSocket, the wrapper of the system's own TCP sockets: who holds  *)
(* which descriptor, and what is_listening_ and is_connected_ say of it.   *)
(*                                                                         *)
(* Locals are the places in memory objects may be at.  An object is used   *)
(* by one thread at a time, different objects by different threads; a call *)
(* touches its own objects and the kernel's table only, and is one step.   *)
(* Addresses and payloads are left out.                                    *)
(***************************************************************************)
EXTENDS DescriptorTable

CONSTANT Locals

VARIABLES
  local,   \* the objects
  lost     \* history: descriptors overwritten by create_socket

\* `reopened' is history: create_socket was called on a socket that had one.
LocalObject == [live : BOOLEAN, socket_fd_ : Descriptors \cup {NoDescriptor},
                is_listening_ : BOOLEAN, is_connected_ : BOOLEAN, reopened : BOOLEAN]

\* An object as constructed, closed or moved from.
NewLocal == [live |-> TRUE, socket_fd_ |-> NoDescriptor, is_listening_ |-> FALSE,
             is_connected_ |-> FALSE, reopened |-> FALSE]
GoneLocal == [NewLocal EXCEPT !.live = FALSE]

LocalInit == local = [p \in Locals |-> GoneLocal] /\ lost = {}

construct(p) ==
  /\ ~local[p].live
  /\ local' = [local EXCEPT ![p] = NewLocal]
  /\ UNCHANGED <<kernel, lost>>

\* A mutant: the number stays in the object.
close_keeps_fd(p) ==
  /\ local[p].live
  /\ kernel' = Without(local[p].socket_fd_)
  /\ local' = [local EXCEPT ![p].is_listening_ = FALSE, ![p].is_connected_ = FALSE]
  /\ UNCHANGED lost

\* The descriptor is closed and forgotten in one step: only the owner looks at it.
close(p) ==
  /\ local[p].live
  /\ kernel' = Without(local[p].socket_fd_)
  /\ local' = [local EXCEPT ![p] = NewLocal]
  /\ UNCHANGED lost

destroy(p) ==
  /\ local[p].live
  /\ kernel' = Without(local[p].socket_fd_)
  /\ local' = [local EXCEPT ![p] = GoneLocal]
  /\ UNCHANGED lost

\* Mutants: the source keeps its number, or its flags.
MovedCopyingFd(p, q) ==
  [local EXCEPT ![p] = local[q],
                ![q] = [NewLocal EXCEPT !.socket_fd_ = local[q].socket_fd_]]
MovedCopyingFlags(p, q) ==
  [local EXCEPT ![p] = local[q], ![q] = [local[q] EXCEPT !.socket_fd_ = NoDescriptor]]

\* The objects with the one of place q moved to place p.
Moved(p, q) == [local EXCEPT ![p] = local[q], ![q] = NewLocal]

construct_moved(p, q) ==
  /\ ~local[p].live /\ local[q].live
  /\ local' = Moved(p, q)
  /\ UNCHANGED <<kernel, lost>>

\* A mutant: nothing is closed before the assignment.
assign_at_once(p, q) ==
  /\ p # q /\ local[p].live /\ local[q].live
  /\ local' = Moved(p, q)
  /\ UNCHANGED <<kernel, lost>>

assign(p, q) ==
  /\ p # q /\ local[p].live /\ local[q].live
  /\ kernel' = Without(local[p].socket_fd_)
  /\ local' = Moved(p, q)
  /\ UNCHANGED lost

\* Whatever socket_fd_ was, it is overwritten, with -1 when socket() fails.
create_socket(p, fd) ==
  /\ local' = [local EXCEPT ![p].socket_fd_ = fd,
       ![p].reopened = @ \/ local[p].socket_fd_ # NoDescriptor]
  /\ lost' = lost \cup ({local[p].socket_fd_} \ {NoDescriptor})

create_fails(p) ==
  /\ local[p].live
  /\ create_socket(p, NoDescriptor)
  /\ UNCHANGED kernel

\* bind makes a socket, whether or not it can bind it; so does a connect that fails.
bind(p) ==
  /\ local[p].live
  /\ \E fd \in Descriptors :
       /\ IsNext(fd)
       /\ create_socket(p, fd)
       /\ kernel' = [kernel EXCEPT ![fd] = "stream"]

connect(p) ==
  /\ local[p].live
  /\ \E fd \in Descriptors :
       /\ IsNext(fd)
       /\ local' = [local EXCEPT ![p].socket_fd_ = fd, ![p].is_connected_ = TRUE,
            ![p].reopened = @ \/ local[p].socket_fd_ # NoDescriptor]
       /\ lost' = lost \cup ({local[p].socket_fd_} \ {NoDescriptor})
       /\ kernel' = [kernel EXCEPT ![fd] = "connected"]

\* The kernel refuses to listen on a connected socket.
listen(p) ==
  /\ local[p].socket_fd_ # NoDescriptor
  /\ kernel[local[p].socket_fd_] # "connected"
  /\ kernel' = [kernel EXCEPT ![local[p].socket_fd_] = "listening"]
  /\ local' = [local EXCEPT ![p].is_listening_ = TRUE]
  /\ UNCHANGED lost

\* p's accept makes the object of place q.
accept(p, q) ==
  /\ local[p].is_listening_ /\ ~local[q].live
  /\ local[p].socket_fd_ # NoDescriptor
  /\ kernel[local[p].socket_fd_] = "listening"
  /\ \E fd \in Descriptors :
       /\ IsNext(fd)
       /\ kernel' = [kernel EXCEPT ![fd] = "connected"]
       /\ local' = [local EXCEPT ![q] =
            [NewLocal EXCEPT !.socket_fd_ = fd, !.is_connected_ = TRUE]]
  /\ UNCHANGED lost

\* recv finds that the peer has closed.
recv_end(p) ==
  /\ local[p].is_connected_
  /\ local[p].socket_fd_ # NoDescriptor
  /\ kernel[local[p].socket_fd_] = "connected"
  /\ local' = [local EXCEPT ![p].is_connected_ = FALSE]
  /\ UNCHANGED <<kernel, lost>>

LocalNext ==
  \/ \E p \in Locals : \/ construct(p)
                       \/ close(p)
                       \/ destroy(p)
                       \/ create_fails(p)
                       \/ bind(p)
                       \/ connect(p)
                       \/ listen(p)
                       \/ recv_end(p)
  \/ \E p, q \in Locals : construct_moved(p, q) \/ assign(p, q) \/ accept(p, q)
=============================================================================
