-------------------------- MODULE SocketDescriptors --------------------------
(***************************************************************************)
(* LocalTCPSocket and RawSocket objects in one process, which share the    *)
(* table of descriptors: a number one object has closed is the next one    *)
(* another object gets.                                                    *)
(***************************************************************************)
EXTENDS DescriptorTable

CONSTANTS Locals, Raws

VARIABLES local, lost, raw

vars == <<local, lost, raw, kernel>>

L == INSTANCE LocalTCPSocket
W == INSTANCE RawSocket

Init == L!LocalInit /\ W!RawInit /\ kernel = [fd \in Descriptors |-> "free"]

Next == \/ L!LocalNext /\ UNCHANGED raw
        \/ W!RawNext /\ UNCHANGED <<local, lost>>

Spec == Init /\ [][Next]_vars
-----------------------------------------------------------------------------
\* Every variable has its type.
TypeOK ==
  /\ local \in [Locals -> L!LocalObject]
  /\ lost \subseteq Descriptors
  /\ raw \in [Raws -> W!RawObject]
  /\ kernel \in [Descriptors -> KernelSocket]

\* A descriptor is held by at most one object, however objects are moved and
\* numbers are used again: no object closes or uses the socket of another.  (the
\* move operations, close)
OneOwner ==
  \A fd \in Descriptors :
    /\ \A p, q \in Locals : local[p].socket_fd_ = fd /\ local[q].socket_fd_ = fd => p = q
    /\ \A w, v \in Raws : raw[w].socket_fd_ = fd /\ raw[v].socket_fd_ = fd => w = v
    /\ \A p \in Locals, w \in Raws : ~(local[p].socket_fd_ = fd /\ raw[w].socket_fd_ = fd)

\* A descriptor an object holds is open, and a socket of the object's kind, which
\* for a raw socket means a configured one: is_valid looks at the number alone.
\* (close, RawSocket::initialize)
HeldIsOpen ==
  /\ \A p \in Locals : local[p].socket_fd_ # NoDescriptor
       => kernel[local[p].socket_fd_] \in {"stream", "listening", "connected"}
  /\ \A w \in Raws : W!is_valid(w)
       => raw[w].initialized_ /\ kernel[raw[w].socket_fd_] \in {"ready", "blocking"}

Held == {local[p].socket_fd_ : p \in Locals} \cup {raw[w].socket_fd_ : w \in Raws}

\* An open descriptor is held by an object, and so will be closed, unless it is
\* one that create_socket has overwritten.  (close, the destructors, operator=,
\* the failures of RawSocket::initialize)
NothingElseLeaks ==
  \A fd \in Descriptors : kernel[fd] # "free" <=> fd \in Held \cup lost

\* is_listening_ and is_connected_ say what the socket is, unless the object was
\* given another socket under them.  (bind, connect, close, the move operations)
FlagsMatch ==
  \A p \in Locals : ~local[p].reopened
    => /\ local[p].is_listening_
            => /\ local[p].socket_fd_ # NoDescriptor
               /\ kernel[local[p].socket_fd_] = "listening"
       /\ local[p].is_connected_
            => /\ local[p].socket_fd_ # NoDescriptor
               /\ kernel[local[p].socket_fd_] = "connected"
=============================================================================
