----------------------- MODULE SocketDescriptorsProofs -----------------------
(***************************************************************************)
(* What SocketDescriptors keeps true for any number of objects and         *)
(* descriptors.                                                            *)
(***************************************************************************)
EXTENDS SocketDescriptors, TLAPS

\* Of the objects, the table and the descriptors lost: what the invariants say,
\* with the parts that make them inductive.
Typed(loc, rw, ker, lst) ==
  /\ loc \in [Locals -> L!LocalObject]
  /\ rw \in [Raws -> W!RawObject]
  /\ ker \in [Descriptors -> KernelSocket]
  /\ lst \subseteq Descriptors

GoneIsEmpty(loc, rw) ==
  /\ \A p \in Locals : ~loc[p].live
       => loc[p].socket_fd_ = NoDescriptor /\ ~loc[p].is_listening_ /\ ~loc[p].is_connected_
  /\ \A w \in Raws : ~rw[w].live => rw[w].socket_fd_ = NoDescriptor
  /\ \A w \in Raws : rw[w].socket_fd_ # NoDescriptor <=> rw[w].initialized_

OneEach(loc, rw, lst) ==
  \A fd \in Descriptors :
    /\ \A p, q \in Locals : loc[p].socket_fd_ = fd /\ loc[q].socket_fd_ = fd => p = q
    /\ \A w, v \in Raws : rw[w].socket_fd_ = fd /\ rw[v].socket_fd_ = fd => w = v
    /\ \A p \in Locals, w \in Raws : ~(loc[p].socket_fd_ = fd /\ rw[w].socket_fd_ = fd)
    /\ fd \in lst => /\ \A p \in Locals : loc[p].socket_fd_ # fd
                     /\ \A w \in Raws : rw[w].socket_fd_ # fd

LocalKind == {"stream", "listening", "connected"}
RawKind == {"ready", "blocking"}

AllOpen(loc, rw, ker, lst) ==
  /\ \A p \in Locals : loc[p].socket_fd_ # NoDescriptor => ker[loc[p].socket_fd_] \in LocalKind
  /\ \A w \in Raws : rw[w].socket_fd_ # NoDescriptor => ker[rw[w].socket_fd_] \in RawKind
  /\ \A fd \in lst : ker[fd] # "free"

NoneLeaks(loc, rw, ker, lst) ==
  \A fd \in Descriptors : ker[fd] # "free" =>
    \/ \E p \in Locals : loc[p].socket_fd_ = fd
    \/ \E w \in Raws : rw[w].socket_fd_ = fd
    \/ fd \in lst

\* The flags of object o are right of the table ker.
FlagsRight(o, ker) ==
  ~o.reopened
    => /\ o.is_listening_ => o.socket_fd_ # NoDescriptor /\ ker[o.socket_fd_] = "listening"
       /\ o.is_connected_ => o.socket_fd_ # NoDescriptor /\ ker[o.socket_fd_] = "connected"

Good(loc, rw, ker, lst) ==
  /\ Typed(loc, rw, ker, lst)
  /\ GoneIsEmpty(loc, rw)
  /\ OneEach(loc, rw, lst)
  /\ AllOpen(loc, rw, ker, lst)
  /\ NoneLeaks(loc, rw, ker, lst)
  /\ \A p \in Locals : FlagsRight(loc[p], ker)

IInv == Good(local, raw, kernel, lost)

\* The table with the descriptor of an object closed.
Closing(ker, fd) == IF fd = NoDescriptor THEN ker ELSE [ker EXCEPT ![fd] = "free"]

LEMMA NoDescriptorIsNone == NoDescriptor \notin Descriptors
BY DescriptorAssumption DEF NoDescriptor

LEMMA Objects ==
  /\ L!NewLocal \in L!LocalObject /\ L!GoneLocal \in L!LocalObject
  /\ W!NewRaw \in W!RawObject /\ W!GoneRaw \in W!RawObject
BY DEF L!NewLocal, L!GoneLocal, L!LocalObject, W!NewRaw, W!GoneRaw, W!RawObject,
   L!NoDescriptor, W!NoDescriptor, NoDescriptor

LEMMA InvariantImplies ==
  IInv => TypeOK /\ OneOwner /\ HeldIsOpen /\ NothingElseLeaks /\ FlagsMatch
<1> SUFFICES ASSUME IInv
             PROVE  TypeOK /\ OneOwner /\ HeldIsOpen /\ NothingElseLeaks /\ FlagsMatch
  OBVIOUS
<1>1. TypeOK
  BY DEF IInv, Good, Typed, TypeOK
<1>2. OneOwner
  BY DEF IInv, Good, OneEach, OneOwner
<1>3. HeldIsOpen
  BY DEF IInv, Good, AllOpen, GoneIsEmpty, HeldIsOpen, W!is_valid, W!NoDescriptor, NoDescriptor,
     LocalKind, RawKind
<1>4. NothingElseLeaks
  <2> SUFFICES ASSUME NEW fd \in Descriptors
               PROVE  kernel[fd] # "free" <=> fd \in Held \cup lost
    BY DEF NothingElseLeaks
  <2>1. kernel[fd] # "free" => fd \in Held \cup lost
    BY DEF IInv, Good, NoneLeaks, Held
  <2>2. fd \in Held => kernel[fd] # "free"
    BY NoDescriptorIsNone DEF IInv, Good, AllOpen, Held, LocalKind, RawKind
  <2>3. fd \in lost => kernel[fd] # "free"
    BY DEF IInv, Good, AllOpen
  <2> QED BY <2>1, <2>2, <2>3
<1>5. FlagsMatch
  BY DEF IInv, Good, FlagsRight, FlagsMatch
<1> QED BY <1>1, <1>2, <1>3, <1>4, <1>5

LEMMA InitInvariant == Init => IInv
<1> SUFFICES ASSUME Init PROVE IInv
  OBVIOUS
<1>1. Typed(local, raw, kernel, lost)
  BY Objects DEF Init, L!LocalInit, W!RawInit, Typed, KernelSocket
<1>2. GoneIsEmpty(local, raw) /\ OneEach(local, raw, lost)
  BY NoDescriptorIsNone DEF Init, L!LocalInit, W!RawInit, GoneIsEmpty, OneEach,
     L!GoneLocal, L!NewLocal, W!GoneRaw, W!NewRaw, L!NoDescriptor, W!NoDescriptor, NoDescriptor
<1>3. /\ AllOpen(local, raw, kernel, lost) /\ NoneLeaks(local, raw, kernel, lost)
      /\ \A p \in Locals : FlagsRight(local[p], kernel)
  BY NoDescriptorIsNone DEF Init, L!LocalInit, W!RawInit, AllOpen, NoneLeaks, FlagsRight,
     L!GoneLocal, L!NewLocal, W!GoneRaw, W!NewRaw, L!NoDescriptor, W!NoDescriptor, NoDescriptor
<1> QED BY <1>1, <1>2, <1>3 DEF IInv, Good

\* A LocalTCPSocket replaced by one that holds the same descriptor, of which the
\* table may say another kind.
LEMMA LocalPut ==
  ASSUME NEW loc, NEW rw, NEW ker, NEW lst, Good(loc, rw, ker, lst),
         NEW p \in Locals, NEW o \in L!LocalObject, o.socket_fd_ = loc[p].socket_fd_,
         ~o.live => loc[p].socket_fd_ = NoDescriptor /\ ~o.is_listening_ /\ ~o.is_connected_,
         NEW k \in [Descriptors -> KernelSocket],
         \A fd \in Descriptors : fd # loc[p].socket_fd_ => k[fd] = ker[fd],
         loc[p].socket_fd_ # NoDescriptor => k[loc[p].socket_fd_] \in LocalKind,
         FlagsRight(o, k)
  PROVE  Good([loc EXCEPT ![p] = o], rw, k, lst)
<1> DEFINE new == [loc EXCEPT ![p] = o]
<1>1. /\ new \in [Locals -> L!LocalObject]
      /\ \A q \in Locals : /\ new[q] = IF q = p THEN o ELSE loc[q]
                           /\ new[q].socket_fd_ = loc[q].socket_fd_
  BY DEF Good, Typed
<1>2. /\ \A q \in Locals : loc[q].socket_fd_ \in Descriptors \cup {NoDescriptor}
      /\ \A w \in Raws : rw[w].socket_fd_ \in Descriptors \cup {NoDescriptor}
  BY DEF Good, Typed, L!LocalObject, W!RawObject, L!NoDescriptor, W!NoDescriptor, NoDescriptor
<1> HIDE DEF new
<1>3. Typed(new, rw, k, lst) /\ GoneIsEmpty(new, rw) /\ OneEach(new, rw, lst)
  BY <1>1 DEF Good, Typed, GoneIsEmpty, OneEach
<1>4. AllOpen(new, rw, k, lst)
  BY <1>1, <1>2, NoDescriptorIsNone DEF Good, AllOpen, OneEach, Typed
<1>5. NoneLeaks(new, rw, k, lst)
  BY <1>1, <1>2, NoDescriptorIsNone DEF Good, NoneLeaks
<1>6. ASSUME NEW q \in Locals PROVE FlagsRight(new[q], k)
  BY <1>1, <1>2, NoDescriptorIsNone DEF Good, FlagsRight, OneEach
<1> QED BY <1>3, <1>4, <1>5, <1>6 DEF Good, new

\* The descriptor of a LocalTCPSocket closed, and the object replaced by an empty
\* one.
LEMMA LocalClose ==
  ASSUME NEW loc, NEW rw, NEW ker, NEW lst, Good(loc, rw, ker, lst),
         NEW p \in Locals, NEW o \in L!LocalObject, o.socket_fd_ = NoDescriptor,
         ~o.is_listening_, ~o.is_connected_
  PROVE  Good([loc EXCEPT ![p] = o], rw, Closing(ker, loc[p].socket_fd_), lst)
<1> DEFINE new == [loc EXCEPT ![p] = o]
           k == Closing(ker, loc[p].socket_fd_)
<1>1. /\ new \in [Locals -> L!LocalObject]
      /\ \A q \in Locals : new[q] = IF q = p THEN o ELSE loc[q]
  BY DEF Good, Typed
<1>2. /\ \A q \in Locals : loc[q].socket_fd_ \in Descriptors \cup {NoDescriptor}
      /\ \A w \in Raws : rw[w].socket_fd_ \in Descriptors \cup {NoDescriptor}
  BY DEF Good, Typed, L!LocalObject, W!RawObject, L!NoDescriptor, W!NoDescriptor, NoDescriptor
<1>3. /\ k \in [Descriptors -> KernelSocket]
      /\ \A fd \in Descriptors :
           k[fd] = IF fd = loc[p].socket_fd_ THEN "free" ELSE ker[fd]
  BY <1>2, NoDescriptorIsNone DEF Good, Typed, Closing, KernelSocket
<1> HIDE DEF new, k
<1>4. Typed(new, rw, k, lst) /\ GoneIsEmpty(new, rw)
  BY <1>1, <1>3 DEF Good, Typed, GoneIsEmpty
<1>5. OneEach(new, rw, lst)
  <2>1. \A fd \in Descriptors, q \in Locals :
          new[q].socket_fd_ = fd => loc[q].socket_fd_ = fd
    BY <1>1, NoDescriptorIsNone
  <2> SUFFICES ASSUME NEW fd \in Descriptors PROVE OneEach(new, rw, lst)!(fd)
    BY DEF OneEach
  <2>2. OneEach(loc, rw, lst)!(fd)
    BY DEF Good, OneEach
  <2> QED BY <2>1, <2>2
<1>6. AllOpen(new, rw, k, lst)
  <2>1. \A q \in Locals : new[q].socket_fd_ # NoDescriptor => k[new[q].socket_fd_] \in LocalKind
    BY <1>1, <1>2, <1>3 DEF Good, AllOpen, OneEach
  <2>2. ASSUME NEW w \in Raws, rw[w].socket_fd_ # NoDescriptor
        PROVE  k[rw[w].socket_fd_] \in RawKind
    <3>1. rw[w].socket_fd_ \in Descriptors
      BY <1>2, <2>2
    <3>2. loc[p].socket_fd_ # rw[w].socket_fd_
      BY <3>1 DEF Good, OneEach
    <3>3. k[rw[w].socket_fd_] = ker[rw[w].socket_fd_]
      BY <1>3, <3>1, <3>2
    <3> QED BY <2>2, <3>3 DEF Good, AllOpen
  <2>3. ASSUME NEW fd \in lst PROVE k[fd] # "free"
    <3>1. fd \in Descriptors /\ ker[fd] # "free"
      BY DEF Good, Typed, AllOpen
    <3>2. loc[p].socket_fd_ # fd
      BY <3>1 DEF Good, OneEach
    <3> QED BY <1>3, <3>1, <3>2
  <2> QED BY <2>1, <2>2, <2>3 DEF AllOpen
<1>7. NoneLeaks(new, rw, k, lst)
  BY <1>1, <1>3 DEF Good, NoneLeaks
<1>8. ASSUME NEW q \in Locals PROVE FlagsRight(new[q], k)
  BY <1>1, <1>2, <1>3 DEF Good, FlagsRight, OneEach
<1> QED BY <1>4, <1>5, <1>6, <1>7, <1>8 DEF Good, new, k

\* A LocalTCPSocket moved to a place that holds no descriptor.
LEMMA LocalMove ==
  ASSUME NEW loc, NEW rw, NEW ker, NEW lst, Good(loc, rw, ker, lst),
         NEW p \in Locals, NEW q \in Locals, p # q,
         loc[p].socket_fd_ = NoDescriptor
  PROVE  Good([loc EXCEPT ![p] = loc[q], ![q] = L!NewLocal], rw, ker, lst)
<1> DEFINE new == [loc EXCEPT ![p] = loc[q], ![q] = L!NewLocal]
<1>1. /\ new \in [Locals -> L!LocalObject]
      /\ \A r \in Locals : new[r] = IF r = q THEN L!NewLocal
                                    ELSE IF r = p THEN loc[q] ELSE loc[r]
  BY Objects DEF Good, Typed
<1>2. /\ L!NewLocal.socket_fd_ = NoDescriptor /\ L!NewLocal.live
      /\ ~L!NewLocal.is_listening_ /\ ~L!NewLocal.is_connected_
  BY DEF L!NewLocal, L!NoDescriptor, NoDescriptor
<1> HIDE DEF new
<1>3. Typed(new, rw, ker, lst) /\ GoneIsEmpty(new, rw)
  BY <1>1, <1>2 DEF Good, Typed, GoneIsEmpty
<1>4. OneEach(new, rw, lst)
  <2>1. \A fd \in Descriptors : \A r \in Locals :
          new[r].socket_fd_ = fd <=>
            IF r = p THEN loc[q].socket_fd_ = fd ELSE r # q /\ loc[r].socket_fd_ = fd
    <3> SUFFICES ASSUME NEW fd \in Descriptors, NEW r \in Locals
                 PROVE  new[r].socket_fd_ = fd <=>
            IF r = p THEN loc[q].socket_fd_ = fd ELSE r # q /\ loc[r].socket_fd_ = fd
      OBVIOUS
    <3>1. fd # NoDescriptor
      BY NoDescriptorIsNone
    <3>2. CASE r = q
      BY <1>1, <1>2, <3>1, <3>2
    <3>3. CASE r # q /\ r = p
      BY <1>1, <3>3
    <3>4. CASE r # q /\ r # p
      BY <1>1, <3>4
    <3> QED BY <3>2, <3>3, <3>4
  <2> SUFFICES ASSUME NEW fd \in Descriptors PROVE OneEach(new, rw, lst)!(fd)
    BY DEF OneEach
  <2>2. /\ \A r, t \in Locals : new[r].socket_fd_ = fd /\ new[t].socket_fd_ = fd => r = t
        /\ \A w, v \in Raws : rw[w].socket_fd_ = fd /\ rw[v].socket_fd_ = fd => w = v
    BY <2>1 DEF Good, OneEach
  <2>3. /\ \A r \in Locals, w \in Raws : ~(new[r].socket_fd_ = fd /\ rw[w].socket_fd_ = fd)
        /\ fd \in lst => /\ \A r \in Locals : new[r].socket_fd_ # fd
                         /\ \A w \in Raws : rw[w].socket_fd_ # fd
    BY <2>1 DEF Good, OneEach
  <2> QED BY <2>2, <2>3
<1>5. AllOpen(new, rw, ker, lst)
  BY <1>1, <1>2 DEF Good, AllOpen
<1>6. NoneLeaks(new, rw, ker, lst)
  <2> SUFFICES ASSUME NEW fd \in Descriptors, NEW r \in Locals, loc[r].socket_fd_ = fd
               PROVE  \E t \in Locals : new[t].socket_fd_ = fd
    BY DEF Good, NoneLeaks
  <2>1. r # p
    BY NoDescriptorIsNone
  <2> QED BY <1>1, <2>1
<1>7. ASSUME NEW r \in Locals PROVE FlagsRight(new[r], ker)
  BY <1>1, <1>2 DEF Good, FlagsRight
<1> QED BY <1>3, <1>4, <1>5, <1>6, <1>7 DEF Good, new

\* A LocalTCPSocket that forgets the descriptor it holds, if any.
LEMMA LocalLose ==
  ASSUME NEW loc, NEW rw, NEW ker, NEW lst, Good(loc, rw, ker, lst),
         NEW p \in Locals, NEW o \in L!LocalObject, o.live,
         o.socket_fd_ = NoDescriptor, FlagsRight(o, ker)
  PROVE  Good([loc EXCEPT ![p] = o], rw, ker,
              lst \cup ({loc[p].socket_fd_} \ {NoDescriptor}))
<1> DEFINE new == [loc EXCEPT ![p] = o]
           all == lst \cup ({loc[p].socket_fd_} \ {NoDescriptor})
<1>1. /\ new \in [Locals -> L!LocalObject]
      /\ \A q \in Locals : new[q] = IF q = p THEN o ELSE loc[q]
  BY DEF Good, Typed
<1>2. \A q \in Locals : loc[q].socket_fd_ \in Descriptors \cup {NoDescriptor}
  BY DEF Good, Typed, L!LocalObject, L!NoDescriptor, NoDescriptor
<1> HIDE DEF new
<1>3. Typed(new, rw, ker, all) /\ GoneIsEmpty(new, rw)
  BY <1>1, <1>2 DEF Good, Typed, GoneIsEmpty
<1>4. OneEach(new, rw, all)
  <2>1. \A fd \in Descriptors : \A q \in Locals :
          new[q].socket_fd_ = fd <=> q # p /\ loc[q].socket_fd_ = fd
    BY <1>1, NoDescriptorIsNone
  <2>2. \A fd \in Descriptors : fd \in all <=> fd \in lst \/ loc[p].socket_fd_ = fd
    BY NoDescriptorIsNone
  <2> HIDE DEF all
  <2> SUFFICES ASSUME NEW fd \in Descriptors PROVE OneEach(new, rw, all)!(fd)
    BY DEF OneEach
  <2>3. /\ \A q, r \in Locals : new[q].socket_fd_ = fd /\ new[r].socket_fd_ = fd => q = r
        /\ \A w, v \in Raws : rw[w].socket_fd_ = fd /\ rw[v].socket_fd_ = fd => w = v
        /\ \A q \in Locals, w \in Raws : ~(new[q].socket_fd_ = fd /\ rw[w].socket_fd_ = fd)
    BY <2>1 DEF Good, OneEach
  <2>4. fd \in all => /\ \A q \in Locals : new[q].socket_fd_ # fd
                      /\ \A w \in Raws : rw[w].socket_fd_ # fd
    BY <2>1, <2>2 DEF Good, OneEach
  <2> QED BY <2>3, <2>4
<1>5. AllOpen(new, rw, ker, all)
  BY <1>1 DEF Good, AllOpen, LocalKind
<1>6. NoneLeaks(new, rw, ker, all)
  BY <1>1, NoDescriptorIsNone DEF Good, NoneLeaks
<1>7. ASSUME NEW q \in Locals PROVE FlagsRight(new[q], ker)
  BY <1>1 DEF Good
<1> QED BY <1>3, <1>4, <1>5, <1>6, <1>7 DEF Good, new

\* A LocalTCPSocket that held no descriptor is given one that was free.
LEMMA LocalOpen ==
  ASSUME NEW loc, NEW rw, NEW ker, NEW lst, Good(loc, rw, ker, lst),
         NEW p \in Locals, loc[p].socket_fd_ = NoDescriptor,
         NEW fd \in Descriptors, ker[fd] = "free", NEW kind \in LocalKind,
         NEW o \in L!LocalObject, o.live, o.socket_fd_ = fd,
         FlagsRight(o, [ker EXCEPT ![fd] = kind])
  PROVE  Good([loc EXCEPT ![p] = o], rw, [ker EXCEPT ![fd] = kind], lst)
<1> DEFINE new == [loc EXCEPT ![p] = o]
           k == [ker EXCEPT ![fd] = kind]
<1>1. /\ new \in [Locals -> L!LocalObject]
      /\ \A q \in Locals : new[q] = IF q = p THEN o ELSE loc[q]
  BY DEF Good, Typed
<1>2. /\ k \in [Descriptors -> KernelSocket]
      /\ \A f \in Descriptors : k[f] = IF f = fd THEN kind ELSE ker[f]
  BY DEF Good, Typed, KernelSocket, LocalKind
<1>3. /\ \A q \in Locals : loc[q].socket_fd_ \in Descriptors \cup {NoDescriptor}
      /\ \A w \in Raws : rw[w].socket_fd_ \in Descriptors \cup {NoDescriptor}
  BY DEF Good, Typed, L!LocalObject, W!RawObject, L!NoDescriptor, W!NoDescriptor, NoDescriptor
<1>4. /\ \A q \in Locals : loc[q].socket_fd_ # fd
      /\ \A w \in Raws : rw[w].socket_fd_ # fd
      /\ fd \notin lst
  BY NoDescriptorIsNone DEF Good, AllOpen, LocalKind, RawKind
<1> HIDE DEF new, k
<1>5. Typed(new, rw, k, lst) /\ GoneIsEmpty(new, rw)
  BY <1>1, <1>2 DEF Good, Typed, GoneIsEmpty
<1>6. OneEach(new, rw, lst)
  BY <1>1, <1>4 DEF Good, OneEach
<1>7. AllOpen(new, rw, k, lst)
  <2>1. \A q \in Locals : new[q].socket_fd_ # NoDescriptor => k[new[q].socket_fd_] \in LocalKind
    BY <1>1, <1>2, <1>3, <1>4 DEF Good, AllOpen
  <2>2. \A w \in Raws : rw[w].socket_fd_ # NoDescriptor => k[rw[w].socket_fd_] \in RawKind
    BY <1>2, <1>3, <1>4 DEF Good, AllOpen
  <2>3. \A f \in lst : k[f] # "free"
    BY <1>2, <1>4 DEF Good, AllOpen, Typed
  <2> QED BY <2>1, <2>2, <2>3 DEF AllOpen
<1>8. NoneLeaks(new, rw, k, lst)
  BY <1>1, <1>2, NoDescriptorIsNone DEF Good, NoneLeaks
<1>9. ASSUME NEW q \in Locals PROVE FlagsRight(new[q], k)
  <2>1. CASE q = p
    BY <1>1, <2>1 DEF k
  <2>2. CASE q # p
    BY <1>1, <1>2, <1>3, <1>4, <2>2 DEF Good, FlagsRight
  <2> QED BY <2>1, <2>2
<1> QED BY <1>5, <1>6, <1>7, <1>8, <1>9 DEF Good, new, k

\* The table says something else of the descriptor of a RawSocket.
LEMMA RawConfigure ==
  ASSUME NEW loc, NEW rw, NEW ker, NEW lst, Good(loc, rw, ker, lst),
         NEW w \in Raws, rw[w].socket_fd_ # NoDescriptor, NEW kind \in RawKind
  PROVE  Good(loc, rw, [ker EXCEPT ![rw[w].socket_fd_] = kind], lst)
<1> DEFINE k == [ker EXCEPT ![rw[w].socket_fd_] = kind]
<1>1. /\ \A q \in Locals : loc[q].socket_fd_ \in Descriptors \cup {NoDescriptor}
      /\ \A v \in Raws : rw[v].socket_fd_ \in Descriptors \cup {NoDescriptor}
  BY DEF Good, Typed, L!LocalObject, W!RawObject, L!NoDescriptor, W!NoDescriptor, NoDescriptor
<1>2. /\ k \in [Descriptors -> KernelSocket]
      /\ \A f \in Descriptors : k[f] = IF f = rw[w].socket_fd_ THEN kind ELSE ker[f]
  BY <1>1 DEF Good, Typed, KernelSocket, RawKind
<1> HIDE DEF k
<1>3. Typed(loc, rw, k, lst)
  BY <1>2 DEF Good, Typed
<1>4. AllOpen(loc, rw, k, lst)
  <2>1. \A q \in Locals : loc[q].socket_fd_ # NoDescriptor => k[loc[q].socket_fd_] \in LocalKind
    BY <1>1, <1>2 DEF Good, AllOpen, OneEach
  <2>2. \A v \in Raws : rw[v].socket_fd_ # NoDescriptor => k[rw[v].socket_fd_] \in RawKind
    BY <1>1, <1>2 DEF Good, AllOpen
  <2>3. \A f \in lst : k[f] # "free"
    BY <1>2 DEF Good, AllOpen, Typed, RawKind
  <2> QED BY <2>1, <2>2, <2>3 DEF AllOpen
<1>5. NoneLeaks(loc, rw, k, lst)
  BY <1>2 DEF Good, NoneLeaks
<1>6. ASSUME NEW q \in Locals PROVE FlagsRight(loc[q], k)
  BY <1>1, <1>2 DEF Good, FlagsRight, OneEach
<1> QED BY <1>3, <1>4, <1>5, <1>6 DEF Good, k

\* The descriptor of a RawSocket closed, and the object replaced by an empty one.
LEMMA RawClose ==
  ASSUME NEW loc, NEW rw, NEW ker, NEW lst, Good(loc, rw, ker, lst),
         NEW w \in Raws, NEW o \in W!RawObject, o.socket_fd_ = NoDescriptor,
         ~o.initialized_
  PROVE  Good(loc, [rw EXCEPT ![w] = o], Closing(ker, rw[w].socket_fd_), lst)
<1> DEFINE new == [rw EXCEPT ![w] = o]
           k == Closing(ker, rw[w].socket_fd_)
<1>1. /\ new \in [Raws -> W!RawObject]
      /\ \A v \in Raws : new[v] = IF v = w THEN o ELSE rw[v]
  BY DEF Good, Typed
<1>2. /\ \A q \in Locals : loc[q].socket_fd_ \in Descriptors \cup {NoDescriptor}
      /\ \A v \in Raws : rw[v].socket_fd_ \in Descriptors \cup {NoDescriptor}
  BY DEF Good, Typed, L!LocalObject, W!RawObject, L!NoDescriptor, W!NoDescriptor, NoDescriptor
<1>3. /\ k \in [Descriptors -> KernelSocket]
      /\ \A fd \in Descriptors :
           k[fd] = IF fd = rw[w].socket_fd_ THEN "free" ELSE ker[fd]
  BY <1>2, NoDescriptorIsNone DEF Good, Typed, Closing, KernelSocket
<1> HIDE DEF new, k
<1>4. Typed(loc, new, k, lst) /\ GoneIsEmpty(loc, new)
  BY <1>1, <1>3 DEF Good, Typed, GoneIsEmpty
<1>5. OneEach(loc, new, lst)
  <2>1. \A fd \in Descriptors, v \in Raws :
          new[v].socket_fd_ = fd => rw[v].socket_fd_ = fd
    BY <1>1, NoDescriptorIsNone
  <2> SUFFICES ASSUME NEW fd \in Descriptors PROVE OneEach(loc, new, lst)!(fd)
    BY DEF OneEach
  <2>2. OneEach(loc, rw, lst)!(fd)
    BY DEF Good, OneEach
  <2> QED BY <2>1, <2>2
<1>6. AllOpen(loc, new, k, lst)
  <2>1. \A q \in Locals : loc[q].socket_fd_ # NoDescriptor => k[loc[q].socket_fd_] \in LocalKind
    BY <1>2, <1>3 DEF Good, AllOpen, OneEach
  <2>2. \A v \in Raws : new[v].socket_fd_ # NoDescriptor => k[new[v].socket_fd_] \in RawKind
    BY <1>1, <1>2, <1>3 DEF Good, AllOpen, OneEach
  <2>3. ASSUME NEW fd \in lst PROVE k[fd] # "free"
    <3>1. fd \in Descriptors /\ ker[fd] # "free"
      BY DEF Good, Typed, AllOpen
    <3>2. rw[w].socket_fd_ # fd
      BY <3>1 DEF Good, OneEach
    <3> QED BY <1>3, <3>1, <3>2
  <2> QED BY <2>1, <2>2, <2>3 DEF AllOpen
<1>7. NoneLeaks(loc, new, k, lst)
  BY <1>1, <1>3 DEF Good, NoneLeaks
<1>8. ASSUME NEW q \in Locals PROVE FlagsRight(loc[q], k)
  BY <1>2, <1>3 DEF Good, FlagsRight, OneEach
<1> QED BY <1>4, <1>5, <1>6, <1>7, <1>8 DEF Good, new, k

\* A RawSocket moved to a place that holds no descriptor.
LEMMA RawMove ==
  ASSUME NEW loc, NEW rw, NEW ker, NEW lst, Good(loc, rw, ker, lst),
         NEW w \in Raws, NEW v \in Raws, w # v, rw[w].socket_fd_ = NoDescriptor
  PROVE  Good(loc, [rw EXCEPT ![w] = rw[v], ![v] = W!NewRaw], ker, lst)
<1> DEFINE new == [rw EXCEPT ![w] = rw[v], ![v] = W!NewRaw]
<1>1. /\ new \in [Raws -> W!RawObject]
      /\ \A u \in Raws : new[u] = IF u = v THEN W!NewRaw
                                  ELSE IF u = w THEN rw[v] ELSE rw[u]
  BY Objects DEF Good, Typed
<1>2. W!NewRaw.socket_fd_ = NoDescriptor /\ W!NewRaw.live /\ ~W!NewRaw.initialized_
  BY DEF W!NewRaw, W!NoDescriptor, NoDescriptor
<1> HIDE DEF new
<1>3. Typed(loc, new, ker, lst) /\ GoneIsEmpty(loc, new)
  BY <1>1, <1>2 DEF Good, Typed, GoneIsEmpty
<1>4. OneEach(loc, new, lst)
  <2>1. \A fd \in Descriptors : \A u \in Raws :
          new[u].socket_fd_ = fd <=>
            IF u = w THEN rw[v].socket_fd_ = fd ELSE u # v /\ rw[u].socket_fd_ = fd
    <3> SUFFICES ASSUME NEW fd \in Descriptors, NEW u \in Raws
                 PROVE  new[u].socket_fd_ = fd <=>
            IF u = w THEN rw[v].socket_fd_ = fd ELSE u # v /\ rw[u].socket_fd_ = fd
      OBVIOUS
    <3>1. fd # NoDescriptor
      BY NoDescriptorIsNone
    <3>2. CASE u = v
      BY <1>1, <1>2, <3>1, <3>2
    <3>3. CASE u # v /\ u = w
      BY <1>1, <3>3
    <3>4. CASE u # v /\ u # w
      BY <1>1, <3>4
    <3> QED BY <3>2, <3>3, <3>4
  <2> SUFFICES ASSUME NEW fd \in Descriptors PROVE OneEach(loc, new, lst)!(fd)
    BY DEF OneEach
  <2>2. /\ \A p, q \in Locals : loc[p].socket_fd_ = fd /\ loc[q].socket_fd_ = fd => p = q
        /\ \A u, t \in Raws : new[u].socket_fd_ = fd /\ new[t].socket_fd_ = fd => u = t
    BY <2>1 DEF Good, OneEach
  <2>3. /\ \A p \in Locals, u \in Raws : ~(loc[p].socket_fd_ = fd /\ new[u].socket_fd_ = fd)
        /\ fd \in lst => /\ \A p \in Locals : loc[p].socket_fd_ # fd
                         /\ \A u \in Raws : new[u].socket_fd_ # fd
    BY <2>1 DEF Good, OneEach
  <2> QED BY <2>2, <2>3
<1>5. AllOpen(loc, new, ker, lst)
  BY <1>1, <1>2 DEF Good, AllOpen
<1>6. NoneLeaks(loc, new, ker, lst)
  <2> SUFFICES ASSUME NEW fd \in Descriptors, NEW u \in Raws, rw[u].socket_fd_ = fd
               PROVE  \E t \in Raws : new[t].socket_fd_ = fd
    BY DEF Good, NoneLeaks
  <2>1. u # w
    BY NoDescriptorIsNone
  <2> QED BY <1>1, <2>1
<1> QED BY <1>3, <1>4, <1>5, <1>6 DEF Good, new

\* A RawSocket that held no descriptor is given one that was free, configured.
LEMMA RawOpen ==
  ASSUME NEW loc, NEW rw, NEW ker, NEW lst, Good(loc, rw, ker, lst),
         NEW w \in Raws, rw[w].socket_fd_ = NoDescriptor,
         NEW fd \in Descriptors, ker[fd] = "free", NEW kind \in RawKind,
         NEW o \in W!RawObject, o.live, o.initialized_, o.socket_fd_ = fd
  PROVE  Good(loc, [rw EXCEPT ![w] = o], [ker EXCEPT ![fd] = kind], lst)
<1> DEFINE new == [rw EXCEPT ![w] = o]
           k == [ker EXCEPT ![fd] = kind]
<1>1. /\ new \in [Raws -> W!RawObject]
      /\ \A v \in Raws : new[v] = IF v = w THEN o ELSE rw[v]
  BY DEF Good, Typed
<1>2. /\ k \in [Descriptors -> KernelSocket]
      /\ \A f \in Descriptors : k[f] = IF f = fd THEN kind ELSE ker[f]
  BY DEF Good, Typed, KernelSocket, RawKind
<1>3. /\ \A q \in Locals : loc[q].socket_fd_ \in Descriptors \cup {NoDescriptor}
      /\ \A v \in Raws : rw[v].socket_fd_ \in Descriptors \cup {NoDescriptor}
  BY DEF Good, Typed, L!LocalObject, W!RawObject, L!NoDescriptor, W!NoDescriptor, NoDescriptor
<1>4. /\ \A q \in Locals : loc[q].socket_fd_ # fd
      /\ \A v \in Raws : rw[v].socket_fd_ # fd
      /\ fd \notin lst /\ fd # NoDescriptor
  BY NoDescriptorIsNone DEF Good, AllOpen, LocalKind, RawKind
<1> HIDE DEF new, k
<1>5. Typed(loc, new, k, lst) /\ GoneIsEmpty(loc, new)
  BY <1>1, <1>2, <1>4 DEF Good, Typed, GoneIsEmpty
<1>6. OneEach(loc, new, lst)
  BY <1>1, <1>4 DEF Good, OneEach
<1>7. AllOpen(loc, new, k, lst)
  <2>1. \A q \in Locals : loc[q].socket_fd_ # NoDescriptor => k[loc[q].socket_fd_] \in LocalKind
    BY <1>2, <1>3, <1>4 DEF Good, AllOpen
  <2>2. \A v \in Raws : new[v].socket_fd_ # NoDescriptor => k[new[v].socket_fd_] \in RawKind
    BY <1>1, <1>2, <1>3, <1>4 DEF Good, AllOpen
  <2>3. \A f \in lst : k[f] # "free"
    BY <1>2, <1>4 DEF Good, AllOpen, Typed
  <2> QED BY <2>1, <2>2, <2>3 DEF AllOpen
<1>8. NoneLeaks(loc, new, k, lst)
  BY <1>1, <1>2, NoDescriptorIsNone DEF Good, NoneLeaks
<1>9. ASSUME NEW q \in Locals PROVE FlagsRight(loc[q], k)
  BY <1>2, <1>3, <1>4 DEF Good, FlagsRight
<1> QED BY <1>5, <1>6, <1>7, <1>8, <1>9 DEF Good, new, k

LEMMA LocalObjectFd ==
  ASSUME Good(local, raw, kernel, lost), NEW p \in Locals
  PROVE  /\ local[p] \in L!LocalObject
         /\ local[p].socket_fd_ \in Descriptors \cup {NoDescriptor}
         /\ ~local[p].live => local[p].socket_fd_ = NoDescriptor
         /\ local[p].is_listening_ => local[p].live
         /\ local[p].is_connected_ => local[p].live
         /\ FlagsRight(local[p], kernel)
BY DEF Good, Typed, GoneIsEmpty, L!LocalObject, L!NoDescriptor, NoDescriptor

\* create_socket, then what bind and connect do with the descriptor.
LEMMA LocalReopens ==
  ASSUME IInv, NEW p \in Locals, local[p].live, NEW fd \in Descriptors, L!IsNext(fd),
         NEW kind \in LocalKind, NEW connected \in BOOLEAN,
         connected => kind = "connected",
         local' = [local EXCEPT ![p] =
           [local[p] EXCEPT !.socket_fd_ = fd,
              !.is_connected_ = local[p].is_connected_ \/ connected,
              !.reopened = local[p].reopened \/ local[p].socket_fd_ # NoDescriptor]],
         lost' = lost \cup ({local[p].socket_fd_} \ {NoDescriptor}),
         kernel' = [kernel EXCEPT ![fd] = kind], UNCHANGED raw
  PROVE  IInv'
<1>1. /\ local[p] \in L!LocalObject /\ FlagsRight(local[p], kernel)
      /\ local[p].socket_fd_ \in Descriptors \cup {NoDescriptor}
  BY LocalObjectFd DEF IInv
<1>2. PICK again \in BOOLEAN :
        again = (local[p].reopened \/ local[p].socket_fd_ # NoDescriptor)
  OBVIOUS
<1>3. PICK mid \in L!LocalObject :
        mid = [local[p] EXCEPT !.socket_fd_ = NoDescriptor, !.reopened = again]
  BY <1>1, <1>2 DEF L!LocalObject, L!NoDescriptor, NoDescriptor
<1>4. mid.live /\ mid.socket_fd_ = NoDescriptor /\ FlagsRight(mid, kernel)
  BY <1>1, <1>2, <1>3 DEF L!LocalObject, FlagsRight
<1>5. PICK o \in L!LocalObject :
        o = [local[p] EXCEPT !.socket_fd_ = fd,
               !.is_connected_ = local[p].is_connected_ \/ connected, !.reopened = again]
  BY <1>1, <1>2 DEF L!LocalObject
<1>6. o.live /\ o.socket_fd_ = fd /\ FlagsRight(o, kernel')
  <2>1. kernel'[fd] = kind /\ fd # NoDescriptor
    BY NoDescriptorIsNone DEF IInv, Good, Typed
  <2>2. ~o.reopened => ~o.is_listening_ /\ (o.is_connected_ => connected)
    BY <1>1, <1>2, <1>5 DEF L!LocalObject, FlagsRight
  <2> QED BY <1>1, <1>5, <2>1, <2>2 DEF L!LocalObject, FlagsRight
<1>7. Good([local EXCEPT ![p] = mid], raw, kernel, lost')
  BY <1>4, LocalLose DEF IInv
<1>8. [local EXCEPT ![p] = mid][p] = mid
  BY DEF IInv, Good, Typed
<1>9. Good([[local EXCEPT ![p] = mid] EXCEPT ![p] = o], raw, kernel', lost')
  BY <1>4, <1>6, <1>7, <1>8, LocalOpen DEF L!IsNext
<1>10. local' = [[local EXCEPT ![p] = mid] EXCEPT ![p] = o]
  BY <1>2, <1>5 DEF IInv, Good, Typed
<1> QED BY <1>9, <1>10 DEF IInv

LEMMA LocalStep ==
  ASSUME IInv, L!LocalNext, UNCHANGED raw
  PROVE  IInv'
<1> USE DEF IInv
<1>a. ASSUME NEW fd \in Descriptors \cup {NoDescriptor}
      PROVE  L!Without(fd) = Closing(kernel, fd)
  BY DEF L!Without, Closing, L!NoDescriptor, NoDescriptor
<1>b. /\ L!NewLocal.socket_fd_ = NoDescriptor /\ L!NewLocal.live
      /\ ~L!NewLocal.is_listening_ /\ ~L!NewLocal.is_connected_
      /\ L!GoneLocal.socket_fd_ = NoDescriptor
      /\ ~L!GoneLocal.is_listening_ /\ ~L!GoneLocal.is_connected_
  BY DEF L!NewLocal, L!GoneLocal, L!NoDescriptor, NoDescriptor
<1>1. ASSUME NEW p \in Locals, L!construct(p) PROVE IInv'
  <2>1. local[p].socket_fd_ = NoDescriptor
    BY <1>1, LocalObjectFd DEF L!construct
  <2>2. Good([local EXCEPT ![p] = L!NewLocal], raw, kernel, lost)
    BY <1>b, <2>1, Objects, LocalClose DEF Closing
  <2> QED BY <1>1, <2>2 DEF L!construct
<1>2. ASSUME NEW p \in Locals, L!close(p) PROVE IInv'
  <2>1. Good([local EXCEPT ![p] = L!NewLocal], raw,
             Closing(kernel, local[p].socket_fd_), lost)
    BY <1>b, Objects, LocalClose
  <2> QED BY <1>2, <1>a, <2>1, LocalObjectFd DEF L!close
<1>3. ASSUME NEW p \in Locals, L!destroy(p) PROVE IInv'
  <2>1. Good([local EXCEPT ![p] = L!GoneLocal], raw,
             Closing(kernel, local[p].socket_fd_), lost)
    BY <1>b, Objects, LocalClose
  <2> QED BY <1>3, <1>a, <2>1, LocalObjectFd DEF L!destroy
<1>4. ASSUME NEW p \in Locals, L!create_fails(p) PROVE IInv'
  <2>1. /\ local[p].live /\ local[p] \in L!LocalObject
        /\ FlagsRight(local[p], kernel)
    BY <1>4, LocalObjectFd DEF L!create_fails
  <2>2. PICK o \in L!LocalObject :
          o = [local[p] EXCEPT !.socket_fd_ = NoDescriptor,
                 !.reopened = local[p].reopened \/ local[p].socket_fd_ # NoDescriptor]
    BY <2>1 DEF L!LocalObject, L!NoDescriptor, NoDescriptor
  <2>3. o.live /\ o.socket_fd_ = NoDescriptor /\ FlagsRight(o, kernel)
    BY <2>1, <2>2 DEF L!LocalObject, FlagsRight
  <2>4. Good([local EXCEPT ![p] = o], raw, kernel,
             lost \cup ({local[p].socket_fd_} \ {NoDescriptor}))
    BY <2>3, LocalLose
  <2>5. local' = [local EXCEPT ![p] = o]
    BY <1>4, <2>2 DEF L!create_fails, L!create_socket, L!NoDescriptor, NoDescriptor, Good, Typed
  <2> QED BY <1>4, <2>4, <2>5
          DEF L!create_fails, L!create_socket, L!NoDescriptor, NoDescriptor
<1>5. ASSUME NEW p \in Locals, L!bind(p) PROVE IInv'
  <2>1. PICK fd \in Descriptors :
          L!IsNext(fd) /\ L!create_socket(p, fd) /\ kernel' = [kernel EXCEPT ![fd] = "stream"]
    BY <1>5 DEF L!bind
  <2>2. local[p].live /\ local[p] \in L!LocalObject
    BY <1>5, LocalObjectFd DEF L!bind
  <2>3. local' = [local EXCEPT ![p] =
           [local[p] EXCEPT !.socket_fd_ = fd,
              !.is_connected_ = local[p].is_connected_ \/ FALSE,
              !.reopened = local[p].reopened \/ local[p].socket_fd_ # NoDescriptor]]
    BY <2>1, <2>2 DEF L!create_socket, L!LocalObject, L!NoDescriptor, NoDescriptor, Good, Typed
  <2>4. lost' = lost \cup ({local[p].socket_fd_} \ {NoDescriptor})
    BY <2>1 DEF L!create_socket, L!NoDescriptor, NoDescriptor
  <2> QED BY <2>1, <2>2, <2>3, <2>4, LocalReopens DEF LocalKind
<1>6. ASSUME NEW p \in Locals, L!connect(p) PROVE IInv'
  <2>1. PICK fd \in Descriptors :
          /\ L!IsNext(fd)
          /\ local' = [local EXCEPT ![p].socket_fd_ = fd, ![p].is_connected_ = TRUE,
               ![p].reopened = @ \/ local[p].socket_fd_ # NoDescriptor]
          /\ lost' = lost \cup ({local[p].socket_fd_} \ {NoDescriptor})
          /\ kernel' = [kernel EXCEPT ![fd] = "connected"]
    BY <1>6 DEF L!connect, L!NoDescriptor, NoDescriptor
  <2>2. local[p].live /\ local[p] \in L!LocalObject
    BY <1>6, LocalObjectFd DEF L!connect
  <2>3. local' = [local EXCEPT ![p] =
           [local[p] EXCEPT !.socket_fd_ = fd,
              !.is_connected_ = local[p].is_connected_ \/ TRUE,
              !.reopened = local[p].reopened \/ local[p].socket_fd_ # NoDescriptor]]
    BY <2>1, <2>2 DEF L!LocalObject, Good, Typed
  <2> QED BY <2>1, <2>2, <2>3, LocalReopens DEF LocalKind
<1>7. ASSUME NEW p \in Locals, L!listen(p) PROVE IInv'
  <2>1. /\ local[p] \in L!LocalObject /\ local[p].socket_fd_ \in Descriptors
        /\ local[p].live /\ FlagsRight(local[p], kernel)
        /\ kernel[local[p].socket_fd_] # "connected"
    BY <1>7, LocalObjectFd DEF L!listen, L!NoDescriptor, NoDescriptor
  <2>2. PICK o \in L!LocalObject : o = [local[p] EXCEPT !.is_listening_ = TRUE]
    BY <2>1 DEF L!LocalObject
  <2> DEFINE k == [kernel EXCEPT ![local[p].socket_fd_] = "listening"]
  <2>3. /\ k \in [Descriptors -> KernelSocket]
        /\ \A fd \in Descriptors :
             k[fd] = IF fd = local[p].socket_fd_ THEN "listening" ELSE kernel[fd]
    BY <2>1 DEF Good, Typed, KernelSocket
  <2>4. /\ o.live /\ o.socket_fd_ = local[p].socket_fd_ /\ o.is_listening_
        /\ o.is_connected_ = local[p].is_connected_ /\ o.reopened = local[p].reopened
    BY <2>1, <2>2 DEF L!LocalObject
  <2>5. FlagsRight(o, k) /\ k[local[p].socket_fd_] \in LocalKind
    BY <2>1, <2>3, <2>4, NoDescriptorIsNone DEF FlagsRight, LocalKind
  <2> HIDE DEF k
  <2>6. Good([local EXCEPT ![p] = o], raw, k, lost)
    BY <2>3, <2>4, <2>5, LocalPut
  <2> QED BY <1>7, <2>2, <2>6 DEF L!listen, k, Good, Typed
<1>8. ASSUME NEW p \in Locals, L!recv_end(p) PROVE IInv'
  <2>1. /\ local[p] \in L!LocalObject /\ local[p].live /\ FlagsRight(local[p], kernel)
        /\ local[p].socket_fd_ \in Descriptors \cup {NoDescriptor}
    BY <1>8, LocalObjectFd DEF L!recv_end
  <2>2. PICK o \in L!LocalObject : o = [local[p] EXCEPT !.is_connected_ = FALSE]
    BY <2>1 DEF L!LocalObject
  <2>3. o.live /\ o.socket_fd_ = local[p].socket_fd_ /\ FlagsRight(o, kernel)
    BY <2>1, <2>2 DEF L!LocalObject, FlagsRight
  <2>a. /\ kernel \in [Descriptors -> KernelSocket]
        /\ local[p].socket_fd_ # NoDescriptor => kernel[local[p].socket_fd_] \in LocalKind
    BY DEF Good, Typed, AllOpen
  <2>4. Good([local EXCEPT ![p] = o], raw, kernel, lost)
    BY <2>3, <2>a, LocalPut
  <2> QED BY <1>8, <2>2, <2>4 DEF L!recv_end, Good, Typed
<1>9. ASSUME NEW p \in Locals, NEW q \in Locals, L!construct_moved(p, q) PROVE IInv'
  <2>1. p # q /\ local[p].socket_fd_ = NoDescriptor
    BY <1>9, LocalObjectFd DEF L!construct_moved
  <2>2. Good(L!Moved(p, q), raw, kernel, lost)
    BY <2>1, LocalMove DEF L!Moved
  <2> QED BY <1>9, <2>2 DEF L!construct_moved
<1>10. ASSUME NEW p \in Locals, NEW q \in Locals, L!assign(p, q) PROVE IInv'
  <2> DEFINE mid == [local EXCEPT ![p] = L!NewLocal]
             k == Closing(kernel, local[p].socket_fd_)
  <2>1. Good(mid, raw, k, lost)
    BY <1>b, Objects, LocalClose
  <2>2. mid[p].socket_fd_ = NoDescriptor /\ p # q
    BY <1>10, <1>b DEF L!assign, Good, Typed
  <2>3. L!Moved(p, q) = [mid EXCEPT ![p] = mid[q], ![q] = L!NewLocal]
    BY <2>2 DEF L!Moved, Good, Typed
  <2>4. kernel' = k
    BY <1>10, <1>a, LocalObjectFd DEF L!assign
  <2> HIDE DEF mid, k
  <2>5. Good([mid EXCEPT ![p] = mid[q], ![q] = L!NewLocal], raw, k, lost)
    BY <2>1, <2>2, LocalMove
  <2> QED BY <1>10, <2>3, <2>4, <2>5 DEF L!assign
<1>11. ASSUME NEW p \in Locals, NEW q \in Locals, L!accept(p, q) PROVE IInv'
  <2>1. PICK fd \in Descriptors :
          /\ L!IsNext(fd)
          /\ kernel' = [kernel EXCEPT ![fd] = "connected"]
          /\ local' = [local EXCEPT ![q] =
               [L!NewLocal EXCEPT !.socket_fd_ = fd, !.is_connected_ = TRUE]]
    BY <1>11 DEF L!accept
  <2>2. local[q].socket_fd_ = NoDescriptor
    BY <1>11, LocalObjectFd DEF L!accept
  <2>3. PICK o \in L!LocalObject :
          o = [L!NewLocal EXCEPT !.socket_fd_ = fd, !.is_connected_ = TRUE]
    BY Objects DEF L!LocalObject
  <2>4. o.live /\ o.socket_fd_ = fd /\ FlagsRight(o, kernel')
    BY <2>1, <2>3, NoDescriptorIsNone DEF L!NewLocal, FlagsRight, Good, Typed
  <2>5. Good([local EXCEPT ![q] = o], raw, kernel', lost)
    BY <2>1, <2>2, <2>4, LocalOpen DEF L!IsNext, LocalKind
  <2> QED BY <1>11, <2>1, <2>3, <2>5 DEF L!accept
<1> QED BY <1>1, <1>2, <1>3, <1>4, <1>5, <1>6, <1>7, <1>8, <1>9, <1>10, <1>11 DEF L!LocalNext

LEMMA RawStep ==
  ASSUME IInv, W!RawNext, UNCHANGED <<local, lost>>
  PROVE  IInv'
<1> USE DEF IInv
<1>a. ASSUME NEW w \in Raws
      PROVE  /\ raw[w] \in W!RawObject
             /\ raw[w].socket_fd_ \in Descriptors \cup {NoDescriptor}
             /\ ~raw[w].live => raw[w].socket_fd_ = NoDescriptor
             /\ raw[w].socket_fd_ # NoDescriptor <=> raw[w].initialized_
             /\ W!Without(raw[w].socket_fd_) = Closing(kernel, raw[w].socket_fd_)
  BY DEF Good, Typed, GoneIsEmpty, W!RawObject, W!Without, Closing, W!NoDescriptor, NoDescriptor
<1>b. /\ W!NewRaw.socket_fd_ = NoDescriptor /\ W!NewRaw.live /\ ~W!NewRaw.initialized_
      /\ W!GoneRaw.socket_fd_ = NoDescriptor /\ ~W!GoneRaw.initialized_
  BY DEF W!NewRaw, W!GoneRaw, W!NoDescriptor, NoDescriptor
<1>c. ASSUME NEW w \in Raws, raw[w].socket_fd_ = NoDescriptor
      PROVE  Good(local, [raw EXCEPT ![w] = W!NewRaw], kernel, lost)
  <2>1. Good(local, [raw EXCEPT ![w] = W!NewRaw],
             Closing(kernel, raw[w].socket_fd_), lost)
    BY <1>b, Objects, RawClose
  <2>2. Closing(kernel, raw[w].socket_fd_) = kernel
    BY <1>c DEF Closing
  <2> QED BY <2>1, <2>2
<1>1. ASSUME NEW w \in Raws, W!construct(w) PROVE IInv'
  BY <1>1, <1>a, <1>c DEF W!construct
<1>2. ASSUME NEW w \in Raws, W!close(w) PROVE IInv'
  <2>1. Good(local, [raw EXCEPT ![w] = W!NewRaw],
             Closing(kernel, raw[w].socket_fd_), lost)
    BY <1>b, Objects, RawClose
  <2> QED BY <1>2, <1>a, <2>1 DEF W!close
<1>3. ASSUME NEW w \in Raws, W!destroy(w) PROVE IInv'
  <2>1. Good(local, [raw EXCEPT ![w] = W!GoneRaw],
             Closing(kernel, raw[w].socket_fd_), lost)
    BY <1>b, Objects, RawClose
  <2> QED BY <1>3, <1>a, <2>1 DEF W!destroy
<1>4. ASSUME NEW w \in Raws, W!create_fails(w) PROVE IInv'
  <2>1. raw[w].socket_fd_ = NoDescriptor
    BY <1>4, <1>a DEF W!create_fails
  <2>2. [raw EXCEPT ![w].socket_fd_ = NoDescriptor] = raw
    BY <1>a, <2>1 DEF Good, Typed, W!RawObject
  <2> QED BY <1>4, <2>2 DEF W!create_fails, W!NoDescriptor, NoDescriptor
<1>5. ASSUME NEW w \in Raws, W!configure_fails(w) PROVE IInv'
  BY <1>5, <1>a, <1>c DEF W!configure_fails
<1>6. ASSUME NEW w \in Raws, W!initialize(w) PROVE IInv'
  <2>1. PICK fd \in Descriptors :
          /\ W!IsNext(fd)
          /\ raw' = [raw EXCEPT ![w].socket_fd_ = fd, ![w].initialized_ = TRUE]
          /\ kernel' = [kernel EXCEPT ![fd] = "ready"]
    BY <1>6 DEF W!initialize
  <2>2. raw[w].socket_fd_ = NoDescriptor /\ raw[w].live /\ raw[w] \in W!RawObject
    BY <1>6, <1>a DEF W!initialize
  <2>3. PICK o \in W!RawObject :
          o = [raw[w] EXCEPT !.socket_fd_ = fd, !.initialized_ = TRUE]
    BY <2>2 DEF W!RawObject
  <2>4. o.live /\ o.initialized_ /\ o.socket_fd_ = fd
    BY <2>2, <2>3 DEF W!RawObject
  <2>5. Good(local, [raw EXCEPT ![w] = o], [kernel EXCEPT ![fd] = "ready"], lost)
    BY <2>1, <2>2, <2>4, RawOpen DEF W!IsNext, RawKind
  <2>6. raw' = [raw EXCEPT ![w] = o]
    BY <2>1, <2>3 DEF Good, Typed
  <2> QED BY <2>1, <2>5, <2>6
<1>7. ASSUME NEW w \in Raws, NEW non_blocking \in BOOLEAN,
             W!set_non_blocking(w, non_blocking)
      PROVE  IInv'
  <2>1. PICK kind \in RawKind : kernel' = [kernel EXCEPT ![raw[w].socket_fd_] = kind]
    BY <1>7 DEF W!set_non_blocking, RawKind
  <2>2. raw[w].socket_fd_ # NoDescriptor
    BY <1>7 DEF W!set_non_blocking, W!is_valid, W!NoDescriptor, NoDescriptor
  <2>3. Good(local, raw, [kernel EXCEPT ![raw[w].socket_fd_] = kind], lost)
    BY <2>2, RawConfigure
  <2> QED BY <1>7, <2>1, <2>3 DEF W!set_non_blocking
<1>8. ASSUME NEW w \in Raws, NEW v \in Raws, W!construct_moved(w, v) PROVE IInv'
  <2>1. w # v /\ raw[w].socket_fd_ = NoDescriptor
    BY <1>8, <1>a DEF W!construct_moved
  <2>2. Good(local, [raw EXCEPT ![w] = raw[v], ![v] = W!NewRaw], kernel, lost)
    BY <2>1, RawMove
  <2> QED BY <1>8, <2>2 DEF W!construct_moved
<1>9. ASSUME NEW w \in Raws, NEW v \in Raws, W!assign(w, v) PROVE IInv'
  <2> DEFINE mid == [raw EXCEPT ![w] = W!NewRaw]
             k == Closing(kernel, raw[w].socket_fd_)
  <2>1. Good(local, mid, k, lost)
    BY <1>b, Objects, RawClose
  <2>2. mid[w].socket_fd_ = NoDescriptor /\ w # v
    BY <1>9, <1>b DEF W!assign, Good, Typed
  <2>3. [raw EXCEPT ![w] = raw[v], ![v] = W!NewRaw] = [mid EXCEPT ![w] = mid[v], ![v] = W!NewRaw]
    BY <2>2 DEF Good, Typed
  <2>4. kernel' = k
    BY <1>9, <1>a DEF W!assign
  <2> HIDE DEF mid, k
  <2>5. Good(local, [mid EXCEPT ![w] = mid[v], ![v] = W!NewRaw], k, lost)
    BY <2>1, <2>2, RawMove
  <2> QED BY <1>9, <2>3, <2>4, <2>5 DEF W!assign
<1> QED BY <1>1, <1>2, <1>3, <1>4, <1>5, <1>6, <1>7, <1>8, <1>9 DEF W!RawNext

LEMMA Invariance == Spec => []IInv
<1>1. IInv /\ [Next]_vars => IInv'
  <2> SUFFICES ASSUME IInv, [Next]_vars PROVE IInv'
    OBVIOUS
  <2>1. CASE UNCHANGED vars
    BY <2>1 DEF vars, IInv
  <2>2. CASE Next
    BY <2>2, LocalStep, RawStep DEF Next
  <2> QED BY <2>1, <2>2
<1> QED BY <1>1, InitInvariant, PTL DEF Spec

\* The values of the variables have their types.
THEOREM TypeCorrect == Spec => []TypeOK
BY Invariance, InvariantImplies, PTL

\* No descriptor is held by two objects, of one class or of both.  (the move
\* operations, close)
THEOREM NobodyElsesSocket == Spec => []OneOwner
BY Invariance, InvariantImplies, PTL

\* What an object holds is open, of its kind, and configured.  (close,
\* RawSocket::initialize)
THEOREM HeldSocketsAreGood == Spec => []HeldIsOpen
BY Invariance, InvariantImplies, PTL

\* An open descriptor has an object that will close it, unless create_socket has
\* overwritten it.  (the destructors, operator=, the failures of initialize)
THEOREM OnlyReopeningLeaks == Spec => []NothingElseLeaks
BY Invariance, InvariantImplies, PTL

\* The flags of an object that was not reopened agree with its socket.  (listen,
\* connect, accept, close, the move operations)
THEOREM FlagsTellTheTruth == Spec => []FlagsMatch
BY Invariance, InvariantImplies, PTL
=============================================================================
