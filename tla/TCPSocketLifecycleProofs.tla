----------------------- MODULE TCPSocketLifecycleProofs -----------------------
(***************************************************************************)
(* What TCPSocketLifecycle keeps true for any number of sockets, threads   *)
(* and application threads.                                                *)
(***************************************************************************)
EXTENDS TCPSocketLifecycle, TLAPS

\* Of the objects, the threads, the number of threads started and those moved:
\* what the invariants say, with the parts that make them inductive.
StartedInOrder(objs, thr, n) ==
  /\ \A t \in ThreadId : thr[t].at = "unborn" <=> t > n
  /\ \A s \in Sockets : objs[s].packet_processor_ <= n

GoneIsEmpty(objs) ==
  \A s \in Sockets : ~objs[s].live
    => objs[s].packet_processor_ = NoThread /\ ~objs[s].parts

Owned(objs, thr, n) ==
  \A t \in 1 .. n :
    /\ thr[t].at # "joined" => \E s \in Sockets : objs[s].packet_processor_ = t
    /\ \A s \in Sockets : objs[s].packet_processor_ = t
         => /\ thr[t].at # "joined"
            /\ \A r \in Sockets : objs[r].packet_processor_ = t => r = s

There(objs, thr, n, mv) ==
  \A t \in (1 .. n) \ mv :
    thr[t].at \in Running
      => /\ objs[thr[t].this].live
         /\ objs[thr[t].this].parts
         /\ objs[thr[t].this].packet_processor_ = t

Typed(objs, thr, n, mv) ==
  /\ objs \in [Sockets -> Object]
  /\ thr \in [ThreadId -> Thread]
  /\ n \in 0 .. MaxThreads
  /\ mv \subseteq 1 .. n

Sound(objs, thr, n, mv) ==
  /\ Typed(objs, thr, n, mv)
  /\ StartedInOrder(objs, thr, n)
  /\ GoneIsEmpty(objs)
  /\ Owned(objs, thr, n)
  /\ There(objs, thr, n, mv)

IInv == Sound(socket, loop, started, moved) /\ app \in [Apps -> Frame]

LEMMA Types == NoObject \in Object /\ NewObject \in Object /\ MovedFrom \in Object
               /\ Anywhere \in Sockets /\ Idle \in Frame
BY LifecycleAssumption
   DEF NoObject, NewObject, MovedFrom, Object, Anywhere, Idle, Frame, NoThread

LEMMA InvariantImplies ==
  IInv => TypeOK /\ EveryThreadHasOneOwner /\ UnmovedIsThere
<1> SUFFICES ASSUME IInv PROVE TypeOK /\ EveryThreadHasOneOwner /\ UnmovedIsThere
  OBVIOUS
<1>1. TypeOK
  BY DEF IInv, Sound, Typed, TypeOK
<1>2. ASSUME NEW t \in 1 .. started PROVE EveryThreadHasOneOwner!(t)
  BY DEF IInv, Sound, Owned, Owners
<1>3. UnmovedIsThere
  BY DEF IInv, Sound, There, UnmovedIsThere
<1> QED BY <1>1, <1>2, <1>3 DEF EveryThreadHasOneOwner

LEMMA InitInvariant == Init => IInv
<1> SUFFICES ASSUME Init PROVE IInv
  OBVIOUS
<1>1. Typed(socket, loop, started, moved) /\ app \in [Apps -> Frame]
  BY Types, LifecycleAssumption DEF Init, Typed, Thread, ThreadId
<1>2. /\ StartedInOrder(socket, loop, started) /\ GoneIsEmpty(socket)
      /\ Owned(socket, loop, started) /\ There(socket, loop, started, moved)
  BY LifecycleAssumption DEF Init, StartedInOrder, GoneIsEmpty, Owned, There, ThreadId,
     NoObject, NoThread
<1> QED BY <1>1, <1>2 DEF IInv, Sound

\* An object replaced by one that owns the same thread, if any.
LEMMA Putting ==
  ASSUME NEW objs, NEW thr, NEW n, NEW mv, Sound(objs, thr, n, mv),
         NEW s \in Sockets, NEW o \in Object,
         o.packet_processor_ = objs[s].packet_processor_,
         o.packet_processor_ # NoThread => o.live /\ (objs[s].parts => o.parts),
         ~o.live => ~o.parts
  PROVE  Sound([objs EXCEPT ![s] = o], thr, n, mv)
<1> DEFINE new == [objs EXCEPT ![s] = o]
<1>1. /\ new \in [Sockets -> Object]
      /\ \A r \in Sockets : /\ new[r] = IF r = s THEN o ELSE objs[r]
                            /\ new[r].packet_processor_ = objs[r].packet_processor_
  BY DEF Sound, Typed
<1> HIDE DEF new
<1>2. Typed(new, thr, n, mv) /\ StartedInOrder(new, thr, n) /\ GoneIsEmpty(new)
  BY <1>1 DEF Sound, Typed, StartedInOrder, GoneIsEmpty
<1>3. Owned(new, thr, n)
  BY <1>1 DEF Sound, Owned
<1>4. There(new, thr, n, mv)
  <2> SUFFICES ASSUME NEW t \in (1 .. n) \ mv, thr[t].at \in Running
               PROVE  /\ new[thr[t].this].live
                      /\ new[thr[t].this].parts
                      /\ new[thr[t].this].packet_processor_ = t
    BY DEF There
  <2>1. t \in ThreadId /\ thr[t].this \in Sockets /\ t # NoThread
    BY LifecycleAssumption DEF Sound, Typed, ThreadId, Thread, NoThread
  <2> QED BY <1>1, <2>1 DEF Sound, There
<1> QED BY <1>2, <1>3, <1>4 DEF Sound, new

\* The thread of an object joined, and the object replaced by one without thread.
LEMMA Joining ==
  ASSUME NEW objs, NEW thr, NEW n, NEW mv, Sound(objs, thr, n, mv),
         NEW s \in Sockets, NEW o \in Object, NEW t \in ThreadId,
         t = objs[s].packet_processor_, thr[t].at = "finished",
         o.packet_processor_ = NoThread, ~o.live => ~o.parts
  PROVE  Sound([objs EXCEPT ![s] = o], [thr EXCEPT ![t].at = "joined"], n, mv)
<1> DEFINE new == [objs EXCEPT ![s] = o]
           now == [thr EXCEPT ![t].at = "joined"]
<1>1. /\ new \in [Sockets -> Object]
      /\ \A r \in Sockets : new[r] = IF r = s THEN o ELSE objs[r]
  BY DEF Sound, Typed
<1>2. /\ now \in [ThreadId -> Thread] /\ t # NoThread /\ now[t].at = "joined"
      /\ \A u \in ThreadId : u # t => now[u] = thr[u]
  BY DEF Sound, Typed, Thread, ThreadId, NoThread
<1>3. n \in Nat /\ t \in 1 .. n /\ \A u \in 1 .. n : u \in ThreadId /\ u # NoThread
  BY <1>2, LifecycleAssumption DEF Sound, Typed, StartedInOrder, ThreadId, NoThread
<1> HIDE DEF new, now
<1>4. Typed(new, now, n, mv) /\ GoneIsEmpty(new)
  BY <1>1, <1>2 DEF Sound, Typed, GoneIsEmpty
<1>5. StartedInOrder(new, now, n)
  BY <1>1, <1>2, <1>3 DEF Sound, StartedInOrder, NoThread
<1>6. Owned(new, now, n)
  BY <1>1, <1>2, <1>3 DEF Sound, Owned
<1>7. There(new, now, n, mv)
  <2> SUFFICES ASSUME NEW u \in (1 .. n) \ mv, now[u].at \in Running
               PROVE  /\ new[now[u].this].live
                      /\ new[now[u].this].parts
                      /\ new[now[u].this].packet_processor_ = u
    BY DEF There
  <2>1. u # t /\ now[u] = thr[u] /\ thr[u].this \in Sockets
    BY <1>2, <1>3 DEF Running, Sound, Typed, Thread
  <2>2. thr[u].this # s
    BY <2>1 DEF Sound, There
  <2> QED BY <1>1, <2>1, <2>2 DEF Sound, There
<1> QED BY <1>4, <1>5, <1>6, <1>7 DEF Sound, new, now

\* The object of one place moved to another, which owned no thread.
LEMMA Taking ==
  ASSUME NEW objs, NEW thr, NEW n, NEW mv, Sound(objs, thr, n, mv),
         NEW s \in Sockets, NEW o \in Sockets, s # o,
         objs[s].packet_processor_ = NoThread
  PROVE  Sound([objs EXCEPT ![s] = objs[o], ![o] = MovedFrom], thr, n,
               mv \cup ({objs[o].packet_processor_} \ {NoThread}))
<1> DEFINE new == [objs EXCEPT ![s] = objs[o], ![o] = MovedFrom]
           mw  == mv \cup ({objs[o].packet_processor_} \ {NoThread})
<1>1. /\ new \in [Sockets -> Object]
      /\ \A r \in Sockets : new[r] = IF r = o THEN MovedFrom
                                      ELSE IF r = s THEN objs[o] ELSE objs[r]
  BY Types DEF Sound, Typed
<1>2. /\ MovedFrom.packet_processor_ = NoThread /\ MovedFrom.live
      /\ ~MovedFrom.parts
  BY DEF MovedFrom, NoObject
<1>3. n \in Nat /\ \A u \in 1 .. n : u \in ThreadId /\ u # NoThread
  BY LifecycleAssumption DEF Sound, Typed, ThreadId, NoThread
<1>4. mw \subseteq 1 .. n /\ mv \subseteq mw
  <2>1. objs[o].packet_processor_ \in ThreadId \cup {NoThread}
    BY DEF Sound, Typed, Object
  <2>2. objs[o].packet_processor_ <= n /\ mv \subseteq 1 .. n
    BY DEF Sound, Typed, StartedInOrder
  <2>3. objs[o].packet_processor_ # NoThread => objs[o].packet_processor_ \in 1 .. n
    BY <1>3, <2>1, <2>2, LifecycleAssumption DEF ThreadId, NoThread
  <2> QED BY <2>2, <2>3
<1> HIDE DEF new
<1>5. Typed(new, thr, n, mw) /\ GoneIsEmpty(new) /\ StartedInOrder(new, thr, n)
  <2>1. Typed(new, thr, n, mw)
    BY <1>1, <1>4 DEF Sound, Typed
  <2>2. GoneIsEmpty(new)
    BY <1>1, <1>2 DEF Sound, GoneIsEmpty
  <2>3. StartedInOrder(new, thr, n)
    BY <1>1, <1>2, <1>3 DEF Sound, StartedInOrder, NoThread
  <2> QED BY <2>1, <2>2, <2>3
<1>6. Owned(new, thr, n)
  <2>1. \A r \in Sockets : \A u \in 1 .. n :
          new[r].packet_processor_ = u
            <=> \/ r = s /\ objs[o].packet_processor_ = u
                \/ r # s /\ r # o /\ objs[r].packet_processor_ = u
    BY <1>1, <1>2, <1>3
  <2> QED BY <2>1, <1>3 DEF Sound, Owned
<1>7. There(new, thr, n, mw)
  <2> SUFFICES ASSUME NEW u \in (1 .. n) \ mw, thr[u].at \in Running
               PROVE  /\ new[thr[u].this].live
                      /\ new[thr[u].this].parts
                      /\ new[thr[u].this].packet_processor_ = u
    BY DEF There
  <2>1. /\ u \in (1 .. n) \ mv /\ u # NoThread /\ thr[u].this \in Sockets
        /\ objs[o].packet_processor_ # u
    BY <1>3, <1>4 DEF Sound, Typed, Thread
  <2>2. thr[u].this # s /\ thr[u].this # o
    BY <2>1 DEF Sound, There
  <2> QED BY <1>1, <2>1, <2>2 DEF Sound, There
<1> QED BY <1>5, <1>6, <1>7 DEF Sound, new

\* A thread goes on, or ends.
LEMMA Looping ==
  ASSUME NEW objs, NEW thr, NEW n, NEW mv, Sound(objs, thr, n, mv),
         NEW t \in ThreadId, thr[t].at \in Running,
         NEW at \in Running \cup {"finished"}
  PROVE  Sound(objs, [thr EXCEPT ![t].at = at], n, mv)
<1> DEFINE now == [thr EXCEPT ![t].at = at]
<1>1. /\ now \in [ThreadId -> Thread] /\ now[t].at = at /\ now[t].this = thr[t].this
      /\ \A u \in ThreadId : u # t => now[u] = thr[u]
  BY DEF Sound, Typed, Thread
<1>2. n \in Nat /\ \A u \in 1 .. n : u \in ThreadId
  BY LifecycleAssumption DEF Sound, Typed, ThreadId
<1>3. at # "joined" /\ at # "unborn" /\ thr[t].at # "joined" /\ thr[t].at # "unborn"
  BY DEF Running
<1> HIDE DEF now
<1>4. Typed(objs, now, n, mv) /\ StartedInOrder(objs, now, n)
  BY <1>1, <1>3 DEF Sound, Typed, StartedInOrder
<1>5. Owned(objs, now, n)
  BY <1>1, <1>2, <1>3 DEF Sound, Owned
<1>6. There(objs, now, n, mv)
  BY <1>1, <1>2 DEF Sound, There
<1> QED BY <1>4, <1>5, <1>6 DEF Sound, now

\* A thread started for an object that has its members and no thread.
LEMMA Starting ==
  ASSUME NEW objs, NEW thr, NEW n, NEW mv, Sound(objs, thr, n, mv),
         NEW s \in Sockets, NEW o \in Object, o.live, o.parts,
         objs[s].packet_processor_ = NoThread, n < MaxThreads,
         NEW t \in Nat, t = n + 1, o.packet_processor_ = t
  PROVE  Sound([objs EXCEPT ![s] = o],
               [thr EXCEPT ![t] = [this |-> s, at |-> "check"]], t, mv)
<1> DEFINE new == [objs EXCEPT ![s] = o]
           now == [thr EXCEPT ![t] = [this |-> s, at |-> "check"]]
<1>1. /\ new \in [Sockets -> Object]
      /\ \A r \in Sockets : new[r] = IF r = s THEN o ELSE objs[r]
  BY DEF Sound, Typed
<1>2. /\ n \in Nat /\ t \in 1 .. t /\ t \in ThreadId /\ t \notin mv /\ t # NoThread
      /\ \A u \in 1 .. t : u # t => u \in 1 .. n
      /\ \A u \in 1 .. t : u \in ThreadId
  BY LifecycleAssumption DEF Sound, Typed, ThreadId, NoThread
<1>3. /\ now \in [ThreadId -> Thread] /\ now[t] = [this |-> s, at |-> "check"]
      /\ \A u \in ThreadId : u # t => now[u] = thr[u]
  BY <1>2 DEF Sound, Typed, Thread, Running
<1>4. \A r \in Sockets : objs[r].packet_processor_ \in 0 .. n
  BY <1>2 DEF Sound, Typed, StartedInOrder, Object, ThreadId, NoThread
<1> HIDE DEF new, now
<1>5. Typed(new, now, t, mv) /\ GoneIsEmpty(new)
  BY <1>1, <1>2, <1>3, LifecycleAssumption DEF Sound, Typed, GoneIsEmpty
<1>6. StartedInOrder(new, now, t)
  <2>1. \A u \in ThreadId : now[u].at = "unborn" <=> u > t
    BY <1>2, <1>3 DEF Sound, StartedInOrder, ThreadId
  <2>2. \A r \in Sockets : new[r].packet_processor_ <= t
    BY <1>1, <1>2, <1>4
  <2> QED BY <2>1, <2>2 DEF StartedInOrder
<1>7. Owned(new, now, t)
  <2>1. \A r \in Sockets : new[r].packet_processor_ = t <=> r = s
    BY <1>1, <1>2, <1>4
  <2>2. \A u \in 1 .. n : u # t /\ u # NoThread /\ u \in 1 .. t
    BY <1>2 DEF NoThread
  <2>3. \A u \in 1 .. n : \A r \in Sockets :
          new[r].packet_processor_ = u <=> objs[r].packet_processor_ = u
    BY <1>1, <2>2
  <2>4. \A u \in 1 .. n : now[u] = thr[u]
    BY <1>2, <1>3, <2>2
  <2> QED BY <1>2, <1>3, <2>1, <2>2, <2>3, <2>4 DEF Sound, Owned
<1>8. There(new, now, t, mv)
  <2> SUFFICES ASSUME NEW u \in (1 .. t) \ mv, now[u].at \in Running
               PROVE  /\ new[now[u].this].live
                      /\ new[now[u].this].parts
                      /\ new[now[u].this].packet_processor_ = u
    BY DEF There
  <2>1. CASE u = t
    BY <2>1, <1>1, <1>3
  <2>2. CASE u # t
    <3>1. u \in (1 .. n) \ mv /\ now[u] = thr[u] /\ thr[u].this \in Sockets
      BY <2>2, <1>2, <1>3 DEF Sound, Typed, Thread
    <3>2. thr[u].this # s
      BY <3>1, <1>2 DEF Sound, There, NoThread
    <3> QED BY <3>1, <3>2, <1>1 DEF Sound, There
  <2> QED BY <2>1, <2>2
<1> QED BY <1>5, <1>6, <1>7, <1>8 DEF Sound, new, now

\* start_packet_processor, of an object made of the one at place s.
LEMMA StartPacketProcessor ==
  ASSUME IInv, NEW s \in Sockets, NEW o \in Object, o.live, o.parts,
         o.packet_processor_ = socket[s].packet_processor_,
         start_packet_processor(s, o), UNCHANGED <<app, moved>>
  PROVE  IInv'
<1>a. CASE o.packet_processor_ # NoThread
  <2>1. socket' = [socket EXCEPT ![s] = o] /\ UNCHANGED <<started, loop, app, moved>>
    BY <1>a DEF start_packet_processor
  <2>2. Sound([socket EXCEPT ![s] = o], loop, started, moved)
    BY Putting DEF IInv
  <2> QED BY <2>1, <2>2 DEF IInv
<1>b. CASE o.packet_processor_ = NoThread
  <2>1. started \in Nat
    BY LifecycleAssumption DEF IInv, Sound, Typed
  <2>2. PICK t \in Nat : t = started + 1
    BY <2>1
  <2>a. started < MaxThreads
    BY <1>b DEF start_packet_processor
  <2>b. t \in ThreadId
    BY <2>a, <2>1, <2>2, LifecycleAssumption DEF ThreadId
  <2>3. PICK r \in Object : r = [o EXCEPT !.packet_processor_ = t, !.should_stop_ = FALSE]
    BY <2>b DEF Object
  <2>4. r.live /\ r.parts /\ r.packet_processor_ = t
    BY <2>3 DEF Object
  <2>5. /\ started < MaxThreads /\ started' = t /\ UNCHANGED <<app, moved>>
        /\ loop' = [loop EXCEPT ![t] = [this |-> s, at |-> "check"]]
        /\ socket' = [socket EXCEPT ![s] = r]
    BY <1>b, <2>2, <2>3 DEF start_packet_processor
  <2>6. Sound([socket EXCEPT ![s] = r],
              [loop EXCEPT ![t] = [this |-> s, at |-> "check"]], t, moved)
    BY <1>b, <2>2, <2>4, <2>5, Starting DEF IInv
  <2> QED BY <2>5, <2>6 DEF IInv
<1> QED BY <1>a, <1>b

\* A call that begins or ends, and a call of a socket that is idle.
LEMMA CallStep ==
  ASSUME IInv, NEW a \in Apps, Call(a)
  PROVE  IInv'
<1>1. ASSUME NEW s \in Sockets, construct(a, s) PROVE IInv'
  <2>1. /\ NewObject.packet_processor_ = socket[s].packet_processor_ /\ NewObject \in Object
        /\ NewObject.packet_processor_ = NoThread /\ NewObject.live
    BY <1>1, Types DEF construct, IInv, Sound, GoneIsEmpty, NewObject, NoObject
  <2>2. Sound([socket EXCEPT ![s] = NewObject], loop, started, moved)
    BY <2>1, Putting DEF IInv
  <2> QED BY <1>1, <2>2 DEF construct, IInv
<1>2. ASSUME NEW s \in Sockets, construct_accepted(a, s) PROVE IInv'
  <2>1. PICK o \in Object : o = [NewObject EXCEPT !.connection = TRUE]
    BY Types DEF Object
  <2>2. /\ o.live /\ o.parts /\ o.packet_processor_ = socket[s].packet_processor_
        /\ start_packet_processor(s, o) /\ UNCHANGED <<app, moved>>
    BY <1>2, <2>1, Types
       DEF construct_accepted, IInv, Sound, GoneIsEmpty, NewObject, NoObject, Object
  <2> QED BY <2>2, StartPacketProcessor
<1>3. ASSUME NEW s \in Sockets, listen(a, s) PROVE IInv'
  <2>1. socket[s] \in Object /\ socket[s].live
    BY <1>3 DEF listen, IInv, Sound, Typed, GoneIsEmpty
  <2> QED BY <1>3, <2>1, StartPacketProcessor DEF listen
<1>4. ASSUME NEW s \in Sockets, connect(a, s) PROVE IInv'
  <2>1. socket[s] \in Object /\ socket[s].live /\ socket[s].parts
    BY <1>4 DEF connect, IInv, Sound, Typed, GoneIsEmpty
  <2>2. CASE socket' = [socket EXCEPT ![s].connection = FALSE] /\ UNCHANGED <<started, loop>>
    <3>1. PICK o \in Object : o = [socket[s] EXCEPT !.connection = FALSE]
      BY <2>1 DEF Object
    <3>2. o.live /\ o.parts /\ o.packet_processor_ = socket[s].packet_processor_
      BY <2>1, <3>1 DEF Object
    <3>3. Sound([socket EXCEPT ![s] = o], loop, started, moved)
      BY <3>2, Putting DEF IInv
    <3> QED BY <1>4, <2>2, <3>1, <3>3 DEF connect, IInv
  <2>3. CASE start_packet_processor(s, [socket[s] EXCEPT !.connection = TRUE])
    <3>1. PICK o \in Object : o = [socket[s] EXCEPT !.connection = TRUE]
      BY <2>1 DEF Object
    <3>2. o.live /\ o.parts /\ o.packet_processor_ = socket[s].packet_processor_
      BY <2>1, <3>1 DEF Object
    <3> QED BY <1>4, <2>3, <3>1, <3>2, StartPacketProcessor DEF connect
  <2> QED BY <1>4, <2>2, <2>3 DEF connect
<1>5. ASSUME NEW s \in Sockets, NEW o \in Sockets,
             NEW at \in {"close", "destroy", "assign"}, Stop(a, s, o, at)
      PROVE  IInv'
  <2>1. socket[s] \in Object /\ socket[s].live
    BY <1>5 DEF Stop, IInv, Sound, Typed
  <2>2. PICK r \in Object : r = [socket[s] EXCEPT !.should_stop_ = TRUE]
    BY <2>1 DEF Object
  <2>3. r.live /\ r.parts = socket[s].parts
        /\ r.packet_processor_ = socket[s].packet_processor_
    BY <2>1, <2>2 DEF Object
  <2>4. Sound([socket EXCEPT ![s] = r], loop, started, moved)
    BY <2>3, Putting DEF IInv
  <2>5. app' \in [Apps -> Frame]
    BY <1>5 DEF Stop, IInv, Frame
  <2> QED BY <1>5, <2>2, <2>4, <2>5 DEF Stop, IInv
<1>6. ASSUME NEW s \in Sockets, NEW o \in Sockets, construct_moved(a, s, o) PROVE IInv'
  <2>1. s # o /\ socket[s].packet_processor_ = NoThread
    BY <1>6 DEF construct_moved, IInv, Sound, GoneIsEmpty
  <2>2. Sound([socket EXCEPT ![s] = socket[o], ![o] = MovedFrom], loop, started,
              moved \cup ({socket[o].packet_processor_} \ {NoThread}))
    BY <2>1, Taking DEF IInv
  <2> QED BY <1>6, <2>2 DEF construct_moved, take, IInv
<1> QED BY <1>1, <1>2, <1>3, <1>4, <1>5, <1>6 DEF Call, close, destroy, assign

\* The close of an object ends: its thread is joined and its connection let go.
LEMMA JoinedStep ==
  ASSUME IInv, NEW a \in Apps, joined(a)
  PROVE  IInv'
<1> DEFINE s == app[a].on
           t == socket[s].packet_processor_
           closed == [socket[s] EXCEPT !.packet_processor_ = NoThread, !.connection = FALSE]
           now == IF t = NoThread THEN loop ELSE [loop EXCEPT ![t].at = "joined"]
<1>1. s \in Sockets /\ app[a].from \in Sockets /\ socket[s] \in Object
      /\ t \in ThreadId \cup {NoThread}
  BY DEF IInv, Sound, Typed, Frame, Object
<1>2. app' = [app EXCEPT ![a] = Idle] /\ loop' = now /\ UNCHANGED started
  BY DEF joined
<1>3. app' \in [Apps -> Frame]
  BY <1>2, Types DEF IInv
<1>4. /\ closed \in Object /\ closed.packet_processor_ = NoThread
      /\ closed.live = socket[s].live /\ closed.parts = socket[s].parts
      /\ ~closed.live => ~closed.parts
  BY <1>1 DEF Object, NoThread, IInv, Sound, GoneIsEmpty
<1> HIDE DEF closed
<1>5. ASSUME NEW o \in Object, o.packet_processor_ = NoThread, ~o.live => ~o.parts
      PROVE  Sound([socket EXCEPT ![s] = o], now, started, moved)
  <2>1. CASE t = NoThread
    BY <1>1, <1>5, <2>1, Putting DEF IInv
  <2>2. CASE t # NoThread
    <3>1. t \in ThreadId /\ loop[t].at = "finished"
      BY <1>1, <2>2 DEF joined, Ended
    <3> QED BY <1>1, <1>5, <2>2, <3>1, Joining DEF IInv
  <2> QED BY <2>1, <2>2
<1>6. CASE app[a].at = "close" /\ socket' = [socket EXCEPT ![s] = closed] /\ UNCHANGED moved
  BY <1>2, <1>3, <1>4, <1>5, <1>6 DEF IInv
<1>7. CASE app[a].at = "destroy" /\ socket' = [socket EXCEPT ![s] = NoObject] /\ UNCHANGED moved
  <2>1. NoObject.packet_processor_ = NoThread /\ ~NoObject.parts
    BY DEF NoObject
  <2> QED BY <1>2, <1>3, <1>5, <1>7, <2>1, Types DEF IInv
<1>8. CASE app[a].at = "assign" /\ take(s, app[a].from, [socket EXCEPT ![s] = closed])
  <2> DEFINE o == app[a].from
             mid == [socket EXCEPT ![s] = closed]
  <2>1. Sound(mid, now, started, moved) /\ mid[s].packet_processor_ = NoThread
    BY <1>1, <1>4, <1>5 DEF IInv, Sound, Typed
  <2>2. socket' = [mid EXCEPT ![s] = mid[o], ![o] = MovedFrom]
        /\ moved' = moved \cup ({mid[o].packet_processor_} \ {NoThread})
    BY <1>8 DEF take
  <2> HIDE DEF mid, now
  <2>3. CASE s # o
    <3>1. Sound([mid EXCEPT ![s] = mid[o], ![o] = MovedFrom], now, started,
                moved \cup ({mid[o].packet_processor_} \ {NoThread}))
      BY <1>1, <2>1, <2>3, Taking
    <3> QED BY <1>2, <1>3, <2>2, <3>1 DEF IInv
  <2>4. CASE s = o
    <3>1. MovedFrom.packet_processor_ = NoThread /\ MovedFrom.live
      BY DEF MovedFrom, NoObject
    <3>2. Sound([mid EXCEPT ![s] = MovedFrom], now, started, moved)
      BY <1>1, <2>1, <3>1, Types, Putting
    <3>3. [mid EXCEPT ![s] = mid[o], ![o] = MovedFrom] = [mid EXCEPT ![s] = MovedFrom]
      BY <1>1, <2>1, <2>4 DEF Sound, Typed
    <3>4. moved' = moved
      BY <2>1, <2>2, <2>4
    <3> QED BY <1>2, <1>3, <2>2, <3>2, <3>3, <3>4 DEF IInv
  <2> QED BY <2>3, <2>4
<1> QED BY <1>6, <1>7, <1>8 DEF joined, closed

LEMMA LoopStep ==
  ASSUME IInv, NEW t \in ThreadId, Loop(t)
  PROVE  IInv'
<1>1. PICK at \in Running \cup {"finished"} :
        /\ loop[t].at \in Running /\ loop' = [loop EXCEPT ![t].at = at]
        /\ UNCHANGED <<socket, started, app, moved>>
  BY DEF Loop, loop_check, loop_look, loop_use, Running
<1>2. Sound(socket, [loop EXCEPT ![t].at = at], started, moved)
  BY <1>1, Looping DEF IInv
<1> QED BY <1>1, <1>2 DEF IInv

LEMMA Invariance == Spec => []IInv
<1>1. IInv /\ [Next]_vars => IInv'
  <2> SUFFICES ASSUME IInv, [Next]_vars PROVE IInv'
    OBVIOUS
  <2>1. CASE UNCHANGED vars
    BY <2>1 DEF vars, IInv
  <2>2. CASE Next
    BY <2>2, CallStep, JoinedStep, LoopStep DEF Next
  <2> QED BY <2>1, <2>2
<1> QED BY <1>1, InitInvariant, PTL DEF Spec

\* The values of the variables have their types.
THEOREM TypeCorrect == Spec => []TypeOK
BY Invariance, InvariantImplies, PTL

\* Every thread that was started and not joined is the packet_processor_ of one
\* object: no move, assignment or destructor meets a joinable std::thread.  (the
\* move operations, close and start_packet_processor)
THEOREM NoThreadIsLost == Spec => []EveryThreadHasOneOwner
BY Invariance, InvariantImplies, PTL

\* The thread of an object that is not moved runs on that object as long as it
\* runs.  (packet_processing_loop, close and the destructor)
THEOREM LoopFindsItsObject == Spec => []UnmovedIsThere
BY Invariance, InvariantImplies, PTL
-----------------------------------------------------------------------------
(* The calls that wait for a thread *)

\* An object's thread, unless it was moved, is bound to that object.
Bound(objs, thr, mv) ==
  \A s \in Sockets :
    LET t == objs[s].packet_processor_
    IN t # NoThread /\ t \notin mv => thr[t].this = s

\* Thread a waits in a call of object s.
Holds(a, s) == app[a].at # "idle" /\ (app[a].on = s \/ (app[a].at = "assign" /\ app[a].from = s))

\* No two calls hold one object, and none is assigned to itself.
Exclusive ==
  /\ \A a, b \in Apps : \A s \in Sockets : Holds(a, s) /\ Holds(b, s) => a = b
  /\ \A a \in Apps : app[a].at = "assign" => app[a].on # app[a].from

\* The objects that the waiting calls hold are as they left them.
Seen(objs) ==
  \A a \in Apps : app[a].at # "idle"
    => /\ objs[app[a].on].live /\ objs[app[a].on].should_stop_
       /\ app[a].at = "assign" => objs[app[a].from].live

WaitInv == Bound(socket, loop, moved) /\ Exclusive /\ Seen(socket)

LEMMA WaitImplies == IInv /\ WaitInv => StopIsSeen
<1> SUFFICES ASSUME IInv, WaitInv, NEW a \in Apps, app[a].at # "idle"
             PROVE  LET s == app[a].on
                        t == socket[s].packet_processor_
                    IN /\ socket[s].live /\ socket[s].should_stop_
                       /\ Waits(a) /\ t # NoThread => loop[t].this = s
                       /\ app[a].at = "assign" => socket[app[a].from].live
  BY DEF StopIsSeen
<1>1. app[a].on \in Sockets
  BY DEF IInv, Frame
<1> QED BY <1>1 DEF WaitInv, Seen, Bound, Waits

\* A step that changes no object a waiting call holds keeps what they left.
LEMMA HeldStay ==
  ASSUME IInv, WaitInv, NEW new,
         \A b \in Apps : \A s \in Sockets : Holds(b, s) => new[s] = socket[s]
  PROVE  Seen(new)
<1> SUFFICES ASSUME NEW b \in Apps, app[b].at # "idle"
             PROVE  /\ new[app[b].on].live /\ new[app[b].on].should_stop_
                    /\ app[b].at = "assign" => new[app[b].from].live
  BY DEF Seen
<1>1. app[b].on \in Sockets /\ app[b].from \in Sockets
  BY DEF IInv, Frame
<1>2. new[app[b].on] = socket[app[b].on]
      /\ (app[b].at = "assign" => new[app[b].from] = socket[app[b].from])
  BY <1>1 DEF Holds
<1> QED BY <1>2 DEF WaitInv, Seen

\* No call holds an object that is free.
LEMMA FreeIsNotHeld ==
  ASSUME NEW a \in Apps, NEW S, Free(a, S)
  PROVE  \A b \in Apps : \A s \in Sockets : Holds(b, s) => s \notin S
BY DEF Free, Holds

\* start_packet_processor of an object no call holds.
LEMMA StartWaits ==
  ASSUME IInv, WaitInv, NEW a \in Apps, NEW s \in Sockets, NEW o \in Object, Free(a, {s}),
         o.packet_processor_ = socket[s].packet_processor_,
         start_packet_processor(s, o), UNCHANGED <<app, moved>>
  PROVE  WaitInv'
<1>1. socket \in [Sockets -> Object] /\ started \in Nat
      /\ \A r \in Sockets : socket[r].packet_processor_ \in 0 .. started
  BY LifecycleAssumption DEF IInv, Sound, Typed, StartedInOrder, Object, ThreadId, NoThread
<1>2. /\ socket' \in [Sockets -> Object]
      /\ \A r \in Sockets : r # s => socket'[r] = socket[r]
  <2>1. CASE socket' = [socket EXCEPT ![s] = o]
    BY <1>1, <2>1
  <2>2. CASE /\ started < MaxThreads
             /\ socket' = [socket EXCEPT ![s] =
                  [o EXCEPT !.packet_processor_ = started + 1, !.should_stop_ = FALSE]]
    <3>1. started + 1 \in ThreadId
      BY <1>1, <2>2, LifecycleAssumption DEF ThreadId
    <3>2. [o EXCEPT !.packet_processor_ = started + 1, !.should_stop_ = FALSE] \in Object
      BY <3>1 DEF Object
    <3> QED BY <1>1, <2>2, <3>2
  <2> QED BY <2>1, <2>2 DEF start_packet_processor
<1>3. Bound(socket', loop', moved')
  <2>1. CASE o.packet_processor_ # NoThread
    <3>1. /\ socket' = [socket EXCEPT ![s] = o] /\ loop' = loop /\ moved' = moved
      BY <2>1 DEF start_packet_processor
    <3>2. \A r \in Sockets : socket'[r].packet_processor_ = socket[r].packet_processor_
      BY <1>1, <3>1
    <3> QED BY <3>1, <3>2 DEF WaitInv, Bound
  <2>2. CASE o.packet_processor_ = NoThread
    <3> DEFINE t == started + 1
    <3>1. /\ started < MaxThreads /\ moved' = moved
          /\ loop' = [loop EXCEPT ![t] = [this |-> s, at |-> "check"]]
          /\ socket' = [socket EXCEPT ![s] =
               [o EXCEPT !.packet_processor_ = t, !.should_stop_ = FALSE]]
      BY <2>2 DEF start_packet_processor
    <3>2. t \in ThreadId
      BY <1>1, <3>1, LifecycleAssumption DEF ThreadId
    <3>3. loop \in [ThreadId -> Thread]
      BY DEF IInv, Sound, Typed
    <3>4. loop'[t].this = s /\ \A u \in ThreadId : u # t => loop'[u] = loop[u]
      BY <3>1, <3>2, <3>3
    <3>5. socket'[s].packet_processor_ = t
      BY <1>1, <3>1, <3>2 DEF Object
    <3> SUFFICES ASSUME NEW r \in Sockets, socket'[r].packet_processor_ # NoThread,
                        socket'[r].packet_processor_ \notin moved'
                 PROVE  loop'[socket'[r].packet_processor_].this = r
      BY DEF Bound
    <3>6. CASE r = s
      BY <3>4, <3>5, <3>6
    <3>7. CASE r # s
      <4>1. /\ socket'[r].packet_processor_ = socket[r].packet_processor_
            /\ socket[r].packet_processor_ # t /\ socket[r].packet_processor_ \in ThreadId
        BY <1>1, <1>2, <3>1, <3>7, LifecycleAssumption DEF ThreadId, NoThread
      <4> QED BY <3>1, <3>4, <4>1 DEF WaitInv, Bound
    <3> QED BY <3>6, <3>7
  <2> QED BY <2>1, <2>2
<1>4. Seen(socket)'
  <2>1. Seen(socket')
    BY <1>2, FreeIsNotHeld, HeldStay
  <2> QED BY <2>1 DEF Seen
<1>5. Exclusive'
  BY DEF WaitInv, Exclusive, Holds
<1> QED BY <1>3, <1>4, <1>5 DEF WaitInv, Bound

\* An object that no call holds, replaced by one with the same thread.
LEMMA PutWaits ==
  ASSUME IInv, WaitInv, NEW a \in Apps, NEW s \in Sockets, NEW o \in Object, Free(a, {s}),
         o.packet_processor_ = socket[s].packet_processor_,
         socket' = [socket EXCEPT ![s] = o], UNCHANGED <<loop, app, moved>>
  PROVE  WaitInv'
<1>1. \A r \in Sockets : /\ r # s => socket'[r] = socket[r]
                         /\ socket'[r].packet_processor_ = socket[r].packet_processor_
  BY DEF IInv, Sound, Typed
<1>2. Bound(socket, loop, moved)'
  BY <1>1 DEF WaitInv, Bound
<1>3. Seen(socket)'
  <2>1. Seen(socket')
    BY <1>1, FreeIsNotHeld, HeldStay
  <2> QED BY <2>1 DEF Seen
<1>4. Exclusive'
  BY DEF WaitInv, Exclusive, Holds
<1> QED BY <1>2, <1>3, <1>4 DEF WaitInv

\* A close, a destructor or an assignment that begins.
LEMMA StopWaits ==
  ASSUME IInv, WaitInv, NEW a \in Apps, NEW s \in Sockets, NEW o \in Sockets,
         NEW at \in {"close", "destroy", "assign"}, Free(a, {s, o}), Stop(a, s, o, at),
         at = "assign" => s # o /\ socket[o].live
  PROVE  WaitInv'
<1>1. /\ socket' = [socket EXCEPT ![s].should_stop_ = TRUE]
      /\ app' = [app EXCEPT ![a] = [at |-> at, on |-> s, from |-> o]]
      /\ UNCHANGED <<started, loop, moved>> /\ socket[s].live
  BY DEF Stop
<1>2. /\ socket \in [Sockets -> Object] /\ app \in [Apps -> Frame]
  BY DEF IInv, Sound, Typed
<1>3. /\ app'[a] = [at |-> at, on |-> s, from |-> o]
      /\ \A b \in Apps : b # a => app'[b] = app[b]
  BY <1>1, <1>2
<1>4. /\ \A r \in Sockets : /\ r # s => socket'[r] = socket[r]
                            /\ socket'[r].packet_processor_ = socket[r].packet_processor_
                            /\ socket'[r].live = socket[r].live
      /\ socket'[s].should_stop_
  BY <1>1, <1>2 DEF Object
<1>5. Bound(socket, loop, moved)'
  BY <1>1, <1>4 DEF WaitInv, Bound
<1>6. Seen(socket)'
  <2>1. Seen(socket')
    BY <1>4, FreeIsNotHeld, HeldStay
  <2> QED BY <1>1, <1>3, <1>4, <2>1 DEF Seen
<1>7. Exclusive'
  <2>1. \A b \in Apps : b # a => \A r \in Sockets : Holds(b, r)' => Holds(b, r)
    BY <1>3 DEF Holds
  <2>2. \A r \in Sockets : Holds(a, r)' => r \in {s, o}
    BY <1>3 DEF Holds
  <2>3. \A b \in Apps : \A r \in Sockets : Holds(b, r) => r \notin {s, o}
    BY FreeIsNotHeld
  <2>4. \A b, c \in Apps : \A r \in Sockets : Holds(b, r)' /\ Holds(c, r)' => b = c
    BY <2>1, <2>2, <2>3 DEF WaitInv, Exclusive
  <2>5. \A b \in Apps : app'[b].at = "assign" => app'[b].on # app'[b].from
    BY <1>3 DEF WaitInv, Exclusive
  <2> QED BY <2>4, <2>5 DEF Exclusive, Holds
<1> QED BY <1>5, <1>6, <1>7 DEF WaitInv

\* The object of one place made of that of another: its thread is moved.
LEMMA TakenIsBound ==
  ASSUME NEW objs \in [Sockets -> Object], NEW thr, NEW mv, Bound(objs, thr, mv),
         NEW s \in Sockets, NEW o \in Sockets
  PROVE  Bound([objs EXCEPT ![s] = objs[o], ![o] = MovedFrom], thr,
               mv \cup ({objs[o].packet_processor_} \ {NoThread}))
<1> DEFINE new == [objs EXCEPT ![s] = objs[o], ![o] = MovedFrom]
<1>1. \A r \in Sockets : new[r] = IF r = o THEN MovedFrom
                                  ELSE IF r = s THEN objs[o] ELSE objs[r]
  OBVIOUS
<1>2. MovedFrom.packet_processor_ = NoThread
  BY DEF MovedFrom, NoObject
<1> HIDE DEF new
<1>3. Bound(new, thr, mv \cup ({objs[o].packet_processor_} \ {NoThread}))
  BY <1>1, <1>2 DEF Bound
<1> QED BY <1>3 DEF new

LEMMA CallWaits ==
  ASSUME IInv, WaitInv, NEW a \in Apps, Call(a)
  PROVE  WaitInv'
<1>1. ASSUME NEW s \in Sockets, construct(a, s) PROVE WaitInv'
  <2>1. /\ NewObject.packet_processor_ = socket[s].packet_processor_ /\ NewObject \in Object
    BY <1>1, Types DEF construct, IInv, Sound, GoneIsEmpty, NewObject, NoObject
  <2> QED BY <1>1, <2>1, PutWaits DEF construct
<1>2. ASSUME NEW s \in Sockets, construct_accepted(a, s) PROVE WaitInv'
  <2>1. PICK o \in Object : o = [NewObject EXCEPT !.connection = TRUE]
    BY Types DEF Object
  <2>2. o.packet_processor_ = socket[s].packet_processor_
    BY <1>2, <2>1, Types
       DEF construct_accepted, IInv, Sound, GoneIsEmpty, NewObject, NoObject, Object
  <2> QED BY <1>2, <2>1, <2>2, StartWaits DEF construct_accepted
<1>3. ASSUME NEW s \in Sockets, listen(a, s) PROVE WaitInv'
  <2>1. socket[s] \in Object
    BY DEF IInv, Sound, Typed
  <2> QED BY <1>3, <2>1, StartWaits DEF listen
<1>4. ASSUME NEW s \in Sockets, connect(a, s) PROVE WaitInv'
  <2>1. socket[s] \in Object
    BY DEF IInv, Sound, Typed
  <2>2. CASE socket' = [socket EXCEPT ![s].connection = FALSE] /\ UNCHANGED <<started, loop>>
    <3>1. PICK o \in Object : o = [socket[s] EXCEPT !.connection = FALSE]
      BY <2>1 DEF Object
    <3>2. o.packet_processor_ = socket[s].packet_processor_
      BY <2>1, <3>1 DEF Object
    <3> QED BY <1>4, <2>2, <3>1, <3>2, PutWaits DEF connect
  <2>3. CASE start_packet_processor(s, [socket[s] EXCEPT !.connection = TRUE])
    <3>1. PICK o \in Object : o = [socket[s] EXCEPT !.connection = TRUE]
      BY <2>1 DEF Object
    <3>2. o.packet_processor_ = socket[s].packet_processor_
      BY <2>1, <3>1 DEF Object
    <3> QED BY <1>4, <2>3, <3>1, <3>2, StartWaits DEF connect
  <2> QED BY <1>4, <2>2, <2>3 DEF connect
<1>5. ASSUME NEW s \in Sockets, close(a, s) \/ destroy(a, s) PROVE WaitInv'
  <2>1. Free(a, {s, s}) /\ (Stop(a, s, s, "close") \/ Stop(a, s, s, "destroy"))
    BY <1>5 DEF close, destroy
  <2> QED BY <2>1, StopWaits
<1>6. ASSUME NEW s \in Sockets, NEW o \in Sockets, assign(a, s, o) PROVE WaitInv'
  BY <1>6, StopWaits DEF assign
<1>7. ASSUME NEW s \in Sockets, NEW o \in Sockets, construct_moved(a, s, o) PROVE WaitInv'
  <2>1. /\ Free(a, {s, o}) /\ UNCHANGED <<started, loop, app>>
        /\ socket' = [socket EXCEPT ![s] = socket[o], ![o] = MovedFrom]
        /\ moved' = moved \cup ({socket[o].packet_processor_} \ {NoThread})
        /\ socket \in [Sockets -> Object]
    BY <1>7 DEF construct_moved, take, IInv, Sound, Typed
  <2>2. Bound(socket, loop, moved)'
    <3>1. Bound(socket', loop, moved')
      BY <2>1, TakenIsBound DEF WaitInv
    <3> QED BY <2>1, <3>1 DEF Bound
  <2>3. Seen(socket)'
    <3>1. \A r \in Sockets : r \notin {s, o} => socket'[r] = socket[r]
      BY <2>1
    <3>2. Seen(socket')
      BY <2>1, <3>1, FreeIsNotHeld, HeldStay
    <3> QED BY <2>1, <3>2 DEF Seen
  <2>4. Exclusive'
    BY <2>1 DEF WaitInv, Exclusive, Holds
  <2> QED BY <2>2, <2>3, <2>4 DEF WaitInv
<1> QED BY <1>1, <1>2, <1>3, <1>4, <1>5, <1>6, <1>7 DEF Call

\* The call that ends lets its objects go; the other calls hold none of them.
LEMMA JoinedWaits ==
  ASSUME IInv, WaitInv, NEW a \in Apps, joined(a)
  PROVE  WaitInv'
<1> DEFINE s == app[a].on
           o == app[a].from
           t == socket[s].packet_processor_
           closed == [socket[s] EXCEPT !.packet_processor_ = NoThread, !.connection = FALSE]
           mid == [socket EXCEPT ![s] = closed]
<1>1. /\ s \in Sockets /\ o \in Sockets /\ socket \in [Sockets -> Object]
      /\ socket[s] \in Object /\ app \in [Apps -> Frame] /\ loop \in [ThreadId -> Thread]
      /\ t \in ThreadId \cup {NoThread}
  BY DEF IInv, Sound, Typed, Frame, Object
<1>2. /\ app' = [app EXCEPT ![a] = Idle] /\ app[a].at # "idle"
      /\ loop' = IF t = NoThread THEN loop ELSE [loop EXCEPT ![t].at = "joined"]
  BY DEF joined
<1>3. closed \in Object /\ closed.packet_processor_ = NoThread
  BY <1>1 DEF Object, NoThread
<1>4. \A u \in ThreadId : loop'[u].this = loop[u].this
  BY <1>1, <1>2 DEF Thread
<1> HIDE DEF closed
<1>5. Exclusive'
  <2>1. app'[a].at = "idle" /\ \A b \in Apps : b # a => app'[b] = app[b]
    BY <1>1, <1>2 DEF Idle
  <2>2. \A b \in Apps : \A r \in Sockets : Holds(b, r)' => b # a /\ Holds(b, r)
    BY <2>1 DEF Holds
  <2>3. \A b \in Apps : app'[b].at = "assign" => app'[b].on # app'[b].from
    BY <2>1 DEF WaitInv, Exclusive
  <2>4. \A b, c \in Apps : \A r \in Sockets : Holds(b, r)' /\ Holds(c, r)' => b = c
    BY <2>2 DEF WaitInv, Exclusive
  <2> QED BY <2>3, <2>4 DEF Exclusive, Holds
<1>6. ASSUME \A b \in Apps : \A r \in Sockets :
               b # a /\ Holds(b, r) => socket'[r] = socket[r]
      PROVE  Seen(socket)'
  <2> SUFFICES ASSUME NEW b \in Apps, app'[b].at # "idle"
               PROVE  /\ socket'[app'[b].on].live /\ socket'[app'[b].on].should_stop_
                      /\ app'[b].at = "assign" => socket'[app'[b].from].live
    BY DEF Seen
  <2>1. b # a /\ app'[b] = app[b]
    BY <1>1, <1>2 DEF Idle
  <2>2. app[b].on \in Sockets /\ app[b].from \in Sockets
    BY <1>1 DEF Frame
  <2>3. socket'[app[b].on] = socket[app[b].on]
        /\ (app[b].at = "assign" => socket'[app[b].from] = socket[app[b].from])
    BY <1>6, <2>1, <2>2 DEF Holds
  <2> QED BY <2>1, <2>3 DEF WaitInv, Seen
<1>7. ASSUME NEW objs, NEW mv, Bound(objs, loop, mv), objs \in [Sockets -> Object]
      PROVE  Bound(objs, loop', mv)
  BY <1>4, <1>7 DEF Bound, Object
<1>8. \A b \in Apps : b # a => ~Holds(b, s) /\ (app[a].at = "assign" => ~Holds(b, o))
  BY <1>1, <1>2 DEF WaitInv, Exclusive, Holds
<1>9. ASSUME NEW r \in Object, r.packet_processor_ = NoThread,
             socket' = [socket EXCEPT ![s] = r], UNCHANGED moved
      PROVE  WaitInv'
  <2>1. Bound(socket', loop, moved') /\ socket' \in [Sockets -> Object]
    BY <1>1, <1>9 DEF WaitInv, Bound
  <2>2. Seen(socket)'
    BY <1>1, <1>6, <1>8, <1>9
  <2>3. Bound(socket, loop, moved)'
    BY <1>7, <2>1 DEF Bound
  <2> QED BY <1>5, <2>2, <2>3 DEF WaitInv
<1>10. CASE app[a].at = "close" /\ socket' = [socket EXCEPT ![s] = closed] /\ UNCHANGED moved
  BY <1>3, <1>9, <1>10
<1>11. CASE app[a].at = "destroy" /\ socket' = [socket EXCEPT ![s] = NoObject] /\ UNCHANGED moved
  BY <1>9, <1>11, Types DEF NoObject
<1>12. CASE app[a].at = "assign" /\ take(s, o, mid)
  <2>1. /\ mid \in [Sockets -> Object] /\ \A r \in Sockets : r # s => mid[r] = socket[r]
        /\ mid[s].packet_processor_ = NoThread
    BY <1>1, <1>3
  <2>2. Bound(mid, loop, moved)
    BY <2>1 DEF WaitInv, Bound
  <2>3. /\ socket' = [mid EXCEPT ![s] = mid[o], ![o] = MovedFrom]
        /\ moved' = moved \cup ({mid[o].packet_processor_} \ {NoThread})
    BY <1>12 DEF take
  <2> HIDE DEF mid
  <2>4. Bound(socket', loop, moved') /\ socket' \in [Sockets -> Object]
    BY <1>1, <2>1, <2>2, <2>3, TakenIsBound, Types
  <2>5. Bound(socket, loop, moved)'
    BY <1>7, <2>4 DEF Bound
  <2>6. \A r \in Sockets : r # s /\ r # o => socket'[r] = socket[r]
    BY <1>1, <2>1, <2>3
  <2>7. Seen(socket)'
    BY <1>6, <1>8, <1>12, <2>6
  <2> QED BY <1>5, <2>5, <2>7 DEF WaitInv
<1> QED BY <1>10, <1>11, <1>12 DEF joined, closed

LEMMA LoopWaits ==
  ASSUME IInv, WaitInv, NEW t \in ThreadId, Loop(t)
  PROVE  WaitInv'
<1>1. PICK at \in Running \cup {"finished"} :
        loop' = [loop EXCEPT ![t].at = at] /\ UNCHANGED <<socket, started, app, moved>>
  BY DEF Loop, loop_check, loop_look, loop_use, Running
<1>2. \A u \in ThreadId : loop'[u].this = loop[u].this
  BY <1>1 DEF IInv, Sound, Typed, Thread
<1>3. \A s \in Sockets : socket[s].packet_processor_ \in ThreadId \cup {NoThread}
  BY DEF IInv, Sound, Typed, Object
<1>4. Bound(socket, loop, moved)'
  BY <1>1, <1>2, <1>3 DEF WaitInv, Bound
<1>5. Exclusive' /\ Seen(socket)'
  BY <1>1 DEF WaitInv, Exclusive, Holds, Seen
<1> QED BY <1>4, <1>5 DEF WaitInv

\* While a thread waits in stop_packet_processor its objects stay as they are, and
\* the thread it waits for, if its socket is not moved, reads the flag that is set:
\* with the fairness of the scheduler this is why close returns.
\* (stop_packet_processor, start_packet_processor, the move operations)
THEOREM StopReachesTheThread == Spec => []StopIsSeen
<1>1. Init => WaitInv
  BY DEF Init, WaitInv, Bound, Exclusive, Seen, Holds, NoObject, Idle
<1>2. IInv /\ WaitInv /\ [Next]_vars => WaitInv'
  <2> SUFFICES ASSUME IInv, WaitInv, [Next]_vars PROVE WaitInv'
    OBVIOUS
  <2>1. CASE UNCHANGED vars
    BY <2>1 DEF vars, WaitInv, Bound, Exclusive, Seen, Holds
  <2>2. CASE Next
    BY <2>2, CallWaits, JoinedWaits, LoopWaits DEF Next
  <2> QED BY <2>1, <2>2
<1> QED BY <1>1, <1>2, Invariance, WaitImplies, PTL DEF Spec
=============================================================================
