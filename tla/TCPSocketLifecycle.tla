-------------------------- MODULE TCPSocketLifecycle --------------------------
(***************************************************************************)
(* The life of TCPSocket objects: construction, move, assignment, close    *)
(* and destruction, with the packet processor thread each object may own.  *)
(* A std::thread stays bound to the object that started it (`this'), while *)
(* its handle moves with packet_processor_.                                *)
(*                                                                         *)
(* Sockets are the places in memory an object may be at; application       *)
(* threads may share them, but one object is in one call at a time.  Of    *)
(* the members, `parts' stands for connection_manager_ and reliability_,   *)
(* which move together, and `connection' says whether connection_ is set.  *)
(* What a call does with the connection is in TCPSocket.                   *)
(***************************************************************************)
EXTENDS Naturals

CONSTANTS
  Apps,       \* application threads
  Sockets,    \* places of TCPSocket objects
  MaxThreads  \* bound: packet processors started in a behaviour

ASSUME LifecycleAssumption == MaxThreads \in Nat /\ Sockets # {}

ThreadId == 1 .. MaxThreads
NoThread == 0

VARIABLES
  socket,   \* the objects
  started,  \* packet processors started so far
  loop,     \* the threads: bound to an object, at a place of the loop
  app,      \* the call each application thread waits in
  moved     \* history: threads whose handle was moved to another object

vars == <<socket, started, loop, app, moved>>

Object == [live : BOOLEAN, parts : BOOLEAN, connection : BOOLEAN,
           packet_processor_ : ThreadId \cup {NoThread}, should_stop_ : BOOLEAN]

\* Running threads are at "check" (the loop condition), "woken" or "use" (they
\* have seen connection_ and reliability_, and go on to use them).
Running == {"check", "woken", "use"}
Thread == [this : Sockets, at : Running \cup {"unborn", "finished", "joined"}]

\* A call in stop_packet_processor, of socket `on'; `from' is the source of the
\* assignment it belongs to.
Frame == [at : {"idle", "close", "destroy", "assign"}, on : Sockets, from : Sockets]

Anywhere == CHOOSE s \in Sockets : TRUE
Idle == [at |-> "idle", on |-> Anywhere, from |-> Anywhere]

NoObject == [live |-> FALSE, parts |-> FALSE, connection |-> FALSE,
             packet_processor_ |-> NoThread, should_stop_ |-> FALSE]
NewObject == [NoObject EXCEPT !.live = TRUE, !.parts = TRUE]

\* What a move leaves behind.
MovedFrom == [NoObject EXCEPT !.live = TRUE]

Init ==
  /\ socket = [s \in Sockets |-> NoObject]
  /\ started = 0
  /\ loop = [t \in ThreadId |-> [this |-> Anywhere, at |-> "unborn"]]
  /\ app = [a \in Apps |-> Idle]
  /\ moved = {}

\* Application thread a may begin a call of the objects S.
Free(a, S) ==
  /\ app[a].at = "idle"
  /\ \A b \in Apps : app[b].at # "idle" => app[b].on \notin S
                     /\ (app[b].at = "assign" => app[b].from \notin S)

-----------------------------------------------------------------------------

\* The object o of place s with a packet processor started, unless it has one.
start_packet_processor(s, o) ==
  IF o.packet_processor_ # NoThread
  THEN /\ socket' = [socket EXCEPT ![s] = o]
       /\ UNCHANGED <<started, loop>>
  ELSE /\ started < MaxThreads   \* the bound
       /\ started' = started + 1
       /\ loop' = [loop EXCEPT ![started + 1] = [this |-> s, at |-> "check"]]
       /\ socket' = [socket EXCEPT ![s] =
            [o EXCEPT !.packet_processor_ = started + 1, !.should_stop_ = FALSE]]

construct(a, s) ==
  /\ Free(a, {s}) /\ ~socket[s].live
  /\ socket' = [socket EXCEPT ![s] = NewObject]
  /\ UNCHANGED <<started, loop, app, moved>>

\* The constructor that accept calls.
construct_accepted(a, s) ==
  /\ Free(a, {s}) /\ ~socket[s].live
  /\ start_packet_processor(s, [NewObject EXCEPT !.connection = TRUE])
  /\ UNCHANGED <<app, moved>>

\* A moved-from object has no connection_manager_ to call.
listen(a, s) ==
  /\ Free(a, {s}) /\ socket[s].parts
  /\ start_packet_processor(s, socket[s])
  /\ UNCHANGED <<app, moved>>

\* connect sets connection_, to nullptr when it fails, also if there is a thread.
connect(a, s) ==
  /\ Free(a, {s}) /\ socket[s].parts
  /\ \/ /\ socket' = [socket EXCEPT ![s].connection = FALSE]
        /\ UNCHANGED <<started, loop>>
     \/ start_packet_processor(s, [socket[s] EXCEPT !.connection = TRUE])
  /\ UNCHANGED <<app, moved>>

\* A mutant: the thread stays with the old object.
take_no_thread(s, o, objects) ==
  /\ socket' = [objects EXCEPT
       ![s] = [objects[o] EXCEPT !.packet_processor_ = NoThread],
       ![o] = MovedFrom]
  /\ moved' = moved \cup ({objects[o].packet_processor_} \ {NoThread})

\* The object of place s is made of the one of place o, in a move.
take(s, o, objects) ==
  /\ socket' = [objects EXCEPT ![s] = objects[o], ![o] = MovedFrom]
  /\ moved' = moved \cup ({objects[o].packet_processor_} \ {NoThread})

construct_moved(a, s, o) ==
  /\ Free(a, {s, o}) /\ ~socket[s].live /\ socket[o].live
  /\ take(s, o, socket)
  /\ UNCHANGED <<started, loop, app>>

\* A mutant: the thread is not told to stop.
Wait(a, s, o, at) ==
  /\ socket[s].live
  /\ app' = [app EXCEPT ![a] = [at |-> at, on |-> s, from |-> o]]
  /\ UNCHANGED <<socket, started, loop, moved>>

\* close, the destructor, and the close an assignment begins with.
Stop(a, s, o, at) ==
  /\ socket[s].live
  /\ socket' = [socket EXCEPT ![s].should_stop_ = TRUE]
  /\ app' = [app EXCEPT ![a] = [at |-> at, on |-> s, from |-> o]]
  /\ UNCHANGED <<started, loop, moved>>

close(a, s) == Free(a, {s}) /\ Stop(a, s, s, "close")
destroy(a, s) == Free(a, {s}) /\ Stop(a, s, s, "destroy")

\* A mutant: nothing is closed before an assignment.
assign_at_once(a, s, o) ==
  /\ Free(a, {s, o}) /\ s # o
  /\ socket[s].live /\ socket[o].live
  /\ take(s, o, socket)
  /\ UNCHANGED <<started, loop, app>>

assign(a, s, o) ==
  /\ Free(a, {s, o}) /\ s # o /\ socket[o].live
  /\ Stop(a, s, o, "assign")

\* The thread of object o, if there is one, has come to its end.
Ended(o) ==
  o.packet_processor_ # NoThread => loop[o.packet_processor_].at = "finished"

\* A mutant: the thread is let go without waiting for it.
detached(a) ==
  /\ app[a].at = "destroy"
  /\ socket' = [socket EXCEPT ![app[a].on] = NoObject]
  /\ app' = [app EXCEPT ![a] = Idle]
  /\ UNCHANGED <<loop, started, moved>>

\* The thread is joined, and the connection let go.
joined(a) ==
  LET s == app[a].on
      t == socket[s].packet_processor_
      closed == [socket[s] EXCEPT !.packet_processor_ = NoThread, !.connection = FALSE]
  IN
  /\ app[a].at # "idle"
  /\ Ended(socket[s])
  /\ loop' = IF t = NoThread THEN loop ELSE [loop EXCEPT ![t].at = "joined"]
  /\ \/ /\ app[a].at = "close"
        /\ socket' = [socket EXCEPT ![s] = closed]
        /\ UNCHANGED moved
     \/ /\ app[a].at = "destroy"
        /\ socket' = [socket EXCEPT ![s] = NoObject]
        /\ UNCHANGED moved
     \/ /\ app[a].at = "assign"
        /\ take(s, app[a].from, [socket EXCEPT ![s] = closed])
  /\ app' = [app EXCEPT ![a] = Idle]
  /\ UNCHANGED started

-----------------------------------------------------------------------------
(* packet_processing_loop *)

\* should_stop_ of an object that is gone has any value.
loop_check(t) ==
  /\ loop[t].at = "check"
  /\ \E stop \in IF socket[loop[t].this].live
                 THEN {socket[loop[t].this].should_stop_} ELSE BOOLEAN :
       loop' = [loop EXCEPT ![t].at = IF stop THEN "finished" ELSE "woken"]
  /\ UNCHANGED <<socket, started, app, moved>>

loop_look(t) ==
  /\ loop[t].at = "woken"
  /\ \E found \in IF socket[loop[t].this].live
                  THEN {socket[loop[t].this].connection /\ socket[loop[t].this].parts}
                  ELSE BOOLEAN :
       loop' = [loop EXCEPT ![t].at = IF found THEN "use" ELSE "check"]
  /\ UNCHANGED <<socket, started, app, moved>>

loop_use(t) ==
  /\ loop[t].at = "use"
  /\ loop' = [loop EXCEPT ![t].at = "check"]
  /\ UNCHANGED <<socket, started, app, moved>>

-----------------------------------------------------------------------------

Call(a) ==
  \/ \E s \in Sockets : \/ construct(a, s)
                        \/ construct_accepted(a, s)
                        \/ listen(a, s)
                        \/ connect(a, s)
                        \/ close(a, s)
                        \/ destroy(a, s)
  \/ \E s, o \in Sockets : construct_moved(a, s, o) \/ assign(a, s, o)

Loop(t) == loop_check(t) \/ loop_look(t) \/ loop_use(t)

Next ==
  \/ \E a \in Apps : Call(a) \/ joined(a)
  \/ \E t \in ThreadId : Loop(t)

Spec == Init /\ [][Next]_vars

\* The operating system runs every thread; a join returns once its thread ended.
Fairness == /\ \A t \in ThreadId : WF_vars(Loop(t))
            /\ \A a \in Apps : WF_vars(joined(a))
FairSpec == Spec /\ Fairness
-----------------------------------------------------------------------------
\* Every variable has its type.
TypeOK ==
  /\ socket \in [Sockets -> Object]
  /\ started \in 0 .. MaxThreads
  /\ loop \in [ThreadId -> Thread]
  /\ app \in [Apps -> Frame]
  /\ moved \subseteq 1 .. started

\* The object whose packet_processor_ is thread t.
Owners(t) == {s \in Sockets : socket[s].packet_processor_ = t}

\* The program is never terminated by a std::thread: every thread that was
\* started and not joined is the packet_processor_ of exactly one object, so none
\* is overwritten or destroyed while it can be joined, and none is joined twice.
\* (the move operations, close, start_packet_processor)
EveryThreadHasOneOwner ==
  \A t \in 1 .. started :
    IF loop[t].at = "joined"
    THEN Owners(t) = {}
    ELSE \E s \in Sockets : Owners(t) = {s}

\* A thread whose socket is not moved finds it as it was: the object is there
\* with its members as long as the thread runs, and it is that object's thread.
\* (packet_processing_loop, close, the destructor)
UnmovedIsThere ==
  \A t \in (1 .. started) \ moved :
    loop[t].at \in Running
      => /\ socket[loop[t].this].live
         /\ socket[loop[t].this].parts
         /\ socket[loop[t].this].packet_processor_ = t

\* The application thread waits for a thread that was not moved.
Waits(a) == app[a].at # "idle" /\ socket[app[a].on].packet_processor_ \notin moved

\* No other call touches a socket while a thread waits in its close, destructor or
\* assignment: the object stays with its stop flag set, and the thread waited for,
\* unless it was moved, is the one that reads that flag.  (stop_packet_processor,
\* start_packet_processor, the move operations)
StopIsSeen ==
  \A a \in Apps :
    app[a].at # "idle"
      => LET s == app[a].on
             t == socket[s].packet_processor_
         IN /\ socket[s].live /\ socket[s].should_stop_
            /\ Waits(a) /\ t # NoThread => loop[t].this = s
            /\ app[a].at = "assign" => socket[app[a].from].live

\* A close, a destructor or an assignment of a socket that is not moved returns,
\* whatever other sockets are moved about.  (stop_packet_processor,
\* packet_processing_loop)
StopReturns == \A a \in Apps : Waits(a) ~> app[a].at = "idle"

-----------------------------------------------------------------------------
(* What the documentation says and the code does not do *)

\* The class comment "Non-copyable but movable": a close returns also when the
\* socket was moved.
MovedStopReturns == \A a \in Apps : app[a].at # "idle" ~> app[a].at = "idle"
=============================================================================
