---------------------- MODULE TCPConnectionManagerSafety ----------------------
(***************************************************************************)
(* The safety invariants of TCPConnectionManager, for every value of its   *)
(* constants.  A step that writes no state and pushes no object changes    *)
(* the frame of one thread, in one of the seven ways (Move) below; the     *)
(* write of a state and the two pushes are proved by themselves.           *)
(***************************************************************************)
EXTENDS TCPConnectionManagerProofs

\* Labels at which a thread's frame matters to CallsInPhase or TransientStates.
Active(f) == f.at \in {"open", "assign", "syn", "drop", "fin", "remove"}

\* Objects the properties call used.
Used == handed \cup {s.conn : s \in wire}

\* process_event has computed the next state.
BeginsAssign(f, c, event) ==
  /\ f.at = "assign" /\ f.conn = c /\ f.event = event
  /\ f.to = transition(conn[c].state, event)

\* The ways from frame g of a thread to its next frame f.
Move(g, f) ==
  \/ ~Active(g) /\ ~Active(f)
  \/ /\ ~Active(g)
     /\ \E c \in 1 .. allocated, event \in ManagerEvent \ {"ACTIVE_OPEN"} :
          BeginsAssign(f, c, event) /\ (event # "CLOSE" => c \in connections)
  \/ /\ g.at = "open"
     /\ BeginsAssign(f, g.conn, "ACTIVE_OPEN")
  \/ /\ g.at = "syn" /\ ~Active(f)
     /\ can_send_data(conn[g.conn].state) /\ g.conn \in handed'
  \/ g.at = "syn" /\ f.at = "drop" /\ f.conn = g.conn
  \/ g.at \in {"drop", "remove"} /\ ~Active(f) /\ g.conn \notin connections'
  \/ g.at = "fin" /\ f.at = "remove" /\ f.conn = g.conn

\* The object c is in a state that sends.
MaySend(c) == c \in 1 .. allocated /\ can_send_data(conn[c].state)

\* A step that writes no state, pushes no object and gives thread t frame f.
SameStates(t, f) ==
  /\ allocated' = allocated
  /\ conn' \in [ConnId -> TCPConnection]
  /\ \A c \in ConnId : conn'[c].state = conn[c].state
  /\ connections' \subseteq connections
  /\ handed \subseteq handed'
  /\ \A c \in handed' : c \in handed \/ MaySend(c)
  /\ \A s \in wire' : s \in wire \/ MaySend(s.conn)
  /\ thread' = [thread EXCEPT ![t] = f]
  /\ Move(thread[t], f)

\* A step of thread t that pushes a CLOSED object r and gives t the frame f: it
\* opens the object or leaves it alone.
Pushes(t, f, r) ==
  /\ r.state = "CLOSED"
  /\ Allocate(r)
  /\ ~Active(thread[t])
  /\ Active(f) => f.at = "open" /\ f.conn = allocated + 1
  /\ thread' = [thread EXCEPT ![t] = f]
  /\ UNCHANGED <<handed, wire>>

\* What a step of thread t may do.
Step(t) ==
  \/ \E f : SameStates(t, f)
  \/ \E r \in TCPConnection : \E f : Pushes(t, f, r)
  \/ assign_state(t)

\* The invariants about the phases of the calls.
Phases == CallsInPhase /\ TransientStates /\ UsedOnlyOnceOpened

\* Objects a typed state talks about.
LEMMA Objects ==
  ASSUME TypeOK
  PROVE  /\ \A c \in 1 .. allocated : c \in ConnId /\ conn[c].state \in TCPState
         /\ connections \subseteq 1 .. allocated
         /\ Used \subseteq 1 .. allocated
         /\ \A u \in Threads : Active(thread[u]) => thread[u].conn \in 1 .. allocated
<1>1. \A c \in 1 .. allocated : c \in ConnId /\ conn[c].state \in TCPState
  BY ManagerAssumption DEF TypeOK, ConnId, TCPConnection
<1>2. Used \subseteq 1 .. allocated
  BY DEF TypeOK, Used
<1>3. \A u \in Threads : Active(thread[u]) => thread[u].conn \in 1 .. allocated
  BY DEF TypeOK, FrameOK, Active
<1> QED
  BY <1>1, <1>2, <1>3 DEF TypeOK

\* A connection that may send is not being opened.
LEMMA SendersAreOpen ==
  ASSUME CallsInPhase, NEW c, can_send_data(conn[c].state)
  PROVE  \A u \in Threads : thread[u].conn = c => ~Opens(u)
BY DEF CallsInPhase, WritesInPhase, can_send_data

\* CallsInPhase is kept by every move.
LEMMA MovesCallsInPhase ==
  ASSUME TypeOK, Phases, NEW t \in Threads, NEW f, SameStates(t, f)
  PROVE  CallsInPhase'
<1> DEFINE g == thread[t]
<1> USE DEF Opens, Opened, Closes, Active
<1>0. /\ \A u \in Threads : u # t => thread'[u] = thread[u]
      /\ thread'[t] = f
      /\ \A u \in Threads : Active(thread[u]) => thread[u].conn \in 1 .. allocated
      /\ \A c \in 1 .. allocated : /\ c \in ConnId
                                   /\ conn[c].state \in TCPState
                                   /\ conn'[c].state = conn[c].state
      /\ connections' \subseteq connections
      /\ handed \subseteq handed'
      /\ CallsInPhase
  BY Objects DEF SameStates, TypeOK, Phases
<1>1. CASE ~Active(g) /\ ~Active(f)
  BY <1>0, <1>1 DEF CallsInPhase, WritesInPhase
<1>2. ASSUME ~Active(g),
             NEW c \in 1 .. allocated, NEW event \in ManagerEvent \ {"ACTIVE_OPEN"},
             BeginsAssign(f, c, event), event # "CLOSE" => c \in connections
      PROVE  CallsInPhase'
  <2>1. conn[c].state = "CLOSED" => f.to = "CLOSED"
    BY <1>2, TransitionFromClosed DEF BeginsAssign
  <2>2. f.to = "SYN_SENT" => \/ c \in handed
                             \/ c \notin connections
                             \/ \E u \in Threads : u # t /\ thread[u].conn = c /\ Opened(u)
    <3>1. f.to = "SYN_SENT" => conn[c].state = "SYN_SENT"
      BY <1>0, <1>2, TransitionOpens DEF BeginsAssign
    <3>2. conn[c].state = "SYN_SENT" /\ c \in connections
            => c \in handed \/ \E u \in Threads : thread[u].conn = c /\ Opened(u)
      BY DEF Phases, TransientStates
    <3>3. ~Opened(t)
      BY <1>2
    <3> QED
      BY <3>1, <3>2, <3>3
  <2>3. f.to \in Closing /\ event # "CLOSE"
          => \E u \in Threads : u # t /\ thread[u].conn = c /\ Closes(u)
    <3>1. f.to \in Closing /\ event # "CLOSE"
            => conn[c].state \in Closing /\ c \in connections
      BY <1>0, <1>2, TransitionCloses DEF BeginsAssign
    <3>2. conn[c].state \in Closing /\ c \in connections
            => \E u \in Threads : thread[u].conn = c /\ Closes(u)
      BY DEF Phases, TransientStates
    <3>3. ~Closes(t)
      BY <1>2
    <3> QED
      BY <3>1, <3>2, <3>3
  <2>4. \A u \in Threads : thread[u].conn = c /\ Opens(u) => f.to = "CLOSED"
    BY <1>0, <2>1 DEF CallsInPhase, WritesInPhase
  <2>5. \A u \in Threads : u # t => /\ (Opens(u)' <=> Opens(u))
                                    /\ (Opened(u)' <=> Opened(u))
                                    /\ (Closes(u)' <=> Closes(u))
    BY <1>0
  <2>6. f.at = "assign" /\ f.conn = c /\ f.event = event /\ ~Opens(t)' /\ ~Opened(t)'
    BY <1>0, <1>2 DEF BeginsAssign
  <2>7. (\A v, u \in Threads :
           (Opens(v) \/ Opened(v)) /\ thread[u].conn = thread[v].conn /\ v # u
             => /\ ~Opens(u) /\ ~Opened(u)
                /\ Opens(v) /\ thread[u].at = "assign" => thread[u].to = "CLOSED")'
    BY <1>0, <2>4, <2>5, <2>6 DEF CallsInPhase, WritesInPhase
  <2>8. \A u \in Threads : Opens(u)' => conn'[thread'[u].conn].state = "CLOSED"
    BY <1>0, <2>5, <2>6 DEF CallsInPhase, WritesInPhase
  <2>9. ASSUME NEW u \in Threads, u # t, thread'[u].at = "assign"
        PROVE  WritesInPhase(u)'
    <3>1. WritesInPhase(u) /\ thread[u] = thread'[u]
      BY <1>0, <2>9 DEF CallsInPhase, WritesInPhase
    <3>2. \A v \in Threads : (Opened(v) => Opened(v)') /\ (Closes(v) => Closes(v)')
      BY <1>2, <2>5
    <3>3. \A v \in Threads : Opened(v) \/ Closes(v) => thread'[v] = thread[v]
      BY <1>0, <1>2
    <3> QED
      BY <1>0, <3>1, <3>2, <3>3 DEF WritesInPhase
  <2>10. WritesInPhase(t)'
    BY <1>0, <1>2, <2>2, <2>3, <2>5, <2>6 DEF WritesInPhase
  <2> QED
    BY <1>0, <2>7, <2>8, <2>9, <2>10 DEF CallsInPhase, WritesInPhase
<1>4. CASE g.at = "open" /\ BeginsAssign(f, g.conn, "ACTIVE_OPEN")
  <2>1. conn[g.conn].state = "CLOSED"
    BY <1>0, <1>4 DEF CallsInPhase, WritesInPhase
  <2>2. f.to = "SYN_SENT"
    BY <1>4, <2>1, TransitionFromClosed DEF BeginsAssign, ManagerEvent
  <2> QED
    BY <1>0, <1>4, <2>1, <2>2 DEF CallsInPhase, WritesInPhase, BeginsAssign, Closing
<1>5. CASE g.at = "syn" /\ ~Active(f) /\ g.conn \in handed'
  BY <1>0, <1>5 DEF CallsInPhase, WritesInPhase
<1>6. CASE g.at = "syn" /\ f.at = "drop" /\ f.conn = g.conn
  BY <1>0, <1>6 DEF CallsInPhase, WritesInPhase
<1>7. CASE g.at \in {"drop", "remove"} /\ ~Active(f) /\ g.conn \notin connections'
  BY <1>0, <1>7 DEF CallsInPhase, WritesInPhase
<1>8. CASE g.at = "fin" /\ f.at = "remove" /\ f.conn = g.conn
  BY <1>0, <1>8 DEF CallsInPhase, WritesInPhase
<1> QED
  BY <1>1, <1>2, <1>4, <1>5, <1>6, <1>7, <1>8 DEF SameStates, Move

\* TransientStates is kept by every move.
LEMMA MovesTransientStates ==
  ASSUME TypeOK, Phases, NEW t \in Threads, NEW f, SameStates(t, f)
  PROVE  TransientStates'
<1> DEFINE g == thread[t]
<1> USE DEF Opened, Closes, Active
<1>0. /\ \A u \in Threads : u # t => thread'[u] = thread[u]
      /\ thread'[t] = f
      /\ \A c \in connections' : c \in connections /\ conn'[c].state = conn[c].state
      /\ handed \subseteq handed'
      /\ TransientStates
  BY Objects DEF SameStates, TypeOK, Phases
<1>1. CASE ~Opened(t) /\ ~Closes(t)
  BY <1>0, <1>1 DEF TransientStates
<1>2. CASE (Opened(t) \/ Closes(t)) /\ g.conn \notin connections'
  BY <1>0, <1>2 DEF TransientStates
<1>3. CASE Opened(t) /\ f.at = "drop" /\ f.conn = g.conn
  BY <1>0, <1>3 DEF TransientStates
<1>4. CASE Closes(t) /\ f.at = "remove" /\ f.conn = g.conn
  BY <1>0, <1>4 DEF TransientStates
<1>5. CASE Opened(t) /\ g.conn \in handed'
  BY <1>0, <1>5 DEF TransientStates
<1> QED
  BY <1>1, <1>2, <1>3, <1>4, <1>5 DEF SameStates, Move

\* UsedOnlyOnceOpened is kept by every move.
LEMMA MovesUsed ==
  ASSUME TypeOK, Phases, NEW t \in Threads, NEW f, SameStates(t, f)
  PROVE  UsedOnlyOnceOpened'
<1>1. \A c \in Used' : c \in Used \/ MaySend(c)
  BY DEF SameStates, Used
<1>2. \A c \in Used', u \in Threads : thread[u].conn = c => ~Opens(u)
  BY <1>1, SendersAreOpen DEF MaySend, Used, Phases, UsedOnlyOnceOpened
<1>3. \A u \in Threads : Opens(u)' => Opens(u) /\ thread'[u].conn = thread[u].conn
  BY DEF SameStates, Move, BeginsAssign, Opens, Active, TypeOK
<1> QED
  BY <1>2, <1>3 DEF UsedOnlyOnceOpened, Used

\* The invariants are kept by every move.
LEMMA MovesPhases ==
  ASSUME TypeOK, Phases, NEW t \in Threads, NEW f, SameStates(t, f)
  PROVE  Phases'
BY MovesCallsInPhase, MovesTransientStates, MovesUsed DEF Phases

-----------------------------------------------------------------------------
(* The write of a state *)

\* The frame of a thread that has processed an event.
LEMMA ResumeFrame ==
  ASSUME TypeOK, NEW t \in Threads, NEW c, NEW event \in TCPEvent, NEW seg,
         Resume(t, c, event, seg)
  PROVE  \E f : /\ thread' = [thread EXCEPT ![t] = f]
                /\ f.conn \in {c, NoConn}
                /\ IF event \in {"ACTIVE_OPEN", "CLOSE"}
                   THEN f.at = After(event) /\ f.conn = c
                   ELSE ~Active(f)
<1> DEFINE call == [Call(After(event), c) EXCEPT !.event = event, !.seg = seg]
           payload == [Call("payload", NoConn) EXCEPT !.seg = [seg EXCEPT !.flags = {}]]
           receive == Call("receive", NoConn)
<1>1. /\ call.at = After(event) /\ call.conn = c
      /\ payload.at = "payload" /\ payload.conn = NoConn
      /\ receive.at = "receive" /\ receive.conn = NoConn
  BY DEF Call
<1>2. \/ After(event) # "payload" /\ thread' = [thread EXCEPT ![t] = call]
      \/ /\ After(event) = "payload"
         /\ \/ thread' = [thread EXCEPT ![t] = payload]
            \/ thread' = [thread EXCEPT ![t] = receive]
  BY DEF Resume, Payload, Goto
<1>3. IF event \in {"ACTIVE_OPEN", "CLOSE"}
      THEN After(event) \in {"syn", "fin"}
      ELSE After(event) \in {"ack", "reset", "payload"}
  BY DEF After
<1> HIDE DEF call, payload, receive
<1> QED
  BY <1>1, <1>2, <1>3 DEF Active

\* The write keeps the invariants: the write of an opening is followed by the
\* rest of connect, that of a close by the rest of close_connection, and any
\* other finds the state it overwrites past its opening.
LEMMA AssignPhases ==
  ASSUME TypeOK, Phases, NEW t \in Threads, assign_state(t)
  PROVE  Phases'
<1> DEFINE c == thread[t].conn
           event == thread[t].event
           to == thread[t].to
<1> USE DEF Opens, Opened, Closes, Active
<1>1. PICK f : /\ thread' = [thread EXCEPT ![t] = f]
               /\ f.conn \in {c, NoConn}
               /\ IF event \in {"ACTIVE_OPEN", "CLOSE"}
                  THEN f.at = After(event) /\ f.conn = c
                  ELSE ~Active(f)
  BY ResumeFrame DEF assign_state, TypeOK, Frame
<1>2. /\ f.at = "syn" /\ f.conn = c <=> event = "ACTIVE_OPEN"
      /\ f.at = "fin" /\ f.conn = c <=> event = "CLOSE"
      /\ Active(f) => f.at \in {"syn", "fin"} /\ f.conn = c
  BY <1>1 DEF After
<1>3. /\ \A u \in Threads : u # t => thread'[u] = thread[u]
      /\ thread'[t] = f
      /\ thread[t].at = "assign"
      /\ UNCHANGED <<allocated, connections, handed, wire>>
      /\ \A d \in 1 .. allocated :
           conn'[d].state = IF d = c THEN to ELSE conn[d].state
      /\ c \in 1 .. allocated
      /\ \A u \in Threads : Active(thread[u]) => thread[u].conn \in 1 .. allocated
  BY <1>1, Objects DEF assign_state, TypeOK, TCPConnection
<1>4. /\ event = "ACTIVE_OPEN" => to = "SYN_SENT"
      /\ \A u \in Threads : u # t /\ thread[u].conn = c /\ Opens(u)
                            => to = "CLOSED" /\ event # "ACTIVE_OPEN"
      /\ to = "SYN_SENT" => \/ event = "ACTIVE_OPEN"
                            \/ c \in handed
                            \/ c \notin connections
                            \/ \E u \in Threads : u # t /\ thread[u].conn = c /\ Opened(u)
      /\ to \in Closing => \/ event = "CLOSE"
                           \/ c \notin connections
                           \/ \E u \in Threads : u # t /\ thread[u].conn = c /\ Closes(u)
  BY <1>3 DEF Phases, CallsInPhase, WritesInPhase, Closing
<1>5. /\ \A u \in Threads : u # t => /\ (Opens(u)' <=> Opens(u))
                                     /\ (Opened(u)' <=> Opened(u))
                                     /\ (Closes(u)' <=> Closes(u))
      /\ ~Opens(t)'
      /\ Opened(t)' <=> event = "ACTIVE_OPEN"
      /\ event = "ACTIVE_OPEN" => thread'[t].conn = c
      /\ event = "CLOSE" => Closes(t)' /\ thread'[t].conn = c
      /\ thread'[t].at # "assign"
  BY <1>2, <1>3
<1>6. CallsInPhase'
  <2>1. (\A v, u \in Threads :
           (Opens(v) \/ Opened(v)) /\ thread[u].conn = thread[v].conn /\ v # u
             => /\ ~Opens(u) /\ ~Opened(u)
                /\ Opens(v) /\ thread[u].at = "assign" => thread[u].to = "CLOSED")'
    BY <1>3, <1>5 DEF Phases, CallsInPhase, WritesInPhase
  <2>2. \A u \in Threads : Opens(u)' => conn'[thread'[u].conn].state = "CLOSED"
    BY <1>3, <1>4, <1>5 DEF Phases, CallsInPhase, WritesInPhase
  <2> QED
    BY <1>3, <1>4, <1>5, <2>1, <2>2 DEF Phases, CallsInPhase, WritesInPhase
<1>7. TransientStates'
  <2>1. ASSUME NEW d \in connections, d # c
        PROVE  /\ conn'[d].state = "SYN_SENT" =>
                    \/ d \in handed
                    \/ \E u \in Threads : thread'[u].conn = d /\ Opened(u)'
               /\ conn'[d].state \in Closing =>
                    \E u \in Threads : thread'[u].conn = d /\ Closes(u)'
    BY <1>3, <2>1, Objects DEF Phases, TransientStates
  <2>2. c \in connections /\ to = "SYN_SENT" =>
          c \in handed \/ \E u \in Threads : thread'[u].conn = c /\ Opened(u)'
    BY <1>3, <1>4, <1>5
  <2>3. c \in connections /\ to \in Closing =>
          \E u \in Threads : thread'[u].conn = c /\ Closes(u)'
    BY <1>3, <1>4, <1>5
  <2> QED
    BY <1>3, <2>1, <2>2, <2>3 DEF TransientStates
<1>8. UsedOnlyOnceOpened'
  BY <1>3, <1>5 DEF Phases, UsedOnlyOnceOpened, Used
<1> QED
  BY <1>6, <1>7, <1>8 DEF Phases

-----------------------------------------------------------------------------
(* The push of an object *)

\* A step that pushes a new CLOSED object, opened or left alone by its thread.
LEMMA AllocatePhases ==
  ASSUME TypeOK, Phases, NEW t \in Threads, NEW f, NEW r \in TCPConnection,
         Pushes(t, f, r)
  PROVE  Phases'
<1> DEFINE new == allocated + 1
<1> USE DEF Opens, Opened, Closes, Active
<1>1. /\ \A u \in Threads : u # t => thread'[u] = thread[u]
      /\ thread'[t] = f
      /\ \A u \in Threads : thread[u].conn # new
      /\ new \notin 1 .. allocated
      /\ connections' = connections \cup {new}
      /\ conn'[new].state = "CLOSED"
      /\ \A d \in 1 .. allocated : conn'[d].state = conn[d].state
      /\ \A u \in Threads : Active(thread[u]) => thread[u].conn \in 1 .. allocated
      /\ connections \subseteq 1 .. allocated
      /\ Used \subseteq 1 .. allocated
      /\ ~Active(thread[t])
      /\ UNCHANGED <<handed, wire>>
  BY ManagerAssumption, Objects DEF Pushes, Allocate, TypeOK, ConnId
<1>2. CallsInPhase'
  BY <1>1 DEF Pushes, Phases, CallsInPhase, WritesInPhase
<1>3. TransientStates'
  <2>1. \A d \in connections : d # new /\ conn'[d].state = conn[d].state
    BY <1>1
  <2>2. \A u \in Threads : Opened(u) \/ Closes(u) => u # t
    BY <1>1
  <2>3. conn'[new].state \notin Closing \cup {"SYN_SENT"}
    BY <1>1 DEF Closing
  <2>4. \A u \in Threads : Opened(u) => Opened(u)' /\ thread'[u].conn = thread[u].conn
    BY <1>1, <2>2
  <2>5. \A u \in Threads : Closes(u) => Closes(u)' /\ thread'[u].conn = thread[u].conn
    BY <1>1, <2>2
  <2>6. ASSUME NEW d \in connections, conn'[d].state = "SYN_SENT"
        PROVE  d \in handed' \/ \E u \in Threads : thread'[u].conn = d /\ Opened(u)'
    <3>1. d \in handed \/ \E u \in Threads : thread[u].conn = d /\ Opened(u)
      BY <2>1, <2>6 DEF Phases, TransientStates
    <3> QED
      BY <1>1, <2>4, <3>1
  <2>7. ASSUME NEW d \in connections, conn'[d].state \in Closing
        PROVE  \E u \in Threads : thread'[u].conn = d /\ Closes(u)'
    <3>1. \E u \in Threads : thread[u].conn = d /\ Closes(u)
      BY <2>1, <2>7 DEF Phases, TransientStates
    <3> QED
      BY <2>5, <3>1
  <2> QED
    BY <1>1, <2>3, <2>6, <2>7 DEF TransientStates
<1>4. UsedOnlyOnceOpened'
  <2>1. Active(f) => f.conn = new /\ f.at = "open"
    BY DEF Pushes
  <2>2. Used' = Used
    BY <1>1 DEF Used
  <2>3. ASSUME NEW d \in Used, NEW u \in Threads, thread'[u].conn = d
        PROVE  ~Opens(u)'
    <3>1. CASE u = t
      BY <1>1, <2>1, <2>3, <3>1
    <3>2. CASE u # t
      BY <1>1, <2>3, <3>2 DEF Phases, UsedOnlyOnceOpened, Used
    <3> QED
      BY <3>1, <3>2
  <2> QED
    BY <2>2, <2>3 DEF UsedOnlyOnceOpened, Used
<1> QED
  BY <1>2, <1>3, <1>4 DEF Phases

-----------------------------------------------------------------------------
(* Every step keeps the invariants *)

\* The move of a thread that processes an event on an object it did not push.
LEMMA ProcessEventMove ==
  ASSUME TypeOK, NEW t \in Threads, NEW c \in 1 .. allocated,
         NEW event \in ManagerEvent \ {"ACTIVE_OPEN"}, NEW seg,
         event # "CLOSE" => c \in connections,
         ~Active(thread[t]), process_event(t, c, event, seg)
  PROVE  \E f : thread' = [thread EXCEPT ![t] = f] /\ Move(thread[t], f)
<1> DEFINE f == [Call("assign", c) EXCEPT !.event = event,
                   !.to = transition(conn[c].state, event), !.seg = seg]
<1>1. BeginsAssign(f, c, event)
  BY DEF BeginsAssign, Call
<1>2. thread' = [thread EXCEPT ![t] = f]
  BY DEF process_event, Goto
<1> HIDE DEF f
<1> QED
  BY <1>1, <1>2 DEF Move

\* The segment sent last comes from before, or from an object that may send.
LEMMA SendUsed ==
  ASSUME NEW c \in 1 .. allocated, NEW r, NEW flags, NEW len, NEW ok,
         send_segment(c, r, flags, len, ok), r.state = conn[c].state
  PROVE  \A s \in wire' : s \in wire \/ MaySend(s.conn)
<1>1. CASE Sends(r, ok)
  BY <1>1 DEF send_segment, Sends, MaySend
<1>2. CASE ~Sends(r, ok)
  BY <1>2 DEF send_segment
<1> QED
  BY <1>1, <1>2

\* A thread that has handled the flags of a segment is in no phase.
LEMMA PayloadFrame ==
  ASSUME NEW t \in Threads, NEW seg, Payload(t, seg)
  PROVE  \E f : thread' = [thread EXCEPT ![t] = f] /\ ~Active(f)
<1> DEFINE payload == [Call("payload", NoConn) EXCEPT !.seg = [seg EXCEPT !.flags = {}]]
           receive == Call("receive", NoConn)
<1>1. ~Active(payload) /\ ~Active(receive)
  BY DEF Active, Call
<1>2. \/ thread' = [thread EXCEPT ![t] = payload]
      \/ thread' = [thread EXCEPT ![t] = receive]
  BY DEF Payload, Goto
<1> HIDE DEF payload, receive
<1> QED
  BY <1>1, <1>2

\* The first step of every call is one of the kinds of Step.
LEMMA BeginStep ==
  ASSUME TypeOK, TypeOK', Phases, NEW t \in Threads, Begin(t) PROVE Step(t)
<1>0. conn' \in [ConnId -> TCPConnection]
  BY DEF TypeOK
<1>1. CASE accept_connection(t)
  <2> DEFINE f == Call("receive", NoConn)
  <2>1. Move(thread[t], f)
    BY <1>1 DEF accept_connection, Move, Active, Call
  <2>2. SameStates(t, f)
    BY <1>0, <1>1, <2>1 DEF accept_connection, SameStates, Goto
  <2> QED
    BY <2>2 DEF Step
<1>2. ASSUME NEW local \in LocalEndpoints, listen(t, local) PROVE Step(t)
  <2>1. Move(thread[t], thread[t])
    BY <1>2 DEF listen, Move, Active
  <2>2. thread' = [thread EXCEPT ![t] = thread[t]]
    BY <1>2 DEF listen, TypeOK
  <2>3. SameStates(t, thread[t])
    BY <1>0, <1>2, <2>1, <2>2 DEF listen, SameStates
  <2> QED
    BY <2>3 DEF Step
<1>3. ASSUME NEW local \in LocalEndpoints, NEW remote \in RemoteEndpoints,
             connect(t, local, remote)
      PROVE  Step(t)
  <2>1. PICK isn \in SeqNum :
          Allocate([local |-> local, remote |-> remote, local_seq |-> isn,
                    local_ack |-> 0, state |-> "CLOSED"])
    BY <1>3, ManagerAssumption DEF connect
  <2> DEFINE r == [local |-> local, remote |-> remote, local_seq |-> isn,
                   local_ack |-> 0, state |-> "CLOSED"]
             f == Call("open", allocated + 1)
  <2>2. r \in TCPConnection /\ r.state = "CLOSED"
    BY Names DEF TCPConnection
  <2>3. f.at = "open" /\ f.conn = allocated + 1
    BY DEF Call
  <2>4. ~Active(thread[t]) /\ thread' = [thread EXCEPT ![t] = f] /\ UNCHANGED <<handed, wire>>
    BY <1>3 DEF connect, Active, Goto
  <2> HIDE DEF f, r
  <2>5. Allocate(r)
    BY <2>1 DEF r
  <2> QED
    BY <2>2, <2>3, <2>4, <2>5 DEF Pushes, Step
<1>4. ASSUME NEW c \in handed, close_connection(t, c) PROVE Step(t)
  <2>1. c \in 1 .. allocated /\ ~Active(thread[t])
    BY <1>4 DEF TypeOK, close_connection, Active
  <2>2. PICK f : thread' = [thread EXCEPT ![t] = f] /\ Move(thread[t], f)
    BY <1>4, <2>1, ProcessEventMove DEF close_connection, ManagerEvent
  <2>3. SameStates(t, f)
    BY <1>0, <1>4, <2>2 DEF close_connection, SameStates
  <2> QED
    BY <2>3 DEF Step
<1>5. ASSUME NEW c \in handed, NEW len \in 1 .. MaxData, send_data(t, c, len)
      PROVE  Step(t)
  <2> DEFINE f == [Call("advance", c) EXCEPT !.len = len]
  <2>1. Move(thread[t], f)
    BY <1>5 DEF send_data, Move, Active, Call
  <2>2. \A s \in wire' : s \in wire \/ MaySend(s.conn)
    BY <1>5, SendUsed DEF send_data, TypeOK
  <2>3. SameStates(t, f)
    BY <1>0, <1>5, <2>1, <2>2 DEF send_data, SameStates, Goto
  <2> QED
    BY <2>3 DEF Step
<1> QED
  BY <1>1, <1>2, <1>3, <1>4, <1>5 DEF Begin

\* So is every further step of a call,
LEMMA ContinueStep ==
  ASSUME TypeOK, TypeOK', Phases, NEW t \in Threads, Continue(t) PROVE Step(t)
<1> DEFINE c == thread[t].conn
           seg == thread[t].seg
<1>0. /\ conn' \in [ConnId -> TCPConnection]
      /\ Active(thread[t]) => c \in 1 .. allocated
      /\ thread[t].at = "ack" => c \in 1 .. allocated
  BY Objects DEF TypeOK, FrameOK
<1>1. CASE connect_active_open(t)
  <2> DEFINE f == [Call("assign", c) EXCEPT !.event = "ACTIVE_OPEN",
                     !.to = transition(conn[c].state, "ACTIVE_OPEN"), !.seg = NoSegment]
  <2>1. thread' = [thread EXCEPT ![t] = f]
    BY <1>1 DEF connect_active_open, process_event, Goto
  <2>2. BeginsAssign(f, c, "ACTIVE_OPEN")
    BY DEF BeginsAssign, Call
  <2> HIDE DEF f
  <2>3. SameStates(t, f)
    BY <1>0, <1>1, <2>1, <2>2 DEF connect_active_open, SameStates, Move
  <2> QED
    BY <2>3 DEF Step
<1>2. CASE connect_send_syn(t)
  <2>3. c \in 1 .. allocated /\ thread[t].at = "syn"
    BY <1>0, <1>2 DEF connect_send_syn, Active
  <2>1. PICK ok \in IpSend :
          /\ send_segment(c, conn[c], {"SYN"}, 0, ok)
          /\ IF Sends(conn[c], ok)
             THEN handed' = handed \cup {c} /\ Goto(t, Idle)
             ELSE handed' = handed /\ Goto(t, Call("drop", c))
    BY <1>2 DEF connect_send_syn, send_syn
  <2>2. \A s \in wire' : s \in wire \/ MaySend(s.conn)
    BY <2>1, <2>3, SendUsed
  <2>4. CASE Sends(conn[c], ok)
    <3>1. Move(thread[t], Idle)
      BY <2>1, <2>3, <2>4 DEF Move, Active, Idle, Call, Sends
    <3>2. SameStates(t, Idle)
      BY <1>0, <1>2, <2>1, <2>2, <2>3, <2>4, <3>1
         DEF connect_send_syn, SameStates, MaySend, Goto, Sends
    <3> QED
      BY <3>2 DEF Step
  <2>5. CASE ~Sends(conn[c], ok)
    <3> DEFINE f == Call("drop", c)
    <3>1. Move(thread[t], f)
      BY <2>3 DEF Move, Active, Call
    <3>2. SameStates(t, f)
      BY <1>0, <1>2, <2>1, <2>2, <2>3, <2>5, <3>1
         DEF connect_send_syn, SameStates, Goto
    <3> QED
      BY <3>2 DEF Step
  <2> QED
    BY <2>4, <2>5
<1>3. CASE close_send_fin(t)
  <2> DEFINE f == Call("remove", c)
  <2>1. c \in 1 .. allocated /\ thread[t].at = "fin"
    BY <1>0, <1>3 DEF close_send_fin, Active
  <2>2. \A s \in wire' : s \in wire \/ MaySend(s.conn)
    BY <1>3, <2>1, SendUsed DEF close_send_fin, send_fin
  <2>3. Move(thread[t], f)
    BY <2>1 DEF Move, Active, Call
  <2>4. SameStates(t, f)
    BY <1>0, <1>3, <2>1, <2>2, <2>3 DEF close_send_fin, SameStates, Goto
  <2> QED
    BY <2>4 DEF Step
<1>4. CASE remove_connection(t)
  <2>1. Move(thread[t], Idle)
    BY <1>4 DEF remove_connection, Move, Active, Idle, Call
  <2>2. SameStates(t, Idle)
    BY <1>0, <1>4, <2>1 DEF remove_connection, SameStates, Goto
  <2> QED
    BY <2>2 DEF Step
<1>5. CASE send_data_advance(t)
  <2>1. Move(thread[t], Idle)
    BY <1>5 DEF send_data_advance, Move, Active, Idle, Call
  <2>2. \A d \in ConnId : conn'[d].state = conn[d].state
    BY <1>5 DEF send_data_advance, TypeOK, TCPConnection
  <2>3. SameStates(t, Idle)
    BY <1>0, <1>5, <2>1, <2>2 DEF send_data_advance, SameStates, Goto
  <2> QED
    BY <2>3 DEF Step
<1>6. CASE handle_send_ack(t)
  <2> DEFINE r == IF thread[t].event = "FIN_RECEIVED"
                  THEN [conn[c] EXCEPT !.local_ack = SeqPlus(seg.seq, 1)]
                  ELSE conn[c]
  <2>1. c \in 1 .. allocated /\ c \in ConnId /\ ~Active(thread[t])
    BY <1>0, <1>6, Objects DEF handle_send_ack, Active
  <2>2. r.state = conn[c].state
    BY <2>1 DEF TypeOK, TCPConnection
  <2>3. conn' = [conn EXCEPT ![c] = r] /\ \E ok \in IpSend : send_segment(c, r, {"ACK"}, 0, ok)
    BY <1>6 DEF handle_send_ack, send_ack
  <2> HIDE DEF r
  <2>4. \A s \in wire' : s \in wire \/ MaySend(s.conn)
    BY <2>1, <2>2, <2>3, SendUsed
  <2>5. \A d \in ConnId : conn'[d].state = conn[d].state
    BY <2>1, <2>2, <2>3 DEF TypeOK
  <2>6. PICK f : thread' = [thread EXCEPT ![t] = f] /\ ~Active(f)
    BY <1>6, PayloadFrame DEF handle_send_ack
  <2>7. SameStates(t, f)
    BY <1>0, <1>6, <2>1, <2>4, <2>5, <2>6 DEF handle_send_ack, SameStates, Move
  <2> QED
    BY <2>7 DEF Step
<1>7. CASE handle_reset(t)
  <2>1. PICK f : thread' = [thread EXCEPT ![t] = f] /\ ~Active(f)
    BY <1>7, PayloadFrame DEF handle_reset
  <2>2. ~Active(thread[t])
    BY <1>7 DEF handle_reset, Active
  <2>3. SameStates(t, f)
    BY <1>0, <1>7, <2>1, <2>2 DEF handle_reset, SameStates, Move
  <2> QED
    BY <2>3 DEF Step
<1>8. CASE handle_data_segment(t)
  <2> DEFINE f == Call("receive", NoConn)
  <2>1. Move(thread[t], f)
    BY <1>8 DEF handle_data_segment, Move, Active, Call
  <2>2. /\ \A d \in ConnId : conn'[d].state = conn[d].state
        /\ \A s \in wire' : s \in wire \/ MaySend(s.conn)
    <3>1. ASSUME NEW d \in Receiver(seg), NEW ok \in IpSend,
                 NEW r, r = [conn[d] EXCEPT !.local_ack = SeqPlus(seg.seq, seg.len)],
                 conn' = [conn EXCEPT ![d] = r], send_ack(d, r, ok)
          PROVE  /\ \A e \in ConnId : conn'[e].state = conn[e].state
                 /\ \A s \in wire' : s \in wire \/ MaySend(s.conn)
      <4>1. d \in 1 .. allocated /\ d \in ConnId
        BY ReceiverType, Objects
      <4>2. r.state = conn[d].state
        BY <3>1, <4>1 DEF TypeOK, TCPConnection
      <4>3. \A e \in ConnId : conn'[e].state = conn[e].state
        BY <3>1, <4>1, <4>2 DEF TypeOK
      <4> QED
        BY <3>1, <4>1, <4>2, <4>3, SendUsed DEF send_ack
    <3> QED
      BY <1>8, <3>1 DEF handle_data_segment
  <2>3. SameStates(t, f)
    BY <1>0, <1>8, <2>1, <2>2 DEF handle_data_segment, SameStates, Goto
  <2> QED
    BY <2>3 DEF Step
<1> QED
  BY <1>1, <1>2, <1>3, <1>4, <1>5, <1>6, <1>7, <1>8 DEF Continue, Step

\* the receipt of a segment,
LEMMA ReceiveStep ==
  ASSUME TypeOK, TypeOK', Phases, NEW t \in Threads, NEW seg \in Arrivals,
         process_incoming_segment(t, seg)
  PROVE  Step(t)
<1>0. /\ conn' \in [ConnId -> TCPConnection]
      /\ seg \in Segment
      /\ \A c \in Receiver(seg) : c \in connections /\ c \in 1 .. allocated /\ c \in ConnId
  BY ReceiverType, Objects, ManagerAssumption DEF TypeOK
<1>1. thread[t].at = "receive" /\ ~Active(thread[t])
  BY DEF process_incoming_segment, handle_syn_segment, handle_syn_ack_segment,
         handle_ack_segment, handle_fin_segment, handle_rst_segment, handle_no_flag,
         HandleEvent, Dispatch, Active
<1>2. ASSUME NEW event \in {"SYN_ACK_RECEIVED", "ACK_RECEIVED", "FIN_RECEIVED",
                            "RST_RECEIVED"},
             \/ Payload(t, seg)
             \/ \E c \in Receiver(seg) : process_event(t, c, event, seg)
      PROVE  \E f : thread' = [thread EXCEPT ![t] = f] /\ Move(thread[t], f)
  <2>1. CASE Payload(t, seg)
    BY <1>1, <2>1, PayloadFrame DEF Move
  <2>2. CASE \E c \in Receiver(seg) : process_event(t, c, event, seg)
    BY <1>0, <1>1, <2>2, ProcessEventMove DEF ManagerEvent
  <2> QED
    BY <1>2, <2>1, <2>2
<1>3. CASE handle_syn_segment(t, seg)
  <2>1. PICK f : thread' = [thread EXCEPT ![t] = f] /\ ~Active(f)
    BY <1>3, PayloadFrame DEF handle_syn_segment
  <2>2. CASE UNCHANGED <<allocated, conn, connections, wire>>
    <3>1. SameStates(t, f)
      BY <1>0, <1>1, <1>3, <2>1, <2>2 DEF handle_syn_segment, Dispatch, SameStates, Move
    <3> QED
      BY <3>1 DEF Step
  <2>3. CASE ~UNCHANGED <<allocated, conn, connections, wire>>
    <3>1. PICK isn \in SeqNum, ok \in IpSend :
            LET r == [local |-> seg.dst, remote |-> seg.src, local_seq |-> isn,
                      local_ack |-> SeqPlus(seg.seq, 1),
                      state |-> transition("CLOSED", "SYN_RECEIVED")]
            IN Allocate(r) /\ send_syn_ack(allocated + 1, r, ok)
      BY <1>3, <2>3, ManagerAssumption DEF handle_syn_segment
    <3> DEFINE r == [local |-> seg.dst, remote |-> seg.src, local_seq |-> isn,
                     local_ack |-> SeqPlus(seg.seq, 1),
                     state |-> transition("CLOSED", "SYN_RECEIVED")]
    <3>2. Allocate(r) /\ send_segment(allocated + 1, r, {"SYN", "ACK"}, 0, ok)
      BY <3>1 DEF send_syn_ack
    <3>3. SeqPlus(seg.seq, 1) \in SeqNum
      BY <1>0, SeqPlusType DEF Segment
    <3>4. r.state = "CLOSED"
      BY DEF transition, FromClosed
    <3>5. r \in TCPConnection
      BY <1>0, <3>3, <3>4, Names DEF TCPConnection, Segment
    <3> HIDE DEF r
    <3>6. UNCHANGED <<handed, wire>>
      BY <1>3, <3>2, <3>4 DEF send_segment, Sends, can_send_data, handle_syn_segment, Dispatch
    <3>7. PICK new \in TCPConnection : new.state = "CLOSED" /\ Allocate(new)
      BY <3>2, <3>4, <3>5
    <3>8. ~Active(thread[t]) /\ ~Active(f) /\ UNCHANGED <<handed, wire>>
      BY <1>1, <2>1, <3>6
    <3> QED
      BY <2>1, <3>7, <3>8 DEF Pushes, Step
  <2> QED
    BY <2>2, <2>3
<1>4. CASE handle_syn_ack_segment(t, seg)
  <2>1. PICK f : thread' = [thread EXCEPT ![t] = f] /\ Move(thread[t], f)
    BY <1>2, <1>4 DEF handle_syn_ack_segment
  <2>2. \A d \in ConnId : conn'[d].state = conn[d].state
    BY <1>0, <1>4 DEF handle_syn_ack_segment, TypeOK, TCPConnection
  <2>3. SameStates(t, f)
    BY <1>0, <1>4, <2>1, <2>2 DEF handle_syn_ack_segment, Dispatch, SameStates
  <2> QED
    BY <2>3 DEF Step
<1>5. ASSUME NEW event \in {"ACK_RECEIVED", "FIN_RECEIVED", "RST_RECEIVED"},
             HandleEvent(t, seg, event)
      PROVE  Step(t)
  <2>1. PICK f : thread' = [thread EXCEPT ![t] = f] /\ Move(thread[t], f)
    BY <1>2, <1>5 DEF HandleEvent
  <2>2. SameStates(t, f)
    BY <1>0, <1>5, <2>1 DEF HandleEvent, Dispatch, SameStates
  <2> QED
    BY <2>2 DEF Step
<1>6. CASE handle_no_flag(t, seg)
  <2>1. PICK f : thread' = [thread EXCEPT ![t] = f] /\ ~Active(f)
    BY <1>6, PayloadFrame DEF handle_no_flag
  <2>2. SameStates(t, f)
    BY <1>0, <1>1, <1>6, <2>1 DEF handle_no_flag, Dispatch, SameStates, Move
  <2> QED
    BY <2>2 DEF Step
<1> QED
  BY <1>3, <1>4, <1>5, <1>6 DEF process_incoming_segment, handle_ack_segment,
                               handle_fin_segment, handle_rst_segment

\* and the end of the drain loop.
LEMMA AcceptStep ==
  ASSUME TypeOK, TypeOK', Phases, NEW t \in Threads, accept_return(t) PROVE Step(t)
<1>1. Move(thread[t], Idle)
  BY DEF accept_return, Move, Active, Idle, Call
<1>2. \A c \in handed' : c \in handed \/ MaySend(c)
  BY DEF accept_return, First, MaySend, can_send_data, is_established, TypeOK
<1>3. SameStates(t, Idle)
  BY <1>1, <1>2 DEF accept_return, SameStates, Goto, TypeOK
<1> QED
  BY <1>3 DEF Step

\* Every step of the manager is one of the three kinds.
LEMMA NextStep ==
  ASSUME TypeOK, Phases, Next PROVE TypeOK' /\ \E t \in Threads : Step(t)
<1>1. TypeOK'
  BY NextTypeOK
<1> QED
  BY <1>1, BeginStep, ContinueStep, ReceiveStep, AcceptStep DEF Next

\* Every step keeps the phases of the calls.
LEMMA NextPhases == TypeOK /\ Phases /\ [Next]_vars => Phases'
<1> SUFFICES ASSUME TypeOK, Phases, [Next]_vars PROVE Phases'
  OBVIOUS
<1>1. CASE UNCHANGED vars
  BY <1>1 DEF vars, Phases, CallsInPhase, WritesInPhase, TransientStates, UsedOnlyOnceOpened,
              Opens, Opened, Closes
<1>2. CASE Next
  BY <1>2, NextStep, MovesPhases, AllocatePhases, AssignPhases DEF Step
<1> QED
  BY <1>1, <1>2

\* A dead object stays dead: an event leaves it CLOSED, and what is written to
\* it is CLOSED.
LEMMA NextDead ==
  ASSUME TypeOK, Phases, [Next]_vars, NEW c \in ConnId, Dead(c) PROVE Dead(c)'
<1> USE DEF Opens, Active
<1>0. /\ c \in 1 .. allocated
      /\ conn[c].state = "CLOSED"
      /\ \A u \in Threads : thread[u].conn = c =>
           ~Opens(u) /\ (thread[u].at = "assign" => thread[u].to = "CLOSED")
  BY ManagerAssumption DEF Dead, TypeOK, ConnId
<1>1. CASE UNCHANGED vars
  BY <1>1 DEF vars, Dead
<1>2. ASSUME NEW t \in Threads, NEW f, SameStates(t, f) PROVE Dead(c)'
  <2>1. f.conn = c => /\ f.at # "open"
                      /\ f.at = "assign" => f.to = "CLOSED" /\ f.event # "ACTIVE_OPEN"
    <3>1. ASSUME NEW event \in ManagerEvent \ {"ACTIVE_OPEN"}, BeginsAssign(f, c, event)
          PROVE  f.at = "assign" /\ f.to = "CLOSED" /\ f.event # "ACTIVE_OPEN"
      BY <1>0, <3>1, TransitionFromClosed DEF BeginsAssign
    <3>2. f.conn = c /\ BeginsAssign(f, thread[t].conn, "ACTIVE_OPEN")
            => thread[t].at # "open"
      BY <1>0 DEF BeginsAssign
    <3> QED
      BY <1>2, <3>1, <3>2 DEF SameStates, Move, BeginsAssign
  <2>2. /\ conn'[c].state = "CLOSED"
        /\ allocated' = allocated
        /\ thread'[t] = f
        /\ \A u \in Threads : u # t => thread'[u] = thread[u]
    BY <1>0, <1>2 DEF SameStates, TypeOK
  <2> QED
    BY <1>0, <2>1, <2>2 DEF Dead
<1>3. ASSUME NEW t \in Threads, NEW f, NEW r \in TCPConnection, Pushes(t, f, r)
      PROVE  Dead(c)'
  <2>1. /\ conn'[c].state = "CLOSED"
        /\ c <= allocated'
        /\ thread'[t] = f
        /\ \A u \in Threads : u # t => thread'[u] = thread[u]
        /\ f.conn = c => ~Active(f)
    BY <1>0, <1>3, ManagerAssumption DEF Pushes, Allocate, TypeOK
  <2> QED
    BY <1>0, <2>1 DEF Dead
<1>4. ASSUME NEW t \in Threads, assign_state(t) PROVE Dead(c)'
  <2>1. /\ thread[t].event \in TCPEvent
        /\ thread[t].conn = c => thread[t].to = "CLOSED"
    BY <1>0, <1>4 DEF assign_state, TypeOK, Frame
  <2>2. PICK f : thread' = [thread EXCEPT ![t] = f] /\ f.at \notin {"open", "assign"}
    BY <1>4, <2>1, ResumeFrame DEF assign_state, After
  <2>3. conn'[c].state = "CLOSED" /\ allocated' = allocated
    BY <1>0, <1>4, <2>1 DEF assign_state, TypeOK, TCPConnection
  <2>4. /\ thread'[t] = f
        /\ \A u \in Threads : u # t => thread'[u] = thread[u]
    BY <2>2 DEF TypeOK
  <2> QED
    BY <1>0, <2>2, <2>3, <2>4 DEF Dead
<1> QED
  BY <1>1, <1>2, <1>3, <1>4, NextStep DEF Step

-----------------------------------------------------------------------------
(* The theorems *)

\* The invariant holds initially.
LEMMA InitIInv == Init => IInv
<1> SUFFICES ASSUME Init PROVE IInv
  OBVIOUS
<1>1. \A t \in Threads : thread[t].at = "idle"
  BY DEF Init, Idle, Call
<1>2. CallsInPhase
  BY <1>1 DEF CallsInPhase, WritesInPhase, Opens, Opened
<1> QED
  BY <1>2, InitTypeOK DEF Init, IInv, TransientStates, UsedOnlyOnceOpened

\* IInv is an invariant of the manager.
THEOREM Invariance == Spec => []IInv
<1>1. IInv /\ [Next]_vars => IInv'
  BY NextTypeOK, NextPhases DEF IInv, Phases
<1> QED
  BY <1>1, InitIInv, PTL DEF Spec

\* No connection is left in connections_ half open or half closed without a
\* holder or the call that removes it, however many threads and
\* connections there are and whatever segments arrive.
THEOREM NothingLeftBehind == Spec => []TransientStates
BY Invariance, PTL DEF IInv

\* What is handed to an application, or sends, has its opening behind it.
THEOREM UsedOnceOpened == Spec => []UsedOnlyOnceOpened
BY Invariance, PTL DEF IInv

\* Calls meet on an object only in the phases that CallsInPhase allows.
THEOREM PhasesOfCalls == Spec => []CallsInPhase
BY Invariance, PTL DEF IInv

\* A CLOSED object with no write under way is dead for good.
THEOREM ClosedForGood == Spec => ClosedIsFinal
<1>1. IInv /\ [Next]_vars => [\A c \in ConnId : Dead(c) => Dead(c)']_vars
  BY NextDead DEF IInv, Phases
<1> QED
  BY <1>1, Invariance, PTL DEF Spec, ClosedIsFinal
=============================================================================
