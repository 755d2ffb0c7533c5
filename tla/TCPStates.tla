------------------------------ MODULE TCPStates ------------------------------
(***************************************************************************)
(* The TCP states, the events that drive them and the transition table of  *)
(* class TCPStateMachine.  The module has no variable: every component     *)
(* that owns a TCPStateMachine object keeps its current_state_ in a        *)
(* variable of its own and moves it with `transition'.                     *)
(***************************************************************************)

\* enum class TCPState
TCPState == {"CLOSED", "LISTEN", "SYN_SENT", "SYN_RECEIVED", "ESTABLISHED",
             "FIN_WAIT_1", "FIN_WAIT_2", "CLOSE_WAIT", "CLOSING", "LAST_ACK",
             "TIME_WAIT"}

\* enum class TCPEvent
TCPEvent == {"PASSIVE_OPEN", "ACTIVE_OPEN", "SYN_RECEIVED", "SYN_ACK_RECEIVED",
             "ACK_RECEIVED", "FIN_RECEIVED", "CLOSE", "TIMEOUT", "RST_RECEIVED"}

\* The case of a CLOSED machine, and what it would be without its default: a
\* switch that runs into the next cases.
FromClosedFallingThrough(event) ==
  CASE event = "PASSIVE_OPEN"     -> "LISTEN"
    [] event = "ACTIVE_OPEN"      -> "SYN_SENT"
    [] event = "SYN_RECEIVED"     -> "SYN_RECEIVED"
    [] event = "SYN_ACK_RECEIVED" -> "ESTABLISHED"
    [] OTHER                      -> "CLOSED"

FromClosed(event) ==
  CASE event = "PASSIVE_OPEN" -> "LISTEN"
    [] event = "ACTIVE_OPEN"  -> "SYN_SENT"
    [] OTHER                  -> "CLOSED"

\* TCPStateMachine::transition: an event a state does not name changes nothing.
transition(current, event) ==
  CASE current = "CLOSED"                                    -> FromClosed(event)
    [] current = "LISTEN" /\ event = "SYN_RECEIVED"           -> "SYN_RECEIVED"
    [] current = "LISTEN" /\ event = "CLOSE"                  -> "CLOSED"
    [] current = "SYN_SENT" /\ event = "SYN_ACK_RECEIVED"     -> "ESTABLISHED"
    [] current = "SYN_SENT" /\ event = "SYN_RECEIVED"         -> "SYN_RECEIVED"
    [] current = "SYN_SENT" /\ event \in {"CLOSE", "TIMEOUT"} -> "CLOSED"
    [] current = "SYN_RECEIVED" /\ event = "ACK_RECEIVED"     -> "ESTABLISHED"
    [] current = "SYN_RECEIVED" /\ event = "CLOSE"            -> "CLOSED"
    [] current = "ESTABLISHED" /\ event = "CLOSE"             -> "FIN_WAIT_1"
    [] current = "ESTABLISHED" /\ event = "FIN_RECEIVED"      -> "CLOSE_WAIT"
    [] current = "FIN_WAIT_1" /\ event = "ACK_RECEIVED"       -> "FIN_WAIT_2"
    [] current = "FIN_WAIT_1" /\ event = "FIN_RECEIVED"       -> "CLOSING"
    [] current = "FIN_WAIT_2" /\ event = "FIN_RECEIVED"       -> "TIME_WAIT"
    [] current = "CLOSE_WAIT" /\ event = "CLOSE"              -> "LAST_ACK"
    [] current = "CLOSING" /\ event = "ACK_RECEIVED"          -> "TIME_WAIT"
    [] current = "LAST_ACK" /\ event = "ACK_RECEIVED"         -> "CLOSED"
    [] current = "TIME_WAIT" /\ event = "TIMEOUT"             -> "CLOSED"
    [] current \notin {"CLOSED", "LISTEN"} /\ event = "RST_RECEIVED" -> "CLOSED"
    [] OTHER                                                  -> current

is_established(state) == state = "ESTABLISHED"

can_send_data(state) == state \in {"ESTABLISHED", "CLOSE_WAIT"}

can_receive_data(state) == state \in {"ESTABLISHED", "FIN_WAIT_1", "FIN_WAIT_2"}

=============================================================================
