---------------------------- MODULE TCPStateMachine ----------------------------
(***************************************************************************)
(* One TCPStateMachine object driven by one thread, as the test suite and  *)
(* any user of the class alone drives it.  Objects shared by threads are   *)
(* in TCPConnectionManager, where process_event is two steps.              *)
(***************************************************************************)
EXTENDS TCPStates

VARIABLE current_state_

Init == current_state_ = "CLOSED"

process_event(event) == current_state_' = transition(current_state_, event)

reset == current_state_' = "CLOSED"

Next == (\E event \in TCPEvent : process_event(event)) \/ reset

Spec == Init /\ [][Next]_current_state_
-----------------------------------------------------------------------------
\* README "RFC 793 compliant state transitions": RFC 793 answers a CLOSE in
\* SYN-RECEIVED as it does in ESTABLISHED, with a FIN and FIN-WAIT-1.
\* (TCPStateMachine::transition)
CloseOfHalfOpenSendsFin ==
  [][current_state_ = "SYN_RECEIVED" /\ process_event("CLOSE")
       => current_state_' = "FIN_WAIT_1"]_current_state_
=============================================================================
