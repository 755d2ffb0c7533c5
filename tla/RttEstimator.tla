----------------------------- MODULE RttEstimator -----------------------------
(***************************************************************************)
(* The round-trip estimator of class TCPReliability, in milliseconds.  Its *)
(* members are independent of the rest of the class.  The weights 0.125    *)
(* and 0.25 are exact in binary, so a cast back to milliseconds is the     *)
(* integer quotient.                                                       *)
(***************************************************************************)
EXTENDS Integers

CONSTANTS
  Samples,     \* round-trip times that may be measured
  InitialRtos, \* values given to set_initial_rto
  MaxUpdates   \* bound: measurements in a behaviour

RTT_K == 4
RTT_G == 100
MinRto == 200
MaxRto == 60000

ASSUME RttAssumption ==
  /\ Samples \subseteq Nat
  /\ InitialRtos \subseteq Nat
  /\ MaxUpdates \in Nat

VARIABLES
  srtt_,
  rttvar_,
  rto_,
  updates,  \* history: measurements so far
  measured, \* history: the last one
  fastest,  \* history: the shortest of them
  slowest   \* history: the longest of them

vars == <<srtt_, rttvar_, rto_, updates, measured, fastest, slowest>>

Init ==
  /\ srtt_ = 0
  /\ rttvar_ = 0
  /\ rto_ = 1000
  /\ updates = 0
  /\ measured = 0
  /\ fastest = 0
  /\ slowest = 0

Larger(a, b) == IF a > b THEN a ELSE b
Smaller(a, b) == IF a < b THEN a ELSE b
Distance(a, b) == Larger(a - b, b - a)

calculate_rto(srtt, rttvar) ==
  Smaller(Larger(srtt + Larger(RTT_G, RTT_K * rttvar), MinRto), MaxRto)

\* RTT_BETA is 1/4 and RTT_ALPHA 1/8.  Mutants: a difference without its absolute
\* value, the weights swapped, an estimate that does not decay.
SignedVariation(rtt) == (3 * rttvar_ + (srtt_ - rtt)) \div 4
SlowVariation(rtt) == (7 * rttvar_ + Distance(srtt_, rtt)) \div 8
SmoothedVariation(rtt) == (3 * rttvar_ + Distance(srtt_, rtt)) \div 4
AccumulatedRtt(rtt) == srtt_ + rtt \div 8
SmoothedRtt(rtt) == (7 * srtt_ + rtt) \div 8

\* A smoothed time of 0 stands for "no measurement yet".
update_rtt(rtt) ==
  /\ updates < MaxUpdates
  /\ updates' = updates + 1
  /\ measured' = rtt
  /\ fastest' = IF updates = 0 THEN rtt ELSE Smaller(fastest, rtt)
  /\ slowest' = Larger(slowest, rtt)
  /\ IF srtt_ = 0
     THEN srtt_' = rtt /\ rttvar_' = rtt \div 2
     ELSE srtt_' = SmoothedRtt(rtt) /\ rttvar_' = SmoothedVariation(rtt)
  /\ rto_' = calculate_rto(srtt_', rttvar_')

\* A timeout to start with: the guard, that no measurement was taken, is the model's.
set_initial_rto(rto) ==
  /\ updates = 0
  /\ rto_' = rto
  /\ UNCHANGED <<srtt_, rttvar_, updates, measured, fastest, slowest>>

Next ==
  \/ \E rtt \in Samples : update_rtt(rtt)
  \/ \E rto \in InitialRtos : set_initial_rto(rto)

Spec == Init /\ [][Next]_vars
-----------------------------------------------------------------------------
\* Every variable has its type.
TypeOK ==
  /\ srtt_ \in Nat
  /\ rttvar_ \in Nat
  /\ rto_ \in Nat
  /\ updates \in 0 .. MaxUpdates
  /\ measured \in Nat
  /\ fastest \in Nat
  /\ slowest \in Nat

\* The timeout covers the last round trip, up to the cap: a segment answered as
\* fast as the one just measured is not retransmitted, however far the estimate
\* lagged behind and however the casts truncate.  (update_rtt, calculate_rto)
CoversLastRoundTrip == updates > 0 => rto_ >= Smaller(measured, MaxRto)

\* The estimate does not drift, however many measurements are smoothed into it and
\* however often it starts again at 0: it stays between the shortest and the longest
\* of them, and the timeout in proportion to the longest and to what lies between.
\* (update_rtt, calculate_rto)
DoesNotDrift ==
  updates > 0 =>
    /\ fastest <= srtt_ /\ srtt_ <= slowest
    /\ rto_ <= Larger(MinRto,
                      slowest + Larger(RTT_G, Larger(2 * slowest, 4 * (slowest - fastest))))

\* A measurement moves the estimate towards it and never past it, so one far
\* sample cannot make the estimate overshoot.  (update_rtt)
SrttMovesTowards ==
  [][updates' > updates =>
       \/ srtt_ <= srtt_' /\ srtt_' <= measured'
       \/ measured' <= srtt_' /\ srtt_' <= srtt_]_vars
==================================================
