-------------------------- MODULE RttEstimatorProofs --------------------------
(***************************************************************************)
(* Proofs of the properties of RttEstimator.                               *)
(***************************************************************************)
EXTENDS RttEstimator, TLAPS

\* The smoothed values of natural numbers are natural numbers, and the smoothed
\* time lies between the old one and the measurement.
LEMMA Smoothing ==
  ASSUME srtt_ \in Nat, rttvar_ \in Nat, NEW rtt \in Nat
  PROVE  /\ SmoothedRtt(rtt) \in Nat
         /\ SmoothedVariation(rtt) \in Nat
         /\ \/ srtt_ <= SmoothedRtt(rtt) /\ SmoothedRtt(rtt) <= rtt
            \/ rtt <= SmoothedRtt(rtt) /\ SmoothedRtt(rtt) <= srtt_
  BY DEF SmoothedRtt, SmoothedVariation, Distance, Larger

\* The timeout computed from an estimate just updated covers the measurement.
LEMMA Coverage ==
  ASSUME srtt_ \in Nat, rttvar_ \in Nat, NEW rtt \in Nat
  PROVE  /\ calculate_rto(rtt, rtt \div 2) \in Nat
         /\ calculate_rto(rtt, rtt \div 2) >= Smaller(rtt, MaxRto)
         /\ calculate_rto(SmoothedRtt(rtt), SmoothedVariation(rtt)) \in Nat
         /\ calculate_rto(SmoothedRtt(rtt), SmoothedVariation(rtt)) >= Smaller(rtt, MaxRto)
<1> USE DEF calculate_rto, Larger, Smaller, MinRto, MaxRto, RTT_K, RTT_G
<1>1. /\ calculate_rto(rtt, rtt \div 2) \in Nat
      /\ calculate_rto(rtt, rtt \div 2) >= Smaller(rtt, MaxRto)
  OBVIOUS
<1>2. PICK s \in Nat, v \in Nat : s = SmoothedRtt(rtt) /\ v = SmoothedVariation(rtt)
  BY Smoothing
<1>3. 8 * s >= 7 * srtt_ + rtt - 7
  BY <1>2 DEF SmoothedRtt
<1>4. 4 * v >= rtt - srtt_ - 3
  BY <1>2 DEF SmoothedVariation, Distance
<1>5. calculate_rto(s, v) \in Nat /\ calculate_rto(s, v) >= Smaller(rtt, MaxRto)
  BY <1>3, <1>4
<1> QED
  BY <1>1, <1>2, <1>5

\* An update keeps the types and leaves a timeout that covers the measurement.
LEMMA UpdateStep ==
  ASSUME TypeOK, NEW rtt \in Samples, update_rtt(rtt)
  PROVE  /\ TypeOK'
         /\ rto_' >= Smaller(measured', MaxRto)
         /\ \/ srtt_ <= srtt_' /\ srtt_' <= measured'
            \/ measured' <= srtt_' /\ srtt_' <= srtt_
<1>1. /\ rtt \in Nat /\ updates' \in 0 .. MaxUpdates
      /\ fastest' \in Nat /\ slowest' \in Nat
  BY RttAssumption DEF update_rtt, TypeOK, Smaller, Larger
<1>2. CASE srtt_ = 0
  BY <1>1, <1>2, Coverage DEF update_rtt, TypeOK
<1>3. CASE srtt_ # 0
  BY <1>1, <1>3, Coverage, Smoothing DEF update_rtt, TypeOK
<1> QED
  BY <1>2, <1>3

\* What keeps the timeout in proportion: the variation is at most half a first
\* measurement, or as much as two measurements differ.
VariationInProportion ==
  updates > 0 => rttvar_ <= Larger(slowest \div 2, slowest - fastest)

\* Before the first measurement there is no estimate.
NeverMeasured == updates = 0 => srtt_ = 0

IInv == TypeOK /\ NeverMeasured /\ CoversLastRoundTrip /\ DoesNotDrift /\ VariationInProportion

\* Numbers between two others, smoothed, lie between them.
LEMMA SmoothedBetween ==
  ASSUME NEW low \in Nat, NEW high \in Nat, NEW rtt \in low .. high,
         srtt_ \in low .. high, rttvar_ \in Nat,
         rttvar_ <= Larger(high \div 2, high - low)
  PROVE  /\ SmoothedRtt(rtt) \in low .. high
         /\ SmoothedVariation(rtt) <= Larger(high \div 2, high - low)
<1>1. SmoothedRtt(rtt) \in low .. high
  BY DEF SmoothedRtt
<1>2. PICK d \in Nat : d = Distance(srtt_, rtt) /\ d <= high - low
  <2>1. Distance(srtt_, rtt) \in Nat /\ Distance(srtt_, rtt) <= high - low
    BY DEF Distance, Larger
  <2> QED BY <2>1
<1>3. PICK v \in Nat : v = Larger(high \div 2, high - low) /\ high - low <= v
  <2>1. /\ Larger(high \div 2, high - low) \in Nat
        /\ high - low <= Larger(high \div 2, high - low)
    BY DEF Larger
  <2> QED BY <2>1
<1>4. (3 * rttvar_ + d) \div 4 <= v
  BY <1>2, <1>3
<1> QED BY <1>1, <1>2, <1>3, <1>4 DEF SmoothedVariation

\* A first measurement is in proportion, and a wider range leaves what was so.
LEMMA HalfInProportion ==
  ASSUME NEW low \in Nat, NEW high \in Nat, NEW rtt \in low .. high
  PROVE  rtt \div 2 \in Nat /\ rtt \div 2 <= Larger(high \div 2, high - low)
<1>1. rtt \div 2 \in Nat /\ high \div 2 \in Nat /\ rtt \div 2 <= high \div 2
  OBVIOUS
<1> QED BY <1>1 DEF Larger

LEMMA WiderRange ==
  ASSUME NEW low \in Nat, NEW high \in Nat, NEW lower \in Nat, NEW higher \in Nat,
         lower <= low, high <= higher,
         NEW v \in Nat, v <= Larger(high \div 2, high - low)
  PROVE  v <= Larger(higher \div 2, higher - lower)
<1>1. high \div 2 \in Nat /\ higher \div 2 \in Nat /\ high \div 2 <= higher \div 2
  OBVIOUS
<1> QED BY <1>1 DEF Larger

\* The timeout of an estimate in proportion is in proportion.
LEMMA TimeoutInProportion ==
  ASSUME NEW low \in Nat, NEW high \in Nat, low <= high, NEW s \in low .. high,
         NEW v \in Nat, v <= Larger(high \div 2, high - low)
  PROVE  calculate_rto(s, v)
           <= Larger(MinRto,
                     high + Larger(RTT_G, Larger(2 * high, 4 * (high - low))))
<1>1. PICK w \in Nat : w = Larger(2 * high, 4 * (high - low)) /\ 4 * v <= w
  <2>1. /\ Larger(2 * high, 4 * (high - low)) \in Nat
        /\ 4 * v <= Larger(2 * high, 4 * (high - low))
    BY DEF Larger
  <2> QED BY <2>1
<1> QED
  BY <1>1 DEF calculate_rto, Larger, Smaller, MinRto, MaxRto, RTT_K, RTT_G

\* An update keeps the estimate between the shortest and the longest measurement.
LEMMA UpdateStays ==
  ASSUME IInv, NEW rtt \in Samples, update_rtt(rtt)
  PROVE  DoesNotDrift' /\ VariationInProportion'
<1>1. /\ srtt_ \in Nat /\ rttvar_ \in Nat /\ updates \in Nat
      /\ fastest \in Nat /\ slowest \in Nat /\ rtt \in Nat
  BY RttAssumption DEF IInv, TypeOK
<1>2. /\ updates' = updates + 1
      /\ fastest' = IF updates = 0 THEN rtt ELSE Smaller(fastest, rtt)
      /\ slowest' = Larger(slowest, rtt)
      /\ rto_' = calculate_rto(srtt_', rttvar_')
  BY DEF update_rtt
<1>3. /\ fastest' \in Nat /\ slowest' \in Nat
      /\ rtt \in fastest' .. slowest'
  BY <1>1, <1>2 DEF Smaller, Larger
<1>4. /\ srtt_' \in fastest' .. slowest' /\ rttvar_' \in Nat
      /\ rttvar_' <= Larger(slowest' \div 2, slowest' - fastest')
  <2>1. CASE srtt_ = 0
    <3>1. srtt_' = rtt /\ rttvar_' = rtt \div 2
      BY <2>1 DEF update_rtt
    <3> QED BY <1>3, <3>1, HalfInProportion
  <2>2. CASE srtt_ # 0
    <3>1. srtt_' = SmoothedRtt(rtt) /\ rttvar_' = SmoothedVariation(rtt)
      BY <2>2 DEF update_rtt
    <3>2. /\ updates > 0 /\ srtt_ \in fastest .. slowest
          /\ rttvar_ <= Larger(slowest \div 2, slowest - fastest)
      BY <1>1, <2>2 DEF IInv, NeverMeasured, DoesNotDrift, VariationInProportion
    <3>3. /\ fastest' <= fastest /\ slowest <= slowest'
      BY <1>1, <1>2, <3>2 DEF Smaller, Larger
    <3>4. /\ srtt_ \in fastest' .. slowest'
          /\ rttvar_ <= Larger(slowest' \div 2, slowest' - fastest')
      <4>1. srtt_ \in fastest' .. slowest'
        BY <1>1, <1>3, <3>2, <3>3
      <4>2. rttvar_ <= Larger(slowest' \div 2, slowest' - fastest')
        BY <1>1, <1>3, <3>2, <3>3, WiderRange
      <4> QED BY <4>1, <4>2
    <3>5. SmoothedVariation(rtt) \in Nat
      BY <1>1, Smoothing
    <3> QED BY <1>1, <1>3, <3>1, <3>4, <3>5, SmoothedBetween
  <2> QED BY <2>1, <2>2
<1>5. rto_' <= Larger(MinRto,
                 slowest' + Larger(RTT_G, Larger(2 * slowest', 4 * (slowest' - fastest'))))
  <2>1. fastest' <= slowest'
    BY <1>3
  <2>2. calculate_rto(srtt_', rttvar_')
          <= Larger(MinRto,
                    slowest' + Larger(RTT_G, Larger(2 * slowest', 4 * (slowest' - fastest'))))
    BY <1>3, <1>4, <2>1, TimeoutInProportion
  <2> QED BY <1>2, <2>2
<1> QED BY <1>3, <1>4, <1>5 DEF DoesNotDrift, VariationInProportion

\* Every step keeps the types and the coverage of the last measurement.
LEMMA NextInvariant == IInv /\ [Next]_vars => IInv'
<1> SUFFICES ASSUME IInv, [Next]_vars PROVE IInv'
  OBVIOUS
<1> USE DEF IInv
<1>1. CASE \E rtt \in Samples : update_rtt(rtt)
  <2>1. PICK rtt \in Samples : update_rtt(rtt)
    BY <1>1
  <2>2. TypeOK' /\ CoversLastRoundTrip'
    BY <2>1, UpdateStep DEF CoversLastRoundTrip, Smaller
  <2>3. NeverMeasured'
    BY <2>1 DEF update_rtt, TypeOK, NeverMeasured
  <2> QED BY <2>1, <2>2, <2>3, UpdateStays
<1>2. CASE \E rto \in InitialRtos : set_initial_rto(rto)
  BY <1>2, RttAssumption
     DEF set_initial_rto, TypeOK, CoversLastRoundTrip, NeverMeasured, DoesNotDrift,
         VariationInProportion
<1>3. CASE UNCHANGED vars
  BY <1>3 DEF vars, TypeOK, CoversLastRoundTrip, NeverMeasured, DoesNotDrift,
              VariationInProportion, Smaller
<1> QED
  BY <1>1, <1>2, <1>3 DEF Next

\* The invariant holds in every behaviour.
LEMMA Invariance == Spec => []IInv
<1>1. Init => IInv
  BY RttAssumption
     DEF Init, IInv, TypeOK, CoversLastRoundTrip, NeverMeasured, DoesNotDrift,
         VariationInProportion
<1> QED
  BY <1>1, NextInvariant, PTL DEF Spec

\* Every variable keeps its type, for every sequence of measurements.
THEOREM TypeCorrect == Spec => []TypeOK
  BY Invariance, PTL DEF IInv

\* The timeout covers the last round trip measured, for every sequence of
\* measurements.
THEOREM TimeoutCovers == Spec => []CoversLastRoundTrip
  BY Invariance, PTL DEF IInv

\* The estimate and the timeout do not drift away from what is measured, for every
\* number of measurements of any length.
THEOREM EstimateDoesNotDrift == Spec => []DoesNotDrift
  BY Invariance, PTL DEF IInv

\* Every measurement moves the estimate towards itself and not past.
THEOREM EstimateMovesTowards == Spec => SrttMovesTowards
<1>1. IInv /\ [Next]_vars
        => [updates' > updates =>
              \/ srtt_ <= srtt_' /\ srtt_' <= measured'
              \/ measured' <= srtt_' /\ srtt_' <= srtt_]_vars
  <2> SUFFICES ASSUME TypeOK, [Next]_vars, updates' > updates
               PROVE  \/ srtt_ <= srtt_' /\ srtt_' <= measured'
                      \/ measured' <= srtt_' /\ srtt_' <= srtt_
    BY DEF IInv
  <2>1. \E rtt \in Samples : update_rtt(rtt)
    BY DEF Next, set_initial_rto, vars, TypeOK
  <2> QED
    BY <2>1, UpdateStep
<1> QED
  BY <1>1, Invariance, PTL DEF Spec, SrttMovesTowards
=============================================================================
