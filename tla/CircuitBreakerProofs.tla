------------------------ MODULE CircuitBreakerProofs ------------------------
(***************************************************************************)
(* Proofs about CircuitBreaker for every number of concurrent calls of any *)
(* length, every threshold and every cooling-off period.                   *)
(***************************************************************************)
EXTENDS CircuitBreaker, TLAPS

LEMMA TypeOKInit == Init => TypeOK
<1> SUFFICES ASSUME Init PROVE TypeOK
  OBVIOUS
<1>1. 0 \in 0..FailureThreshold /\ 0 \in 0..OpenDuration
  BY BreakerAssumption
<1>2. call \in [Calls -> CallState] /\ age \in [Calls -> 0..OpenDuration]
  BY <1>1 DEF Init, CallState
<1>3. halfOpenInFlight \in BOOLEAN
  BY DEF Init
<1>4. QED
  BY <1>1, <1>2, <1>3 DEF Init, TypeOK, BreakerState

LEMMA TypeOKStep == TypeOK /\ [Next]_vars => TypeOK'
<1> SUFFICES ASSUME TypeOK, [Next]_vars PROVE TypeOK'
  OBVIOUS
<1> USE BreakerAssumption DEF BreakerState, CallState
<1>1. currentState \in BreakerState /\ ProbeInFlight \in BOOLEAN
  BY DEF TypeOK, currentState, ProbeInFlight
<1>2. CASE Observe
  BY <1>1, <1>2 DEF Observe, TypeOK
<1>3. CASE Tick
  <2>1. cooling' \in 0..OpenDuration
    BY <1>3 DEF Tick, TypeOK
  <2>2. age' \in [Calls -> 0..OpenDuration]
    BY <1>3 DEF Tick, TypeOK, Older
  <2>3. QED
    BY <1>3, <2>1, <2>2 DEF Tick, TypeOK
<1>4. ASSUME NEW c \in Calls, Execute(c)
      PROVE  TypeOK'
  BY <1>1, <1>4 DEF Execute, TypeOK
<1>5. ASSUME NEW c \in Calls, Settle(c)
      PROVE  TypeOK'
  <2>1. Failures \in 0..FailureThreshold
    BY DEF TypeOK, Failures
  <2>2. call' \in [Calls -> CallState] /\ age' \in [Calls -> 0..OpenDuration]
    BY <1>5 DEF Settle, Succeed, Fail, Settled, TypeOK
  <2>3. halfOpenInFlight' \in BOOLEAN
    BY <1>5 DEF Settle, Succeed, Fail, recordSuccess, recordFailure
  <2>4. state' \in BreakerState
    BY <1>5 DEF Settle, Succeed, Fail, recordSuccess, recordFailure, TypeOK
  <2>5. consecutiveFailures' \in 0..FailureThreshold /\ cooling' \in 0..OpenDuration
    BY <1>5, <2>1 DEF Settle, Succeed, Fail, recordSuccess, recordFailure, TypeOK
  <2>6. QED
    BY <2>2, <2>3, <2>4, <2>5 DEF TypeOK
<1>6. CASE UNCHANGED vars
  BY <1>6 DEF vars, TypeOK
<1>7. QED
  BY <1>2, <1>3, <1>4, <1>5, <1>6 DEF Next

\* The breaker's state always has its type, the failure count included.
THEOREM TypeCorrect == Spec => []TypeOK
BY TypeOKInit, TypeOKStep, PTL DEF Spec

-----------------------------------------------------------------------------
(* The failure count and the half-open gate.                               *)

LEMMA GateInvStep == TypeOK /\ GateInv /\ [Next]_vars => GateInv'
<1> SUFFICES ASSUME TypeOK, GateInv, [Next]_vars PROVE GateInv'
  OBVIOUS
<1> USE BreakerAssumption DEF GateInv
<1>1. CASE Observe
  BY <1>1 DEF Observe, TypeOK, ClosedBelowThreshold, ShutGateHasProbe, Probes,
              currentState, ProbeInFlight, Elapsed
<1>2. CASE Tick
  BY <1>2 DEF Tick, ClosedBelowThreshold, ShutGateHasProbe, Probes
<1>3. ASSUME NEW c \in Calls, Execute(c)
      PROVE  GateInv'
  <2>0. halfOpenInFlight' => currentState = "half-open"
    BY <1>3 DEF Execute, ProbeInFlight, currentState
  <2>1. ClosedBelowThreshold'
    BY <1>3 DEF Execute, ClosedBelowThreshold, currentState, Elapsed
  <2>2. ShutGateHasProbe'
    <3>1. halfOpenInFlight' => call'[c] = "probe"
      BY <1>3, <2>0 DEF Execute, TypeOK
    <3>2. QED
      BY <3>1 DEF ShutGateHasProbe, Probes
  <2>3. QED
    BY <1>3, <2>0, <2>1, <2>2 DEF Execute
<1>4. ASSUME NEW c \in Calls, Settle(c)
      PROVE  GateInv'
  <2>1. ~halfOpenInFlight'
    BY <1>4 DEF Settle, Succeed, Fail, recordSuccess, recordFailure
  <2>2. ClosedBelowThreshold'
    BY <1>4 DEF Settle, Succeed, Fail, recordSuccess, recordFailure, TypeOK,
                ClosedBelowThreshold, Failures, BreakerState
  <2>3. QED
    BY <2>1, <2>2 DEF ShutGateHasProbe
<1>5. CASE UNCHANGED vars
  BY <1>5 DEF vars, ClosedBelowThreshold, ShutGateHasProbe, Probes
<1>6. QED
  BY <1>1, <1>2, <1>3, <1>4, <1>5 DEF Next

LEMMA GateInvHolds == Spec => []GateInv
<1>1. Init => GateInv
  BY BreakerAssumption DEF Init, GateInv, ClosedBelowThreshold, ShutGateHasProbe
<1>2. QED
  BY <1>1, GateInvStep, TypeCorrect, PTL DEF Spec

\* A breaker that lets every call through has fewer failures on record than
\* would open it, in whatever order its calls settle.
THEOREM ClosedBelowThresholdHolds == Spec => []ClosedBelowThreshold
<1>1. GateInv => ClosedBelowThreshold
  BY DEF GateInv
<1>2. QED
  BY <1>1, GateInvHolds, PTL

\* The half-open gate is never left shut without a probe that will open it.
THEOREM ShutGateHasProbeHolds == Spec => []ShutGateHasProbe
<1>1. GateInv => ShutGateHasProbe
  BY DEF GateInv
<1>2. QED
  BY <1>1, GateInvHolds, PTL

-----------------------------------------------------------------------------
(* The age of the calls that meet a recovering upstream.                   *)

LEMMA AgesStep ==
  ASSUME TypeOK, GateInv, AgesInv, [Next]_vars
  PROVE  AgesInv'
<1> USE BreakerAssumption DEF AgesInv
<1>0. \A c \in Calls : age[c] \in 0..OpenDuration
  BY DEF TypeOK
\* Once the period has elapsed, what is in flight is as old.
<1>1. Elapsed => \A c \in InFlight : age[c] = OpenDuration
  BY <1>0 DEF Elapsed, InFlight, TypeOK
<1>2. CASE Observe
  <2>1. UNCHANGED <<age, cooling>> /\ InFlight' = InFlight /\ Probes' = Probes
    BY <1>2 DEF Observe, InFlight, Probes
  <2>2. QED
    BY <1>1, <1>2, <2>1 DEF Observe, currentState, ProbeInFlight, Elapsed, Apart,
                            HalfOpenMeetsOneRecentCall, ProbesAreAPeriodApart
<1>3. CASE Tick
  <2>1. /\ UNCHANGED <<state, halfOpenInFlight>>
        /\ InFlight' = InFlight /\ Probes' = Probes /\ Probes \subseteq InFlight
    BY <1>3 DEF Tick, InFlight, Probes
  <2>2. \A c \in InFlight : age'[c] = Older(c)
    BY <1>3 DEF Tick, InFlight
  <2>3. \A c \in InFlight : age[c] = OpenDuration => age'[c] = OpenDuration
    BY <2>2 DEF Older
  <2>4. state = "open" => \A c \in InFlight : age'[c] + cooling' >= OpenDuration
    BY <1>0, <1>3, <2>2 DEF Tick, Older, InFlight, TypeOK
  <2>5. QED
    BY <2>1, <2>3, <2>4 DEF HalfOpenMeetsOneRecentCall, ProbesAreAPeriodApart, Apart
<1>4. ASSUME NEW c \in Calls, Execute(c)
      PROVE  AgesInv'
  <2>1. /\ InFlight' = InFlight \cup {c}
        /\ \A d \in InFlight : age'[d] = age[d]
        /\ UNCHANGED cooling
    BY <1>4 DEF Execute, InFlight, TypeOK, CallState
  <2>2. CASE currentState = "half-open"
    <3>1. \A d \in InFlight : age[d] = OpenDuration
      BY <1>1, <1>4, <2>2 DEF Execute, Admits, currentState, Elapsed, ProbeInFlight
    <3>2. \A d, e \in InFlight' : d # e => Apart(d, e)'
      BY <2>1, <3>1 DEF Apart
    <3>3. state' = "half-open" /\ halfOpenInFlight' /\ Probes' \subseteq InFlight'
      BY <1>4, <2>2 DEF Execute, Probes, InFlight
    <3>4. QED
      BY <3>2, <3>3 DEF HalfOpenMeetsOneRecentCall, ProbesAreAPeriodApart
  <2>3. CASE currentState = "closed"
    <3>1. state' = "closed" /\ Probes' = Probes /\ Probes \subseteq InFlight
      BY <1>4, <2>3 DEF Execute, Probes, InFlight, TypeOK
    <3>2. QED
      BY <2>1, <3>1 DEF HalfOpenMeetsOneRecentCall, ProbesAreAPeriodApart, Apart
  <2>4. QED
    BY <1>4, <2>2, <2>3 DEF Execute, Admits
<1>5. ASSUME NEW c \in Calls, Settle(c)
      PROVE  AgesInv'
  <2>1. /\ InFlight' = InFlight \ {c}
        /\ Probes' = Probes \ {c}
        /\ \A d \in InFlight' : age'[d] = age[d]
        /\ Probes \subseteq InFlight
    BY <1>5 DEF Settle, Succeed, Fail, Settled, InFlight, Probes, TypeOK
  <2>2. ProbesAreAPeriodApart'
    BY <2>1 DEF ProbesAreAPeriodApart, Apart
  <2>3. CASE state' = "open" /\ cooling' = OpenDuration
    <3>1. \A d \in InFlight' : age'[d] + cooling' >= OpenDuration
      BY <1>0, <2>1, <2>3 DEF InFlight
    <3>2. QED
      BY <2>2, <2>3, <3>1 DEF HalfOpenMeetsOneRecentCall
  <2>4. CASE state' = "closed"
    BY <2>2, <2>4 DEF HalfOpenMeetsOneRecentCall
  <2>5. CASE UNCHANGED <<state, cooling>> /\ state # "half-open"
    BY <2>1, <2>2, <2>5 DEF HalfOpenMeetsOneRecentCall
  <2>6. QED
    BY <1>5, <2>3, <2>4, <2>5 DEF Settle, Succeed, Fail, recordSuccess, recordFailure
<1>6. CASE UNCHANGED vars
  BY <1>6 DEF vars, InFlight, Probes, Apart, HalfOpenMeetsOneRecentCall, ProbesAreAPeriodApart
<1>7. QED
  BY <1>2, <1>3, <1>4, <1>5, <1>6 DEF Next

LEMMA AgesInvHolds == Spec => []AgesInv
<1>1. Init => AgesInv
  BY DEF Init, AgesInv, InFlight, Probes, HalfOpenMeetsOneRecentCall, ProbesAreAPeriodApart
<1>2. TypeOK /\ GateInv /\ AgesInv /\ [Next]_vars => AgesInv'
  BY AgesStep
<1>3. QED
  BY <1>1, <1>2, TypeCorrect, GateInvHolds, PTL DEF Spec

\* However long calls last and in whatever order they settle, two probes in
\* flight were let through a cooling-off period apart.
THEOREM ProbesAreAPeriodApartHolds == Spec => []ProbesAreAPeriodApart
<1>1. AgesInv => ProbesAreAPeriodApart
  BY DEF AgesInv
<1>2. QED
  BY <1>1, AgesInvHolds, PTL

\* While the breaker is half-open at most one call in flight is younger than a
\* cooling-off period.
THEOREM HalfOpenMeetsOneRecentCallHolds == Spec => []HalfOpenMeetsOneRecentCall
<1>1. AgesInv => HalfOpenMeetsOneRecentCall
  BY DEF AgesInv
<1>2. QED
  BY <1>1, AgesInvHolds, PTL
=============================================================================
