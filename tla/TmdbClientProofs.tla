-------------------------- MODULE TmdbClientProofs --------------------------
(***************************************************************************)
(* Proofs about TmdbClient for every number of requests and attempts and   *)
(* every choice of its times: that the requests keep their budget, that    *)
(* the breaker they share is the one of CircuitBreaker, and, with it, what *)
(* CircuitBreakerProofs shows of every such breaker.                       *)
(***************************************************************************)
EXTENDS TmdbClient, TLAPS

\* The types of what belongs to the requests, and of their calls of the breaker.
RequestTypes ==
  /\ call \in [Requests -> Breaker!CallState]
  /\ phase \in [Requests -> Phase]
  /\ attempt \in [Requests -> 0..MaxAttempts - 1]
  /\ timer \in [Requests -> Nat]
  /\ elapsed \in [Requests -> 0..Horizon]
  /\ settled \in Outcome
  /\ hostFailed \in BOOLEAN

RInv == RequestTypes /\ RequestsInv

LEMMA HorizonIs ==
  Horizon \in Nat /\ OpenDuration <= Horizon /\ TotalBudget < Horizon
BY ClientAssumption DEF Horizon

-----------------------------------------------------------------------------
(* A step of a request either leads it from one wait to the next, within   *)
(* its budget, or ends it and tells the breaker.                           *)

GoesOn(r) ==
  /\ phase[r] # "idle"
  /\ UNCHANGED <<breakerVars, elapsed>>
  /\ \E p \in Phase \ {"idle"}, t \in Nat, a \in 0..MaxAttempts - 1 :
       /\ p = "backoff" => elapsed[r] + t <= TotalBudget /\ a < MaxAttempts - 1
       /\ phase' = [phase EXCEPT ![r] = p]
       /\ timer' = [timer EXCEPT ![r] = t]
       /\ attempt' = [attempt EXCEPT ![r] = a]

Ends(r) ==
  /\ phase[r] # "idle"
  /\ Breaker!recordSuccess \/ Breaker!recordFailure
  /\ Leave(r)

LEMMA RetryGoesOnOrEnds ==
  ASSUME RInv, NEW r \in Requests, phase[r] = "fetch",
         NEW delay \in Nat, RetryOrThrow(r, delay)
  PROVE  GoesOn(r) \/ Ends(r)
<1>1. CASE attempt[r] = MaxAttempts - 1 \/ elapsed[r] + delay > TotalBudget
  BY <1>1 DEF RetryOrThrow, Throw, Ends
<1>2. CASE ~(attempt[r] = MaxAttempts - 1 \/ elapsed[r] + delay > TotalBudget)
  <2>1. /\ phase' = [phase EXCEPT ![r] = "backoff"]
        /\ timer' = [timer EXCEPT ![r] = delay]
        /\ UNCHANGED <<breakerVars, attempt, elapsed>>
    BY <1>2 DEF RetryOrThrow, Await
  <2>2. attempt[r] \in 0..MaxAttempts - 1 /\ elapsed[r] \in Nat
    BY HorizonIs DEF RInv, RequestTypes
  <2>3. elapsed[r] + delay <= TotalBudget /\ attempt[r] < MaxAttempts - 1
    BY <1>2, <2>2, ClientAssumption
  <2>4. attempt' = [attempt EXCEPT ![r] = attempt[r]]
    BY <2>1 DEF RInv, RequestTypes
  <2>5. QED
    BY <2>1, <2>2, <2>3, <2>4 DEF GoesOn, Phase
<1>3. QED
  BY <1>1, <1>2

LEMMA ProgressGoesOnOrEnds ==
  ASSUME RInv, NEW r \in Requests, Progress(r)
  PROVE  GoesOn(r) \/ Ends(r)
<1>1. /\ attempt[r] \in 0..MaxAttempts - 1
      /\ attempt = [attempt EXCEPT ![r] = attempt[r]]
  BY DEF RInv, RequestTypes
<1>2. AttemptTimeout \in Nat
  BY ClientAssumption
<1>3. CASE TakeToken(r)
  BY <1>1, <1>2, <1>3 DEF TakeToken, Await, GoesOn, Phase
<1>4. CASE Wake(r)
  <2>1. attempt[r] + 1 \in 0..MaxAttempts - 1
    BY <1>1, <1>4, ClientAssumption DEF Wake, RInv, RequestsInv
  <2>2. /\ phase[r] # "idle"
        /\ UNCHANGED <<breakerVars, elapsed>>
        /\ phase' = [phase EXCEPT ![r] = "token"]
        /\ timer' = [timer EXCEPT ![r] = 0]
        /\ attempt' = [attempt EXCEPT ![r] = attempt[r] + 1]
    BY <1>4 DEF Wake, Await
  <2>3. QED
    BY <2>1, <2>2 DEF GoesOn, Phase
<1>5. CASE FailsTransiently(r)
  <2>1. PICK delay \in Backoffs[attempt[r]] : RetryOrThrow(r, delay)
    BY <1>5 DEF FailsTransiently
  <2>2. delay \in Nat
    BY <1>1, ClientAssumption
  <2>3. QED
    BY <1>5, <2>1, <2>2, RetryGoesOnOrEnds DEF FailsTransiently
<1>6. CASE RateLimited(r)
  <2>1. PICK delay \in RetryAfters : RetryOrThrow(r, delay)
    BY <1>6 DEF RateLimited
  <2>2. QED
    BY <1>6, <2>1, ClientAssumption, RetryGoesOnOrEnds DEF RateLimited
<1>7. CASE AnswersOk(r)
  BY <1>1, <1>7 DEF AnswersOk, Await, GoesOn, Phase
<1>8. CASE AnswersError(r) \/ BodyArrives(r) \/ BodyMalformed(r)
  BY <1>8 DEF AnswersError, BodyArrives, BodyMalformed, Throw, Succeed, Ends
<1>9. QED
  BY <1>3, <1>4, <1>5, <1>6, <1>7, <1>8 DEF Progress

-----------------------------------------------------------------------------
(* The requests keep their budget.                                         *)

LEMMA OutcomeStep ==
  ASSUME RequestTypes, [Next]_vars
  PROVE  settled' \in Outcome /\ hostFailed' \in BOOLEAN
<1> USE DEF RequestTypes, Outcome
<1>1. CASE ReadState \/ Tick \/ UNCHANGED vars
  BY <1>1 DEF ReadState, Tick, vars
<1>2. ASSUME NEW r \in Requests, Start(r) \/ Refuse(r)
      PROVE  settled' \in Outcome /\ hostFailed' \in BOOLEAN
  BY <1>2 DEF Start, Refuse
<1>3. ASSUME NEW r \in Requests, NEW delay, RetryOrThrow(r, delay)
      PROVE  settled' \in Outcome /\ hostFailed' \in BOOLEAN
  BY <1>3 DEF RetryOrThrow, Throw
<1>4. ASSUME NEW r \in Requests, Progress(r)
      PROVE  settled' \in Outcome /\ hostFailed' \in BOOLEAN
  BY <1>3, <1>4 DEF Progress, TakeToken, Wake, FailsTransiently, RateLimited, AnswersError,
                    AnswersOk, BodyArrives, BodyMalformed, Succeed, Throw
<1>5. QED
  BY <1>1, <1>2, <1>4 DEF Next

LEMMA RInvInit == Init => RInv
<1> SUFFICES ASSUME Init PROVE RInv
  OBVIOUS
<1>1. 0 \in 0..MaxAttempts - 1 /\ 0 \in 0..Horizon
  BY ClientAssumption, HorizonIs
<1>2. RequestTypes
  BY <1>1 DEF Init, RequestTypes, Breaker!CallState, Phase, Outcome
<1>3. RequestsInv
  BY DEF Init, RequestsInv
<1>4. QED
  BY <1>2, <1>3 DEF RInv

LEMMA RInvStep == RInv /\ [Next]_vars => RInv'
<1> SUFFICES ASSUME RInv, [Next]_vars PROVE RInv'
  OBVIOUS
<1> USE DEF RInv
<1>0. settled' \in Outcome /\ hostFailed' \in BOOLEAN
  BY OutcomeStep
<1>1. CASE ReadState
  BY <1>0, <1>1 DEF ReadState, loopVars, RequestTypes, RequestsInv
<1>2. CASE Tick
  <2>1. timer' \in [Requests -> Nat] /\ elapsed' \in [Requests -> 0..Horizon]
    BY <1>2, HorizonIs DEF Tick, Longer, RequestTypes
  <2>2. RequestTypes'
    BY <1>0, <1>2, <2>1 DEF Tick, RequestTypes
  <2>3. ASSUME NEW r \in Requests, phase[r] = "backoff"
        PROVE  elapsed'[r] + timer'[r] <= TotalBudget
    <3>1. timer'[r] = timer[r] - 1 /\ timer[r] \in Nat
      BY <1>2, <2>3 DEF Tick, Timed, RequestTypes
    <3>2. elapsed'[r] <= elapsed[r] + 1 /\ elapsed'[r] \in Nat /\ elapsed[r] \in Nat
      BY <1>2, <2>3, HorizonIs DEF Tick, Longer, RequestTypes
    <3>3. QED
      BY <2>3, <3>1, <3>2, ClientAssumption DEF RequestsInv
  <2>4. \A r \in Requests : phase[r] = "idle" => elapsed'[r] = 0
    BY <1>2 DEF Tick
  <2>5. QED
    BY <1>2, <2>2, <2>3, <2>4 DEF Tick, RequestsInv
<1>3. ASSUME NEW r \in Requests, Start(r)
      PROVE  RInv'
  <2>1. RequestTypes'
    BY <1>0, <1>3, ClientAssumption
    DEF Start, Await, RequestTypes, Phase, Breaker!CallState
  <2>2. phase'[r] = "token" /\ call'[r] # "idle"
    BY <1>3 DEF Start, Await, RequestTypes
  <2>3. QED
    BY <1>3, <2>1, <2>2 DEF Start, Await, RequestTypes, RequestsInv
<1>4. ASSUME NEW r \in Requests, Refuse(r)
      PROVE  RInv'
  BY <1>0, <1>4 DEF Refuse, loopVars, RequestTypes, RequestsInv
<1>5. ASSUME NEW r \in Requests, GoesOn(r)
      PROVE  RInv'
  <2>1. RequestTypes'
    BY <1>0, <1>5 DEF GoesOn, RequestTypes, breakerVars
  <2>2. RequestsInv'
    BY <1>5 DEF GoesOn, RequestTypes, RequestsInv, breakerVars
  <2>3. QED
    BY <2>1, <2>2
<1>6. ASSUME NEW r \in Requests, Ends(r)
      PROVE  RInv'
  <2>1. RequestTypes'
    BY <1>0, <1>6, ClientAssumption, HorizonIs
    DEF Ends, Leave, RequestTypes, Phase, Breaker!CallState
  <2>2. RequestsInv'
    BY <1>6 DEF Ends, Leave, RequestTypes, RequestsInv
  <2>3. QED
    BY <2>1, <2>2
<1>7. CASE UNCHANGED vars
  BY <1>7 DEF vars, breakerVars, loopVars, RequestTypes, RequestsInv
<1>8. QED
  BY <1>1, <1>2, <1>3, <1>4, <1>5, <1>6, <1>7, ProgressGoesOnOrEnds DEF Next

LEMMA RInvHolds == Spec => []RInv
BY RInvInit, RInvStep, PTL DEF Spec

\* However its attempts end, a request that stays past its budget is in its last
\* one: none begins after the budget is spent.
THEOREM NoAttemptStartsLateHolds == Spec => NoAttemptStartsLate
<1> DEFINE Late == \A r \in Requests :
                     phase[r] = "backoff" /\ phase'[r] = "token" => elapsed[r] <= TotalBudget
<1>1. RInv /\ [Next]_vars => [Late]_vars
  BY ClientAssumption, HorizonIs DEF RInv, RequestTypes, RequestsInv
<1>2. QED
  BY <1>1, RInvHolds, PTL DEF Spec, NoAttemptStartsLate
-----------------------------------------------------------------------------
(* The breaker the requests drive is CircuitBreaker's.  BreakerProofs is   *)
(* Breaker, with its theorems.                                             *)

BreakerProofs == INSTANCE CircuitBreakerProofs WITH
  Calls <- Requests,
  age   <- [r \in Requests |-> IF elapsed[r] < OpenDuration THEN elapsed[r] ELSE OpenDuration]

\* The assumption those theorems rest on.
LEMMA BreakerAssumptionHolds == BreakerProofs!BreakerAssumption
BY ClientAssumption DEF BreakerProofs!BreakerAssumption

LEMMA BreakerStep ==
  ASSUME RInv, [Next]_vars
  PROVE  [Breaker!Next]_(Breaker!vars)
<1> DEFINE age == [r \in Requests |-> IF elapsed[r] < OpenDuration THEN elapsed[r] ELSE OpenDuration]
<1>0. \A r \in Requests : elapsed[r] \in 0..Horizon /\ (call[r] = "idle" <=> phase[r] = "idle")
  BY DEF RInv, RequestTypes, RequestsInv
<1>1. CASE ReadState
  BY <1>1 DEF ReadState, loopVars, Breaker!Next, Breaker!Observe
<1>2. CASE Tick
  <2>1. ASSUME NEW r \in Requests
        PROVE  age'[r] = IF call[r] = "idle" THEN 0
                         ELSE IF age[r] < OpenDuration THEN age[r] + 1 ELSE OpenDuration
    <3>1. CASE phase[r] = "idle"
      BY <1>0, <1>2, <3>1, ClientAssumption DEF Tick
    <3>2. CASE phase[r] # "idle"
      <4>1. elapsed'[r] = IF elapsed[r] < Horizon THEN elapsed[r] + 1 ELSE Horizon
        BY <1>2, <3>2 DEF Tick, Longer
      <4>2. QED
        BY <1>0, <3>2, <4>1, HorizonIs, ClientAssumption
    <3>3. QED
      BY <3>1, <3>2
  <2>2. age' = [r \in Requests |-> IF call[r] = "idle" THEN 0
                                   ELSE IF age[r] < OpenDuration THEN age[r] + 1 ELSE OpenDuration]
    BY <2>1
  <2>3. Breaker!Tick
    BY <1>2, <2>2 DEF Tick, Breaker!Tick, Breaker!Older
  <2>4. QED
    BY <2>3 DEF Breaker!Next
<1>3. ASSUME NEW r \in Requests, Start(r)
      PROVE  Breaker!Next
  <2>1. call[r] = "idle" /\ elapsed[r] = 0 /\ UNCHANGED elapsed
    BY <1>3 DEF Start, RInv, RequestsInv
  <2>2. age' = [age EXCEPT ![r] = 0]
    BY <2>1, ClientAssumption
  <2>3. Breaker!Execute(r)
    BY <1>3, <2>1, <2>2 DEF Start, Breaker!Execute
  <2>4. QED
    BY <2>3 DEF Breaker!Next
<1>4. ASSUME NEW r \in Requests, Refuse(r)
      PROVE  Breaker!Next
  BY <1>4 DEF Refuse, loopVars, Breaker!Next, Breaker!Observe
<1>5. ASSUME NEW r \in Requests, GoesOn(r)
      PROVE  UNCHANGED Breaker!vars
  BY <1>5 DEF GoesOn, breakerVars, Breaker!vars
<1>6. ASSUME NEW r \in Requests, Ends(r)
      PROVE  Breaker!Next
  <2>1. call[r] # "idle"
    BY <1>0, <1>6 DEF Ends
  <2>2. Breaker!Settled(r)
    <3>1. elapsed' = [elapsed EXCEPT ![r] = 0] /\ call' = [call EXCEPT ![r] = "idle"]
      BY <1>6 DEF Ends, Leave
    <3>2. \A q \in Requests : elapsed'[q] = IF q = r THEN 0 ELSE elapsed[q]
      BY <1>6, <3>1 DEF RInv, RequestTypes
    <3>3. OpenDuration \in Nat /\ 0 < OpenDuration
      BY ClientAssumption
    <3>4. \A q \in Requests : age'[q] = IF q = r THEN 0 ELSE age[q]
      BY <3>2, <3>3
    <3>5. age' = [age EXCEPT ![r] = 0]
      BY <3>4
    <3>6. QED
      BY <3>1, <3>5 DEF Breaker!Settled
  <2>3. Breaker!Settle(r)
    BY <1>6, <2>1, <2>2 DEF Ends, Breaker!Settle, Breaker!Succeed, Breaker!Fail
  <2>4. QED
    BY <2>3 DEF Breaker!Next
<1>7. CASE UNCHANGED vars
  BY <1>7 DEF vars, breakerVars, loopVars, Breaker!vars
<1>8. QED
  BY <1>1, <1>2, <1>3, <1>4, <1>5, <1>6, <1>7, ProgressGoesOnOrEnds DEF Next

\* The breaker, driven by retrying requests, is the one CircuitBreaker describes:
\* each request is let through once and its outcome recorded once.
THEOREM DrivesBreakerSafely == Spec => Breaker!Spec
<1>1. Init => Breaker!Init
  BY ClientAssumption DEF Init, Breaker!Init
<1>2. RInv /\ [Next]_vars => [Breaker!Next]_(Breaker!vars)
  BY BreakerStep
<1>3. QED
  BY <1>1, <1>2, RInvHolds, PTL DEF Spec, Breaker!Spec

LEMMA BreakerInitIs == Breaker!Init <=> BreakerProofs!Init
BY DEF Breaker!Init, BreakerProofs!Init

LEMMA BreakerNextIs ==
  [Breaker!Next]_(Breaker!vars) <=> [BreakerProofs!Next]_(BreakerProofs!vars)
BY DEF
  Breaker!Next, Breaker!vars, Breaker!Observe, Breaker!Tick, Breaker!Execute, Breaker!Settle,
  Breaker!Succeed, Breaker!Fail, Breaker!Settled, Breaker!recordSuccess, Breaker!recordFailure,
  Breaker!Failures, Breaker!Older, Breaker!Admits, Breaker!currentState,
  Breaker!ProbeInFlight, Breaker!Elapsed,
  BreakerProofs!Next, BreakerProofs!vars, BreakerProofs!Observe, BreakerProofs!Tick,
  BreakerProofs!Execute, BreakerProofs!Settle, BreakerProofs!Succeed, BreakerProofs!Fail,
  BreakerProofs!Settled, BreakerProofs!recordSuccess, BreakerProofs!recordFailure,
  BreakerProofs!Failures, BreakerProofs!Older, BreakerProofs!Admits,
  BreakerProofs!currentState, BreakerProofs!ProbeInFlight, BreakerProofs!Elapsed

\* So that what CircuitBreakerProofs shows of a breaker is true of this one.
LEMMA BreakerSpecHolds == Spec => BreakerProofs!Spec
<1>1. Breaker!Spec => BreakerProofs!Spec
  BY BreakerInitIs, BreakerNextIs, PTL DEF Breaker!Spec, BreakerProofs!Spec
<1>2. QED
  BY <1>1, DrivesBreakerSafely

-----------------------------------------------------------------------------
(* What follows.                                                           *)

\* Type correctness of the requests and of the breaker they share.
THEOREM TypeCorrect == Spec => []TypeOK
<1>1. BreakerProofs!TypeOK <=> Breaker!TypeOK
  BY DEF BreakerProofs!TypeOK, BreakerProofs!BreakerState, BreakerProofs!CallState,
         Breaker!TypeOK, Breaker!BreakerState, Breaker!CallState
<1>2. RInv /\ Breaker!TypeOK => TypeOK
  BY DEF RInv, RequestTypes, TypeOK
<1>3. QED
  BY <1>1, <1>2, RInvHolds, BreakerSpecHolds, BreakerAssumptionHolds,
     BreakerProofs!TypeCorrect, PTL

\* Whatever ends a request, a retry, a timeout or an error of any kind, a shut
\* half-open gate has a running request that will open it.
THEOREM GateReopensHolds == Spec => []GateReopens
<1>1. BreakerProofs!ShutGateHasProbe <=> Breaker!ShutGateHasProbe
  BY DEF BreakerProofs!ShutGateHasProbe, BreakerProofs!Probes,
         Breaker!ShutGateHasProbe, Breaker!Probes
<1>2. RInv /\ Breaker!ShutGateHasProbe => GateReopens
  BY DEF RInv, RequestsInv, GateReopens
<1>3. QED
  BY <1>1, <1>2, RInvHolds, BreakerSpecHolds, BreakerAssumptionHolds,
     BreakerProofs!ShutGateHasProbeHolds, PTL

\* However long bodies and tokens take, of the requests that meet a half-open
\* breaker at most one began within the last cooling-off period.
THEOREM RecoveringHostIsSparedHolds == Spec => []RecoveringHostIsSpared
<1>1. RInv /\ BreakerProofs!HalfOpenMeetsOneRecentCall => RecoveringHostIsSpared
  <2> SUFFICES ASSUME RInv, BreakerProofs!HalfOpenMeetsOneRecentCall, state = "half-open",
                      NEW q \in Requests, NEW r \in Requests,
                      q # r, phase[q] # "idle", phase[r] # "idle"
               PROVE  elapsed[q] >= OpenDuration \/ elapsed[r] >= OpenDuration
    BY DEF RecoveringHostIsSpared
  <2>1. q \in BreakerProofs!InFlight /\ r \in BreakerProofs!InFlight
    BY DEF RInv, RequestsInv, BreakerProofs!InFlight
  <2>2. BreakerProofs!Apart(q, r)
    BY <2>1 DEF BreakerProofs!HalfOpenMeetsOneRecentCall
  <2>3. elapsed[q] \in Nat /\ elapsed[r] \in Nat
    BY HorizonIs DEF RInv, RequestTypes
  <2>4. QED
    BY <2>2, <2>3, ClientAssumption DEF BreakerProofs!Apart
<1>2. QED
  BY <1>1, RInvHolds, BreakerSpecHolds, BreakerAssumptionHolds,
     BreakerProofs!HalfOpenMeetsOneRecentCallHolds, PTL
=============================================================================
