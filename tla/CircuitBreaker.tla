--------------------------- MODULE CircuitBreaker ---------------------------
(***************************************************************************)
(* The circuit breaker of server/src/lib/circuitBreaker.ts: one object     *)
(* shared by the concurrent calls of a process.  execute() decides without *)
(* awaiting and records the outcome when the call it let through settles,  *)
(* any time later and in any order.                                        *)
(*                                                                         *)
(* openedAtMs and Date.now() appear only as their difference, so the       *)
(* module keeps the cooling-off period left instead.  consecutiveFailures  *)
(* is only compared with failureThreshold, and stops growing there.  A     *)
(* call takes any time to settle: nothing in execute() limits it.          *)
(* Left out: onStateChange (logging) and reset() (a test hook).            *)
(***************************************************************************)
EXTENDS Naturals, FiniteSets

CONSTANTS Calls,             \* concurrent calls of execute()
          FailureThreshold,  \* failureThreshold
          OpenDuration       \* openDurationMs

ASSUME BreakerAssumption ==
  /\ FailureThreshold \in Nat \ {0}
  /\ OpenDuration \in Nat \ {0}

VARIABLES state,               \* "closed", "open" or "half-open"
          consecutiveFailures,
          cooling,             \* openDurationMs - (now - openedAtMs), from 0
          halfOpenInFlight,
          call,                \* call[c]: idle, or let through as a normal
                               \* call or as a half-open probe
          age                  \* history: the time since call c was let
                               \* through, up to a cooling-off period

vars == <<state, consecutiveFailures, cooling, halfOpenInFlight, call, age>>

BreakerState == {"closed", "open", "half-open"}
CallState    == {"idle", "normal", "probe"}

InFlight == {c \in Calls : call[c] # "idle"}
Probes   == {c \in Calls : call[c] = "probe"}

-----------------------------------------------------------------------------
Init ==
  /\ state = "closed"
  /\ consecutiveFailures = 0
  /\ cooling = 0
  /\ halfOpenInFlight = FALSE
  /\ call = [c \in Calls |-> "idle"]
  /\ age = [c \in Calls |-> 0]

\* Mutant: the breaker opens for good once it has failed.
ElapsedIfUnfailed == state = "open" /\ cooling = 0 /\ consecutiveFailures = 0

\* The getter promotes an open breaker whose cooling-off period has elapsed.
Elapsed == state = "open" /\ cooling = 0

currentState == IF Elapsed THEN "half-open" ELSE state

\* halfOpenInFlight once the getter has run.
ProbeInFlight == ~Elapsed /\ halfOpenInFlight

\* Mutant: the half-open gate is not looked at.
AdmitsAll == currentState # "open"

\* execute() calls fn rather than throw CircuitOpenError.
Admits == currentState = "closed" \/ (currentState = "half-open" /\ ~ProbeInFlight)

\* currentState read by the health endpoint, or by an execute() that refuses.
Observe ==
  /\ state' = currentState
  /\ halfOpenInFlight' = ProbeInFlight
  /\ UNCHANGED <<consecutiveFailures, cooling, call, age>>

\* execute() up to its await of fn().
Execute(c) ==
  /\ call[c] = "idle"
  /\ Admits
  /\ state' = currentState
  /\ halfOpenInFlight' = (currentState = "half-open" \/ ProbeInFlight)
  /\ call' = [call EXCEPT ![c] = IF currentState = "half-open" THEN "probe" ELSE "normal"]
  /\ age' = [age EXCEPT ![c] = 0]
  /\ UNCHANGED <<consecutiveFailures, cooling>>

recordSuccess ==
  /\ consecutiveFailures' = 0
  /\ halfOpenInFlight' = FALSE
  /\ state' = "closed"
  /\ UNCHANGED cooling

\* consecutiveFailures + 1, as far as it is told apart.
Failures == IF consecutiveFailures < FailureThreshold
            THEN consecutiveFailures + 1 ELSE consecutiveFailures

\* Mutant: the threshold is compared before the failure is counted.
recordFailureLate ==
  /\ halfOpenInFlight' = FALSE
  /\ consecutiveFailures' = Failures
  /\ IF state = "half-open" \/ consecutiveFailures >= FailureThreshold
     THEN state' = "open" /\ cooling' = OpenDuration
     ELSE UNCHANGED <<state, cooling>>

\* Mutant: openedAtMs is not set, so the period of the last opening counts.
recordFailureUntimed ==
  /\ halfOpenInFlight' = FALSE
  /\ consecutiveFailures' = Failures
  /\ IF state = "half-open" \/ Failures >= FailureThreshold
     THEN state' = "open" /\ UNCHANGED cooling
     ELSE UNCHANGED <<state, cooling>>

\* Mutant: the failed call is not taken off the half-open count.
recordFailureKeepsProbe ==
  /\ UNCHANGED halfOpenInFlight
  /\ consecutiveFailures' = Failures
  /\ IF state = "half-open" \/ Failures >= FailureThreshold
     THEN state' = "open" /\ cooling' = OpenDuration
     ELSE UNCHANGED <<state, cooling>>

recordFailure ==
  /\ halfOpenInFlight' = FALSE
  /\ consecutiveFailures' = Failures
  /\ IF state = "half-open" \/ Failures >= FailureThreshold
     THEN state' = "open" /\ cooling' = OpenDuration
     ELSE UNCHANGED <<state, cooling>>

Settled(c) ==
  /\ call' = [call EXCEPT ![c] = "idle"]
  /\ age' = [age EXCEPT ![c] = 0]

Succeed(c) == call[c] # "idle" /\ recordSuccess /\ Settled(c)

Fail(c) == call[c] # "idle" /\ recordFailure /\ Settled(c)

Older(c) == IF age[c] < OpenDuration THEN age[c] + 1 ELSE OpenDuration

\* Time passes, whatever is in flight.
Tick ==
  /\ cooling' = IF cooling > 0 THEN cooling - 1 ELSE 0
  /\ age' = [c \in Calls |-> IF call[c] = "idle" THEN 0 ELSE Older(c)]
  /\ UNCHANGED <<state, consecutiveFailures, halfOpenInFlight, call>>

Settle(c) == Succeed(c) \/ Fail(c)

Next ==
  \/ Observe
  \/ Tick
  \/ \E c \in Calls : Execute(c) \/ Settle(c)

Spec == Init /\ [][Next]_vars

\* Time passes and every call settles.
FairSpec == Spec /\ WF_vars(Tick) /\ \A c \in Calls : WF_vars(Settle(c))

-----------------------------------------------------------------------------
(* Properties.                                                             *)

\* Type correctness of the breaker.
TypeOK ==
  /\ state \in BreakerState
  /\ consecutiveFailures \in 0..FailureThreshold
  /\ cooling \in 0..OpenDuration
  /\ halfOpenInFlight \in BOOLEAN
  /\ call \in [Calls -> CallState]
  /\ age \in [Calls -> 0..OpenDuration]

\* A breaker that lets every call through has fewer failures on record than
\* would open it, in whatever order its calls settled.
ClosedBelowThreshold == state = "closed" => consecutiveFailures < FailureThreshold

\* The half-open gate is shut only while a probe that will open it is in
\* flight, so no lost flag makes the breaker refuse calls for good.
ShutGateHasProbe == halfOpenInFlight => Probes # {}

\* Of two calls one has been under way for a cooling-off period.
Apart(c, d) == age[c] = OpenDuration \/ age[d] = OpenDuration

\* However long calls last and in whatever order they settle, two probes in
\* flight were let through a cooling-off period apart: a recovering upstream is
\* probed no faster than that.
ProbesAreAPeriodApart == \A c, d \in Probes : c # d => Apart(c, d)

\* While the breaker is half-open at most one call in flight is younger than a
\* cooling-off period, so no fresh backlog meets a recovering upstream.
HalfOpenMeetsOneRecentCall ==
  state = "half-open" => \A c, d \in InFlight : c # d => Apart(c, d)

\* The inductive invariants behind them (CircuitBreakerProofs).
GateInv ==
  /\ ClosedBelowThreshold
  /\ ShutGateHasProbe
  /\ halfOpenInFlight => state = "half-open"

\* A call that is in flight when the breaker opens ages as the breaker cools.
AgesInv ==
  /\ state = "open" => \A c \in InFlight : age[c] + cooling >= OpenDuration
  /\ state = "half-open" /\ ~halfOpenInFlight => \A c \in InFlight : age[c] = OpenDuration
  /\ HalfOpenMeetsOneRecentCall
  /\ ProbesAreAPeriodApart

\* However its calls fail, the breaker is again and again ready to let one
\* through: an upstream that recovers is found.
AlwaysAdmitsAgain == []<>Admits

-----------------------------------------------------------------------------
(* What the documentation says and the code does not do.                   *)

\* "In half-open we allow exactly one probe through": no two are in flight.
SingleProbe == \A c, d \in Probes : c = d

\* "after N consecutive failures we stop calling for a cooling-off period": a
\* breaker does not let calls through while the period runs.
CoolingOffIsKept == [][state = "open" /\ cooling > 0 => state' = "open"]_vars
=============================================================================
