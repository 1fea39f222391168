----------------------------- MODULE TmdbClient -----------------------------
(***************************************************************************)
(* tmdbRequest() of server/src/tmdb/client.ts: concurrent requests to TMDB *)
(* behind one circuit breaker.  A request waits for a token, fetches under *)
(* a timeout, reads the body under none, and retries what is transient     *)
(* after a delay while its attempts and its time budget last.  The breaker *)
(* wraps the whole request, retries included.                              *)
(*                                                                         *)
(* The breaker is CircuitBreaker's: its operators act on the variables of  *)
(* that name here.  The rate limiter is a wait that ends some time, and so *)
(* is a body: the code limits neither.  TMDB is any answer, late or never. *)
(* Urls and messages are left out.                                         *)
(***************************************************************************)
EXTENDS Naturals, FiniteSets

CONSTANTS Requests,          \* concurrent calls of tmdbRequest()
          MaxAttempts,       \* MAX_ATTEMPTS
          AttemptTimeout,    \* ATTEMPT_TIMEOUT_MS
          TotalBudget,       \* TOTAL_BUDGET_MS
          Backoffs,          \* Backoffs[a]: delays backoffMs(a) may draw
          RetryAfters,       \* delays a Retry-After header may ask for
          FailureThreshold,
          OpenDuration

ASSUME ClientAssumption ==
  /\ MaxAttempts \in Nat \ {0}
  /\ AttemptTimeout \in Nat
  /\ TotalBudget \in Nat
  /\ Backoffs \in [0..MaxAttempts - 1 -> SUBSET Nat]
  /\ RetryAfters \subseteq Nat
  /\ FailureThreshold \in Nat \ {0}
  /\ OpenDuration \in Nat \ {0}

VARIABLES state, consecutiveFailures, cooling, halfOpenInFlight, call,
          phase,      \* phase[r]: what request r awaits
          attempt,    \* attempt[r]: its loop counter
          timer,      \* timer[r]: what is left of its timeout or its sleep
          elapsed,    \* elapsed[r]: Date.now() - startedAt, up to Horizon
          settled,    \* the outcome this step gave a request, or "none"
          hostFailed  \* history: since the last success the host has failed
                      \* to answer, rather than answered with an error

breakerVars == <<state, consecutiveFailures, cooling, halfOpenInFlight, call>>
loopVars    == <<phase, attempt, timer, elapsed>>
vars        == <<breakerVars, loopVars, settled, hostFailed>>

\* Durations beyond the budget and the cooling-off period are not told apart.
Horizon == IF TotalBudget < OpenDuration THEN OpenDuration ELSE TotalBudget + 1

Breaker == INSTANCE CircuitBreaker WITH
  Calls <- Requests,
  age   <- [r \in Requests |-> IF elapsed[r] < OpenDuration THEN elapsed[r] ELSE OpenDuration]

Phase   == {"idle", "token", "fetch", "body", "backoff"}
Timed   == {"fetch", "backoff"}
Outcome == {"none", "ok", "notFound", "invalid", "denied", "unavailable"}

-----------------------------------------------------------------------------
Init ==
  /\ state = "closed"
  /\ consecutiveFailures = 0
  /\ cooling = 0
  /\ halfOpenInFlight = FALSE
  /\ call = [r \in Requests |-> "idle"]
  /\ phase = [r \in Requests |-> "idle"]
  /\ attempt = [r \in Requests |-> 0]
  /\ timer = [r \in Requests |-> 0]
  /\ elapsed = [r \in Requests |-> 0]
  /\ settled = "none"
  /\ hostFailed = FALSE

\* Request r now awaits p; a timer, if it has one, is set to t.
Await(r, p, t) ==
  /\ phase' = [phase EXCEPT ![r] = p]
  /\ timer' = [timer EXCEPT ![r] = t]

Leave(r) ==
  /\ phase' = [phase EXCEPT ![r] = "idle"]
  /\ timer' = [timer EXCEPT ![r] = 0]
  /\ attempt' = [attempt EXCEPT ![r] = 0]
  /\ elapsed' = [elapsed EXCEPT ![r] = 0]
  /\ call' = [call EXCEPT ![r] = "idle"]

\* Mutant: a probe does not shut the half-open gate.
StartUnmarked(r) ==
  /\ phase[r] = "idle"
  /\ Breaker!Admits
  /\ state' = Breaker!currentState
  /\ halfOpenInFlight' = Breaker!ProbeInFlight
  /\ call' = [call EXCEPT ![r] = IF Breaker!currentState = "half-open"
                                 THEN "probe" ELSE "normal"]
  /\ Await(r, "token", 0)
  /\ settled' = "none"
  /\ UNCHANGED <<consecutiveFailures, cooling, attempt, elapsed, hostFailed>>

\* breaker.execute() calls its function and the first attempt begins.
Start(r) ==
  /\ phase[r] = "idle"
  /\ Breaker!Admits
  /\ state' = Breaker!currentState
  /\ halfOpenInFlight' = (Breaker!currentState = "half-open" \/ Breaker!ProbeInFlight)
  /\ call' = [call EXCEPT ![r] = IF Breaker!currentState = "half-open"
                                 THEN "probe" ELSE "normal"]
  /\ Await(r, "token", 0)
  /\ settled' = "none"
  /\ UNCHANGED <<consecutiveFailures, cooling, attempt, elapsed, hostFailed>>

\* A CircuitOpenError is turned into TmdbUnavailableError.
Refuse(r) ==
  /\ phase[r] = "idle"
  /\ ~Breaker!Admits
  /\ state' = Breaker!currentState
  /\ halfOpenInFlight' = Breaker!ProbeInFlight
  /\ settled' = "unavailable"
  /\ UNCHANGED <<consecutiveFailures, cooling, call, loopVars, hostFailed>>

\* tmdbBreakerState(), for the health endpoint.
ReadState ==
  /\ state' = Breaker!currentState
  /\ halfOpenInFlight' = Breaker!ProbeInFlight
  /\ settled' = "none"
  /\ UNCHANGED <<consecutiveFailures, cooling, call, loopVars, hostFailed>>

\* The request resolves and the breaker records a success.
Succeed(r) ==
  /\ Breaker!recordSuccess
  /\ Leave(r)
  /\ settled' = "ok"
  /\ hostFailed' = FALSE

\* Mutant: errors the host answers with are kept from the breaker.
ThrowOutagesOnly(r, outcome) ==
  /\ IF outcome = "unavailable" THEN Breaker!recordFailure
     ELSE UNCHANGED <<state, consecutiveFailures, cooling, halfOpenInFlight>>
  /\ Leave(r)
  /\ settled' = outcome
  /\ hostFailed' = (hostFailed \/ outcome = "unavailable")

\* The request rejects with any error and the breaker records a failure.
Throw(r, outcome) ==
  /\ Breaker!recordFailure
  /\ Leave(r)
  /\ settled' = outcome
  /\ hostFailed' = (hostFailed \/ outcome = "unavailable")

\* Mutant: the delay does not count against the budget.
RetryOrThrowOnElapsed(r, delay) ==
  IF attempt[r] = MaxAttempts - 1 \/ elapsed[r] > TotalBudget
  THEN Throw(r, "unavailable")
  ELSE /\ Await(r, "backoff", delay)
       /\ settled' = "none"
       /\ UNCHANGED <<breakerVars, attempt, elapsed, hostFailed>>

\* A transient error: give up, or sleep and try again.
RetryOrThrow(r, delay) ==
  IF attempt[r] = MaxAttempts - 1 \/ elapsed[r] + delay > TotalBudget
  THEN Throw(r, "unavailable")
  ELSE /\ Await(r, "backoff", delay)
       /\ settled' = "none"
       /\ UNCHANGED <<breakerVars, attempt, elapsed, hostFailed>>

TakeToken(r) ==
  /\ phase[r] = "token"
  /\ Await(r, "fetch", AttemptTimeout)
  /\ settled' = "none"
  /\ UNCHANGED <<breakerVars, attempt, elapsed, hostFailed>>

\* fetch() rejects: the host cannot be reached or the attempt timed out; or it
\* answers 5xx, or 429 without a usable Retry-After.
FailsTransiently(r) ==
  /\ phase[r] = "fetch"
  /\ \E delay \in Backoffs[attempt[r]] : RetryOrThrow(r, delay)

\* 429 with a Retry-After, which replaces the backoff.
RateLimited(r) ==
  /\ phase[r] = "fetch"
  /\ \E delay \in RetryAfters : RetryOrThrow(r, delay)

\* 404, 401 or 403, or another 4xx: terminal.
AnswersError(r) ==
  /\ phase[r] = "fetch"
  /\ \E outcome \in {"notFound", "denied", "invalid"} : Throw(r, outcome)

\* 2xx: the headers are in, the timer is cleared, and the body is read.
AnswersOk(r) ==
  /\ phase[r] = "fetch"
  /\ Await(r, "body", 0)
  /\ settled' = "none"
  /\ UNCHANGED <<breakerVars, attempt, elapsed, hostFailed>>

BodyArrives(r) == phase[r] = "body" /\ Succeed(r)

BodyMalformed(r) == phase[r] = "body" /\ Throw(r, "invalid")

\* The sleep is over and the loop goes round.
Wake(r) ==
  /\ phase[r] = "backoff"
  /\ timer[r] = 0
  /\ attempt' = [attempt EXCEPT ![r] = @ + 1]
  /\ Await(r, "token", 0)
  /\ settled' = "none"
  /\ UNCHANGED <<breakerVars, elapsed, hostFailed>>

Longer(r) == IF elapsed[r] < Horizon THEN elapsed[r] + 1 ELSE Horizon

\* Time passes, except past a timer that has run out.
Tick ==
  /\ \A r \in Requests : phase[r] \in Timed => timer[r] > 0
  /\ timer' = [r \in Requests |-> IF phase[r] \in Timed THEN timer[r] - 1 ELSE 0]
  /\ elapsed' = [r \in Requests |-> IF phase[r] = "idle" THEN 0 ELSE Longer(r)]
  /\ cooling' = IF cooling > 0 THEN cooling - 1 ELSE 0
  /\ settled' = "none"
  /\ UNCHANGED <<state, consecutiveFailures, halfOpenInFlight, call, phase,
                 attempt, hostFailed>>

Progress(r) ==
  \/ TakeToken(r) \/ Wake(r)
  \/ FailsTransiently(r) \/ RateLimited(r) \/ AnswersError(r) \/ AnswersOk(r)
  \/ BodyArrives(r) \/ BodyMalformed(r)

Next ==
  \/ ReadState
  \/ Tick
  \/ \E r \in Requests : Start(r) \/ Refuse(r) \/ Progress(r)

Spec == Init /\ [][Next]_vars

\* Time passes without end, however much happens in an instant, and what a
\* request awaits happens: a token comes, and a body ends or breaks off.
FairSpec ==
  /\ Spec
  /\ []<><<Tick>>_vars
  /\ \A r \in Requests : WF_vars(Progress(r))

-----------------------------------------------------------------------------
(* Properties.                                                             *)

\* Type correctness of the requests and of the breaker they share.
TypeOK ==
  /\ Breaker!TypeOK
  /\ phase \in [Requests -> Phase]
  /\ attempt \in [Requests -> 0..MaxAttempts - 1]
  /\ timer \in [Requests -> Nat]
  /\ elapsed \in [Requests -> 0..Horizon]
  /\ settled \in Outcome
  /\ hostFailed \in BOOLEAN

\* However its attempts end, a request that stays past its budget is in its
\* last one: it began within the budget and no other follows.
NoAttemptStartsLate ==
  [][\A r \in Requests :
       phase[r] = "backoff" /\ phase'[r] = "token" => elapsed[r] <= TotalBudget]_vars

\* Whatever ends a request, a shut half-open gate has a running request that
\* will open it.
GateReopens ==
  /\ Breaker!ShutGateHasProbe
  /\ \A r \in Requests : call[r] # "idle" => phase[r] # "idle"

\* The breaker, driven by these requests, is the one CircuitBreaker describes,
\* fairness included: every request is told to it once, however it ends.
DrivesBreaker == Breaker!FairSpec

\* However long bodies take, of the requests that meet a half-open breaker at
\* most one began within the last cooling-off period.
RecoveringHostIsSpared ==
  state = "half-open" =>
    \A q, r \in Requests :
      q # r /\ phase[q] # "idle" /\ phase[r] # "idle" =>
        elapsed[q] >= OpenDuration \/ elapsed[r] >= OpenDuration

\* The inductive invariant behind them (TmdbClientProofs): a sleep ends within
\* the budget and another attempt is left after it.
RequestsInv ==
  \A r \in Requests :
    /\ call[r] = "idle" <=> phase[r] = "idle"
    /\ phase[r] = "idle" => elapsed[r] = 0
    /\ phase[r] = "backoff" =>
         elapsed[r] + timer[r] <= TotalBudget /\ attempt[r] < MaxAttempts - 1

-----------------------------------------------------------------------------
(* What the documentation says and the code does not do.                   *)

\* The breaker is for "a host we already know is down": it opens only if the
\* host failed to answer since it last answered well.
OpensOnlyForAHostDown ==
  [][state # "open" /\ state' = "open" => hostFailed']_vars

\* "In half-open we allow exactly one probe through ... so a recovering upstream
\* is not immediately hit by the full backlog": no two probes are in flight.
SingleProbe == Breaker!SingleProbe
=============================================================================
