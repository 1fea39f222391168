------------------------------- MODULE Server -------------------------------
(***************************************************************************)
(* One process of the API: its start and graceful shutdown (index.ts), and *)
(* the budgets of failed attempts that guard signing in and up             *)
(* (lib/rateLimiter.ts, routes/auth.ts), which live in its memory.         *)
(*                                                                         *)
(* A budget is looked at before the awaits of a request and charged after  *)
(* them.  Passwords, sessions and wishlists are Accounts': here a request  *)
(* ends well or not, or not at all.  Of a key only what its map holds is   *)
(* kept, with the time left of its window; an entry whose window has ended *)
(* is as good as none.                                                     *)
(***************************************************************************)
EXTENDS Naturals, FiniteSets

CONSTANTS Requests,     \* the requests that may be under way at once
          Emails, Ips,
          Max(_),       \* max of the limiter of a kind
          Window(_),    \* its windowMs
          Capacity,     \* entries a limiter holds
          Signals,      \* the signals that may come, each once
          ForceAfter    \* how long a shutdown may take

Kinds   == {"email", "ip", "signup"}
Budgets == ({"email"} \X Emails) \cup ({"ip", "signup"} \X Ips)

ASSUME ServerAssumption ==
  /\ IsFiniteSet(Requests)
  /\ \A k \in Kinds : Max(k) \in Nat \ {0} /\ Window(k) \in Nat \ {0}
  /\ ForceAfter \in Nat \ {0}

VARIABLES process,    \* "starting", "serving", "stopping" or "exited"
          shutdown,   \* shutdown[s]: how far the shutdown that signal s began is
          forced,     \* forced[s]: the time left before it is forced
          stopping,   \* time since the first signal
          attempts,   \* attempts[b]: count, and time left until resetAt
          request     \* request[r]: what it awaits, and the budgets it is charged to

vars == <<process, shutdown, forced, stopping, attempts, request>>

Attempt == [count : Nat, left : Nat]
Nothing == [count |-> 0, left |-> 0]

Stage   == {"idle", "verifying", "opening", "registering"}
Request == [stage : Stage, charged : SUBSET Budgets]
Idle    == [stage |-> "idle", charged |-> {}]

\* Type correctness.
TypeOK ==
  /\ process \in {"starting", "serving", "stopping", "exited"}
  /\ shutdown \in [Signals -> {"none", "closing", "disconnecting"}]
  /\ forced \in [Signals -> 0 .. ForceAfter]
  /\ stopping \in Nat
  /\ attempts \in [Budgets -> Attempt]
  /\ request \in [Requests -> Request]

\* What a process has when it starts.
Fresh ==
  /\ shutdown' = [s \in Signals |-> "none"]
  /\ forced' = [s \in Signals |-> ForceAfter]
  /\ stopping' = 0
  /\ attempts' = [b \in Budgets |-> Nothing]
  /\ request' = [r \in Requests |-> Idle]

Init ==
  /\ process = "starting"
  /\ shutdown = [s \in Signals |-> "none"]
  /\ forced = [s \in Signals |-> ForceAfter]
  /\ stopping = 0
  /\ attempts = [b \in Budgets |-> Nothing]
  /\ request = [r \in Requests |-> Idle]

-----------------------------------------------------------------------------
(* RateLimiter.                                                            *)

\* Mutant: the count alone decides.
AllowedWhateverWindow(b) == attempts[b].count < Max(b[1])

\* check: the window has ended, or not all of the budget is spent.
Allowed(b) == attempts[b].left = 0 \/ attempts[b].count < Max(b[1])

\* One failure more: in the window there is, or as the first of a new one.
Charged(a, b) ==
  IF a.left = 0 THEN [count |-> 1, left |-> Window(b[1])] ELSE [a EXCEPT !.count = @ + 1]

Entries(k) == {b \in Budgets : b[1] = k /\ attempts[b].count > 0}

\* A new key needs room: the entry least recently used goes, which one is left
\* open.
Evictions(B) ==
  {E \in SUBSET Budgets :
     \A k \in Kinds :
       LET evicted == {b \in E : b[1] = k}
       IN  IF \E b \in B : b[1] = k /\ b \notin Entries(k) /\ Cardinality(Entries(k)) >= Capacity
           THEN evicted \subseteq Entries(k) /\ Cardinality(evicted) = 1
           ELSE evicted = {}}

\* recordFailure of every key in B.
RecordFailures(B) ==
  \E evicted \in Evictions(B) :
    attempts' = [b \in Budgets |-> IF b \in B THEN Charged(attempts[b], b)
                                   ELSE IF b \in evicted THEN Nothing ELSE attempts[b]]

\* reset of the keys in B.
Reset(B) == attempts' = [b \in Budgets |-> IF b \in B THEN Nothing ELSE attempts[b]]

-----------------------------------------------------------------------------
(* POST /auth/login and /auth/signup.  A request that is refused, or whose *)
(* input does not parse, changes nothing.                                  *)

Awaits(r, stage, B) == request' = [request EXCEPT ![r] = [stage |-> stage, charged |-> B]]

\* Mutant: only the address is asked about.
LoginIgnoringEmail(r, e, ip) ==
  /\ process = "serving" /\ request[r] = Idle
  /\ Allowed(<<"ip", ip>>)
  /\ Awaits(r, "verifying", {<<"email", e>>, <<"ip", ip>>})
  /\ UNCHANGED <<process, shutdown, forced, stopping, attempts>>

Login(r, e, ip) ==
  /\ process = "serving" /\ request[r] = Idle
  /\ Allowed(<<"email", e>>) /\ Allowed(<<"ip", ip>>)
  /\ Awaits(r, "verifying", {<<"email", e>>, <<"ip", ip>>})
  /\ UNCHANGED <<process, shutdown, forced, stopping, attempts>>

\* authenticate has succeeded: the budget of the email is whole again.
LoginVerified(r) ==
  /\ request[r].stage = "verifying"
  /\ Reset({b \in request[r].charged : b[1] = "email"})
  /\ Awaits(r, "opening", request[r].charged)
  /\ UNCHANGED <<process, shutdown, forced, stopping>>

Signup(r, ip) ==
  /\ process = "serving" /\ request[r] = Idle
  /\ Allowed(<<"signup", ip>>)
  /\ Awaits(r, "registering", {<<"signup", ip>>})
  /\ UNCHANGED <<process, shutdown, forced, stopping, attempts>>

Succeeds(r) ==
  /\ request[r].stage \in {"opening", "registering"}
  /\ request' = [request EXCEPT ![r] = Idle]
  /\ UNCHANGED <<process, shutdown, forced, stopping, attempts>>

\* Whatever was thrown: a wrong password, or no session could be stored.
Fails(r) ==
  /\ request[r] # Idle
  /\ request' = [request EXCEPT ![r] = Idle]
  /\ RecordFailures(request[r].charged)
  /\ UNCHANGED <<process, shutdown, forced, stopping>>

-----------------------------------------------------------------------------
(* The process.                                                            *)

\* The database answers.
Listen ==
  /\ process = "starting"
  /\ process' = "serving"
  /\ UNCHANGED <<shutdown, forced, stopping, attempts, request>>

\* Memory is lost and requests are cut off.
Exit == process' = "exited" /\ Fresh

\* The database does not answer, a signal comes before there is a handler for
\* it, or the process is killed.
Crash == process # "exited" /\ Exit

\* The host starts it again.
Restart ==
  /\ process = "exited"
  /\ process' = "starting"
  /\ UNCHANGED <<shutdown, forced, stopping, attempts, request>>

\* shutdown: from here on no request is accepted, and the timer runs.
Signal(s) ==
  /\ process \in {"serving", "stopping"}
  /\ shutdown[s] = "none"
  /\ process' = "stopping"
  /\ shutdown' = [shutdown EXCEPT ![s] = "closing"]
  /\ UNCHANGED <<forced, stopping, attempts, request>>

\* Mutant: nobody waits for the requests under way.
DrainedAtOnce == TRUE

Drained == \A r \in Requests : request[r] = Idle

\* server.close has called back.
Closed(s) ==
  /\ shutdown[s] = "closing"
  /\ Drained
  /\ shutdown' = [shutdown EXCEPT ![s] = "disconnecting"]
  /\ UNCHANGED <<process, forced, stopping, attempts, request>>

\* disconnectPrisma has settled, which it need not.
Disconnected(s) == shutdown[s] = "disconnecting" /\ Exit

\* Mutant: the timer is cleared once the server is closed.
DueWhileClosing(s) == shutdown[s] = "closing" /\ forced[s] = 0

Due(s) == shutdown[s] # "none" /\ forced[s] = 0

Forced(s) == Due(s) /\ Exit

\* Timers that are due go first.
Tick ==
  /\ \A s \in Signals : ~Due(s)
  /\ forced' = [s \in Signals |-> IF shutdown[s] = "none" \/ forced[s] = 0 THEN forced[s]
                                  ELSE forced[s] - 1]
  /\ stopping' = IF process = "stopping" THEN stopping + 1 ELSE stopping
  /\ attempts' = [b \in Budgets |-> IF attempts[b].left = 0 THEN attempts[b]
                                    ELSE [attempts[b] EXCEPT !.left = @ - 1]]
  /\ UNCHANGED <<process, shutdown, request>>

-----------------------------------------------------------------------------
Next ==
  \/ Listen \/ Crash \/ Restart \/ Tick
  \/ \E s \in Signals : Signal(s) \/ Closed(s) \/ Disconnected(s) \/ Forced(s)
  \/ \E r \in Requests :
       \/ \E ip \in Ips : Signup(r, ip) \/ \E e \in Emails : Login(r, e, ip)
       \/ LoginVerified(r) \/ Succeeds(r) \/ Fails(r)

Spec == Init /\ [][Next]_vars

\* Time passes and a timer that is due fires.  Requests and the database may
\* hang.
FairSpec == Spec /\ WF_vars(Tick) /\ \A s \in Signals : WF_vars(Forced(s))

-----------------------------------------------------------------------------
(* Properties.                                                             *)

Underway(b) == {r \in Requests : b \in request[r].charged}

\* In one window a key is charged with no more failures than its budget and
\* those of the requests that were let in together before the last was charged:
\* however many are under way, none is let in on a spent budget.
GuessesAreCapped ==
  \A b \in Budgets : attempts[b].left > 0 =>
    attempts[b].count + Cardinality(Underway(b)) < Max(b[1]) + Cardinality(Requests)

\* No lockout lasts: whatever goes on failing, each key is let in again.
LockoutEnds == \A b \in Budgets : []<>Allowed(b)

\* A shutdown is graceful and ends: the pool is not closed under a request,
\* not even by a second signal, and neither a request nor a database that hangs
\* holds it up beyond the limit.
ShutdownIsOrderly ==
  /\ (\E s \in Signals : shutdown[s] = "disconnecting") =>
       \A r \in Requests : request[r].stage = "idle"
  /\ stopping <= ForceAfter
=============================================================================
