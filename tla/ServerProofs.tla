---------------------------- MODULE ServerProofs ----------------------------
(***************************************************************************)
(* Proofs about Server for every number of requests under way, every size  *)
(* of the budgets, windows and maps, and every set of signals.             *)
(***************************************************************************)
EXTENDS Server, FiniteSetTheorems, TLAPS

\* Every budget is one of a kind, and the numbers of a kind are numbers.
LEMMA KindOfBudget ==
  ASSUME NEW b \in Budgets
  PROVE  /\ b[1] \in Kinds
         /\ Max(b[1]) \in Nat \ {0}
         /\ Window(b[1]) \in Nat \ {0}
<1>1. b[1] \in Kinds
  BY DEF Budgets, Kinds
<1>2. QED
  BY <1>1, ServerAssumption

\* Charging an entry leaves an entry, of an open window.
LEMMA ChargedType ==
  ASSUME NEW b \in Budgets, NEW a \in Attempt
  PROVE  /\ Charged(a, b) \in Attempt
         /\ Charged(a, b).count = (IF a.left = 0 THEN 1 ELSE a.count + 1)
         /\ Charged(a, b).left > 0
BY KindOfBudget DEF Charged, Attempt

LEMMA RecordedType ==
  ASSUME TypeOK, NEW B \in SUBSET Budgets, RecordFailures(B)
  PROVE  attempts' \in [Budgets -> Attempt]
<1>1. PICK E \in Evictions(B) :
        attempts' = [b \in Budgets |-> IF b \in B THEN Charged(attempts[b], b)
                                       ELSE IF b \in E THEN Nothing ELSE attempts[b]]
  BY DEF RecordFailures
<1>2. ASSUME NEW b \in Budgets PROVE attempts[b] \in Attempt
  BY DEF TypeOK
<1>3. Nothing \in Attempt
  BY DEF Nothing, Attempt
<1>4. QED
  BY <1>1, <1>2, <1>3, ChargedType

LEMMA FreshType == Fresh => /\ shutdown' \in [Signals -> {"none", "closing", "disconnecting"}]
                            /\ forced' \in [Signals -> 0 .. ForceAfter]
                            /\ stopping' \in Nat
                            /\ attempts' \in [Budgets -> Attempt]
                            /\ request' \in [Requests -> Request]
BY ServerAssumption DEF Fresh, Nothing, Attempt, Idle, Request, Stage

-----------------------------------------------------------------------------
LEMMA TypeOKInit == Init => TypeOK
BY ServerAssumption DEF Init, TypeOK, Nothing, Attempt, Idle, Request, Stage

LEMMA TypeOKStep == TypeOK /\ [Next]_vars => TypeOK'
<1> SUFFICES ASSUME TypeOK, [Next]_vars PROVE TypeOK'
  OBVIOUS
<1>1. ASSUME NEW r \in Requests, NEW stage \in Stage, NEW B \in SUBSET Budgets,
             Awaits(r, stage, B)
      PROVE  request' \in [Requests -> Request]
  <2>1. [stage |-> stage, charged |-> B] \in Request
    BY DEF Request
  <2>2. QED
    BY <1>1, <2>1 DEF Awaits, TypeOK
<1>2. CASE Listen \/ Restart
  BY <1>2 DEF Listen, Restart, TypeOK
<1>3. ASSUME Exit PROVE TypeOK'
  BY <1>3, FreshType DEF Exit, TypeOK
<1>4. CASE Tick
  <2>1. forced' \in [Signals -> 0 .. ForceAfter]
    BY <1>4, ServerAssumption DEF Tick, TypeOK
  <2>2. ASSUME NEW b \in Budgets, attempts[b].left # 0
        PROVE  [attempts[b] EXCEPT !.left = @ - 1] \in Attempt
    <3>1. attempts[b] \in Attempt
      BY DEF TypeOK
    <3>2. attempts[b].left - 1 \in Nat
      BY <2>2, <3>1 DEF Attempt
    <3>3. QED
      BY <3>1, <3>2 DEF Attempt
  <2>3. attempts' \in [Budgets -> Attempt]
    BY <1>4, <2>2 DEF Tick, TypeOK
  <2>4. QED
    BY <1>4, <2>1, <2>3 DEF Tick, TypeOK
<1>5. ASSUME NEW s \in Signals, Signal(s) \/ Closed(s)
      PROVE  TypeOK'
  BY <1>5 DEF Signal, Closed, TypeOK
<1>6. ASSUME NEW r \in Requests, NEW ip \in Ips, Signup(r, ip)
      PROVE  TypeOK'
  <2>1. {<<"signup", ip>>} \in SUBSET Budgets
    BY DEF Budgets
  <2>2. QED
    BY <1>1, <1>6, <2>1 DEF Signup, TypeOK, Stage
<1>7. ASSUME NEW r \in Requests, NEW ip \in Ips, NEW e \in Emails, Login(r, e, ip)
      PROVE  TypeOK'
  <2>1. {<<"email", e>>, <<"ip", ip>>} \in SUBSET Budgets
    BY DEF Budgets
  <2>2. QED
    BY <1>1, <1>7, <2>1 DEF Login, TypeOK, Stage
<1>8. ASSUME NEW r \in Requests, LoginVerified(r)
      PROVE  TypeOK'
  <2>1. request[r].charged \in SUBSET Budgets
    BY DEF TypeOK, Request
  <2>2. attempts' \in [Budgets -> Attempt]
    BY <1>8 DEF LoginVerified, Reset, TypeOK, Nothing, Attempt
  <2>3. QED
    BY <1>1, <1>8, <2>1, <2>2 DEF LoginVerified, TypeOK, Stage
<1>9. ASSUME NEW r \in Requests, Succeeds(r)
      PROVE  TypeOK'
  BY <1>9 DEF Succeeds, TypeOK, Idle, Request, Stage
<1>10. ASSUME NEW r \in Requests, Fails(r)
       PROVE  TypeOK'
  <2>1. request[r].charged \in SUBSET Budgets
    BY DEF TypeOK, Request
  <2>2. attempts' \in [Budgets -> Attempt]
    BY <1>10, <2>1, RecordedType DEF Fails
  <2>3. request' \in [Requests -> Request]
    BY <1>10 DEF Fails, TypeOK, Idle, Request, Stage
  <2>4. QED
    BY <1>10, <2>2, <2>3 DEF Fails, TypeOK
<1>11. CASE UNCHANGED vars
  BY <1>11 DEF vars, TypeOK
<1>12. QED
  BY <1>2, <1>3, <1>4, <1>5, <1>6, <1>7, <1>8, <1>9, <1>10, <1>11
     DEF Next, Crash, Disconnected, Forced

\* The server's state always has its type: counts are numbers, timers do not run
\* past their end, requests are charged to budgets there are.
THEOREM TypeCorrect == Spec => []TypeOK
BY TypeOKInit, TypeOKStep, PTL DEF Spec

-----------------------------------------------------------------------------
(* Shutdown.  The signal that came first has a timer that accounts for all *)
(* the time since; without a shutdown there is nothing to account for.     *)

Unsignalled == \A s \in Signals : shutdown[s] = "none"

ShutdownInv ==
  /\ process # "stopping" => Unsignalled /\ stopping = 0
  /\ process = "stopping" => \E s \in Signals : /\ shutdown[s] # "none"
                                                /\ forced[s] + stopping = ForceAfter
  /\ \A s \in Signals : shutdown[s] = "none" => forced[s] = ForceAfter
  /\ (\E s \in Signals : shutdown[s] = "disconnecting") => Drained

LEMMA ShutdownInvInit == Init => ShutdownInv
BY DEF Init, ShutdownInv, Unsignalled

LEMMA ShutdownInvFresh == Fresh /\ process' # "stopping" => ShutdownInv'
BY DEF Fresh, ShutdownInv, Unsignalled

LEMMA ShutdownInvStep == TypeOK /\ ShutdownInv /\ [Next]_vars => ShutdownInv'
<1> SUFFICES ASSUME TypeOK, ShutdownInv, [Next]_vars PROVE ShutdownInv'
  OBVIOUS
<1>1. CASE Listen \/ Restart
  BY <1>1 DEF Listen, Restart, ShutdownInv, Unsignalled, Drained
<1>2. ASSUME Exit PROVE ShutdownInv'
  BY <1>2, ShutdownInvFresh DEF Exit
<1>3. CASE Tick
  <2>1. \A s \in Signals : shutdown[s] = "none" => forced'[s] = forced[s]
    BY <1>3 DEF Tick
  <2>2. \A s \in Signals : shutdown[s] # "none" => forced[s] # 0 /\ forced'[s] = forced[s] - 1
    BY <1>3 DEF Tick, Due
  <2>3. process = "stopping" => \E s \in Signals : /\ shutdown'[s] # "none"
                                                   /\ forced'[s] + stopping' = ForceAfter
    <3> SUFFICES ASSUME process = "stopping"
                 PROVE  \E s \in Signals : /\ shutdown'[s] # "none"
                                           /\ forced'[s] + stopping' = ForceAfter
      OBVIOUS
    <3>1. PICK s \in Signals : shutdown[s] # "none" /\ forced[s] + stopping = ForceAfter
      BY DEF ShutdownInv
    <3>2. forced[s] \in Nat /\ stopping \in Nat
      BY DEF TypeOK
    <3>3. shutdown'[s] # "none" /\ forced'[s] + stopping' = ForceAfter
      BY <1>3, <2>2, <3>1, <3>2, ServerAssumption DEF Tick
    <3>4. QED
      BY <3>3
  <2>4. QED
    BY <1>3, <2>1, <2>3 DEF Tick, ShutdownInv, Unsignalled, Drained
<1>4. ASSUME NEW s \in Signals, Signal(s)
      PROVE  ShutdownInv'
  <2>1. shutdown'[s] = "closing" /\ \A t \in Signals \ {s} : shutdown'[t] = shutdown[t]
    BY <1>4 DEF Signal, TypeOK
  <2>2. CASE process = "serving"
    <3>1. stopping = 0 /\ forced[s] = ForceAfter
      BY <1>4, <2>2 DEF Signal, ShutdownInv, Unsignalled
    <3>2. forced'[s] + stopping' = ForceAfter
      BY <1>4, <3>1, ServerAssumption DEF Signal
    <3>3. QED
      BY <1>4, <2>1, <2>2, <3>2 DEF Signal, ShutdownInv, Unsignalled, Drained
  <2>3. CASE process = "stopping"
    BY <1>4, <2>1, <2>3 DEF Signal, ShutdownInv, Unsignalled, Drained
  <2>4. QED
    BY <1>4, <2>2, <2>3 DEF Signal
<1>5. ASSUME NEW s \in Signals, Closed(s)
      PROVE  ShutdownInv'
  <2>1. \A t \in Signals : (shutdown'[t] = "none") <=> (shutdown[t] = "none")
    BY <1>5 DEF Closed, TypeOK
  <2>2. Drained'
    BY <1>5 DEF Closed, Drained
  <2>3. QED
    BY <1>5, <2>1, <2>2 DEF Closed, ShutdownInv, Unsignalled
<1>6. ASSUME process = "serving", UNCHANGED <<process, shutdown, forced, stopping>>
      PROVE  ShutdownInv'
  BY <1>6 DEF ShutdownInv, Unsignalled
<1>7. ASSUME NEW r \in Requests, UNCHANGED <<process, shutdown, forced, stopping>>,
             request[r] # Idle
      PROVE  ShutdownInv'
  BY <1>7 DEF ShutdownInv, Unsignalled, Drained
<1>8. ASSUME NEW r \in Requests,
             \E ip \in Ips : Signup(r, ip) \/ \E e \in Emails : Login(r, e, ip)
      PROVE  ShutdownInv'
  BY <1>6, <1>8 DEF Signup, Login
<1>9. ASSUME NEW r \in Requests, LoginVerified(r) \/ Succeeds(r) \/ Fails(r)
      PROVE  ShutdownInv'
  <2>1. request[r] # Idle /\ UNCHANGED <<process, shutdown, forced, stopping>>
    BY <1>9 DEF LoginVerified, Succeeds, Fails, Idle
  <2>2. QED
    BY <1>7, <2>1
<1>10. CASE UNCHANGED vars
  BY <1>10 DEF vars, ShutdownInv, Unsignalled, Drained
<1>11. QED
  BY <1>1, <1>2, <1>3, <1>4, <1>5, <1>8, <1>9, <1>10 DEF Next, Crash, Disconnected, Forced

LEMMA ShutdownInvImplies == TypeOK /\ ShutdownInv => ShutdownIsOrderly
<1> SUFFICES ASSUME TypeOK, ShutdownInv PROVE ShutdownIsOrderly
  OBVIOUS
<1>1. stopping <= ForceAfter
  <2>1. CASE process = "stopping"
    <3>1. PICK s \in Signals : forced[s] + stopping = ForceAfter
      BY <2>1 DEF ShutdownInv
    <3>2. forced[s] \in Nat /\ stopping \in Nat
      BY DEF TypeOK
    <3>3. QED
      BY <3>1, <3>2, ServerAssumption
  <2>2. CASE process # "stopping"
    BY <2>2, ServerAssumption DEF ShutdownInv
  <2>3. QED
    BY <2>1, <2>2
<1>2. QED
  BY <1>1 DEF ShutdownInv, ShutdownIsOrderly, Drained, Idle

\* Whatever signals come and whatever hangs, a shutdown closes the pool under no
\* request and is over in time.
THEOREM ShutdownIsOrderlyHolds == Spec => []ShutdownIsOrderly
BY TypeOKInit, TypeOKStep, ShutdownInvInit, ShutdownInvStep, ShutdownInvImplies, PTL DEF Spec

-----------------------------------------------------------------------------
(* The budgets.                                                            *)

LEMMA UnderwayFinite ==
  ASSUME NEW b
  PROVE  /\ Underway(b) \subseteq Requests
         /\ IsFiniteSet(Underway(b)) /\ Cardinality(Underway(b)) \in Nat
         /\ Cardinality(Requests) \in Nat
         /\ Cardinality(Underway(b)) <= Cardinality(Requests)
<1>1. Underway(b) \in SUBSET Requests
  BY DEF Underway
<1>2. QED
  BY <1>1, FS_Subset, FS_CardinalityType, ServerAssumption

LEMMA UnderwayFiniteNext ==
  ASSUME NEW b
  PROVE  /\ Cardinality(Underway(b)') \in Nat
         /\ Cardinality(Underway(b)') <= Cardinality(Requests)
<1>1. Underway(b)' \in SUBSET Requests
  BY DEF Underway
<1>2. QED
  BY <1>1, FS_Subset, FS_CardinalityType, ServerAssumption

LEMMA FewerUnderway ==
  ASSUME NEW b, Underway(b)' \subseteq Underway(b)
  PROVE  Cardinality(Underway(b)') <= Cardinality(Underway(b))
BY UnderwayFinite, FS_Subset

\* A budget that no window is open for, or whose entry and requests only
\* become fewer, stays within its bound.
LEMMA CappedByLess ==
  ASSUME TypeOK, TypeOK', GuessesAreCapped, NEW b \in Budgets,
         \/ attempts'[b].left = 0
         \/ /\ attempts[b].left > 0 /\ attempts'[b].count = attempts[b].count
            /\ Underway(b)' \subseteq Underway(b)
  PROVE  attempts'[b].left > 0 =>
           attempts'[b].count + Cardinality(Underway(b)') < Max(b[1]) + Cardinality(Requests)
<1>1. attempts[b] \in Attempt /\ attempts'[b] \in Attempt
  BY DEF TypeOK
<1>2. CASE attempts'[b].left = 0
  BY <1>2
<1>3. CASE /\ attempts[b].left > 0 /\ attempts'[b].count = attempts[b].count
           /\ Underway(b)' \subseteq Underway(b)
  <2>1. attempts[b].count + Cardinality(Underway(b)) < Max(b[1]) + Cardinality(Requests)
    BY <1>3 DEF GuessesAreCapped
  <2>2. Cardinality(Underway(b)') <= Cardinality(Underway(b))
    BY <1>3, FewerUnderway
  <2>3. QED
    BY <1>1, <1>3, <2>1, <2>2, UnderwayFinite, UnderwayFiniteNext, KindOfBudget DEF Attempt
<1>4. QED
  BY <1>2, <1>3

\* A budget that lets a request in has room for all that can be under way.
LEMMA CappedByAllowed ==
  ASSUME TypeOK, NEW b \in Budgets, Allowed(b), UNCHANGED attempts
  PROVE  attempts'[b].left > 0 =>
           attempts'[b].count + Cardinality(Underway(b)') < Max(b[1]) + Cardinality(Requests)
<1>1. attempts[b] \in Attempt
  BY DEF TypeOK
<1>2. attempts[b].left > 0 => attempts[b].count < Max(b[1])
  BY <1>1 DEF Allowed, Attempt
<1>3. QED
  BY <1>1, <1>2, UnderwayFinite, UnderwayFiniteNext, KindOfBudget DEF Attempt

\* A failure turns a request under way into a count of one.
LEMMA CappedByFailure ==
  ASSUME TypeOK, GuessesAreCapped, NEW r \in Requests, NEW b \in request[r].charged,
         b \in Budgets, attempts'[b] = Charged(attempts[b], b),
         request' = [request EXCEPT ![r] = Idle]
  PROVE  attempts'[b].count + Cardinality(Underway(b)') < Max(b[1]) + Cardinality(Requests)
<1>1. attempts[b] \in Attempt
  BY DEF TypeOK
<1>2. r \in Underway(b) /\ Underway(b)' = Underway(b) \ {r}
  BY DEF Underway, Idle, TypeOK
<1>3. Cardinality(Underway(b)') = Cardinality(Underway(b)) - 1
  BY <1>2, UnderwayFinite, FS_RemoveElement
<1>4. CASE attempts[b].left = 0
  <2>1. attempts'[b].count = 1
    BY <1>1, <1>4, ChargedType
  <2>2. QED
    BY <1>3, <2>1, UnderwayFinite, KindOfBudget
<1>5. CASE attempts[b].left > 0
  <2>1. attempts'[b].count = attempts[b].count + 1
    BY <1>1, <1>5, ChargedType
  <2>2. attempts[b].count + Cardinality(Underway(b)) < Max(b[1]) + Cardinality(Requests)
    BY <1>5 DEF GuessesAreCapped
  <2>3. QED
    BY <1>1, <1>3, <2>1, <2>2, UnderwayFinite, KindOfBudget DEF Attempt
<1>6. QED
  BY <1>1, <1>4, <1>5 DEF Attempt

LEMMA CappedInit == Init => GuessesAreCapped
BY DEF Init, GuessesAreCapped, Nothing

LEMMA CappedStep == TypeOK /\ TypeOK' /\ GuessesAreCapped /\ [Next]_vars => GuessesAreCapped'
<1> SUFFICES ASSUME TypeOK, TypeOK', GuessesAreCapped, [Next]_vars,
                    NEW b \in Budgets, attempts'[b].left > 0
             PROVE  attempts'[b].count + Cardinality(Underway(b)')
                      < Max(b[1]) + Cardinality(Requests)
  BY DEF GuessesAreCapped, Underway
<1>1. attempts[b] \in Attempt
  BY DEF TypeOK
<1>2. ASSUME UNCHANGED attempts, Underway(b)' \subseteq Underway(b)
      PROVE  attempts'[b].count + Cardinality(Underway(b)') < Max(b[1]) + Cardinality(Requests)
  BY <1>2, CappedByLess
<1>3. CASE \/ Listen \/ Restart \/ UNCHANGED vars
           \/ \E s \in Signals : Signal(s) \/ Closed(s)
  BY <1>2, <1>3 DEF Listen, Restart, vars, Signal, Closed, Underway
<1>4. ASSUME Exit PROVE FALSE
  BY <1>4 DEF Exit, Fresh, Nothing
<1>5. CASE Tick
  <2>1. attempts[b].left > 0 /\ attempts'[b].count = attempts[b].count
    BY <1>1, <1>5 DEF Tick, TypeOK, Attempt
  <2>2. Underway(b)' \subseteq Underway(b)
    BY <1>5 DEF Tick, Underway
  <2>3. QED
    BY <2>1, <2>2, CappedByLess
<1>6. ASSUME NEW r \in Requests, NEW stage, NEW B, Awaits(r, stage, B), b \notin B
      PROVE  Underway(b)' \subseteq Underway(b)
  BY <1>6 DEF Awaits, Underway, TypeOK
<1>7. ASSUME NEW r \in Requests, NEW ip \in Ips, Signup(r, ip)
      PROVE  attempts'[b].count + Cardinality(Underway(b)') < Max(b[1]) + Cardinality(Requests)
  <2>1. CASE b = <<"signup", ip>>
    BY <1>7, <2>1, CappedByAllowed DEF Signup
  <2>2. CASE b # <<"signup", ip>>
    BY <1>2, <1>6, <1>7, <2>2 DEF Signup
  <2>3. QED
    BY <2>1, <2>2
<1>8. ASSUME NEW r \in Requests, NEW ip \in Ips, NEW e \in Emails, Login(r, e, ip)
      PROVE  attempts'[b].count + Cardinality(Underway(b)') < Max(b[1]) + Cardinality(Requests)
  <2>1. CASE b \in {<<"email", e>>, <<"ip", ip>>}
    BY <1>8, <2>1, CappedByAllowed DEF Login
  <2>2. CASE b \notin {<<"email", e>>, <<"ip", ip>>}
    BY <1>2, <1>6, <1>8, <2>2 DEF Login
  <2>3. QED
    BY <2>1, <2>2
<1>9. ASSUME NEW r \in Requests, LoginVerified(r)
      PROVE  attempts'[b].count + Cardinality(Underway(b)') < Max(b[1]) + Cardinality(Requests)
  <2>1. Underway(b)' = Underway(b)
    BY <1>9 DEF LoginVerified, Awaits, Underway, TypeOK
  <2>2. attempts'[b] \in {Nothing, attempts[b]}
    BY <1>9 DEF LoginVerified, Reset
  <2>3. attempts'[b] = attempts[b]
    BY <2>2 DEF Nothing
  <2>4. QED
    BY <2>1, <2>3, CappedByLess
<1>10. ASSUME NEW r \in Requests, Succeeds(r)
       PROVE  attempts'[b].count + Cardinality(Underway(b)') < Max(b[1]) + Cardinality(Requests)
  <2>1. Underway(b)' \subseteq Underway(b)
    BY <1>10 DEF Succeeds, Idle, Underway, TypeOK
  <2>2. QED
    BY <1>2, <1>10, <2>1 DEF Succeeds
<1>11. ASSUME NEW r \in Requests, Fails(r)
       PROVE  attempts'[b].count + Cardinality(Underway(b)') < Max(b[1]) + Cardinality(Requests)
  <2>1. PICK E : attempts' = [x \in Budgets |->
                   IF x \in request[r].charged THEN Charged(attempts[x], x)
                   ELSE IF x \in E THEN Nothing ELSE attempts[x]]
    BY <1>11 DEF Fails, RecordFailures
  <2>2. CASE b \in request[r].charged
    BY <1>11, <2>1, <2>2, CappedByFailure DEF Fails
  <2>3. CASE b \notin request[r].charged
    <3>1. attempts'[b] = attempts[b]
      BY <2>1, <2>3 DEF Nothing
    <3>2. Underway(b)' \subseteq Underway(b)
      BY <1>11 DEF Fails, Idle, Underway, TypeOK
    <3>3. QED
      BY <3>1, <3>2, CappedByLess
  <2>4. QED
    BY <2>2, <2>3
<1>12. QED
  BY <1>3, <1>4, <1>5, <1>7, <1>8, <1>9, <1>10, <1>11 DEF Next, Crash, Disconnected, Forced

\* However many requests check a budget before any of them is charged, the
\* failures of one window stay below the budget and the requests under way.
THEOREM GuessesAreCappedHolds == Spec => []GuessesAreCapped
BY TypeOKInit, TypeOKStep, CappedInit, CappedStep, PTL DEF Spec
=============================================================================
