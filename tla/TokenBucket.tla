---------------------------- MODULE TokenBucket ----------------------------
(***************************************************************************)
(* The client-side rate limiter of server/src/lib/tokenBucket.ts.  tokens  *)
(* is a fraction there; here it counts credits, of which a token costs     *)
(* TokenCost and each unit of time adds Refill.  Every reader refills      *)
(* first, so the module keeps what a refill() would leave now.             *)
(*                                                                         *)
(* take() consumes a token or sleeps until one should be there and looks   *)
(* again: sleepers keep no place, and whoever looks first gets the token.  *)
(*                                                                         *)
(* An observer may begin to count at any moment: granted and span are what *)
(* it has counted, and say how many tokens any window of time handed out.  *)
(***************************************************************************)
EXTENDS Naturals

CONSTANTS Takers,     \* concurrent calls of take()
          Capacity,   \* capacity, in credits
          Refill,     \* refillPerSecond, in credits per unit of time
          TokenCost,  \* credits of one token
          MaxSpan     \* bound on the window observed

ASSUME BucketAssumption ==
  /\ TokenCost \in Nat \ {0}
  /\ Capacity \in Nat /\ Capacity >= TokenCost
  /\ Refill \in Nat \ {0}
  /\ MaxSpan \in Nat

VARIABLES tokens,   \* credits in the bucket
          asleep,   \* asleep[t]: t is in the setTimeout of take()
          timer,    \* timer[t]: what is left of it
          granted,  \* tokens handed out in the observed window
          span      \* its length so far

vars == <<tokens, asleep, timer, granted, span>>

\* Mutant: a whole token's time, whatever the bucket holds.
WaitForWholeToken(credits) ==
  IF credits >= TokenCost THEN 0 ELSE (TokenCost + Refill - 1) \div Refill

\* Time until a token is there if nobody takes one: waitMs(), rounded up.
WaitFor(credits) ==
  IF credits >= TokenCost THEN 0
  ELSE (TokenCost - credits + Refill - 1) \div Refill

waitMs == WaitFor(tokens)

\* Mutant: whole tokens only, the fraction lost with each refill.
RefilledWholeTokens(credits) ==
  IF credits + Refill > Capacity THEN Capacity
  ELSE TokenCost * ((credits + Refill) \div TokenCost)

Refilled(credits) == IF credits + Refill > Capacity THEN Capacity ELSE credits + Refill

Init ==
  /\ tokens = Capacity
  /\ asleep = [t \in Takers |-> FALSE]
  /\ timer = [t \in Takers |-> 0]
  /\ granted = 0
  /\ span = 0

\* take() looks: it starts, or its timeout has fired.
Looks(t) == asleep[t] => timer[t] = 0

\* Mutant: a sleeper that wakes takes the token it slept for unseen.
GrantUnseen(t) ==
  /\ Looks(t)
  /\ asleep[t] \/ waitMs = 0
  /\ tokens' = IF tokens >= TokenCost THEN tokens - TokenCost ELSE 0
  /\ asleep' = [asleep EXCEPT ![t] = FALSE]
  /\ granted' = granted + 1
  /\ UNCHANGED <<timer, span>>

Grant(t) ==
  /\ Looks(t)
  /\ waitMs = 0
  /\ tokens' = tokens - TokenCost
  /\ asleep' = [asleep EXCEPT ![t] = FALSE]
  /\ granted' = granted + 1
  /\ UNCHANGED <<timer, span>>

Sleep(t) ==
  /\ Looks(t)
  /\ waitMs > 0
  /\ asleep' = [asleep EXCEPT ![t] = TRUE]
  /\ timer' = [timer EXCEPT ![t] = waitMs]
  /\ UNCHANGED <<tokens, granted, span>>

Take(t) == Grant(t) \/ Sleep(t)

\* The observer starts to count.
OpenWindow ==
  /\ granted' = 0
  /\ span' = 0
  /\ UNCHANGED <<tokens, asleep, timer>>

Tick ==
  /\ span < MaxSpan
  /\ span' = span + 1
  /\ tokens' = Refilled(tokens)
  /\ timer' = [t \in Takers |-> IF timer[t] > 0 THEN timer[t] - 1 ELSE 0]
  /\ UNCHANGED <<asleep, granted>>

Next == OpenWindow \/ Tick \/ \E t \in Takers : Take(t)

Spec == Init /\ [][Next]_vars

\* Time passes without end and sleepers look when their timeouts fire; no
\* fairness chooses between them.
FairSpec ==
  /\ Spec
  /\ []<><<Tick>>_vars
  /\ \A t \in Takers : WF_vars(asleep[t] /\ Take(t))

-----------------------------------------------------------------------------
(* Properties.                                                             *)

\* Type correctness: the credits stay between none and the capacity.
TypeOK ==
  /\ tokens \in 0..Capacity
  /\ asleep \in [Takers -> BOOLEAN]
  /\ timer \in [Takers -> Nat]
  /\ granted \in Nat
  /\ span \in Nat

\* In every window the tokens handed out are at most a full bucket and what
\* was refilled in it, however takers sleep, wake and race.
RateIsLimited == granted * TokenCost <= Capacity + span * Refill

\* The inductive invariant behind it (TokenBucketProofs): what the window has
\* handed out and what is left came out of a full bucket and the refills.
CreditsAreConserved == tokens + granted * TokenCost <= Capacity + span * Refill

\* "sleeping only as long as necessary": no taker sleeps past the moment a
\* token is there for it.
SleepsOnlyAsNecessary == \A t \in Takers : asleep[t] => timer[t] <= waitMs

\* While takers wait, tokens keep being handed out: they do not put one
\* another to sleep for good.
WaitersDrain ==
  []<>(\A t \in Takers : ~asleep[t]) \/ []<><<\E t \in Takers : Grant(t)>>_vars

=============================================================================
