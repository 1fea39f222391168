------------------------- MODULE TokenBucketProofs -------------------------
(***************************************************************************)
(* Proofs about TokenBucket for every capacity, refill rate, price of a    *)
(* token and number of takers.                                             *)
(***************************************************************************)
EXTENDS TokenBucket, Integers, TLAPS

\* Looking at a bucket without a token tells a taker to sleep, and only then.
LEMMA WaitIsZero ==
  ASSUME NEW credits \in Nat
  PROVE  /\ WaitFor(credits) \in Nat
         /\ WaitFor(credits) = 0 <=> credits >= TokenCost
<1>1. CASE credits >= TokenCost
  BY <1>1 DEF WaitFor
<1>2. CASE credits < TokenCost
  <2> DEFINE n == TokenCost - credits + Refill - 1
  <2>1. n \in Nat /\ n >= Refill /\ WaitFor(credits) = n \div Refill
    BY <1>2, BucketAssumption DEF WaitFor
  <2> HIDE DEF n
  <2>2. n \div Refill \in Nat /\ n \div Refill >= 1
    BY <2>1, BucketAssumption
  <2>3. QED
    BY <1>2, <2>1, <2>2, BucketAssumption
<1>3. QED
  BY <1>1, <1>2, BucketAssumption

LEMMA GrantHasToken ==
  ASSUME TypeOK, NEW t \in Takers, Grant(t)
  PROVE  tokens >= TokenCost
BY WaitIsZero DEF TypeOK, Grant, waitMs

LEMMA TypeOKStep == TypeOK /\ [Next]_vars => TypeOK'
<1> SUFFICES ASSUME TypeOK, [Next]_vars PROVE TypeOK'
  OBVIOUS
<1>1. CASE OpenWindow
  BY <1>1 DEF OpenWindow, TypeOK
<1>2. CASE Tick
  <2>1. tokens' \in 0..Capacity
    BY <1>2, BucketAssumption DEF Tick, Refilled, TypeOK
  <2>2. timer' \in [Takers -> Nat]
    BY <1>2 DEF Tick, TypeOK
  <2>3. QED
    BY <1>2, <2>1, <2>2 DEF Tick, TypeOK
<1>3. ASSUME NEW t \in Takers, Grant(t)
      PROVE  TypeOK'
  <2>1. tokens' \in 0..Capacity
    <3>1. tokens >= TokenCost
      BY <1>3, GrantHasToken
    <3>2. tokens \in Nat /\ tokens <= Capacity
      BY BucketAssumption DEF TypeOK
    <3>3. tokens' = tokens - TokenCost
      BY <1>3 DEF Grant
    <3>4. QED
      BY <3>1, <3>2, <3>3, BucketAssumption
  <2>2. asleep' \in [Takers -> BOOLEAN]
    BY <1>3 DEF Grant, TypeOK
  <2>3. QED
    BY <1>3, <2>1, <2>2 DEF Grant, TypeOK
<1>4. ASSUME NEW t \in Takers, Sleep(t)
      PROVE  TypeOK'
  <2>1. waitMs \in Nat
    BY WaitIsZero DEF TypeOK, waitMs
  <2>2. asleep' \in [Takers -> BOOLEAN]
    BY <1>4 DEF Sleep, TypeOK
  <2>3. timer' \in [Takers -> Nat]
    BY <1>4, <2>1 DEF Sleep, TypeOK
  <2>4. QED
    BY <1>4, <2>2, <2>3 DEF Sleep, TypeOK
<1>5. CASE UNCHANGED vars
  BY <1>5 DEF vars, TypeOK
<1>6. QED
  BY <1>1, <1>2, <1>3, <1>4, <1>5 DEF Next, Take

\* The bucket holds between no credits and its capacity.
THEOREM TypeCorrect == Spec => []TypeOK
<1>1. Init => TypeOK
  BY BucketAssumption DEF Init, TypeOK
<1>2. QED
  BY <1>1, TypeOKStep, PTL DEF Spec

LEMMA CreditsStep ==
  TypeOK /\ CreditsAreConserved /\ [Next]_vars => CreditsAreConserved'
<1> SUFFICES ASSUME TypeOK, CreditsAreConserved, [Next]_vars
             PROVE  CreditsAreConserved'
  OBVIOUS
<1>1. /\ tokens \in Nat /\ tokens <= Capacity /\ granted \in Nat /\ span \in Nat
      /\ granted * TokenCost \in Nat /\ span * Refill \in Nat
      /\ Capacity \in Nat /\ Refill \in Nat /\ TokenCost \in Nat
  BY BucketAssumption DEF TypeOK
<1>2. CASE OpenWindow
  BY <1>1, <1>2 DEF OpenWindow, CreditsAreConserved
<1>3. CASE Tick
  <2>1. (span + 1) * Refill = span * Refill + Refill
    BY <1>1
  <2>2. tokens' <= tokens + Refill /\ tokens' \in Nat
    BY <1>1, <1>3 DEF Tick, Refilled
  <2>3. QED
    BY <1>1, <1>3, <2>1, <2>2 DEF Tick, CreditsAreConserved
<1>4. ASSUME NEW t \in Takers, Grant(t)
      PROVE  CreditsAreConserved'
  <2>1. (granted + 1) * TokenCost = granted * TokenCost + TokenCost
    BY <1>1
  <2>2. tokens >= TokenCost
    BY <1>4, GrantHasToken
  <2>3. QED
    BY <1>1, <1>4, <2>1, <2>2 DEF Grant, CreditsAreConserved
<1>5. ASSUME NEW t \in Takers, Sleep(t)
      PROVE  CreditsAreConserved'
  BY <1>5 DEF Sleep, CreditsAreConserved
<1>6. CASE UNCHANGED vars
  BY <1>6 DEF vars, CreditsAreConserved
<1>7. QED
  BY <1>2, <1>3, <1>4, <1>5, <1>6 DEF Next, Take

\* No window of any length hands out more than a full bucket and its refills.
THEOREM RateIsLimitedHolds == Spec => []RateIsLimited
<1>1. Init => CreditsAreConserved
  BY BucketAssumption DEF Init, CreditsAreConserved
<1>2. TypeOK /\ CreditsAreConserved => RateIsLimited
  <2> SUFFICES ASSUME TypeOK, CreditsAreConserved PROVE RateIsLimited
    OBVIOUS
  <2>1. /\ tokens \in Nat /\ granted * TokenCost \in Nat
        /\ Capacity + span * Refill \in Nat
    BY BucketAssumption DEF TypeOK
  <2>2. QED
    BY <2>1 DEF CreditsAreConserved, RateIsLimited
<1>3. QED
  BY <1>1, <1>2, TypeCorrect, CreditsStep, PTL DEF Spec

-----------------------------------------------------------------------------
(* Sleepers.                                                               *)

\* A unit of time brings the next token nearer by one unit at most.
LEMMA RefillSavesOne ==
  ASSUME NEW credits \in Nat
  PROVE  WaitFor(credits) <= WaitFor(Refilled(credits)) + 1
<1> USE BucketAssumption
<1>0. /\ TokenCost \in Nat /\ Capacity \in Nat /\ Refill \in Nat
      /\ TokenCost > 0 /\ Refill > 0 /\ TokenCost <= Capacity
  OBVIOUS
<1>1. Refilled(credits) \in Nat /\ WaitFor(Refilled(credits)) \in Nat
  BY <1>0, WaitIsZero DEF Refilled
<1>2. CASE credits >= TokenCost
  BY <1>1, <1>2 DEF WaitFor
<1>3. CASE credits < TokenCost /\ TokenCost <= credits + Refill
  <2> DEFINE n == TokenCost - credits + Refill - 1
  <2>1. n \in Nat /\ n < 2 * Refill /\ WaitFor(credits) = n \div Refill
    BY <1>0, <1>3 DEF WaitFor
  <2> HIDE DEF n
  <2>2. n \div Refill <= 1
    BY <1>0, <2>1
  <2>3. QED
    BY <1>1, <2>1, <2>2
<1>4. CASE credits + Refill < TokenCost
  <2> DEFINE m == TokenCost - (credits + Refill) + Refill - 1
  <2>1. m \in Nat /\ WaitFor(Refilled(credits)) = m \div Refill
    BY <1>0, <1>4 DEF WaitFor, Refilled
  <2>2. WaitFor(credits) = (m + Refill) \div Refill
    BY <1>0, <1>4 DEF WaitFor
  <2> HIDE DEF m
  <2>3. (m + Refill) \div Refill = m \div Refill + 1
    BY <1>0, <2>1
  <2>4. QED
    BY <2>1, <2>2, <2>3, <1>1
<1>5. QED
  BY <1>0, <1>2, <1>3, <1>4

LEMMA SleepsStep ==
  TypeOK /\ SleepsOnlyAsNecessary /\ [Next]_vars => SleepsOnlyAsNecessary'
<1> SUFFICES ASSUME TypeOK, SleepsOnlyAsNecessary, [Next]_vars,
                    NEW s \in Takers, asleep'[s]
             PROVE  timer'[s] <= waitMs'
  BY DEF SleepsOnlyAsNecessary
<1>1. /\ tokens \in Nat /\ waitMs \in Nat /\ timer[s] \in Nat
      /\ asleep[s] => timer[s] <= waitMs
  BY WaitIsZero, BucketAssumption DEF TypeOK, waitMs, SleepsOnlyAsNecessary
<1>2. CASE OpenWindow \/ UNCHANGED vars
  BY <1>1, <1>2 DEF OpenWindow, vars, waitMs
<1>3. CASE Tick
  <2>1. /\ timer'[s] = IF timer[s] > 0 THEN timer[s] - 1 ELSE 0
        /\ tokens' = Refilled(tokens)
    BY <1>3 DEF Tick
  <2>2. timer[s] <= WaitFor(tokens) /\ WaitFor(tokens) <= WaitFor(tokens') + 1
    BY <1>1, <1>3, <2>1, RefillSavesOne DEF Tick, waitMs
  <2>3. WaitFor(tokens') \in Nat
    BY <1>1, <2>1, WaitIsZero, BucketAssumption DEF Refilled
  <2>4. timer[s] \in Nat /\ WaitFor(tokens) \in Nat
    BY <1>1 DEF waitMs
  <2>5. QED
    BY <2>1, <2>2, <2>3, <2>4 DEF waitMs
<1>4. ASSUME NEW t \in Takers, Grant(t)
      PROVE  timer'[s] <= waitMs'
  \* There is a token, so whoever is asleep is about to wake.
  <2>1. s # t /\ asleep[s] /\ timer'[s] = timer[s]
    BY <1>4 DEF Grant, TypeOK
  <2>2. timer[s] = 0
    BY <1>1, <1>4, <2>1 DEF Grant
  <2>3. tokens' \in Nat
    <3>1. tokens >= TokenCost /\ tokens' = tokens - TokenCost
      BY <1>4, GrantHasToken DEF Grant
    <3>2. QED
      BY <1>1, <3>1, BucketAssumption
  <2>4. QED
    BY <2>1, <2>2, <2>3, WaitIsZero DEF waitMs
<1>5. ASSUME NEW t \in Takers, Sleep(t)
      PROVE  timer'[s] <= waitMs'
  BY <1>1, <1>5 DEF Sleep, TypeOK, waitMs
<1>6. QED
  BY <1>2, <1>3, <1>4, <1>5 DEF Next, Take

\* "sleeping only as long as necessary": no taker sleeps past the moment a token
\* is there for it, whoever else took one meanwhile.
THEOREM SleepsOnlyAsNecessaryHolds == Spec => []SleepsOnlyAsNecessary
<1>1. Init => SleepsOnlyAsNecessary
  BY DEF Init, SleepsOnlyAsNecessary
<1>2. QED
  BY <1>1, TypeCorrect, SleepsStep, PTL DEF Spec
=============================================================================
