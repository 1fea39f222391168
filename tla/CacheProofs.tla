---------------------------- MODULE CacheProofs ----------------------------
(***************************************************************************)
(* Proofs about Cache for every number of processes, keys, requests and    *)
(* promises, every policy and every size of the LRU map.                   *)
(***************************************************************************)
EXTENDS Cache, TLAPS

L1Type == [Instances -> [Keys -> Slot \cup {None}]]

LEMMA EntryType ==
  ASSUME NEW a \in Nat, NEW b \in Nat
  PROVE  [payload |-> a, expiresAt |-> b] \in Entry
BY DEF Entry

\* What get() leaves in the LRU map.
LEMMA L1GetType ==
  ASSUME TypeOK, NEW i \in Instances, NEW k \in Keys
  PROVE  /\ L1Get(i, k) \in Entry \cup {None}
         /\ L1Get(i, k) # None => l1[i][k] # None /\ L1Get(i, k) = l1[i][k].entry
         /\ L1AfterGet(i, k) \in L1Type
         /\ \A j \in Instances, o \in Keys :
              L1AfterGet(i, k)[j][o] \in {None, l1[j][o]}
         /\ L1Get(i, k) = None => L1AfterGet(i, k)[i][k] = None
         /\ L1Get(i, k) # None => L1AfterGet(i, k) = l1
<1>1. l1 \in L1Type /\ l1[i][k] \in Slot \cup {None}
  BY DEF TypeOK, L1Type
<1>2. L1Get(i, k) \in Entry \cup {None}
  BY <1>1, NoneAssumption DEF L1Get, Slot
<1>3. L1Get(i, k) # None => l1[i][k] # None /\ L1Get(i, k) = l1[i][k].entry
  BY DEF L1Get
<1>4. [l1 EXCEPT ![i][k] = None] \in L1Type
  BY <1>1 DEF L1Type
<1>5. \A j \in Instances, o \in Keys :
        [l1 EXCEPT ![i][k] = None][j][o] \in {None, l1[j][o]}
  BY <1>1 DEF L1Type
<1>6. [l1 EXCEPT ![i][k] = None][i][k] = None
  BY <1>1 DEF L1Type
<1>7. QED
  BY <1>1, <1>2, <1>3, <1>4, <1>5, <1>6 DEF L1AfterGet

\* What set() leaves in it: the new slot, and elsewhere the old or nothing.
LEMMA L1SetType ==
  ASSUME TypeOK, NEW i \in Instances, NEW k \in Keys, NEW e \in Entry,
         NEW m \in L1AfterSet(i, k, e)
  PROVE  /\ m \in L1Type
         /\ m[i][k] = [entry |-> e, setAt |-> now]
         /\ \A j \in Instances, o \in Keys :
              (j # i \/ o # k) => m[j][o] \in {None, l1[j][o]}
<1> DEFINE slot   == [entry |-> e, setAt |-> now]
           put    == [l1[i] EXCEPT ![k] = slot]
           others == {o \in Keys \ {k} : l1[i][o] # None}
<1>1. l1 \in L1Type /\ l1[i] \in [Keys -> Slot \cup {None}]
  BY DEF TypeOK, L1Type
<1>2. slot \in Slot
  BY DEF TypeOK, Slot
<1>3. /\ put \in [Keys -> Slot \cup {None}]
      /\ put[k] = slot
      /\ \A o \in Keys \ {k} : put[o] = l1[i][o]
  BY <1>1, <1>2
<1>4. \/ m = [l1 EXCEPT ![i] = put]
      \/ \E x \in others : m = [l1 EXCEPT ![i] = [put EXCEPT ![x] = None]]
  BY DEF L1AfterSet
<1> HIDE DEF put, slot
<1>5. CASE m = [l1 EXCEPT ![i] = put]
  BY <1>1, <1>2, <1>3, <1>5 DEF L1Type, slot
<1>6. CASE \E x \in others : m = [l1 EXCEPT ![i] = [put EXCEPT ![x] = None]]
  <2>1. PICK x \in others : m = [l1 EXCEPT ![i] = [put EXCEPT ![x] = None]]
    BY <1>6
  <2>2. [put EXCEPT ![x] = None] \in [Keys -> Slot \cup {None}]
    BY <1>3
  <2>3. QED
    BY <1>1, <1>3, <2>1, <2>2 DEF L1Type, slot
<1>7. QED
  BY <1>4, <1>5, <1>6

-----------------------------------------------------------------------------
(* Type correctness.                                                       *)

LEMMA BeginType ==
  ASSUME TypeOK, NEW p \in Loads, NEW i \in Instances, NEW k \in Keys,
         NEW f \in Entry \cup {None}, Begin(p, i, k, f)
  PROVE  /\ load' \in [Loads -> LoadState \cup {None}]
         /\ inFlight' \in [Instances -> [Keys -> Loads \cup {None}]]
<1>1. [phase |-> "reading", inst |-> i, key |-> k, row |-> None, fallback |-> f]
        \in LoadState
  BY DEF LoadState
<1>2. QED
  BY <1>1 DEF Begin, TypeOK

LEMMA SettleType ==
  ASSUME TypeOK, NEW p \in Loads, load[p] # None,
         NEW status \in Status, NEW stale \in BOOLEAN, NEW payload \in Nat,
         Settle(p, Result(p, status, stale, payload))
  PROVE  /\ load' \in [Loads -> LoadState \cup {None}]
         /\ inFlight' \in [Instances -> [Keys -> Loads \cup {None}]]
         /\ waitsOn' \in [Callers -> Loads \cup {None}]
         /\ answer' \in Answer \cup {None}
<1>1. load[p] \in LoadState
  BY DEF TypeOK
<1>2. Result(p, status, stale, payload) \in Answer
  BY <1>1 DEF Result, Answer, LoadState
<1>3. QED
  BY <1>1, <1>2 DEF Settle, TypeOK, LoadState

LEMMA TypeOKInit == Init => TypeOK
BY DEF Init, TypeOK

LEMMA TypeOKStep == TypeOK /\ [Next]_vars => TypeOK'
<1> SUFFICES ASSUME TypeOK, [Next]_vars PROVE TypeOK'
  OBVIOUS
<1>1. ASSUME NEW c \in Callers, NEW i \in Instances, NEW k \in Keys, HitL1(c, i, k)
      PROVE  TypeOK'
  <2>1. L1Get(i, k) \in Entry
    BY <1>1, L1GetType DEF HitL1
  <2>2. answer' \in Answer
    BY <1>1, <2>1 DEF HitL1, Answer, Status, Entry
  <2>3. QED
    BY <1>1, <2>2 DEF HitL1, TypeOK
<1>2. ASSUME NEW c \in Callers, NEW i \in Instances, NEW k \in Keys, Revalidate(c, i, k)
      PROVE  TypeOK'
  <2>1. L1Get(i, k) \in Entry
    BY <1>2, L1GetType DEF Revalidate
  <2>2. answer' \in Answer
    BY <1>2, <2>1 DEF Revalidate, Answer, Status, Entry
  <2>3. /\ load' \in [Loads -> LoadState \cup {None}]
        /\ inFlight' \in [Instances -> [Keys -> Loads \cup {None}]]
    <3>1. CASE UNCHANGED <<load, inFlight>>
      BY <3>1 DEF TypeOK
    <3>2. CASE \E p \in Unused : Begin(p, i, k, L1Get(i, k))
      BY <2>1, <3>2, BeginType DEF Unused
    <3>3. QED
      BY <1>2, <3>1, <3>2 DEF Revalidate
  <2>4. QED
    BY <1>2, <2>2, <2>3 DEF Revalidate, TypeOK
<1>3. ASSUME NEW c \in Callers, NEW i \in Instances, NEW k \in Keys, Join(c, i, k)
      PROVE  TypeOK'
  BY <1>3, L1GetType DEF Join, TypeOK, Registered, L1Type
<1>4. ASSUME NEW c \in Callers, NEW i \in Instances, NEW k \in Keys, Start(c, i, k)
      PROVE  TypeOK'
  <2>1. L1Get(i, k) \in Entry \cup {None} /\ l1' \in L1Type
    BY <1>4, L1GetType DEF Start
  <2>2. PICK p \in Unused : /\ Begin(p, i, k, L1Get(i, k))
                            /\ waitsOn' = [waitsOn EXCEPT ![c] = p]
    BY <1>4 DEF Start
  <2>3. /\ load' \in [Loads -> LoadState \cup {None}]
        /\ inFlight' \in [Instances -> [Keys -> Loads \cup {None}]]
    BY <2>1, <2>2, BeginType DEF Unused
  <2>4. QED
    BY <1>4, <2>1, <2>2, <2>3 DEF Start, TypeOK, L1Type, Unused
<1>5. ASSUME NEW p \in Loads, ReadL2(p)
      PROVE  TypeOK'
  <2>1. load[p] \in LoadState
    BY <1>5 DEF ReadL2, TypeOK
  <2>2. PICK row \in {l2[load[p].key], None} :
          load' = [load EXCEPT ![p].phase = "read", ![p].row = row]
    BY <1>5 DEF ReadL2
  <2>3. row \in Entry \cup {None}
    BY <2>1 DEF TypeOK, LoadState
  <2>4. load' \in [Loads -> LoadState \cup {None}]
    BY <2>1, <2>2, <2>3 DEF TypeOK, LoadState
  <2>5. QED
    BY <1>5, <2>4 DEF ReadL2, TypeOK
<1>6. ASSUME NEW p \in Loads, PromoteL2(p)
      PROVE  TypeOK'
  <2>1. load[p] \in LoadState /\ load[p].row \in Entry
    BY <1>6 DEF PromoteL2, TypeOK, LoadState
  <2>2. l1' \in L1Type
    BY <1>6, <2>1, L1SetType DEF PromoteL2, LoadState
  <2>3. load[p].row.payload \in Nat
    BY <2>1 DEF Entry
  <2>4. "HIT_L2" \in Status
    BY DEF Status
  <2>5. QED
    BY <1>6, <2>1, <2>2, <2>3, <2>4, SettleType DEF PromoteL2, TypeOK, L1Type
<1>7. ASSUME NEW p \in Loads, CallLoader(p)
      PROVE  TypeOK'
  <2>1. load[p] \in LoadState
    BY <1>7 DEF CallLoader, TypeOK
  <2>2. BestFallback(p) \in Entry \cup {None}
    BY <2>1 DEF BestFallback, LoadState
  <2>3. load' \in [Loads -> LoadState \cup {None}]
    BY <1>7, <2>1, <2>2 DEF CallLoader, TypeOK, LoadState
  <2>4. QED
    BY <1>7, <2>3 DEF CallLoader, TypeOK
<1>8. ASSUME NEW p \in Loads, LoaderReturns(p)
      PROVE  TypeOK'
  <2> DEFINE k == load[p].key
  <2>1. load[p] \in LoadState
    BY <1>8 DEF LoaderReturns, TypeOK
  <2>2. Loaded(k) \in Entry
    BY <2>1, PolicyAssumption DEF Loaded, Entry, TypeOK, LoadState
  <2>3. l1' \in L1Type
    BY <1>8, <2>1, <2>2, L1SetType DEF LoaderReturns, LoadState
  <2>4. writes' \subseteq [key : Keys, entry : Entry]
    BY <1>8, <2>1, <2>2 DEF LoaderReturns, LoadState, TypeOK
  <2>5. "MISS" \in Status /\ now \in Nat
    BY DEF Status, TypeOK
  <2>6. QED
    BY <1>8, <2>1, <2>3, <2>4, <2>5, SettleType DEF LoaderReturns, TypeOK, L1Type
<1>9. ASSUME NEW p \in Loads, LoaderThrows(p)
      PROVE  TypeOK'
  <2>1. load[p] \in LoadState /\ load[p].fallback \in Entry \cup {None}
    BY <1>9 DEF LoaderThrows, TypeOK, LoadState
  <2>2. "STALE" \in Status /\ "ERROR" \in Status
    BY DEF Status
  <2>3. CASE /\ load[p].fallback # None
             /\ Settle(p, Result(p, "STALE", TRUE, load[p].fallback.payload))
    <3>1. load[p].fallback.payload \in Nat
      BY <2>1, <2>3 DEF Entry
    <3>2. QED
      BY <1>9, <2>2, <2>3, <3>1, SettleType DEF LoaderThrows, TypeOK
  <2>4. CASE Settle(p, Result(p, "ERROR", FALSE, 0))
    BY <1>9, <2>2, <2>4, SettleType DEF LoaderThrows, TypeOK
  <2>5. QED
    BY <1>9, <2>3, <2>4 DEF LoaderThrows
<1>10. ASSUME NEW w \in writes, WriteLands(w) \/ WriteFails(w)
       PROVE  TypeOK'
  BY <1>10 DEF WriteLands, WriteFails, TypeOK
<1>11. CASE SweepExpiredEntries
  BY <1>11 DEF SweepExpiredEntries, TypeOK
<1>12. ASSUME NEW i \in Instances, Restart(i)
       PROVE  TypeOK'
  BY <1>12 DEF Restart, TypeOK
<1>13. CASE Tick
  BY <1>13 DEF Tick, TypeOK
<1>14. CASE UNCHANGED vars
  BY <1>14 DEF vars, TypeOK
<1>15. QED
  BY <1>1, <1>2, <1>3, <1>4, <1>5, <1>6, <1>7, <1>8, <1>9, <1>10, <1>11, <1>12,
     <1>13, <1>14 DEF Next, GetOrLoad, LoadStep

\* The cache's state always has its type: loads, promises, slots and rows.
THEOREM TypeCorrect == Spec => []TypeOK
BY TypeOKInit, TypeOKStep, PTL DEF Spec

-----------------------------------------------------------------------------
(* The safety properties.                                                  *)

\* A load begun for a key none is registered for keeps the inFlight maps exact
\* and its request served.
LEMMA BeginInv ==
  ASSUME TypeOK, TypeOK', IInv, NEW i \in Instances, NEW k \in Keys,
         NEW f \in Entry \cup {None}, NEW p \in Unused,
         Begin(p, i, k, f), Registered(i, k) = None
  PROVE  /\ InFlightIsExact'
         /\ \A q \in Loads : q # p => load'[q] = load[q]
         /\ load'[p] = [phase |-> "reading", inst |-> i, key |-> k,
                        row |-> None, fallback |-> f]
         /\ load'[p] # None
<1>1. p \in Loads /\ load[p] = None
  BY DEF Unused
<1>2. /\ \A q \in Loads : q # p => load'[q] = load[q]
      /\ load'[p] = [phase |-> "reading", inst |-> i, key |-> k,
                     row |-> None, fallback |-> f]
  BY <1>1 DEF Begin, TypeOK
<1>3. load'[p] \in LoadState
  BY <1>2 DEF LoadState
<1>4. load'[p] # None
  BY <1>3, NoneAssumption
<1>5. /\ inFlight'[i][k] = p
      /\ \A j \in Instances, o \in Keys :
           (j # i \/ o # k) => inFlight'[j][o] = inFlight[j][o]
  BY <1>1 DEF Begin, TypeOK
<1>6. ASSUME NEW q \in Loads, load'[q] # None
      PROVE  inFlight'[load'[q].inst][load'[q].key] = q
  <2>1. CASE q = p
    BY <1>2, <1>5, <2>1
  <2>2. CASE q # p
    <3>1. load[q] # None /\ load'[q] = load[q] /\ load[q] \in LoadState
      BY <1>2, <1>6, <2>2 DEF TypeOK
    <3>2. inFlight[load[q].inst][load[q].key] = q
      BY <3>1 DEF IInv, InFlightIsExact
    <3>3. load[q].inst # i \/ load[q].key # k
      BY <3>2, NoneAssumption DEF Registered
    <3>4. QED
      BY <1>5, <3>1, <3>2, <3>3 DEF LoadState
  <2>3. QED
    BY <2>1, <2>2
<1>7. ASSUME NEW j \in Instances, NEW o \in Keys, inFlight'[j][o] # None
      PROVE  /\ load'[inFlight'[j][o]] # None
             /\ load'[inFlight'[j][o]].inst = j
             /\ load'[inFlight'[j][o]].key = o
  <2>1. CASE j = i /\ o = k
    BY <1>2, <1>4, <1>5, <2>1
  <2>2. CASE j # i \/ o # k
    <3>1. inFlight'[j][o] = inFlight[j][o] /\ inFlight[j][o] \in Loads
      BY <1>5, <1>7, <2>2 DEF TypeOK
    <3>2. /\ load[inFlight[j][o]] # None
          /\ load[inFlight[j][o]].inst = j
          /\ load[inFlight[j][o]].key = o
      BY <1>7, <3>1 DEF IInv, InFlightIsExact
    <3>3. QED
      BY <1>1, <1>2, <3>1, <3>2
  <2>3. QED
    BY <2>1, <2>2
<1>8. QED
  BY <1>2, <1>4, <1>6, <1>7 DEF InFlightIsExact

\* A load that settles leaves the inFlight maps exact, leaves no request
\* awaiting it, and touches no other load; the others are for other keys.
LEMMA SettleInv ==
  ASSUME TypeOK, IInv, NEW p \in Loads, load[p] # None,
         NEW r, Settle(p, r)
  PROVE  /\ InFlightIsExact'
         /\ WaitersAreServed'
         /\ \A q \in Loads : load'[q] # None =>
              /\ load[q] # None
              /\ load'[q] = load[q]
              /\ load[q].inst # load[p].inst \/ load[q].key # load[p].key
<1> DEFINE i == load[p].inst
           k == load[p].key
<1>1. load[p] \in LoadState /\ i \in Instances /\ k \in Keys /\ inFlight[i][k] = p
  BY DEF TypeOK, LoadState, IInv, InFlightIsExact
<1>2. /\ load'[p] = None
      /\ \A q \in Loads : q # p => load'[q] = load[q]
  BY DEF Settle, TypeOK
<1>3. /\ inFlight'[i][k] = None
      /\ \A j \in Instances, o \in Keys :
           (j # i \/ o # k) => inFlight'[j][o] = inFlight[j][o]
  BY <1>1 DEF Settle, TypeOK
<1>4. \A q \in Loads : load'[q] # None =>
        /\ load[q] # None
        /\ load'[q] = load[q]
        /\ inFlight[load[q].inst][load[q].key] = q
        /\ load[q].inst # i \/ load[q].key # k
        /\ load[q].inst \in Instances /\ load[q].key \in Keys
  BY <1>1, <1>2 DEF IInv, InFlightIsExact, TypeOK, LoadState
<1>5. \A q \in Loads : load'[q] # None => inFlight'[load'[q].inst][load'[q].key] = q
  BY <1>3, <1>4
<1>6. ASSUME NEW j \in Instances, NEW o \in Keys, inFlight'[j][o] # None
      PROVE  /\ load'[inFlight'[j][o]] # None
             /\ load'[inFlight'[j][o]].inst = j
             /\ load'[inFlight'[j][o]].key = o
  <2>1. /\ j # i \/ o # k
        /\ inFlight'[j][o] = inFlight[j][o]
    BY <1>3, <1>6
  <2>2. /\ inFlight[j][o] \in Loads
        /\ load[inFlight[j][o]] # None
        /\ load[inFlight[j][o]].inst = j
        /\ load[inFlight[j][o]].key = o
    BY <1>6, <2>1 DEF IInv, InFlightIsExact, TypeOK
  <2>3. inFlight[j][o] # p
    BY <2>1, <2>2
  <2>4. QED
    BY <1>2, <2>1, <2>2, <2>3
<1>7. ASSUME NEW c \in Callers, waitsOn'[c] # None
      PROVE  /\ load'[waitsOn'[c]] # None
             /\ inFlight'[load'[waitsOn'[c]].inst][load'[waitsOn'[c]].key] = waitsOn'[c]
  <2>1. waitsOn'[c] = waitsOn[c] /\ waitsOn[c] # p /\ waitsOn[c] \in Loads
    BY <1>7 DEF Settle, TypeOK
  <2>2. load[waitsOn[c]] # None
    BY <1>7, <2>1 DEF IInv, Safety, WaitersAreServed
  <2>3. QED
    BY <1>2, <1>5, <2>1, <2>2
<1>8. QED
  BY <1>4, <1>5, <1>6, <1>7 DEF InFlightIsExact, WaitersAreServed

LEMMA IInvInit == Init => IInv
BY DEF Init, IInv, AllStamped, InFlightIsExact, Safety, WaitersAreServed,
       FreshIsRecent, StaleIsBounded, LoadOnlyWhenExpired, StaleIsBeingReplaced

\* A step that hands out nothing trivially keeps what is said of answers.
LEMMA NoAnswer ==
  ASSUME answer' = None
  PROVE  FreshIsRecent' /\ StaleIsBounded' /\ StaleIsBeingReplaced'
BY DEF FreshIsRecent, StaleIsBounded, StaleIsBeingReplaced

\* A step that leaves the clock, the promises and the requests alone, changes
\* nothing about loads but what a load has read, and only forgets L1 slots.
LEMMA QuietStep ==
  ASSUME TypeOK, IInv, answer' = None, now' = now,
         UNCHANGED <<inFlight, waitsOn>>,
         \A p \in Loads : (load'[p] = None) = (load[p] = None),
         \A p \in Loads : load[p] # None =>
           load'[p].inst = load[p].inst /\ load'[p].key = load[p].key,
         \A i \in Instances, k \in Keys : l1'[i][k] \in {None, l1[i][k]}
  PROVE  InFlightIsExact' /\ Safety'
<1>1. InFlightIsExact'
  <2>1. \A p \in Loads : load'[p] # None => inFlight'[load'[p].inst][load'[p].key] = p
    BY DEF IInv, InFlightIsExact
  <2>2. ASSUME NEW i \in Instances, NEW k \in Keys, inFlight[i][k] # None
        PROVE  /\ load'[inFlight[i][k]] # None
               /\ load'[inFlight[i][k]].inst = i
               /\ load'[inFlight[i][k]].key = k
    <3>1. inFlight[i][k] \in Loads
      BY <2>2 DEF TypeOK
    <3>2. /\ load[inFlight[i][k]] # None
          /\ load[inFlight[i][k]].inst = i
          /\ load[inFlight[i][k]].key = k
      BY <2>2 DEF IInv, InFlightIsExact
    <3>3. QED
      BY <3>1, <3>2
  <2>3. QED
    BY <2>1, <2>2 DEF InFlightIsExact
<1>2. WaitersAreServed'
  <2>1. \A c \in Callers : waitsOn[c] # None =>
          /\ waitsOn[c] \in Loads /\ load[waitsOn[c]] # None
          /\ inFlight[load[waitsOn[c]].inst][load[waitsOn[c]].key] = waitsOn[c]
    BY DEF IInv, Safety, WaitersAreServed, TypeOK
  <2>2. QED
    BY <2>1 DEF WaitersAreServed
<1>3. LoadOnlyWhenExpired'
  <2>1. \A p \in Loads : load'[p] # None =>
          /\ load[p] # None
          /\ load'[p].inst = load[p].inst /\ load'[p].key = load[p].key
          /\ load[p].inst \in Instances /\ load[p].key \in Keys
    BY DEF TypeOK, LoadState
  <2>2. QED
    BY <2>1 DEF IInv, Safety, LoadOnlyWhenExpired, Fresh
<1>4. QED
  BY <1>1, <1>2, <1>3, NoAnswer DEF Safety

\* Settling with a new L1 slot for the key of the load.
LEMMA SettleSetsL1 ==
  ASSUME TypeOK, IInv, NEW p \in Loads, load[p] # None, NEW r, Settle(p, r),
         NEW e \in Entry, l1' \in L1AfterSet(load[p].inst, load[p].key, e),
         Stamped(e, load[p].key), now' = now
  PROVE  /\ LoadOnlyWhenExpired'
         /\ \A i \in Instances, k \in Keys : l1'[i][k] # None =>
              Stamped(l1'[i][k].entry, k)
<1>1. load[p] \in LoadState /\ load[p].inst \in Instances /\ load[p].key \in Keys
  BY DEF TypeOK, LoadState
<1>2. /\ l1'[load[p].inst][load[p].key] = [entry |-> e, setAt |-> now]
      /\ \A i \in Instances, k \in Keys :
           (i # load[p].inst \/ k # load[p].key) => l1'[i][k] \in {None, l1[i][k]}
  BY <1>1, L1SetType
<1>3. \A i \in Instances, k \in Keys : l1'[i][k] # None => Stamped(l1'[i][k].entry, k)
  BY <1>1, <1>2 DEF IInv, AllStamped
<1>4. \A q \in Loads : load'[q] # None =>
        /\ load[q] # None /\ load'[q] = load[q]
        /\ load[q].inst # load[p].inst \/ load[q].key # load[p].key
        /\ load[q].inst \in Instances /\ load[q].key \in Keys
  BY SettleInv DEF TypeOK, LoadState
<1>5. LoadOnlyWhenExpired'
  BY <1>2, <1>4 DEF IInv, Safety, LoadOnlyWhenExpired, Fresh
<1>6. QED
  BY <1>3, <1>5

LEMMA IInvStep == TypeOK /\ TypeOK' /\ IInv /\ [Next]_vars => IInv'
<1> SUFFICES ASSUME TypeOK, TypeOK', IInv, [Next]_vars PROVE IInv'
  OBVIOUS
<1>1. ASSUME NEW c \in Callers, NEW i \in Instances, NEW k \in Keys, HitL1(c, i, k)
      PROVE  IInv'
  <2>1. /\ L1Get(i, k) = l1[i][k].entry /\ l1[i][k] # None
        /\ L1Get(i, k) \in Entry /\ Fresh(L1Get(i, k))
    BY <1>1, L1GetType DEF HitL1
  <2>2. Stamped(L1Get(i, k), k)
    BY <2>1 DEF IInv, AllStamped
  <2>3. answer' = [inst |-> i, key |-> k, status |-> "HIT_L1", stale |-> FALSE,
                   payload |-> L1Get(i, k).payload]
    BY <1>1 DEF HitL1
  <2>4. FreshIsRecent' /\ StaleIsBounded' /\ StaleIsBeingReplaced'
    BY <1>1, <2>1, <2>2, <2>3
    DEF HitL1, FreshIsRecent, StaleIsBounded, StaleIsBeingReplaced, Fresh, Stamped
  <2>5. AllStamped' /\ InFlightIsExact' /\ WaitersAreServed' /\ LoadOnlyWhenExpired'
    BY <1>1 DEF HitL1, IInv, Safety, AllStamped, Stamped, Fresh, InFlightIsExact,
                WaitersAreServed, LoadOnlyWhenExpired
  <2>6. QED
    BY <2>4, <2>5 DEF IInv, Safety
<1>2. ASSUME NEW c \in Callers, NEW i \in Instances, NEW k \in Keys, Revalidate(c, i, k)
      PROVE  IInv'
  <2> DEFINE e == L1Get(i, k)
  <2>1. /\ e = l1[i][k].entry /\ l1[i][k] # None /\ e \in Entry
        /\ ~Fresh(e) /\ InSwrWindow(e, k)
    BY <1>2, L1GetType DEF Revalidate
  <2>2. Stamped(e, k)
    BY <2>1 DEF IInv, AllStamped
  <2> HIDE DEF e
  <2>3. answer' = [inst |-> i, key |-> k, status |-> "REVALIDATING", stale |-> TRUE,
                   payload |-> e.payload]
    BY <1>2 DEF Revalidate, e
  <2>4. FreshIsRecent' /\ StaleIsBounded'
    <3>1. /\ e.payload \in Nat /\ e.expiresAt \in Nat /\ now \in Nat
          /\ Ttl[k] \in Nat /\ Swr[k] \in Nat /\ now' = now
      BY <1>2, <2>1, PolicyAssumption DEF Entry, TypeOK, Revalidate
    <3>2. e.payload + Ttl[k] <= now /\ now <= e.payload + Ttl[k] + Swr[k]
      BY <2>1, <2>2, <3>1 DEF Fresh, InSwrWindow, Stamped
    <3>3. QED
      BY <2>3, <3>1, <3>2 DEF FreshIsRecent, StaleIsBounded
  <2>5. CASE Registered(i, k) # None /\ UNCHANGED <<load, inFlight>>
    <3>1. StaleIsBeingReplaced'
      BY <2>3, <2>5 DEF StaleIsBeingReplaced, Registered, IInv, InFlightIsExact, TypeOK
    <3>2. AllStamped' /\ InFlightIsExact' /\ WaitersAreServed' /\ LoadOnlyWhenExpired'
      BY <1>2, <2>5 DEF Revalidate, IInv, Safety, AllStamped, Stamped, Fresh,
                        InFlightIsExact, WaitersAreServed, LoadOnlyWhenExpired
    <3>3. QED
      BY <2>4, <3>1, <3>2 DEF IInv, Safety
  <2>6. CASE Registered(i, k) = None /\ \E p \in Unused : Begin(p, i, k, e)
    <3>1. PICK p \in Unused : Begin(p, i, k, e)
      BY <2>6
    <3>2. /\ InFlightIsExact'
          /\ \A q \in Loads : q # p => load'[q] = load[q]
          /\ load'[p] = [phase |-> "reading", inst |-> i, key |-> k,
                         row |-> None, fallback |-> e]
          /\ load'[p] # None
          /\ p \in Loads /\ Waiting(p) = {} /\ load[p] = None
      BY <2>1, <2>6, <3>1, BeginInv DEF Unused
    <3>3. StaleIsBeingReplaced'
      BY <2>3, <3>2 DEF StaleIsBeingReplaced
    <3>4. WaitersAreServed'
      BY <1>2, <3>2 DEF Revalidate, WaitersAreServed, IInv, Safety, TypeOK,
                        InFlightIsExact
    <3>5. LoadOnlyWhenExpired'
      BY <1>2, <2>1, <3>2 DEF Revalidate, LoadOnlyWhenExpired, IInv, Safety, Fresh
    <3>6. AllStamped'
      BY <1>2, <2>1, <2>2, <3>2 DEF Revalidate, AllStamped, IInv, Stamped, Fresh
    <3>7. QED
      BY <2>4, <3>2, <3>3, <3>4, <3>5, <3>6 DEF IInv, Safety
  <2>7. QED
    BY <1>2, <2>5, <2>6 DEF Revalidate, e
<1>3. ASSUME NEW c \in Callers, NEW i \in Instances, NEW k \in Keys, Join(c, i, k)
      PROVE  IInv'
  <2>1. \A j \in Instances, o \in Keys : l1'[j][o] \in {None, l1[j][o]}
    BY <1>3, L1GetType DEF Join
  <2>2. FreshIsRecent' /\ StaleIsBounded' /\ StaleIsBeingReplaced'
    BY <1>3, NoAnswer DEF Join
  <2>3. AllStamped'
    BY <1>3, <2>1 DEF Join, AllStamped, IInv, Stamped, Fresh
  <2>4. InFlightIsExact'
    BY <1>3 DEF Join, InFlightIsExact, IInv
  <2>5. LoadOnlyWhenExpired'
    BY <1>3, <2>1 DEF Join, LoadOnlyWhenExpired, IInv, Safety, Fresh, TypeOK, LoadState
  <2>6. WaitersAreServed'
    BY <1>3 DEF Join, WaitersAreServed, IInv, Safety, InFlightIsExact, Registered, TypeOK
  <2>7. QED
    BY <2>2, <2>3, <2>4, <2>5, <2>6 DEF IInv, Safety
<1>4. ASSUME NEW c \in Callers, NEW i \in Instances, NEW k \in Keys, Start(c, i, k)
      PROVE  IInv'
  <2> DEFINE e == L1Get(i, k)
  <2>1. /\ \A j \in Instances, o \in Keys : l1'[j][o] \in {None, l1[j][o]}
        /\ e \in Entry \cup {None}
        /\ e # None => l1[i][k] # None /\ e = l1[i][k].entry /\ l1' = l1
        /\ e = None => l1'[i][k] = None
    BY <1>4, L1GetType DEF Start
  <2>2. e # None => ~Fresh(e) /\ Stamped(e, k)
    BY <1>4, <2>1 DEF Start, Missed, IInv, AllStamped
  <2>3. PICK p \in Unused : /\ Begin(p, i, k, e)
                            /\ waitsOn' = [waitsOn EXCEPT ![c] = p]
    BY <1>4 DEF Start
  <2> HIDE DEF e
  <2>4. /\ InFlightIsExact'
        /\ \A q \in Loads : q # p => load'[q] = load[q]
        /\ load'[p] = [phase |-> "reading", inst |-> i, key |-> k,
                       row |-> None, fallback |-> e]
        /\ load'[p] # None
        /\ p \in Loads /\ load[p] = None
    BY <1>4, <2>1, <2>3, BeginInv DEF Start, Unused
  <2>5. FreshIsRecent' /\ StaleIsBounded' /\ StaleIsBeingReplaced'
    BY <1>4, NoAnswer DEF Start
  <2>6. WaitersAreServed'
    BY <2>3, <2>4 DEF WaitersAreServed, IInv, Safety, TypeOK, InFlightIsExact
  <2>7. LoadOnlyWhenExpired'
    <3>1. now' = now
      BY <1>4 DEF Start
    <3>2. l1'[i][k] # None => ~Fresh(l1'[i][k].entry)
      BY <2>1, <2>2
    <3>3. ASSUME NEW q \in Loads, q # p, load[q] # None,
                 l1'[load[q].inst][load[q].key] # None
          PROVE  ~Fresh(l1'[load[q].inst][load[q].key].entry)
      <4>1. load[q].inst \in Instances /\ load[q].key \in Keys
        BY <3>3 DEF TypeOK, LoadState
      <4>2. QED
        BY <2>1, <3>3, <4>1 DEF LoadOnlyWhenExpired, IInv, Safety
    <3>4. \A q \in Loads :
            load'[q] # None /\ l1'[load'[q].inst][load'[q].key] # None
              => ~Fresh(l1'[load'[q].inst][load'[q].key].entry)
      BY <2>4, <3>2, <3>3
    <3>5. QED
      BY <3>1, <3>4 DEF LoadOnlyWhenExpired, Fresh
  <2>8. AllStamped'
    BY <1>4, <2>1, <2>2, <2>4 DEF Start, AllStamped, IInv, Stamped, Fresh
  <2>9. QED
    BY <2>4, <2>5, <2>6, <2>7, <2>8 DEF IInv, Safety
<1>5. ASSUME NEW p \in Loads, ReadL2(p)
      PROVE  IInv'
  <2>1. /\ load[p] # None /\ load[p] \in LoadState
        /\ load[p].inst \in Instances /\ load[p].key \in Keys
    BY <1>5 DEF ReadL2, TypeOK, LoadState
  <2>2. PICK row \in {l2[load[p].key], None} :
          load' = [load EXCEPT ![p] = [load[p] EXCEPT !.phase = "read", !.row = row]]
    BY <1>5 DEF ReadL2
  <2>3. /\ \A q \in Loads : q # p => load'[q] = load[q]
        /\ load'[p].inst = load[p].inst /\ load'[p].key = load[p].key
        /\ load'[p].row = row /\ load'[p].fallback = load[p].fallback
    BY <2>1, <2>2 DEF TypeOK, LoadState
  <2>4. load'[p] \in LoadState
    <3>1. row \in Entry \cup {None}
      BY <2>1 DEF TypeOK
    <3>2. QED
      BY <2>1, <2>2, <3>1 DEF TypeOK, LoadState
  <2>5. load'[p] # None
    BY <2>4, NoneAssumption
  <2>6. InFlightIsExact' /\ Safety'
    BY <1>5, <2>1, <2>3, <2>5, QuietStep DEF ReadL2
  <2>7. AllStamped'
    <3>1. row # None => Stamped(row, load[p].key)
      BY <2>1 DEF IInv, AllStamped
    <3>2. \A q \in Loads : load'[q] # None =>
            /\ load'[q].row # None => Stamped(load'[q].row, load'[q].key)
            /\ load'[q].fallback # None =>
                 Stamped(load'[q].fallback, load'[q].key) /\ ~Fresh(load'[q].fallback)
      BY <2>1, <2>3, <3>1 DEF IInv, AllStamped
    <3>3. UNCHANGED <<now, l1, l2, writes>>
      BY <1>5 DEF ReadL2
    <3>4. QED
      BY <3>2, <3>3 DEF AllStamped, IInv, Stamped, Fresh
  <2>8. QED
    BY <2>6, <2>7 DEF IInv
<1>6. ASSUME NEW p \in Loads, PromoteL2(p)
      PROVE  IInv'
  <2> DEFINE e == load[p].row
             r == Result(p, "HIT_L2", FALSE, e.payload)
  <2>1. /\ load[p] # None /\ e \in Entry /\ Fresh(e)
        /\ load[p].inst \in Instances /\ load[p].key \in Keys
    BY <1>6 DEF PromoteL2, TypeOK, LoadState
  <2>2. Stamped(e, load[p].key)
    BY <1>6, <2>1 DEF PromoteL2, IInv, AllStamped
  <2>3. /\ Settle(p, r) /\ now' = now /\ l2' = l2 /\ writes' = writes
        /\ l1' \in L1AfterSet(load[p].inst, load[p].key, e)
    BY <1>6 DEF PromoteL2
  <2>4. /\ r.status = "HIT_L2" /\ ~r.stale /\ r.payload = e.payload
        /\ r.key = load[p].key
    BY DEF Result
  <2>5. e.payload \in Nat /\ e.expiresAt \in Nat
    BY <2>1 DEF Entry
  <2> HIDE DEF e, r
  <2>6. /\ InFlightIsExact' /\ WaitersAreServed'
        /\ \A q \in Loads : load'[q] # None => load[q] # None /\ load'[q] = load[q]
    BY <2>1, <2>3, SettleInv
  <2>7. /\ LoadOnlyWhenExpired'
        /\ \A i \in Instances, k \in Keys : l1'[i][k] # None =>
             Stamped(l1'[i][k].entry, k)
    BY <2>1, <2>2, <2>3, SettleSetsL1
  <2>8. AllStamped'
    BY <2>3, <2>6, <2>7 DEF AllStamped, IInv, Stamped, Fresh
  <2>9. answer' \in {None, r}
    BY <2>3 DEF Settle
  <2>10. FreshIsRecent' /\ StaleIsBounded' /\ StaleIsBeingReplaced'
    BY <2>1, <2>2, <2>3, <2>4, <2>9
    DEF FreshIsRecent, StaleIsBounded, StaleIsBeingReplaced, Fresh, Stamped
  <2>11. QED
    BY <2>6, <2>7, <2>8, <2>10 DEF IInv, Safety
<1>7. ASSUME NEW p \in Loads, CallLoader(p)
      PROVE  IInv'
  <2>1. /\ load[p] # None /\ load[p] \in LoadState
        /\ load[p].inst \in Instances /\ load[p].key \in Keys
    BY <1>7 DEF CallLoader, TypeOK, LoadState
  <2>2. load' = [load EXCEPT ![p] = [load[p] EXCEPT !.phase = "loading", !.row = None,
                                                   !.fallback = BestFallback(p)]]
    BY <1>7 DEF CallLoader
  <2>3. /\ \A q \in Loads : q # p => load'[q] = load[q]
        /\ load'[p].inst = load[p].inst /\ load'[p].key = load[p].key
        /\ load'[p].row = None /\ load'[p].fallback = BestFallback(p)
    BY <2>1, <2>2 DEF TypeOK, LoadState
  <2>4. load'[p] # None
    <3>1. BestFallback(p) \in Entry \cup {None}
      BY <2>1 DEF BestFallback, LoadState
    <3>2. load'[p] \in LoadState
      BY <2>1, <2>2, <3>1 DEF TypeOK, LoadState
    <3>3. QED
      BY <3>2, NoneAssumption
  <2>5. InFlightIsExact' /\ Safety'
    BY <1>7, <2>1, <2>3, <2>4, QuietStep DEF CallLoader
  <2>6. BestFallback(p) # None =>
          Stamped(BestFallback(p), load[p].key) /\ ~Fresh(BestFallback(p))
    BY <1>7, <2>1 DEF CallLoader, BestFallback, IInv, AllStamped
  <2>7. AllStamped'
    BY <1>7, <2>1, <2>3, <2>6 DEF CallLoader, AllStamped, IInv, Stamped, Fresh
  <2>8. QED
    BY <2>5, <2>7 DEF IInv
<1>8. ASSUME NEW p \in Loads, LoaderReturns(p)
      PROVE  IInv'
  <2> DEFINE k == load[p].key
             r == Result(p, "MISS", FALSE, now)
  <2>1. load[p] # None /\ load[p].inst \in Instances /\ k \in Keys
    BY <1>8 DEF LoaderReturns, TypeOK, LoadState
  <2>2. now \in Nat /\ Ttl[k] \in Nat /\ Ttl[k] > 0
    BY <2>1, PolicyAssumption DEF TypeOK
  <2>3. Loaded(k) \in Entry /\ Stamped(Loaded(k), k)
    BY <2>2 DEF Loaded, Entry, Stamped
  <2>4. /\ Settle(p, r) /\ now' = now /\ l2' = l2
        /\ writes' = writes \cup {[key |-> k, entry |-> Loaded(k)]}
        /\ l1' \in L1AfterSet(load[p].inst, k, Loaded(k))
    BY <1>8 DEF LoaderReturns
  <2>5. /\ r.status = "MISS" /\ ~r.stale /\ r.payload = now /\ r.key = k
    BY DEF Result
  <2> HIDE DEF r, k
  <2>6. /\ InFlightIsExact' /\ WaitersAreServed'
        /\ \A q \in Loads : load'[q] # None => load[q] # None /\ load'[q] = load[q]
    BY <2>1, <2>4, SettleInv
  <2>7. /\ LoadOnlyWhenExpired'
        /\ \A i \in Instances, o \in Keys : l1'[i][o] # None =>
             Stamped(l1'[i][o].entry, o)
    BY <2>1, <2>3, <2>4, SettleSetsL1 DEF k
  <2>8. AllStamped'
    BY <2>3, <2>4, <2>6, <2>7 DEF AllStamped, IInv, Stamped, Fresh
  <2>9. answer' \in {None, r}
    BY <2>4 DEF Settle
  <2>10. FreshIsRecent' /\ StaleIsBounded' /\ StaleIsBeingReplaced'
    BY <2>2, <2>4, <2>5, <2>9 DEF FreshIsRecent, StaleIsBounded, StaleIsBeingReplaced
  <2>11. QED
    BY <2>6, <2>7, <2>8, <2>10 DEF IInv, Safety
<1>9. ASSUME NEW p \in Loads, LoaderThrows(p)
      PROVE  IInv'
  <2> DEFINE k == load[p].key
             f == load[p].fallback
             stale == Result(p, "STALE", TRUE, f.payload)
             error == Result(p, "ERROR", FALSE, 0)
  <2>1. /\ load[p] # None /\ load[p].inst \in Instances /\ k \in Keys
        /\ f \in Entry \cup {None}
    BY <1>9 DEF LoaderThrows, TypeOK, LoadState
  <2>2. /\ now' = now /\ l1' = l1 /\ l2' = l2 /\ writes' = writes
        /\ \/ f # None /\ IsUsableAsFallback(f, k) /\ Settle(p, stale)
           \/ Settle(p, error)
    BY <1>9 DEF LoaderThrows
  <2>3. /\ InFlightIsExact' /\ WaitersAreServed'
        /\ \A q \in Loads : load'[q] # None => load[q] # None /\ load'[q] = load[q]
    BY <2>1, <2>2, SettleInv
  <2>4. LoadOnlyWhenExpired'
    BY <2>2, <2>3 DEF LoadOnlyWhenExpired, IInv, Safety, Fresh
  <2>5. AllStamped'
    BY <2>2, <2>3 DEF AllStamped, IInv, Stamped, Fresh
  <2>6. FreshIsRecent' /\ StaleIsBounded' /\ StaleIsBeingReplaced'
    <3>1. CASE answer' = None
      BY <3>1, NoAnswer
    <3>2. CASE answer' = error
      BY <3>2 DEF Result, FreshIsRecent, StaleIsBounded, StaleIsBeingReplaced
    <3>3. CASE answer' = stale /\ f # None /\ IsUsableAsFallback(f, k)
      <4>1. Stamped(f, k) /\ ~Fresh(f)
        BY <2>1, <3>3 DEF IInv, AllStamped
      <4>2. /\ f.payload \in Nat /\ f.expiresAt \in Nat /\ now \in Nat
            /\ Ttl[k] \in Nat /\ Sie[k] \in Nat
        BY <2>1, <3>3, PolicyAssumption DEF Entry, TypeOK
      <4>3. f.payload + Ttl[k] <= now /\ now <= f.payload + Ttl[k] + Sie[k]
        BY <3>3, <4>1, <4>2 DEF Stamped, Fresh, IsUsableAsFallback
      <4>4. /\ answer'.status = "STALE" /\ answer'.stale
            /\ answer'.payload = f.payload /\ answer'.key = k
        BY <3>3 DEF Result
      <4> HIDE DEF f, k
      <4>5. QED
        BY <2>2, <4>2, <4>3, <4>4
        DEF FreshIsRecent, StaleIsBounded, StaleIsBeingReplaced
    <3>4. QED
      BY <2>2, <3>1, <3>2, <3>3 DEF Settle
  <2>7. QED
    BY <2>3, <2>4, <2>5, <2>6 DEF IInv, Safety
<1>10. ASSUME NEW w \in writes, WriteLands(w) \/ WriteFails(w)
       PROVE  IInv'
  <2>1. /\ answer' = None /\ now' = now /\ writes' \subseteq writes
        /\ UNCHANGED <<l1, load, inFlight, waitsOn>>
    BY <1>10 DEF WriteLands, WriteFails
  <2>2. \A k \in Keys : l2'[k] = l2[k] \/ (k = w.key /\ l2'[k] = w.entry)
    BY <1>10 DEF WriteLands, WriteFails, TypeOK
  <2>3. AllStamped'
    BY <2>1, <2>2 DEF AllStamped, IInv, Stamped, Fresh
  <2>4. InFlightIsExact' /\ Safety'
    BY <2>1, QuietStep
  <2>5. QED
    BY <2>3, <2>4 DEF IInv
<1>11. CASE SweepExpiredEntries
  <2>1. /\ answer' = None /\ now' = now
        /\ UNCHANGED <<l1, load, inFlight, writes, waitsOn>>
        /\ \A k \in Keys : l2'[k] \in {None, l2[k]}
    BY <1>11 DEF SweepExpiredEntries
  <2>2. AllStamped'
    BY <2>1 DEF AllStamped, IInv, Stamped, Fresh
  <2>3. InFlightIsExact' /\ Safety'
    BY <2>1, QuietStep
  <2>4. QED
    BY <2>2, <2>3 DEF IInv
<1>12. ASSUME NEW i \in Instances, Restart(i)
       PROVE  IInv'
  <2> DEFINE lost == {p \in Loads : load[p] # None /\ load[p].inst = i}
  <2>1. /\ answer' = None /\ now' = now /\ l2' = l2 /\ writes' = writes
        /\ \A j \in Instances, k \in Keys : l1'[j][k] \in {None, l1[j][k]}
        /\ \A j \in Instances, k \in Keys :
             inFlight'[j][k] = IF j = i THEN None ELSE inFlight[j][k]
        /\ \A p \in Loads : load'[p] = IF p \in lost THEN None ELSE load[p]
        /\ \A c \in Callers :
             waitsOn'[c] = IF waitsOn[c] \in lost THEN None ELSE waitsOn[c]
    BY <1>12 DEF Restart, TypeOK
  <2>2. \A p \in Loads : load'[p] # None =>
          /\ load[p] # None /\ load'[p] = load[p] /\ load[p].inst # i
          /\ load[p].inst \in Instances /\ load[p].key \in Keys
    BY <2>1 DEF TypeOK, LoadState
  <2>3. AllStamped'
    BY <2>1, <2>2 DEF AllStamped, IInv, Stamped, Fresh
  <2>4. InFlightIsExact'
    <3>1. \A p \in Loads : load'[p] # None => inFlight'[load'[p].inst][load'[p].key] = p
      BY <2>1, <2>2 DEF IInv, InFlightIsExact
    <3>2. ASSUME NEW j \in Instances, NEW k \in Keys, inFlight'[j][k] # None
          PROVE  /\ load'[inFlight'[j][k]] # None
                 /\ load'[inFlight'[j][k]].inst = j
                 /\ load'[inFlight'[j][k]].key = k
      <4>1. j # i /\ inFlight'[j][k] = inFlight[j][k] /\ inFlight[j][k] \in Loads
        BY <2>1, <3>2 DEF TypeOK
      <4>2. /\ load[inFlight[j][k]] # None
            /\ load[inFlight[j][k]].inst = j
            /\ load[inFlight[j][k]].key = k
        BY <3>2, <4>1 DEF IInv, InFlightIsExact
      <4>3. QED
        BY <2>1, <4>1, <4>2
    <3>3. QED
      BY <3>1, <3>2 DEF InFlightIsExact
  <2>5. WaitersAreServed'
    <3>1. ASSUME NEW c \in Callers, waitsOn'[c] # None
          PROVE  /\ load'[waitsOn'[c]] # None
                 /\ inFlight'[load'[waitsOn'[c]].inst][load'[waitsOn'[c]].key] = waitsOn'[c]
      <4>1. waitsOn'[c] = waitsOn[c] /\ waitsOn[c] \notin lost /\ waitsOn[c] \in Loads
        BY <2>1, <3>1 DEF TypeOK
      <4>2. load[waitsOn[c]] # None
        BY <3>1, <4>1 DEF IInv, Safety, WaitersAreServed
      <4>3. QED
        BY <2>1, <2>4, <4>1, <4>2 DEF InFlightIsExact
    <3>2. QED
      BY <3>1 DEF WaitersAreServed
  <2>6. LoadOnlyWhenExpired'
    BY <2>1, <2>2 DEF LoadOnlyWhenExpired, IInv, Safety, Fresh
  <2>7. QED
    BY <2>1, <2>3, <2>4, <2>5, <2>6, NoAnswer DEF IInv, Safety
<1>13. CASE Tick
  <2>1. /\ answer' = None /\ now' = now + 1 /\ now \in Nat
        /\ UNCHANGED <<l1, l2, load, inFlight, writes, waitsOn>>
    BY <1>13 DEF Tick, TypeOK
  <2>2. \A e \in Entry, k \in Keys : Stamped(e, k) => Stamped(e, k)'
    BY <2>1 DEF Stamped, Entry
  <2>3. \A e \in Entry : ~Fresh(e) => ~Fresh(e)'
    BY <2>1 DEF Fresh, Entry
  <2>4. AllStamped'
    <3>1. \A i \in Instances, k \in Keys : l1[i][k] # None => l1[i][k].entry \in Entry
      BY DEF TypeOK, Slot
    <3>2. \A p \in Loads : load[p] # None =>
            /\ load[p].row \in Entry \cup {None} /\ load[p].fallback \in Entry \cup {None}
            /\ load[p].key \in Keys
      BY DEF TypeOK, LoadState
    <3>3. \A w \in writes : w.entry \in Entry /\ w.key \in Keys
      BY DEF TypeOK
    <3>4. \A k \in Keys : l2[k] \in Entry \cup {None}
      BY DEF TypeOK
    <3>5. QED
      BY <2>1, <2>2, <2>3, <3>1, <3>2, <3>3, <3>4 DEF AllStamped, IInv
  <2>5. LoadOnlyWhenExpired'
    <3>1. \A p \in Loads :
            load[p] # None /\ l1[load[p].inst][load[p].key] # None
              => l1[load[p].inst][load[p].key].entry \in Entry
      BY DEF TypeOK, Slot, LoadState
    <3>2. QED
      BY <2>1, <2>3, <3>1 DEF LoadOnlyWhenExpired, IInv, Safety
  <2>6. InFlightIsExact' /\ WaitersAreServed'
    BY <2>1 DEF InFlightIsExact, WaitersAreServed, IInv, Safety
  <2>7. QED
    BY <2>1, <2>4, <2>5, <2>6, NoAnswer DEF IInv, Safety
<1>14. CASE UNCHANGED vars
  BY <1>14 DEF vars, IInv, AllStamped, Stamped, Fresh, InFlightIsExact, Safety,
               WaitersAreServed, FreshIsRecent, StaleIsBounded, LoadOnlyWhenExpired,
               StaleIsBeingReplaced
<1>15. QED
  BY <1>1, <1>2, <1>3, <1>4, <1>5, <1>6, <1>7, <1>8, <1>9, <1>10, <1>11, <1>12,
     <1>13, <1>14 DEF Next, GetOrLoad, LoadStep

LEMMA InvariantHolds == Spec => [](TypeOK /\ IInv)
<1>1. Init => TypeOK /\ IInv
  BY TypeOKInit, IInvInit
<1>2. TypeOK /\ IInv /\ [Next]_vars => (TypeOK /\ IInv)'
  BY TypeOKStep, IInvStep
<1>3. QED
  BY <1>1, <1>2, PTL DEF Spec

\* Single-flight: no process ever runs two loads of one key.
THEOREM SingleFlightHolds == Spec => []SingleFlight
<1>1. IInv => SingleFlight
  BY DEF IInv, InFlightIsExact, SingleFlight
<1>2. QED
  BY <1>1, InvariantHolds, PTL

\* No request awaits a settled promise, or one its process no longer knows.
THEOREM WaitersAreServedHolds == Spec => []WaitersAreServed
<1>1. IInv => WaitersAreServed
  BY DEF IInv, Safety
<1>2. QED
  BY <1>1, InvariantHolds, PTL

\* What is answered as fresh is younger than the ttl of its key, through either
\* tier, a joined load, a restart or a late upsert.
THEOREM FreshIsRecentHolds == Spec => []FreshIsRecent
<1>1. IInv => FreshIsRecent
  BY DEF IInv, Safety
<1>2. QED
  BY <1>1, InvariantHolds, PTL

\* What is answered as stale is past its ttl and inside a window of its policy.
THEOREM StaleIsBoundedHolds == Spec => []StaleIsBounded
<1>1. IInv => StaleIsBounded
  BY DEF IInv, Safety
<1>2. QED
  BY <1>1, InvariantHolds, PTL

\* A process never loads a key it holds fresh.
THEOREM LoadOnlyWhenExpiredHolds == Spec => []LoadOnlyWhenExpired
<1>1. IInv => LoadOnlyWhenExpired
  BY DEF IInv, Safety
<1>2. QED
  BY <1>1, InvariantHolds, PTL

\* A request served while its key revalidates leaves a load under way.
THEOREM StaleIsBeingReplacedHolds == Spec => []StaleIsBeingReplaced
<1>1. IInv => StaleIsBeingReplaced
  BY DEF IInv, Safety
<1>2. QED
  BY <1>1, InvariantHolds, PTL

-----------------------------------------------------------------------------
(* What a step never does.                                                 *)

LEMMA StepKeepsNewest ==
  ASSUME TypeOK, IInv, [Next]_vars,
         NEW i \in Instances, NEW k \in Keys, l1[i][k] # None, l1'[i][k] # None
  PROVE  l1[i][k].entry.payload <= l1'[i][k].entry.payload
<1>1. /\ l1[i][k].entry.payload \in Nat /\ now \in Nat /\ Ttl[k] \in Nat
      /\ Stamped(l1[i][k].entry, k)
  BY PolicyAssumption DEF TypeOK, Slot, Entry, IInv, AllStamped
<1>2. SUFFICES ASSUME l1'[i][k] # l1[i][k]
               PROVE  l1[i][k].entry.payload <= l1'[i][k].entry.payload
  BY <1>1
<1>3. ASSUME NEW p \in Loads, NEW e \in Entry, load[p] # None,
             l1' \in L1AfterSet(load[p].inst, load[p].key, e),
             Stamped(e, load[p].key), Fresh(e) \/ e.payload = now
      PROVE  l1[i][k].entry.payload <= l1'[i][k].entry.payload
  <2>1. load[p].inst \in Instances /\ load[p].key \in Keys
    BY <1>3 DEF TypeOK, LoadState
  <2>2. /\ l1'[load[p].inst][load[p].key] = [entry |-> e, setAt |-> now]
        /\ (i # load[p].inst \/ k # load[p].key) => l1'[i][k] \in {None, l1[i][k]}
    BY <1>3, <2>1, L1SetType
  <2>3. load[p].inst = i /\ load[p].key = k /\ l1'[i][k].entry = e
    BY <1>2, <2>2
  <2>4. ~Fresh(l1[i][k].entry)
    BY <1>3, <2>3 DEF IInv, Safety, LoadOnlyWhenExpired
  <2>5. e.payload \in Nat /\ e.expiresAt \in Nat
    BY DEF Entry
  <2>6. QED
    BY <1>1, <1>3, <2>3, <2>4, <2>5 DEF Stamped, Fresh
<1>4. ASSUME NEW p \in Loads, PromoteL2(p)
      PROVE  l1[i][k].entry.payload <= l1'[i][k].entry.payload
  <2>1. load[p].row \in Entry /\ Stamped(load[p].row, load[p].key)
    BY <1>4 DEF PromoteL2, TypeOK, LoadState, IInv, AllStamped
  <2>2. QED
    BY <1>3, <1>4, <2>1 DEF PromoteL2
<1>5. ASSUME NEW p \in Loads, LoaderReturns(p)
      PROVE  l1[i][k].entry.payload <= l1'[i][k].entry.payload
  <2>1. load[p].key \in Keys
    BY <1>5 DEF LoaderReturns, TypeOK, LoadState
  <2>2. /\ Loaded(load[p].key) \in Entry
        /\ Stamped(Loaded(load[p].key), load[p].key)
        /\ Loaded(load[p].key).payload = now
    BY <1>1, <2>1, PolicyAssumption DEF Loaded, Entry, Stamped
  <2>3. /\ load[p] # None
        /\ l1' \in L1AfterSet(load[p].inst, load[p].key, Loaded(load[p].key))
    BY <1>5 DEF LoaderReturns
  <2>4. QED
    BY <1>3, <2>2, <2>3
<1>6. ASSUME \A j \in Instances, o \in Keys : l1'[j][o] \in {None, l1[j][o]}
      PROVE  FALSE
  BY <1>2, <1>6
<1>7. ASSUME NEW c \in Callers, NEW j \in Instances, NEW o \in Keys,
             GetOrLoad(c, j, o)
      PROVE  FALSE
  BY <1>6, <1>7, L1GetType DEF GetOrLoad, HitL1, Revalidate, Join, Start
<1>8. ASSUME NEW j \in Instances, Restart(j)
      PROVE  FALSE
  BY <1>6, <1>8 DEF Restart, TypeOK
<1>9. QED
  BY <1>4, <1>5, <1>6, <1>7, <1>8
  DEF Next, LoadStep, ReadL2, CallLoader, LoaderThrows, WriteLands, WriteFails,
      SweepExpiredEntries, Tick, vars

\* While a process holds a key in L1, no row another process wrote and no late
\* load replaces it by older data.
THEOREM L1NeverGoesBackHolds == Spec => L1NeverGoesBack
<1>1. TypeOK /\ IInv /\ [Next]_vars
        => [\A i \in Instances, k \in Keys :
              l1[i][k] # None /\ l1'[i][k] # None
                => l1[i][k].entry.payload <= l1'[i][k].entry.payload]_vars
  BY StepKeepsNewest
<1>2. QED
  BY <1>1, InvariantHolds, PTL DEF Spec, L1NeverGoesBack

-----------------------------------------------------------------------------
(* The cache implements the safety part of CacheContract.                  *)

\* The clock stays within its bound, in the cache and in the contract.
LEMMA ClockIsBounded == Spec => [](now \in Nat /\ now <= MaxTime)
<1>1. Init => now \in Nat /\ now <= MaxTime
  BY PolicyAssumption DEF Init
<1>2. now \in Nat /\ now <= MaxTime /\ [Next]_vars => (now \in Nat /\ now <= MaxTime)'
  <2> SUFFICES ASSUME now \in Nat, now <= MaxTime, [Next]_vars
               PROVE  now' \in Nat /\ now' <= MaxTime
    OBVIOUS
  <2>1. CASE UNCHANGED now
    BY <2>1
  <2>2. CASE Tick
    BY <2>2, PolicyAssumption DEF Tick
  <2>3. QED
    BY <2>1, <2>2 DEF Next, vars, GetOrLoad, HitL1, Revalidate, Join, Start, LoadStep, ReadL2,
         PromoteL2, CallLoader, LoaderReturns, LoaderThrows, WriteLands, WriteFails,
         SweepExpiredEntries, Restart
<1>3. QED
  BY <1>1, <1>2, PTL DEF Spec

LEMMA FetchOfType ==
  ASSUME TypeOK, NEW p \in Loads, load[p] # None
  PROVE  /\ load[p].inst \in Instances /\ load[p].key \in Keys
         /\ FetchOf(p) \in Instances \X Keys /\ FetchOf(p) # None
<1>1. load[p] \in LoadState
  BY DEF TypeOK
<1>2. QED
  BY <1>1, NoneAssumption DEF LoadState, FetchOf

\* A promise is known by its pair.
LEMMA OneFetchPerPair ==
  ASSUME TypeOK, IInv, NEW p \in Loads, NEW q \in Loads,
         load[p] # None, load[q] # None, FetchOf(p) = FetchOf(q)
  PROVE  p = q
<1>1. load[p].inst = load[q].inst /\ load[p].key = load[q].key
  BY DEF FetchOf
<1>2. QED
  BY <1>1 DEF IInv, InFlightIsExact

\* What a request waits for is under way.
LEMMA PendingIsUnderWay ==
  ASSUME TypeOK, IInv, NEW c \in Callers, waitsOn[c] # None
  PROVE  /\ waitsOn[c] \in Loads /\ load[waitsOn[c]] # None
         /\ PendingBar[c] = FetchOf(waitsOn[c]) /\ PendingBar[c] # None
<1>1. waitsOn[c] \in Loads
  BY DEF TypeOK
<1>2. load[waitsOn[c]] # None
  BY DEF IInv, Safety, WaitersAreServed
<1>3. QED
  BY <1>1, <1>2, FetchOfType DEF PendingBar

\* A step that leaves requests and loads what and where they are, and hands out
\* nothing, is one the contract does not see.
LEMMA UnseenStep ==
  ASSUME TypeOK, IInv, now \in Nat, now <= MaxTime,
         UNCHANGED waitsOn, answer' = None,
         now' = now \/ (now' = now + 1 /\ now' <= MaxTime),
         \A q \in Loads : /\ load'[q] = None <=> load[q] = None
                          /\ load[q] # None => /\ load'[q].inst = load[q].inst
                                               /\ load'[q].key = load[q].key
  PROVE  Contract!Quiet
<1>1. ASSUME NEW c \in Callers
      PROVE  PendingBar'[c] = PendingBar[c]
  BY PendingIsUnderWay DEF PendingBar, FetchOf
<1>2. PendingBar' = PendingBar
  BY <1>1 DEF PendingBar
<1>3. FetchingBar' = FetchingBar
  BY DEF FetchingBar, FetchOf
<1>4. QED
  BY <1>2, <1>3 DEF Contract!Quiet, AnswerBar

\* A load that begins adds its pair and disturbs no request.
LEMMA BeginSeen ==
  ASSUME TypeOK, IInv, NEW i \in Instances, NEW k \in Keys,
         NEW f \in Entry \cup {None}, NEW p \in Unused, Begin(p, i, k, f)
  PROVE  /\ FetchingBar' = FetchingBar \cup {<<i, k>>}
         /\ FetchOf(p)' = <<i, k>>
         /\ \A q \in Loads : load[q] # None => FetchOf(q)' = FetchOf(q)
<1>1. p \in Loads /\ load[p] = None
  BY DEF Unused
<1> DEFINE begun == [phase |-> "reading", inst |-> i, key |-> k, row |-> None, fallback |-> f]
<1>2. load' = [load EXCEPT ![p] = begun]
  BY DEF Begin
<1>3. /\ load'[p] = begun
      /\ \A q \in Loads \ {p} : load'[q] = load[q]
  BY <1>1, <1>2 DEF TypeOK
<1>4. FetchOf(p)' = <<i, k>>
  BY <1>3 DEF FetchOf
<1>5. \A q \in Loads \ {p} : FetchOf(q)' = FetchOf(q)
  BY <1>3 DEF FetchOf
<1>6. load'[p] # None
  <2>1. begun \in LoadState
    BY DEF LoadState
  <2> HIDE DEF begun
  <2>2. QED
    BY <1>3, <2>1, NoneAssumption
<1>7. FetchingBar' = FetchingBar \cup {<<i, k>>}
  BY <1>1, <1>3, <1>4, <1>5, <1>6 DEF FetchingBar
<1>8. QED
  BY <1>1, <1>4, <1>5, <1>7

\* An answer the invariant allows is one the contract allows.
LEMMA AnswerIsAllowed ==
  ASSUME TypeOK', IInv', now' = now, now \in Nat,
         NEW i \in Instances, NEW k \in Keys, NEW status \in Status, NEW stale \in BOOLEAN,
         NEW payload \in 0..now,
         status = "ERROR" => stale = FALSE /\ payload = 0,
         answer' = [inst |-> i, key |-> k, status |-> status, stale |-> stale,
                    payload |-> payload]
  PROVE  /\ AnswerBar' \in Contract!Allowed(i, k, now)
         /\ AnswerBar'.failed = (status = "ERROR")
<1>1. answer' \in Answer /\ answer' # None
  BY NoneAssumption DEF Answer
<1>2. AnswerBar' = [inst |-> i, key |-> k, failed |-> status = "ERROR", stale |-> stale,
                    payload |-> payload]
  BY <1>1 DEF AnswerBar
<1>3. /\ Ttl[k] \in Nat /\ Swr[k] \in Nat /\ Sie[k] \in Nat
      /\ StaleFor[k] = IF Swr[k] > Sie[k] THEN Swr[k] ELSE Sie[k]
  BY PolicyAssumption DEF StaleFor
<1>4. CASE status = "ERROR"
  BY <1>2, <1>4 DEF Contract!Allowed
<1>5. CASE status # "ERROR" /\ stale = FALSE
  <2>1. now < payload + Ttl[k]
    BY <1>1, <1>5 DEF IInv, Safety, FreshIsRecent
  <2>2. QED
    BY <1>2, <1>5, <2>1 DEF Contract!Allowed
<1>6. CASE status # "ERROR" /\ stale = TRUE
  <2>1. /\ payload + Ttl[k] <= now
        /\ \/ now <= payload + Ttl[k] + Swr[k]
           \/ now <= payload + Ttl[k] + Sie[k]
    BY <1>1, <1>6 DEF IInv, Safety, StaleIsBounded
  <2>2. now <= payload + Ttl[k] + StaleFor[k]
    BY <1>3, <2>1
  <2>3. QED
    BY <1>2, <1>6, <2>1, <2>2 DEF Contract!Allowed
<1>7. QED
  BY <1>4, <1>5, <1>6

\* A load that ends answers all that wait for its pair, and only those.
LEMMA SettleSeen ==
  ASSUME TypeOK, IInv, TypeOK', IInv', now' = now, now \in Nat,
         NEW p \in Loads, load[p] # None,
         NEW status \in Status, NEW stale \in BOOLEAN, NEW payload \in 0..now,
         status = "ERROR" => stale = FALSE /\ payload = 0,
         Settle(p, Result(p, status, stale, payload))
  PROVE  Contract!Complete(load[p].inst, load[p].key)
<1> DEFINE i == load[p].inst
           k == load[p].key
<1>1. i \in Instances /\ k \in Keys /\ FetchOf(p) = <<i, k>> /\ FetchOf(p) # None
  BY FetchOfType DEF FetchOf
<1>2. /\ \A q \in Loads : load'[q] = IF q = p THEN None ELSE load[q]
      /\ \A c \in Callers : waitsOn'[c] = IF waitsOn[c] = p THEN None ELSE waitsOn[c]
  BY DEF Settle, TypeOK
<1>3. FetchingBar' = FetchingBar \ {<<i, k>>}
  <2>1. ASSUME NEW f \in FetchingBar'
        PROVE  f \in FetchingBar \ {<<i, k>>}
    <3>1. PICK q \in Loads : load'[q] # None /\ f = FetchOf(q)'
      BY <2>1 DEF FetchingBar
    <3>2. q # p /\ load[q] # None /\ f = FetchOf(q)
      BY <1>2, <3>1 DEF FetchOf
    <3>3. f # FetchOf(p)
      BY <3>2, OneFetchPerPair
    <3>4. QED
      BY <1>1, <3>2, <3>3 DEF FetchingBar
  <2>2. ASSUME NEW f \in FetchingBar \ {<<i, k>>}
        PROVE  f \in FetchingBar'
    <3>1. PICK q \in Loads : load[q] # None /\ f = FetchOf(q)
      BY <2>2 DEF FetchingBar
    <3>2. q # p
      BY <1>1, <2>2, <3>1
    <3>3. load'[q] # None /\ f = FetchOf(q)'
      BY <1>2, <3>1, <3>2 DEF FetchOf
    <3>4. QED
      BY <3>3 DEF FetchingBar
  <2>3. QED
    BY <2>1, <2>2
<1>4. ASSUME NEW c \in Callers
      PROVE  /\ PendingBar[c] = <<i, k>> <=> waitsOn[c] = p
             /\ PendingBar'[c] = IF PendingBar[c] = <<i, k>> THEN None ELSE PendingBar[c]
  <2>1. CASE waitsOn[c] = None
    BY <1>1, <1>2, <2>1, NoneAssumption DEF PendingBar
  <2>2. CASE waitsOn[c] = p
    <3>1. waitsOn[c] # None
      BY <2>2, NoneAssumption
    <3>2. PendingBar[c] = <<i, k>>
      BY <1>1, <2>2, <3>1, PendingIsUnderWay
    <3>3. QED
      BY <1>2, <2>2, <3>2 DEF PendingBar
  <2>3. CASE waitsOn[c] # None /\ waitsOn[c] # p
    <3>1. /\ waitsOn[c] \in Loads /\ load[waitsOn[c]] # None
          /\ PendingBar[c] = FetchOf(waitsOn[c])
      BY <2>3, PendingIsUnderWay
    <3>2. PendingBar[c] # <<i, k>>
      BY <1>1, <2>3, <3>1, OneFetchPerPair
    <3>3. waitsOn'[c] = waitsOn[c] /\ FetchOf(waitsOn[c])' = FetchOf(waitsOn[c])
      BY <1>2, <2>3, <3>1 DEF FetchOf
    <3>4. QED
      BY <2>3, <3>1, <3>2, <3>3 DEF PendingBar
  <2>4. QED
    BY <2>1, <2>2, <2>3
<1>5. PendingBar' = [c \in Callers |-> IF PendingBar[c] = <<i, k>> THEN None ELSE PendingBar[c]]
  BY <1>4 DEF PendingBar
<1>6. <<i, k>> \in FetchingBar
  BY <1>1 DEF FetchingBar
<1>7. CASE Waiting(p) = {}
  <2>1. AnswerBar' = None
    BY <1>7 DEF Settle, AnswerBar
  <2>2. ~\E c \in Callers : PendingBar[c] = <<i, k>>
    BY <1>4, <1>7 DEF Waiting
  <2>3. QED
    BY <1>3, <1>5, <1>6, <2>1, <2>2 DEF Contract!Complete
<1>8. CASE Waiting(p) # {}
  <2>1. answer' = [inst |-> i, key |-> k, status |-> status, stale |-> stale,
                   payload |-> payload]
    BY <1>8 DEF Settle, Result
  <2>2. AnswerBar' \in Contract!Allowed(i, k, now)
    BY <1>1, <2>1, AnswerIsAllowed
  <2>3. \E c \in Callers : PendingBar[c] = <<i, k>>
    BY <1>4, <1>8 DEF Waiting
  <2>4. QED
    BY <1>3, <1>5, <1>6, <2>2, <2>3 DEF Contract!Complete
<1>9. QED
  BY <1>7, <1>8

LEMMA ContractStep ==
  ASSUME TypeOK, IInv, TypeOK', IInv', now \in Nat, now <= MaxTime, [Next]_vars
  PROVE  [Contract!Next]_(Contract!vars)
<1> USE DEF Contract!Next
\* What a request finds in L1 was loaded by now.
<1>0. ASSUME NEW i \in Instances, NEW k \in Keys, L1Get(i, k) # None
      PROVE  L1Get(i, k) \in Entry /\ L1Get(i, k).payload \in 0..now
  BY <1>0, L1GetType DEF IInv, AllStamped, Stamped, Entry
<1>1. ASSUME NEW c \in Callers, NEW i \in Instances, NEW k \in Keys, HitL1(c, i, k)
      PROVE  Contract!Next
  <2>1. /\ L1Get(i, k).payload \in 0..now
        /\ answer' = [inst |-> i, key |-> k, status |-> "HIT_L1", stale |-> FALSE,
                      payload |-> L1Get(i, k).payload]
        /\ UNCHANGED <<now, load, waitsOn>>
    BY <1>0, <1>1 DEF HitL1
  <2>2. AnswerBar' \in Contract!Allowed(i, k, now) /\ ~AnswerBar'.failed
    BY <2>1, AnswerIsAllowed DEF Status
  <2>3. PendingBar' = PendingBar /\ FetchingBar' = FetchingBar
    BY <2>1 DEF PendingBar, FetchingBar, FetchOf
  <2>4. Contract!Serve(i, k)
    BY <2>1, <2>2, <2>3 DEF Contract!Serve
  <2>5. QED
    BY <2>4
<1>2. ASSUME NEW c \in Callers, NEW i \in Instances, NEW k \in Keys, Revalidate(c, i, k)
      PROVE  Contract!Next
  <2>1. /\ L1Get(i, k) \in Entry /\ L1Get(i, k).payload \in 0..now
        /\ answer' = [inst |-> i, key |-> k, status |-> "REVALIDATING", stale |-> TRUE,
                      payload |-> L1Get(i, k).payload]
        /\ UNCHANGED <<now, waitsOn>>
    BY <1>0, <1>2 DEF Revalidate
  <2>2. AnswerBar' \in Contract!Allowed(i, k, now) /\ ~AnswerBar'.failed
    BY <2>1, AnswerIsAllowed DEF Status
  <2>3. CASE UNCHANGED <<load, inFlight>>
    BY <2>1, <2>2, <2>3 DEF PendingBar, FetchingBar, FetchOf, Contract!Serve
  <2>4. ASSUME NEW p \in Unused, Begin(p, i, k, L1Get(i, k))
        PROVE  Contract!Serve(i, k)
    <3>1. /\ FetchingBar' = FetchingBar \cup {<<i, k>>}
          /\ \A q \in Loads : load[q] # None => FetchOf(q)' = FetchOf(q)
      BY <2>1, <2>4, BeginSeen
    <3>2. ASSUME NEW d \in Callers
          PROVE  PendingBar'[d] = PendingBar[d]
      BY <2>1, <3>1, PendingIsUnderWay DEF PendingBar, FetchOf
    <3>3. PendingBar' = PendingBar
      BY <3>2 DEF PendingBar
    <3>4. QED
      BY <2>1, <2>2, <3>1, <3>3 DEF Contract!Serve
  <2>5. QED
    BY <1>2, <2>3, <2>4 DEF Revalidate
<1>3. ASSUME NEW c \in Callers, NEW i \in Instances, NEW k \in Keys, Join(c, i, k)
      PROVE  Contract!Next
  <2> DEFINE p == inFlight[i][k]
  <2>1. /\ waitsOn[c] = None /\ p # None
        /\ waitsOn' = [waitsOn EXCEPT ![c] = p]
        /\ UNCHANGED <<now, load>> /\ answer' = None
    BY <1>3 DEF Join, Registered
  <2>2. p \in Loads /\ load[p] # None /\ FetchOf(p) = <<i, k>>
    BY <2>1 DEF TypeOK, IInv, InFlightIsExact, FetchOf
  <2>3. FetchingBar' = FetchingBar /\ <<i, k>> \in FetchingBar
    BY <2>1, <2>2 DEF FetchingBar, FetchOf
  <2>4. PendingBar[c] = None /\ AnswerBar' = None
    BY <2>1 DEF PendingBar, AnswerBar
  <2>5. ASSUME NEW d \in Callers
        PROVE  PendingBar'[d] = IF d = c THEN <<i, k>> ELSE PendingBar[d]
    <3>1. waitsOn'[d] = IF d = c THEN p ELSE waitsOn[d]
      BY <2>1 DEF TypeOK
    <3>2. QED
      BY <2>1, <2>2, <3>1 DEF PendingBar, FetchOf
  <2>6. PendingBar' = [PendingBar EXCEPT ![c] = <<i, k>>]
    BY <2>5 DEF PendingBar
  <2>7. Contract!Wait(c, i, k)
    BY <2>1, <2>3, <2>4, <2>6 DEF Contract!Wait
  <2>8. QED
    BY <2>7
<1>4. ASSUME NEW c \in Callers, NEW i \in Instances, NEW k \in Keys, Start(c, i, k)
      PROVE  Contract!Next
  <2>1. PICK p \in Unused : /\ Begin(p, i, k, L1Get(i, k))
                            /\ waitsOn' = [waitsOn EXCEPT ![c] = p]
    BY <1>4 DEF Start
  <2>2. waitsOn[c] = None /\ UNCHANGED now /\ answer' = None
    BY <1>4 DEF Start
  <2>3. L1Get(i, k) \in Entry \cup {None} /\ p \in Loads /\ p # None
    BY L1GetType, NoneAssumption DEF Unused
  <2>4. /\ FetchingBar' = FetchingBar \cup {<<i, k>>}
        /\ FetchOf(p)' = <<i, k>>
        /\ \A q \in Loads : load[q] # None => FetchOf(q)' = FetchOf(q)
    BY <2>1, <2>3, BeginSeen
  <2>5. PendingBar[c] = None /\ AnswerBar' = None
    BY <2>2 DEF PendingBar, AnswerBar
  <2>6. ASSUME NEW d \in Callers
        PROVE  PendingBar'[d] = IF d = c THEN <<i, k>> ELSE PendingBar[d]
    <3>1. waitsOn'[d] = IF d = c THEN p ELSE waitsOn[d]
      BY <2>1 DEF TypeOK
    <3>2. QED
      BY <2>3, <2>4, <3>1, PendingIsUnderWay DEF PendingBar, FetchOf
  <2>7. PendingBar' = [PendingBar EXCEPT ![c] = <<i, k>>]
    BY <2>6 DEF PendingBar
  <2>8. Contract!Wait(c, i, k)
    BY <2>2, <2>4, <2>5, <2>7 DEF Contract!Wait
  <2>9. QED
    BY <2>8
<1>5. ASSUME NEW p \in Loads, ReadL2(p) \/ CallLoader(p)
      PROVE  Contract!Next
  <2>1. load[p] # None /\ load[p] \in LoadState
    BY <1>5 DEF ReadL2, CallLoader, TypeOK
  <2>2. /\ \A q \in Loads \ {p} : load'[q] = load[q]
        /\ load'[p].inst = load[p].inst /\ load'[p].key = load[p].key
        /\ UNCHANGED <<now, waitsOn>> /\ answer' = None
    BY <1>5, <2>1 DEF ReadL2, CallLoader, TypeOK, LoadState
  <2>3. load'[p] # None
    BY <1>5, <2>1, NoneAssumption DEF ReadL2, CallLoader, BestFallback, TypeOK, LoadState
  <2>4. Contract!Quiet
    BY <2>1, <2>2, <2>3, UnseenStep
  <2>5. QED
    BY <2>4
<1>6. ASSUME NEW p \in Loads, PromoteL2(p)
      PROVE  Contract!Next
  <2>1. load[p] # None /\ load[p].row # None /\ load[p] \in LoadState
    BY <1>6 DEF PromoteL2, TypeOK
  <2>2. load[p].row \in Entry /\ load[p].row.payload \in 0..now
    BY <2>1 DEF LoadState, IInv, AllStamped, Stamped, Entry
  <2>3. Contract!Complete(load[p].inst, load[p].key)
    BY <1>6, <2>1, <2>2, SettleSeen DEF PromoteL2, Status
  <2>4. QED
    BY <2>1, <2>3, FetchOfType
<1>7. ASSUME NEW p \in Loads, LoaderReturns(p)
      PROVE  Contract!Next
  <2>1. /\ load[p] # None /\ UNCHANGED now
        /\ Settle(p, Result(p, "MISS", FALSE, now))
    BY <1>7 DEF LoaderReturns
  <2>2. now \in 0..now
    OBVIOUS
  <2>3. Contract!Complete(load[p].inst, load[p].key)
    BY <2>1, <2>2, SettleSeen DEF Status
  <2>4. QED
    BY <2>1, <2>3, FetchOfType
<1>8. ASSUME NEW p \in Loads, LoaderThrows(p)
      PROVE  Contract!Next
  <2> DEFINE f == load[p].fallback
  <2>1. load[p] # None /\ load[p] \in LoadState /\ UNCHANGED now
    BY <1>8 DEF LoaderThrows, TypeOK
  <2>2. ASSUME f # None, IsUsableAsFallback(f, load[p].key)
        PROVE  Contract!Complete(load[p].inst, load[p].key)
    <3>1. f \in Entry /\ f.payload \in 0..now
      BY <2>1, <2>2 DEF LoadState, IInv, AllStamped, Stamped, Entry
    <3>2. Settle(p, Result(p, "STALE", TRUE, f.payload))
      BY <1>8, <2>2 DEF LoaderThrows
    <3>3. QED
      BY <2>1, <3>1, <3>2, SettleSeen DEF Status
  <2>3. ASSUME ~(f # None /\ IsUsableAsFallback(f, load[p].key))
        PROVE  Contract!Complete(load[p].inst, load[p].key)
    <3>1. Settle(p, Result(p, "ERROR", FALSE, 0))
      BY <1>8, <2>3 DEF LoaderThrows
    <3>2. 0 \in 0..now
      OBVIOUS
    <3>3. QED
      BY <2>1, <3>1, <3>2, SettleSeen DEF Status
  <2>4. Contract!Complete(load[p].inst, load[p].key)
    BY <2>2, <2>3
  <2>5. QED
    BY <2>1, <2>4, FetchOfType
<1>9. CASE SweepExpiredEntries \/ Tick \/ \E w \in writes : WriteLands(w) \/ WriteFails(w)
  <2>1. UNCHANGED <<load, waitsOn>> /\ answer' = None
    BY <1>9 DEF SweepExpiredEntries, Tick, WriteLands, WriteFails
  <2>2. now' = now \/ (now' = now + 1 /\ now' <= MaxTime)
    BY <1>9, PolicyAssumption DEF SweepExpiredEntries, Tick, WriteLands, WriteFails
  <2>3. Contract!Quiet
    BY <2>1, <2>2, UnseenStep
  <2>4. QED
    BY <2>3
<1>10. ASSUME NEW i \in Instances, Restart(i)
       PROVE  Contract!Next
  <2> DEFINE lost == {p \in Loads : load[p] # None /\ load[p].inst = i}
  <2>1. /\ \A q \in Loads : load'[q] = IF q \in lost THEN None ELSE load[q]
        /\ \A c \in Callers : waitsOn'[c] = IF waitsOn[c] \in lost THEN None ELSE waitsOn[c]
        /\ UNCHANGED now /\ answer' = None
    BY <1>10 DEF Restart
  <2>2. FetchingBar' = {f \in FetchingBar : f[1] # i}
    BY <2>1 DEF FetchingBar, FetchOf
  <2>3. ASSUME NEW c \in Callers
        PROVE  PendingBar'[c] = IF PendingBar[c] # None /\ PendingBar[c][1] = i
                                THEN None ELSE PendingBar[c]
    <3>1. CASE waitsOn[c] = None
      BY <2>1, <3>1, NoneAssumption DEF PendingBar
    <3>2. CASE waitsOn[c] # None
      <4>1. /\ waitsOn[c] \in Loads /\ load[waitsOn[c]] # None
            /\ PendingBar[c] = FetchOf(waitsOn[c]) /\ PendingBar[c] # None
        BY <3>2, PendingIsUnderWay
      <4>2. PendingBar[c][1] = i <=> waitsOn[c] \in lost
        BY <4>1 DEF FetchOf
      <4>3. QED
        BY <2>1, <3>2, <4>1, <4>2 DEF PendingBar, FetchOf
    <3>3. QED
      BY <3>1, <3>2
  <2>4. Contract!Restart(i)
    BY <2>1, <2>2, <2>3 DEF Contract!Restart, PendingBar, AnswerBar
  <2>5. QED
    BY <2>4
<1>11. CASE UNCHANGED vars
  BY <1>11 DEF vars, Contract!vars, PendingBar, FetchingBar, FetchOf, AnswerBar
<1>12. QED
  BY <1>1, <1>2, <1>3, <1>4, <1>5, <1>6, <1>7, <1>8, <1>9, <1>10, <1>11
  DEF Next, GetOrLoad, LoadStep

\* Whatever its tiers, promises, upserts and restarts do, the cache is one that
\* CacheContract allows: every answer is, and every wait and every fetch.
THEOREM ImplementsContractSafely == Spec => Contract!Init /\ [][Contract!Next]_(Contract!vars)
<1>1. Init => Contract!Init
  BY DEF Init, Contract!Init, PendingBar, FetchingBar, AnswerBar
<1>2. TypeOK /\ IInv /\ (TypeOK /\ IInv)' /\ (now \in Nat /\ now <= MaxTime) /\ [Next]_vars
        => [Contract!Next]_(Contract!vars)
  <2> SUFFICES ASSUME TypeOK, IInv, TypeOK', IInv', now \in Nat, now <= MaxTime, [Next]_vars
               PROVE  [Contract!Next]_(Contract!vars)
    OBVIOUS
  <2> QED
    BY ContractStep
<1>3. QED
  BY <1>1, <1>2, InvariantHolds, ClockIsBounded, PTL DEF Spec
=============================================================================
