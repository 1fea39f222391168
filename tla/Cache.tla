------------------------------- MODULE Cache -------------------------------
(***************************************************************************)
(* The two-tier cache of server/src/cache/index.ts: an LRU map in each     *)
(* server process (L1), one table all processes share (L2), and one shared *)
(* load per process and key.                                               *)
(*                                                                         *)
(* A process runs its handlers one at a time, so an action is what runs    *)
(* between two awaits.  A load awaits twice: its read of the table and its *)
(* loader.  An upsert is never awaited and lands, or fails, at any later   *)
(* time.  A payload is the time at which the loader returned it, which is  *)
(* all the properties tell payloads apart by.                              *)
(*                                                                         *)
(* Left out: the metrics, logging, and invalidate(), which nothing calls.  *)
(***************************************************************************)
EXTENDS Naturals, FiniteSets

CONSTANTS Instances,           \* server processes
          Keys,                \* cache keys
          Callers,             \* concurrent calls of getOrLoad
          Loads,               \* identities of the shared promises
          Ttl,                 \* Ttl[k]: policy.ttlMs
          Swr,                 \* Swr[k]: policy.staleWhileRevalidateMs
          Sie,                 \* Sie[k]: policy.staleIfErrorMs
          DefaultStaleIfError, \* DEFAULT_STALE_IF_ERROR_MS
          L1Max,               \* max of the LRU map
          MaxTime,             \* bound on the clock
          MaxWrites,           \* bound on the upserts not yet landed
          None

\* An entry of either tier, and what the LRU map keeps of one.
Entry == [payload : Nat, expiresAt : Nat]
Slot  == [entry : Entry, setAt : Nat]

\* A shared load: reading L2, having read it, or awaiting the loader.
\* fallback is l1Fallback until the loader is called, then the copy chosen.
LoadState == [phase : {"reading", "read", "loading"},
              inst : Instances, key : Keys,
              row : Entry \cup {None}, fallback : Entry \cup {None}]

Status == {"HIT_L1", "HIT_L2", "REVALIDATING", "MISS", "STALE", "ERROR"}

\* A result handed to requests.  Those that joined a load see its status as
\* COALESCED; the model keeps the status of the load itself.
Answer == [inst : Instances, key : Keys, status : Status,
           stale : BOOLEAN, payload : Nat]

ASSUME PolicyAssumption ==
  /\ Ttl \in [Keys -> Nat \ {0}]
  /\ Swr \in [Keys -> Nat]
  /\ Sie \in [Keys -> Nat]
  /\ DefaultStaleIfError \in Nat
  /\ L1Max \in Nat \ {0}
  /\ MaxTime \in Nat
  /\ MaxWrites \in Nat \ {0}

ASSUME NoneAssumption ==
  /\ None \notin Entry \cup Slot
  /\ None \notin LoadState \cup Answer
  /\ None \notin Loads \cup (Instances \X Keys)

VARIABLES now,       \* Date.now()
          l1,        \* l1[i][k]: slot of k in the LRU map of process i
          l2,        \* l2[k]: row of k in the CacheEntry table
          load,      \* load[p]: the load behind promise p, None when settled
          inFlight,  \* inFlight[i][k]: the promise registered for k, or None
          writes,    \* upserts issued and not yet landed or failed
          waitsOn,   \* waitsOn[c]: the promise request c awaits, or None
          answer     \* the result this step handed out, or None

vars == <<now, l1, l2, load, inFlight, writes, waitsOn, answer>>

-----------------------------------------------------------------------------
(* Reading the clock and the policies.                                     *)

\* Mutant: >= for >.
FreshAtExpiry(e) == now <= e.expiresAt

\* expiresAtMs > Date.now()
Fresh(e) == now < e.expiresAt

\* Mutant: the horizon is not checked.
UsableWhileCached(e, k) == now >= e.expiresAt

\* The entry a policy lets stand in for a loader that threw.
IsUsableAsFallback(e, k) == now <= e.expiresAt + Sie[k]

\* The window in which an expired L1 entry is served while it is refreshed.
InSwrWindow(e, k) == Swr[k] > 0 /\ now <= e.expiresAt + Swr[k]

-----------------------------------------------------------------------------
(* The LRU map, an external library: get() drops a slot older than the ttl *)
(* of the map, set() drops another slot when the map is full.  Which one   *)
(* is left open: recency of use is not kept.                               *)

LruExpired(s) == s.setAt + DefaultStaleIfError < now

L1Get(i, k) ==
  IF l1[i][k] # None /\ ~LruExpired(l1[i][k]) THEN l1[i][k].entry ELSE None

L1AfterGet(i, k) ==
  IF L1Get(i, k) = None THEN [l1 EXCEPT ![i][k] = None] ELSE l1

\* The maps that setting k to e in process i may leave.
L1AfterSet(i, k, e) ==
  LET put    == [l1[i] EXCEPT ![k] = [entry |-> e, setAt |-> now]]
      others == {o \in Keys \ {k} : l1[i][o] # None}
  IN  IF Cardinality(others) < L1Max
      THEN {[l1 EXCEPT ![i] = put]}
      ELSE {[l1 EXCEPT ![i] = [put EXCEPT ![o] = None]] : o \in others}

-----------------------------------------------------------------------------
(* Shared loads.                                                           *)

Waiting(p) == {c \in Callers : waitsOn[c] = p}
Unused     == {p \in Loads : load[p] = None /\ Waiting(p) = {}}

\* Mutant: the earlier version the source describes, whose L2 read was outside
\* single-flight.
RegisteredOnceRead(i, k) ==
  IF inFlight[i][k] # None /\ load[inFlight[i][k]] # None
     /\ load[inFlight[i][k]].phase = "reading"
  THEN None ELSE inFlight[i][k]

\* The promise a request for k finds in the inFlight map of its process.
Registered(i, k) == inFlight[i][k]

\* Mutant: the promise is not registered.
BeginUnregistered(p, i, k, l1Fallback) ==
  /\ load' = [load EXCEPT ![p] = [phase |-> "reading", inst |-> i, key |-> k,
                                  row |-> None, fallback |-> l1Fallback]]
  /\ UNCHANGED inFlight

\* loadShared up to its first await: the read of L2 is issued and the promise
\* registered in the same turn.
Begin(p, i, k, l1Fallback) ==
  /\ load' = [load EXCEPT ![p] = [phase |-> "reading", inst |-> i, key |-> k,
                                  row |-> None, fallback |-> l1Fallback]]
  /\ inFlight' = [inFlight EXCEPT ![i][k] = p]

Result(p, status, stale, payload) ==
  [inst |-> load[p].inst, key |-> load[p].key, status |-> status,
   stale |-> stale, payload |-> payload]

\* Mutant: no finally, so a settled promise stays registered.
SettleWithoutDelete(p, result) ==
  /\ load' = [load EXCEPT ![p] = None]
  /\ UNCHANGED inFlight
  /\ waitsOn' = [c \in Callers |-> IF waitsOn[c] = p THEN None ELSE waitsOn[c]]
  /\ answer' = IF Waiting(p) = {} THEN None ELSE result

\* Mutant: the load is marked as ended where it should be forgotten.
SettleWithMark(p, result) ==
  /\ load' = [load EXCEPT ![p].phase = "settled"]
  /\ inFlight' = [inFlight EXCEPT ![load[p].inst][load[p].key] = None]
  /\ waitsOn' = [c \in Callers |-> IF waitsOn[c] = p THEN None ELSE waitsOn[c]]
  /\ answer' = IF Waiting(p) = {} THEN None ELSE result

\* A load ends: its promise leaves the inFlight map, whatever it settled
\* with, and every request awaiting it is answered with the same result.
Settle(p, result) ==
  /\ load' = [load EXCEPT ![p] = None]
  /\ inFlight' = [inFlight EXCEPT ![load[p].inst][load[p].key] = None]
  /\ waitsOn' = [c \in Callers |-> IF waitsOn[c] = p THEN None ELSE waitsOn[c]]
  /\ answer' = IF Waiting(p) = {} THEN None ELSE result

-----------------------------------------------------------------------------
Init ==
  /\ now = 0
  /\ l1 = [i \in Instances |-> [k \in Keys |-> None]]
  /\ l2 = [k \in Keys |-> None]
  /\ load = [p \in Loads |-> None]
  /\ inFlight = [i \in Instances |-> [k \in Keys |-> None]]
  /\ writes = {}
  /\ waitsOn = [c \in Callers |-> None]
  /\ answer = None

(* getOrLoad, up to its return or its await.                               *)

HitL1(c, i, k) ==
  LET e == L1Get(i, k) IN
  /\ waitsOn[c] = None
  /\ e # None
  /\ Fresh(e)
  /\ answer' = [inst |-> i, key |-> k, status |-> "HIT_L1",
                stale |-> FALSE, payload |-> e.payload]
  /\ UNCHANGED <<now, l1, l2, load, inFlight, writes, waitsOn>>

\* An expired entry is served at once; a load is started behind the answer
\* unless one is registered.
Revalidate(c, i, k) ==
  LET e == L1Get(i, k) IN
  /\ waitsOn[c] = None
  /\ e # None
  /\ ~Fresh(e)
  /\ InSwrWindow(e, k)
  /\ \/ /\ Registered(i, k) # None
        /\ UNCHANGED <<load, inFlight>>
     \/ /\ Registered(i, k) = None
        /\ \E p \in Unused : Begin(p, i, k, e)
  /\ answer' = [inst |-> i, key |-> k, status |-> "REVALIDATING",
                stale |-> TRUE, payload |-> e.payload]
  /\ UNCHANGED <<now, l1, l2, writes, waitsOn>>

\* L1 holds nothing the request may be served from.
Missed(i, k) ==
  LET e == L1Get(i, k) IN e # None => ~Fresh(e) /\ ~InSwrWindow(e, k)

Join(c, i, k) ==
  /\ waitsOn[c] = None
  /\ Missed(i, k)
  /\ Registered(i, k) # None
  /\ l1' = L1AfterGet(i, k)
  /\ waitsOn' = [waitsOn EXCEPT ![c] = Registered(i, k)]
  /\ answer' = None
  /\ UNCHANGED <<now, l2, load, inFlight, writes>>

Start(c, i, k) ==
  /\ waitsOn[c] = None
  /\ Missed(i, k)
  /\ Registered(i, k) = None
  /\ l1' = L1AfterGet(i, k)
  /\ \E p \in Unused :
       /\ Begin(p, i, k, L1Get(i, k))
       /\ waitsOn' = [waitsOn EXCEPT ![c] = p]
  /\ answer' = None
  /\ UNCHANGED <<now, l2, writes>>

-----------------------------------------------------------------------------
(* The shared load.                                                        *)

\* The database answers the SELECT, or the read fails and counts as a miss.
ReadL2(p) ==
  /\ load[p] # None
  /\ load[p].phase = "reading"
  /\ \E row \in {l2[load[p].key], None} :
       load' = [load EXCEPT ![p].phase = "read", ![p].row = row]
  /\ answer' = None
  /\ UNCHANGED <<now, l1, l2, inFlight, writes, waitsOn>>

\* Mutant: any row is promoted, expired or not.
PromoteAnyRow(p) ==
  /\ load[p] # None
  /\ load[p].phase = "read"
  /\ load[p].row # None
  /\ l1' \in L1AfterSet(load[p].inst, load[p].key, load[p].row)
  /\ Settle(p, Result(p, "HIT_L2", FALSE, load[p].row.payload))
  /\ UNCHANGED <<now, l2, writes>>

\* The row is fresh: it is promoted to L1 and answers the load.
PromoteL2(p) ==
  /\ load[p] # None
  /\ load[p].phase = "read"
  /\ load[p].row # None
  /\ Fresh(load[p].row)
  /\ l1' \in L1AfterSet(load[p].inst, load[p].key, load[p].row)
  /\ Settle(p, Result(p, "HIT_L2", FALSE, load[p].row.payload))
  /\ UNCHANGED <<now, l2, writes>>

\* l2Entry ?? l1Fallback ?? null
BestFallback(p) == IF load[p].row # None THEN load[p].row ELSE load[p].fallback

\* No fresh row: the loader is called.
CallLoader(p) ==
  /\ load[p] # None
  /\ load[p].phase = "read"
  /\ load[p].row # None => ~Fresh(load[p].row)
  /\ load' = [load EXCEPT ![p].phase = "loading", ![p].row = None,
                          ![p].fallback = BestFallback(p)]
  /\ answer' = None
  /\ UNCHANGED <<now, l1, l2, inFlight, writes, waitsOn>>

\* Mutant: one time to live, the longest, for every key.
LoadedWithOneTtl(k) ==
  [payload |-> now,
   expiresAt |-> now + CHOOSE t \in {Ttl[o] : o \in Keys} : \A o \in Keys : Ttl[o] <= t]

\* The entry stored when the loader of k returns.
Loaded(k) == [payload |-> now, expiresAt |-> now + Ttl[k]]

LoaderReturns(p) ==
  /\ load[p] # None
  /\ load[p].phase = "loading"
  /\ Cardinality(writes) < MaxWrites
  /\ LET k == load[p].key IN
     /\ l1' \in L1AfterSet(load[p].inst, k, Loaded(k))
     /\ writes' = writes \cup {[key |-> k, entry |-> Loaded(k)]}
  /\ Settle(p, Result(p, "MISS", FALSE, now))
  /\ UNCHANGED <<now, l2>>

\* The loader throws: the fallback answers if its policy still allows it.
LoaderThrows(p) ==
  /\ load[p] # None
  /\ load[p].phase = "loading"
  /\ LET f == load[p].fallback IN
     Settle(p, IF f # None /\ IsUsableAsFallback(f, load[p].key)
               THEN Result(p, "STALE", TRUE, f.payload)
               ELSE Result(p, "ERROR", FALSE, 0))
  /\ UNCHANGED <<now, l1, l2, writes>>

-----------------------------------------------------------------------------
(* The table, the processes and the clock.                                 *)

WriteLands(w) ==
  /\ l2' = [l2 EXCEPT ![w.key] = w.entry]
  /\ writes' = writes \ {w}
  /\ answer' = None
  /\ UNCHANGED <<now, l1, load, inFlight, waitsOn>>

WriteFails(w) ==
  /\ writes' = writes \ {w}
  /\ answer' = None
  /\ UNCHANGED <<now, l1, l2, load, inFlight, waitsOn>>

\* sweepExpiredEntries, run at start-up, every day and by the cron handler.
SweepExpiredEntries ==
  /\ l2' = [k \in Keys |->
              IF l2[k] # None /\ l2[k].expiresAt + DefaultStaleIfError < now
              THEN None ELSE l2[k]]
  /\ answer' = None
  /\ UNCHANGED <<now, l1, load, inFlight, writes, waitsOn>>

\* A process stops and another takes its place: its memory is gone, with the
\* requests that were waiting in it.
Restart(i) ==
  LET lost == {p \in Loads : load[p] # None /\ load[p].inst = i} IN
  /\ l1' = [l1 EXCEPT ![i] = [k \in Keys |-> None]]
  /\ inFlight' = [inFlight EXCEPT ![i] = [k \in Keys |-> None]]
  /\ load' = [p \in Loads |-> IF p \in lost THEN None ELSE load[p]]
  /\ waitsOn' = [c \in Callers |-> IF waitsOn[c] \in lost THEN None ELSE waitsOn[c]]
  /\ answer' = None
  /\ UNCHANGED <<now, l2, writes>>

Tick ==
  /\ now < MaxTime
  /\ now' = now + 1
  /\ answer' = None
  /\ UNCHANGED <<l1, l2, load, inFlight, writes, waitsOn>>

GetOrLoad(c, i, k) ==
  HitL1(c, i, k) \/ Revalidate(c, i, k) \/ Join(c, i, k) \/ Start(c, i, k)

LoadStep(p) ==
  ReadL2(p) \/ PromoteL2(p) \/ CallLoader(p) \/ LoaderReturns(p) \/ LoaderThrows(p)

Next ==
  \/ \E c \in Callers, i \in Instances, k \in Keys : GetOrLoad(c, i, k)
  \/ \E p \in Loads : LoadStep(p)
  \/ \E w \in writes : WriteLands(w) \/ WriteFails(w)
  \/ SweepExpiredEntries
  \/ \E i \in Instances : Restart(i)
  \/ Tick

Spec == Init /\ [][Next]_vars

\* A database read settles and the loader is bounded by the timeouts of the
\* TMDB client, so a load that can take a step takes one.
FairSpec == Spec /\ \A p \in Loads : WF_vars(LoadStep(p))

-----------------------------------------------------------------------------
(* Properties.                                                             *)

\* Type correctness of the cache's state.
TypeOK ==
  /\ now \in Nat
  /\ l1 \in [Instances -> [Keys -> Slot \cup {None}]]
  /\ l2 \in [Keys -> Entry \cup {None}]
  /\ load \in [Loads -> LoadState \cup {None}]
  /\ inFlight \in [Instances -> [Keys -> Loads \cup {None}]]
  /\ writes \subseteq [key : Keys, entry : Entry]
  /\ waitsOn \in [Callers -> Loads \cup {None}]
  /\ answer \in Answer \cup {None}

\* Single-flight: a process never runs two loads of one key, however the
\* requests, the reads of the table and the loaders interleave.
SingleFlight ==
  \A p, q \in Loads :
    /\ load[p] # None /\ load[q] # None
    /\ load[p].inst = load[q].inst
    /\ load[p].key = load[q].key
    => p = q

\* No request awaits a promise that has settled, or one that later requests
\* for its key would not find.
WaitersAreServed ==
  \A c \in Callers :
    waitsOn[c] # None =>
      LET p == waitsOn[c] IN
      load[p] # None /\ inFlight[load[p].inst][load[p].key] = p

\* What is handed out as fresh is younger than the ttl of its key, whichever
\* tier, load or joined load it came from.
FreshIsRecent ==
  answer # None /\ answer.status # "ERROR" /\ ~answer.stale
    => now < answer.payload + Ttl[answer.key]

\* What is handed out as stale is past its ttl, and no older than the wider of
\* the two windows of its policy.
StaleIsBounded ==
  answer # None /\ answer.stale =>
    LET expiry == answer.payload + Ttl[answer.key] IN
    /\ expiry <= now
    /\ \/ now <= expiry + Swr[answer.key]
       \/ now <= expiry + Sie[answer.key]

\* No process has a load under way for a key it holds fresh in L1, so no
\* upstream call is made for data already in memory.
LoadOnlyWhenExpired ==
  \A p \in Loads :
    load[p] # None =>
      LET s == l1[load[p].inst][load[p].key] IN s # None => ~Fresh(s.entry)

\* A request served stale data by stale-while-revalidate leaves a load under
\* way that will replace it.
StaleIsBeingReplaced ==
  answer # None /\ answer.status = "REVALIDATING" =>
    \E p \in Loads : load[p] # None /\ load[p].inst = answer.inst
                                    /\ load[p].key = answer.key

\* While L1 of a process holds a key it is never overwritten by older data,
\* although rows older than it reach the process through L2.
L1NeverGoesBack ==
  [][\A i \in Instances, k \in Keys :
       l1[i][k] # None /\ l1'[i][k] # None
         => l1[i][k].entry.payload <= l1'[i][k].entry.payload]_vars

\* Every request that awaits a shared load stops waiting: it is answered, or
\* its process stops.
EveryRequestIsAnswered ==
  \A c \in Callers : waitsOn[c] # None ~> waitsOn[c] = None

-----------------------------------------------------------------------------
(* The inductive invariant behind the safety properties (CacheProofs).     *)

\* An entry of k carries the time it was loaded and expires a ttl later.
Stamped(e, k) == e.payload <= now /\ e.expiresAt = e.payload + Ttl[k]

\* So does every copy: slots, rows, upserts under way, and the copies a load
\* took before its awaits.
AllStamped ==
  /\ \A i \in Instances, k \in Keys : l1[i][k] # None => Stamped(l1[i][k].entry, k)
  /\ \A k \in Keys : l2[k] # None => Stamped(l2[k], k)
  /\ \A w \in writes : Stamped(w.entry, w.key)
  /\ \A p \in Loads : load[p] # None =>
       /\ load[p].row # None => Stamped(load[p].row, load[p].key)
       /\ load[p].fallback # None =>
            Stamped(load[p].fallback, load[p].key) /\ ~Fresh(load[p].fallback)

\* The inFlight maps register exactly the loads under way.
InFlightIsExact ==
  /\ \A p \in Loads : load[p] # None =>
       inFlight[load[p].inst][load[p].key] = p
  /\ \A i \in Instances, k \in Keys : inFlight[i][k] # None =>
       LET p == inFlight[i][k] IN
       load[p] # None /\ load[p].inst = i /\ load[p].key = k

Safety ==
  /\ WaitersAreServed
  /\ FreshIsRecent
  /\ StaleIsBounded
  /\ LoadOnlyWhenExpired
  /\ StaleIsBeingReplaced

IInv == AllStamped /\ InFlightIsExact /\ Safety

-----------------------------------------------------------------------------
(* What the documentation says and the code does not do.                   *)

\* "Degraded beats broken": a request fails only if its process holds no copy
\* its policy lets it serve.
ErrorMeansNothingUsable ==
  answer # None /\ answer.status = "ERROR" =>
    LET e == L1Get(answer.inst, answer.key) IN
    e # None => ~IsUsableAsFallback(e, answer.key)

\* "Deletes L2 rows too old to serve even as an emergency fallback."
SweepSparesUsableRows ==
  [][\A k \in Keys :
       l2[k] # None /\ l2'[k] = None => ~IsUsableAsFallback(l2[k], k)]_vars

-----------------------------------------------------------------------------
(* The contract this module implements.                                    *)

StaleFor == [k \in Keys |-> IF Swr[k] > Sie[k] THEN Swr[k] ELSE Sie[k]]

\* The pair a promise stands for.
FetchOf(p) == <<load[p].inst, load[p].key>>

\* What each request waits for, the fetches under way and what this step answered,
\* without promises and tiers.
PendingBar  == [c \in Callers |-> IF waitsOn[c] = None THEN None ELSE FetchOf(waitsOn[c])]
FetchingBar == {FetchOf(p) : p \in {q \in Loads : load[q] # None}}
AnswerBar   == IF answer = None THEN None
               ELSE [inst |-> answer.inst, key |-> answer.key,
                     failed |-> answer.status = "ERROR",
                     stale |-> answer.stale, payload |-> answer.payload]

Contract == INSTANCE CacheContract WITH
  pending <- PendingBar, fetching <- FetchingBar, answer <- AnswerBar

\* Every behaviour of the cache, its loads running, is one of the contract.
ImplementsContract == Contract!Spec
=============================================================================
