---------------------------- MODULE MoviesProofs ----------------------------
(***************************************************************************)
(* Proofs about the movie pages: that the waits of loaders for one another *)
(* are kept in order, that no browser shows data that is too old, that     *)
(* requests with one key in the cache have one answer, and that search     *)
(* pages and details show what TMDB sent and nothing else.  Of the cache   *)
(* beneath they use no more than CacheContract promises.                   *)
(*                                                                         *)
(* What filters and sorts an array is described by a listing: for each     *)
(* position of the result, the position of the array that it shows.        *)
(***************************************************************************)
EXTENDS Movies, Integers, Sequences, FiniteSetTheorems, TLAPS

Loaders == Instances \X Pages
Callers == Requests \cup Loaders

\* TypeOK, with the domains the steps keep.
Typed ==
  /\ now \in 0 .. MaxTime
  /\ fetching \in SUBSET Loads
  /\ pending \in [Callers -> Loads \cup {None}]
  /\ step \in [Loads -> Steps]
  /\ loaded \in [Keys -> SUBSET Value]

LEMMA TypedIsEnough == Typed => TypeOK
  BY DEF Typed, TypeOK, Callers, Loaders

LEMMA InitTyped == Init => Typed
  BY MovieServiceAssumption
  DEF MovieServiceAssumption, Init, C!Init, Typed, Callers, Loaders, Steps

LEMMA LoadsArePairs ==
  /\ \A i \in Instances, k \in Keys : <<i, k>> \in Loads /\ <<i, k>>[1] = i /\ <<i, k>>[2] = k
  /\ \A f \in Loads : f[1] \in Instances /\ f[2] \in Keys /\ f = <<f[1], f[2]>>
  /\ Loaders \subseteq Loads
  /\ Genres \in Keys
  /\ \A k \in Pages : k \in Keys
  BY DEF Loads, Loaders, Keys

-----------------------------------------------------------------------------
(* What the steps of the cache do.                                         *)

LEMMA ServeChanges ==
  ASSUME NEW i \in Instances, NEW k \in Keys, C!Serve(i, k)
  PROVE  /\ fetching' = fetching \/ fetching' = fetching \cup {<<i, k>>}
         /\ now' = now /\ pending' = pending
  BY DEF C!Serve

LEMMA WaitChanges ==
  ASSUME Typed, NEW c \in Callers, NEW i \in Instances, NEW k \in Keys, C!Wait(c, i, k)
  PROVE  /\ fetching' = fetching \cup {<<i, k>>}
         /\ pending' \in [Callers -> Loads \cup {None}]
         /\ pending'[c] = <<i, k>>
         /\ \A d \in Callers : d # c => pending'[d] = pending[d]
         /\ now' = now
  BY LoadsArePairs DEF C!Wait, Typed

LEMMA CompleteChanges ==
  ASSUME Typed, NEW f \in Loads, C!Complete(f[1], f[2])
  PROVE  /\ f \in fetching
         /\ fetching' = fetching \ {f}
         /\ pending' \in [Callers -> Loads \cup {None}]
         /\ \A c \in Callers : pending'[c] = IF pending[c] = f THEN None ELSE pending[c]
         /\ now' = now
  <1>1. f = <<f[1], f[2]>>
    BY LoadsArePairs
  <1>2. pending' = [c \in Callers |-> IF pending[c] = f THEN None ELSE pending[c]]
    BY <1>1 DEF C!Complete, Callers, Loaders
  <1> QED
    BY <1>1, <1>2 DEF C!Complete, Typed

LEMMA RestartChanges ==
  ASSUME Typed, NEW i \in Instances, C!Restart(i)
  PROVE  /\ fetching' = {f \in fetching : f[1] # i}
         /\ pending' \in [Callers -> Loads \cup {None}]
         /\ \A c \in Callers :
              pending'[c] = IF pending[c] # None /\ pending[c][1] = i THEN None ELSE pending[c]
         /\ now' = now
  <1>1. pending' = [c \in Callers |->
                      IF pending[c] # None /\ pending[c][1] = i THEN None ELSE pending[c]]
    BY DEF C!Restart, Callers, Loaders
  <1> QED
    BY <1>1 DEF C!Restart, Typed

\* Fetches that a step begins read the shared table next; the others are where
\* the step puts them.
LEMMA BegunSteps ==
  ASSUME NEW of \in [Loads -> Steps], step' = Begun(of)
  PROVE  /\ step' \in [Loads -> Steps]
         /\ \A f \in Loads : step'[f] = IF f \in fetching' \ fetching THEN "reading" ELSE of[f]
  BY DEF Begun, Steps

\* What the end of a fetch does to the steps of the others.
LEMMA EndChanges ==
  ASSUME Typed, NEW f \in Loads, NEW values, NEW error, End(f, values, error)
  PROVE  /\ C!Complete(f[1], f[2])
         /\ step' \in [Loads -> Steps]
         /\ step'[f] = "none"
         /\ \A g \in Loads \ {f} :
              IF step[g] = "genres" /\ pending[g] = f
              THEN step'[g] \in {"named", "unnamed"}
              ELSE step'[g] = step[g]
  <1>1. C!Complete(f[1], f[2])
    BY DEF End
  <1>2. step' = [g \in Loads |-> IF g = f THEN "none"
                                 ELSE IF step[g] = "genres" /\ pending[g] = f THEN GenreMap
                                 ELSE step[g]]
    BY DEF End
  <1>3. GenreMap \in {"named", "unnamed"}
    BY DEF GenreMap
  <1>4. step \in [Loads -> Steps] /\ {"none", "named", "unnamed"} \subseteq Steps
    BY DEF Typed, Steps
  <1> QED
    BY <1>1, <1>2, <1>3, <1>4

\* The three ways a fetch ends, as one.
LEMMA FetchEnds ==
  ASSUME Typed, NEW i \in Instances, NEW k \in Keys,
         FoundInTable(i, k) \/ LoaderReturns(i, k) \/ LoaderFails(i, k)
  PROVE  /\ step[<<i, k>>] \in {"reading", "named", "unnamed"}
         /\ \E values, error : End(<<i, k>>, values, error)
         /\ loaded' \in [Keys -> SUBSET Value]
  <1>1. CASE FoundInTable(i, k)
    BY <1>1 DEF FoundInTable, Typed
  <1>2. CASE LoaderReturns(i, k)
    <2>1. step[<<i, k>>] \in {"reading", "named", "unnamed"}
      BY <1>2 DEF LoaderReturns, AtTmdb
    <2>2. PICK found \in BOOLEAN :
            /\ loaded' = [loaded EXCEPT ![k] = {[at |-> now, found |-> found]}]
            /\ End(<<i, k>>, {[at |-> now, found |-> found]}, None)
      BY <1>2 DEF LoaderReturns
    <2>3. [at |-> now, found |-> found] \in Value
      BY DEF Typed, Value
    <2>4. loaded' \in [Keys -> SUBSET Value]
      <3> DEFINE v == [at |-> now, found |-> found]
      <3>1. {v} \in SUBSET Value /\ loaded' = [loaded EXCEPT ![k] = {v}]
        BY <2>2, <2>3
      <3> HIDE DEF v
      <3> QED
        BY <3>1 DEF Typed
    <2> QED
      BY <2>1, <2>2, <2>4
  <1>3. CASE LoaderFails(i, k)
    BY <1>3 DEF LoaderFails, AtTmdb, Typed
  <1> QED
    BY <1>1, <1>2, <1>3

-----------------------------------------------------------------------------
(* Types.                                                                  *)

LEMMA NextTyped == Typed /\ [Next]_vars => Typed'
  <1> SUFFICES ASSUME Typed, [Next]_vars PROVE Typed'
    OBVIOUS
  <1>1. ASSUME Tick PROVE Typed'
    <2>1. now' \in 0 .. MaxTime
      BY <1>1, MovieServiceAssumption DEF Tick, Typed, MovieServiceAssumption
    <2>2. pending' = pending /\ fetching' = fetching /\ step' = step
      BY <1>1 DEF Tick, C!Quiet
    <2>3. loaded' \in [Keys -> SUBSET Value]
      <3>1. loaded' = [k \in Keys |-> {v \in loaded[k] : now' <= v.at + Ttl[k] + StaleFor[k]}]
        BY <1>1 DEF Tick
      <3>2. \A k \in Keys : loaded[k] \in SUBSET Value
        BY DEF Typed
      <3> QED
        BY <3>1, <3>2
    <2> QED
      BY <2>1, <2>2, <2>3 DEF Typed
  <1>2. ASSUME NEW i \in Instances, Restart(i) PROVE Typed'
    <2>1. C!Restart(i) /\ step' \in [Loads -> Steps] /\ loaded' = loaded
      BY <1>2 DEF Restart, Typed, Steps
    <2> QED
      BY <2>1, RestartChanges DEF Typed
  <1>3. ASSUME NEW i \in Instances, NEW k \in Keys,
               FoundInTable(i, k) \/ LoaderReturns(i, k) \/ LoaderFails(i, k)
        PROVE  Typed'
    <2>1. PICK values, error : End(<<i, k>>, values, error)
      BY <1>3, FetchEnds
    <2>2. <<i, k>> \in Loads /\ loaded' \in [Keys -> SUBSET Value]
      BY <1>3, FetchEnds, LoadsArePairs
    <2>3. C!Complete(<<i, k>>[1], <<i, k>>[2]) /\ step' \in [Loads -> Steps]
      BY <2>1, <2>2, EndChanges
    <2> QED
      BY <2>2, <2>3, CompleteChanges DEF Typed
  <1>4. ASSUME NEW i \in Instances, NEW k \in Keys, GenresServed(i, k) PROVE Typed'
    <2>1. C!Serve(i, Genres) /\ loaded' = loaded
      BY <1>4 DEF GenresServed
    <2>2. [step EXCEPT ![<<i, k>>] = "named"] \in [Loads -> Steps]
      BY DEF Typed, Steps
    <2>3. step' \in [Loads -> Steps]
      BY <1>4, <2>2, BegunSteps DEF GenresServed
    <2> QED
      BY <2>1, <2>3, ServeChanges, LoadsArePairs DEF Typed
  <1>5. ASSUME NEW i \in Instances, NEW k \in Keys, GenresAwaited(i, k) PROVE Typed'
    <2>1. C!Wait(<<i, k>>, i, Genres) /\ loaded' = loaded /\ <<i, k>> \in Callers
      BY <1>5 DEF GenresAwaited, Callers, Loaders
    <2>2. [step EXCEPT ![<<i, k>>] = "genres"] \in [Loads -> Steps]
      BY DEF Typed, Steps
    <2>3. step' \in [Loads -> Steps]
      BY <1>5, <2>2, BegunSteps DEF GenresAwaited
    <2> QED
      BY <2>1, <2>3, WaitChanges, LoadsArePairs DEF Typed
  <1>6. ASSUME NEW i \in Instances, NEW k \in Keys, RequestServed(i, k) PROVE Typed'
    <2>1. C!Serve(i, k) /\ loaded' = loaded
      BY <1>6 DEF RequestServed
    <2>2. step' \in [Loads -> Steps]
      BY <1>6, BegunSteps DEF RequestServed, Typed
    <2> QED
      BY <2>1, <2>2, ServeChanges, LoadsArePairs DEF Typed
  <1>7. ASSUME NEW i \in Instances, NEW k \in Keys, NEW c \in Requests, RequestWaits(c, i, k)
        PROVE  Typed'
    <2>1. C!Wait(c, i, k) /\ loaded' = loaded /\ c \in Callers
      BY <1>7 DEF RequestWaits, Callers
    <2>2. step' \in [Loads -> Steps]
      BY <1>7, BegunSteps DEF RequestWaits, Typed
    <2> QED
      BY <2>1, <2>2, WaitChanges, LoadsArePairs DEF Typed
  <1>8. CASE UNCHANGED vars
    BY <1>8 DEF vars, cacheVars, Typed
  <1> QED
    BY <1>1, <1>2, <1>3, <1>4, <1>5, <1>6, <1>7, <1>8 DEF Next, Fetching

LEMMA AlwaysTyped == Spec => []Typed
  BY InitTyped, NextTyped, PTL DEF Spec

\* Every variable keeps its type: what waits, waits for a fetch of some process,
\* and what is remembered of a load was loaded within the clock.
THEOREM TypeCorrect == Spec => []TypeOK
  BY AlwaysTyped, TypedIsEnough, PTL

-----------------------------------------------------------------------------
(* Waits.                                                                  *)

LEMMA RequestsAndLoaders ==
  /\ Requests \cap Loads = {} /\ None \notin Loads
  /\ \A k \in Pages : k # Genres
  BY MovieServiceAssumption DEF MovieServiceAssumption

LEMMA InitWaitsEnd == Init => WaitsEnd
  <1> SUFFICES ASSUME Init PROVE WaitsEnd
    OBVIOUS
  <1>1. /\ \A c \in Callers : pending[c] = None
        /\ fetching = {}
        /\ \A f \in Loads : step[f] = "none"
    BY DEF Init, C!Init, Callers, Loaders
  <1> QED
    BY <1>1, LoadsArePairs DEF WaitsEnd, Callers, Loaders

\* A process goes, and with it its fetches and what waits for them.
LEMMA RestartKeepsWaits ==
  ASSUME Typed, WaitsEnd, NEW i \in Instances, Restart(i)
  PROVE  WaitsEnd'
  <1>1. /\ fetching' = {f \in fetching : f[1] # i}
        /\ \A c \in Callers :
             pending'[c] = IF pending[c] # None /\ pending[c][1] = i THEN None ELSE pending[c]
    BY RestartChanges DEF Restart
  <1>2. \A f \in Loads : step'[f] = IF f[1] = i THEN "none" ELSE step[f]
    BY DEF Restart
  <1>3. \A c \in Callers : pending'[c] # None => pending'[c] \in fetching'
    BY <1>1 DEF WaitsEnd, Callers, Loaders
  <1>4. \A f \in Loads : f \in fetching' <=> step'[f] # "none"
    BY <1>1, <1>2 DEF WaitsEnd
  <1>5. ASSUME NEW f \in Loaders
        PROVE  IF step'[f] = "genres" THEN pending'[f] = <<f[1], Genres>> ELSE pending'[f] = None
    <2>1. f \in Loads /\ f \in Callers /\ f[1] \in Instances
      BY LoadsArePairs DEF Callers
    <2>2. <<f[1], Genres>>[1] = f[1] /\ <<f[1], Genres>> # None
      BY <2>1, LoadsArePairs, RequestsAndLoaders
    <2>3. IF step[f] = "genres" THEN pending[f] = <<f[1], Genres>> ELSE pending[f] = None
      BY DEF WaitsEnd, Loaders
    <2> QED
      BY <1>1, <1>2, <2>1, <2>2, <2>3
  <1>6. \A j \in Instances : step'[<<j, Genres>>] \in {"none", "reading"}
    BY <1>2, LoadsArePairs DEF WaitsEnd
  <1> QED
    BY <1>3, <1>4, <1>5, <1>6 DEF WaitsEnd, Callers, Loaders

\* A fetch ends, and with it every wait for it.
LEMMA EndKeepsWaits ==
  ASSUME Typed, WaitsEnd, NEW f \in Loads, NEW values, NEW error, End(f, values, error),
         step[f] \in {"reading", "named", "unnamed"}
  PROVE  WaitsEnd'
  <1>1. C!Complete(f[1], f[2])
    BY EndChanges
  <1>2. /\ fetching' = fetching \ {f}
        /\ \A c \in Callers : pending'[c] = IF pending[c] = f THEN None ELSE pending[c]
    BY <1>1, CompleteChanges
  <1>3. /\ step'[f] = "none"
        /\ \A g \in Loads \ {f} : IF step[g] = "genres" /\ pending[g] = f
                                  THEN step'[g] \in {"named", "unnamed"}
                                  ELSE step'[g] = step[g]
    BY EndChanges
  <1>4. \A c \in Callers : pending'[c] # None => pending'[c] \in fetching'
    BY <1>2 DEF WaitsEnd, Callers, Loaders
  <1>5. \A g \in Loads : g \in fetching' <=> step'[g] # "none"
    BY <1>2, <1>3 DEF WaitsEnd
  <1>6. ASSUME NEW g \in Loaders
        PROVE  IF step'[g] = "genres" THEN pending'[g] = <<g[1], Genres>> ELSE pending'[g] = None
    <2>1. g \in Loads /\ g \in Callers
      BY LoadsArePairs DEF Callers
    <2>2. IF step[g] = "genres" THEN pending[g] = <<g[1], Genres>> ELSE pending[g] = None
      BY DEF WaitsEnd, Loaders
    <2>3. CASE g = f
      BY <2>1, <2>2, <2>3, <1>2, <1>3
    <2>4. CASE g # f
      BY <2>1, <2>2, <2>4, <1>2, <1>3
    <2> QED
      BY <2>3, <2>4
  <1>7. ASSUME NEW j \in Instances PROVE step'[<<j, Genres>>] \in {"none", "reading"}
    <2>1. <<j, Genres>> \in Loads /\ step[<<j, Genres>>] \in {"none", "reading"}
      BY LoadsArePairs DEF WaitsEnd
    <2> QED
      BY <2>1, <1>3
  <1> QED
    BY <1>4, <1>5, <1>6, <1>7 DEF WaitsEnd, Callers, Loaders

\* Nobody waits; at most a fetch begins behind the answer.  The fetch that the
\* step is about, if any, goes on to a place that is no wait.
LEMMA ServedKeepsWaits ==
  ASSUME Typed, WaitsEnd, NEW i \in Instances, NEW k \in Keys, C!Serve(i, k),
         NEW of \in [Loads -> Steps], step' = Begun(of),
         of = step \/ \E g \in Loaders : /\ step[g] = "reading"
                                         /\ of = [step EXCEPT ![g] = "named"]
  PROVE  WaitsEnd'
  <1>1. /\ fetching' = fetching \/ fetching' = fetching \cup {<<i, k>>}
        /\ pending' = pending
    BY ServeChanges
  <1>2. \A f \in Loads : step'[f] = IF f \in fetching' \ fetching THEN "reading" ELSE of[f]
    BY BegunSteps
  <1>3. \A f \in Loads : of[f] = step[f] \/ (f \in Loaders /\ step[f] = "reading" /\ of[f] = "named")
    BY DEF Typed
  <1>4. \A c \in Callers : pending'[c] # None => pending'[c] \in fetching'
    BY <1>1 DEF WaitsEnd, Callers, Loaders
  <1>5. \A f \in Loads : f \in fetching' <=> step'[f] # "none"
    BY <1>1, <1>2, <1>3, LoadsArePairs DEF WaitsEnd
  <1>6. ASSUME NEW f \in Loaders
        PROVE  IF step'[f] = "genres" THEN pending'[f] = <<f[1], Genres>> ELSE pending'[f] = None
    <2>1. f \in Loads
      BY LoadsArePairs
    <2>2. IF step[f] = "genres" THEN pending[f] = <<f[1], Genres>> ELSE pending[f] = None
      BY DEF WaitsEnd, Loaders
    <2>3. f \notin fetching => step[f] = "none"
      BY <2>1 DEF WaitsEnd
    <2> QED
      BY <1>1, <1>2, <1>3, <2>1, <2>2, <2>3
  <1>7. ASSUME NEW j \in Instances PROVE step'[<<j, Genres>>] \in {"none", "reading"}
    <2>1. <<j, Genres>> \in Loads /\ <<j, Genres>> \notin Loaders
      BY LoadsArePairs, RequestsAndLoaders DEF Loaders
    <2> QED
      BY <2>1, <1>2, <1>3 DEF WaitsEnd
  <1> QED
    BY <1>4, <1>5, <1>6, <1>7 DEF WaitsEnd, Callers, Loaders

\* A browser begins to wait for a page, or
LEMMA RequestKeepsWaits ==
  ASSUME Typed, WaitsEnd, NEW c \in Requests, NEW i \in Instances, NEW k \in Keys,
         RequestWaits(c, i, k)
  PROVE  WaitsEnd'
  <1>1. /\ fetching' = fetching \cup {<<i, k>>}
        /\ pending'[c] = <<i, k>>
        /\ \A d \in Callers : d # c => pending'[d] = pending[d]
    BY WaitChanges DEF RequestWaits, Callers
  <1>2. \A f \in Loads : step'[f] = IF f \in fetching' \ fetching THEN "reading" ELSE step[f]
    BY BegunSteps DEF RequestWaits, Typed
  <1>3. \A d \in Callers : pending'[d] # None => pending'[d] \in fetching'
    BY <1>1 DEF WaitsEnd, Callers, Loaders
  <1>4. \A f \in Loads : f \in fetching' <=> step'[f] # "none"
    BY <1>1, <1>2, LoadsArePairs DEF WaitsEnd
  <1>5. ASSUME NEW f \in Loaders
        PROVE  IF step'[f] = "genres" THEN pending'[f] = <<f[1], Genres>> ELSE pending'[f] = None
    <2>1. f \in Loads /\ f \in Callers /\ f # c
      BY LoadsArePairs, RequestsAndLoaders DEF Callers
    <2>2. IF step[f] = "genres" THEN pending[f] = <<f[1], Genres>> ELSE pending[f] = None
      BY DEF WaitsEnd, Loaders
    <2>3. f \notin fetching => step[f] = "none"
      BY <2>1 DEF WaitsEnd
    <2> QED
      BY <1>1, <1>2, <2>1, <2>2, <2>3
  <1>6. ASSUME NEW j \in Instances PROVE step'[<<j, Genres>>] \in {"none", "reading"}
    BY <1>2, LoadsArePairs DEF WaitsEnd
  <1> QED
    BY <1>3, <1>4, <1>5, <1>6 DEF WaitsEnd, Callers, Loaders

\* a loader for the genres.
LEMMA LoaderKeepsWaits ==
  ASSUME Typed, WaitsEnd, NEW i \in Instances, NEW k \in Keys, GenresAwaited(i, k)
  PROVE  WaitsEnd'
  <1> DEFINE l == <<i, k>>
             g == <<i, Genres>>
  <1>1. l \in Loaders /\ l \in Callers /\ l \in Loads /\ g \in Loads /\ g \notin Loaders /\ l[1] = i
    BY LoadsArePairs, RequestsAndLoaders DEF GenresAwaited, Callers, Loaders
  <1>2. step[l] = "reading" /\ C!Wait(l, i, Genres)
    BY DEF GenresAwaited
  <1>3. [step EXCEPT ![l] = "genres"] \in [Loads -> Steps]
    BY DEF Typed, Steps
  <1>4. step' = Begun([step EXCEPT ![l] = "genres"])
    BY DEF GenresAwaited
  <1>5. \A f \in Loads : step'[f] = IF f \in fetching' \ fetching THEN "reading"
                                    ELSE IF f = l THEN "genres" ELSE step[f]
    BY <1>3, <1>4, BegunSteps DEF Typed
  <1> HIDE DEF l
  <1>6. /\ fetching' = fetching \cup {g}
        /\ pending'[l] = g
        /\ \A d \in Callers : d # l => pending'[d] = pending[d]
    BY <1>1, <1>2, WaitChanges, LoadsArePairs
  <1>7. l \in fetching
    BY <1>1, <1>2 DEF WaitsEnd
  <1> HIDE DEF g
  <1>8. \A d \in Callers : pending'[d] # None => pending'[d] \in fetching'
    BY <1>6 DEF WaitsEnd, Callers, Loaders
  <1>9. \A f \in Loads : f \in fetching' <=> step'[f] # "none"
    BY <1>1, <1>5, <1>6, <1>7 DEF WaitsEnd
  <1>10. ASSUME NEW f \in Loaders
         PROVE  IF step'[f] = "genres" THEN pending'[f] = <<f[1], Genres>> ELSE pending'[f] = None
    <2>1. f \in Loads /\ f \in Callers /\ f # g
      BY LoadsArePairs, <1>1 DEF Callers
    <2>2. IF step[f] = "genres" THEN pending[f] = <<f[1], Genres>> ELSE pending[f] = None
      BY DEF WaitsEnd, Loaders
    <2>3. f \notin fetching' \ fetching
      BY <2>1, <1>6
    <2>4. CASE f = l
      BY <2>1, <2>3, <2>4, <1>1, <1>5, <1>6 DEF g
    <2>5. CASE f # l
      BY <2>1, <2>2, <2>3, <2>5, <1>5, <1>6
    <2> QED
      BY <2>4, <2>5
  <1>11. ASSUME NEW j \in Instances PROVE step'[<<j, Genres>>] \in {"none", "reading"}
    <2>1. <<j, Genres>> \in Loads /\ <<j, Genres>> # l
      BY LoadsArePairs, RequestsAndLoaders, <1>1 DEF Loaders
    <2> QED
      BY <2>1, <1>5 DEF WaitsEnd
  <1> QED
    BY <1>8, <1>9, <1>10, <1>11 DEF WaitsEnd, Callers, Loaders

LEMMA NextWaitsEnd == Typed /\ WaitsEnd /\ [Next]_vars => WaitsEnd'
  <1> SUFFICES ASSUME Typed, WaitsEnd, [Next]_vars PROVE WaitsEnd'
    OBVIOUS
  <1>1. CASE Tick
    BY <1>1 DEF Tick, C!Quiet, WaitsEnd
  <1>2. ASSUME NEW i \in Instances, Restart(i) PROVE WaitsEnd'
    BY <1>2, RestartKeepsWaits
  <1>3. ASSUME NEW i \in Instances, NEW k \in Keys,
               FoundInTable(i, k) \/ LoaderReturns(i, k) \/ LoaderFails(i, k)
        PROVE  WaitsEnd'
    BY <1>3, FetchEnds, EndKeepsWaits, LoadsArePairs
  <1>4. ASSUME NEW i \in Instances, NEW k \in Keys, GenresServed(i, k) PROVE WaitsEnd'
    <2> DEFINE of == [step EXCEPT ![<<i, k>>] = "named"]
    <2>1. of \in [Loads -> Steps]
      BY DEF Typed, Steps
    <2>2. <<i, k>> \in Loaders /\ step[<<i, k>>] = "reading"
      BY <1>4 DEF GenresServed, Loaders
    <2>3. C!Serve(i, Genres) /\ step' = Begun(of)
      BY <1>4 DEF GenresServed
    <2>4. Genres \in Keys
      BY LoadsArePairs
    <2> QED
      BY <2>1, <2>2, <2>3, <2>4, ServedKeepsWaits
  <1>5. ASSUME NEW i \in Instances, NEW k \in Keys, GenresAwaited(i, k) PROVE WaitsEnd'
    BY <1>5, LoaderKeepsWaits
  <1>6. ASSUME NEW i \in Instances, NEW k \in Keys, RequestServed(i, k) PROVE WaitsEnd'
    <2>1. C!Serve(i, k) /\ step' = Begun(step) /\ step \in [Loads -> Steps]
      BY <1>6 DEF RequestServed, Typed
    <2> QED
      BY <2>1, ServedKeepsWaits
  <1>7. ASSUME NEW i \in Instances, NEW k \in Keys, NEW c \in Requests, RequestWaits(c, i, k)
        PROVE  WaitsEnd'
    BY <1>7, RequestKeepsWaits
  <1>8. CASE UNCHANGED vars
    BY <1>8 DEF vars, cacheVars, WaitsEnd
  <1> QED
    BY <1>1, <1>2, <1>3, <1>4, <1>5, <1>6, <1>7, <1>8 DEF Next, Fetching

\* However many loaders of one process share the fetch of the genres, and
\* whichever of them a restart takes away: every wait is for a fetch that is
\* under way, and no chain of waits comes back to where it began.
THEOREM WaitsEndHolds == Spec => []WaitsEnd
  BY AlwaysTyped, InitWaitsEnd, NextWaitsEnd, PTL DEF Spec

-----------------------------------------------------------------------------
(* Ages.                                                                   *)

LEMMA Times ==
  /\ MaxTime \in Nat /\ Swr \in Nat
  /\ \A k \in Keys : Ttl[k] \in Nat \ {0} /\ MaxAge[k] \in Nat
  BY MovieServiceAssumption DEF MovieServiceAssumption

\* What the cache says is fresh is younger than its time to live.
LEMMA FreshIsYoung ==
  ASSUME Typed, NEW i \in Instances, NEW k \in Keys,
         answer' \in C!Allowed(i, k, now), ~answer'.failed, ~answer'.stale
  PROVE  answer'.payload \in 0 .. now /\ now < answer'.payload + Ttl[k]
  <1>1. PICK p \in {q \in 0 .. now : now < q + Ttl[k]} :
          answer' = [inst |-> i, key |-> k, failed |-> FALSE, stale |-> FALSE, payload |-> p]
    BY DEF C!Allowed
  <1> QED
    BY <1>1

\* A value goes out: what the browser may keep of it, it may keep for a while
\* after the answer was young.
LEMMA SentExpires ==
  ASSUME Typed, NEW i \in Instances, NEW k \in Keys, NEW v, ReplyValue(k, v),
         answer' \in C!Allowed(i, k, now), ~answer'.failed, now' = now
  PROVE  RepliesExpire'
  <1>1. /\ reply'.key = k /\ reply'.at = answer'.payload
        /\ reply'.until = IF v.found THEN ApplyCacheHeaders(k) ELSE None
    BY DEF ReplyValue
  <1>2. CASE reply'.until = None
    BY <1>2 DEF RepliesExpire
  <1>3. CASE reply'.until # None
    <2>1. ~answer'.stale /\ reply'.until = now + MaxAge[k] + Swr
      BY <1>1, <1>3 DEF ApplyCacheHeaders
    <2>2. answer'.payload \in 0 .. now /\ now < answer'.payload + Ttl[k]
      BY <2>1, FreshIsYoung
    <2>3. /\ now \in Nat /\ MaxAge[k] \in Nat /\ Swr \in Nat /\ Ttl[k] \in Nat
          /\ answer'.payload \in Nat
      BY <2>2, Times DEF Typed
    <2>4. /\ now <= reply'.until /\ reply'.until \in Nat
          /\ reply'.until < reply'.at + Ttl[k] + MaxAge[k] + Swr
      BY <2>1, <2>2, <2>3, <1>1
    <2> QED
      BY <2>3, <2>4, <1>1 DEF RepliesExpire
  <1> QED
    BY <1>2, <1>3

\* Without a reply, what was shown may be shown again.
LEMMA ShowingKeepsExpiry ==
  ASSUME RepliesExpire, Showing, now' = now
  PROVE  RepliesExpire'
  BY DEF RepliesExpire, Showing

LEMMA EndKeepsExpiry ==
  ASSUME Typed, RepliesExpire, NEW f \in Loads, NEW values, NEW error, End(f, values, error)
  PROVE  RepliesExpire'
  <1>1. now' = now /\ f[1] \in Instances /\ f[2] \in Keys
    BY EndChanges, CompleteChanges, LoadsArePairs
  <1>2. answer' = None \/ answer' \in C!Allowed(f[1], f[2], now)
    BY DEF End, C!Complete
  <1>3. CASE Showing
    BY <1>1, <1>3, ShowingKeepsExpiry
  <1>4. CASE ~Showing
    <2>1. answer' # None /\ answer' \in C!Allowed(f[1], f[2], now)
      BY <1>2, <1>4 DEF End
    <2>2. CASE answer'.failed
      <3>1. reply'.until = None
        BY <2>1, <2>2, <1>4 DEF End, ReplyError
      <3> QED
        BY <3>1 DEF RepliesExpire
    <2>3. CASE ~answer'.failed
      <3>1. PICK v : ReplyValue(f[2], v)
        BY <2>1, <2>3, <1>4 DEF End
      <3> QED
        BY <3>1, <2>1, <2>3, <1>1, SentExpires
    <2> QED
      BY <2>2, <2>3
  <1> QED
    BY <1>3, <1>4

LEMMA NextRepliesExpire == Typed /\ RepliesExpire /\ [Next]_vars => RepliesExpire'
  <1> SUFFICES ASSUME Typed, RepliesExpire, [Next]_vars PROVE RepliesExpire'
    OBVIOUS
  <1>1. CASE Tick
    <2>1. (reply' = reply /\ now' <= reply.until) \/ reply' = None
      BY <1>1 DEF Tick
    <2> QED
      BY <2>1 DEF RepliesExpire
  <1>2. ASSUME NEW i \in Instances, Restart(i) PROVE RepliesExpire'
    BY <1>2, RestartChanges, ShowingKeepsExpiry DEF Restart
  <1>3. ASSUME NEW i \in Instances, NEW k \in Keys,
               FoundInTable(i, k) \/ LoaderReturns(i, k) \/ LoaderFails(i, k)
        PROVE  RepliesExpire'
    BY <1>3, FetchEnds, EndKeepsExpiry, LoadsArePairs
  <1>4. ASSUME NEW i \in Instances, NEW k \in Keys, GenresServed(i, k) \/ GenresAwaited(i, k)
        PROVE  RepliesExpire'
    <2>1. Showing /\ now' = now
      BY <1>4 DEF GenresServed, GenresAwaited, C!Serve, C!Wait
    <2> QED
      BY <2>1, ShowingKeepsExpiry
  <1>5. ASSUME NEW i \in Instances, NEW k \in Keys, RequestServed(i, k) PROVE RepliesExpire'
    <2>1. answer' \in C!Allowed(i, k, now) /\ ~answer'.failed /\ now' = now
      BY <1>5 DEF RequestServed, C!Serve
    <2>2. PICK v : ReplyValue(k, v)
      BY <1>5 DEF RequestServed
    <2> QED
      BY <2>1, <2>2, SentExpires
  <1>6. ASSUME NEW i \in Instances, NEW k \in Keys, NEW c \in Requests, RequestWaits(c, i, k)
        PROVE  RepliesExpire'
    <2>1. Showing /\ now' = now
      BY <1>6 DEF RequestWaits, C!Wait
    <2> QED
      BY <2>1, ShowingKeepsExpiry
  <1>7. CASE UNCHANGED vars
    BY <1>7 DEF vars, cacheVars, RepliesExpire
  <1> QED
    BY <1>1, <1>2, <1>3, <1>4, <1>5, <1>6, <1>7 DEF Next, Fetching

LEMMA ExpiryShowsRecent == Typed /\ RepliesExpire => BrowserShowsRecent
  <1> SUFFICES ASSUME Typed, RepliesExpire, reply # None, reply.until # None
               PROVE  now < reply.at + Ttl[reply.key] + MaxAge[reply.key] + Swr
    BY DEF BrowserShowsRecent
  <1>1. /\ reply.key \in Keys /\ reply.at \in Nat /\ reply.until \in Nat /\ now <= reply.until
        /\ reply.until < reply.at + Ttl[reply.key] + MaxAge[reply.key] + Swr
    BY DEF RepliesExpire
  <1>2. now \in Nat /\ Ttl[reply.key] \in Nat /\ MaxAge[reply.key] \in Nat /\ Swr \in Nat
    BY <1>1, Times DEF Typed
  <1> QED
    BY <1>1, <1>2

\* Whatever the policies: through the cache of the server and that of the browser
\* together, data lives no longer than its time to live and the two windows of
\* Cache-Control.
THEOREM BrowserShowsRecentHolds == Spec => []BrowserShowsRecent
  <1>1. Init => RepliesExpire
    BY DEF Init, RepliesExpire
  <1> QED
    BY <1>1, AlwaysTyped, NextRepliesExpire, ExpiryShowsRecent, PTL DEF Spec

-----------------------------------------------------------------------------
(* Arrays.                                                                 *)

LEMMA SameCardinality == \A S : Mapping!Cardinality(S) = Cardinality(S)
  BY DEF Mapping!Cardinality, Cardinality

\* R orders I strictly and totally.
IsOrderOn(R, I) ==
  /\ \A i \in I : <<i, i>> \notin R
  /\ \A i, j \in I : i = j \/ <<i, j>> \in R \/ <<j, i>> \in R
  /\ \A i, j, k \in I : <<i, j>> \in R /\ <<j, k>> \in R => <<i, k>> \in R

\* What comes before i, and where i comes.
Earlier(I, R, i) == {j \in I : <<j, i>> \in R}
Place(I, R, i)   == 1 + Cardinality(Earlier(I, R, i))

\* Places follow the order, and
LEMMA PlacesFollow ==
  ASSUME NEW I, IsFiniteSet(I), NEW R, IsOrderOn(R, I), NEW i \in I, NEW j \in I
  PROVE  /\ Place(I, R, i) \in 1 .. Cardinality(I)
         /\ <<i, j>> \in R => Place(I, R, i) < Place(I, R, j)
  <1>1. ASSUME NEW k \in I
        PROVE  /\ IsFiniteSet(Earlier(I, R, k)) /\ Cardinality(Earlier(I, R, k)) \in Nat
               /\ Cardinality(Earlier(I, R, k)) < Cardinality(I)
    <2>1. Earlier(I, R, k) \in SUBSET I /\ Earlier(I, R, k) # I
      BY DEF Earlier, IsOrderOn
    <2>2. IsFiniteSet(Earlier(I, R, k)) /\ Cardinality(Earlier(I, R, k)) <= Cardinality(I)
          /\ Cardinality(I) # Cardinality(Earlier(I, R, k))
      BY <2>1, FS_Subset
    <2>3. Cardinality(Earlier(I, R, k)) \in Nat /\ Cardinality(I) \in Nat
      BY <2>2, FS_CardinalityType
    <2> QED
      BY <2>2, <2>3
  <1>2. ASSUME <<i, j>> \in R PROVE Place(I, R, i) < Place(I, R, j)
    <2>1. Earlier(I, R, i) \in SUBSET Earlier(I, R, j) /\ Earlier(I, R, j) # Earlier(I, R, i)
      BY <1>2 DEF Earlier, IsOrderOn
    <2>2. Cardinality(Earlier(I, R, i)) <= Cardinality(Earlier(I, R, j))
          /\ Cardinality(Earlier(I, R, i)) # Cardinality(Earlier(I, R, j))
      BY <1>1, <2>1, FS_Subset
    <2> QED
      BY <1>1, <2>2 DEF Place
  <1>3. Cardinality(I) \in Nat
    BY FS_CardinalityType
  <1> QED
    BY <1>1, <1>2, <1>3 DEF Place

\* each place is taken by one.
LEMMA PlacesAreTaken ==
  ASSUME NEW I, IsFiniteSet(I), NEW R, IsOrderOn(R, I)
  PROVE  \E at \in [1 .. Cardinality(I) -> I] :
           /\ \A i \in I : \E n \in 1 .. Cardinality(I) : at[n] = i
           /\ \A n, m \in 1 .. Cardinality(I) : n < m => <<at[n], at[m]>> \in R
           /\ \A n \in 1 .. Cardinality(I) : \A i \in I : Place(I, R, i) = n <=> i = at[n]
  <1> DEFINE D == 1 .. Cardinality(I)
             f == [i \in I |-> Place(I, R, i)]
  <1>1. Cardinality(I) \in Nat
    BY FS_CardinalityType
  <1>2. IsFiniteSet(D) /\ Cardinality(D) = Cardinality(I)
    BY <1>1, FS_Interval
  <1>3. /\ \A i \in I : Place(I, R, i) \in D
        /\ \A i, j \in I : <<i, j>> \in R => Place(I, R, i) < Place(I, R, j)
    BY PlacesFollow
  <1>4. \A i, j \in I : Place(I, R, i) = Place(I, R, j) => i = j
    <2>1. ASSUME NEW i \in I, NEW j \in I, i # j PROVE Place(I, R, i) # Place(I, R, j)
      <3>1. <<i, j>> \in R \/ <<j, i>> \in R
        BY <2>1 DEF IsOrderOn
      <3>2. Place(I, R, i) \in Int /\ Place(I, R, j) \in Int
        BY <1>3
      <3>3. Place(I, R, i) < Place(I, R, j) \/ Place(I, R, j) < Place(I, R, i)
        BY <1>3, <3>1
      <3> HIDE DEF D
      <3> QED
        BY <3>2, <3>3
    <2> QED
      BY <2>1
  <1>5. f \in Injection(I, D)
    BY <1>3, <1>4 DEF Injection, IsInjective
  <1>6. f \in Surjection(I, D)
    BY <1>2, <1>5, FS_Injection
  <1>7. \A n \in D : \E i \in I : Place(I, R, i) = n
    BY <1>6 DEF Surjection
  <1> DEFINE at == [n \in D |-> CHOOSE i \in I : Place(I, R, i) = n]
  <1>8. \A n \in D : at[n] \in I /\ Place(I, R, at[n]) = n
    BY <1>7
  <1>9. at \in [D -> I]
    BY <1>8
  <1> HIDE DEF at
  <1>10. \A n \in D : \A i \in I : Place(I, R, i) = n <=> i = at[n]
    BY <1>4, <1>8
  <1>11. \A i \in I : \E n \in D : at[n] = i
    BY <1>3, <1>10
  <1>12. ASSUME NEW n \in D, NEW m \in D, n < m PROVE <<at[n], at[m]>> \in R
    <2>1. at[n] \in I /\ at[m] \in I /\ Place(I, R, at[n]) < Place(I, R, at[m])
      BY <1>8, <1>12
    <2>2. at[n] # at[m]
      BY <2>1, <1>8, <1>12
    <2>3. ~(Place(I, R, at[m]) < Place(I, R, at[n]))
      BY <1>8, <1>12
    <2> QED
      BY <1>3, <2>1, <2>2, <2>3 DEF IsOrderOn
  <1> QED
    BY <1>9, <1>10, <1>11, <1>12

\* t lists the elements of s at the positions I in the order R: at each n the one
\* from at[n].
IsListing(t, at, s, I, R) ==
  /\ at \in [1 .. Cardinality(I) -> I]
  /\ \A i \in I : \E n \in 1 .. Cardinality(I) : at[n] = i
  /\ \A n, m \in 1 .. Cardinality(I) : n < m => <<at[n], at[m]>> \in R
  /\ t = [n \in 1 .. Cardinality(I) |-> s[at[n]]]

LEMMA ArrangedIs ==
  ASSUME NEW s, NEW I, IsFiniteSet(I), NEW R, IsOrderOn(R, I)
  PROVE  \E at : IsListing(Mapping!Arranged(s, I, R), at, s, I, R)
  <1> DEFINE D == 1 .. Cardinality(I)
  <1>1. PICK at \in [D -> I] :
          /\ \A i \in I : \E n \in D : at[n] = i
          /\ \A n, m \in D : n < m => <<at[n], at[m]>> \in R
          /\ \A n \in D : \A i \in I : Place(I, R, i) = n <=> i = at[n]
    BY PlacesAreTaken
  <1> DEFINE place(i) == 1 + Mapping!Cardinality({j \in I : <<j, i>> \in R})
  <1>2. \A i : place(i) = Place(I, R, i)
    BY SameCardinality DEF Place, Earlier
  <1>3. Mapping!Arranged(s, I, R) = [n \in D |-> s[CHOOSE i \in I : place(i) = n]]
    BY SameCardinality DEF Mapping!Arranged, place
  <1> HIDE DEF place
  <1>4. ASSUME NEW n \in D PROVE (CHOOSE i \in I : place(i) = n) = at[n]
    <2> DEFINE c == CHOOSE i \in I : place(i) = n
    <2>1. at[n] \in I /\ place(at[n]) = n
      BY <1>1, <1>2, <1>4
    <2>2. c \in I /\ place(c) = n
      BY <2>1
    <2> HIDE DEF c
    <2>3. c = at[n]
      BY <1>1, <1>2, <1>4, <2>2
    <2> QED
      BY <2>3 DEF c
  <1> DEFINE c(n) == CHOOSE i \in I : place(i) = n
  <1>5. Mapping!Arranged(s, I, R) = [n \in D |-> s[c(n)]] /\ \A n \in D : c(n) = at[n]
    BY <1>3, <1>4
  <1> HIDE DEF c
  <1>6. Mapping!Arranged(s, I, R) = [n \in D |-> s[at[n]]]
    BY <1>5
  <1>7. IsListing(Mapping!Arranged(s, I, R), at, s, I, R)
    BY <1>1, <1>6 DEF IsListing
  <1> QED
    BY <1>7

\* Increasing positions.
Ascending(I) == {p \in I \X I : p[1] < p[2]}

LEMMA SelectedIs ==
  ASSUME NEW s, NEW I \in SUBSET Int, IsFiniteSet(I)
  PROVE  \E at : IsListing(Mapping!Selected(s, I), at, s, I, Ascending(I))
  <1>1. \A i, j \in I : <<i, j>> \in Ascending(I) <=> i < j
    BY DEF Ascending
  <1>2. IsOrderOn(Ascending(I), I)
    BY <1>1 DEF IsOrderOn
  <1>3. Mapping!Selected(s, I) = Mapping!Arranged(s, I, Ascending(I))
    BY DEF Mapping!Selected, Ascending
  <1> QED
    BY <1>2, <1>3, ArrangedIs

\* W orders I weakly: neither of two may come before the other.
IsWeakOrderOn(W, I) ==
  /\ \A i \in I : <<i, i>> \notin W
  /\ \A i, j, k \in I : <<i, j>> \in W /\ <<j, k>> \in W => <<i, k>> \in W
  /\ \A i, j, k \in I : <<i, k>> \in W => <<i, j>> \in W \/ <<j, k>> \in W

\* What a stable sort makes of it.
Stable(W, I) == {p \in I \X I : \/ <<p[1], p[2]>> \in W
                                \/ p[1] < p[2] /\ <<p[2], p[1]>> \notin W}

LEMMA StableIs ==
  ASSUME NEW I \in SUBSET Int, NEW W, IsWeakOrderOn(W, I)
  PROVE  /\ IsOrderOn(Stable(W, I), I)
         /\ \A i, j \in I : <<i, j>> \in Stable(W, I)
                            <=> <<i, j>> \in W \/ (i < j /\ <<j, i>> \notin W)
  <1>1. \A i, j \in I : <<i, j>> \in Stable(W, I)
                        <=> <<i, j>> \in W \/ (i < j /\ <<j, i>> \notin W)
    BY DEF Stable
  <1>2. \A i, j, k \in I : i < j /\ j < k => i < k
    OBVIOUS
  <1>3. \A i, j \in I : i = j \/ i < j \/ j < i
    OBVIOUS
  <1>4. \A i \in I : ~(i < i)
    OBVIOUS
  <1> QED
    BY <1>1, <1>2, <1>3, <1>4 DEF IsOrderOn, IsWeakOrderOn

LEMMA StablyArrangedIs ==
  ASSUME NEW s, NEW n \in Nat, NEW W, IsWeakOrderOn(W, 1 .. n)
  PROVE  \E at : IsListing(Mapping!Arranged(s, 1 .. n, Stable(W, 1 .. n)), at, s, 1 .. n,
                           Stable(W, 1 .. n))
  <1>1. IsFiniteSet(1 .. n) /\ 1 .. n \in SUBSET Int
    BY FS_Interval
  <1> QED
    BY <1>1, StableIs, ArrangedIs

\* The positions J of a listing are those of K, in an order that P agrees with.
IsOf(J, Q, at, I, R, K, P) ==
  /\ IsFiniteSet(I) /\ \A i \in I : <<i, i>> \notin R
  /\ J \subseteq 1 .. Cardinality(I) /\ K \subseteq I
  /\ \A n \in 1 .. Cardinality(I) : n \in J <=> at[n] \in K
  /\ \A n, m \in J : <<n, m>> \in Q => <<at[n], at[m]>> \in P

\* A listing of a listing lists what was listed.
LEMMA ListingOfListing ==
  ASSUME NEW s, NEW I, NEW R, NEW t, NEW at, IsListing(t, at, s, I, R),
         NEW J, NEW Q, NEW u, NEW bt, IsListing(u, bt, t, J, Q),
         NEW K, NEW P, IsOf(J, Q, at, I, R, K, P)
  PROVE  \E ct : IsListing(u, ct, s, K, P)
  <1> DEFINE D == 1 .. Cardinality(I)
             E == 1 .. Cardinality(J)
             f == [n \in J |-> at[n]]
             ct == [n \in E |-> at[bt[n]]]
  <1>0. /\ IsFiniteSet(I) /\ \A i \in I : <<i, i>> \notin R
        /\ J \subseteq D /\ K \subseteq I
        /\ \A n \in D : n \in J <=> at[n] \in K
        /\ \A n, m \in J : <<n, m>> \in Q => <<at[n], at[m]>> \in P
    BY DEF IsOf
  <1>1. Cardinality(I) \in Nat /\ IsFiniteSet(D)
    BY <1>0, FS_CardinalityType, FS_Interval
  <1>2. /\ at \in [D -> I]
        /\ \A i \in I : \E n \in D : at[n] = i
        /\ \A n, m \in D : n < m => <<at[n], at[m]>> \in R
        /\ t = [n \in D |-> s[at[n]]]
    BY DEF IsListing
  <1>3. /\ bt \in [E -> J]
        /\ \A n \in J : \E k \in E : bt[k] = n
        /\ \A k, m \in E : k < m => <<bt[k], bt[m]>> \in Q
        /\ u = [k \in E |-> t[bt[k]]]
    BY DEF IsListing
  <1>4. \A n, m \in J : at[n] = at[m] => n = m
    <2>1. \A n, m \in D : n # m => n < m \/ m < n
      BY <1>1
    <2> HIDE DEF D
    <2>2. ASSUME NEW n \in D, NEW m \in D, n # m PROVE at[n] # at[m]
      BY <1>0, <1>2, <2>1, <2>2
    <2> QED
      BY <1>0, <2>2 DEF D
  <1>5. /\ \A n \in J : at[n] \in K
        /\ \A k \in K : \E n \in J : at[n] = k
    BY <1>0, <1>2
  <1>6. Cardinality(J) = Cardinality(K)
    <2>1. f \in Bijection(J, K)
      <3>1. f \in [J -> K]
        BY <1>5
      <3> QED
        BY <1>4, <1>5, <3>1 DEF Bijection, Injection, Surjection, IsInjective
    <2>2. IsFiniteSet(J)
      BY <1>0, <1>1, FS_Subset
    <2> QED
      BY <2>1, <2>2, FS_Bijection DEF ExistsBijection
  <1> HIDE DEF D
  <1>7. u = [k \in E |-> s[ct[k]]]
    BY <1>0, <1>2, <1>3 DEF D
  <1>8. ct \in [E -> K]
    BY <1>3, <1>5
  <1>9. \A k \in K : \E n \in E : ct[n] = k
    BY <1>3, <1>5
  <1>10. \A n, m \in E : n < m => <<ct[n], ct[m]>> \in P
    BY <1>0, <1>3
  <1>11. IsListing(u, ct, s, K, P)
    BY <1>6, <1>7, <1>8, <1>9, <1>10 DEF IsListing
  <1> QED
    BY <1>11

\* A listing that is sorted: s in the order W, where that leaves a choice as it was.
LEMMA SortedListing ==
  ASSUME NEW s, NEW K \in SUBSET Int, IsFiniteSet(K), NEW t, NEW at,
         IsListing(t, at, s, K, Ascending(K)),
         NEW W, IsWeakOrderOn(W, K),
         NEW V, \A n, m \in 1 .. Cardinality(K) : <<n, m>> \in V <=> <<at[n], at[m]>> \in W
  PROVE  \E bt : IsListing(Mapping!Arranged(t, 1 .. Cardinality(K), Stable(V, 1 .. Cardinality(K))),
                           bt, s, K, Stable(W, K))
  <1> DEFINE D == 1 .. Cardinality(K)
             u == Mapping!Arranged(t, D, Stable(V, D))
  <1>1. Cardinality(K) \in Nat
    BY FS_CardinalityType
  <1>2. /\ at \in [D -> K]
        /\ \A n, m \in D : n < m => <<at[n], at[m]>> \in Ascending(K)
    BY DEF IsListing
  <1>3. \A n, m \in D : n < m => at[n] < at[m]
    BY <1>2 DEF Ascending
  <1> HIDE DEF D
  <1>4. IsWeakOrderOn(V, D)
    <2>1. \A n \in D : at[n] \in K
      BY <1>2
    <2> QED
      BY <2>1 DEF IsWeakOrderOn, D
  <1>5. PICK bt : IsListing(u, bt, t, D, Stable(V, D))
    BY <1>1, <1>4, StablyArrangedIs DEF D
  <1>6. \A n, m \in D : <<n, m>> \in Stable(V, D) => <<at[n], at[m]>> \in Stable(W, K)
    BY <1>2, <1>3 DEF Stable, D
  <1>7. \A i \in K : <<i, i>> \notin Ascending(K)
    BY DEF Ascending
  <1>8. IsOf(D, Stable(V, D), at, K, Ascending(K), K, Stable(W, K))
    BY <1>2, <1>6, <1>7 DEF IsOf, D
  <1>9. \E ct : IsListing(u, ct, s, K, Stable(W, K))
    BY <1>5, <1>8, ListingOfListing
  <1> QED
    BY <1>9 DEF D

\* What a listing holds.
LEMMA ListingHolds ==
  ASSUME NEW s, NEW I, IsFiniteSet(I), NEW R, NEW t, NEW at, IsListing(t, at, s, I, R)
  PROVE  /\ Mapping!ToSet(t) = {s[i] : i \in I}
         /\ t \in Seq({s[i] : i \in I}) /\ Len(t) = Cardinality(I)
         /\ t = <<>> <=> I = {}
  <1> DEFINE D == 1 .. Cardinality(I)
             S == {s[i] : i \in I}
  <1>1. Cardinality(I) \in Nat
    BY FS_CardinalityType
  <1>2. /\ at \in [D -> I]
        /\ \A i \in I : \E n \in D : at[n] = i
        /\ t = [n \in D |-> s[at[n]]]
    BY DEF IsListing
  <1>3. t \in [D -> S] /\ \A x \in S : \E n \in D : t[n] = x
    BY <1>2
  <1>4. Mapping!ToSet(t) = S
    BY <1>3 DEF Mapping!ToSet
  <1>5. t \in Seq(S) /\ Len(t) = Cardinality(I)
    BY <1>1, <1>3
  <1>6. I = {} => Cardinality(I) = 0
    BY FS_EmptySet
  <1>7. Cardinality(I) = 0 => I = {}
    BY FS_EmptySet
  <1> QED
    BY <1>4, <1>5, <1>6, <1>7

\* Positions of an array, and what is selected at them.
LEMMA PositionsAre ==
  ASSUME NEW n \in Nat, NEW I \in SUBSET (1 .. n)
  PROVE  I \in SUBSET Int /\ IsFiniteSet(I) /\ Cardinality(I) \in Nat
  <1>1. IsFiniteSet(1 .. n)
    BY FS_Interval
  <1>2. IsFiniteSet(I)
    BY <1>1, FS_Subset
  <1> QED
    BY <1>2, FS_CardinalityType

LEMMA SelectedFromArray ==
  ASSUME NEW s, NEW n \in Nat, NEW I \in SUBSET (1 .. n)
  PROVE  \E at : IsListing(Mapping!Selected(s, I), at, s, I, Ascending(I))
  BY PositionsAre, SelectedIs

\* The positions I of s hold the values X.
Hold(s, I, X) ==
  /\ I \in SUBSET Int /\ IsFiniteSet(I)
  /\ \A i \in I : s[i] \in X
  /\ \A x \in X : \E i \in I : s[i] = x

\* What is selected, as a set of values.
LEMMA SelectedHolds ==
  ASSUME NEW s, NEW I, NEW X, Hold(s, I, X)
  PROVE  LET t == Mapping!Selected(s, I)
         IN  /\ Mapping!ToSet(t) = X
             /\ t \in Seq(X) /\ DOMAIN t = 1 .. Len(t) /\ Len(t) \in Nat
             /\ t = <<>> <=> X = {}
  <1> DEFINE D == 1 .. Cardinality(I)
             t == Mapping!Selected(s, I)
  <1> USE DEF Hold
  <1>1. IsFiniteSet(I) /\ Cardinality(I) \in Nat
    BY FS_CardinalityType
  <1>2. PICK at : IsListing(t, at, s, I, Ascending(I))
    BY SelectedIs
  <1> HIDE DEF t
  <1>3. /\ at \in [D -> I]
        /\ \A i \in I : \E k \in D : at[k] = i
        /\ t = [k \in D |-> s[at[k]]]
    BY <1>2 DEF IsListing
  <1>4. t \in [D -> X] /\ \A x \in X : \E k \in D : t[k] = x
    <2> HIDE DEF D
    <2>1. DOMAIN t = D /\ \A k \in D : at[k] \in I /\ t[k] = s[at[k]]
      BY <1>3
    <2>2. \A k \in D : t[k] \in X
      BY <2>1
    <2>3. t \in [D -> X]
      BY <1>3, <2>1, <2>2
    <2>4. ASSUME NEW x \in X PROVE \E k \in D : t[k] = x
      <3>1. PICK i \in I : s[i] = x
        OBVIOUS
      <3>2. PICK k \in D : at[k] = i
        BY <1>3
      <3> QED
        BY <2>1, <3>1, <3>2
    <2> QED
      BY <2>3, <2>4
  <1>5. Mapping!ToSet(t) = X
    BY <1>4 DEF Mapping!ToSet
  <1>6. t \in Seq(X) /\ Len(t) = Cardinality(I) /\ DOMAIN t = 1 .. Len(t)
    BY <1>1, <1>4
  <1>7. Cardinality(I) = 0 <=> I = {}
    BY <1>1, FS_EmptySet
  <1>8. I = {} <=> X = {}
    OBVIOUS
  <1> QED
    BY <1>1, <1>5, <1>6, <1>7, <1>8 DEF t

\* Each value has a first position.
LEMMA FirstPosition ==
  ASSUME NEW s, NEW n \in Nat, NEW i \in 1 .. n
  PROVE  \E j \in 1 .. n : s[j] = s[i] /\ \A k \in 1 .. n : s[k] = s[i] => j <= k
  <1> DEFINE I == {j \in 1 .. n : s[j] = s[i]}
             D == 1 .. Cardinality(I)
  <1>1. I \in SUBSET (1 .. n) /\ i \in I
    OBVIOUS
  <1> HIDE DEF I
  <1>2. IsFiniteSet(I) /\ Cardinality(I) \in Nat /\ I \in SUBSET Int
    BY <1>1, PositionsAre
  <1>3. PICK at : IsListing(Mapping!Selected(s, I), at, s, I, Ascending(I))
    BY <1>1, SelectedFromArray
  <1>4. /\ at \in [D -> I]
        /\ \A k \in I : \E m \in D : at[m] = k
        /\ \A m, k \in D : m < k => at[m] < at[k]
    BY <1>3 DEF IsListing, Ascending
  <1>5. 1 \in D
    BY <1>1, <1>2, <1>4
  <1>6. at[1] \in I /\ \A k \in I : at[1] <= k
    <2>1. at[1] \in I /\ at[1] \in Int
      BY <1>2, <1>4, <1>5
    <2>2. ASSUME NEW k \in I PROVE at[1] <= k
      <3>1. PICK m \in D : at[m] = k
        BY <1>4
      <3>2. m = 1 \/ 1 < m
        BY <1>2
      <3> HIDE DEF D
      <3> QED
        BY <1>2, <1>4, <1>5, <2>1, <3>1, <3>2
    <2> QED
      BY <2>1, <2>2
  <1> QED
    BY <1>6 DEF I

LEMMA DistinctIs ==
  ASSUME NEW s, NEW n \in Nat, DOMAIN s = 1 .. n
  PROVE  LET t == Mapping!Distinct(s)
         IN  /\ Mapping!ToSet(t) = Mapping!ToSet(s)
             /\ Cardinality(Mapping!ToSet(t)) = Len(t)
  <1> DEFINE K == {i \in DOMAIN s : \A j \in DOMAIN s : s[j] = s[i] => i <= j}
             D == 1 .. Cardinality(K)
             t == Mapping!Distinct(s)
  <1>1. K \in SUBSET (1 .. n) /\ t = Mapping!Selected(s, K)
    BY DEF Mapping!Distinct
  <1>2. \A i, j \in K : s[i] = s[j] => i = j
    OBVIOUS
  <1>3. Hold(s, K, Mapping!ToSet(s))
    <2>1. \A i \in DOMAIN s : \E j \in K : s[j] = s[i]
      <3> SUFFICES ASSUME NEW i \in 1 .. n PROVE \E j \in K : s[j] = s[i]
        OBVIOUS
      <3>1. PICK j \in 1 .. n : s[j] = s[i] /\ \A k \in 1 .. n : s[k] = s[i] => j <= k
        BY FirstPosition
      <3> QED
        BY <3>1
    <2>2. K \in SUBSET Int /\ IsFiniteSet(K)
      BY <1>1, PositionsAre
    <2> HIDE DEF K
    <2> QED
      BY <1>1, <2>1, <2>2 DEF Mapping!ToSet, Hold
  <1> HIDE DEF K, t
  <1>4. IsFiniteSet(K) /\ Cardinality(K) \in Nat
    BY <1>1, PositionsAre
  <1>5. Mapping!ToSet(t) = Mapping!ToSet(s)
    BY <1>1, <1>3, SelectedHolds
  <1>6. PICK at : IsListing(t, at, s, K, Ascending(K))
    BY <1>1, SelectedFromArray
  <1>7. /\ at \in [D -> K]
        /\ \A m, k \in D : m < k => at[m] < at[k]
        /\ t = [k \in D |-> s[at[k]]]
    BY <1>6 DEF IsListing, Ascending
  <1>8. \A m, k \in D : t[m] = t[k] => m = k
    <2>1. \A m, k \in D : m = k \/ m < k \/ k < m
      BY <1>4
    <2>2. \A k \in K : k \in Int
      BY <1>1
    <2> HIDE DEF D
    <2>3. ASSUME NEW m \in D, NEW k \in D, at[m] = at[k] PROVE m = k
      <3>1. at[m] \in Int /\ ~(at[m] < at[k]) /\ ~(at[k] < at[m])
        BY <1>7, <2>2, <2>3
      <3> QED
        BY <1>7, <2>1, <3>1
    <2>4. \A m \in D : at[m] \in K /\ t[m] = s[at[m]]
      BY <1>7
    <2> QED
      BY <1>2, <2>3, <2>4
  <1>9. t \in Bijection(D, Mapping!ToSet(t))
    BY <1>7, <1>8 DEF Bijection, Injection, Surjection, IsInjective, Mapping!ToSet
  <1>10. IsFiniteSet(D) /\ Cardinality(D) = Cardinality(K)
    BY <1>4, FS_Interval
  <1>11. Cardinality(Mapping!ToSet(t)) = Cardinality(K)
    BY <1>9, <1>10, FS_Bijection DEF ExistsBijection
  <1>12. Len(t) = Cardinality(K)
    BY <1>4, <1>7
  <1> QED
    BY <1>5, <1>11, <1>12 DEF t

LEMMA TakeIs ==
  ASSUME NEW s, Len(s) \in Nat, NEW n \in Nat
  PROVE  /\ Mapping!Min({n, Len(s)}) = IF n <= Len(s) THEN n ELSE Len(s)
         /\ Mapping!Take(s, n) = [i \in 1 .. Mapping!Min({n, Len(s)}) |-> s[i]]
         /\ Len(Mapping!Take(s, n)) = Mapping!Min({n, Len(s)})
  <1> DEFINE m == IF n <= Len(s) THEN n ELSE Len(s)
  <1>1. m \in {n, Len(s)} /\ \A x \in {n, Len(s)} : m <= x
    OBVIOUS
  <1>2. Mapping!Min({n, Len(s)}) = m
    <2>1. \A x \in {n, Len(s)} : (\A y \in {n, Len(s)} : x <= y) => x = m
      OBVIOUS
    <2> HIDE DEF m
    <2> QED
      BY <1>1, <2>1 DEF Mapping!Min
  <1>3. Mapping!Take(s, n) = [i \in 1 .. Mapping!Min({n, Len(s)}) |-> s[i]]
    BY DEF Mapping!Take
  <1> QED
    BY <1>2, <1>3

\* The head of an array made of two.
LEMMA JoinedIs ==
  ASSUME NEW S, NEW s \in Seq(S), NEW t \in Seq(S), NEW r, r = s \o t
  PROVE  /\ r \in Seq(S)
         /\ s # <<>> => r # <<>> /\ r[1] = s[1]
         /\ s = <<>> => r = t
  <1>1. r \in Seq(S)
    OBVIOUS
  <1>2. ASSUME s # <<>> PROVE r # <<>> /\ r[1] = s[1]
    <2>1. Len(s) \in Nat /\ Len(t) \in Nat /\ Len(r) = Len(s) + Len(t) /\ Len(s) # 0
      BY <1>2
    <2>2. 1 \in 1 .. Len(s) /\ 1 \in 1 .. Len(r) /\ DOMAIN r = 1 .. Len(r)
      BY <1>1, <2>1
    <2>3. r[1] = s[1]
      BY <2>2
    <2>4. r # <<>>
      BY <2>1
    <2> QED
      BY <2>3, <2>4
  <1>3. ASSUME s = <<>> PROVE r = t
    BY <1>3
  <1> QED
    BY <1>1, <1>2, <1>3

LEMMA HeadIsIn ==
  ASSUME NEW S, NEW s \in Seq(S), s # <<>>
  PROVE  s[1] \in Mapping!ToSet(s)
  BY DEF Mapping!ToSet

-----------------------------------------------------------------------------
(* What the inputs are.                                                    *)

LEMMA Constants ==
  /\ None \notin Int /\ Misfit # None /\ TopBilled \in Nat
  /\ \A p \in Queries : Mapping!IsQuery(p)
  /\ \A raw \in RawPages : Mapping!IsPage(raw)
  /\ \A raw \in RawDetails : Mapping!IsDetail(raw)
  BY MappingAssumption DEF Mapping!CatalogAssumption

Number == Int \cup {None}

-----------------------------------------------------------------------------
(* Keys.                                                                   *)

Sorted(s) == Mapping!SortBy(s, <)

\* Sorting leaves out nothing and adds nothing.
LEMMA SortedRange ==
  ASSUME NEW s \in Seq(Int)
  PROVE  Mapping!ToSet(Sorted(s)) = Mapping!ToSet(s) /\ DOMAIN Sorted(s) = DOMAIN s
  <1> DEFINE D == 1 .. Len(s)
             W == {w \in D \X D : s[w[1]] < s[w[2]]}
             t == Mapping!Arranged(s, D, Stable(W, D))
  <1>1. Len(s) \in Nat /\ DOMAIN s = D /\ \A i \in D : s[i] \in Int
    OBVIOUS
  <1>2. IsWeakOrderOn(W, D)
    <2> HIDE DEF D
    <2> QED
      BY <1>1 DEF IsWeakOrderOn
  <1>3. Sorted(s) = t
    <2>1. Stable(W, D) = {w \in D \X D : \/ s[w[1]] < s[w[2]]
                                         \/ (w[1] < w[2] /\ ~(s[w[2]] < s[w[1]]))}
      <3> HIDE DEF D
      <3> QED
        BY DEF Stable
    <2> QED
      BY <1>1, <2>1 DEF Sorted, Mapping!SortBy
  <1> HIDE DEF W
  <1>4. PICK at : IsListing(t, at, s, D, Stable(W, D))
    BY <1>1, <1>2, StablyArrangedIs
  <1>5. IsFiniteSet(D) /\ Cardinality(D) = Len(s)
    <2>1. /\ IsFiniteSet(D)
          /\ Cardinality(D) = IF 1 > Len(s) THEN 0 ELSE Len(s) - 1 + 1
      BY <1>1, FS_Interval
    <2> QED
      BY <1>1, <2>1
  <1> HIDE DEF t
  <1>6. Mapping!ToSet(t) = {s[i] : i \in D} /\ DOMAIN t = D
    <2>1. t = [n \in D |-> s[at[n]]] /\ Cardinality(D) = Len(s)
      BY <1>4, <1>5 DEF IsListing
    <2> HIDE DEF D
    <2> QED
      BY <1>4, <1>5, <2>1, ListingHolds
  <1> QED
    BY <1>1, <1>3, <1>6 DEF Mapping!ToSet

LEMMA SortedAlike ==
  ASSUME NEW s \in Seq(Int), NEW t \in Seq(Int), Sorted(s) = Sorted(t)
  PROVE  Mapping!ToSet(s) = Mapping!ToSet(t) /\ (s = <<>> <=> t = <<>>)
  <1>1. Mapping!ToSet(s) = Mapping!ToSet(t) /\ DOMAIN s = DOMAIN t
    BY SortedRange
  <1>2. \A u \in Seq(Int) : u = <<>> <=> DOMAIN u = {}
    OBVIOUS
  <1> QED
    BY <1>1, <1>2

\* Only the page of p is clamped.
LEMMA ClampedFields ==
  ASSUME NEW p \in Queries
  PROVE  LET c == Mapping!Clamped(p)
         IN  /\ c.q = p.q /\ c.genreIds = p.genreIds /\ c.year = p.year
             /\ c.minRating = p.minRating /\ c.sort = p.sort
  <1>1. p = [q |-> p.q, genreIds |-> p.genreIds, year |-> p.year, minRating |-> p.minRating,
             sort |-> p.sort, page |-> p.page]
    BY Constants DEF Mapping!IsQuery
  <1> DEFINE r == [q |-> p.q, genreIds |-> p.genreIds, year |-> p.year,
                   minRating |-> p.minRating, sort |-> p.sort, page |-> p.page]
             n == Mapping!Min({Mapping!Max({1, p.page}), PageMax})
  <1>2. Mapping!Clamped(p) = [p EXCEPT !.page = n]
    BY DEF Mapping!Clamped
  <1> HIDE DEF n
  <1>3. Mapping!Clamped(p) = [r EXCEPT !.page = n]
    BY <1>1, <1>2
  <1> QED
    BY <1>3

\* What the key keeps of the parameters.
LEMMA KeyKeeps ==
  ASSUME NEW p \in Queries, NEW q \in Queries,
         Mapping!BrowseCacheKey(Mapping!Clamped(p)) = Mapping!BrowseCacheKey(Mapping!Clamped(q))
  PROVE  /\ p.q = None <=> q.q = None
         /\ p.q # None => Lower(p.q) = Lower(q.q)
         /\ Mapping!ToSet(p.genreIds) = Mapping!ToSet(q.genreIds)
         /\ p.genreIds = <<>> <=> q.genreIds = <<>>
         /\ p.year = q.year /\ p.minRating = q.minRating /\ p.sort = q.sort
         /\ Mapping!Clamped(p).page = Mapping!Clamped(q).page
  <1> DEFINE c == Mapping!Clamped(p)
             d == Mapping!Clamped(q)
             Key(x) == <<IF x.q = None THEN None ELSE Lower(x.q), Sorted(x.genreIds), x.year,
                         x.minRating, x.sort, x.page>>
  <1>1. Key(c) = Key(d)
    BY DEF Mapping!BrowseCacheKey, Sorted
  <1>2. /\ c.q = p.q /\ c.genreIds = p.genreIds /\ c.year = p.year
        /\ c.minRating = p.minRating /\ c.sort = p.sort
        /\ d.q = q.q /\ d.genreIds = q.genreIds /\ d.year = q.year
        /\ d.minRating = q.minRating /\ d.sort = q.sort
    BY ClampedFields
  <1>3. /\ (IF c.q = None THEN None ELSE Lower(c.q)) = (IF d.q = None THEN None ELSE Lower(d.q))
        /\ Sorted(c.genreIds) = Sorted(d.genreIds)
        /\ c.year = d.year /\ c.minRating = d.minRating /\ c.sort = d.sort /\ c.page = d.page
    BY <1>1
  <1> HIDE DEF c, d
  <1>4. /\ p.genreIds \in Seq(Int) /\ q.genreIds \in Seq(Int)
        /\ p.q # None => Lower(p.q) # None
        /\ q.q # None => Lower(q.q) # None
    BY Constants DEF Mapping!IsQuery
  <1>5. Sorted(p.genreIds) = Sorted(q.genreIds)
    BY <1>2, <1>3
  <1>6. /\ Mapping!ToSet(p.genreIds) = Mapping!ToSet(q.genreIds)
        /\ p.genreIds = <<>> <=> q.genreIds = <<>>
    BY <1>4, <1>5, SortedAlike
  <1>7. c.page = d.page
    BY <1>3
  <1> QED
    BY <1>2, <1>3, <1>4, <1>6, <1>7 DEF c, d

\* The answer depends on nothing else.
LEMMA KeyDecides ==
  ASSUME NEW p \in Queries, NEW q \in Queries, NEW raw, NEW names,
         Mapping!BrowseCacheKey(Mapping!Clamped(p)) = Mapping!BrowseCacheKey(Mapping!Clamped(q))
  PROVE  Mapping!BrowseMovies(p, raw, names) = Mapping!BrowseMovies(q, raw, names)
  <1> DEFINE c == Mapping!Clamped(p)
             d == Mapping!Clamped(q)
  <1>1. /\ p.q = None <=> q.q = None
        /\ p.q # None => Lower(p.q) = Lower(q.q)
        /\ Mapping!ToSet(p.genreIds) = Mapping!ToSet(q.genreIds)
        /\ p.genreIds = <<>> <=> q.genreIds = <<>>
        /\ p.year = q.year /\ p.minRating = q.minRating /\ p.sort = q.sort
        /\ c.page = d.page
    BY KeyKeeps
  <1>2. /\ c.q = p.q /\ c.genreIds = p.genreIds /\ c.year = p.year
        /\ c.minRating = p.minRating /\ c.sort = p.sort
        /\ d.q = q.q /\ d.genreIds = q.genreIds /\ d.year = q.year
        /\ d.minRating = q.minRating /\ d.sort = q.sort
    BY ClampedFields
  <1>3. Mapping!IsSearch(p) <=> Mapping!IsSearch(q)
    BY <1>1 DEF Mapping!IsSearch
  <1>4. Mapping!DiscoverQuery(c) = Mapping!DiscoverQuery(d)
    BY <1>1, <1>2 DEF Mapping!DiscoverQuery
  <1>5. Mapping!IsSearch(p) => Mapping!SearchQuery(c) = Mapping!SearchQuery(d)
    BY <1>1, <1>2 DEF Mapping!SearchQuery, Mapping!IsSearch
  <1>6. Mapping!BrowseCacheKey(c) = Mapping!BrowseCacheKey(d)
    OBVIOUS
  <1> DEFINE query(x, y) == IF Mapping!IsSearch(x) THEN Mapping!SearchQuery(y)
                            ELSE Mapping!DiscoverQuery(y)
             items(x) == IF Mapping!IsSearch(x)
                         THEN Mapping!FetchSearchPage(Mapping!ToSet(x.genreIds), x.minRating,
                                                      x.sort, raw, names)
                         ELSE Mapping!FetchDiscoverPage(raw, names)
             filtered(x) == Mapping!IsSearch(x) /\ (x.genreIds # <<>> \/ x.minRating # None)
  <1>7. query(p, c) = query(q, d)
    BY <1>3, <1>4, <1>5
  <1>8. items(p) = items(q)
    BY <1>1, <1>3
  <1>9. filtered(p) <=> filtered(q)
    BY <1>1, <1>3
  <1> HIDE DEF c, d
  <1> QED
    BY <1>1, <1>6, <1>7, <1>8, <1>9 DEF Mapping!BrowseMovies, c, d

-----------------------------------------------------------------------------
(* Films.                                                                  *)

\* Arrays that are there, and those that are not.
LEMMA ArrayIs ==
  ASSUME NEW v, Mapping!IsArray(v)
  PROVE  LET a == Mapping!UnknownArrayOrEmpty(v)
         IN  /\ a \in Seq(Mapping!ToSet(a)) /\ DOMAIN a = 1 .. Len(a) /\ Len(a) \in Nat
             /\ IsFiniteSet(DOMAIN a)
             /\ Mapping!ToSet(a) = Mapping!Given(v)
  <1> DEFINE a == Mapping!UnknownArrayOrEmpty(v)
  <1>1. v = None => a = <<>>
    BY DEF Mapping!UnknownArrayOrEmpty
  <1>2. v # None => a = v /\ v \in Seq(Mapping!ToSet(v))
    BY DEF Mapping!UnknownArrayOrEmpty, Mapping!IsArray
  <1>3. Mapping!ToSet(<<>>) = {} /\ \A S : <<>> \in Seq(S)
    BY DEF Mapping!ToSet
  <1> HIDE DEF a
  <1>4. a \in Seq(Mapping!ToSet(a))
    BY <1>1, <1>2, <1>3
  <1>5. DOMAIN a = 1 .. Len(a) /\ Len(a) \in Nat
    BY <1>4
  <1>6. IsFiniteSet(DOMAIN a)
    BY <1>5, FS_Interval
  <1>7. Mapping!ToSet(a) = Mapping!Given(v)
    BY <1>1, <1>2, <1>3 DEF Mapping!Given
  <1> QED
    BY <1>4, <1>5, <1>6, <1>7 DEF a

\* A film as it is shown.
Shown(f, names) == Mapping!MapMovieSummary(Mapping!Summary(f), names)

LEMMA ShownFields ==
  ASSUME NEW f, Mapping!IsFilm(f), NEW names
  PROVE  LET m == Shown(f, names)
         IN  /\ m.id = f.id /\ m.title = f.title /\ m.year = Mapping!ToYear(f.date)
             /\ m.votes = Mapping!NumberOr(0, f.votes)
             /\ m.popularity = Mapping!NumberOr(0, f.popularity)
             /\ m.rating = Mapping!ToRating(f.average, Mapping!NumberOr(0, f.votes))
             /\ m.genreIds = Mapping!IntArrayOrEmpty(f.genreIds)
  <1>1. f \in [id : Number, title : Number, date : Number, average : Number, votes : Number,
               genreIds : {f.genreIds}, popularity : Number]
    BY DEF Mapping!IsFilm, Mapping!Number, Number
  <1> DEFINE g == Mapping!Summary(f)
  <1>2. /\ g.id = f.id /\ g.title = f.title /\ g.date = f.date /\ g.average = f.average
        /\ g.votes = Mapping!NumberOr(0, f.votes)
        /\ g.popularity = Mapping!NumberOr(0, f.popularity)
        /\ g.genreIds = Mapping!IntArrayOrEmpty(f.genreIds)
    BY <1>1 DEF Mapping!Summary
  <1> HIDE DEF g
  <1>3. LET m == Mapping!MapMovieSummary(g, names)
        IN  /\ m.id = g.id /\ m.title = g.title /\ m.year = Mapping!ToYear(g.date)
            /\ m.votes = g.votes
            /\ m.popularity = g.popularity /\ m.genreIds = g.genreIds
            /\ m.rating = Mapping!ToRating(g.average, g.votes)
    BY DEF Mapping!MapMovieSummary
  <1> QED
    BY <1>2, <1>3 DEF Shown, g

\* The values a sort compares are those of the record.
LEMMA SortValuesAre ==
  ASSUME NEW f, Mapping!IsFilm(f), NEW names, NEW by,
         by \in {"title", "primary_release_date", "vote_average", "vote_count", "popularity",
                 "revenue"}
  PROVE  /\ Mapping!SortValue(Shown(f, names), by) = Mapping!PlacedBy(f, by)
         /\ Mapping!PlacedBy(f, by) \in Number
  <1>1. /\ f.title \in Number /\ f.date \in Number /\ f.average \in Number
        /\ f.votes \in Number /\ f.popularity \in Number
    BY DEF Mapping!IsFilm, Mapping!Number, Number
  <1> DEFINE m == Shown(f, names)
             rating == IF Mapping!Rated(f) THEN (f.average + 5) \div 10 ELSE None
             year   == IF f.date = None THEN None ELSE f.date \div 10000
             votes  == IF f.votes = None THEN 0 ELSE f.votes
             fame   == IF f.popularity = None THEN 0 ELSE f.popularity
  <1>2. m.title = f.title /\ m.votes = votes /\ m.popularity = fame
    BY ShownFields DEF Mapping!NumberOr
  <1>3. m.year = year
    BY ShownFields DEF Mapping!ToYear
  <1>4. m.rating = rating
    <2>1. m.rating = Mapping!ToRating(f.average, Mapping!NumberOr(0, f.votes))
      BY ShownFields
    <2>2. Mapping!NumberOr(0, f.votes) = 0 <=> f.votes \in {None, 0}
      BY DEF Mapping!NumberOr
    <2>3. f.average # None => (f.average > 0 <=> ~(f.average <= 0))
      BY <1>1 DEF Number
    <2> QED
      BY <2>1, <2>2, <2>3 DEF Mapping!ToRating, Mapping!Rated
  <1>5. rating \in Number /\ year \in Number /\ votes \in Number /\ fame \in Number
    <2>1. f.average \in Int => (f.average + 5) \div 10 \in Int
      OBVIOUS
    <2>2. f.date \in Int => f.date \div 10000 \in Int
      OBVIOUS
    <2> QED
      BY <1>1, <2>1, <2>2 DEF Mapping!Rated, Number
  <1> HIDE DEF m
  <1>6. Mapping!PlacedBy(f, by) = CASE by = "title" -> f.title
                                    [] by = "primary_release_date" -> year
                                    [] by = "vote_average" -> rating
                                    [] by = "vote_count" -> votes
                                    [] by \in {"popularity", "revenue"} -> fame
    BY DEF Mapping!PlacedBy
  <1> HIDE DEF rating, year, votes, fame
  <1> QED
    BY <1>1, <1>2, <1>3, <1>4, <1>5, <1>6 DEF Mapping!SortValue, m

\* The genres of a film, as sets.
LEMMA ShownGenres ==
  ASSUME NEW f, Mapping!IsFilm(f), NEW names
  PROVE  Mapping!ToSet(Shown(f, names).genreIds) = Mapping!Given(f.genreIds) \ {None}
  <1> DEFINE a == Mapping!UnknownArrayOrEmpty(f.genreIds)
             I == {i \in DOMAIN a : a[i] # None}
  <1>1. /\ a \in Seq(Mapping!ToSet(a)) /\ DOMAIN a = 1 .. Len(a) /\ Len(a) \in Nat
        /\ Mapping!ToSet(a) = Mapping!Given(f.genreIds)
    BY ArrayIs DEF Mapping!IsFilm
  <1>2. Mapping!IntArrayOrEmpty(f.genreIds) = Mapping!Selected(a, I)
    BY DEF Mapping!IntArrayOrEmpty, Mapping!Filter
  <1> HIDE DEF a
  <1>3. I \in SUBSET (1 .. Len(a))
    BY <1>1
  <1>4. Mapping!ToSet(Mapping!Selected(a, I)) = {a[i] : i \in I}
    <2> HIDE DEF I
    <2>1. IsFiniteSet(I)
          /\ \E at : IsListing(Mapping!Selected(a, I), at, a, I, Ascending(I))
      BY <1>1, <1>3, PositionsAre, SelectedFromArray
    <2> QED
      BY <2>1, ListingHolds
  <1>5. {a[i] : i \in I} = Mapping!ToSet(a) \ {None}
    BY DEF Mapping!ToSet
  <1> QED
    BY <1>1, <1>2, <1>4, <1>5, ShownFields

\* What the filters keep is what was wanted.
LEMMA KeptIsWanted ==
  ASSUME NEW f, Mapping!IsFilm(f), NEW names, NEW p \in Queries
  PROVE  Mapping!Wanted(p, f)
         <=> /\ Mapping!SummaryParses(f)
             /\ Mapping!Kept(Mapping!ToSet(p.genreIds), p.minRating, Shown(f, names))
  <1> DEFINE m == Shown(f, names)
             G == Mapping!ToSet(p.genreIds)
             rated == Mapping!Rated(f) /\ 10 * p.minRating <= f.average + 5
  <1>1. f.average \in Number /\ f.votes \in Number /\ p.minRating \in Number
        /\ p.genreIds \in Seq(Int) /\ None \notin Int
    BY Constants DEF Mapping!IsFilm, Mapping!IsQuery, Mapping!Number, Number
  <1>2. None \notin G
    BY <1>1 DEF Mapping!ToSet
  <1>3. G \subseteq Mapping!ToSet(m.genreIds) <=> G \subseteq Mapping!Given(f.genreIds)
    BY <1>2, ShownGenres
  <1>4. ASSUME p.minRating # None
        PROVE  m.rating # None /\ m.rating >= p.minRating <=> rated
    <2>1. m.rating = Mapping!ToRating(f.average, Mapping!NumberOr(0, f.votes))
      BY ShownFields
    <2>2. ASSUME f.average # None, f.average > 0
          PROVE  /\ (f.average + 5) \div 10 \in Int
                 /\ (f.average + 5) \div 10 >= p.minRating <=> 10 * p.minRating <= f.average + 5
      BY <1>1, <1>4, <2>2 DEF Number
    <2> QED
      BY <1>1, <2>1, <2>2 DEF Mapping!ToRating, Mapping!NumberOr, Mapping!Rated, Number
  <1>5. Mapping!Given(f.genreIds)
          = IF f.genreIds = None THEN {} ELSE Mapping!ToSet(f.genreIds)
    BY DEF Mapping!Given
  <1> HIDE DEF m, G
  <1>6. Mapping!Wanted(p, f)
        <=> /\ f.id # None /\ f.title # None
            /\ G \subseteq Mapping!Given(f.genreIds)
            /\ p.minRating # None => rated
    BY <1>5 DEF Mapping!Wanted, G
  <1> QED
    BY <1>3, <1>4, <1>6 DEF Mapping!Kept, Mapping!SummaryParses, m, G

\* The list of a page, by the films that parse.
Parsing(films) == {i \in DOMAIN films : Mapping!SummaryParses(films[i])}
AllShown(films, names) == [i \in DOMAIN films |-> Shown(films[i], names)]

LEMMA MapListIs ==
  ASSUME NEW films, films \in Seq(Mapping!ToSet(films)), NEW names
  PROVE  \E at : IsListing(Mapping!MapMovieList(films, names), at, AllShown(films, names),
                           Parsing(films), Ascending(Parsing(films)))
  <1> DEFINE I == Parsing(films)
             parsed == Mapping!Selected(films, I)
             D == 1 .. Cardinality(I)
  <1>1. I \in SUBSET (1 .. Len(films)) /\ Len(films) \in Nat /\ DOMAIN films = 1 .. Len(films)
    BY DEF Parsing
  <1>2. Mapping!MapMovieList(films, names)
          = [i \in DOMAIN parsed |-> Shown(parsed[i], names)]
    BY DEF Mapping!MapMovieList, Mapping!ParseTolerantArray, Mapping!Filter, Mapping!Mapped,
           Parsing, Shown
  <1> HIDE DEF I, parsed
  <1>3. PICK at : IsListing(parsed, at, films, I, Ascending(I))
    BY <1>1, SelectedFromArray DEF parsed
  <1>4. parsed = [n \in D |-> films[at[n]]] /\ at \in [D -> I]
    BY <1>3 DEF IsListing
  <1>5. \A n \in D : at[n] \in DOMAIN films
    BY <1>1, <1>4
  <1>6. \A n \in D : Shown(parsed[n], names) = AllShown(films, names)[at[n]]
    BY <1>4, <1>5 DEF AllShown
  <1>7. Mapping!MapMovieList(films, names) = [n \in D |-> AllShown(films, names)[at[n]]]
    BY <1>2, <1>4, <1>6
  <1> QED
    BY <1>3, <1>7 DEF IsListing, I

\* The comparator leaves ties to the stability of the sort.
SortOrder(sort, v, I) == {w \in I \X I : Mapping!SortsBefore(sort, v[w[1]], v[w[2]])}

LEMMA SortOrderIsWeak ==
  ASSUME NEW p \in Queries, NEW v, NEW I,
         \A i \in I : Mapping!SortValue(v[i], p.sort.by) \in Number
  PROVE  IsWeakOrderOn(SortOrder(p.sort, v, I), I)
  <1> DEFINE x(i) == Mapping!SortValue(v[i], p.sort.by)
             before(i, j) == /\ x(i) # None
                             /\ \/ x(j) = None
                                \/ IF p.sort.desc THEN x(j) < x(i) ELSE x(i) < x(j)
  <1>1. \A i, j \in I : <<i, j>> \in SortOrder(p.sort, v, I) <=> before(i, j)
    BY DEF SortOrder, Mapping!SortsBefore
  <1>2. None \notin Int /\ \A i \in I : x(i) \in Number
    BY Constants
  <1> HIDE DEF x
  <1>3. \A i \in I : ~before(i, i)
    BY <1>2 DEF Number
  <1>4. \A i, j, k \in I : before(i, j) /\ before(j, k) => before(i, k)
    BY <1>2 DEF Number
  <1>5. \A i, j, k \in I : before(i, k) => before(i, j) \/ before(j, k)
    BY <1>2 DEF Number
  <1> HIDE DEF before
  <1> QED
    BY <1>1, <1>3, <1>4, <1>5 DEF IsWeakOrderOn

\* A page of TMDB.
LEMMA PageIs ==
  ASSUME NEW raw \in RawPages
  PROVE  LET films == Mapping!Page(raw).results
         IN  /\ films \in Seq(Mapping!ToSet(films))
             /\ DOMAIN films = 1 .. Len(films) /\ Len(films) \in Nat
             /\ \A i \in DOMAIN films : Mapping!IsFilm(films[i])
  <1> DEFINE films == Mapping!UnknownArrayOrEmpty(raw.results)
  <1>1. Mapping!IsPage(raw)
    BY Constants
  <1>2. Mapping!Page(raw).results = films
    BY DEF Mapping!Page
  <1>3. /\ films \in Seq(Mapping!ToSet(films))
        /\ DOMAIN films = 1 .. Len(films) /\ Len(films) \in Nat
    BY <1>1, ArrayIs DEF Mapping!IsPage
  <1>4. raw.results = None => films = <<>>
    BY DEF Mapping!UnknownArrayOrEmpty
  <1>5. raw.results # None => films = raw.results
    BY DEF Mapping!UnknownArrayOrEmpty
  <1> HIDE DEF films
  <1>6. CASE raw.results = None
    BY <1>2, <1>3, <1>4, <1>6
  <1>7. CASE raw.results # None
    <2>1. \A f \in Mapping!ToSet(films) : Mapping!IsFilm(f)
      BY <1>1, <1>5, <1>7 DEF Mapping!IsPage
    <2>2. \A i \in DOMAIN films : films[i] \in Mapping!ToSet(films)
      BY DEF Mapping!ToSet
    <2> QED
      BY <1>2, <1>3, <2>1, <2>2
  <1> QED
    BY <1>6, <1>7

\* A search page lists the films that are wanted in the order of the sort.
WantedOf(p, films) == {i \in DOMAIN films : Mapping!Wanted(p, films[i])}

LEMMA SearchPageIs ==
  ASSUME NEW p \in Queries, NEW raw \in RawPages, NEW names
  PROVE  LET films == Mapping!Page(raw).results
             shown == AllShown(films, names)
             K     == WantedOf(p, films)
         IN  \E at : IsListing(Mapping!FetchSearchPage(Mapping!ToSet(p.genreIds), p.minRating,
                                                       p.sort, raw, names),
                               at, shown, K, Stable(SortOrder(p.sort, shown, K), K))
  <1> DEFINE films == Mapping!Page(raw).results
             shown == AllShown(films, names)
             I == Parsing(films)
             K == WantedOf(p, films)
             G == Mapping!ToSet(p.genreIds)
             list == Mapping!MapMovieList(films, names)
             J == {n \in DOMAIN list : Mapping!Kept(G, p.minRating, list[n])}
             kept == Mapping!Selected(list, J)
             W == SortOrder(p.sort, shown, K)
  <1>1. /\ films \in Seq(Mapping!ToSet(films))
        /\ DOMAIN films = 1 .. Len(films) /\ Len(films) \in Nat
        /\ \A i \in DOMAIN films : Mapping!IsFilm(films[i])
    BY PageIs
  <1>2. Mapping!FetchSearchPage(G, p.minRating, p.sort, raw, names)
          = Mapping!SortBy(kept, LAMBDA a, b : Mapping!SortsBefore(p.sort, a, b))
    BY DEF Mapping!FetchSearchPage, Mapping!SortSummaries, Mapping!Filter
  <1> HIDE DEF films
  <1>3. PICK at : IsListing(list, at, shown, I, Ascending(I))
    BY <1>1, MapListIs
  <1>4. I \in SUBSET (1 .. Len(films)) /\ IsFiniteSet(I) /\ Cardinality(I) \in Nat
    <2>1. I \in SUBSET (1 .. Len(films))
      BY <1>1 DEF Parsing
    <2> QED
      BY <1>1, <2>1, PositionsAre
  <1> HIDE DEF list
  <1>5. DOMAIN list = 1 .. Cardinality(I) /\ \A n \in DOMAIN list : /\ at[n] \in I
                                                                    /\ list[n] = shown[at[n]]
    BY <1>3 DEF IsListing
  <1>6. K \in SUBSET I /\ \A n \in DOMAIN list : n \in J <=> at[n] \in K
    <2>1. \A i \in DOMAIN films :
            i \in K <=> i \in I /\ Mapping!Kept(G, p.minRating, Shown(films[i], names))
      BY <1>1, KeptIsWanted DEF WantedOf, Parsing
    <2>2. \A i \in DOMAIN films : shown[i] = Shown(films[i], names)
      BY DEF AllShown
    <2> HIDE DEF shown, G
    <2> QED
      BY <1>5, <2>1, <2>2 DEF Parsing, WantedOf
  <1> HIDE DEF shown, I, K, J, kept, G
  <1>7. PICK bt : IsListing(kept, bt, shown, K, Ascending(K))
    <2>1. J \in SUBSET (1 .. Cardinality(I))
      BY <1>5 DEF J
    <2>2. PICK ct : IsListing(kept, ct, list, J, Ascending(J))
      BY <1>4, <2>1, SelectedFromArray DEF kept
    <2>3. \A i \in I : <<i, i>> \notin Ascending(I)
      BY <1>4 DEF Ascending
    <2>4. \A n, m \in J : <<n, m>> \in Ascending(J) => <<at[n], at[m]>> \in Ascending(K)
      <3>1. \A n, m \in 1 .. Cardinality(I) : n < m => <<at[n], at[m]>> \in Ascending(I)
        BY <1>3 DEF IsListing
      <3> QED
        BY <1>5, <1>6, <2>1, <3>1 DEF Ascending
    <2>5. IsOf(J, Ascending(J), at, I, Ascending(I), K, Ascending(K))
      BY <1>4, <1>5, <1>6, <2>1, <2>3, <2>4 DEF IsOf
    <2> QED
      BY <1>3, <2>2, <2>5, ListingOfListing
  <1>8. K \in SUBSET (1 .. Len(films)) /\ IsFiniteSet(K) /\ Cardinality(K) \in Nat
    <2>1. K \in SUBSET (1 .. Len(films))
      BY <1>4, <1>6
    <2> QED
      BY <1>1, <2>1, PositionsAre
  <1> DEFINE D == 1 .. Cardinality(K)
             V == SortOrder(p.sort, kept, D)
             sorted == Mapping!Arranged(kept, D, Stable(V, D))
  <1>9. /\ DOMAIN kept = D
        /\ \A n \in D : bt[n] \in K /\ kept[n] = shown[bt[n]]
        /\ \A n, m \in D : n < m => bt[n] < bt[m]
    BY <1>7 DEF IsListing, Ascending
  <1>10. \A i \in K : Mapping!SortValue(shown[i], p.sort.by) \in Number
    <2>1. K \subseteq DOMAIN films
      BY DEF K, WantedOf
    <2>2. \A i \in K : shown[i] = Shown(films[i], names)
      BY <2>1 DEF shown, AllShown
    <2>3. p.sort.by \in {"title", "primary_release_date", "vote_average", "vote_count",
                         "popularity", "revenue"}
      BY Constants DEF Mapping!IsQuery, Mapping!Sorts
    <2> QED
      BY <1>1, <2>1, <2>2, <2>3, SortValuesAre
  <1>11. IsWeakOrderOn(W, K)
    BY <1>10, SortOrderIsWeak
  <1>12. Mapping!SortBy(kept, LAMBDA a, b : Mapping!SortsBefore(p.sort, a, b)) = sorted
    <2>1. Stable(V, D) = {w \in D \X D :
                            \/ Mapping!SortsBefore(p.sort, kept[w[1]], kept[w[2]])
                            \/ /\ w[1] < w[2]
                               /\ ~Mapping!SortsBefore(p.sort, kept[w[2]], kept[w[1]])}
      <3> HIDE DEF D
      <3> QED
        BY DEF Stable, SortOrder
    <2> QED
      BY <1>9, <2>1 DEF Mapping!SortBy
  <1> HIDE DEF V, sorted
  <1>13. \A n, m \in D : <<n, m>> \in V <=> <<bt[n], bt[m]>> \in W
    BY <1>9 DEF V, SortOrder
  <1>14. K \in SUBSET Int
    BY <1>8
  <1> HIDE DEF W
  <1>15. \E et : IsListing(sorted, et, shown, K, Stable(W, K))
    BY <1>7, <1>8, <1>11, <1>13, <1>14, SortedListing DEF sorted
  <1> QED
    BY <1>2, <1>12, <1>15 DEF films, shown, K, G, W

\* What SearchIsExact says of items as the answer to p when TMDB sent raw, with where
\* each item comes from.
Exact(p, raw, items, from) ==
  LET raws     == Mapping!Page(raw).results
      wanted   == {k \in DOMAIN raws : Mapping!Wanted(p, raws[k])}
      value(i) == Mapping!PlacedBy(raws[from[i]], p.sort.by)
  IN  /\ from \in [DOMAIN items -> wanted]
      /\ \A k \in wanted : \E i \in DOMAIN items : from[i] = k
      /\ \A i \in DOMAIN items : items[i].id = raws[from[i]].id
      /\ \A i, j \in DOMAIN items : i < j =>
           /\ from[i] # from[j]
           /\ value(i) = value(j) => from[i] < from[j]
           /\ value(i) = None => value(j) = None
           /\ value(i) # None /\ value(j) # None =>
                IF p.sort.desc THEN value(j) <= value(i) ELSE value(i) <= value(j)

\* A list that arises as a search page does is exact: what it lists is where each
\* of its films comes from.
LEMMA ListedIsExact ==
  ASSUME NEW p \in Queries, NEW raw \in RawPages, NEW names, NEW items, NEW at,
         IsListing(items, at, AllShown(Mapping!Page(raw).results, names),
                   WantedOf(p, Mapping!Page(raw).results),
                   Stable(SortOrder(p.sort, AllShown(Mapping!Page(raw).results, names),
                                    WantedOf(p, Mapping!Page(raw).results)),
                          WantedOf(p, Mapping!Page(raw).results)))
  PROVE  Exact(p, raw, items, at)
  <1> DEFINE raws  == Mapping!Page(raw).results
             shown == AllShown(raws, names)
             K     == WantedOf(p, raws)
             W     == SortOrder(p.sort, shown, K)
             D     == 1 .. Cardinality(K)
             value(i) == Mapping!PlacedBy(raws[at[i]], p.sort.by)
  <1>1. /\ DOMAIN raws = 1 .. Len(raws) /\ Len(raws) \in Nat
        /\ \A i \in DOMAIN raws : Mapping!IsFilm(raws[i])
    BY PageIs
  <1>2. K = {k \in DOMAIN raws : Mapping!Wanted(p, raws[k])}
    BY DEF WantedOf
  <1>3. /\ at \in [D -> K]
        /\ \A i \in K : \E n \in D : at[n] = i
        /\ \A n, m \in D : n < m => <<at[n], at[m]>> \in Stable(W, K)
        /\ items = [n \in D |-> shown[at[n]]]
    BY DEF IsListing
  <1>4. \A k \in K : /\ k \in DOMAIN raws /\ Mapping!IsFilm(raws[k])
                     /\ shown[k] = Shown(raws[k], names)
    BY <1>1, <1>2 DEF AllShown
  <1>5. \A k \in K : /\ shown[k].id = raws[k].id
                     /\ Mapping!SortValue(shown[k], p.sort.by)
                          = Mapping!PlacedBy(raws[k], p.sort.by)
                     /\ Mapping!SortValue(shown[k], p.sort.by) \in Number
    <2>1. p.sort.by \in {"title", "primary_release_date", "vote_average", "vote_count",
                         "popularity", "revenue"}
      BY Constants DEF Mapping!IsQuery, Mapping!Sorts
    <2> QED
      BY <1>4, <2>1, ShownFields, SortValuesAre
  <1> HIDE DEF raws, shown, K, W, D
  <1>6. DOMAIN items = D /\ \A n \in D : /\ at[n] \in K /\ items[n] = shown[at[n]]
                                         /\ items[n].id = raws[at[n]].id
                                         /\ value(n)
                                              = Mapping!SortValue(shown[at[n]], p.sort.by)
                                         /\ value(n) \in Number
    BY <1>3, <1>5
  <1>7. ASSUME NEW i \in D, NEW j \in D, i < j
        PROVE  /\ at[i] # at[j]
               /\ value(i) = value(j) => at[i] < at[j]
               /\ value(i) = None => value(j) = None
               /\ value(i) # None /\ value(j) # None =>
                    IF p.sort.desc THEN value(j) <= value(i) ELSE value(i) <= value(j)
    <2> DEFINE before(a, b) == /\ value(a) # None
                               /\ \/ value(b) = None
                                  \/ IF p.sort.desc THEN value(b) < value(a)
                                     ELSE value(a) < value(b)
    <2>1. K \in SUBSET Int /\ at[i] \in K /\ at[j] \in K
      BY <1>1, <1>2, <1>6
    <2>2. IsWeakOrderOn(W, K)
      BY <1>5, SortOrderIsWeak DEF W
    <2>3. <<at[i], at[j]>> \in Stable(W, K)
      BY <1>3, <1>7
    <2>4. /\ at[i] # at[j]
          /\ <<at[i], at[j]>> \in W \/ (at[i] < at[j] /\ <<at[j], at[i]>> \notin W)
      <3>1. IsOrderOn(Stable(W, K), K)
            /\ \A a, b \in K : <<a, b>> \in Stable(W, K)
                              <=> <<a, b>> \in W \/ (a < b /\ <<b, a>> \notin W)
        BY <2>1, <2>2, StableIs
      <3> QED
        BY <2>1, <2>3, <3>1 DEF IsOrderOn
    <2>5. /\ <<at[i], at[j]>> \in W <=> before(i, j)
          /\ <<at[j], at[i]>> \in W <=> before(j, i)
      BY <1>6 DEF W, SortOrder, Mapping!SortsBefore
    <2>6. before(i, j) \/ (at[i] < at[j] /\ ~before(j, i))
      BY <2>4, <2>5
    <2>7. value(i) \in Number /\ value(j) \in Number /\ None \notin Int
      BY <1>6, Constants
    <2> HIDE DEF value
    <2> QED
      BY <2>4, <2>6, <2>7 DEF Number
  <1> HIDE DEF value
  <1> QED
    BY <1>2, <1>3, <1>6, <1>7 DEF raws, value, Exact

-----------------------------------------------------------------------------
(* Details.                                                                *)

\* The cast of an array of credits.
Order(c) == Mapping!NumberOr(999, c.order)
Billing(a) == {i \in DOMAIN a : a[i].id # None /\ a[i].name # None}

LEMMA CastIs ==
  ASSUME NEW a, a \in Seq(Mapping!ToSet(a)), \A c \in Mapping!ToSet(a) : c.order \in Number
  PROVE  LET cast   == Mapping!MapCast(a)
             billed == {c \in Mapping!ToSet(a) : c.id # None /\ c.name # None}
         IN  /\ Mapping!ToSet(cast) \subseteq billed
             /\ Len(cast) = Mapping!Min({TopBilled, Cardinality(Billing(a))})
             /\ \A i \in DOMAIN cast, c \in billed \ Mapping!ToSet(cast) :
                  Order(cast[i]) <= Order(c)
  <1> DEFINE K == Billing(a)
             D == 1 .. Cardinality(K)
             parsed == Mapping!Selected(a, K)
             W == {w \in K \X K : Order(a[w[1]]) < Order(a[w[2]])}
             V == {w \in D \X D : Order(parsed[w[1]]) < Order(parsed[w[2]])}
             sorted == Mapping!Arranged(parsed, D, Stable(V, D))
             cast == Mapping!Take(sorted, TopBilled)
             billed == {c \in Mapping!ToSet(a) : c.id # None /\ c.name # None}
  <1>1. /\ K \in SUBSET (1 .. Len(a)) /\ Len(a) \in Nat /\ DOMAIN a = 1 .. Len(a)
        /\ TopBilled \in Nat
    BY Constants DEF Billing
  <1> HIDE DEF K
  <1>2. K \in SUBSET Int /\ IsFiniteSet(K) /\ Cardinality(K) \in Nat
    BY <1>1, PositionsAre
  <1>3. \A i \in K : Order(a[i]) \in Int
    <2>1. \A i \in K : a[i] \in Mapping!ToSet(a)
      BY DEF K, Billing, Mapping!ToSet
    <2> QED
      BY <2>1, Constants DEF Order, Mapping!NumberOr, Number
  <1>4. billed = {a[i] : i \in K}
    BY DEF K, Billing, Mapping!ToSet
  <1>5. IsWeakOrderOn(W, K)
    BY <1>3 DEF IsWeakOrderOn
  <1>6. PICK at : IsListing(parsed, at, a, K, Ascending(K))
    BY <1>1, SelectedFromArray
  <1>7. DOMAIN parsed = D /\ \A n \in D : at[n] \in K /\ parsed[n] = a[at[n]]
    BY <1>6 DEF IsListing
  <1>8. Mapping!MapCast(a) = cast
    <2>1. Stable(V, D) = {w \in D \X D :
                            \/ Order(parsed[w[1]]) < Order(parsed[w[2]])
                            \/ (w[1] < w[2] /\ ~(Order(parsed[w[2]]) < Order(parsed[w[1]])))}
      <3> HIDE DEF D, parsed
      <3> QED
        BY DEF Stable
    <2>2. Mapping!MapCast(a)
            = Mapping!Take(Mapping!SortBy(parsed, LAMBDA x, y : Order(x) < Order(y)), TopBilled)
      BY DEF Mapping!MapCast, Mapping!ParseTolerantArray, Mapping!CreditParses, Mapping!Filter,
             Order, Billing, K
    <2>3. Mapping!SortBy(parsed, LAMBDA x, y : Order(x) < Order(y)) = sorted
      BY <1>7, <2>1 DEF Mapping!SortBy
    <2> QED
      BY <2>2, <2>3
  <1> HIDE DEF parsed
  <1>9. \A n, m \in D : <<n, m>> \in V <=> <<at[n], at[m]>> \in W
    BY <1>7
  <1> HIDE DEF V, W
  <1>10. PICK bt : IsListing(sorted, bt, a, K, Stable(W, K))
    BY <1>2, <1>5, <1>6, <1>9, SortedListing
  <1> HIDE DEF sorted
  <1>11. /\ bt \in [D -> K]
         /\ \A i \in K : \E n \in D : bt[n] = i
         /\ \A n, m \in D : n < m => <<bt[n], bt[m]>> \in Stable(W, K)
         /\ sorted = [n \in D |-> a[bt[n]]] /\ Len(sorted) = Cardinality(K)
    BY <1>2, <1>10 DEF IsListing
  <1> DEFINE T == Mapping!Min({TopBilled, Cardinality(K)})
  <1>12. /\ T = IF TopBilled <= Cardinality(K) THEN TopBilled ELSE Cardinality(K)
         /\ cast = [i \in 1 .. T |-> sorted[i]] /\ Len(cast) = T
    <2>1. Len(sorted) \in Nat /\ Len(sorted) = Cardinality(K)
      BY <1>2, <1>11
    <2>2. /\ Mapping!Min({TopBilled, Len(sorted)})
               = IF TopBilled <= Len(sorted) THEN TopBilled ELSE Len(sorted)
          /\ cast = [i \in 1 .. Mapping!Min({TopBilled, Len(sorted)}) |-> sorted[i]]
          /\ Len(cast) = Mapping!Min({TopBilled, Len(sorted)})
      BY <1>1, <2>1, TakeIs
    <2> HIDE DEF cast
    <2> QED
      BY <2>1, <2>2
  <1> HIDE DEF T, cast
  <1>13. /\ T \in Nat /\ DOMAIN cast = 1 .. T
         /\ \A i \in 1 .. T : i \in D /\ cast[i] = a[bt[i]] /\ bt[i] \in K
    <2>1. T \in Nat /\ \A i \in 1 .. T : i \in D
      BY <1>1, <1>2, <1>12
    <2>2. \A i \in D : bt[i] \in K /\ sorted[i] = a[bt[i]]
      BY <1>11
    <2> HIDE DEF D
    <2> QED
      BY <1>12, <2>1, <2>2
  <1>14. Mapping!ToSet(cast) \subseteq billed
    BY <1>4, <1>13 DEF Mapping!ToSet
  <1>15. ASSUME NEW i \in DOMAIN cast, NEW c \in billed \ Mapping!ToSet(cast)
         PROVE  Order(cast[i]) <= Order(c)
    <2>1. PICK n \in D : bt[n] \in K /\ c = a[bt[n]]
      BY <1>4, <1>11, <1>15
    <2>2. n \notin 1 .. T
      BY <1>13, <1>15, <2>1 DEF Mapping!ToSet
    <2>3. i < n /\ i \in D
      BY <1>2, <1>13, <1>15, <2>2
    <2>4. <<bt[i], bt[n]>> \in Stable(W, K)
      BY <1>11, <2>1, <2>3
    <2>5. <<bt[n], bt[i]>> \notin W
      BY <1>5, <2>4, <1>13, <1>15, <2>1 DEF Stable, IsWeakOrderOn
    <2>6. bt[i] \in K /\ cast[i] = a[bt[i]]
      BY <1>13, <1>15
    <2>7. ~(Order(a[bt[n]]) < Order(a[bt[i]]))
      BY <2>1, <2>5, <2>6 DEF W
    <2> QED
      BY <1>3, <2>1, <2>6, <2>7
  <1> QED
    BY <1>8, <1>12, <1>14, <1>15 DEF K, T

\* Those who hold a job, each once.
LEMMA NamesAre ==
  ASSUME NEW a, a \in Seq(Mapping!ToSet(a)), NEW jobs
  PROVE  LET names == Mapping!NamesForJobs(a, jobs)
         IN  /\ Mapping!ToSet(names)
                  = {c.name : c \in {x \in Mapping!ToSet(a) : x.id # None /\ x.name # None
                                                               /\ x.job \in jobs}}
             /\ Cardinality(Mapping!ToSet(names)) = Len(names)
  <1> DEFINE I == Billing(a)
             parsed == Mapping!Selected(a, I)
             J == {i \in DOMAIN parsed : parsed[i].job \in jobs}
             held == Mapping!Selected(parsed, J)
             names == [i \in DOMAIN held |-> held[i].name]
  <1>1. I \in SUBSET (1 .. Len(a)) /\ Len(a) \in Nat
    BY DEF Billing
  <1>2. Mapping!NamesForJobs(a, jobs) = Mapping!Distinct(names)
    BY DEF Mapping!NamesForJobs, Mapping!ParseTolerantArray, Mapping!CreditParses, Mapping!Filter,
           Mapping!Mapped, Billing
  <1> DEFINE P == {x \in Mapping!ToSet(a) : x.id # None /\ x.name # None}
             H == {x \in Mapping!ToSet(a) : x.id # None /\ x.name # None /\ x.job \in jobs}
  <1>3. Hold(a, I, P)
    <2>1. I \in SUBSET Int /\ IsFiniteSet(I)
      BY <1>1, PositionsAre
    <2> QED
      BY <2>1 DEF Billing, Mapping!ToSet, Hold
  <1>4. Mapping!ToSet(parsed) = P /\ DOMAIN parsed = 1 .. Len(parsed) /\ Len(parsed) \in Nat
    <2> HIDE DEF I, P
    <2> QED
      BY <1>3, SelectedHolds
  <1> HIDE DEF parsed
  <1>5. Mapping!ToSet(held) = H /\ DOMAIN held = 1 .. Len(held) /\ Len(held) \in Nat
    <2>1. J \in SUBSET (1 .. Len(parsed))
      BY <1>4
    <2>2. J \in SUBSET Int /\ IsFiniteSet(J)
      BY <1>4, <2>1, PositionsAre
    <2>3. Hold(parsed, J, H)
      BY <1>4, <2>2 DEF Mapping!ToSet, Hold
    <2> HIDE DEF J, H
    <2> QED
      BY <2>3, SelectedHolds
  <1> HIDE DEF held
  <1>6. Mapping!ToSet(names) = {c.name : c \in H}
    BY <1>5 DEF Mapping!ToSet
  <1>7. DOMAIN names = 1 .. Len(held) /\ Len(held) \in Nat
    BY <1>5
  <1> HIDE DEF names
  <1> QED
    BY <1>2, <1>6, <1>7, DistinctIs

\* The trailer, among those there are.
LEMMA TrailerIs ==
  ASSUME NEW a, a \in Seq(Mapping!ToSet(a))
  PROVE  LET videos  == {v \in Mapping!ToSet(a) : v.site = "youtube" /\ v.key # None}
             trailer == Mapping!PickTrailer(a)
         IN  IF videos = {} THEN trailer = None
             ELSE /\ trailer \in videos
                  /\ \A v \in videos : Mapping!Merit(v) <= Mapping!Merit(trailer)
  <1> DEFINE I == {i \in DOMAIN a : a[i].key # None}
             parsed == Mapping!Selected(a, I)
             J == {i \in DOMAIN parsed : parsed[i].site = "youtube"}
             youtube == Mapping!Selected(parsed, J)
             K == {i \in DOMAIN youtube : youtube[i].type = "Trailer"}
             trailers == Mapping!Selected(youtube, K)
             L == {i \in DOMAIN trailers : trailers[i].official}
             official == Mapping!Selected(trailers, L)
             M == {i \in DOMAIN youtube : youtube[i].type = "Teaser"}
             teasers == Mapping!Selected(youtube, M)
             found == official \o trailers \o teasers \o youtube
             videos == {v \in Mapping!ToSet(a) : v.site = "youtube" /\ v.key # None}
  <1>1. Mapping!PickTrailer(a) = IF found = <<>> THEN None ELSE found[1]
    BY DEF Mapping!PickTrailer, Mapping!ParseTolerantArray, Mapping!VideoParses, Mapping!Filter
  <1>2. /\ Mapping!ToSet(parsed) = {v \in Mapping!ToSet(a) : v.key # None}
        /\ DOMAIN parsed = 1 .. Len(parsed) /\ Len(parsed) \in Nat
    <2>1. I \in SUBSET (1 .. Len(a)) /\ Len(a) \in Nat
      OBVIOUS
    <2> DEFINE T == {v \in Mapping!ToSet(a) : v.key # None}
    <2>2. I \in SUBSET Int /\ IsFiniteSet(I)
      BY <2>1, PositionsAre
    <2>3. Hold(a, I, T)
      BY <2>2 DEF Mapping!ToSet, Hold
    <2> HIDE DEF I, T
    <2>4. Mapping!ToSet(parsed) = T /\ DOMAIN parsed = 1 .. Len(parsed) /\ Len(parsed) \in Nat
      BY <2>3, SelectedHolds
    <2> QED
      BY <2>4 DEF T
  <1> HIDE DEF parsed
  <1>3. /\ Mapping!ToSet(youtube) = videos /\ youtube \in Seq(videos)
        /\ DOMAIN youtube = 1 .. Len(youtube) /\ Len(youtube) \in Nat
    <2>1. J \in SUBSET (1 .. Len(parsed))
      BY <1>2
    <2>2. Hold(parsed, J, videos)
      <3>1. J \in SUBSET Int /\ IsFiniteSet(J)
        BY <1>2, <2>1, PositionsAre
      <3> QED
        BY <1>2, <3>1 DEF Mapping!ToSet, Hold
    <2> HIDE DEF J, videos
    <2> QED
      BY <2>2, SelectedHolds
  <1> HIDE DEF youtube
  <1>4. /\ Mapping!ToSet(trailers) = {v \in videos : v.type = "Trailer"}
        /\ trailers \in Seq(videos)
        /\ DOMAIN trailers = 1 .. Len(trailers) /\ Len(trailers) \in Nat
    <2> DEFINE T == {v \in videos : v.type = "Trailer"}
    <2>1. K \in SUBSET (1 .. Len(youtube))
      BY <1>3
    <2>2. Hold(youtube, K, T)
      <3>1. K \in SUBSET Int /\ IsFiniteSet(K)
        BY <1>3, <2>1, PositionsAre
      <3> QED
        BY <1>3, <3>1 DEF Mapping!ToSet, Hold
    <2>3. T \subseteq videos
      OBVIOUS
    <2> HIDE DEF K, videos, T
    <2>4. Mapping!ToSet(trailers) = T /\ trailers \in Seq(T)
          /\ DOMAIN trailers = 1 .. Len(trailers) /\ Len(trailers) \in Nat
      BY <2>2, SelectedHolds
    <2>5. trailers \in Seq(videos)
      BY <2>3, <2>4
    <2> QED
      BY <2>4, <2>5 DEF T
  <1>5. /\ Mapping!ToSet(teasers) = {v \in videos : v.type = "Teaser"}
        /\ teasers \in Seq(videos)
    <2> DEFINE T == {v \in videos : v.type = "Teaser"}
    <2>1. M \in SUBSET (1 .. Len(youtube))
      BY <1>3
    <2>2. Hold(youtube, M, T)
      <3>1. M \in SUBSET Int /\ IsFiniteSet(M)
        BY <1>3, <2>1, PositionsAre
      <3> QED
        BY <1>3, <3>1 DEF Mapping!ToSet, Hold
    <2>3. T \subseteq videos
      OBVIOUS
    <2> HIDE DEF M, videos, T
    <2>4. Mapping!ToSet(teasers) = T /\ teasers \in Seq(T)
      BY <2>2, SelectedHolds
    <2>5. teasers \in Seq(videos)
      BY <2>3, <2>4
    <2> QED
      BY <2>4, <2>5 DEF T
  <1> HIDE DEF trailers
  <1>6. /\ Mapping!ToSet(official) = {v \in videos : v.type = "Trailer" /\ v.official}
        /\ official \in Seq(videos)
    <2> DEFINE T == {v \in videos : v.type = "Trailer" /\ v.official}
    <2>1. L \in SUBSET (1 .. Len(trailers))
      BY <1>4
    <2>2. Hold(trailers, L, T)
      <3>1. L \in SUBSET Int /\ IsFiniteSet(L)
        BY <1>4, <2>1, PositionsAre
      <3> QED
        BY <1>4, <3>1 DEF Mapping!ToSet, Hold
    <2>3. T \subseteq videos
      OBVIOUS
    <2> HIDE DEF L, videos, T
    <2>4. Mapping!ToSet(official) = T /\ official \in Seq(T)
      BY <2>2, SelectedHolds
    <2>5. official \in Seq(videos)
      BY <2>3, <2>4
    <2> QED
      BY <2>4, <2>5 DEF T
  <1> HIDE DEF official, teasers, videos
  <1>7. /\ official # <<>> => found # <<>> /\ found[1] = official[1]
        /\ official = <<>> /\ trailers # <<>> => found # <<>> /\ found[1] = trailers[1]
        /\ official = <<>> /\ trailers = <<>> /\ teasers # <<>>
             => found # <<>> /\ found[1] = teasers[1]
        /\ official = <<>> /\ trailers = <<>> /\ teasers = <<>> => found = youtube
    <2>1. PICK two : two = official \o trailers
      OBVIOUS
    <2>2. PICK three : three = two \o teasers
      OBVIOUS
    <2>3. found = three \o youtube
      BY <2>1, <2>2
    <2> HIDE DEF found
    <2>4. /\ official \in Seq(videos) /\ trailers \in Seq(videos)
          /\ teasers \in Seq(videos) /\ youtube \in Seq(videos)
      BY <1>3, <1>4, <1>5, <1>6
    <2>5. /\ two \in Seq(videos)
          /\ official # <<>> => two # <<>> /\ two[1] = official[1]
          /\ official = <<>> => two = trailers
      BY <2>1, <2>4, JoinedIs
    <2>6. /\ three \in Seq(videos)
          /\ two # <<>> => three # <<>> /\ three[1] = two[1]
          /\ two = <<>> => three = teasers
      BY <2>2, <2>5, <2>4, JoinedIs
    <2>7. /\ three # <<>> => found # <<>> /\ found[1] = three[1]
          /\ three = <<>> => found = youtube
      BY <2>3, <2>6, <2>4, JoinedIs
    <2> QED
      BY <2>5, <2>6, <2>7
  <1> HIDE DEF found
  <1>8. /\ official # <<>> => official[1] \in Mapping!ToSet(official)
        /\ trailers # <<>> => trailers[1] \in Mapping!ToSet(trailers)
        /\ teasers # <<>> => teasers[1] \in Mapping!ToSet(teasers)
        /\ youtube # <<>> => youtube[1] \in Mapping!ToSet(youtube)
    BY <1>3, <1>4, <1>5, <1>6, HeadIsIn
  <1>9. \A s : s = <<>> => Mapping!ToSet(s) = {}
    BY DEF Mapping!ToSet
  <1>10. CASE videos = {}
    <2>1. official = <<>> /\ trailers = <<>> /\ teasers = <<>> /\ youtube = <<>>
      BY <1>3, <1>4, <1>5, <1>6, <1>8, <1>10
    <2> QED
      BY <1>1, <1>7, <1>10, <2>1 DEF videos
  <1>11. CASE videos # {}
    <2>1. youtube # <<>>
      BY <1>3, <1>9, <1>11
    <2>2. found # <<>> /\ found[1] \in videos
      BY <1>3, <1>4, <1>5, <1>6, <1>7, <1>8, <2>1
    <2>3. ASSUME NEW v \in videos PROVE Mapping!Merit(v) <= Mapping!Merit(found[1])
      BY <1>3, <1>4, <1>5, <1>6, <1>7, <1>8, <1>9, <2>1, <2>2, <2>3 DEF Mapping!Merit
    <2> QED
      BY <1>1, <1>11, <2>2, <2>3 DEF videos
  <1> QED
    BY <1>10, <1>11 DEF videos

\* No votes are no rating.
LEMMA RatingIs ==
  ASSUME NEW f, Mapping!IsFilm(f), NEW names
  PROVE  Shown(f, names).rating = None <=> ~Mapping!Rated(f)
  <1>1. f.average \in Number /\ f.votes \in Number
    BY DEF Mapping!IsFilm, Number, Mapping!Number
  <1>2. Shown(f, names).rating = Mapping!ToRating(f.average, Mapping!NumberOr(0, f.votes))
    BY ShownFields
  <1>3. Mapping!NumberOr(0, f.votes) = 0 <=> f.votes \in {None, 0}
    BY DEF Mapping!NumberOr
  <1>4. f.average # None => (f.average + 5) \div 10 # None
    BY <1>1, Constants DEF Number
  <1>5. f.average # None => (f.average > 0 <=> ~(f.average <= 0))
    BY <1>1 DEF Number
  <1> QED
    BY <1>2, <1>3, <1>4, <1>5 DEF Mapping!ToRating, Mapping!Rated

\* A record's own genres.
LEMMA GenresAre ==
  ASSUME NEW v, Mapping!IsArray(v)
  PROVE  LET own   == Mapping!GenreObjectArray(v)
             named == {g \in Mapping!Given(v) : g.id # None /\ g.name # None}
         IN  /\ own = <<>> <=> named = {}
             /\ Mapping!GenresParse(v) <=> \A g \in named : g.id # Misfit
             /\ Mapping!ToSet(Mapping!Mapped(own, LAMBDA g : g.name)) = {g.name : g \in named}
  <1> DEFINE a == Mapping!UnknownArrayOrEmpty(v)
             I == {i \in DOMAIN a : a[i].id # None /\ a[i].name # None}
             own == Mapping!Selected(a, I)
             names == [i \in DOMAIN own |-> own[i].name]
             named == {g \in Mapping!Given(v) : g.id # None /\ g.name # None}
  <1>1. /\ Mapping!GenreObjectArray(v) = own
        /\ Mapping!Mapped(own, LAMBDA g : g.name) = names
    BY DEF Mapping!GenreObjectArray, Mapping!Filter, Mapping!Mapped
  <1>2. /\ a \in Seq(Mapping!ToSet(a)) /\ DOMAIN a = 1 .. Len(a) /\ Len(a) \in Nat
        /\ Mapping!ToSet(a) = Mapping!Given(v)
    BY ArrayIs
  <1> HIDE DEF a
  <1>3. Hold(a, I, named)
    <2>1. I \in SUBSET (1 .. Len(a))
      BY <1>2
    <2>2. I \in SUBSET Int /\ IsFiniteSet(I)
      BY <1>2, <2>1, PositionsAre
    <2> QED
      BY <1>2, <2>2 DEF Mapping!ToSet, Hold
  <1> HIDE DEF I, named
  <1>4. Mapping!ToSet(own) = named /\ (own = <<>> <=> named = {})
    BY <1>3, SelectedHolds
  <1> HIDE DEF own
  <1>6. Mapping!GenresParse(v) <=> \A g \in named : g.id # Misfit
    BY <1>1, <1>4 DEF Mapping!GenresParse
  <1>5. Mapping!ToSet(names) = {g.name : g \in named}
    BY <1>4 DEF Mapping!ToSet
  <1> QED
    BY <1>1, <1>4, <1>5, <1>6 DEF named

\* The parts of a detail.
LEMMA DetailIs ==
  ASSUME NEW raw, NEW names
  PROVE  LET d   == Mapping!MapMovieDetail(raw, names)
             own == Mapping!GenreObjectArray(raw.genres)
         IN  /\ d.cast = Mapping!MapCast(Mapping!UnknownArrayOrEmpty(Mapping!Credits(raw).cast))
             /\ d.trailer = Mapping!PickTrailer(Mapping!UnknownArrayOrEmpty(raw.videos))
             /\ d.directors = Mapping!NamesForJobs(
                              Mapping!UnknownArrayOrEmpty(Mapping!Credits(raw).crew), {"Director"})
             /\ d.base.rating = Shown(raw.summary, names).rating
             /\ own # <<>> => d.base.genres = Mapping!Mapped(own, LAMBDA g : g.name)
  <1> DEFINE detail == Mapping!Detail(raw)
             base == Shown(raw.summary, names)
             own == Mapping!GenreObjectArray(raw.genres)
             listed == [base EXCEPT !.genres   = Mapping!Mapped(own, LAMBDA g : g.name),
                                    !.genreIds = Mapping!Mapped(own, LAMBDA g : g.id)]
             d == Mapping!MapMovieDetail(raw, names)
  <1>2. /\ detail.summary = Mapping!Summary(raw.summary)
        /\ detail.genres = own
        /\ detail.cast = Mapping!UnknownArrayOrEmpty(Mapping!Credits(raw).cast)
        /\ detail.crew = Mapping!UnknownArrayOrEmpty(Mapping!Credits(raw).crew)
        /\ detail.videos = Mapping!UnknownArrayOrEmpty(raw.videos)
    BY DEF Mapping!Detail
  <1> HIDE DEF detail, own
  <1>3. /\ d.cast = Mapping!MapCast(detail.cast)
        /\ d.trailer = Mapping!PickTrailer(detail.videos)
        /\ d.directors = Mapping!NamesForJobs(detail.crew, {"Director"})
        /\ d.base = IF own = <<>> THEN base ELSE listed
    BY <1>2 DEF Mapping!MapMovieDetail, Shown, detail
  <1>4. /\ listed.rating = base.rating
        /\ listed.genres = Mapping!Mapped(own, LAMBDA g : g.name)
    BY DEF Shown, Mapping!MapMovieSummary
  <1> HIDE DEF d, base, listed
  <1>5. d.base.rating = base.rating /\ (own # <<>> => d.base.genres = listed.genres)
    BY <1>3, <1>4
  <1> QED
    BY <1>2, <1>3, <1>4, <1>5 DEF d, base, own

\* What DetailIsFaithful says of a detail d mapped from raw.
Sent(raw) == IF raw.credits = None THEN [cast |-> None, crew |-> None] ELSE raw.credits
Faithful(raw, d) ==
  LET own    == {g \in Mapping!Given(raw.genres) : g.id # None /\ g.name # None}
      cast   == Mapping!UnknownArrayOrEmpty(Sent(raw).cast)
      billed == {c \in Mapping!ToSet(cast) : c.id # None /\ c.name # None}
      videos == {v \in Mapping!Given(raw.videos) : v.site = "youtube" /\ v.key # None}
  IN  /\ Mapping!ToSet(d.cast) \subseteq billed
      /\ Len(d.cast) = Mapping!Min({TopBilled, Cardinality({i \in DOMAIN cast : cast[i] \in billed})})
      /\ \A i \in DOMAIN d.cast, c \in billed \ Mapping!ToSet(d.cast) :
           Mapping!NumberOr(999, d.cast[i].order) <= Mapping!NumberOr(999, c.order)
      /\ IF videos = {} THEN d.trailer = None
         ELSE /\ d.trailer \in videos
              /\ \A v \in videos : Mapping!Merit(v) <= Mapping!Merit(d.trailer)
      /\ Mapping!ToSet(d.directors) = {c.name : c \in {x \in Mapping!Given(Sent(raw).crew) :
                                         x.id # None /\ x.name # None /\ x.job = "Director"}}
      /\ Cardinality(Mapping!ToSet(d.directors)) = Len(d.directors)
      /\ own # {} => Mapping!ToSet(d.base.genres) = {g.name : g \in own}
      /\ (d.base.rating = None) <=> ~Mapping!Rated(raw.summary)

\* A detail parses unless it is unusable.
LEMMA ParsesUnlessUnusable ==
  ASSUME NEW raw \in RawDetails
  PROVE  Mapping!DetailParses(raw) <=> ~Mapping!Unusable(raw)
  <1> DEFINE named == {g \in Mapping!Given(raw.genres) : g.id # None /\ g.name # None}
  <1>1. Mapping!IsArray(raw.genres) /\ Misfit # None
    BY Constants DEF Mapping!IsDetail
  <1>2. Mapping!GenresParse(raw.genres) <=> \A g \in named : g.id # Misfit
    BY <1>1, GenresAre
  <1>3. Mapping!GenresParse(raw.genres)
          <=> ~\E g \in Mapping!Given(raw.genres) : g.id = Misfit /\ g.name # None
    BY <1>1, <1>2
  <1> QED
    BY <1>3 DEF Mapping!DetailParses, Mapping!SummaryParses, Mapping!Unusable

LEMMA DetailExact ==
  ASSUME NEW raw \in RawDetails, Mapping!DetailParses(raw), NEW names
  PROVE  Faithful(raw, Mapping!MapMovieDetail(raw, names))
  <1> DEFINE d == Mapping!MapMovieDetail(raw, names)
             cast == Mapping!UnknownArrayOrEmpty(Sent(raw).cast)
             crew == Mapping!UnknownArrayOrEmpty(Sent(raw).crew)
             vids == Mapping!UnknownArrayOrEmpty(raw.videos)
             billed == {c \in Mapping!ToSet(cast) : c.id # None /\ c.name # None}
             videos == {v \in Mapping!Given(raw.videos) : v.site = "youtube" /\ v.key # None}
             own == {g \in Mapping!Given(raw.genres) : g.id # None /\ g.name # None}
             held == {x \in Mapping!Given(Sent(raw).crew) :
                        x.id # None /\ x.name # None /\ x.job = "Director"}
  <1>1. Mapping!IsDetail(raw) /\ Mapping!Credits(raw) = Sent(raw)
    BY Constants DEF Mapping!Credits, Sent
  <1>2. /\ Mapping!IsFilm(raw.summary)
        /\ Mapping!IsArray(raw.genres) /\ Mapping!IsArray(Sent(raw).cast)
        /\ Mapping!IsArray(Sent(raw).crew) /\ Mapping!IsArray(raw.videos)
        /\ Sent(raw).cast # None => \A c \in Mapping!ToSet(Sent(raw).cast) : c.order \in Number
    <2>1. raw.credits # Misfit
      BY DEF Mapping!DetailParses
    <2>2. CASE raw.credits = None
      BY <1>1, <2>2 DEF Mapping!IsDetail, Sent, Mapping!IsArray
    <2>3. CASE Mapping!IsCredits(raw.credits) /\ raw.credits # None
      BY <1>1, <2>3 DEF Mapping!IsDetail, Mapping!IsCredits, Sent, Mapping!Number, Number
    <2> QED
      BY <1>1, <2>1, <2>2, <2>3 DEF Mapping!IsDetail
  <1>3. /\ cast \in Seq(Mapping!ToSet(cast)) /\ crew \in Seq(Mapping!ToSet(crew))
        /\ vids \in Seq(Mapping!ToSet(vids))
        /\ Mapping!ToSet(cast) = Mapping!Given(Sent(raw).cast)
        /\ Mapping!ToSet(crew) = Mapping!Given(Sent(raw).crew)
        /\ Mapping!ToSet(vids) = Mapping!Given(raw.videos)
    BY <1>2, ArrayIs
  <1>4. \A c \in Mapping!ToSet(cast) : c.order \in Number
    BY <1>2, <1>3 DEF Mapping!Given
  <1>5. /\ d.cast = Mapping!MapCast(cast)
        /\ d.trailer = Mapping!PickTrailer(vids)
        /\ d.directors = Mapping!NamesForJobs(crew, {"Director"})
        /\ d.base.rating = Shown(raw.summary, names).rating
        /\ Mapping!GenreObjectArray(raw.genres) # <<>> =>
             d.base.genres = Mapping!Mapped(Mapping!GenreObjectArray(raw.genres),
                                            LAMBDA g : g.name)
    BY <1>1, DetailIs
  <1> HIDE DEF d, cast, crew, vids
  <1>6. /\ Mapping!ToSet(d.cast) \subseteq billed
        /\ Len(d.cast) = Mapping!Min({TopBilled,
                                      Cardinality({i \in DOMAIN cast : cast[i] \in billed})})
        /\ \A i \in DOMAIN d.cast, c \in billed \ Mapping!ToSet(d.cast) :
             Mapping!NumberOr(999, d.cast[i].order) <= Mapping!NumberOr(999, c.order)
    <2>1. /\ Mapping!ToSet(Mapping!MapCast(cast)) \subseteq billed
          /\ Len(Mapping!MapCast(cast)) = Mapping!Min({TopBilled, Cardinality(Billing(cast))})
          /\ \A i \in DOMAIN Mapping!MapCast(cast),
                c \in billed \ Mapping!ToSet(Mapping!MapCast(cast)) :
               Order(Mapping!MapCast(cast)[i]) <= Order(c)
      BY <1>3, <1>4, CastIs
    <2>2. Billing(cast) = {i \in DOMAIN cast : cast[i] \in billed}
      BY DEF Billing, Mapping!ToSet
    <2>3. \A c : Order(c) = Mapping!NumberOr(999, c.order)
      BY DEF Order
    <2> HIDE DEF billed
    <2>4. /\ Mapping!ToSet(d.cast) \subseteq billed
          /\ Len(d.cast) = Mapping!Min({TopBilled, Cardinality(Billing(cast))})
          /\ \A i \in DOMAIN d.cast, c \in billed \ Mapping!ToSet(d.cast) :
               Order(d.cast[i]) <= Order(c)
      BY <1>5, <2>1
    <2> QED
      BY <2>2, <2>3, <2>4
  <1>7. IF videos = {} THEN d.trailer = None
        ELSE /\ d.trailer \in videos
             /\ \A v \in videos : Mapping!Merit(v) <= Mapping!Merit(d.trailer)
    BY <1>3, <1>5, TrailerIs
  <1>8. /\ Mapping!ToSet(d.directors) = {c.name : c \in held}
        /\ Cardinality(Mapping!ToSet(d.directors)) = Len(d.directors)
    <2>1. held = {x \in Mapping!ToSet(crew) :
                    x.id # None /\ x.name # None /\ x.job \in {"Director"}}
      BY <1>3
    <2> HIDE DEF held
    <2>2. /\ Mapping!ToSet(Mapping!NamesForJobs(crew, {"Director"})) = {c.name : c \in held}
          /\ Cardinality(Mapping!ToSet(Mapping!NamesForJobs(crew, {"Director"})))
               = Len(Mapping!NamesForJobs(crew, {"Director"}))
      BY <1>3, <2>1, NamesAre
    <2> QED
      BY <1>5, <2>2
  <1>9. own # {} => Mapping!ToSet(d.base.genres) = {g.name : g \in own}
    BY <1>2, <1>5, GenresAre
  <1>10. (d.base.rating = None) <=> ~Mapping!Rated(raw.summary)
    BY <1>2, <1>5, RatingIs
  <1> QED
    BY <1>6, <1>7, <1>8, <1>9, <1>10 DEF Faithful, d, cast

-----------------------------------------------------------------------------
(* Answers.                                                                *)

\* What was served is the answer to what it was made from.
ServedIsAnswer ==
  /\ served # None /\ "page" \in DOMAIN served =>
       /\ served.p \in Queries /\ served.raw \in RawPages
       /\ served.page = Mapping!BrowseMovies(served.p, served.raw, served.names)
  /\ served # None /\ "detail" \in DOMAIN served =>
       /\ served.raw \in RawDetails /\ Mapping!DetailParses(served.raw)
       /\ \E names : served.detail = Mapping!MapMovieDetail(served.raw, names)
  /\ served # None /\ "error" \in DOMAIN served =>
       served.raw \in RawDetails /\ ~Mapping!DetailParses(served.raw)

LEMMA ServingAnswers == ServedIsAnswer /\ [Mapping!Serving]_served => ServedIsAnswer'
  <1> SUFFICES ASSUME ServedIsAnswer, [Mapping!Serving]_served PROVE ServedIsAnswer'
    OBVIOUS
  <1>1. CASE Mapping!AnswerBrowse
    <2>1. PICK p \in Queries, raw \in RawPages, names \in NameMaps :
            served' = [p |-> p, raw |-> raw, names |-> names,
                       page |-> Mapping!BrowseMovies(p, raw, names)]
      BY <1>1 DEF Mapping!AnswerBrowse
    <2>2. "detail" \notin DOMAIN served' /\ "error" \notin DOMAIN served'
      BY <2>1
    <2> QED
      BY <2>1, <2>2 DEF ServedIsAnswer
  <1>2. CASE Mapping!AnswerDetail
    <2>1. PICK raw \in RawDetails, names \in NameMaps :
            /\ Mapping!DetailParses(raw)
            /\ served' = [raw |-> raw, detail |-> Mapping!MapMovieDetail(raw, names)]
      BY <1>2 DEF Mapping!AnswerDetail
    <2>2. "page" \notin DOMAIN served' /\ "error" \notin DOMAIN served'
      BY <2>1
    <2> QED
      BY <2>1, <2>2 DEF ServedIsAnswer
  <1>3. CASE Mapping!RefuseDetail
    <2>1. PICK raw \in RawDetails :
            ~Mapping!DetailParses(raw) /\ served' = [raw |-> raw, error |-> TRUE]
      BY <1>3 DEF Mapping!RefuseDetail
    <2>2. "page" \notin DOMAIN served' /\ "detail" \notin DOMAIN served'
      BY <2>1
    <2> QED
      BY <2>1, <2>2 DEF ServedIsAnswer
  <1>4. CASE UNCHANGED served
    BY <1>4 DEF ServedIsAnswer
  <1> QED
    BY <1>1, <1>2, <1>3, <1>4 DEF Mapping!Serving

LEMMA ServedAlways == MappingSpec => []ServedIsAnswer
  <1>1. served = None => ServedIsAnswer
    BY DEF ServedIsAnswer
  <1> QED
    BY <1>1, ServingAnswers, PTL DEF MappingSpec

LEMMA ServedSeparates == ServedIsAnswer => KeysSeparateQuestions
  <1> SUFFICES ASSUME ServedIsAnswer, served # None, "page" \in DOMAIN served,
                      NEW q \in Queries,
                      Mapping!BrowseCacheKey(Mapping!Clamped(q)) = served.page.key
               PROVE  Mapping!BrowseMovies(q, served.raw, served.names) = served.page
    BY DEF KeysSeparateQuestions, Mapping!KeysSeparateQuestions, Mapping!ServedPage
  <1>1. /\ served.p \in Queries
        /\ served.page = Mapping!BrowseMovies(served.p, served.raw, served.names)
    BY DEF ServedIsAnswer
  <1>2. served.page.key = Mapping!BrowseCacheKey(Mapping!Clamped(served.p))
    <2> DEFINE page(p, raw, names) == Mapping!BrowseMovies(p, raw, names)
    <2>1. \A p, raw, names : page(p, raw, names).key = Mapping!BrowseCacheKey(Mapping!Clamped(p))
      BY DEF Mapping!BrowseMovies
    <2> QED
      BY <1>1, <2>1
  <1> QED
    BY <1>1, <1>2, KeyDecides

\* Whatever the filters, however many genres in whichever order, and whatever TMDB
\* sends: requests with one key in the cache ask TMDB the same question and are due
\* the same answer.
THEOREM KeysSeparateQuestionsHolds == MappingSpec => []KeysSeparateQuestions
  BY ServedAlways, ServedSeparates, PTL

LEMMA ServedSearchIsExact == ServedIsAnswer => SearchIsExact
  <1> SUFFICES ASSUME ServedIsAnswer, served # None, "page" \in DOMAIN served,
                      Mapping!IsSearch(served.p)
               PROVE  SearchIsExact
    BY DEF SearchIsExact, Mapping!SearchIsExact, Mapping!ServedPage
  <1> DEFINE p     == served.p
             raws  == Mapping!Page(served.raw).results
             items == served.page.items
             page  == Mapping!FetchSearchPage(Mapping!ToSet(p.genreIds), p.minRating, p.sort,
                                              served.raw, served.names)
  <1>1. /\ p \in Queries /\ served.raw \in RawPages
        /\ served.page = Mapping!BrowseMovies(p, served.raw, served.names)
    BY DEF ServedIsAnswer
  <1>2. items = page
    <2> DEFINE of(q, raw, names) == Mapping!BrowseMovies(q, raw, names)
    <2>1. \A q, raw, names : Mapping!IsSearch(q) =>
            of(q, raw, names).items = Mapping!FetchSearchPage(Mapping!ToSet(q.genreIds),
                                                              q.minRating, q.sort, raw, names)
      BY DEF Mapping!BrowseMovies
    <2> QED
      BY <1>1, <2>1
  <1>3. PICK at : IsListing(items, at, AllShown(raws, served.names), WantedOf(p, raws),
                            Stable(SortOrder(p.sort, AllShown(raws, served.names),
                                             WantedOf(p, raws)), WantedOf(p, raws)))
    BY <1>1, <1>2, SearchPageIs
  <1>4. Exact(p, served.raw, items, at)
    <2> HIDE DEF p, items
    <2> QED
      BY <1>1, <1>3, ListedIsExact
  <1> QED
    BY <1>4 DEF Exact, SearchIsExact, Mapping!SearchIsExact

\* Whatever TMDB sends, however much of it is malformed, and whatever is asked: a
\* search page lists exactly the films that satisfy the filters, by what their records
\* say of title, year of release, rating to a tenth or counts, with what is unknown
\* last and ties as TMDB had them.
THEOREM SearchIsExactHolds == MappingSpec => []SearchIsExact
  BY ServedAlways, ServedSearchIsExact, PTL

LEMMA ServedDetailIsFaithful == ServedIsAnswer => DetailIsFaithful
  <1> SUFFICES ASSUME ServedIsAnswer PROVE DetailIsFaithful
    OBVIOUS
  <1>1. Mapping!RefusedDetail => Mapping!Unusable(served.raw)
    BY ParsesUnlessUnusable DEF ServedIsAnswer, Mapping!RefusedDetail
  <1>2. Mapping!ServedDetail => ~Mapping!Unusable(served.raw) /\ Faithful(served.raw, served.detail)
    BY DetailExact, ParsesUnlessUnusable DEF ServedIsAnswer, Mapping!ServedDetail
  <1> QED
    BY <1>1, <1>2, SameCardinality DEF DetailIsFaithful, Mapping!DetailIsFaithful, Faithful, Sent

\* A detail of TMDB is refused exactly when its id or title is missing, a genre has a
\* name and a fraction for an id, or its credits are an array; of any other, what is
\* shown is the best of what is there, and nothing that is not.
THEOREM DetailIsFaithfulHolds == MappingSpec => []DetailIsFaithful
  BY ServedAlways, ServedDetailIsFaithful, PTL
=============================================================================
