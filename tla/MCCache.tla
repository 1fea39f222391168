------------------------------- MODULE MCCache -------------------------------
(* Small instances of Cache.  The policies keep the proportions of          *)
(* CACHE_POLICY in movieService.ts: of a list, ttl < stale-while-revalidate *)
(* < stale-if-error = the default; of genres, ttl = the default             *)
(* < stale-if-error; of a detail, ttl < the default < stale-if-error.       *)
EXTENDS Cache, TLC

CONSTANTS listKey, otherKey, genresKey, detailKey

\* In units of the list's ttl, the windows of each policy and the horizon of
\* the LRU map and of the sweep.
MCTtl == [k \in Keys |-> IF k = genresKey THEN 3 ELSE 1]
MCSwr == [k \in Keys |-> IF k \in {listKey, otherKey} THEN 2 ELSE 0]
MCSie == [k \in Keys |-> IF k \in {listKey, otherKey} THEN 3 ELSE 4]
MCDefaultStaleIfError == 3

Processes == Permutations(Instances) \cup Permutations(Callers) \cup Permutations(Loads)
=============================================================================
