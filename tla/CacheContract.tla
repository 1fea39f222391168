--------------------------- MODULE CacheContract ---------------------------
(***************************************************************************)
(* What cache/index.ts promises the rest of the server, without its tiers: *)
(* a request for a key is answered at once or waits for the one fetch of   *)
(* that key its process is making; a fetch ends by answering every request *)
(* that waits for it; fresh data is younger than the key's time to live    *)
(* and stale data no older than the windows the policy grants.  Cache.tla  *)
(* implements it with an LRU map, a table and shared promises.             *)
(***************************************************************************)
EXTENDS Naturals

CONSTANTS Instances,   \* server processes
          Keys,        \* cache keys
          Callers,     \* concurrent requests
          Ttl,         \* Ttl[k]: how long data of k is fresh
          StaleFor,    \* StaleFor[k]: how long after that it may be served
          MaxTime,     \* bound on the clock
          None

VARIABLES now,         \* the clock
          pending,     \* pending[c]: the fetch request c waits for, or None
          fetching,    \* the fetches under way
          answer       \* what this step answered, or None

vars == <<now, pending, fetching, answer>>

Fetch == Instances \X Keys

\* An answer the contract allows at time t: an error, recent fresh data, or
\* old data marked stale and inside the window.
Allowed(i, k, t) ==
  {[inst |-> i, key |-> k, failed |-> TRUE, stale |-> FALSE, payload |-> 0]}
  \cup {[inst |-> i, key |-> k, failed |-> FALSE, stale |-> FALSE, payload |-> p] :
          p \in {q \in 0..t : t < q + Ttl[k]}}
  \cup {[inst |-> i, key |-> k, failed |-> FALSE, stale |-> TRUE, payload |-> p] :
          p \in {q \in 0..t : q + Ttl[k] <= t /\ t <= q + Ttl[k] + StaleFor[k]}}

Init ==
  /\ now = 0
  /\ pending = [c \in Callers |-> None]
  /\ fetching = {}
  /\ answer = None

\* Answered at once with data; a fetch may begin behind the answer.
Serve(i, k) ==
  /\ answer' \in {a \in Allowed(i, k, now) : ~a.failed}
  /\ fetching' \in {fetching, fetching \cup {<<i, k>>}}
  /\ UNCHANGED <<now, pending>>

\* The request waits for the fetch of its key, which it begins when there is
\* none.
Wait(c, i, k) ==
  /\ pending[c] = None
  /\ pending' = [pending EXCEPT ![c] = <<i, k>>]
  /\ fetching' = fetching \cup {<<i, k>>}
  /\ answer' = None
  /\ UNCHANGED now

\* The fetch ends and all that waited for it are answered.
Complete(i, k) ==
  /\ <<i, k>> \in fetching
  /\ fetching' = fetching \ {<<i, k>>}
  /\ pending' = [c \in Callers |-> IF pending[c] = <<i, k>> THEN None ELSE pending[c]]
  /\ answer' \in IF \E c \in Callers : pending[c] = <<i, k>>
                 THEN Allowed(i, k, now) ELSE {None}
  /\ UNCHANGED now

\* A process goes away with its fetches and the requests it was serving.
Restart(i) ==
  /\ fetching' = {f \in fetching : f[1] # i}
  /\ pending' = [c \in Callers |->
                   IF pending[c] # None /\ pending[c][1] = i THEN None ELSE pending[c]]
  /\ answer' = None
  /\ UNCHANGED now

\* Nothing a request can see happens: the clock advances or the step only
\* forgets the last answer.
Quiet ==
  /\ now' \in {now, now + 1}
  /\ now' <= MaxTime
  /\ answer' = None
  /\ UNCHANGED <<pending, fetching>>

Next ==
  \/ Quiet
  \/ \E i \in Instances : Restart(i)
  \/ \E i \in Instances, k \in Keys :
       \/ Serve(i, k)
       \/ Complete(i, k)
       \/ \E c \in Callers : Wait(c, i, k)

\* A fetch under way ends, or its process does.
Ends(i, k) == Complete(i, k) \/ (<<i, k>> \in fetching /\ Restart(i))

Spec ==
  /\ Init /\ [][Next]_vars
  /\ \A i \in Instances, k \in Keys : WF_vars(Ends(i, k))
=============================================================================
