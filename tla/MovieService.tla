---------------------------- MODULE MovieService ----------------------------
(***************************************************************************)
(* services/movieService.ts behind routes/movies.ts: genres, lists of      *)
(* films and details of one film, each behind a key of the cache.  The     *)
(* cache is what CacheContract promises of it.  A loader of these pages    *)
(* needs the genres first and is therefore a caller of the cache itself;   *)
(* a detail that TMDB does not know is cached as not found.  On the way    *)
(* out, Cache-Control lets the browser show an answer again.               *)
(***************************************************************************)
EXTENDS Naturals

CONSTANTS Instances,      \* server processes
          Genres,         \* the key of the genre list
          Lists,          \* keys of browse and search pages
          Details,        \* keys of films
          Requests,       \* concurrent requests of browsers
          Ttl,            \* Ttl[k], StaleFor[k]: CACHE_POLICY by key
          StaleFor,
          MaxAge,         \* MaxAge[k]: max-age of the answers for k
          Swr,            \* their stale-while-revalidate
          NotFoundFor,    \* CACHE_POLICY.notFound: its two windows together
          MaxTime,        \* bound on the clock
          None

Pages == Lists \cup Details
Keys  == {Genres} \cup Pages
Loads == Instances \X Keys

ASSUME MovieServiceAssumption ==
  /\ Genres \notin Pages
  /\ None \notin Loads
  /\ Requests \cap Loads = {}
  /\ Ttl \in [Keys -> Nat \ {0}]
  /\ StaleFor \in [Keys -> Nat]
  /\ MaxAge \in [Keys -> Nat]
  /\ Swr \in Nat
  /\ MaxTime \in Nat

VARIABLES now, pending, fetching, answer,   \* of the cache
          step,      \* step[f]: where the fetch f is
          loaded,    \* loaded[k]: what the latest load of k returned, while it may be
                     \* served; empty if nothing
          reply      \* the reply of this step to a browser, or an earlier one
                     \* while the browser may show it again, or None

cacheVars == <<now, pending, fetching, answer>>
vars      == <<cacheVars, step, loaded, reply>>

C == INSTANCE CacheContract WITH Callers <- Requests \cup (Instances \X Pages)

\* A fetch looks into the shared table, may wait for the genres and then asks
\* TMDB, with or without names for the genres.
Steps == {"none", "reading", "genres", "named", "unnamed"}

\* What a loader returned, and when; a film may not exist.
Value == [at : 0 .. MaxTime, found : BOOLEAN]

TypeOK ==
  /\ now \in 0 .. MaxTime
  /\ fetching \subseteq Loads
  /\ \A c \in Requests \cup (Instances \X Pages) : pending[c] \in Loads \cup {None}
  /\ step \in [Loads -> Steps]
  /\ \A k \in Keys : loaded[k] \subseteq Value

Init ==
  /\ C!Init
  /\ step = [f \in Loads |-> "none"]
  /\ loaded = [k \in Keys |-> {}]
  /\ reply = None

-----------------------------------------------------------------------------
(* Replies.                                                                *)

ToApiError(error) ==
  CASE error = "notFound"    -> 404
    [] error = "unavailable" -> 503
    [] error = "invalid"     -> 502
    [] error = "unreadable"  -> 500

\* Mutant: old data may be shown again, too.
ShownUntilWhateverAge(k) == now + MaxAge[k] + Swr

\* applyCacheHeaders: until when the browser may show the cache's answer again;
\* of old data it has to ask first.
ApplyCacheHeaders(k) == IF answer'.stale THEN None ELSE now + MaxAge[k] + Swr

\* The cache answered with the value v: the film, the list, or that there is
\* no such film.  An error carries no headers.
ReplyValue(k, v) ==
  /\ v.at = answer'.payload
  /\ reply' = [key |-> k, at |-> v.at, status |-> IF v.found THEN 200 ELSE 404,
               until |-> IF v.found THEN ApplyCacheHeaders(k) ELSE None]

ReplyError(k, error) ==
  reply' = [key |-> k, at |-> now, status |-> ToApiError(error), until |-> None]

\* No reply: the browser has what it may show again.
Showing == reply' = IF reply # None /\ reply.until # None THEN reply ELSE None

-----------------------------------------------------------------------------
(* Requests.                                                               *)

\* Fetches that this step begins start by reading the shared table.
Begun(of) == [f \in Loads |-> IF f \in fetching' \ fetching THEN "reading" ELSE of[f]]

\* A request that the cache answers at once, or
RequestServed(i, k) ==
  /\ C!Serve(i, k)
  /\ \E v \in loaded[k] : ReplyValue(k, v)
  /\ step' = Begun(step)
  /\ UNCHANGED loaded

\* has wait for a fetch.
RequestWaits(c, i, k) ==
  /\ C!Wait(c, i, k)
  /\ step' = Begun(step)
  /\ Showing
  /\ UNCHANGED loaded

-----------------------------------------------------------------------------
(* The beginning of a loader: getGenreMap, itself a request of the cache.  *)

GenresServed(i, k) ==
  /\ k \in Pages /\ step[<<i, k>>] = "reading"
  /\ C!Serve(i, Genres)
  /\ \E v \in loaded[Genres] : v.at = answer'.payload
  /\ step' = Begun([step EXCEPT ![<<i, k>>] = "named"])
  /\ Showing
  /\ UNCHANGED loaded

GenresAwaited(i, k) ==
  /\ k \in Pages /\ step[<<i, k>>] = "reading"
  /\ C!Wait(<<i, k>>, i, Genres)
  /\ step' = Begun([step EXCEPT ![<<i, k>>] = "genres"])
  /\ Showing
  /\ UNCHANGED loaded

-----------------------------------------------------------------------------
(* The end of a fetch.                                                     *)

\* Mutant: a page without names is not worth having; ask for genres again.
GenreMapOrRetry == IF answer'.failed THEN "reading" ELSE "named"

\* getGenreMap once the genres have ended: without them, no names.
GenreMap == IF answer'.failed THEN "unnamed" ELSE "named"

\* Fetch f ends: with one of values, or with an older one or the error.  What
\* waits for it goes on, requests and, when it is the genres, loaders.
End(f, values, error) ==
  /\ C!Complete(f[1], f[2])
  /\ answer' = None => Showing
  /\ answer' # None =>
       LET requested == \E c \in Requests : pending[c] = f
       IN  IF answer'.failed
           THEN error # None /\ (IF requested THEN ReplyError(f[2], error) ELSE Showing)
           ELSE /\ answer'.stale <=> error # None
                /\ \E v \in values : v.at = answer'.payload
                                     /\ (IF requested THEN ReplyValue(f[2], v) ELSE Showing)
  /\ step' = [g \in Loads |-> IF g = f THEN "none"
                              ELSE IF step[g] = "genres" /\ pending[g] = f THEN GenreMap
                              ELSE step[g]]

\* Another process has put fresh data into the shared table.
FoundInTable(i, k) ==
  LET fresh == {v \in loaded[k] : now < v.at + Ttl[k]}
  IN  /\ step[<<i, k>>] = "reading"
      /\ fresh # {}
      /\ End(<<i, k>>, fresh, None)
      /\ UNCHANGED loaded

\* The genres need nothing first; a page needs the genres to be done with.
AtTmdb(i, k) == step[<<i, k>>] \in (IF k = Genres THEN {"reading"} ELSE {"named", "unnamed"})

\* TMDB answers; of a film, that there is none is an answer.
LoaderReturns(i, k) ==
  /\ AtTmdb(i, k)
  /\ \E found \in (IF k \in Details THEN BOOLEAN ELSE {TRUE}) :
       LET v == [at |-> now, found |-> found]
       IN  /\ loaded' = [loaded EXCEPT ![k] = {v}]
           /\ End(<<i, k>>, {v}, None)

\* The call to TMDB fails, or its answer is no JSON or cannot be parsed.
LoaderFails(i, k) ==
  /\ AtTmdb(i, k)
  /\ \E error \in {"unavailable", "invalid", "unreadable"}
                 \cup (IF k \in Details THEN {} ELSE {"notFound"}) :
       End(<<i, k>>, loaded[k], error)
  /\ UNCHANGED loaded

-----------------------------------------------------------------------------
\* Time passes; what no policy allows any more is forgotten, by the browser too.
Tick ==
  /\ now < MaxTime
  /\ C!Quiet /\ now' = now + 1
  /\ loaded' = [k \in Keys |-> {v \in loaded[k] : now' <= v.at + Ttl[k] + StaleFor[k]}]
  /\ reply' = IF reply # None /\ reply.until # None /\ now' <= reply.until THEN reply ELSE None
  /\ UNCHANGED step

Restart(i) ==
  /\ C!Restart(i)
  /\ step' = [f \in Loads |-> IF f[1] = i THEN "none" ELSE step[f]]
  /\ Showing
  /\ UNCHANGED loaded

Fetching(i, k) ==
  \/ FoundInTable(i, k) \/ LoaderReturns(i, k) \/ LoaderFails(i, k)
  \/ GenresServed(i, k) \/ GenresAwaited(i, k)

Next ==
  \/ Tick
  \/ \E i \in Instances : Restart(i)
  \/ \E i \in Instances, k \in Keys :
       \/ Fetching(i, k)
       \/ RequestServed(i, k)
       \/ \E c \in Requests : RequestWaits(c, i, k)

\* Every await of a fetch ends: the table and TMDB answer or time out.
Fairness == \A i \in Instances, k \in Keys : WF_vars(Fetching(i, k))

Spec == Init /\ [][Next]_vars /\ Fairness

-----------------------------------------------------------------------------
(* Properties.                                                             *)

\* Through all caches, that of the browser included, nobody is shown data older
\* than the time to live and the two windows of Cache-Control together: old
\* data that the server falls back to are not kept on the way.
BrowserShowsRecent ==
  reply # None /\ reply.until # None =>
    now < reply.at + Ttl[reply.key] + MaxAge[reply.key] + Swr

\* Whoever waits for a page gets an answer, although its loader waits for a
\* second fetch of the same cache, which several loaders share and which may
\* fail each time.
EveryRequestIsAnswered ==
  \A c \in Requests : (pending[c] # None) ~> (pending[c] = None)

\* No wait is lost and none is part of a cycle: whoever waits, waits for a fetch
\* that is under way; a loader waits for nothing but the genres of its own
\* process, and is told when they end; and the fetch of the genres waits for none.
WaitsEnd ==
  /\ \A c \in Requests \cup (Instances \X Pages) : pending[c] # None => pending[c] \in fetching
  /\ \A f \in Loads : f \in fetching <=> step[f] # "none"
  /\ \A f \in Instances \X Pages :
       IF step[f] = "genres" THEN pending[f] = <<f[1], Genres>> ELSE pending[f] = None
  /\ \A i \in Instances : step[<<i, Genres>>] \in {"none", "reading"}

\* The inductive invariant behind BrowserShowsRecent (MoviesProofs): what the
\* browser may show again was young enough when it was sent.
RepliesExpire ==
  reply # None /\ reply.until # None =>
    /\ reply.key \in Keys /\ reply.at \in Nat /\ reply.until \in Nat
    /\ now <= reply.until
    /\ reply.until < reply.at + Ttl[reply.key] + MaxAge[reply.key] + Swr

\* What the comment at CACHE_POLICY says of films that TMDB does not know: that
\* there is none is said for a short while only.
NotFoundIsBrief ==
  reply # None /\ reply.status = 404 => now <= reply.at + NotFoundFor
=============================================================================
