------------------------------ MODULE WebProofs -----------------------------
(***************************************************************************)
(* Proofs about the web client: for the search, that its two chained       *)
(* debounces fetch settled texts only and come to rest on what the URL     *)
(* says; for the wishlist, that overlapping toggles, fetches and changes   *)
(* of identity leave the cache with the right owner and the right films.   *)
(***************************************************************************)
EXTENDS Web, FiniteSetTheorems, TLAPS

-----------------------------------------------------------------------------
(* The search: types.                                                      *)

LEMMA BrowseConstants ==
  /\ Delay \in Nat \ {0}
  /\ None \notin Nat /\ None \notin Texts
  /\ Empty \in Browse!Trimmed /\ NoRest \in Rests
  /\ \A t \in Texts : Trim(t) \in Browse!Trimmed
  /\ Browse!Trimmed \subseteq Texts
  BY BrowseAssumption DEF Browse!BrowseClientAssumption, Browse!Trimmed

LEMMA UrlFields ==
  ASSUME NEW u \in Browse!Urls
  PROVE  /\ u.path \in {"browse", "elsewhere"}
         /\ u.q \in Browse!Trimmed /\ u.rest \in Rests
         /\ u.path # "browse" => u.q = Empty
  BY BrowseConstants DEF Browse!Urls

LEMMA BrowseInitTyped == Browse!Init => Browse!TypeOK
  <1> SUFFICES ASSUME Browse!Init PROVE Browse!TypeOK
    OBVIOUS
  <1>1. url \in Browse!Urls /\ url.q \in Browse!Trimmed
    BY UrlFields DEF Browse!Init
  <1>2. 0 \in 0 .. Delay /\ 0 \in 0 .. Browse!Settled
    BY BrowseConstants DEF Browse!Settled
  <1> QED
    BY <1>1, <1>2, BrowseConstants DEF Browse!Init, Browse!TypeOK

\* Where the URL goes the copies follow, and keep their types.
LEMMA GoToTyped ==
  ASSUME Browse!TypeOK, NEW u \in Browse!Urls, NEW v \in Texts, NEW t \in 0 .. Delay \cup {None},
         Browse!GoTo(u, v, t)
  PROVE  /\ url' \in Browse!Urls
         /\ value' \in Texts
         /\ fieldTimer' \in 0 .. Delay \cup {None} /\ gridTimer' \in 0 .. Delay \cup {None}
         /\ gridQuery' \in Browse!Trimmed \cup {None}
         /\ held' \in 0 .. Delay
  <1>1. u.q \in Texts /\ u.q \in Browse!Trimmed
    BY UrlFields, BrowseConstants
  <1>2. Delay \in 0 .. Delay /\ 0 \in 0 .. Delay
    BY BrowseConstants
  <1>3. fieldTimer' \in 0 .. Delay \cup {None} /\ gridTimer' \in 0 .. Delay \cup {None}
    BY <1>2 DEF Browse!GoTo, Browse!Restarted, Browse!GridTimerAt, Browse!TypeOK
  <1>4. value' \in Texts /\ gridQuery' \in Browse!Trimmed \cup {None} /\ held' \in 0 .. Delay
    BY <1>1, <1>2 DEF Browse!GoTo, Browse!TypeOK
  <1> QED
    BY <1>3, <1>4 DEF Browse!GoTo

\* Where the field and the filters can lead are URLs.
LEMMA GoalsAreUrls ==
  ASSUME Browse!TypeOK
  PROVE  /\ \A r \in Rests : url.path = "browse" => [url EXCEPT !.rest = r] \in Browse!Urls
         /\ [path |-> "browse", q |-> Empty, rest |-> NoRest] \in Browse!Urls
         /\ \A t \in Texts : Browse!Results(t) \in Browse!Urls
  <1>1. ASSUME NEW r \in Rests, url.path = "browse" PROVE [url EXCEPT !.rest = r] \in Browse!Urls
    <2>1. url \in [path : {"browse"}, q : Browse!Trimmed, rest : Rests]
      BY <1>1 DEF Browse!TypeOK, Browse!Urls
    <2> QED
      BY <2>1 DEF Browse!Urls
  <1>2. [path |-> "browse", q |-> Empty, rest |-> NoRest] \in Browse!Urls
    BY BrowseConstants DEF Browse!Urls
  <1>3. ASSUME NEW t \in Texts PROVE Browse!Results(t) \in Browse!Urls
    <2>1. Trim(t) \in Browse!Trimmed /\ url.rest \in Rests /\ NoRest \in Rests
      BY BrowseConstants, UrlFields DEF Browse!TypeOK
    <2> QED
      BY <2>1 DEF Browse!Results, Browse!Urls
  <1> QED
    BY <1>1, <1>2, <1>3

\* What a step of the browse page can be: a key; the URL going somewhere, by the
\* user or by the field; a copy that is made without effect; or time.
UserGoes ==
  \E u \in Browse!Urls : Browse!GoTo(u, value, fieldTimer) /\ quiet' = 0 /\ debounced' = debounced

FieldGoes ==
  /\ fieldTimer = 0 /\ value # url.q
  /\ Browse!GoTo(Browse!Results(value), value, None)
  /\ debounced' = value /\ quiet' = quiet

FieldRests ==
  /\ fieldTimer = 0 /\ fieldTimer' = None
  /\ debounced' = value
  /\ UNCHANGED <<url, value, gridQuery, gridTimer, held, quiet>>

LEMMA BrowseSteps ==
  ASSUME Browse!TypeOK, Browse!Next
  PROVE  \/ \E t \in Texts : Browse!Type(t)
         \/ UserGoes \/ FieldGoes \/ FieldRests
         \/ Browse!GridSettles \/ Browse!Tick
  <1>1. ASSUME NEW u \in Browse!Urls, Browse!Visit(u) PROVE UserGoes
    BY <1>1 DEF Browse!Visit, UserGoes
  <1>2. ASSUME NEW r \in Rests, Browse!SetFilters(r) PROVE UserGoes
    <2>1. [url EXCEPT !.rest = r] \in Browse!Urls
      BY <1>2, GoalsAreUrls DEF Browse!SetFilters
    <2> QED
      BY <1>2, <2>1 DEF Browse!SetFilters, UserGoes
  <1>3. ASSUME Browse!ClearFilters PROVE UserGoes
    <2>1. [path |-> "browse", q |-> Empty, rest |-> NoRest] \in Browse!Urls
      BY GoalsAreUrls
    <2> QED
      BY <1>3, <2>1 DEF Browse!ClearFilters, UserGoes
  <1>4. ASSUME Browse!FieldSettles PROVE FieldGoes \/ FieldRests
    BY <1>4 DEF Browse!FieldSettles, FieldGoes, FieldRests
  <1> QED
    BY <1>1, <1>2, <1>3, <1>4 DEF Browse!Next

LEMMA BrowseTickTyped ==
  ASSUME Browse!TypeOK, Browse!Tick
  PROVE  Browse!TypeOK'
  <1>1. Delay \in Nat \ {0} /\ Browse!Settled \in Nat
    BY BrowseConstants DEF Browse!Settled
  <1>2. ASSUME NEW t \in 0 .. Delay \cup {None}, t # 0
        PROVE  Browse!Less(t) \in 0 .. Delay \cup {None}
    BY <1>1, <1>2 DEF Browse!Less
  <1>3. ASSUME NEW max \in Nat, NEW t \in 0 .. max PROVE Browse!More(t, max) \in 0 .. max
    BY <1>3 DEF Browse!More
  <1>4. /\ fieldTimer' \in 0 .. Delay \cup {None} /\ gridTimer' \in 0 .. Delay \cup {None}
        /\ held' \in 0 .. Delay /\ quiet' \in 0 .. Browse!Settled
    BY <1>1, <1>2, <1>3 DEF Browse!Tick, Browse!TypeOK
  <1> QED
    BY <1>4 DEF Browse!Tick, Browse!TypeOK, Browse!Settled

LEMMA BrowseNextTyped == Browse!TypeOK /\ [Browse!Next]_(Browse!vars) => Browse!TypeOK'
  <1> SUFFICES ASSUME Browse!TypeOK, [Browse!Next]_(Browse!vars) PROVE Browse!TypeOK'
    OBVIOUS
  <1> DEFINE Timers == 0 .. Delay \cup {None}
  <1>1. Delay \in Timers /\ 0 \in 0 .. Browse!Settled /\ None \in Timers
    BY BrowseConstants DEF Browse!Settled
  <1>2. ASSUME NEW t \in Texts, Browse!Type(t) PROVE Browse!TypeOK'
    BY <1>1, <1>2 DEF Browse!Type, Browse!Restarted, Browse!TypeOK, Browse!Settled
  <1>3. CASE UserGoes
    <2>1. PICK u \in Browse!Urls : Browse!GoTo(u, value, fieldTimer)
      BY <1>3 DEF UserGoes
    <2>2. value \in Texts /\ fieldTimer \in Timers
      BY DEF Browse!TypeOK
    <2>3. /\ url' \in Browse!Urls /\ value' \in Texts /\ fieldTimer' \in Timers
          /\ gridTimer' \in Timers /\ gridQuery' \in Browse!Trimmed \cup {None}
          /\ held' \in 0 .. Delay
      BY <2>1, <2>2, GoToTyped
    <2> QED
      BY <1>1, <1>3, <2>3 DEF UserGoes, Browse!TypeOK, Browse!Settled
  <1>4. CASE FieldGoes
    <2>1. value \in Texts /\ Browse!Results(value) \in Browse!Urls
      BY GoalsAreUrls DEF Browse!TypeOK
    <2>2. /\ url' \in Browse!Urls /\ value' \in Texts /\ fieldTimer' \in Timers
          /\ gridTimer' \in Timers /\ gridQuery' \in Browse!Trimmed \cup {None}
          /\ held' \in 0 .. Delay
      BY <1>1, <1>4, <2>1, GoToTyped DEF FieldGoes
    <2> QED
      BY <1>4, <2>1, <2>2 DEF FieldGoes, Browse!TypeOK, Browse!Settled
  <1>5. CASE FieldRests
    BY <1>1, <1>5 DEF FieldRests, Browse!TypeOK, Browse!Settled
  <1>6. CASE Browse!GridSettles
    <2>1. url.q \in Browse!Trimmed
      BY UrlFields DEF Browse!TypeOK
    <2> QED
      BY <1>1, <1>6, <2>1 DEF Browse!GridSettles, Browse!TypeOK, Browse!Settled
  <1>7. CASE Browse!Tick
    BY <1>7, BrowseTickTyped
  <1>8. CASE UNCHANGED Browse!vars
    BY <1>8 DEF Browse!vars, Browse!TypeOK, Browse!Settled
  <1> QED
    BY <1>2, <1>3, <1>4, <1>5, <1>6, <1>7, <1>8, BrowseSteps

LEMMA BrowseTyped == Browse!Spec => []Browse!TypeOK
  BY BrowseInitTyped, BrowseNextTyped, PTL DEF Browse!Spec

-----------------------------------------------------------------------------
(* The search: the two timers.                                             *)

LEMMA InitInOrder == Browse!Init => Browse!TimersInOrder
  BY BrowseConstants, UrlFields DEF Browse!Init, Browse!TimersInOrder, Browse!Urls

\* The URL goes to u.  The grid has what the URL says or is set to fetch it, which
\* it will have held for a delay by then.
LEMMA GoToKeepsGrid ==
  ASSUME Browse!TypeOK, Browse!TimersInOrder, NEW u \in Browse!Urls, NEW v, NEW t,
         Browse!GoTo(u, v, t)
  PROVE  /\ url'.path = "browse" /\ gridTimer' = None => gridQuery' = url'.q
         /\ url'.path # "browse" => gridQuery' = None /\ gridTimer' = None
         /\ gridTimer' # None => gridTimer' + held' >= Delay
         /\ gridTimer' \in {gridTimer, Delay, None}
  <1>1. url' = u
    BY DEF Browse!GoTo
  <1>2. CASE u.path = "browse" /\ url.path = "browse"
    <2>1. gridQuery' = gridQuery
      BY <1>2 DEF Browse!GoTo
    <2>2. CASE u.q = url.q
      BY <1>1, <1>2, <2>1, <2>2 DEF Browse!GoTo, Browse!GridTimerAt, Browse!TimersInOrder
    <2>3. CASE u.q # url.q
      <3>1. gridTimer' = Delay /\ held' = 0
        BY <1>2, <2>3 DEF Browse!GoTo, Browse!GridTimerAt, Browse!Restarted
      <3> QED
        BY <1>1, <1>2, <3>1, BrowseConstants
    <2> QED
      BY <2>2, <2>3
  <1>3. CASE ~(u.path = "browse" /\ url.path = "browse")
    BY <1>1, <1>3 DEF Browse!GoTo
  <1> QED
    BY <1>2, <1>3

\* A tick takes from the timer at least what it adds to the time that has passed.
LEMMA Countdown ==
  ASSUME NEW t \in Nat \ {0}, NEW q \in Nat, NEW r \in Nat, r <= q + 1,
         NEW bound \in Nat, t + q <= bound
  PROVE  t - 1 + r <= bound
  OBVIOUS

LEMMA NextInOrder ==
  Browse!TypeOK /\ Browse!TimersInOrder /\ [Browse!Next]_(Browse!vars) => Browse!TimersInOrder'
  <1> SUFFICES ASSUME Browse!TypeOK, Browse!TimersInOrder, [Browse!Next]_(Browse!vars)
               PROVE  Browse!TimersInOrder'
    OBVIOUS
  <1>1. /\ Delay \in Nat \ {0} /\ quiet \in Nat /\ held \in 0 .. Delay
        /\ fieldTimer # None => fieldTimer \in 0 .. Delay
        /\ gridTimer # None => gridTimer \in 0 .. Delay
        /\ None \notin Nat
    BY BrowseConstants DEF Browse!TypeOK, Browse!Settled
  <1>2. ASSUME NEW t \in Texts, Browse!Type(t) PROVE Browse!TimersInOrder'
    <2>1. fieldTimer' = Delay /\ quiet' = 0
      BY <1>2 DEF Browse!Type, Browse!Restarted
    <2>2. UNCHANGED <<url, gridQuery, gridTimer, held>>
      BY <1>2 DEF Browse!Type
    <2>3. gridTimer # None => gridTimer + 0 <= 2 * Delay
      BY <1>1
    <2>4. Delay + 0 <= Delay
      BY <1>1
    <2> QED
      BY <2>1, <2>2, <2>3, <2>4 DEF Browse!TimersInOrder
  <1>3. CASE UserGoes
    <2>1. PICK u \in Browse!Urls : Browse!GoTo(u, value, fieldTimer) /\ quiet' = 0
      BY <1>3 DEF UserGoes
    <2>2. /\ url'.path = "browse" /\ gridTimer' = None => gridQuery' = url'.q
          /\ url'.path # "browse" => gridQuery' = None /\ gridTimer' = None
          /\ gridTimer' # None => gridTimer' + held' >= Delay
          /\ gridTimer' \in {gridTimer, Delay, None}
      BY <2>1, GoToKeepsGrid
    <2>3. fieldTimer' \in {fieldTimer, Delay}
      BY <2>1 DEF Browse!GoTo, Browse!Restarted
    <2>4. gridTimer' # None => gridTimer' + quiet' <= 2 * Delay
      BY <1>1, <2>1, <2>2
    <2>5. fieldTimer' # None => fieldTimer' + quiet' <= Delay
      BY <1>1, <2>1, <2>3
    <2> QED
      BY <2>2, <2>4, <2>5 DEF Browse!TimersInOrder
  <1>4. CASE FieldGoes
    <2> DEFINE u == Browse!Results(value)
    <2>1. u \in Browse!Urls /\ u.path = "browse"
      BY GoalsAreUrls DEF Browse!TypeOK, Browse!Results
    <2>2. Browse!GoTo(u, value, None) /\ quiet' = quiet
      BY <1>4 DEF FieldGoes
    <2> HIDE DEF u
    <2>3. quiet <= Delay
      BY <1>1, <1>4 DEF FieldGoes, Browse!TimersInOrder
    <2>4. /\ url'.path = "browse" /\ gridTimer' = None => gridQuery' = url'.q
          /\ url'.path # "browse" => gridQuery' = None /\ gridTimer' = None
          /\ gridTimer' # None => gridTimer' + held' >= Delay
          /\ gridTimer' \in {gridTimer, Delay, None}
      BY <2>1, <2>2, GoToKeepsGrid
    <2>5. gridTimer' # None => gridTimer' + quiet' <= 2 * Delay
      BY <1>1, <2>2, <2>3, <2>4 DEF Browse!TimersInOrder
    <2>6. fieldTimer' # None => fieldTimer' = Delay /\ value' = url'.q
      BY <2>2 DEF Browse!GoTo, Browse!Restarted
    <2>7. fieldTimer' # None => value' = url'.q /\ fieldTimer' + quiet' <= 2 * Delay
      BY <1>1, <2>2, <2>3, <2>6
    <2> QED
      BY <2>4, <2>5, <2>7 DEF Browse!TimersInOrder
  <1>5. CASE FieldRests
    BY <1>5 DEF FieldRests, Browse!TimersInOrder
  <1>6. CASE Browse!GridSettles
    <2>1. url.path = "browse"
      BY <1>1, <1>6 DEF Browse!GridSettles, Browse!TimersInOrder
    <2> QED
      BY <1>6, <2>1 DEF Browse!GridSettles, Browse!TimersInOrder
  <1>7. CASE Browse!Tick
    <2>1. /\ fieldTimer # 0 /\ gridTimer # 0
          /\ fieldTimer' = IF fieldTimer = None THEN None ELSE fieldTimer - 1
          /\ gridTimer' = IF gridTimer = None THEN None ELSE gridTimer - 1
          /\ UNCHANGED <<url, value, gridQuery>>
      BY <1>7 DEF Browse!Tick, Browse!Less
    <2>2. held' \in Nat /\ (held' = Delay \/ held' = held + 1)
      BY <1>1, <1>7 DEF Browse!Tick, Browse!More
    <2>3. quiet' \in Nat /\ quiet' <= quiet + 1
      BY <1>1, <1>7 DEF Browse!Tick, Browse!More
    <2>4. ASSUME gridTimer' # None
          PROVE  gridTimer' + held' >= Delay /\ gridTimer' + quiet' <= 2 * Delay
      <3>1. /\ gridTimer # None /\ gridTimer \in 1 .. Delay /\ gridTimer' = gridTimer - 1
            /\ gridTimer + held >= Delay /\ gridTimer + quiet <= 2 * Delay
        BY <1>1, <2>1, <2>4 DEF Browse!TimersInOrder
      <3>2. 2 * Delay \in Nat /\ gridTimer \in Nat \ {0}
        BY <1>1, <3>1
      <3>3. gridTimer - 1 + quiet' <= 2 * Delay
        BY <1>1, <2>3, <3>1, <3>2, Countdown
      <3>4. CASE held' = Delay
        BY <1>1, <3>1, <3>4, <3>3
      <3>5. CASE held' = held + 1
        BY <1>1, <3>1, <3>5, <3>3
      <3> QED
        BY <2>2, <3>4, <3>5
    <2>5. ASSUME fieldTimer' # None
          PROVE  \/ fieldTimer' + quiet' <= Delay
                 \/ value' = url'.q /\ fieldTimer' + quiet' <= 2 * Delay
      <3>1. /\ fieldTimer # None /\ fieldTimer \in 1 .. Delay /\ fieldTimer' = fieldTimer - 1
            /\ fieldTimer + quiet <= Delay \/ (value = url.q /\ fieldTimer + quiet <= 2 * Delay)
        BY <1>1, <2>1, <2>5 DEF Browse!TimersInOrder
      <3>2. 2 * Delay \in Nat /\ fieldTimer \in Nat \ {0}
        BY <1>1, <3>1
      <3>3. fieldTimer + quiet <= Delay => fieldTimer' + quiet' <= Delay
        BY <1>1, <2>3, <3>1, <3>2, Countdown
      <3>4. fieldTimer + quiet <= 2 * Delay => fieldTimer' + quiet' <= 2 * Delay
        BY <1>1, <2>3, <3>1, <3>2, Countdown
      <3> QED
        BY <2>1, <3>1, <3>3, <3>4
    <2>6. gridTimer' = None => gridTimer = None
      BY <1>1, <2>1
    <2>7. /\ url'.path = "browse" /\ gridTimer' = None => gridQuery' = url'.q
          /\ url'.path # "browse" => gridQuery' = None /\ gridTimer' = None
      BY <2>1, <2>6 DEF Browse!TimersInOrder
    <2> QED
      BY <2>4, <2>5, <2>7 DEF Browse!TimersInOrder
  <1>8. CASE UNCHANGED Browse!vars
    BY <1>8 DEF Browse!vars, Browse!TimersInOrder
  <1> QED
    BY <1>2, <1>3, <1>4, <1>5, <1>6, <1>7, <1>8, BrowseSteps

LEMMA TimersStayInOrder == Browse!Spec => [](Browse!TypeOK /\ Browse!TimersInOrder)
  <1>1. Browse!Spec => []Browse!TimersInOrder
    BY BrowseTyped, InitInOrder, NextInOrder, PTL DEF Browse!Spec
  <1> QED
    BY <1>1, BrowseTyped, PTL

\* Whatever is typed, however long the delay and whatever other events come in
\* between: two delays after the last of them the grid shows what the URL says.
THEOREM GridFollowsUrlHolds == Browse!Spec => []GridFollowsUrl
  <1>1. ASSUME Browse!TypeOK, Browse!TimersInOrder PROVE GridFollowsUrl
    <2>1. /\ Delay \in Nat /\ Browse!Settled = 2 * Delay + 1
          /\ gridTimer # None => gridTimer \in Nat /\ gridTimer + quiet <= 2 * Delay
      BY <1>1, BrowseConstants DEF Browse!TypeOK, Browse!TimersInOrder, Browse!Settled
    <2>2. quiet = Browse!Settled => gridTimer = None
      BY <2>1
    <2> QED
      BY <1>1, <2>2 DEF GridFollowsUrl, Browse!GridFollowsUrl, Browse!TimersInOrder
  <1> QED
    BY <1>1, TimersStayInOrder, PTL

\* Only the timer of the grid makes an open page take on another text.
LEMMA StepFetchesSettled ==
  ASSUME Browse!TypeOK, Browse!TimersInOrder, Browse!Next,
         gridQuery # None, gridQuery' \notin {gridQuery, None}, url'.path = url.path
  PROVE  held = Delay /\ gridQuery' = url.q
  <1>1. ASSUME NEW u, NEW v, NEW t, Browse!GoTo(u, v, t) PROVE FALSE
    BY <1>1 DEF Browse!GoTo, Browse!TimersInOrder
  <1>2. Browse!GridSettles
    BY <1>1, BrowseSteps
    DEF Browse!Type, UserGoes, FieldGoes, FieldRests, Browse!Tick
  <1>3. gridTimer = 0 /\ gridTimer # None /\ gridQuery' = url.q
    BY <1>2, BrowseConstants DEF Browse!GridSettles
  <1>4. held \in 0 .. Delay /\ 0 + held >= Delay /\ Delay \in Nat
    BY <1>3, BrowseConstants DEF Browse!TimersInOrder, Browse!TypeOK
  <1> QED
    BY <1>3, <1>4

\* However keys, filters, links and timers follow each other, an open page fetches
\* no text that the URL has not held for a whole delay.
THEOREM OnlySettledTextsAreFetchedHolds == Browse!Spec => OnlySettledTextsAreFetched
  <1>1. /\ Browse!TypeOK /\ Browse!TimersInOrder /\ [Browse!Next]_(Browse!vars)
        => [gridQuery # None /\ gridQuery' \notin {gridQuery, None} /\ url'.path = url.path
              => held = Delay /\ gridQuery' = url.q]_(Browse!vars)
    BY StepFetchesSettled
  <1>2. Browse!Spec
        => [][gridQuery # None /\ gridQuery' \notin {gridQuery, None} /\ url'.path = url.path
                => held = Delay /\ gridQuery' = url.q]_(Browse!vars)
    BY <1>1, TimersStayInOrder, PTL DEF Browse!Spec
  <1> QED
    BY <1>2 DEF OnlySettledTextsAreFetched, Browse!OnlySettledTextsAreFetched

-----------------------------------------------------------------------------
(* The wishlist: the operations of the query cache.                        *)

LEMMA IdsAreAQuery == Queries = {"ids", "list"} /\ "ids" \in Queries /\ "list" \in Queries
  BY DEF Queries

LEMMA IdleFields ==
  ASSUME NEW c \in Query
  PROVE  /\ Idle(c) \in Query
         /\ Idle(c).known = c.known /\ Idle(c).films = c.films /\ Idle(c).of = c.of
         /\ Idle(c).fresh = c.fresh /\ Idle(c).stage = "idle"
  BY DEF Idle, Query, Owners

LEMMA FetchingFields ==
  ASSUME NEW c \in Query, me \in Owners
  PROVE  /\ Fetching(c) \in Query
         /\ Fetching(c).known = c.known /\ Fetching(c).films = c.films
         /\ Fetching(c).of = c.of /\ Fetching(c).fresh = FALSE
         /\ Fetching(c).stage = "sent" /\ Fetching(c).by = me
  BY DEF Fetching, Idle, Query, Owners

\* Data and their owner are left alone.  What is in use and has data is fetched
\* again, for whoever the browser stands for now.
LEMMA InvalidatedFields ==
  ASSUME NEW q \in Queries, NEW c \in Query, me \in Owners
  PROVE  /\ Invalidated(q, c) \in Query
         /\ Invalidated(q, c).known = c.known /\ Invalidated(q, c).of = c.of
         /\ Invalidated(q, c).fresh = FALSE
         /\ Invalidated(q, c).stage # "idle" =>
              Invalidated(q, c).by = me \/ (c.stage # "idle" /\ Invalidated(q, c).by = c.by)
  <1>1. CASE Active(q) /\ (c.known \/ c.stage = "idle")
    <2>1. Invalidated(q, c) = Fetching(c)
      BY <1>1 DEF Invalidated
    <2> QED
      BY <2>1, FetchingFields
  <1>2. CASE ~(Active(q) /\ (c.known \/ c.stage = "idle"))
    <2>1. Invalidated(q, c) = [c EXCEPT !.fresh = FALSE]
      BY <1>2 DEF Invalidated
    <2>2. /\ [c EXCEPT !.fresh = FALSE] \in Query
          /\ [c EXCEPT !.fresh = FALSE].known = c.known
          /\ [c EXCEPT !.fresh = FALSE].of = c.of
          /\ [c EXCEPT !.fresh = FALSE].fresh = FALSE
          /\ [c EXCEPT !.fresh = FALSE].stage = c.stage
          /\ [c EXCEPT !.fresh = FALSE].by = c.by
      BY DEF Query
    <2> QED
      BY <2>1, <2>2
  <1> QED
    BY <1>1, <1>2

LEMMA KnownIdsAreFetchedAgain ==
  ASSUME NEW c \in Query, c.known
  PROVE  Invalidated("ids", c) = Fetching(c)
  BY DEF Invalidated, Active

LEMMA OptimisticFields ==
  ASSUME NEW q \in Queries, NEW c \in Query, NEW f \in Films, NEW saved, me \in Owners
  PROVE  /\ Optimistic(q, c, f, saved) \in Query
         /\ Optimistic(q, c, f, saved).stage = "idle"
         /\ Optimistic(q, c, f, saved).known =>
              Optimistic(q, c, f, saved).of = IF c.known THEN c.of ELSE me
  <1>1. Idle(c) \in Query /\ Idle(c).known = c.known /\ Idle(c).of = c.of /\ Idle(c).stage = "idle"
    BY IdleFields
  <1>2. CASE q = "list" /\ ~c.known
    <2>1. Optimistic(q, c, f, saved) = Idle(c)
      BY <1>2 DEF Optimistic, Cancelled
    <2> QED
      BY <1>1, <1>2, <2>1
  <1>3. CASE ~(q = "list" /\ ~c.known)
    <2> DEFINE i == Idle(c)
               o == [i EXCEPT !.known = TRUE, !.films = With(i.films, f, saved), !.fresh = TRUE,
                              !.of = IF c.known THEN i.of ELSE me]
    <2>1. Optimistic(q, c, f, saved) = o
      BY <1>3 DEF Optimistic, Cancelled
    <2>2. i \in Query /\ i.stage = "idle" /\ i.of = c.of
      BY <1>1
    <2> HIDE DEF i
    <2>3. With(i.films, f, saved) \in SUBSET Films
      BY <2>2 DEF With, Query
    <2>4. (IF c.known THEN i.of ELSE me) \in Owners
      BY <2>2 DEF Query
    <2>5. o \in Query /\ o.known = TRUE /\ o.stage = "idle" /\ o.of = IF c.known THEN i.of ELSE me
      BY <2>2, <2>3, <2>4 DEF Query
    <2> HIDE DEF o
    <2> QED
      BY <2>1, <2>2, <2>5
  <1> QED
    BY <1>2, <1>3

LEMMA IdsBecomeKnown ==
  ASSUME NEW c \in Query, NEW f \in Films, NEW saved
  PROVE  Optimistic("ids", c, f, saved).known
  <1>1. Idle(c) \in Query
    BY IdleFields
  <1> QED
    BY <1>1 DEF Optimistic, Cancelled, Query

LEMMA RolledBackFields ==
  ASSUME NEW c \in Query, NEW was \in Snapshot
  PROVE  /\ RolledBack(c, was) \in Query
         /\ RolledBack(c, was).stage = c.stage /\ RolledBack(c, was).by = c.by
         /\ RolledBack(c, was).known = (c.known \/ was.known)
         /\ RolledBack(c, was).of = IF was.known THEN was.of ELSE c.of
  <1>1. CASE was.known
    <2>1. RolledBack(c, was) = [c EXCEPT !.known = TRUE, !.films = was.films, !.of = was.of,
                                         !.fresh = TRUE]
      BY <1>1 DEF RolledBack
    <2> QED
      BY <1>1, <2>1 DEF Query, Snapshot
  <1>2. CASE ~was.known
    BY <1>2 DEF RolledBack, Query, Snapshot
  <1> QED
    BY <1>1, <1>2

-----------------------------------------------------------------------------
(* The wishlist: types.                                                    *)

\* What a toggle under way sets is a film.
Typed ==
  /\ TypeOK
  /\ \A n \in Pending : toggle[n].film \in Films

LEMMA AbsentIsAQuery == Absent \in Query /\ NoToggle \in Mutation
  BY DEF Absent, Query, Owners, NoToggle, Mutation, Snapshot

LEMMA InitTyped == Init => Typed
  <1> SUFFICES ASSUME Init PROVE Typed
    OBVIOUS
  <1>1. cache \in [Queries -> Query] /\ toggle \in [Toggles -> Mutation]
    BY AbsentIsAQuery DEF Init
  <1>2. \A n \in Toggles : toggle[n].stage = "unused"
    BY DEF Init, NoToggle
  <1>3. 0 \in 0 .. MaxChanges /\ session \in BOOLEAN
    BY WishlistClientAssumption DEF WishlistClientAssumption, Init
  <1> QED
    BY <1>1, <1>2, <1>3 DEF Init, Typed, TypeOK, Pending

\* While another change is allowed, their number is below the bound.
LEMMA MayChangeBound ==
  ASSUME TypeOK, MayChange
  PROVE  switches + 1 \in 0 .. MaxChanges
  <1>1. IsFiniteSet(Toggles \ Unused)
    <2>1. IsFiniteSet(Toggles)
      BY FS_Interval, WishlistClientAssumption DEF Toggles, WishlistClientAssumption
    <2> QED
      BY <2>1, FS_Subset
  <1>2. Cardinality(Toggles \ Unused) \in Nat
    BY <1>1, FS_CardinalityType
  <1>3. switches \in Nat /\ MaxChanges \in Nat
    BY WishlistClientAssumption DEF TypeOK, WishlistClientAssumption
  <1> QED
    BY <1>2, <1>3 DEF MayChange

LEMMA OpenPageChanges ==
  ASSUME Typed, OpenPage
  PROVE  /\ cache' \in [Queries -> Query]
         /\ cache'["ids"] = cache["ids"]
         /\ \A q \in Queries : cache'[q] = cache[q] \/ cache'[q] = Fetching(cache[q])
  <1>1. cache \in [Queries -> Query] /\ Fetching(cache["list"]) \in Query
    BY FetchingFields, IdsAreAQuery DEF Typed, TypeOK
  <1>2. cache' = cache \/ cache' = [cache EXCEPT !["list"] = Fetching(cache["list"])]
    BY DEF OpenPage
  <1> QED
    BY <1>1, <1>2, IdsAreAQuery

LEMMA RefetchChanges ==
  ASSUME Typed, NEW q \in Queries, Refetch(q)
  PROVE  /\ cache' \in [Queries -> Query]
         /\ cache'[q] = Fetching(cache[q])
         /\ \A r \in Queries \ {q} : cache'[r] = cache[r]
  <1>1. cache \in [Queries -> Query] /\ Fetching(cache[q]) \in Query
    BY FetchingFields DEF Typed, TypeOK
  <1> QED
    BY <1>1 DEF Refetch

LEMMA FetchServedChanges ==
  ASSUME Typed, NEW q \in Queries, FetchServed(q)
  PROVE  /\ cache' \in [Queries -> Query]
         /\ \E o \in ServedAs(cache[q].by) :
              cache'[q] = [cache[q] EXCEPT !.stage = "served", !.by = o, !.got = lists[o]]
         /\ \A r \in Queries \ {q} : cache'[r] = cache[r]
  <1>1. cache \in [Queries -> Query] /\ cache[q] \in Query
    BY DEF Typed, TypeOK
  <1>2. PICK o \in ServedAs(cache[q].by) :
          cache' = [cache EXCEPT ![q] = [cache[q] EXCEPT !.stage = "served", !.by = o,
                                                         !.got = lists[o]]]
    BY <1>1 DEF FetchServed
  <1>3. o \in Owners /\ lists[o] \in SUBSET Films
    BY <1>1 DEF ServedAs, Query, Typed, TypeOK
  <1>4. [cache[q] EXCEPT !.stage = "served", !.by = o, !.got = lists[o]] \in Query
    BY <1>1, <1>3 DEF Query
  <1> QED
    BY <1>1, <1>2, <1>4

LEMMA FetchLandsChanges ==
  ASSUME Typed, NEW q \in Queries, FetchLands(q)
  PROVE  /\ cache' \in [Queries -> Query]
         /\ cache'[q].films = cache[q].got /\ cache'[q].of = cache[q].by
         /\ cache'[q].stage = "idle" /\ cache'[q].known = TRUE
         /\ \A r \in Queries \ {q} : cache'[r] = cache[r]
  <1> DEFINE c == cache[q]
             d == [c EXCEPT !.known = TRUE, !.films = c.got, !.of = c.by, !.fresh = TRUE]
  <1>1. cache \in [Queries -> Query] /\ c \in Query
    BY DEF Typed, TypeOK
  <1>2. cache' = [cache EXCEPT ![q] = Idle(d)]
    BY DEF FetchLands
  <1>3. d \in Query /\ d.films = c.got /\ d.of = c.by /\ d.known = TRUE
    BY <1>1 DEF Query
  <1> HIDE DEF d
  <1>4. /\ Idle(d) \in Query /\ Idle(d).films = d.films /\ Idle(d).of = d.of
        /\ Idle(d).stage = "idle" /\ Idle(d).known = d.known
    BY <1>3, IdleFields
  <1> QED
    BY <1>1, <1>2, <1>3, <1>4

LEMMA FetchFailsChanges ==
  ASSUME Typed, NEW q \in Queries, FetchFails(q)
  PROVE  /\ cache' \in [Queries -> Query]
         /\ cache'[q] = Idle(cache[q])
         /\ \A r \in Queries \ {q} : cache'[r] = cache[r]
  <1>1. cache \in [Queries -> Query] /\ Idle(cache[q]) \in Query
    BY IdleFields DEF Typed, TypeOK
  <1> QED
    BY <1>1 DEF FetchFails

LEMMA ToggleChanges ==
  ASSUME Typed, NEW n \in Toggles, NEW f \in Films, NEW saved \in BOOLEAN, Toggle(n, f, saved)
  PROVE  /\ cache' \in [Queries -> Query]
         /\ \A q \in Queries : cache'[q] = Optimistic(q, cache[q], f, saved)
         /\ toggle' \in [Toggles -> Mutation]
         /\ toggle'[n].stage = "sent" /\ toggle'[n].film = f
         /\ \A q \in Queries : /\ toggle'[n].previous[q].known = cache[q].known
                               /\ toggle'[n].previous[q].of = cache[q].of
         /\ \A m \in Toggles \ {n} : toggle'[m] = toggle[m]
         /\ Pending' = Pending \cup {n}
  <1> DEFINE t == [stage |-> "sent", film |-> f, isSaved |-> saved, by |-> me,
                   previous |-> [q \in Queries |-> SnapshotOf(cache[q])]]
  <1>1. /\ \A q \in Queries : cache[q] \in Query
        /\ toggle \in [Toggles -> Mutation] /\ me \in Owners
    BY DEF Typed, TypeOK
  <1>2. \A q \in Queries : Optimistic(q, cache[q], f, saved) \in Query
    BY <1>1, OptimisticFields
  <1>3. cache' = [q \in Queries |-> Optimistic(q, cache[q], f, saved)]
    BY DEF Toggle
  <1>4. \A q \in Queries : /\ SnapshotOf(cache[q]) \in Snapshot
                           /\ SnapshotOf(cache[q]).known = cache[q].known
                           /\ SnapshotOf(cache[q]).of = cache[q].of
    BY <1>1 DEF SnapshotOf, Snapshot, Query
  <1>5. /\ t \in Mutation /\ t.stage = "sent" /\ t.film = f
        /\ \A q \in Queries : t.previous[q] = SnapshotOf(cache[q])
    BY <1>1, <1>4 DEF Mutation
  <1>6. toggle' = [toggle EXCEPT ![n] = t]
    BY DEF Toggle
  <1> HIDE DEF t
  <1>7. /\ toggle' \in [Toggles -> Mutation] /\ toggle'[n] = t
        /\ \A m \in Toggles \ {n} : toggle'[m] = toggle[m]
    BY <1>1, <1>5, <1>6
  <1>8. Pending' = Pending \cup {n}
    BY <1>5, <1>7 DEF Pending
  <1> QED
    BY <1>2, <1>3, <1>4, <1>5, <1>7, <1>8

LEMMA ToggleServedChanges ==
  ASSUME Typed, NEW n \in Toggles, ToggleServed(n)
  PROVE  /\ toggle' \in [Toggles -> Mutation]
         /\ \A m \in Toggles : /\ toggle'[m].film = toggle[m].film
                               /\ toggle'[m].previous = toggle[m].previous
         /\ n \in Pending /\ Pending' = Pending
         /\ lists' \in [Owners -> SUBSET Films]
  <1>1. toggle \in [Toggles -> Mutation] /\ toggle[n] \in Mutation /\ toggle[n].stage = "sent"
    BY DEF Typed, TypeOK, ToggleServed
  <1>2. toggle' = [toggle EXCEPT ![n] = [toggle[n] EXCEPT !.stage = "served"]]
    BY <1>1 DEF ToggleServed
  <1>3. /\ [toggle[n] EXCEPT !.stage = "served"] \in Mutation
        /\ [toggle[n] EXCEPT !.stage = "served"].stage = "served"
        /\ [toggle[n] EXCEPT !.stage = "served"].film = toggle[n].film
        /\ [toggle[n] EXCEPT !.stage = "served"].previous = toggle[n].previous
    BY <1>1 DEF Mutation
  <1>4. n \in Pending
    BY <1>1 DEF Pending
  <1>5. PICK o \in Owners :
          lists' = [lists EXCEPT ![o] = With(lists[o], toggle[n].film, toggle[n].isSaved)]
    BY <1>1 DEF ToggleServed, ServedAs, Mutation
  <1>6. With(lists[o], toggle[n].film, toggle[n].isSaved) \in SUBSET Films
    BY <1>4 DEF With, Typed, TypeOK
  <1>7. lists' \in [Owners -> SUBSET Films]
    BY <1>5, <1>6 DEF Typed, TypeOK
  <1>8. Pending' = Pending
    BY <1>1, <1>2, <1>3 DEF Pending
  <1> QED
    BY <1>1, <1>2, <1>3, <1>4, <1>7, <1>8

LEMMA ToggleSettlesChanges ==
  ASSUME Typed, NEW n \in Toggles, NEW ok \in BOOLEAN, ToggleSettles(n, ok)
  PROVE  /\ cache' \in [Queries -> Query]
         /\ \A q \in Queries :
              cache'[q] = Invalidated(q, IF ok THEN cache[q]
                                         ELSE RolledBack(cache[q], toggle[n].previous[q]))
         /\ toggle' \in [Toggles -> Mutation]
         /\ n \in Pending /\ Pending' = Pending \ {n}
         /\ \A m \in Toggles \ {n} : toggle'[m] = toggle[m]
         /\ \A q \in Queries : toggle[n].previous[q] \in Snapshot
  <1>1. /\ \A q \in Queries : cache[q] \in Query
        /\ toggle \in [Toggles -> Mutation] /\ me \in Owners
    BY DEF Typed, TypeOK
  <1>2. \A q \in Queries : toggle[n].previous[q] \in Snapshot
    BY <1>1 DEF Mutation
  <1>3. ASSUME NEW q \in Queries
        PROVE  Invalidated(q, IF ok THEN cache[q]
                              ELSE RolledBack(cache[q], toggle[n].previous[q])) \in Query
    <2>1. (IF ok THEN cache[q] ELSE RolledBack(cache[q], toggle[n].previous[q])) \in Query
      BY <1>1, <1>2, RolledBackFields
    <2> QED
      BY <1>1, <2>1, InvalidatedFields
  <1>4. cache' = [q \in Queries |->
          Invalidated(q, IF ok THEN cache[q] ELSE RolledBack(cache[q], toggle[n].previous[q]))]
    BY DEF ToggleSettles
  <1> DEFINE t == [NoToggle EXCEPT !.stage = "settled"]
  <1>5. t \in Mutation /\ t.stage = "settled"
    BY AbsentIsAQuery DEF Mutation, NoToggle
  <1>6. toggle' = [toggle EXCEPT ![n] = t]
    BY DEF ToggleSettles
  <1> HIDE DEF t
  <1>7. n \in Pending /\ Pending' = Pending \ {n}
    BY <1>1, <1>5, <1>6 DEF Pending, ToggleSettles
  <1> QED
    BY <1>1, <1>2, <1>3, <1>4, <1>5, <1>6, <1>7

\* A heart and an entry of the list both toggle.
LEMMA BothToggle ==
  ASSUME NEW n \in Toggles, NEW f \in Films, ToggleHeart(n, f) \/ RemoveEntry(n, f)
  PROVE  \E saved \in BOOLEAN : Toggle(n, f, saved)
  <1>1. CASE ToggleHeart(n, f)
    <2>1. (cache["ids"].known /\ f \in cache["ids"].films) \in BOOLEAN
      OBVIOUS
    <2> QED
      BY <1>1, <2>1 DEF ToggleHeart
  <1>2. CASE RemoveEntry(n, f)
    BY <1>2 DEF RemoveEntry
  <1> QED
    BY <1>1, <1>2

LEMMA NextTyped == Typed /\ [Next]_vars => Typed'
  <1> SUFFICES ASSUME Typed, [Next]_vars PROVE Typed'
    OBVIOUS
  <1>1. CASE OpenPage
    BY <1>1, OpenPageChanges DEF OpenPage, Typed, TypeOK, Pending
  <1>2. CASE LeavePage
    BY <1>2 DEF LeavePage, Typed, TypeOK, Pending
  <1>3. CASE Switch
    BY <1>3, MayChangeBound DEF Switch, Typed, TypeOK, Pending
  <1>4. CASE SwitchServed
    <2>1. lists' \in [Owners -> SUBSET Films]
      BY <1>4 DEF SwitchServed, Typed, TypeOK, Owners
    <2>2. session' \in BOOLEAN
      BY <1>4 DEF SwitchServed
    <2> QED
      BY <1>4, <2>1, <2>2 DEF SwitchServed, Typed, TypeOK, Pending
  <1>5. CASE SwitchLands
    <2>1. cache' \in [Queries -> Query] /\ me' \in Owners /\ outlived' \in BOOLEAN
      BY <1>5, AbsentIsAQuery DEF SwitchLands, CacheAfterSwitch, Owners
    <2> QED
      BY <1>5, <2>1 DEF SwitchLands, Typed, TypeOK, Pending
  <1>6. CASE SwitchFails
    BY <1>6 DEF SwitchFails, Typed, TypeOK, Pending
  <1>7. ASSUME NEW q \in Queries, Refetch(q) PROVE Typed'
    BY <1>7, RefetchChanges DEF Refetch, Typed, TypeOK, Pending
  <1>8. ASSUME NEW q \in Queries, FetchServed(q) PROVE Typed'
    BY <1>8, FetchServedChanges DEF FetchServed, Typed, TypeOK, Pending
  <1>9. ASSUME NEW q \in Queries, FetchLands(q) PROVE Typed'
    BY <1>9, FetchLandsChanges DEF FetchLands, Typed, TypeOK, Pending
  <1>10. ASSUME NEW q \in Queries, FetchFails(q) PROVE Typed'
    BY <1>10, FetchFailsChanges DEF FetchFails, Typed, TypeOK, Pending
  <1>11. ASSUME NEW n \in Toggles, NEW f \in Films, NEW saved \in BOOLEAN, Toggle(n, f, saved)
         PROVE  Typed'
    <2>1. /\ cache' \in [Queries -> Query] /\ toggle' \in [Toggles -> Mutation]
          /\ toggle'[n].film = f
          /\ \A m \in Toggles \ {n} : toggle'[m] = toggle[m]
          /\ Pending' = Pending \cup {n}
      BY <1>11, ToggleChanges
    <2>2. \A m \in Pending' : toggle'[m].film \in Films
      BY <2>1 DEF Typed, Pending
    <2> QED
      BY <1>11, <2>1, <2>2 DEF Toggle, Typed, TypeOK
  <1>12. ASSUME NEW n \in Toggles, ToggleServed(n) PROVE Typed'
    <2>1. \A m \in Pending' : toggle'[m].film \in Films
      BY <1>12, ToggleServedChanges DEF Typed, Pending
    <2> QED
      BY <1>12, <2>1, ToggleServedChanges DEF ToggleServed, Typed, TypeOK
  <1>13. ASSUME NEW n \in Toggles, NEW ok \in BOOLEAN, ToggleSettles(n, ok) PROVE Typed'
    <2>1. \A m \in Pending' : toggle'[m].film \in Films
      BY <1>13, ToggleSettlesChanges DEF Typed, Pending
    <2> QED
      BY <1>13, <2>1, ToggleSettlesChanges DEF ToggleSettles, Typed, TypeOK
  <1>14. CASE UNCHANGED vars
    BY <1>14 DEF vars, Typed, TypeOK, Pending
  <1> QED
    BY <1>1, <1>2, <1>3, <1>4, <1>5, <1>6, <1>7, <1>8, <1>9, <1>10, <1>11, <1>12, <1>13, <1>14,
       BothToggle
    DEF Next

LEMMA AlwaysTyped == Spec => []Typed
  BY InitTyped, NextTyped, PTL DEF Spec

\* Type correctness of the wishlist and its query cache: every list that is shown,
\* remembered by a toggle or on its way is of films, and of some identity.
THEOREM TypeCorrect == Spec => []TypeOK
  <1>1. Typed => TypeOK
    BY DEF Typed
  <1> QED
    BY <1>1, AlwaysTyped, PTL

-----------------------------------------------------------------------------
(* The wishlist: whose lists are in the cache.                             *)

LEMMA NextSessionFollows == Typed /\ SessionFollows /\ [Next]_vars => SessionFollows'
  <1> SUFFICES ASSUME Typed, SessionFollows, [Next]_vars PROVE SessionFollows'
    OBVIOUS
  <1>1. Device # User /\ me \in {Device, User}
    BY WishlistClientAssumption DEF WishlistClientAssumption, Typed, TypeOK, Owners
  <1>2. CASE UNCHANGED <<session, me, switch>>
    BY <1>2 DEF SessionFollows
  <1>3. CASE Switch
    BY <1>3 DEF Switch, SessionFollows
  <1>4. CASE SwitchServed
    BY <1>4 DEF SwitchServed, SessionFollows
  <1>5. CASE SwitchLands
    BY <1>1, <1>5 DEF SwitchLands, SessionFollows
  <1>6. CASE SwitchFails
    BY <1>6 DEF SwitchFails, SessionFollows
  <1>7. CASE ~(Switch \/ SwitchServed \/ SwitchLands \/ SwitchFails)
    <2>1. UNCHANGED <<session, me, switch>>
      BY <1>7, BothToggle
      DEF Next, vars, OpenPage, LeavePage, Refetch, FetchServed, FetchLands, FetchFails,
          Toggle, ToggleServed, ToggleSettles
    <2> QED
      BY <1>2, <2>1
  <1> QED
    BY <1>3, <1>4, <1>5, <1>6, <1>7

\* Until the server has changed the identity it serves whoever asks as the one
\* the browser stands for.
LEMMA ServedAsMe ==
  ASSUME Typed, SessionFollows, switch # "served"
  PROVE  ServedAs(me) = {me}
  <1>1. me \in {Device, User} /\ (session <=> me = User)
    BY DEF Typed, TypeOK, Owners, SessionFollows
  <1>2. ~(me = User /\ ~session)
    BY <1>1
  <1> QED
    BY <1>2 DEF ServedAs

\* What AllIsOwn says of a query and of a toggle.
OwnQuery(c)  == (c.known => c.of = me) /\ (c.stage # "idle" => c.by = me)
OwnToggle(t) == \A q \in Queries : t.previous[q].known => t.previous[q].of = me

LEMMA OwnParts ==
  /\ AllIsOwn <=> (switch # "served" /\ ~outlived =>
       (\A q \in Queries : OwnQuery(cache[q])) /\ (\A n \in Pending : OwnToggle(toggle[n])))
  /\ AllIsOwn' <=> (switch' # "served" /\ ~outlived' =>
       (\A q \in Queries : OwnQuery(cache[q])') /\ (\A n \in Pending' : OwnToggle(toggle[n])'))
  BY DEF AllIsOwn, OwnQuery, OwnToggle

\* A step that leaves the identity alone keeps all of its own if it keeps each
\* query and each toggle of its own.
LEMMA OwnQueriesAndToggles ==
  ASSUME AllIsOwn, UNCHANGED <<switch, me, outlived>>,
         ASSUME switch # "served", ~outlived, \A q \in Queries : OwnQuery(cache[q]),
                \A n \in Pending : OwnToggle(toggle[n])
         PROVE  /\ \A q \in Queries : OwnQuery(cache[q])'
                /\ \A n \in Pending' : OwnToggle(toggle[n])'
  PROVE  AllIsOwn'
  BY OwnParts

LEMMA FetchingIsOwn ==
  ASSUME NEW c \in Query, OwnQuery(c), me \in Owners
  PROVE  OwnQuery(Fetching(c))
  BY FetchingFields DEF OwnQuery

LEMMA OptimisticIsOwn ==
  ASSUME NEW q \in Queries, NEW c \in Query, OwnQuery(c), me \in Owners,
         NEW f \in Films, NEW saved
  PROVE  OwnQuery(Optimistic(q, c, f, saved))
  <1> DEFINE o == Optimistic(q, c, f, saved)
  <1>1. o.stage = "idle"
    BY OptimisticFields
  <1>2. o.known => o.of = IF c.known THEN c.of ELSE me
    BY OptimisticFields
  <1> HIDE DEF o
  <1>3. OwnQuery(o)
    BY <1>1, <1>2 DEF OwnQuery
  <1> QED
    BY <1>3 DEF o

LEMMA NextAllIsOwn == Typed /\ SessionFollows /\ AllIsOwn /\ [Next]_vars => AllIsOwn'
  <1> SUFFICES ASSUME Typed, SessionFollows, AllIsOwn, [Next]_vars PROVE AllIsOwn'
    OBVIOUS
  <1>1. /\ \A q \in Queries : cache[q] \in Query
        /\ me \in Owners
    BY DEF Typed, TypeOK
  <1>2. CASE OpenPage
    <2>1. UNCHANGED <<switch, me, outlived, toggle, Pending>>
      BY <1>2 DEF OpenPage, Pending
    <2>2. ASSUME NEW q \in Queries, OwnQuery(cache[q]) PROVE OwnQuery(cache[q])'
      <3>1. cache'[q] = cache[q] \/ cache'[q] = Fetching(cache[q])
        BY <1>2, OpenPageChanges
      <3> QED
        BY <1>1, <2>1, <2>2, <3>1, FetchingIsOwn DEF OwnQuery
    <2> QED
      BY <2>1, <2>2, OwnQueriesAndToggles DEF OwnToggle
  <1>3. CASE UNCHANGED <<switch, me, outlived, cache, toggle>>
    BY <1>3 DEF AllIsOwn, Pending
  <1>4. CASE Switch \/ SwitchFails
    BY <1>4 DEF Switch, SwitchFails, AllIsOwn, Pending
  <1>5. CASE SwitchServed
    BY <1>5 DEF SwitchServed, AllIsOwn
  <1>6. CASE SwitchLands
    <2>1. \A q \in Queries : cache'[q] = Absent
      BY <1>6 DEF SwitchLands, CacheAfterSwitch
    <2>2. ~outlived' => Pending' = {}
      BY <1>6 DEF SwitchLands, Pending
    <2> QED
      BY <2>1, <2>2 DEF AllIsOwn, Absent
  <1>7. ASSUME NEW q \in Queries, Refetch(q) PROVE AllIsOwn'
    <2>1. UNCHANGED <<switch, me, outlived, toggle, Pending>>
      BY <1>7 DEF Refetch, Pending
    <2>2. ASSUME NEW r \in Queries, OwnQuery(cache[r]) PROVE OwnQuery(cache[r])'
      <3>1. cache'[r] = cache[r] \/ cache'[r] = Fetching(cache[r])
        BY <1>7, RefetchChanges
      <3> QED
        BY <1>1, <2>1, <2>2, <3>1, FetchingIsOwn DEF OwnQuery
    <2> QED
      BY <2>1, <2>2, OwnQueriesAndToggles DEF OwnToggle
  <1>8. ASSUME NEW q \in Queries, FetchServed(q) PROVE AllIsOwn'
    <2>1. UNCHANGED <<switch, me, outlived, toggle, Pending>>
      BY <1>8 DEF FetchServed, Pending
    <2>2. ASSUME NEW r \in Queries, OwnQuery(cache[r]), switch # "served" PROVE OwnQuery(cache[r])'
      <3>1. CASE r = q
        <4>1. PICK o \in ServedAs(cache[q].by) :
                cache'[q] = [cache[q] EXCEPT !.stage = "served", !.by = o, !.got = lists[o]]
          BY <1>8, FetchServedChanges
        <4>2. cache[q].by = me
          BY <1>8, <2>2, <3>1 DEF FetchServed, OwnQuery
        <4>3. o = me
          BY <2>2, <4>1, <4>2, ServedAsMe
        <4>4. /\ cache'[q].known = cache[q].known /\ cache'[q].of = cache[q].of
              /\ cache'[q].by = me
          BY <1>1, <4>1, <4>3 DEF Query
        <4> QED
          BY <2>1, <2>2, <3>1, <4>4 DEF OwnQuery
      <3>2. CASE r # q
        BY <1>8, <2>1, <2>2, <3>2, FetchServedChanges DEF OwnQuery
      <3> QED
        BY <3>1, <3>2
    <2> QED
      BY <2>1, <2>2, OwnQueriesAndToggles DEF OwnToggle
  <1>9. ASSUME NEW q \in Queries, FetchLands(q) PROVE AllIsOwn'
    <2>1. UNCHANGED <<switch, me, outlived, toggle, Pending>>
      BY <1>9 DEF FetchLands, Pending
    <2>2. ASSUME NEW r \in Queries, OwnQuery(cache[r]) PROVE OwnQuery(cache[r])'
      <3>1. CASE r = q
        <4>1. cache[q].stage = "served" /\ cache'[q].of = cache[q].by /\ cache'[q].stage = "idle"
          BY <1>9, FetchLandsChanges DEF FetchLands
        <4> QED
          BY <2>1, <2>2, <3>1, <4>1 DEF OwnQuery
      <3>2. CASE r # q
        BY <1>9, <2>1, <2>2, <3>2, FetchLandsChanges DEF OwnQuery
      <3> QED
        BY <3>1, <3>2
    <2> QED
      BY <2>1, <2>2, OwnQueriesAndToggles DEF OwnToggle
  <1>10. ASSUME NEW q \in Queries, FetchFails(q) PROVE AllIsOwn'
    <2>1. UNCHANGED <<switch, me, outlived, toggle, Pending>>
      BY <1>10 DEF FetchFails, Pending
    <2>2. ASSUME NEW r \in Queries, OwnQuery(cache[r]) PROVE OwnQuery(cache[r])'
      BY <1>1, <1>10, <2>1, <2>2, FetchFailsChanges, IdleFields DEF OwnQuery
    <2> QED
      BY <2>1, <2>2, OwnQueriesAndToggles DEF OwnToggle
  <1>11. ASSUME NEW n \in Toggles, NEW f \in Films, NEW saved \in BOOLEAN, Toggle(n, f, saved)
         PROVE  AllIsOwn'
    <2>1. UNCHANGED <<switch, me, outlived>>
      BY <1>11 DEF Toggle
    <2>2. ASSUME NEW q \in Queries, OwnQuery(cache[q]) PROVE OwnQuery(cache[q])'
      <3>1. cache'[q] = Optimistic(q, cache[q], f, saved)
        BY <1>11, ToggleChanges
      <3>2. OwnQuery(Optimistic(q, cache[q], f, saved))
        BY <1>1, <2>2, OptimisticIsOwn
      <3> QED
        BY <2>1, <3>1, <3>2 DEF OwnQuery
    <2>3. ASSUME \A q \in Queries : OwnQuery(cache[q]), \A m \in Pending : OwnToggle(toggle[m]),
                 NEW m \in Pending'
          PROVE  OwnToggle(toggle[m])'
      <3>1. CASE m = n
        <4>1. \A q \in Queries : /\ toggle'[n].previous[q].known = cache[q].known
                                 /\ toggle'[n].previous[q].of = cache[q].of
          BY <1>11, ToggleChanges
        <4> QED
          BY <2>1, <2>3, <3>1, <4>1 DEF OwnQuery, OwnToggle
      <3>2. CASE m # n
        <4>1. m \in Pending /\ toggle'[m] = toggle[m]
          BY <1>11, <2>3, <3>2, ToggleChanges DEF Pending
        <4> QED
          BY <2>1, <2>3, <4>1 DEF OwnToggle
      <3> QED
        BY <3>1, <3>2
    <2> QED
      BY <2>1, <2>2, <2>3, OwnQueriesAndToggles
  <1>12. ASSUME NEW n \in Toggles, ToggleServed(n) PROVE AllIsOwn'
    <2>1. UNCHANGED <<switch, me, outlived, cache>>
      BY <1>12 DEF ToggleServed
    <2>2. Pending' = Pending /\ \A m \in Pending : toggle'[m].previous = toggle[m].previous
      BY <1>12, ToggleServedChanges DEF Pending
    <2> QED
      BY <2>1, <2>2, OwnQueriesAndToggles DEF OwnQuery, OwnToggle
  <1>13. ASSUME NEW n \in Toggles, NEW ok \in BOOLEAN, ToggleSettles(n, ok) PROVE AllIsOwn'
    <2>1. UNCHANGED <<switch, me, outlived>>
      BY <1>13 DEF ToggleSettles
    <2>2. ASSUME NEW q \in Queries, OwnQuery(cache[q]), OwnToggle(toggle[n])
          PROVE  OwnQuery(cache[q])'
      <3> DEFINE was == toggle[n].previous[q]
                 c == IF ok THEN cache[q] ELSE RolledBack(cache[q], was)
      <3>1. was \in Snapshot /\ cache'[q] = Invalidated(q, c)
        BY <1>13, ToggleSettlesChanges
      <3>2. was.known => was.of = me
        BY <2>2 DEF OwnToggle
      <3> HIDE DEF was
      <3>3. /\ c \in Query
            /\ c.stage = cache[q].stage /\ c.by = cache[q].by
            /\ c.known => c.of = me
        BY <1>1, <2>2, <3>1, <3>2, RolledBackFields DEF OwnQuery
      <3> HIDE DEF c
      <3>4. /\ cache'[q].known = c.known /\ cache'[q].of = c.of
            /\ cache'[q].stage # "idle" =>
                 cache'[q].by = me \/ (c.stage # "idle" /\ cache'[q].by = c.by)
        <4>1. c \in Query /\ me \in Owners /\ cache'[q] = Invalidated(q, c)
          BY <1>1, <3>1, <3>3
        <4> DEFINE i == Invalidated(q, c)
        <4>2. /\ i.known = c.known /\ i.of = c.of
              /\ i.stage # "idle" => i.by = me \/ (c.stage # "idle" /\ i.by = c.by)
          BY <4>1, InvalidatedFields, Zenon
        <4> HIDE DEF i
        <4>3. cache'[q] = i
          BY <4>1 DEF i
        <4> QED
          BY <4>2, <4>3, Zenon
      <3> QED
        BY <2>1, <2>2, <3>3, <3>4 DEF OwnQuery
    <2>3. ASSUME \A m \in Pending : OwnToggle(toggle[m]), NEW m \in Pending'
          PROVE  OwnToggle(toggle[m])'
      <3>1. m \in Pending /\ toggle'[m] = toggle[m]
        BY <1>13, <2>3, ToggleSettlesChanges DEF Pending
      <3> QED
        BY <2>1, <2>3, <3>1 DEF OwnToggle
    <2>4. n \in Pending
      BY <1>13, ToggleSettlesChanges
    <2> QED
      BY <2>1, <2>2, <2>3, <2>4, OwnQueriesAndToggles
  <1>14. CASE LeavePage
    BY <1>3, <1>14 DEF LeavePage
  <1>15. CASE UNCHANGED vars
    BY <1>3, <1>15 DEF vars
  <1> QED
    BY <1>2, <1>4, <1>5, <1>6, <1>7, <1>8, <1>9, <1>10, <1>11, <1>12, <1>13, <1>14, <1>15,
       BothToggle
    DEF Next

\* The inductive invariant of the cache's owners.
LEMMA OwnersInvariant == Spec => [](Typed /\ SessionFollows /\ AllIsOwn)
  <1>1. Init => SessionFollows /\ AllIsOwn
    <2> SUFFICES ASSUME Init PROVE SessionFollows /\ AllIsOwn
      OBVIOUS
    <2>1. Pending = {}
      BY DEF Init, Pending, NoToggle
    <2> QED
      BY <2>1 DEF Init, SessionFollows, AllIsOwn, Absent
  <1> QED
    BY <1>1, InitTyped, NextTyped, NextSessionFollows, NextAllIsOwn, PTL DEF Spec

\* However toggles, fetches and failures overlap with signing in and out: what is
\* on screen then is of the present identity, unless a toggle outlived the last.
THEOREM OwnListOnlyHolds == Spec => []OwnListOnly
  <1>1. AllIsOwn => OwnListOnly
    BY DEF AllIsOwn, OwnListOnly
  <1> QED
    BY <1>1, OwnersInvariant, PTL

-----------------------------------------------------------------------------
(* The wishlist: which films are in the cache.                             *)

LEMMA NextIdsAreCurrent ==
  Typed /\ SessionFollows /\ AllIsOwn /\ IdsAreCurrent /\ [Next]_vars => IdsAreCurrent'
  <1> SUFFICES ASSUME Typed, SessionFollows, AllIsOwn, IdsAreCurrent, [Next]_vars
               PROVE  IdsAreCurrent'
    OBVIOUS
  <1> DEFINE ids == cache["ids"]
  <1>1. ids \in Query /\ me \in Owners /\ "ids" \in Queries
    BY IdsAreAQuery DEF Typed, TypeOK
  <1>2. ASSUME UNCHANGED <<switch, outlived, lists, me, toggle>>, cache'["ids"] = ids
        PROVE  IdsAreCurrent'
    BY <1>2 DEF IdsAreCurrent, Pending
  <1>3. ASSUME UNCHANGED <<switch, outlived, lists, me, toggle>>, cache'["ids"] = Fetching(ids)
        PROVE  IdsAreCurrent'
    <2> DEFINE c == Fetching(ids)
    <2>1. c.known = ids.known /\ c.fresh = FALSE /\ c.stage = "sent"
      BY <1>1, FetchingFields
    <2> HIDE DEF c
    <2>2. cache'["ids"] = c
      BY <1>3 DEF c
    <2>3. Pending' = Pending
      BY <1>3 DEF Pending
    <2> QED
      BY <1>3, <2>1, <2>2, <2>3 DEF IdsAreCurrent
  <1>4. CASE OpenPage
    BY <1>2, <1>4, OpenPageChanges DEF OpenPage
  <1>5. CASE LeavePage
    BY <1>2, <1>5 DEF LeavePage
  <1>6. CASE Switch \/ SwitchFails
    BY <1>6 DEF Switch, SwitchFails, IdsAreCurrent, Pending
  <1>7. CASE SwitchServed
    BY <1>7 DEF SwitchServed, IdsAreCurrent
  <1>8. CASE SwitchLands
    <2>1. cache'["ids"] = Absent
      BY <1>1, <1>8 DEF SwitchLands, CacheAfterSwitch
    <2>2. ~outlived' => Pending' = {}
      BY <1>8 DEF SwitchLands, Pending
    <2> QED
      BY <2>1, <2>2 DEF IdsAreCurrent, Absent
  <1>9. ASSUME NEW q \in Queries, Refetch(q) PROVE IdsAreCurrent'
    <2>1. cache'["ids"] = ids \/ cache'["ids"] = Fetching(ids)
      BY <1>1, <1>9, RefetchChanges
    <2> QED
      BY <1>2, <1>3, <1>9, <2>1 DEF Refetch
  <1>10. ASSUME NEW q \in Queries, FetchServed(q) PROVE IdsAreCurrent'
    <2>1. CASE q # "ids"
      BY <1>1, <1>2, <1>10, <2>1, FetchServedChanges DEF FetchServed
    <2>2. CASE q = "ids"
      <3>1. UNCHANGED <<switch, outlived, lists, me, toggle, Pending>>
        BY <1>10 DEF FetchServed, Pending
      <3>2. PICK o \in ServedAs(ids.by) :
              cache'["ids"] = [ids EXCEPT !.stage = "served", !.by = o, !.got = lists[o]]
        BY <1>10, <2>2, FetchServedChanges
      <3>3. /\ cache'["ids"].known = ids.known /\ cache'["ids"].fresh = ids.fresh
            /\ cache'["ids"].films = ids.films /\ cache'["ids"].got = lists[o]
        BY <1>1, <3>2 DEF Query
      <3>4. ASSUME switch # "served", ~outlived PROVE o = me
        <4>1. ids.by = me
          BY <1>1, <1>10, <2>2, <3>4 DEF FetchServed, AllIsOwn
        <4> QED
          BY <3>2, <3>4, <4>1, ServedAsMe
      <3> QED
        BY <3>1, <3>3, <3>4 DEF IdsAreCurrent
    <2> QED
      BY <2>1, <2>2
  <1>11. ASSUME NEW q \in Queries, FetchLands(q) PROVE IdsAreCurrent'
    <2>1. CASE q # "ids"
      BY <1>1, <1>2, <1>11, <2>1, FetchLandsChanges DEF FetchLands
    <2>2. CASE q = "ids"
      <3>1. UNCHANGED <<switch, outlived, lists, me, toggle, Pending>>
        BY <1>11 DEF FetchLands, Pending
      <3>2. /\ ids.stage = "served"
            /\ cache'["ids"].films = ids.got /\ cache'["ids"].stage = "idle"
            /\ cache'["ids"].known
        BY <1>11, <2>2, FetchLandsChanges DEF FetchLands
      <3> QED
        BY <3>1, <3>2 DEF IdsAreCurrent
    <2> QED
      BY <2>1, <2>2
  <1>12. ASSUME NEW q \in Queries, FetchFails(q) PROVE IdsAreCurrent'
    <2>1. CASE q # "ids"
      BY <1>1, <1>2, <1>12, <2>1, FetchFailsChanges DEF FetchFails
    <2>2. CASE q = "ids"
      <3>1. UNCHANGED <<switch, outlived, lists, me, toggle, Pending>>
        BY <1>12 DEF FetchFails, Pending
      <3> DEFINE c == Idle(ids)
      <3>2. c.known = ids.known /\ c.fresh = ids.fresh /\ c.films = ids.films /\ c.stage = "idle"
        BY <1>1, IdleFields
      <3> HIDE DEF c
      <3>3. cache'["ids"] = c
        BY <1>12, <2>2, FetchFailsChanges DEF c
      <3> QED
        BY <3>1, <3>2, <3>3 DEF IdsAreCurrent
    <2> QED
      BY <2>1, <2>2
  <1>13. ASSUME NEW n \in Toggles, NEW f \in Films, NEW saved \in BOOLEAN, Toggle(n, f, saved)
         PROVE  IdsAreCurrent'
    <2>1. Pending' # {} /\ cache'["ids"] = Optimistic("ids", ids, f, saved)
      BY <1>1, <1>13, ToggleChanges
    <2>2. Optimistic("ids", ids, f, saved).known
      BY <1>1, IdsBecomeKnown
    <2> QED
      BY <2>1, <2>2 DEF IdsAreCurrent
  <1>14. ASSUME NEW n \in Toggles, ToggleServed(n) PROVE IdsAreCurrent'
    <2>1. Pending # {} /\ Pending' = Pending
      BY <1>14, ToggleServedChanges
    <2> QED
      BY <1>14, <2>1 DEF ToggleServed, IdsAreCurrent
  <1>15. ASSUME NEW n \in Toggles, NEW ok \in BOOLEAN, ToggleSettles(n, ok)
         PROVE  IdsAreCurrent'
    <2> SUFFICES ASSUME switch # "served", ~outlived
                 PROVE  /\ cache'["ids"].known
                        /\ ~cache'["ids"].fresh /\ cache'["ids"].stage # "served"
      BY <1>15 DEF ToggleSettles, IdsAreCurrent
    <2>1. ids.known
      BY <1>15, ToggleSettlesChanges DEF IdsAreCurrent
    <2> DEFINE c == IF ok THEN ids ELSE RolledBack(ids, toggle[n].previous["ids"])
    <2>2. toggle[n].previous["ids"] \in Snapshot /\ cache'["ids"] = Invalidated("ids", c)
      BY <1>1, <1>15, ToggleSettlesChanges
    <2>3. c \in Query /\ c.known
      BY <1>1, <2>1, <2>2, RolledBackFields
    <2> HIDE DEF c
    <2>4. cache'["ids"] = Fetching(c)
      BY <2>2, <2>3, KnownIdsAreFetchedAgain
    <2>5. Fetching(c).known /\ Fetching(c).fresh = FALSE /\ Fetching(c).stage = "sent"
      BY <1>1, <2>3, FetchingFields
    <2> QED
      BY <2>4, <2>5
  <1>16. CASE UNCHANGED vars
    BY <1>2, <1>16 DEF vars
  <1> QED
    BY <1>4, <1>5, <1>6, <1>7, <1>8, <1>9, <1>10, <1>11, <1>12, <1>13, <1>14, <1>15, <1>16,
       BothToggle
    DEF Next

\* However many films there are and however toggles, fetches, rollbacks and changes
\* of identity overlap: hearts that count as fresh once all toggles have ended are
\* the rows of the database.
THEOREM FreshIdsAreTheServersHolds == Spec => []FreshIdsAreTheServers
  <1>1. Init => IdsAreCurrent
    <2> SUFFICES ASSUME Init PROVE IdsAreCurrent
      OBVIOUS
    <2>1. Pending = {} /\ cache["ids"] = Absent
      BY IdsAreAQuery DEF Init, Pending, NoToggle
    <2> QED
      BY <2>1 DEF IdsAreCurrent, Absent
  <1>2. IdsAreCurrent => FreshIdsAreTheServers
    BY DEF IdsAreCurrent, FreshIdsAreTheServers
  <1> QED
    BY <1>1, <1>2, OwnersInvariant, NextIdsAreCurrent, PTL DEF Spec
=============================================================================
