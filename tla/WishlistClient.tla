--------------------------- MODULE WishlistClient ---------------------------
(***************************************************************************)
(* The wishlist in a browser (web/src/features/wishlist/api.ts) against    *)
(* its server: two cached copies, the ids behind every heart and the list  *)
(* of the wishlist page, optimistic toggles that overlap, and signing in   *)
(* and out (features/auth/api.ts) while requests are under way.            *)
(*                                                                         *)
(* The query cache is React Query, modelled from how it is called.  What   *)
(* it does between two awaits of its own is one step, since it awaits      *)
(* nothing but settled promises.  A request whose connection breaks was    *)
(* served before, or never is.  Entries of the list are their films.       *)
(***************************************************************************)
EXTENDS Naturals, FiniteSets

CONSTANTS Films,
          Device,       \* who owns the list when nobody is signed in
          User,         \* the account
          MaxToggles,   \* bound on the toggles of a behaviour
          MaxChanges,   \* bound on its toggles, sign-ins and sign-outs together
          None

ASSUME WishlistClientAssumption ==
  /\ Device # User
  /\ MaxToggles \in Nat
  /\ MaxChanges \in Nat
  /\ None \notin Films

Owners  == {Device, User}
Queries == {"ids", "list"}
Toggles == 1 .. MaxToggles

VARIABLES lists,     \* lists[o]: the rows of o in the database
          session,   \* whether the session of the account is alive
          me,        \* whom the cookies of the browser stand for
          switch,    \* the sign-in or sign-out under way: none, sent, served
          switches,  \* how many there have been
          onPage,    \* the wishlist page is open
          cache,     \* cache[q]: a query of the client
          toggle,    \* toggle[n]: the n-th mutation
          outlived   \* a toggle was pending when the identity changed

vars == <<lists, session, me, switch, switches, onPage, cache, toggle, outlived>>

\* A query: the data it has and from whose list; whether they count as fresh;
\* and its fetch: for whom it was sent and what the server answered.
Query == [known : BOOLEAN, films : SUBSET Films, of : Owners, fresh : BOOLEAN,
          stage : {"idle", "sent", "served"}, by : Owners, got : SUBSET Films]

Snapshot == [known : BOOLEAN, films : SUBSET Films, of : Owners]

Mutation == [stage : {"unused", "sent", "served", "settled"}, film : Films \cup {None},
             isSaved : BOOLEAN, by : Owners, previous : [Queries -> Snapshot]]

TypeOK ==
  /\ lists \in [Owners -> SUBSET Films]
  /\ session \in BOOLEAN
  /\ me \in Owners
  /\ switch \in {"none", "sent", "served"}
  /\ switches \in 0 .. MaxChanges
  /\ onPage \in BOOLEAN
  /\ cache \in [Queries -> Query]
  /\ toggle \in [Toggles -> Mutation]
  /\ outlived \in BOOLEAN

\* No data and no fetch.
Absent == [known |-> FALSE, films |-> {}, of |-> Device, fresh |-> FALSE,
           stage |-> "idle", by |-> Device, got |-> {}]

NoToggle == [stage |-> "unused", film |-> None, isSaved |-> FALSE, by |-> Device,
             previous |-> [q \in Queries |-> [known |-> FALSE, films |-> {}, of |-> Device]]]

Init ==
  /\ lists \in [Owners -> SUBSET Films]
  /\ me \in Owners
  /\ session = (me = User)
  /\ switch = "none"
  /\ switches = 0
  /\ onPage = FALSE
  /\ cache = [q \in Queries |-> Absent]
  /\ toggle = [n \in Toggles |-> NoToggle]
  /\ outlived = FALSE

Unused  == {n \in Toggles : toggle[n].stage = "unused"}
Pending == {n \in Toggles : toggle[n].stage \in {"sent", "served"}}

MayChange == Cardinality(Toggles \ Unused) + switches < MaxChanges

\* The header shows a count, so the ids are always in use.
Active(q) == q = "ids" \/ onPage

-----------------------------------------------------------------------------
(* The query cache.                                                        *)

Idle(c) == [c EXCEPT !.stage = "idle", !.by = Device, !.got = {}]

Fetching(c) == [Idle(c) EXCEPT !.stage = "sent", !.by = me, !.fresh = FALSE]

\* Mutant: a fetch under way is good enough.
InvalidatedDeduped(q, c) ==
  IF Active(q) /\ c.stage = "idle" THEN Fetching(c) ELSE [c EXCEPT !.fresh = FALSE]

\* invalidateQueries: what is in use is fetched again, in place of a fetch under
\* way, unless that one is the first; what is not in use only stops being fresh.
Invalidated(q, c) ==
  IF Active(q) /\ (c.known \/ c.stage = "idle") THEN Fetching(c) ELSE [c EXCEPT !.fresh = FALSE]

-----------------------------------------------------------------------------
(* Fetches.                                                                *)

\* A component mounts once staleTime has passed, or a retry button is used.
Refetch(q) ==
  /\ Active(q)
  /\ cache[q].stage = "idle"
  /\ cache' = [cache EXCEPT ![q] = Fetching(@)]
  /\ UNCHANGED <<lists, session, me, switch, switches, onPage, toggle, outlived>>

\* Whom a request sent for by is served as: a session may have ended before the
\* request reached the server.
ServedAs(by) == IF by = User /\ ~session THEN Owners ELSE {by}

\* The server reads the rows.
FetchServed(q) ==
  /\ cache[q].stage = "sent"
  /\ \E o \in ServedAs(cache[q].by) :
       cache' = [cache EXCEPT ![q].stage = "served", ![q].by = o, ![q].got = lists[o]]
  /\ UNCHANGED <<lists, session, me, switch, switches, onPage, toggle, outlived>>

FetchLands(q) ==
  /\ cache[q].stage = "served"
  /\ LET c == cache[q]
     IN  cache' = [cache EXCEPT ![q] = Idle([c EXCEPT !.known = TRUE, !.films = c.got,
                                                      !.of = c.by, !.fresh = TRUE])]
  /\ UNCHANGED <<lists, session, me, switch, switches, onPage, toggle, outlived>>

\* All its attempts have failed; data there were stay, no fresher than before.
FetchFails(q) ==
  /\ cache[q].stage # "idle"
  /\ cache' = [cache EXCEPT ![q] = Idle(@)]
  /\ UNCHANGED <<lists, session, me, switch, switches, onPage, toggle, outlived>>

\* The wishlist page is opened, which may fetch the list, and must if it is not
\* fresh, or left, which does not stop a fetch.
OpenPage ==
  /\ ~onPage
  /\ onPage' = TRUE
  /\ LET c == cache["list"]
     IN  \/ c.stage = "idle" /\ cache' = [cache EXCEPT !["list"] = Fetching(c)]
         \/ (c.stage # "idle" \/ c.fresh) /\ UNCHANGED cache
  /\ UNCHANGED <<lists, session, me, switch, switches, toggle, outlived>>

LeavePage ==
  /\ onPage
  /\ onPage' = FALSE
  /\ UNCHANGED <<lists, session, me, switch, switches, cache, toggle, outlived>>

-----------------------------------------------------------------------------
(* Toggles.                                                                *)

SnapshotOf(c) == [known |-> c.known, films |-> c.films, of |-> c.of]

With(films, f, isSaved) == IF isSaved THEN films \ {f} ELSE films \cup {f}

\* cancelQueries: the query is what it was before its fetch, whose answer is
\* discarded.
Cancelled(c) == Idle(c)

\* Then the data are written, a list only if there is one.
Optimistic(q, c, f, isSaved) ==
  IF q = "list" /\ ~c.known THEN Cancelled(c)
  ELSE [Cancelled(c) EXCEPT !.known = TRUE, !.films = With(@, f, isSaved), !.fresh = TRUE,
                            !.of = IF c.known THEN @ ELSE me]

\* onMutate, and the request is sent.
Toggle(n, f, isSaved) ==
  /\ n \in Unused /\ \A m \in Unused : n <= m
  /\ MayChange
  /\ toggle' = [toggle EXCEPT ![n] =
       [stage |-> "sent", film |-> f, isSaved |-> isSaved, by |-> me,
        previous |-> [q \in Queries |-> SnapshotOf(cache[q])]]]
  /\ cache' = [q \in Queries |-> Optimistic(q, cache[q], f, isSaved)]
  /\ UNCHANGED <<lists, session, me, switch, switches, onPage, outlived>>

\* A heart on a card or on the page of a film says what the ids say, if they
\* are known; an entry of the wishlist page can only be removed.
ToggleHeart(n, f)  == Toggle(n, f, cache["ids"].known /\ f \in cache["ids"].films)
RemoveEntry(n, f) ==
  /\ onPage /\ cache["list"].known /\ f \in cache["list"].films
  /\ Toggle(n, f, TRUE)

\* The server writes the row or deletes it; both may find it done already.
ToggleServed(n) ==
  /\ toggle[n].stage = "sent"
  /\ toggle' = [toggle EXCEPT ![n].stage = "served"]
  /\ \E o \in ServedAs(toggle[n].by) :
       lists' = [lists EXCEPT ![o] = With(@, toggle[n].film, toggle[n].isSaved)]
  /\ UNCHANGED <<session, me, switch, switches, onPage, cache, outlived>>

\* onError: what there was at onMutate is put back.
RolledBack(c, was) ==
  IF was.known
  THEN [c EXCEPT !.known = TRUE, !.films = was.films, !.of = was.of, !.fresh = TRUE]
  ELSE c

\* onError when it failed, and onSettled.
ToggleSettles(n, ok) ==
  /\ toggle[n].stage = "served" \/ (toggle[n].stage = "sent" /\ ~ok)
  /\ toggle' = [toggle EXCEPT ![n] = [NoToggle EXCEPT !.stage = "settled"]]
  /\ cache' = [q \in Queries |->
       Invalidated(q, IF ok THEN cache[q] ELSE RolledBack(cache[q], toggle[n].previous[q]))]
  /\ UNCHANGED <<lists, session, me, switch, switches, onPage, outlived>>

-----------------------------------------------------------------------------
(* Signing in and out.                                                     *)

\* One at a time: the form and the menu are disabled meanwhile.
Switch ==
  /\ switch = "none" /\ MayChange
  /\ switch' = "sent"
  /\ switches' = switches + 1
  /\ UNCHANGED <<lists, session, me, onPage, cache, toggle, outlived>>

\* Signing in moves the films of the device to the account and begins a session;
\* signing out ends it.
SwitchServed ==
  /\ switch = "sent"
  /\ switch' = "served"
  /\ session' = (me = Device)
  /\ lists' = IF me = Device THEN [lists EXCEPT ![User] = @ \cup lists[Device], ![Device] = {}]
              ELSE lists
  /\ UNCHANGED <<me, switches, onPage, cache, toggle, outlived>>

\* Mutant: both queries are invalidated, not removed.
CacheInvalidated == [q \in Queries |-> Invalidated(q, cache[q])]

\* useIdentityChanged: both queries are removed, with their fetches.
CacheAfterSwitch == [q \in Queries |-> Absent]

\* The answer brings the cookies.
SwitchLands ==
  /\ switch = "served"
  /\ switch' = "none"
  /\ me' = IF me = Device THEN User ELSE Device
  /\ cache' = CacheAfterSwitch
  /\ outlived' = (outlived \/ Pending # {})
  /\ UNCHANGED <<lists, session, switches, onPage, toggle>>

SwitchFails ==
  /\ switch = "sent"
  /\ switch' = "none"
  /\ UNCHANGED <<lists, session, me, switches, onPage, cache, toggle, outlived>>

-----------------------------------------------------------------------------
Next ==
  \/ OpenPage \/ LeavePage
  \/ Switch \/ SwitchServed \/ SwitchLands \/ SwitchFails
  \/ \E q \in Queries : \/ Refetch(q) \/ FetchServed(q)
                         \/ FetchLands(q) \/ FetchFails(q)
  \/ \E n \in Toggles : \/ \E f \in Films : ToggleHeart(n, f) \/ RemoveEntry(n, f)
                         \/ ToggleServed(n)
                         \/ \E ok \in BOOLEAN : ToggleSettles(n, ok)

Spec == Init /\ [][Next]_vars

-----------------------------------------------------------------------------
(* Properties.                                                             *)

\* Once no toggle is under way, hearts that count as fresh are what the server
\* has: whatever fetches, rollbacks and other toggles overlapped, none of them
\* has left its trace.  A toggle of one identity that ends under the next is
\* excepted.
FreshIdsAreTheServers ==
  /\ Pending = {} /\ switch = "none" /\ ~outlived
  /\ cache["ids"].known /\ cache["ids"].fresh
  => cache["ids"].films = lists[me]

\* After signing in or out nothing of the previous owner's list is on screen,
\* not even until the next fetch lands; again unless a toggle is under way then.
OwnListOnly ==
  switch = "none" /\ ~outlived =>
    \A q \in Queries : cache[q].known => cache[q].of = me

\* The inductive invariants behind the two (WebProofs).  Unless the server has
\* changed the identity and the browser does not know yet, the session is that of
\* the identity,
SessionFollows ==
  session <=> IF switch = "served" THEN me = Device ELSE me = User

\* and everything that may reach the screen is of the identity: what is there, what
\* a fetch brings and what a rollback puts back.
AllIsOwn ==
  switch # "served" /\ ~outlived =>
    /\ \A q \in Queries : /\ cache[q].known => cache[q].of = me
                          /\ cache[q].stage # "idle" => cache[q].by = me
    /\ \A n \in Pending, q \in Queries :
         toggle[n].previous[q].known => toggle[n].previous[q].of = me

\* A toggle makes the ids known, so its end can replace every fetch that began
\* before it; and once none is under way, data that are fresh and answers on their
\* way are the server's.
IdsAreCurrent ==
  switch # "served" /\ ~outlived =>
    IF Pending # {} THEN cache["ids"].known
    ELSE /\ cache["ids"].known /\ cache["ids"].fresh => cache["ids"].films = lists[me]
         /\ cache["ids"].stage = "served" => cache["ids"].got = lists[me]

\* What the comment at useIdentityChanged says: one user is never shown the
\* films of another.
NeverAnothersList ==
  switch = "none" => \A q \in Queries : cache[q].known => cache[q].of = me
=============================================================================
