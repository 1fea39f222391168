------------------------------ MODULE Accounts ------------------------------
(***************************************************************************)
(* Accounts, sessions and wishlists: services/authService.ts with the      *)
(* routes and middleware that call it.  A handler makes several database   *)
(* calls and other handlers run between them, in the same process or in    *)
(* another: an action is one call, or one transaction.                     *)
(*                                                                         *)
(* A wishlist row belongs to a browser's device or to a user.  Signup and  *)
(* login move the rows of the device to the account: the handler reads     *)
(* both lists, by two queries, then moves and deletes rows by id.          *)
(*                                                                         *)
(* A user is known by its email and a device by its browser.  Whether a    *)
(* password matches is left open, and a request refused before it writes   *)
(* is no step.  Left out: rate limits, snapshots, cookie flags, the reads  *)
(* of the list.                                                            *)
(***************************************************************************)
EXTENDS Naturals, FiniteSets

CONSTANTS Browsers,   \* each holds a device cookie and a session cookie
          Users,      \* accounts, registered or not
          Movies,
          Ids,        \* ids of wishlist rows
          Tokens,     \* session tokens
          Requests,   \* handlers that may run at once
          None

Owners == Browsers \cup Users
Row    == [owner : Owners, movie : Movies]
Item   == [id : Ids, movie : Movies]

Phase == {"device", "insert", "remove", "create", "claim", "session", "change",
          "logout", "leave"}

\* A running handler: what it does next, for whom, and, of a claim, which
\* lists it has read and what they held.
Handler == [phase : Phase, browser : Browsers, owner : Owners,
            movie : Movies \cup {None}, token : Tokens \cup {None},
            seen : SUBSET {"device", "account"}, items : SUBSET Item,
            films : SUBSET Movies]

ASSUME DistinctAssumption ==
  /\ Browsers \cap Users = {}
  /\ None \notin Owners \cup Movies \cup Ids \cup Tokens
  /\ None \notin Row \cup Handler
  /\ None \notin [user : Users, live : BOOLEAN]

VARIABLES users,      \* registered users
          devices,    \* rows of Device
          rows,       \* rows[i]: the wishlist row with id i, or None
          sessions,   \* sessions[t]: user and liveness of a session, or None
          cookie,     \* cookie[b]: the session token browser b holds, or None
          req,        \* req[r]: a running handler, or None
          wanted,     \* history: who asked to save which movie
          logins      \* history: the accounts a browser proved to be its own

vars == <<users, devices, rows, sessions, cookie, req, wanted, logins>>

-----------------------------------------------------------------------------
(* The tables.                                                             *)

IdsOf(o)   == {i \in Ids : rows[i] # None /\ rows[i].owner = o}
FilmsOf(o) == {rows[i].movie : i \in IdsOf(o)}
ItemsOf(o) == {[id |-> i, movie |-> rows[i].movie] : i \in IdsOf(o)}

\* A uuid is never given twice: an id some handler has read is not free.
FreshIds == {i \in Ids : /\ rows[i] = None
                         /\ \A r \in Requests : req[r] # None =>
                              \A x \in req[r].items : x.id # i}

FreshTokens == {t \in Tokens : /\ sessions[t] = None
                               /\ \A b \in Browsers : cookie[b] # t
                               /\ \A r \in Requests : req[r] # None => req[r].token # t}

\* resolveSession: a live session names its user, an expired one is removed.
Live(b)    == cookie[b] # None /\ sessions[cookie[b]] # None /\ sessions[cookie[b]].live
Expired(b) == cookie[b] # None /\ sessions[cookie[b]] # None /\ ~sessions[cookie[b]].live

\* The removal may fail, unnoticed.
SessionsOnceRead(b) ==
  {sessions} \cup IF Expired(b) THEN {[sessions EXCEPT ![cookie[b]] = None]} ELSE {}

\* wishlistOwner: the user of the session, else the device.  loadUser goes on
\* as anonymous when the session cannot be read.
OwnersOf(b) == {b} \cup IF Live(b) THEN {sessions[cookie[b]].user} ELSE {}

Handle(phase, b, o, m, t) ==
  [phase |-> phase, browser |-> b, owner |-> o, movie |-> m, token |-> t,
   seen |-> {}, items |-> {}, films |-> {}]

Idle(r) == req[r] = None

Goes(r, phase) == req' = [req EXCEPT ![r].phase = phase]
Ends(r)        == req' = [req EXCEPT ![r] = None]

Init ==
  /\ users = {}
  /\ devices = {}
  /\ rows = [i \in Ids |-> None]
  /\ sessions = [t \in Tokens |-> None]
  /\ cookie = [b \in Browsers |-> None]
  /\ req = [r \in Requests |-> None]
  /\ wanted = {}
  /\ logins = {}

-----------------------------------------------------------------------------
(* POST /wishlist: the owner is known before the film is fetched.          *)

\* Mutant: the device is recorded whoever owns the row.
AskToSaveDeviceFirst(r, b, m) ==
  /\ Idle(r)
  /\ \E o \in OwnersOf(b) :
       /\ req' = [req EXCEPT ![r] = Handle("device", b, o, m, None)]
       /\ wanted' = wanted \cup {<<o, m>>}
  /\ sessions' \in SessionsOnceRead(b)
  /\ UNCHANGED <<users, devices, rows, cookie, logins>>

\* Mutant: the device is never recorded.
AskToSaveUnrecorded(r, b, m) ==
  /\ Idle(r)
  /\ \E o \in OwnersOf(b) :
       /\ req' = [req EXCEPT ![r] = Handle("insert", b, o, m, None)]
       /\ wanted' = wanted \cup {<<o, m>>}
  /\ sessions' \in SessionsOnceRead(b)
  /\ UNCHANGED <<users, devices, rows, cookie, logins>>

AskToSave(r, b, m) ==
  /\ Idle(r)
  /\ \E o \in OwnersOf(b) :
       /\ req' = [req EXCEPT ![r] =
                    Handle(IF o = b THEN "device" ELSE "insert", b, o, m, None)]
       /\ wanted' = wanted \cup {<<o, m>>}
  /\ sessions' \in SessionsOnceRead(b)
  /\ UNCHANGED <<users, devices, rows, cookie, logins>>

UpsertDevice(r) ==
  /\ req[r] # None /\ req[r].phase = "device"
  /\ devices' = devices \cup {req[r].owner}
  /\ Goes(r, "insert")
  /\ UNCHANGED <<users, rows, sessions, cookie, wanted, logins>>

\* The upsert on the owner's unique key; a row that is there keeps its place.
InsertRow(r) ==
  /\ req[r] # None /\ req[r].phase = "insert"
  /\ IF req[r].movie \in FilmsOf(req[r].owner) THEN UNCHANGED rows
     ELSE \E i \in FreshIds :
            rows' = [rows EXCEPT ![i] = [owner |-> req[r].owner, movie |-> req[r].movie]]
  /\ Ends(r)
  /\ UNCHANGED <<users, devices, sessions, cookie, wanted, logins>>

(* DELETE /wishlist/:movieId                                               *)

AskToRemove(r, b, m) ==
  /\ Idle(r)
  /\ \E o \in OwnersOf(b) :
       req' = [req EXCEPT ![r] = Handle("remove", b, o, m, None)]
  /\ sessions' \in SessionsOnceRead(b)
  /\ UNCHANGED <<users, devices, rows, cookie, wanted, logins>>

RemoveRow(r) ==
  /\ req[r] # None /\ req[r].phase = "remove"
  /\ rows' = [i \in Ids |-> IF i \in IdsOf(req[r].owner) /\ rows[i].movie = req[r].movie
                            THEN None ELSE rows[i]]
  /\ Ends(r)
  /\ UNCHANGED <<users, devices, sessions, cookie, wanted, logins>>

-----------------------------------------------------------------------------
(* POST /auth/signup and /auth/login.                                      *)

\* registerUser finds no account with the email, and hashes the password.
Signup(r, b, u) ==
  /\ Idle(r)
  /\ u \notin users
  /\ req' = [req EXCEPT ![r] = Handle("create", b, u, None, None)]
  /\ sessions' \in SessionsOnceRead(b)
  /\ UNCHANGED <<users, devices, rows, cookie, wanted, logins>>

\* The email is unique: another signup may have taken it meanwhile.
CreateUser(r) ==
  /\ req[r] # None /\ req[r].phase = "create"
  /\ req[r].owner \notin users
  /\ users' = users \cup {req[r].owner}
  /\ logins' = logins \cup {<<req[r].browser, req[r].owner>>}
  /\ Goes(r, "claim")
  /\ UNCHANGED <<devices, rows, sessions, cookie, wanted>>

\* authenticate finds the account and the password matches.
Authenticate(r, b, u) ==
  /\ Idle(r)
  /\ u \in users
  /\ logins' = logins \cup {<<b, u>>}
  /\ req' = [req EXCEPT ![r] = Handle("claim", b, u, None, None)]
  /\ sessions' \in SessionsOnceRead(b)
  /\ UNCHANGED <<users, devices, rows, cookie, wanted>>

\* Mutant: every anonymous row is read, not those of this device.
ReadAnyDeviceList(r) ==
  /\ req[r] # None /\ req[r].phase = "claim" /\ "device" \notin req[r].seen
  /\ req' = [req EXCEPT ![r].seen = @ \cup {"device"}, ![r].items = UNION {ItemsOf(b) : b \in Browsers}]
  /\ UNCHANGED <<users, devices, rows, sessions, cookie, wanted, logins>>

\* claimDeviceWishlist: its two reads, in either order.
ReadDeviceList(r) ==
  /\ req[r] # None /\ req[r].phase = "claim" /\ "device" \notin req[r].seen
  /\ req' = [req EXCEPT ![r].seen = @ \cup {"device"}, ![r].items = ItemsOf(req[r].browser)]
  /\ UNCHANGED <<users, devices, rows, sessions, cookie, wanted, logins>>

ReadAccountList(r) ==
  /\ req[r] # None /\ req[r].phase = "claim" /\ "account" \notin req[r].seen
  /\ req' = [req EXCEPT ![r].seen = @ \cup {"account"}, ![r].films = FilmsOf(req[r].owner)]
  /\ UNCHANGED <<users, devices, rows, sessions, cookie, wanted, logins>>

ListsRead(r) ==
  req[r] # None /\ req[r].phase = "claim" /\ req[r].seen = {"device", "account"}

\* Mutant: nothing counts as already saved.
ToClaimAll(r) == req[r].items

ToClaim(r) == {x \in req[r].items : x.movie \notin req[r].films}

ClaimedIds(r)   == {x.id : x \in ToClaim(r)}
DuplicateIds(r) == {x.id : x \in req[r].items \ ToClaim(r)}

\* The transaction commits: every row to move is still there, and none of
\* their films is on the account by another row.
CanClaim(r) ==
  \A x \in ToClaim(r) :
    /\ rows[x.id] # None
    /\ \A i \in IdsOf(req[r].owner) : rows[i].movie = x.movie => i = x.id

\* Mutant: the duplicates are left on the device's list.
ClaimLeavingDuplicates(r) ==
  /\ ListsRead(r)
  /\ CanClaim(r)
  /\ rows' = [i \in Ids |-> IF i \in ClaimedIds(r) THEN [rows[i] EXCEPT !.owner = req[r].owner]
                            ELSE rows[i]]
  /\ Goes(r, "session")
  /\ UNCHANGED <<users, devices, sessions, cookie, wanted, logins>>

Claim(r) ==
  /\ ListsRead(r)
  /\ CanClaim(r)
  /\ rows' = [i \in Ids |->
                IF i \in DuplicateIds(r) THEN None
                ELSE IF i \in ClaimedIds(r) THEN [rows[i] EXCEPT !.owner = req[r].owner]
                ELSE rows[i]]
  /\ Goes(r, "session")
  /\ UNCHANGED <<users, devices, sessions, cookie, wanted, logins>>

\* createSession, and the answer that sets the cookie.
OpenSession(r) ==
  /\ req[r] # None /\ req[r].phase = "session"
  /\ \E t \in FreshTokens :
       /\ sessions' = [sessions EXCEPT ![t] = [user |-> req[r].owner, live |-> TRUE]]
       /\ cookie' = [cookie EXCEPT ![req[r].browser] = t]
  /\ Ends(r)
  /\ UNCHANGED <<users, devices, rows, wanted, logins>>

-----------------------------------------------------------------------------
(* Sessions.                                                               *)

\* POST /auth/logout: the row goes first, if loadUser found the session.
AskToLogout(r, b) ==
  /\ Idle(r)
  /\ \E t \in {None} \cup IF Live(b) THEN {cookie[b]} ELSE {} :
       req' = [req EXCEPT ![r] = Handle(IF t = None THEN "leave" ELSE "logout", b, b, None, t)]
  /\ sessions' \in SessionsOnceRead(b)
  /\ UNCHANGED <<users, devices, rows, cookie, wanted, logins>>

DestroySession(r) ==
  /\ req[r] # None /\ req[r].phase = "logout"
  /\ sessions' = [t \in Tokens |-> IF t = req[r].token THEN None ELSE sessions[t]]
  /\ Goes(r, "leave")
  /\ UNCHANGED <<users, devices, rows, cookie, wanted, logins>>

\* The answer clears whatever session cookie the browser has by then.
ClearCookie(r) ==
  /\ req[r] # None /\ req[r].phase = "leave"
  /\ cookie' = [cookie EXCEPT ![req[r].browser] = None]
  /\ Ends(r)
  /\ UNCHANGED <<users, devices, rows, sessions, wanted, logins>>

\* PATCH /auth/password: the current password matches.
AskToChange(r, b) ==
  /\ Idle(r)
  /\ Live(b)
  /\ req' = [req EXCEPT ![r] =
               Handle("change", b, sessions[cookie[b]].user, None, cookie[b])]
  /\ UNCHANGED <<users, devices, rows, sessions, cookie, wanted, logins>>

\* Every session of the user is deleted except the one that asked.
ChangePassword(r) ==
  /\ req[r] # None /\ req[r].phase = "change"
  /\ sessions' = [t \in Tokens |->
                    IF sessions[t] # None /\ sessions[t].user = req[r].owner
                       /\ t # req[r].token
                    THEN None ELSE sessions[t]]
  /\ Ends(r)
  /\ UNCHANGED <<users, devices, rows, cookie, wanted, logins>>

\* A session passes its expiresAt.
Expire(t) ==
  /\ sessions[t] # None /\ sessions[t].live
  /\ sessions' = [sessions EXCEPT ![t].live = FALSE]
  /\ UNCHANGED <<users, devices, rows, cookie, req, wanted, logins>>

SweepExpiredSessions ==
  /\ sessions' = [t \in Tokens |-> IF sessions[t] # None /\ ~sessions[t].live
                                   THEN None ELSE sessions[t]]
  /\ UNCHANGED <<users, devices, rows, cookie, req, wanted, logins>>

\* A handler throws or its process stops: what it has written stays.
Fail(r) ==
  /\ req[r] # None
  /\ Ends(r)
  /\ UNCHANGED <<users, devices, rows, sessions, cookie, wanted, logins>>

Begin(r) ==
  \E b \in Browsers :
    \/ \E m \in Movies : AskToSave(r, b, m) \/ AskToRemove(r, b, m)
    \/ \E u \in Users : Signup(r, b, u) \/ Authenticate(r, b, u)
    \/ AskToChange(r, b) \/ AskToLogout(r, b)

Continue(r) ==
  \/ UpsertDevice(r) \/ InsertRow(r) \/ RemoveRow(r)
  \/ CreateUser(r) \/ ReadDeviceList(r) \/ ReadAccountList(r) \/ Claim(r)
  \/ OpenSession(r) \/ ChangePassword(r) \/ DestroySession(r) \/ ClearCookie(r)
  \/ Fail(r)

Next ==
  \/ \E r \in Requests : Begin(r) \/ Continue(r)
  \/ \E t \in Tokens : Expire(t)
  \/ SweepExpiredSessions

Spec == Init /\ [][Next]_vars

-----------------------------------------------------------------------------
(* Properties.                                                             *)

\* Type correctness of the tables, the cookies and the handlers.
TypeOK ==
  /\ users \subseteq Users
  /\ devices \subseteq Browsers
  /\ rows \in [Ids -> Row \cup {None}]
  /\ sessions \in [Tokens -> [user : Users, live : BOOLEAN] \cup {None}]
  /\ cookie \in [Browsers -> Tokens \cup {None}]
  /\ req \in [Requests -> Handler \cup {None}]
  /\ wanted \subseteq Owners \X Movies
  /\ logins \subseteq Browsers \X Users

\* However claims, saves and removals race, a film is on a list only because
\* its owner saved it, or, for an account, because a device that logged in to
\* it did.
FilmsComeFromTheirOwner ==
  \A i \in Ids : rows[i] # None =>
    LET o == rows[i].owner  m == rows[i].movie IN
    \/ <<o, m>> \in wanted
    \/ \E b \in Browsers : <<b, o>> \in logins /\ <<b, m>> \in wanted

\* A claim leaves the anonymous lists of other devices alone, even rows that
\* were read before it and have moved since.
ClaimSparesOtherDevices ==
  [][\A r \in Requests : Claim(r) =>
       \A b \in Browsers \ {req[r].browser} : ItemsOf(b)' = ItemsOf(b)]_vars

\* The lists are as the handler read them.
ReadsAreCurrent(r) ==
  ListsRead(r) /\ req[r].items = ItemsOf(req[r].browser)
               /\ req[r].films = FilmsOf(req[r].owner)

\* A claim whose reads are still current can commit.
CurrentClaimCommits == \A r \in Requests : ReadsAreCurrent(r) => CanClaim(r)

\* And it merges the lists: no film of either is lost, none stays behind.
CurrentClaimMerges ==
  [][\A r \in Requests : ReadsAreCurrent(r) /\ Claim(r) =>
       /\ FilmsOf(req[r].owner)' = FilmsOf(req[r].owner) \cup FilmsOf(req[r].browser)
       /\ FilmsOf(req[r].browser)' = {}]_vars

\* A row is inserted only for an owner the tables know, so its foreign key
\* never fails.
OwnerIsKnown ==
  \A r \in Requests : req[r] # None /\ req[r].phase = "insert" =>
    req[r].owner \in users \cup devices

-----------------------------------------------------------------------------
(* What the documentation says and the code does not do.                   *)

\* "their items are claimed into the account rather than lost": a film on an
\* account leaves it only by a removal its user asked for.
AccountKeepsFilms ==
  [][\A u \in Users : \A m \in FilmsOf(u) \ FilmsOf(u)' :
       \E r \in Requests : RemoveRow(r) /\ req[r].owner = u /\ req[r].movie = m]_vars
=============================================================================
