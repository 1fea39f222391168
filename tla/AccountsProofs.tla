--------------------------- MODULE AccountsProofs ---------------------------
(***************************************************************************)
(* Proofs about Accounts for every number of browsers, accounts, films,    *)
(* rows, sessions and handlers.                                            *)
(***************************************************************************)
EXTENDS Accounts, TLAPS

Running(r) == req[r] # None

\* What a handler is for fits what it does next.
Fits(h) ==
  /\ h.phase = "device" => h.owner \in Browsers
  /\ h.phase \in {"device", "insert", "remove"} => h.movie \in Movies
  /\ h.phase \in {"create", "claim", "session", "change"} => h.owner \in Users

WellFormed ==
  /\ TypeOK
  /\ \A r \in Requests : Running(r) => Fits(req[r])

-----------------------------------------------------------------------------
(* Handlers and the steps they take.                                       *)

LEMMA Apart ==
  /\ \A b \in Browsers : b \notin Users
  /\ None \notin Owners /\ None \notin Movies /\ None \notin Ids /\ None \notin Tokens
  /\ None \notin Row /\ None \notin Handler
BY DistinctAssumption DEF Owners

LEMMA HandleIsHandler ==
  ASSUME NEW p \in Phase, NEW b \in Browsers, NEW o \in Owners,
         NEW m \in Movies \cup {None}, NEW t \in Tokens \cup {None}
  PROVE  /\ Handle(p, b, o, m, t) \in Handler
         /\ Handle(p, b, o, m, t).phase = p /\ Handle(p, b, o, m, t).browser = b
         /\ Handle(p, b, o, m, t).owner = o /\ Handle(p, b, o, m, t).movie = m
         /\ Handle(p, b, o, m, t).token = t /\ Handle(p, b, o, m, t).items = {}
<1> DEFINE h == Handle(p, b, o, m, t)
<1>1. h.seen = {} /\ h.items = {} /\ h.films = {}
  BY DEF Handle
<1>2. {} \in SUBSET {"device", "account"} /\ {} \in SUBSET Item /\ {} \in SUBSET Movies
  OBVIOUS
<1>3. h \in Handler
  BY <1>2 DEF Handle, Handler
<1>4. QED
  BY <1>1, <1>3 DEF Handle

\* Going on to another phase changes nothing else of a handler.
LEMMA GoesStep ==
  ASSUME TypeOK, NEW r \in Requests, Running(r), NEW p \in Phase, Goes(r, p)
  PROVE  /\ req' \in [Requests -> Handler \cup {None}]
         /\ \A q \in Requests \ {r} : req'[q] = req[q]
         /\ req'[r] # None /\ req'[r].phase = p /\ req'[r].browser = req[r].browser
         /\ req'[r].owner = req[r].owner /\ req'[r].movie = req[r].movie
         /\ req'[r].items = req[r].items
<1>1. req[r] \in Handler
  BY DEF TypeOK, Running
<1>2. [req[r] EXCEPT !.phase = p] \in Handler
  BY <1>1 DEF Handler
<1>3. req' = [req EXCEPT ![r] = [req[r] EXCEPT !.phase = p]]
  BY DEF Goes, TypeOK
<1>4. [req[r] EXCEPT !.phase = p].phase = p
      /\ [req[r] EXCEPT !.phase = p].browser = req[r].browser
      /\ [req[r] EXCEPT !.phase = p].owner = req[r].owner
      /\ [req[r] EXCEPT !.phase = p].movie = req[r].movie
      /\ [req[r] EXCEPT !.phase = p].items = req[r].items
  BY <1>1 DEF Handler
<1>5. req'[r] = [req[r] EXCEPT !.phase = p]
  BY <1>3 DEF TypeOK
<1>6. QED
  BY <1>2, <1>3, <1>4, <1>5, Apart DEF TypeOK

LEMMA EndsStep ==
  ASSUME TypeOK, NEW r \in Requests, Ends(r)
  PROVE  /\ req' \in [Requests -> Handler \cup {None}]
         /\ \A q \in Requests \ {r} : req'[q] = req[q]
         /\ req'[r] = None
BY DEF TypeOK, Ends

LEMMA BeginsStep ==
  ASSUME TypeOK, NEW r \in Requests, NEW h \in Handler, req' = [req EXCEPT ![r] = h]
  PROVE  /\ req' \in [Requests -> Handler \cup {None}]
         /\ \A q \in Requests \ {r} : req'[q] = req[q]
         /\ req'[r] = h /\ req'[r] # None
BY Apart DEF TypeOK

\* The owner read for a request is its device or a user.
LEMMA OwnersOfType ==
  ASSUME TypeOK, NEW b \in Browsers, NEW o \in OwnersOf(b)
  PROVE  /\ o \in Owners
         /\ o # b => Live(b) /\ o \in Users /\ o = sessions[cookie[b]].user
                     /\ cookie[b] \in Tokens
BY DistinctAssumption DEF OwnersOf, Owners, Live, TypeOK

LEMMA ReadSessions ==
  ASSUME TypeOK, NEW b \in Browsers, sessions' \in SessionsOnceRead(b)
  PROVE  /\ sessions' \in [Tokens -> [user : Users, live : BOOLEAN] \cup {None}]
         /\ \A t \in Tokens : sessions'[t] = sessions[t] \/ sessions'[t] = None
<1>1. CASE sessions' = sessions
  BY <1>1 DEF TypeOK
<1>2. CASE sessions' # sessions
  BY <1>2 DEF SessionsOnceRead, TypeOK, Expired
<1>3. QED
  BY <1>1, <1>2

\* A logout owns nothing and has read nothing.
LEMMA LogoutHandles ==
  ASSUME TypeOK, NEW r \in Requests, NEW b \in Browsers, AskToLogout(r, b)
  PROVE  \E h \in Handler : /\ h.phase \in {"logout", "leave"} /\ h.items = {}
                            /\ req' = [req EXCEPT ![r] = h]
<1>1. PICK t \in Tokens \cup {None} :
        req' = [req EXCEPT ![r] = Handle(IF t = None THEN "leave" ELSE "logout", b, b, None, t)]
  BY Apart DEF AskToLogout, Live, TypeOK
<1>2. ASSUME NEW p \in {"logout", "leave"}
      PROVE  /\ Handle(p, b, b, None, t) \in Handler
             /\ Handle(p, b, b, None, t).phase = p /\ Handle(p, b, b, None, t).items = {}
  BY HandleIsHandler DEF Phase, Owners
<1>3. CASE t = None
  BY <1>1, <1>2, <1>3
<1>4. CASE t # None
  BY <1>1, <1>2, <1>4
<1>5. QED
  BY <1>3, <1>4

-----------------------------------------------------------------------------
(* Type correctness.                                                       *)

LEMMA WellFormedInit == Init => WellFormed
BY DEF Init, WellFormed, TypeOK, Running

\* A step that moves one handler keeps the handlers well formed.
LEMMA OneMoves ==
  ASSUME WellFormed, NEW r \in Requests,
         req' \in [Requests -> Handler \cup {None}],
         \A q \in Requests \ {r} : req'[q] = req[q],
         req'[r] # None => Fits(req'[r])
  PROVE  \A q \in Requests : req'[q] # None => Fits(req'[q])
BY DEF WellFormed, Running

LEMMA WellFormedStep == WellFormed /\ [Next]_vars => WellFormed'
<1> SUFFICES ASSUME WellFormed, [Next]_vars PROVE WellFormed'
  OBVIOUS
<1>0. TypeOK
  BY DEF WellFormed
<1>1. ASSUME NEW r \in Requests, NEW b \in Browsers, NEW m \in Movies, AskToSave(r, b, m)
      PROVE  WellFormed'
  <2>1. PICK o \in OwnersOf(b) :
          /\ req' = [req EXCEPT ![r] = Handle(IF o = b THEN "device" ELSE "insert", b, o, m, None)]
          /\ wanted' = wanted \cup {<<o, m>>}
    BY <1>1 DEF AskToSave
  <2> DEFINE h == Handle(IF o = b THEN "device" ELSE "insert", b, o, m, None)
  <2>2. h \in Handler /\ Fits(h)
    BY <1>0, OwnersOfType, HandleIsHandler DEF Fits, Phase
  <2>3. sessions' \in [Tokens -> [user : Users, live : BOOLEAN] \cup {None}]
    BY <1>0, <1>1, ReadSessions DEF AskToSave
  <2>4. wanted' \subseteq Owners \X Movies
    BY <1>0, <2>1, OwnersOfType DEF TypeOK
  <2>5. QED
    BY <1>0, <1>1, <2>1, <2>2, <2>3, <2>4, BeginsStep, OneMoves
       DEF AskToSave, WellFormed, TypeOK, Running
<1>2. ASSUME NEW r \in Requests, NEW b \in Browsers, NEW m \in Movies, AskToRemove(r, b, m)
      PROVE  WellFormed'
  <2>1. PICK o \in OwnersOf(b) : req' = [req EXCEPT ![r] = Handle("remove", b, o, m, None)]
    BY <1>2 DEF AskToRemove
  <2>2. Handle("remove", b, o, m, None) \in Handler /\ Fits(Handle("remove", b, o, m, None))
    BY <1>0, OwnersOfType, HandleIsHandler DEF Fits, Phase
  <2>3. sessions' \in [Tokens -> [user : Users, live : BOOLEAN] \cup {None}]
    BY <1>0, <1>2, ReadSessions DEF AskToRemove
  <2>4. QED
    BY <1>0, <1>2, <2>1, <2>2, <2>3, BeginsStep, OneMoves
       DEF AskToRemove, WellFormed, TypeOK, Running
<1>3. ASSUME NEW r \in Requests, NEW b \in Browsers, NEW u \in Users,
             Signup(r, b, u) \/ Authenticate(r, b, u)
      PROVE  WellFormed'
  <2>1. PICK p \in {"create", "claim"} : req' = [req EXCEPT ![r] = Handle(p, b, u, None, None)]
    BY <1>3 DEF Signup, Authenticate
  <2>2. Handle(p, b, u, None, None) \in Handler /\ Fits(Handle(p, b, u, None, None))
    BY HandleIsHandler DEF Fits, Phase, Owners
  <2>3. sessions' \in [Tokens -> [user : Users, live : BOOLEAN] \cup {None}]
    BY <1>0, <1>3, ReadSessions DEF Signup, Authenticate
  <2>4. QED
    BY <1>0, <1>3, <2>1, <2>2, <2>3, BeginsStep, OneMoves
       DEF Signup, Authenticate, WellFormed, TypeOK, Running
<1>4. ASSUME NEW r \in Requests, NEW b \in Browsers, AskToChange(r, b)
      PROVE  WellFormed'
  <2>1. PICK u \in Users, t \in Tokens :
          req' = [req EXCEPT ![r] = Handle("change", b, u, None, t)]
    BY <1>0, <1>4 DEF AskToChange, Live, TypeOK
  <2> DEFINE h == Handle("change", b, u, None, t)
  <2>2. h \in Handler /\ Fits(h)
    BY HandleIsHandler DEF Fits, Phase, Owners
  <2>3. QED
    BY <1>0, <1>4, <2>1, <2>2, BeginsStep, OneMoves DEF AskToChange, WellFormed, TypeOK, Running
<1>5. ASSUME NEW r \in Requests, UpsertDevice(r)
      PROVE  WellFormed'
  <2>1. "insert" \in Phase /\ Running(r) /\ Goes(r, "insert") /\ Fits(req[r])
    BY <1>5 DEF UpsertDevice, Phase, Running, WellFormed
  <2>2. Fits(req'[r])
    BY <1>0, <1>5, <2>1, GoesStep DEF Fits, UpsertDevice
  <2>3. devices' \subseteq Browsers
    BY <1>0, <1>5, <2>1 DEF Fits, UpsertDevice, TypeOK
  <2>4. QED
    BY <1>0, <1>5, <2>1, <2>2, <2>3, GoesStep, OneMoves
       DEF UpsertDevice, WellFormed, TypeOK, Running
<1>6. ASSUME NEW r \in Requests, InsertRow(r)
      PROVE  WellFormed'
  <2>1. req[r] \in Handler /\ Fits(req[r])
    BY <1>0, <1>6 DEF InsertRow, WellFormed, TypeOK, Running
  <2>2. [owner |-> req[r].owner, movie |-> req[r].movie] \in Row
    BY <1>6, <2>1 DEF InsertRow, Fits, Handler, Row
  <2>3. rows' \in [Ids -> Row \cup {None}]
    BY <1>0, <1>6, <2>2 DEF InsertRow, TypeOK, FreshIds
  <2>4. QED
    BY <1>0, <1>6, <2>3, EndsStep, OneMoves DEF InsertRow, WellFormed, TypeOK, Running
<1>7. ASSUME NEW r \in Requests, RemoveRow(r) \/ Fail(r) \/ ChangePassword(r)
      PROVE  WellFormed'
  <2>1. rows' \in [Ids -> Row \cup {None}]
    BY <1>0, <1>7 DEF RemoveRow, Fail, ChangePassword, TypeOK
  <2>2. sessions' \in [Tokens -> [user : Users, live : BOOLEAN] \cup {None}]
    BY <1>0, <1>7 DEF RemoveRow, Fail, ChangePassword, TypeOK
  <2>3. QED
    BY <1>0, <1>7, <2>1, <2>2, EndsStep, OneMoves
       DEF RemoveRow, Fail, ChangePassword, WellFormed, TypeOK, Running
<1>8. ASSUME NEW r \in Requests, CreateUser(r)
      PROVE  WellFormed'
  <2>1. "claim" \in Phase /\ Running(r) /\ Goes(r, "claim") /\ Fits(req[r])
    BY <1>8 DEF CreateUser, Phase, Running, WellFormed
  <2>2. req[r].owner \in Users /\ req[r].browser \in Browsers
    BY <1>0, <1>8, <2>1 DEF CreateUser, Fits, TypeOK, Running, Handler
  <2>3. Fits(req'[r])
    BY <1>0, <2>1, <2>2, GoesStep DEF Fits
  <2>4. QED
    BY <1>0, <1>8, <2>1, <2>2, <2>3, GoesStep, OneMoves
       DEF CreateUser, WellFormed, TypeOK, Running
<1>9. ASSUME NEW r \in Requests, ReadDeviceList(r) \/ ReadAccountList(r)
      PROVE  WellFormed'
  <2>1. req[r] \in Handler /\ Fits(req[r]) /\ req[r].phase = "claim"
    BY <1>0, <1>9 DEF ReadDeviceList, ReadAccountList, WellFormed, TypeOK, Running
  <2>2. ItemsOf(req[r].browser) \in SUBSET Item /\ FilmsOf(req[r].owner) \in SUBSET Movies
    BY <1>0, Apart DEF ItemsOf, FilmsOf, IdsOf, TypeOK, Item, Row
  <2>3. PICK h \in Handler : Fits(h) /\ req' = [req EXCEPT ![r] = h]
    <3>1. CASE ReadDeviceList(r)
      <4> DEFINE h == [req[r] EXCEPT !.seen = @ \cup {"device"}, !.items = ItemsOf(req[r].browser)]
      <4>1. h \in Handler /\ Fits(h)
        BY <2>1, <2>2 DEF Handler, Fits
      <4>2. req' = [req EXCEPT ![r] = h]
        BY <1>0, <3>1 DEF ReadDeviceList, TypeOK
      <4>3. QED
        BY <4>1, <4>2
    <3>2. CASE ReadAccountList(r)
      <4> DEFINE h == [req[r] EXCEPT !.seen = @ \cup {"account"}, !.films = FilmsOf(req[r].owner)]
      <4>1. h \in Handler /\ Fits(h)
        BY <2>1, <2>2 DEF Handler, Fits
      <4>2. req' = [req EXCEPT ![r] = h]
        BY <1>0, <3>2 DEF ReadAccountList, TypeOK
      <4>3. QED
        BY <4>1, <4>2
    <3>3. QED
      BY <1>9, <3>1, <3>2
  <2>4. QED
    BY <1>0, <1>9, <2>3, BeginsStep, OneMoves
       DEF ReadDeviceList, ReadAccountList, WellFormed, TypeOK, Running
<1>10. ASSUME NEW r \in Requests, Claim(r)
       PROVE  WellFormed'
  <2>1. "session" \in Phase /\ Running(r) /\ Goes(r, "session") /\ Fits(req[r])
    BY <1>10 DEF Claim, ListsRead, Phase, Running, WellFormed
  <2>2. req[r].owner \in Users
    BY <1>10, <2>1 DEF Claim, ListsRead, Fits
  <2>3. \A i \in ClaimedIds(r) : i \in Ids /\ [rows[i] EXCEPT !.owner = req[r].owner] \in Row
    <3>1. \A x \in req[r].items : x.id \in Ids
      BY <1>0, <2>1 DEF TypeOK, Running, Handler, Item
    <3>2. \A x \in ToClaim(r) : x.id \in Ids /\ rows[x.id] \in Row
      BY <1>0, <1>10, <3>1 DEF Claim, CanClaim, ToClaim, TypeOK
    <3>3. QED
      BY <2>2, <3>2 DEF ClaimedIds, Row, Owners
  <2>4. rows' \in [Ids -> Row \cup {None}]
    BY <1>0, <1>10, <2>3 DEF Claim, TypeOK
  <2>5. Fits(req'[r])
    BY <1>0, <2>1, <2>2, GoesStep DEF Fits
  <2>6. QED
    BY <1>0, <1>10, <2>1, <2>4, <2>5, GoesStep, OneMoves DEF Claim, WellFormed, TypeOK, Running
<1>11. ASSUME NEW r \in Requests, OpenSession(r)
       PROVE  WellFormed'
  <2>1. req[r].owner \in Users /\ req[r].browser \in Browsers
    BY <1>0, <1>11 DEF OpenSession, WellFormed, Fits, TypeOK, Running, Handler
  <2>2. sessions' \in [Tokens -> [user : Users, live : BOOLEAN] \cup {None}]
        /\ cookie' \in [Browsers -> Tokens \cup {None}]
    BY <1>0, <1>11, <2>1 DEF OpenSession, TypeOK, FreshTokens
  <2>3. QED
    BY <1>0, <1>11, <2>2, EndsStep, OneMoves DEF OpenSession, WellFormed, TypeOK, Running
<1>12. ASSUME NEW r \in Requests,
              DestroySession(r) \/ ClearCookie(r) \/ \E b \in Browsers : AskToLogout(r, b)
       PROVE  WellFormed'
  <2>1. CASE DestroySession(r)
    <3>1. "leave" \in Phase /\ Running(r) /\ Goes(r, "leave")
      BY <2>1 DEF DestroySession, Phase, Running
    <3>2. Fits(req'[r])
      BY <1>0, <3>1, GoesStep DEF Fits
    <3>3. sessions' \in [Tokens -> [user : Users, live : BOOLEAN] \cup {None}]
      BY <1>0, <2>1 DEF DestroySession, TypeOK
    <3>4. QED
      BY <1>0, <2>1, <3>1, <3>2, <3>3, GoesStep, OneMoves
         DEF DestroySession, WellFormed, TypeOK, Running
  <2>2. CASE ClearCookie(r)
    <3>1. cookie' \in [Browsers -> Tokens \cup {None}]
      BY <1>0, <2>2 DEF ClearCookie, TypeOK
    <3>2. QED
      BY <1>0, <2>2, <3>1, EndsStep, OneMoves DEF ClearCookie, WellFormed, TypeOK, Running
  <2>3. ASSUME NEW b \in Browsers, AskToLogout(r, b)
        PROVE  WellFormed'
    <3>1. PICK h \in Handler : h.phase \in {"logout", "leave"} /\ req' = [req EXCEPT ![r] = h]
      BY <1>0, <2>3, LogoutHandles
    <3>2. Fits(h)
      BY <3>1 DEF Fits
    <3>3. QED
      BY <1>0, <2>3, <3>1, <3>2, BeginsStep, OneMoves, ReadSessions
         DEF AskToLogout, WellFormed, TypeOK, Running
  <2>4. QED
    BY <1>12, <2>1, <2>2, <2>3
<1>13. ASSUME NEW t \in Tokens, Expire(t)
       PROVE  WellFormed'
  BY <1>0, <1>13 DEF Expire, WellFormed, TypeOK, Running, Fits
<1>14. CASE SweepExpiredSessions
  BY <1>0, <1>14 DEF SweepExpiredSessions, WellFormed, TypeOK, Running, Fits
<1>15. CASE UNCHANGED vars
  BY <1>0, <1>15 DEF vars, WellFormed, TypeOK, Running, Fits
<1>16. QED
  BY <1>1, <1>2, <1>3, <1>4, <1>5, <1>6, <1>7, <1>8, <1>9, <1>10, <1>11, <1>12, <1>13,
     <1>14, <1>15 DEF Next, Begin, Continue

\* The tables, the cookies and the handlers always have their types, and a
\* handler that inserts, claims or opens a session is for an owner it fits.
THEOREM TypeCorrect == Spec => []TypeOK
<1>1. WellFormed => TypeOK
  BY DEF WellFormed
<1>2. QED
  BY <1>1, WellFormedInit, WellFormedStep, PTL DEF Spec

-----------------------------------------------------------------------------
(* Owners are known to the tables.                                         *)

\* A handler that inserts, claims, opens a session or changes a password is
\* for an owner with a row of its own.
OwnerRecorded(r) ==
  Running(r) =>
    /\ req[r].phase = "insert" => req[r].owner \in users \cup devices
    /\ req[r].phase \in {"claim", "session", "change"} => req[r].owner \in users

SessionsNameUsers == \A t \in Tokens : sessions[t] # None => sessions[t].user \in users

Known ==
  /\ SessionsNameUsers
  /\ \A r \in Requests : OwnerRecorded(r)

LEMMA KnownInit == Init => Known
BY DEF Init, Known, SessionsNameUsers, OwnerRecorded, Running

\* Users and devices are never deleted: a step has to show its own handler
\* and its own sessions.
LEMMA KnownMoves ==
  ASSUME Known, NEW r \in Requests,
         users \subseteq users', devices \subseteq devices',
         \A q \in Requests \ {r} : req'[q] = req[q],
         OwnerRecorded(r)'
  PROVE  \A q \in Requests : OwnerRecorded(q)'
BY DEF Known, OwnerRecorded, Running

LEMMA SessionsStay ==
  ASSUME Known, users \subseteq users',
         \A t \in Tokens : sessions'[t] = sessions[t] \/ sessions'[t] = None
  PROVE  SessionsNameUsers'
BY DEF Known, SessionsNameUsers

LEMMA KnownStep == WellFormed /\ Known /\ [Next]_vars => Known'
<1> SUFFICES ASSUME WellFormed, Known, [Next]_vars PROVE Known'
  OBVIOUS
<1>0. TypeOK
  BY DEF WellFormed
<1>1. ASSUME NEW r \in Requests, NEW b \in Browsers, NEW m \in Movies, AskToSave(r, b, m)
      PROVE  Known'
  <2>1. PICK o \in OwnersOf(b) :
          req' = [req EXCEPT ![r] = Handle(IF o = b THEN "device" ELSE "insert", b, o, m, None)]
    BY <1>1 DEF AskToSave
  <2> DEFINE h == Handle(IF o = b THEN "device" ELSE "insert", b, o, m, None)
  <2>2. h \in Handler /\ h.owner = o /\ h.phase = IF o = b THEN "device" ELSE "insert"
    BY <1>0, OwnersOfType, HandleIsHandler DEF Phase
  <2>3. o # b => o \in users
    BY <1>0, OwnersOfType DEF Known, SessionsNameUsers, Live
  <2>4. OwnerRecorded(r)'
    BY <1>0, <1>1, <2>1, <2>2, <2>3, BeginsStep DEF OwnerRecorded, Running, AskToSave
  <2>5. QED
    BY <1>0, <1>1, <2>1, <2>2, <2>4, BeginsStep, KnownMoves, ReadSessions, SessionsStay
       DEF AskToSave, Known
<1>2. ASSUME NEW r \in Requests, NEW b \in Browsers, NEW m \in Movies, AskToRemove(r, b, m)
      PROVE  Known'
  <2>1. PICK o \in OwnersOf(b) : req' = [req EXCEPT ![r] = Handle("remove", b, o, m, None)]
    BY <1>2 DEF AskToRemove
  <2>2. Handle("remove", b, o, m, None) \in Handler
        /\ Handle("remove", b, o, m, None).phase = "remove"
    BY <1>0, OwnersOfType, HandleIsHandler DEF Phase
  <2>3. OwnerRecorded(r)'
    BY <1>0, <2>1, <2>2, BeginsStep DEF OwnerRecorded, Running
  <2>4. QED
    BY <1>0, <1>2, <2>1, <2>2, <2>3, BeginsStep, KnownMoves, ReadSessions, SessionsStay
       DEF AskToRemove, Known
<1>3. ASSUME NEW r \in Requests, NEW b \in Browsers, NEW u \in Users, Signup(r, b, u)
      PROVE  Known'
  <2>1. Handle("create", b, u, None, None) \in Handler
        /\ Handle("create", b, u, None, None).phase = "create"
    BY HandleIsHandler DEF Phase, Owners
  <2>2. OwnerRecorded(r)'
    BY <1>0, <1>3, <2>1, BeginsStep DEF OwnerRecorded, Running, Signup
  <2>3. QED
    BY <1>0, <1>3, <2>1, <2>2, BeginsStep, KnownMoves, ReadSessions, SessionsStay DEF Signup, Known
<1>4. ASSUME NEW r \in Requests, NEW b \in Browsers, NEW u \in Users, Authenticate(r, b, u)
      PROVE  Known'
  <2>1. Handle("claim", b, u, None, None) \in Handler
        /\ Handle("claim", b, u, None, None).phase = "claim"
        /\ Handle("claim", b, u, None, None).owner = u
    BY HandleIsHandler DEF Phase, Owners
  <2>2. OwnerRecorded(r)'
    BY <1>0, <1>4, <2>1, BeginsStep DEF OwnerRecorded, Running, Authenticate
  <2>3. QED
    BY <1>0, <1>4, <2>1, <2>2, BeginsStep, KnownMoves, ReadSessions, SessionsStay
       DEF Authenticate, Known
<1>5. ASSUME NEW r \in Requests, NEW b \in Browsers, AskToChange(r, b)
      PROVE  Known'
  <2>1. PICK u \in Users, t \in Tokens :
          u \in users /\ req' = [req EXCEPT ![r] = Handle("change", b, u, None, t)]
    BY <1>0, <1>5 DEF AskToChange, Live, TypeOK, Known, SessionsNameUsers
  <2>2. Handle("change", b, u, None, t) \in Handler
        /\ Handle("change", b, u, None, t).phase = "change"
        /\ Handle("change", b, u, None, t).owner = u
    BY HandleIsHandler DEF Phase, Owners
  <2>3. req'[r].phase = "change" /\ req'[r].owner = u
        /\ \A q \in Requests \ {r} : req'[q] = req[q]
    BY <1>0, <2>1, <2>2, BeginsStep
  <2>4. UNCHANGED <<users, devices, sessions>>
    BY <1>5 DEF AskToChange
  <2>5. OwnerRecorded(r)'
    BY <2>1, <2>3, <2>4 DEF OwnerRecorded
  <2>6. QED
    BY <2>3, <2>4, <2>5, KnownMoves, SessionsStay DEF Known
<1>6. ASSUME NEW r \in Requests, UpsertDevice(r)
      PROVE  Known'
  <2>1. "insert" \in Phase /\ Running(r) /\ Goes(r, "insert")
    BY <1>6 DEF UpsertDevice, Phase, Running
  <2>2. OwnerRecorded(r)'
    BY <1>0, <1>6, <2>1, GoesStep DEF OwnerRecorded, UpsertDevice
  <2>3. QED
    BY <1>0, <1>6, <2>1, <2>2, GoesStep, KnownMoves, SessionsStay DEF UpsertDevice, Known
<1>7. ASSUME NEW r \in Requests, InsertRow(r) \/ RemoveRow(r) \/ Fail(r) \/ ChangePassword(r)
      PROVE  Known'
  <2>1. OwnerRecorded(r)'
    BY <1>0, <1>7, EndsStep DEF InsertRow, RemoveRow, Fail, ChangePassword, OwnerRecorded, Running
  <2>2. SessionsNameUsers'
    BY <1>0, <1>7, SessionsStay DEF InsertRow, RemoveRow, Fail, ChangePassword, TypeOK
  <2>3. QED
    BY <1>0, <1>7, <2>1, <2>2, EndsStep, KnownMoves
       DEF InsertRow, RemoveRow, Fail, ChangePassword, Known
<1>8. ASSUME NEW r \in Requests, CreateUser(r)
      PROVE  Known'
  <2>1. "claim" \in Phase /\ Running(r) /\ Goes(r, "claim")
    BY <1>8 DEF CreateUser, Phase, Running
  <2>2. OwnerRecorded(r)'
    BY <1>0, <1>8, <2>1, GoesStep DEF OwnerRecorded, CreateUser
  <2>3. QED
    BY <1>0, <1>8, <2>1, <2>2, GoesStep, KnownMoves, SessionsStay DEF CreateUser, Known
<1>9. ASSUME NEW r \in Requests, ReadDeviceList(r) \/ ReadAccountList(r)
      PROVE  Known'
  <2>1. \A q \in Requests \ {r} : req'[q] = req[q]
    BY <1>0, <1>9 DEF ReadDeviceList, ReadAccountList, TypeOK
  <2>2. req'[r].phase = "claim" /\ req'[r].owner = req[r].owner /\ Running(r)
    BY <1>0, <1>9 DEF ReadDeviceList, ReadAccountList, TypeOK, Handler, Running
  <2>3. OwnerRecorded(r)'
    BY <1>9, <2>2 DEF Known, OwnerRecorded, ReadDeviceList, ReadAccountList
  <2>4. QED
    BY <1>9, <2>1, <2>3, KnownMoves, SessionsStay DEF ReadDeviceList, ReadAccountList, Known
<1>10. ASSUME NEW r \in Requests, Claim(r)
       PROVE  Known'
  <2>1. "session" \in Phase /\ Running(r) /\ Goes(r, "session") /\ req[r].phase = "claim"
    BY <1>10 DEF Claim, ListsRead, Phase, Running
  <2>2. OwnerRecorded(r)'
    BY <1>0, <1>10, <2>1, GoesStep DEF Known, OwnerRecorded, Claim
  <2>3. QED
    BY <1>0, <1>10, <2>1, <2>2, GoesStep, KnownMoves, SessionsStay DEF Claim, Known
<1>11. ASSUME NEW r \in Requests, OpenSession(r)
       PROVE  Known'
  <2>1. req[r].owner \in users
    BY <1>11 DEF OpenSession, Known, OwnerRecorded, Running
  <2>2. SessionsNameUsers'
    BY <1>0, <1>11, <2>1 DEF OpenSession, Known, SessionsNameUsers, TypeOK, FreshTokens
  <2>3. OwnerRecorded(r)'
    BY <1>0, <1>11, EndsStep DEF OpenSession, OwnerRecorded, Running
  <2>4. QED
    BY <1>0, <1>11, <2>2, <2>3, EndsStep, KnownMoves DEF OpenSession, Known
<1>12. ASSUME NEW r \in Requests,
              DestroySession(r) \/ ClearCookie(r) \/ \E b \in Browsers : AskToLogout(r, b)
       PROVE  Known'
  <2>1. CASE DestroySession(r)
    <3>1. "leave" \in Phase /\ Running(r) /\ Goes(r, "leave")
      BY <2>1 DEF DestroySession, Phase, Running
    <3>2. OwnerRecorded(r)'
      BY <1>0, <3>1, GoesStep DEF OwnerRecorded
    <3>3. \A t \in Tokens : sessions'[t] = sessions[t] \/ sessions'[t] = None
      BY <2>1 DEF DestroySession
    <3>4. QED
      BY <1>0, <2>1, <3>1, <3>2, <3>3, GoesStep, KnownMoves, SessionsStay DEF DestroySession, Known
  <2>2. CASE ClearCookie(r)
    <3>1. OwnerRecorded(r)'
      BY <1>0, <2>2, EndsStep DEF ClearCookie, OwnerRecorded, Running
    <3>2. QED
      BY <1>0, <2>2, <3>1, EndsStep, KnownMoves, SessionsStay DEF ClearCookie, Known
  <2>3. ASSUME NEW b \in Browsers, AskToLogout(r, b)
        PROVE  Known'
    <3>1. PICK h \in Handler : h.phase \in {"logout", "leave"} /\ req' = [req EXCEPT ![r] = h]
      BY <1>0, <2>3, LogoutHandles
    <3>2. OwnerRecorded(r)'
      BY <1>0, <3>1, BeginsStep DEF OwnerRecorded
    <3>3. QED
      BY <1>0, <2>3, <3>1, <3>2, BeginsStep, KnownMoves, ReadSessions, SessionsStay
         DEF AskToLogout, Known
  <2>4. QED
    BY <1>12, <2>1, <2>2, <2>3
<1>13. ASSUME NEW t \in Tokens, Expire(t)
       PROVE  Known'
  <2>1. SessionsNameUsers'
    BY <1>0, <1>13 DEF Expire, Known, SessionsNameUsers, TypeOK
  <2>2. QED
    BY <1>13, <2>1 DEF Expire, Known, OwnerRecorded, Running
<1>14. CASE SweepExpiredSessions
  <2>1. SessionsNameUsers'
    BY <1>0, <1>14, SessionsStay DEF SweepExpiredSessions, TypeOK
  <2>2. QED
    BY <1>14, <2>1 DEF SweepExpiredSessions, Known, OwnerRecorded, Running
<1>15. CASE UNCHANGED vars
  BY <1>15 DEF vars, Known, SessionsNameUsers, OwnerRecorded, Running
<1>16. QED
  BY <1>1, <1>2, <1>3, <1>4, <1>5, <1>6, <1>7, <1>8, <1>9, <1>10, <1>11, <1>12, <1>13,
     <1>14, <1>15 DEF Next, Begin, Continue

\* The foreign key of a new row never fails: however devices are recorded and
\* accounts created around it, its owner has a row of its own.
THEOREM OwnerIsKnownHolds == Spec => []OwnerIsKnown
<1>1. Known => OwnerIsKnown
  BY DEF Known, OwnerRecorded, Running, OwnerIsKnown
<1>2. QED
  BY <1>1, WellFormedInit, WellFormedStep, KnownInit, KnownStep, PTL DEF Spec

-----------------------------------------------------------------------------
(* Where films come from, and where a row that was read can have gone.     *)

Wanted(o, m) ==
  \/ <<o, m>> \in wanted
  \/ \E b \in Browsers : <<b, o>> \in logins /\ <<b, m>> \in wanted

\* A handler inserts what its owner asked for and claims for an account its
\* browser logged in to.  A row it has read from the list of its device is
\* gone, still there, or on some account, and still the same film.
Traced(r) ==
  Running(r) =>
    /\ req[r].phase \in {"device", "insert"} => <<req[r].owner, req[r].movie>> \in wanted
    /\ req[r].phase = "claim" => <<req[r].browser, req[r].owner>> \in logins
    /\ \A x \in req[r].items :
         /\ <<req[r].browser, x.movie>> \in wanted
         /\ rows[x.id] # None => /\ rows[x.id].movie = x.movie
                                 /\ rows[x.id].owner \in Users \cup {req[r].browser}

IInv ==
  /\ WellFormed
  /\ FilmsComeFromTheirOwner
  /\ \A r \in Requests : Traced(r)

LEMMA IInvInit == Init => IInv
BY WellFormedInit DEF Init, IInv, FilmsComeFromTheirOwner, Traced, Running

LEMMA FilmsWanted ==
  FilmsComeFromTheirOwner <=>
    \A i \in Ids : rows[i] # None => Wanted(rows[i].owner, rows[i].movie)
BY DEF FilmsComeFromTheirOwner, Wanted

\* What was asked for stays asked for.
LEMMA WantedStays ==
  ASSUME wanted \subseteq wanted', logins \subseteq logins', NEW o, NEW m, Wanted(o, m)
  PROVE  Wanted(o, m)'
BY DEF Wanted

\* Steps that write no row have to show their own handler only.
LEMMA RowsStay ==
  ASSUME IInv, UNCHANGED rows, wanted \subseteq wanted', logins \subseteq logins',
         NEW r \in Requests, \A q \in Requests \ {r} : req'[q] = req[q], Traced(r)'
  PROVE  FilmsComeFromTheirOwner' /\ \A q \in Requests : Traced(q)'
<1>1. FilmsComeFromTheirOwner'
  BY DEF IInv, FilmsComeFromTheirOwner
<1>2. ASSUME NEW q \in Requests, q # r
      PROVE  Traced(q)'
  BY <1>2 DEF IInv, Traced, Running
<1>3. QED
  BY <1>1, <1>2

\* An id that some handler has read is not given to a new row.
LEMMA NotFresh ==
  ASSUME NEW r \in Requests, Running(r), NEW x \in req[r].items, NEW i \in FreshIds
  PROVE  x.id # i
BY DEF FreshIds, Running

\* The writes.
LEMMA InsertTraced ==
  ASSUME IInv, NEW r \in Requests, InsertRow(r)
  PROVE  FilmsComeFromTheirOwner' /\ \A q \in Requests : Traced(q)'
<1>0. TypeOK /\ Running(r) /\ Traced(r)
  BY DEF IInv, WellFormed, InsertRow, Running
<1>1. /\ \A q \in Requests \ {r} : req'[q] = req[q]
      /\ req'[r] = None
  BY <1>0, EndsStep DEF InsertRow
<1>2. Traced(r)'
  BY <1>1 DEF Traced, Running
<1>3. CASE UNCHANGED rows
  BY <1>1, <1>2, <1>3, RowsStay DEF InsertRow
<1>4. CASE \E i \in FreshIds :
             rows' = [rows EXCEPT ![i] = [owner |-> req[r].owner, movie |-> req[r].movie]]
  <2>1. PICK i \in FreshIds :
          rows' = [rows EXCEPT ![i] = [owner |-> req[r].owner, movie |-> req[r].movie]]
    BY <1>4
  <2>2. i \in Ids /\ rows'[i] = [owner |-> req[r].owner, movie |-> req[r].movie]
        /\ \A j \in Ids \ {i} : rows'[j] = rows[j]
    BY <1>0, <2>1 DEF FreshIds, TypeOK
  <2>3. <<req[r].owner, req[r].movie>> \in wanted /\ UNCHANGED <<wanted, logins>>
    BY <1>0 DEF Traced, InsertRow
  <2>4. FilmsComeFromTheirOwner'
    <3>1. SUFFICES ASSUME NEW j \in Ids, rows'[j] # None
                   PROVE  Wanted(rows[j].owner, rows[j].movie)'
      BY DEF FilmsComeFromTheirOwner, Wanted
    <3>2. CASE j = i
      BY <2>2, <2>3, <3>2 DEF Wanted
    <3>3. CASE j # i
      BY <2>2, <2>3, <3>1, <3>3, FilmsWanted DEF IInv, Wanted
    <3>4. QED
      BY <3>2, <3>3
  <2>5. ASSUME NEW q \in Requests, q # r
        PROVE  Traced(q)'
    <3>1. SUFFICES ASSUME Running(q) PROVE Traced(q)'
      BY <1>1, <2>5 DEF Traced, Running
    <3>2. req[q] \in Handler /\ Traced(q)
      BY <1>0, <3>1 DEF IInv, TypeOK, Running
    <3>3. \A x \in req[q].items : rows'[x.id] = rows[x.id]
      BY <2>2, <3>1, <3>2, NotFresh DEF Handler, Item
    <3>4. QED
      BY <1>1, <2>3, <2>5, <3>2, <3>3 DEF Traced, Running
  <2>6. QED
    BY <1>2, <2>4, <2>5
<1>5. QED
  BY <1>3, <1>4 DEF InsertRow

LEMMA RemoveTraced ==
  ASSUME IInv, NEW r \in Requests, RemoveRow(r)
  PROVE  FilmsComeFromTheirOwner' /\ \A q \in Requests : Traced(q)'
<1>0. TypeOK
  BY DEF IInv, WellFormed
<1>1. /\ \A q \in Requests \ {r} : req'[q] = req[q]
      /\ req'[r] = None
  BY <1>0, EndsStep DEF RemoveRow
<1>2. \A i \in Ids : rows'[i] = rows[i] \/ rows'[i] = None
  BY <1>0 DEF RemoveRow, TypeOK
<1>3. FilmsComeFromTheirOwner'
  BY <1>2 DEF IInv, FilmsComeFromTheirOwner, RemoveRow
<1>4. ASSUME NEW q \in Requests
      PROVE  Traced(q)'
  <2>1. SUFFICES ASSUME Running(q), q # r PROVE Traced(q)'
    BY <1>1 DEF Traced, Running
  <2>2. req[q] \in Handler
    BY <1>0, <2>1 DEF TypeOK, Running
  <2>3. \A x \in req[q].items : rows'[x.id] = rows[x.id] \/ rows'[x.id] = None
    BY <1>2, <2>2 DEF Handler, Item
  <2>4. QED
    BY <1>1, <2>1, <2>3 DEF IInv, Traced, Running, RemoveRow
<1>5. QED
  BY <1>3, <1>4

\* A claim takes a row from its device or from an account, and its film is
\* one the browser of the claim asked for.
LEMMA ClaimMoves ==
  ASSUME IInv, NEW r \in Requests, Claim(r)
  PROVE  /\ req[r].owner \in Users /\ req[r].browser \in Browsers
         /\ <<req[r].browser, req[r].owner>> \in logins
         /\ \A x \in req[r].items : x.id \in Ids
         /\ \A i \in Ids :
              \/ rows'[i] = rows[i]
              \/ rows'[i] = None
              \/ /\ i \in ClaimedIds(r)
                 /\ rows[i] # None
                 /\ rows'[i] # None
                 /\ rows'[i].owner = req[r].owner
                 /\ rows'[i].movie = rows[i].movie
                 /\ <<req[r].browser, rows[i].movie>> \in wanted
<1>0. TypeOK /\ Running(r) /\ Traced(r) /\ Fits(req[r]) /\ req[r].phase = "claim"
  BY DEF IInv, WellFormed, Claim, ListsRead, Running
<1>1. req[r] \in Handler
  BY <1>0 DEF TypeOK, Running
<1>2. /\ req[r].owner \in Users /\ req[r].browser \in Browsers
      /\ <<req[r].browser, req[r].owner>> \in logins
      /\ \A x \in req[r].items : x.id \in Ids
  BY <1>0, <1>1 DEF Fits, Traced, Handler, Item
<1>3. ASSUME NEW i \in ClaimedIds(r)
      PROVE  /\ rows[i] \in Row
             /\ <<req[r].browser, rows[i].movie>> \in wanted
  <2>1. PICK x \in ToClaim(r) : x.id = i
    BY <1>3 DEF ClaimedIds
  <2>2. x \in req[r].items /\ rows[i] # None
    BY <2>1 DEF ToClaim, Claim, CanClaim
  <2>3. QED
    BY <1>0, <1>2, <2>1, <2>2 DEF Traced, TypeOK
<1>4. ASSUME NEW i \in ClaimedIds(r)
      PROVE  LET row == [rows[i] EXCEPT !.owner = req[r].owner] IN
             row # None /\ row.owner = req[r].owner /\ row.movie = rows[i].movie
  BY <1>2, <1>3, Apart DEF Row, Owners
<1>5. ASSUME NEW i \in Ids
      PROVE  \/ rows'[i] = rows[i]
             \/ rows'[i] = None
             \/ /\ i \in ClaimedIds(r)
                /\ rows'[i] = [rows[i] EXCEPT !.owner = req[r].owner]
  BY DEF Claim
<1>6. QED
  BY <1>2, <1>3, <1>4, <1>5, Apart

LEMMA ClaimTraced ==
  ASSUME IInv, NEW r \in Requests, Claim(r)
  PROVE  FilmsComeFromTheirOwner' /\ \A q \in Requests : Traced(q)'
<1>0. TypeOK /\ Running(r) /\ Goes(r, "session") /\ "session" \in Phase
      /\ UNCHANGED <<wanted, logins>>
  BY DEF IInv, WellFormed, Claim, ListsRead, Running, Phase
<1>1. FilmsComeFromTheirOwner'
  <2>1. SUFFICES ASSUME NEW i \in Ids, rows'[i] # None
                 PROVE  Wanted(rows[i].owner, rows[i].movie)'
    BY DEF FilmsComeFromTheirOwner, Wanted
  <2>2. CASE rows'[i] = rows[i]
    BY <1>0, <2>1, <2>2, FilmsWanted DEF IInv, Wanted
  <2>3. CASE rows'[i] # rows[i]
    BY <1>0, <2>1, <2>3, ClaimMoves DEF Wanted
  <2>4. QED
    BY <2>2, <2>3
<1>2. ASSUME NEW q \in Requests
      PROVE  Traced(q)'
  <2>1. SUFFICES ASSUME Running(q) PROVE Traced(q)'
    BY <1>0, GoesStep DEF Traced, Running
  <2>2. req[q] \in Handler /\ Traced(q)
    BY <1>0, <2>1 DEF IInv, TypeOK, Running
  <2>3. /\ req'[q].browser = req[q].browser /\ req'[q].owner = req[q].owner
        /\ req'[q].movie = req[q].movie /\ req'[q].items = req[q].items
        /\ req'[q].phase = req[q].phase \/ req'[q].phase = "session"
    BY <1>0, GoesStep
  <2>4. ASSUME NEW x \in req[q].items, rows'[x.id] # None
        PROVE  /\ rows'[x.id].movie = x.movie
               /\ rows'[x.id].owner \in Users \cup {req[q].browser}
    <3>1. x.id \in Ids
      BY <2>2 DEF Handler, Item
    <3>2. QED
      BY <2>1, <2>2, <2>4, <3>1, ClaimMoves DEF Traced
  <2>5. QED
    BY <1>0, <2>1, <2>2, <2>3, <2>4 DEF Traced
<1>3. QED
  BY <1>1, <1>2

LEMMA IInvStep == IInv /\ [Next]_vars => IInv'
<1> SUFFICES ASSUME IInv, [Next]_vars PROVE IInv'
  OBVIOUS
<1>0. TypeOK /\ WellFormed /\ WellFormed'
  BY WellFormedStep DEF IInv, WellFormed
<1> SUFFICES FilmsComeFromTheirOwner' /\ \A q \in Requests : Traced(q)'
  BY <1>0 DEF IInv
<1>1. ASSUME NEW r \in Requests, NEW b \in Browsers, NEW m \in Movies, AskToSave(r, b, m)
      PROVE  FilmsComeFromTheirOwner' /\ \A q \in Requests : Traced(q)'
  <2>1. PICK o \in OwnersOf(b) :
          /\ req' = [req EXCEPT ![r] = Handle(IF o = b THEN "device" ELSE "insert", b, o, m, None)]
          /\ wanted' = wanted \cup {<<o, m>>}
    BY <1>1 DEF AskToSave
  <2> DEFINE h == Handle(IF o = b THEN "device" ELSE "insert", b, o, m, None)
  <2>2. h \in Handler /\ h.owner = o /\ h.movie = m /\ h.items = {}
        /\ h.phase \in {"device", "insert"}
    BY <1>0, OwnersOfType, HandleIsHandler DEF Phase
  <2>3. req'[r] = h /\ \A q \in Requests \ {r} : req'[q] = req[q]
    BY <1>0, <2>1, <2>2, BeginsStep
  <2>4. Traced(r)'
    BY <2>1, <2>2, <2>3 DEF Traced
  <2>5. QED
    BY <1>1, <2>1, <2>3, <2>4, RowsStay DEF AskToSave
<1>2. ASSUME NEW r \in Requests, NEW b \in Browsers, NEW m \in Movies, AskToRemove(r, b, m)
      PROVE  FilmsComeFromTheirOwner' /\ \A q \in Requests : Traced(q)'
  <2>1. PICK o \in OwnersOf(b) : req' = [req EXCEPT ![r] = Handle("remove", b, o, m, None)]
    BY <1>2 DEF AskToRemove
  <2> DEFINE h == Handle("remove", b, o, m, None)
  <2>2. h \in Handler /\ h.phase = "remove" /\ h.items = {}
    BY <1>0, OwnersOfType, HandleIsHandler DEF Phase
  <2>3. req'[r] = h /\ \A q \in Requests \ {r} : req'[q] = req[q]
    BY <1>0, <2>1, <2>2, BeginsStep
  <2>4. Traced(r)'
    BY <2>2, <2>3 DEF Traced
  <2>5. QED
    BY <1>2, <2>3, <2>4, RowsStay DEF AskToRemove
<1>3. ASSUME NEW r \in Requests, NEW b \in Browsers, NEW u \in Users,
             Signup(r, b, u) \/ Authenticate(r, b, u)
      PROVE  FilmsComeFromTheirOwner' /\ \A q \in Requests : Traced(q)'
  <2>1. PICK p \in {"create", "claim"} :
          /\ req' = [req EXCEPT ![r] = Handle(p, b, u, None, None)]
          /\ p = "claim" => <<b, u>> \in logins'
    BY <1>3 DEF Signup, Authenticate
  <2> DEFINE h == Handle(p, b, u, None, None)
  <2>2. h \in Handler /\ h.phase = p /\ h.browser = b /\ h.owner = u /\ h.items = {}
    BY HandleIsHandler DEF Phase, Owners
  <2>3. req'[r] = h /\ \A q \in Requests \ {r} : req'[q] = req[q]
    BY <1>0, <2>1, <2>2, BeginsStep
  <2>4. Traced(r)'
    BY <2>1, <2>2, <2>3 DEF Traced
  <2>5. QED
    BY <1>3, <2>3, <2>4, RowsStay DEF Signup, Authenticate
<1>4. ASSUME NEW r \in Requests, NEW b \in Browsers, AskToChange(r, b)
      PROVE  FilmsComeFromTheirOwner' /\ \A q \in Requests : Traced(q)'
  <2>1. PICK u \in Users, t \in Tokens :
          req' = [req EXCEPT ![r] = Handle("change", b, u, None, t)]
    BY <1>0, <1>4 DEF AskToChange, Live, TypeOK
  <2> DEFINE h == Handle("change", b, u, None, t)
  <2>2. h \in Handler /\ h.phase = "change" /\ h.items = {}
    BY HandleIsHandler DEF Phase, Owners
  <2>3. req'[r] = h /\ \A q \in Requests \ {r} : req'[q] = req[q]
    BY <1>0, <2>1, <2>2, BeginsStep
  <2>4. Traced(r)'
    BY <2>2, <2>3 DEF Traced
  <2>5. UNCHANGED <<rows, wanted, logins>>
    BY <1>4 DEF AskToChange
  <2>6. QED
    BY <2>3, <2>4, <2>5, RowsStay
<1>5. ASSUME NEW r \in Requests, UpsertDevice(r)
      PROVE  FilmsComeFromTheirOwner' /\ \A q \in Requests : Traced(q)'
  <2>1. "insert" \in Phase /\ Running(r) /\ Goes(r, "insert") /\ req[r].phase = "device"
        /\ UNCHANGED <<rows, wanted, logins>>
    BY <1>5 DEF UpsertDevice, Phase, Running
  <2>2. Traced(r)'
    BY <1>0, <2>1, GoesStep DEF IInv, Traced
  <2>3. QED
    BY <1>0, <2>1, <2>2, GoesStep, RowsStay
<1>6. ASSUME NEW r \in Requests, Fail(r) \/ ChangePassword(r) \/ OpenSession(r)
      PROVE  FilmsComeFromTheirOwner' /\ \A q \in Requests : Traced(q)'
  <2>1. Traced(r)'
    BY <1>0, <1>6, EndsStep DEF Fail, ChangePassword, OpenSession, Traced, Running
  <2>2. QED
    BY <1>0, <1>6, <2>1, EndsStep, RowsStay DEF Fail, ChangePassword, OpenSession
<1>7. ASSUME NEW r \in Requests, CreateUser(r)
      PROVE  FilmsComeFromTheirOwner' /\ \A q \in Requests : Traced(q)'
  <2>1. "claim" \in Phase /\ Running(r) /\ Goes(r, "claim") /\ UNCHANGED <<rows, wanted>>
        /\ logins' = logins \cup {<<req[r].browser, req[r].owner>>}
    BY <1>7 DEF CreateUser, Phase, Running
  <2>2. Traced(r)'
    BY <1>0, <2>1, GoesStep DEF IInv, Traced
  <2>3. QED
    BY <1>0, <2>1, <2>2, GoesStep, RowsStay
<1>8. ASSUME NEW r \in Requests, ReadDeviceList(r)
      PROVE  FilmsComeFromTheirOwner' /\ \A q \in Requests : Traced(q)'
  <2>1. req[r] \in Handler /\ Traced(r) /\ req[r].phase = "claim" /\ Running(r)
        /\ UNCHANGED <<rows, wanted, logins>>
    BY <1>0, <1>8 DEF ReadDeviceList, IInv, TypeOK, Running
  <2>2. \A q \in Requests \ {r} : req'[q] = req[q]
    BY <1>0, <1>8 DEF ReadDeviceList, TypeOK
  <2>3. req'[r].phase = "claim" /\ req'[r].browser = req[r].browser
        /\ req'[r].owner = req[r].owner /\ req'[r].items = ItemsOf(req[r].browser)
    BY <1>0, <1>8, <2>1 DEF ReadDeviceList, TypeOK, Handler
  <2>4. ASSUME NEW x \in ItemsOf(req[r].browser)
        PROVE  /\ <<req[r].browser, x.movie>> \in wanted
               /\ rows[x.id].movie = x.movie
               /\ rows[x.id].owner \in Users \cup {req[r].browser}
    <3>1. PICK i \in IdsOf(req[r].browser) : x = [id |-> i, movie |-> rows[i].movie]
      BY DEF ItemsOf
    <3>2. i \in Ids /\ rows[i] # None /\ rows[i].owner = req[r].browser
      BY <3>1 DEF IdsOf
    <3>3. Wanted(req[r].browser, rows[i].movie)
      BY <3>2, FilmsWanted DEF IInv
    <3>4. \A b \in Browsers : <<b, req[r].browser>> \notin logins
      BY <1>0, <2>1, Apart DEF TypeOK, Handler
    <3>5. QED
      BY <3>1, <3>2, <3>3, <3>4 DEF Wanted
  <2>5. Traced(r)'
    BY <2>1, <2>3, <2>4 DEF Traced
  <2>6. QED
    BY <2>1, <2>2, <2>5, RowsStay
<1>9. ASSUME NEW r \in Requests, ReadAccountList(r)
      PROVE  FilmsComeFromTheirOwner' /\ \A q \in Requests : Traced(q)'
  <2>1. req[r] \in Handler /\ Traced(r) /\ req[r].phase = "claim" /\ Running(r)
        /\ UNCHANGED <<rows, wanted, logins>>
    BY <1>0, <1>9 DEF ReadAccountList, IInv, TypeOK, Running
  <2>2. \A q \in Requests \ {r} : req'[q] = req[q]
    BY <1>0, <1>9 DEF ReadAccountList, TypeOK
  <2>3. req'[r].phase = "claim" /\ req'[r].browser = req[r].browser
        /\ req'[r].owner = req[r].owner /\ req'[r].items = req[r].items
    BY <1>0, <1>9, <2>1 DEF ReadAccountList, TypeOK, Handler
  <2>4. Traced(r)'
    BY <2>1, <2>3 DEF Traced, Running
  <2>5. QED
    BY <2>1, <2>2, <2>4, RowsStay
<1>10. ASSUME NEW r \in Requests,
              DestroySession(r) \/ ClearCookie(r) \/ \E b \in Browsers : AskToLogout(r, b)
       PROVE  FilmsComeFromTheirOwner' /\ \A q \in Requests : Traced(q)'
  <2>1. CASE DestroySession(r)
    <3>1. "leave" \in Phase /\ Running(r) /\ Goes(r, "leave") /\ UNCHANGED <<rows, wanted, logins>>
      BY <2>1 DEF DestroySession, Phase, Running
    <3>2. Traced(r)'
      BY <1>0, <3>1, GoesStep DEF IInv, Traced
    <3>3. QED
      BY <1>0, <3>1, <3>2, GoesStep, RowsStay
  <2>2. CASE ClearCookie(r)
    <3>1. Traced(r)'
      BY <1>0, <2>2, EndsStep DEF ClearCookie, Traced, Running
    <3>2. QED
      BY <1>0, <2>2, <3>1, EndsStep, RowsStay DEF ClearCookie
  <2>3. ASSUME NEW b \in Browsers, AskToLogout(r, b)
        PROVE  FilmsComeFromTheirOwner' /\ \A q \in Requests : Traced(q)'
    <3>1. PICK h \in Handler :
            h.phase \in {"logout", "leave"} /\ h.items = {} /\ req' = [req EXCEPT ![r] = h]
      BY <1>0, <2>3, LogoutHandles
    <3>2. req'[r] = h /\ \A q \in Requests \ {r} : req'[q] = req[q]
      BY <1>0, <3>1, BeginsStep
    <3>3. Traced(r)'
      BY <3>1, <3>2 DEF Traced
    <3>4. QED
      BY <2>3, <3>2, <3>3, RowsStay DEF AskToLogout
  <2>4. QED
    BY <1>10, <2>1, <2>2, <2>3
<1>11. ASSUME NEW t \in Tokens, Expire(t)
       PROVE  FilmsComeFromTheirOwner' /\ \A q \in Requests : Traced(q)'
  BY <1>11 DEF Expire, IInv, FilmsComeFromTheirOwner, Traced, Running
<1>12. CASE SweepExpiredSessions
  BY <1>12 DEF SweepExpiredSessions, IInv, FilmsComeFromTheirOwner, Traced, Running
<1>13. CASE UNCHANGED vars
  BY <1>13 DEF vars, IInv, FilmsComeFromTheirOwner, Traced, Running
<1>14. QED
  BY <1>1, <1>2, <1>3, <1>4, <1>5, <1>6, <1>7, <1>8, <1>9, <1>10, <1>11, <1>12, <1>13,
     InsertTraced, RemoveTraced, ClaimTraced DEF Next, Begin, Continue

\* However saves, removals and claims of any number of handlers interleave, no
\* film turns up on a list its owner, or for an account a device that logged in
\* to it, did not put it on.
THEOREM FilmsComeFromTheirOwnerHolds == Spec => []FilmsComeFromTheirOwner
<1>1. IInv => FilmsComeFromTheirOwner
  BY DEF IInv
<1>2. QED
  BY <1>1, IInvInit, IInvStep, PTL DEF Spec

-----------------------------------------------------------------------------
(* Claims.                                                                 *)

LEMMA ClaimSpares ==
  ASSUME IInv, NEW r \in Requests, Claim(r), NEW b \in Browsers \ {req[r].browser}
  PROVE  ItemsOf(b)' = ItemsOf(b)
<1>0. TypeOK /\ Running(r) /\ Traced(r)
  BY DEF IInv, WellFormed, Claim, ListsRead, Running
<1>1. \A i \in DuplicateIds(r) \cup ClaimedIds(r) :
        rows[i] # None => rows[i].owner # b
  BY <1>0, Apart DEF DuplicateIds, ClaimedIds, ToClaim, Traced
<1>2. \A i \in Ids : rows'[i] # rows[i] =>
        /\ i \in DuplicateIds(r) \cup ClaimedIds(r)
        /\ rows'[i] # None => rows'[i].owner \in Users
  BY ClaimMoves DEF Claim
<1>3. \A i \in Ids : (rows'[i] # None /\ rows'[i].owner = b) <=> (rows[i] # None /\ rows[i].owner = b)
  BY <1>1, <1>2, ClaimMoves, Apart
<1>4. IdsOf(b)' = IdsOf(b) /\ \A i \in IdsOf(b) : rows'[i] = rows[i]
  BY <1>1, <1>2, <1>3 DEF IdsOf
<1>5. QED
  BY <1>4 DEF ItemsOf

\* A claim never touches the list of another device, though it moves and
\* deletes rows by ids read before: such a row has gone to an account or away.
THEOREM ClaimSparesOtherDevicesHolds == Spec => ClaimSparesOtherDevices
<1>1. IInv /\ [Next]_vars =>
        [\A r \in Requests : Claim(r) =>
           \A b \in Browsers \ {req[r].browser} : ItemsOf(b)' = ItemsOf(b)]_vars
  BY ClaimSpares
<1>2. QED
  BY <1>1, IInvInit, IInvStep, PTL DEF Spec, ClaimSparesOtherDevices

\* Of lists that are as they were read: the rows to move are those of films
\* the account has not got, the others are duplicates.
LEMMA CurrentIds ==
  ASSUME NEW r \in Requests, ReadsAreCurrent(r)
  PROVE  \A i \in Ids :
           /\ i \in ClaimedIds(r) <=> /\ i \in IdsOf(req[r].browser)
                                      /\ rows[i].movie \notin FilmsOf(req[r].owner)
           /\ i \in DuplicateIds(r) <=> /\ i \in IdsOf(req[r].browser)
                                        /\ rows[i].movie \in FilmsOf(req[r].owner)
<1>1. \A x \in req[r].items : x.id \in IdsOf(req[r].browser) /\ x.movie = rows[x.id].movie
  BY DEF ReadsAreCurrent, ItemsOf
<1>2. ASSUME NEW i \in IdsOf(req[r].browser)
      PROVE  \E x \in req[r].items : x.id = i /\ x.movie = rows[i].movie
  <2>1. [id |-> i, movie |-> rows[i].movie] \in req[r].items
    BY DEF ReadsAreCurrent, ItemsOf
  <2>2. QED
    BY <2>1
<1>3. QED
  BY <1>1, <1>2 DEF ClaimedIds, DuplicateIds, ToClaim, ReadsAreCurrent

\* A claim fails only because somebody else wrote: if both lists are still as
\* they were read, no row is missing and no film is on the account already.
THEOREM CurrentClaimCommitsHolds == Spec => []CurrentClaimCommits
<1>1. ASSUME NEW r \in Requests, ReadsAreCurrent(r)
      PROVE  CanClaim(r)
  <2>1. SUFFICES ASSUME NEW x \in ToClaim(r)
                 PROVE  /\ rows[x.id] # None
                        /\ \A i \in IdsOf(req[r].owner) : rows[i].movie = x.movie => i = x.id
    BY DEF CanClaim
  <2>2. x.id \in IdsOf(req[r].browser)
    BY <1>1 DEF ToClaim, ReadsAreCurrent, ItemsOf
  <2>3. x.movie \notin FilmsOf(req[r].owner)
    BY <1>1 DEF ToClaim, ReadsAreCurrent
  <2>4. QED
    BY <2>2, <2>3 DEF IdsOf, FilmsOf
<1>2. CurrentClaimCommits
  BY <1>1 DEF CurrentClaimCommits
<1>3. QED
  BY <1>2, PTL

LEMMA CurrentMerges ==
  ASSUME IInv, NEW r \in Requests, ReadsAreCurrent(r), Claim(r)
  PROVE  /\ FilmsOf(req[r].owner)' = FilmsOf(req[r].owner) \cup FilmsOf(req[r].browser)
         /\ FilmsOf(req[r].browser)' = {}
<1> DEFINE b == req[r].browser
           u == req[r].owner
<1>0. TypeOK /\ Running(r) /\ Goes(r, "session") /\ "session" \in Phase
  BY DEF IInv, WellFormed, Claim, ListsRead, Running, Phase
<1>1. req'[r].owner = u /\ req'[r].browser = b /\ u # b /\ b \in Browsers
  BY <1>0, GoesStep, ClaimMoves, Apart
<1>2. ASSUME NEW i \in Ids
      PROVE  /\ i \notin IdsOf(b) => rows'[i] = rows[i]
             /\ i \in IdsOf(b) /\ rows[i].movie \in FilmsOf(u) => rows'[i] = None
             /\ i \in IdsOf(b) /\ rows[i].movie \notin FilmsOf(u) =>
                  /\ rows'[i] # None /\ rows'[i].owner = u
                  /\ rows'[i].movie = rows[i].movie
  <2>1. /\ i \notin IdsOf(b) => rows'[i] = rows[i]
        /\ i \in DuplicateIds(r) => rows'[i] = None
    BY CurrentIds DEF Claim
  <2>2. ASSUME i \in ClaimedIds(r)
        PROVE  rows'[i] # None /\ rows'[i].owner = u /\ rows'[i].movie = rows[i].movie
    <3>1. rows[i] \in Row
      BY <1>0, <2>2, CurrentIds DEF IdsOf, TypeOK
    <3>2. rows'[i] = [rows[i] EXCEPT !.owner = u]
      BY <2>2, CurrentIds DEF Claim
    <3>3. u \in Owners
      BY ClaimMoves DEF Owners
    <3>4. [rows[i] EXCEPT !.owner = u] \in Row /\ [rows[i] EXCEPT !.owner = u].owner = u
          /\ [rows[i] EXCEPT !.owner = u].movie = rows[i].movie
      BY <3>1, <3>3 DEF Row
    <3>5. QED
      BY <3>2, <3>4, Apart
  <2>3. QED
    BY <2>1, <2>2, CurrentIds
<1>3. \A i \in Ids : ~(rows'[i] # None /\ rows'[i].owner = b)
  BY <1>1, <1>2 DEF IdsOf
<1>4. FilmsOf(b)' = {}
  BY <1>1, <1>3 DEF FilmsOf, IdsOf
<1>5. ASSUME NEW m
      PROVE  m \in FilmsOf(u)' <=> m \in FilmsOf(u) \cup FilmsOf(b)
  <2>1. m \in FilmsOf(u)' <=> \E i \in Ids : rows'[i] # None /\ rows'[i].owner = u /\ rows'[i].movie = m
    BY <1>1 DEF FilmsOf, IdsOf
  <2>2. \A o : m \in FilmsOf(o) <=> \E i \in IdsOf(o) : rows[i].movie = m
    BY DEF FilmsOf
  <2>3. ASSUME NEW i \in Ids, rows'[i] # None, rows'[i].owner = u, rows'[i].movie = m
        PROVE  m \in FilmsOf(u) \cup FilmsOf(b)
    BY <1>2, <2>2, <2>3 DEF IdsOf
  <2>4. ASSUME NEW i \in IdsOf(u), rows[i].movie = m
        PROVE  rows'[i] # None /\ rows'[i].owner = u /\ rows'[i].movie = m
    BY <1>1, <1>2, <2>4 DEF IdsOf
  <2>5. ASSUME NEW i \in IdsOf(b), rows[i].movie = m, m \notin FilmsOf(u)
        PROVE  rows'[i] # None /\ rows'[i].owner = u /\ rows'[i].movie = m
    BY <1>2, <2>5 DEF IdsOf
  <2>6. \A o : IdsOf(o) \subseteq Ids
    BY DEF IdsOf
  <2>7. QED
    BY <2>1, <2>2, <2>3, <2>4, <2>5, <2>6
<1>6. QED
  BY <1>4, <1>5

\* A claim nobody wrote beside merges the lists exactly: every film of either
\* list is on the account, and the device's list is empty.
THEOREM CurrentClaimMergesHolds == Spec => CurrentClaimMerges
<1>1. IInv /\ [Next]_vars =>
        [\A r \in Requests : ReadsAreCurrent(r) /\ Claim(r) =>
           /\ FilmsOf(req[r].owner)' = FilmsOf(req[r].owner) \cup FilmsOf(req[r].browser)
           /\ FilmsOf(req[r].browser)' = {}]_vars
  BY CurrentMerges
<1>2. QED
  BY <1>1, IInvInit, IInvStep, PTL DEF Spec, CurrentClaimMerges

=============================================================================
