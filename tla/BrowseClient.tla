---------------------------- MODULE BrowseClient ----------------------------
(***************************************************************************)
(* Searching and filtering in a browser.  The text of a search is there    *)
(* three times: in the field of the header (components/Header.tsx), in the *)
(* URL (lib/hooks.ts), and in the query of the grid                        *)
(* (pages/BrowsePage.tsx).  Each is the debounced copy of the one before,  *)
(* the field is set back to the URL when that changes, and links, the back *)
(* button and the filters change the URL as well.                          *)
(*                                                                         *)
(* The other filters are one value.  A step is what React does between two *)
(* events, with the effects that follow, since they settle before the next *)
(* event.  A query that is on screen is fetched or taken from the cache.   *)
(***************************************************************************)
EXTENDS Naturals

CONSTANTS Texts, Empty,  \* what may be typed, and nothing typed
          Trim(_),       \* String.prototype.trim
          Rests, NoRest, \* the other filters, and none set
          Delay,         \* delayMs of both debounces
          None

Trimmed == {t \in Texts : Trim(t) = t}

\* What the constants are assumed to be, by whoever instantiates this module.
BrowseClientAssumption ==
  /\ Empty \in Trimmed /\ NoRest \in Rests
  /\ \A t \in Texts : Trim(t) \in Trimmed
  /\ Delay \in Nat \ {0}
  /\ None \notin Nat \cup Texts

Urls == [path : {"browse"}, q : Trimmed, rest : Rests]
          \cup [path : {"elsewhere"}, q : {Empty}, rest : {NoRest}]

VARIABLES url,         \* the page, and the search in its address
          value,       \* the text in the field
          debounced,   \* the debounced copy the field acts upon
          fieldTimer,  \* the time left of its debounce, or None
          gridQuery,   \* debouncedQuery of the browse page, or None elsewhere
          gridTimer,   \* the time left of that debounce, or None
          held,        \* history: how long url.q has been what it is
          quiet        \* history: how long the user has done nothing

vars == <<url, value, debounced, fieldTimer, gridQuery, gridTimer, held, quiet>>

Settled == 2 * Delay + 1

TypeOK ==
  /\ url \in Urls
  /\ value \in Texts /\ debounced \in Texts
  /\ fieldTimer \in 0 .. Delay \cup {None} /\ gridTimer \in 0 .. Delay \cup {None}
  /\ gridQuery \in Trimmed \cup {None}
  /\ held \in 0 .. Delay /\ quiet \in 0 .. Settled

\* A page is loaded: the copies start out equal.
Init ==
  /\ url \in Urls
  /\ value = url.q
  /\ debounced = url.q
  /\ fieldTimer = None
  /\ gridQuery = IF url.path = "browse" THEN url.q ELSE None
  /\ gridTimer = None
  /\ held = 0
  /\ quiet = 0

\* Mutant: a timer under way is not cleared.
NotRestarted(timer) == IF timer = None THEN Delay ELSE timer

\* useDebouncedValue: a new value clears the timer of the last.
Restarted(timer) == Delay

\* Mutant: a change of another filter clears the timer and starts none.
GridTimerDropped(u) == IF u.q = url.q THEN None ELSE Restarted(gridTimer)

\* Only the text starts the timer of the grid again.
GridTimerAt(u) == IF u.q = url.q THEN gridTimer ELSE Restarted(gridTimer)

\* The URL becomes u while the field holds v and its timer is t.
\* The field follows if the text of the URL has changed, and so will the grid; a
\* grid that is only now mounted has the text at once.
GoTo(u, v, t) ==
  /\ url' = u
  /\ value' = IF u.q = url.q THEN v ELSE u.q
  /\ fieldTimer' = IF value' = v THEN t ELSE Restarted(t)
  /\ IF u.path = "browse" /\ url.path = "browse"
     THEN /\ gridQuery' = gridQuery
          /\ gridTimer' = GridTimerAt(u)
     ELSE /\ gridQuery' = IF u.path = "browse" THEN u.q ELSE None
          /\ gridTimer' = None
  /\ held' = IF u.q = url.q THEN held ELSE 0

-----------------------------------------------------------------------------
(* The user.                                                               *)

\* A key, or the button that clears the field.
Type(t) ==
  /\ t # value
  /\ value' = t
  /\ fieldTimer' = Restarted(fieldTimer)
  /\ quiet' = 0
  /\ UNCHANGED <<url, debounced, gridQuery, gridTimer, held>>

\* A link, the back button, or an address of the history: any of them.
Visit(u) ==
  /\ u # url
  /\ GoTo(u, value, fieldTimer)
  /\ quiet' = 0
  /\ UNCHANGED debounced

\* setFilters, of the filter bar.
SetFilters(r) ==
  /\ url.path = "browse" /\ r # url.rest
  /\ GoTo([url EXCEPT !.rest = r], value, fieldTimer)
  /\ quiet' = 0
  /\ UNCHANGED debounced

\* clearFilters, offered while something is set.
ClearFilters ==
  /\ url.path = "browse" /\ (url.q # Empty \/ url.rest # NoRest)
  /\ GoTo([path |-> "browse", q |-> Empty, rest |-> NoRest], value, fieldTimer)
  /\ quiet' = 0
  /\ UNCHANGED debounced

-----------------------------------------------------------------------------
(* The timers.                                                             *)

\* Where the field leads from here: other filters are kept on the browse page.
Results(text) ==
  [path |-> "browse", q |-> Trim(text), rest |-> IF url.path = "browse" THEN url.rest ELSE NoRest]

\* The effect of SearchField runs if its debounced copy has changed, and leaves
\* a URL alone that says the same.
FieldSettles ==
  /\ fieldTimer = 0
  /\ debounced' = value
  /\ IF value \in {debounced, url.q}
     THEN /\ fieldTimer' = None
          /\ UNCHANGED <<url, value, gridQuery, gridTimer, held>>
     ELSE GoTo(Results(value), value, None)
  /\ UNCHANGED quiet

GridSettles ==
  /\ gridTimer = 0
  /\ gridQuery' = url.q
  /\ gridTimer' = None
  /\ UNCHANGED <<url, value, debounced, fieldTimer, held, quiet>>

Less(timer)     == IF timer = None THEN None ELSE timer - 1
More(time, max) == IF time = max THEN max ELSE time + 1

\* Timers that are due go first.
Tick ==
  /\ fieldTimer # 0 /\ gridTimer # 0
  /\ fieldTimer' = Less(fieldTimer)
  /\ gridTimer' = Less(gridTimer)
  /\ held' = More(held, Delay)
  /\ quiet' = More(quiet, Settled)
  /\ UNCHANGED <<url, value, debounced, gridQuery>>

-----------------------------------------------------------------------------
Next ==
  \/ \E t \in Texts : Type(t)
  \/ \E u \in Urls : Visit(u)
  \/ \E r \in Rests : SetFilters(r)
  \/ ClearFilters \/ FieldSettles \/ GridSettles \/ Tick

Spec == Init /\ [][Next]_vars

-----------------------------------------------------------------------------
(* Properties.                                                             *)

\* Typing does not fetch: while the page is open its query takes on a text only
\* after the URL has held that text for a whole delay, however keys, filters,
\* links and timers follow each other.
OnlySettledTextsAreFetched ==
  [][gridQuery # None /\ gridQuery' \notin {gridQuery, None} /\ url'.path = url.path
       => held = Delay /\ gridQuery' = url.q]_vars

\* Once the user pauses the grid shows what the URL says: neither debounce is
\* stuck, and neither sets the other off for good.
GridFollowsUrl ==
  quiet = Settled /\ url.path = "browse" => gridQuery = url.q

\* The inductive invariant behind both (WebProofs).  The grid is set to fetch what
\* it does not show, and not before the URL has held it for a delay.  After the
\* user, the field acts within one delay, or has the URL's own text and need not;
\* so what it sets off in the grid is over within two.
TimersInOrder ==
  /\ url.path = "browse" /\ gridTimer = None => gridQuery = url.q
  /\ url.path # "browse" => gridQuery = None /\ gridTimer = None
  /\ gridTimer # None => gridTimer + held >= Delay /\ gridTimer + quiet <= 2 * Delay
  /\ fieldTimer # None => \/ fieldTimer + quiet <= Delay
                          \/ value = url.q /\ fieldTimer + quiet <= 2 * Delay
=============================================================================
