------------------------------- MODULE MCWeb --------------------------------
(***************************************************************************)
(* The two parts of the web client, which share nothing: a behaviour is    *)
(* one of the wishlist, with two films and two changes in all (toggles,    *)
(* sign-ins and sign-outs) and lists of one film at most to start with, or *)
(* one of the search and its filters, with a text that Trim shortens.      *)
(***************************************************************************)
EXTENDS Web, TLC

CONSTANTS f1, f2

VARIABLE part

MCTrim(t) == IF t = "a " THEN "a" ELSE t

\* The films are interchangeable.
Renamings == Permutations(Films)

MCInit ==
  /\ part \in {"wishlist", "browse"}
  /\ Init /\ Browse!Init
  /\ part = "browse"   => lists = [o \in Owners |-> {}] /\ me = Device
  /\ part = "wishlist" => /\ \A o \in Owners : Cardinality(lists[o]) < 2
                          /\ url = [path |-> "elsewhere", q |-> Empty, rest |-> NoRest]

MCNext ==
  \/ part = "wishlist" /\ Next /\ UNCHANGED <<part, browseVars>>
  \/ part = "browse" /\ Browse!Next /\ UNCHANGED <<part, vars>>

MCSpec == MCInit /\ [][MCNext]_<<vars, part, browseVars>>
=============================================================================
