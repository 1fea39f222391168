------------------------------ MODULE MCServer ------------------------------
(***************************************************************************)
(* Two requests at a time from one address, budgets of two and one, and    *)
(* both signals.                                                           *)
(***************************************************************************)
EXTENDS Server

MCMax(kind)    == IF kind = "signup" THEN 1 ELSE 2
MCWindow(kind) == 2
=============================================================================
