----------------------------- MODULE MCController -----------------------------
(***************************************************************************)
(* A small instance of Controller for TLC: one spec is never valid, one    *)
(* only under the first allow list.                                        *)
(***************************************************************************)
EXTENDS Controller, TLC

CONSTANTS bad, narrow, a1, a2

VerdictOf == [s \in Specs |-> [a \in AllowLists |->
               IF s = narrow /\ a = a1 THEN "Spec is valid" ELSE "problems"]]
=============================================================================
