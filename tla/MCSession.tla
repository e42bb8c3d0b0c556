------------------------------ MODULE MCSession ------------------------------
(***************************************************************************)
(* Small instances of Session for TLC: one tick is the clock allowance of  *)
(* 60 seconds, the other times are scaled down and keep their order.       *)
(***************************************************************************)
EXTENDS Session, TLC

CONSTANTS t1, t2, u1, u2

Symmetry == Permutations(Tabs) \cup Permutations(Users)

BothWays == {-CLOCK_SKEW_SECS, CLOCK_SKEW_SECS}

LongAgo == {-3}
=============================================================================
