------------------------------ MODULE MCOpenBao ------------------------------
(***************************************************************************)
(* Small instances of OpenBao for TLC.                                     *)
(***************************************************************************)
EXTENDS OpenBao, TLC

CONSTANTS w1, w2, w3, p1, k1, k2

Symmetry == Permutations(Writers) \cup Permutations(Keys)
=============================================================================
