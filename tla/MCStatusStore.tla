---------------------------- MODULE MCStatusStore ----------------------------
(***************************************************************************)
(* Small instances of StatusStore for TLC.                                 *)
(***************************************************************************)
EXTENDS StatusStore, TLC

CONSTANTS a1, a2, a3, t1, t2, s1, s2

MCTargets == {t1, t2}

Rotated(a, ok) == [kind |-> "Rotated", by |-> a, at |-> 2, manual |-> None,
                   probe |-> [at |-> 2, expires |-> 3], ok |-> ok]

\* A rotation that wrote every target and one that did not.
MCMutations == UNION {{Rotated(a, [t \in {t1} |-> TRUE]),
                       Rotated(a, [t \in MCTargets |-> t = t1])} : a \in Actors}

MCConditions == {[gen |-> 1, ok |-> TRUE]}

\* What is in the spec plays no part here.
MCSpecs == {s1, s2}

Symmetry == Permutations(Actors) \cup Permutations(Specs)
=============================================================================
