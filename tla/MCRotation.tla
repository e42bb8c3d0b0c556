----------------------------- MODULE MCRotation -----------------------------
(***************************************************************************)
(* Small instances of Rotation for TLC.                                    *)
(***************************************************************************)
EXTENDS Rotation, TLC

CONSTANTS a1, a2, t1, t2

Both  == [targets |-> <<t1, t2>>, probed |-> FALSE, valid |-> TRUE]
First == [targets |-> <<t1>>, probed |-> TRUE, valid |-> TRUE]
Bad   == [targets |-> <<t1, t1>>, probed |-> FALSE, valid |-> FALSE]
Empty == [targets |-> <<>>, probed |-> FALSE, valid |-> TRUE]

MCSpecs == {Both, First}
MCAllSpecs == {First, Bad, Empty}
MCOneSpec == {Both}
MCProbedSpec == {First}

\* Call with an arbitrary mutation is not a step of Rotation.
MCMutations == {}

MCConditions == {[gen |-> 1, ok |-> TRUE], [gen |-> 2, ok |-> TRUE]}
MCOneCondition == {[gen |-> 1, ok |-> TRUE]}

Symmetry == Permutations(Actors)

NoExpiry == {None}
SomeExpiries == {None, 0}

\* Edits and deletions only as long as requests come one at a time and are
\* not cut off: otherwise every version but the first is one of a request's save.
OthersWriteInCalmOnly ==
  \/ calm
  \/ /\ obj.spec = Both
     /\ obj.version = 1 + Cardinality({r \in Actors : upd[r].applied})
=============================================================================
