---------------------------- MODULE MCSyncEngine ----------------------------
(***************************************************************************)
(* SyncEngine on small instances.  Work is summed from the blocks: 1 each, *)
(* or 2 for the labels in Heavy (branches mined at another difficulty).    *)
(***************************************************************************)
EXTENDS SyncEngine, TLC

CONSTANTS a, b, Heavy

MCWork == [c \in Chain |-> Len(c) + Cardinality({i \in 1..Len(c) : c[i] \in Heavy})]

\* Labels of equal work can be exchanged (not for liveness).
Symmetry == Permutations(Label)
=============================================================================
