------------------------------ MODULE MCTasks ------------------------------
(* Instances of Tasks for TLC.  Imports form no cycle, as in a composition *)
(* graph: A imports the exports of B, and in Chain B imports those of C.   *)
EXTENDS Tasks, TLC

CONSTANTS A, B, C

ALowersB == {<<A, B>>}
Chain == {<<A, B>>, <<B, C>>}
Symmetry == Permutations(Tasks)

=============================================================================
