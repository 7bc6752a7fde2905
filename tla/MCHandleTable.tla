--------------------------- MODULE MCHandleTable ---------------------------
(***************************************************************************)
(* Small instances of HandleTable for TLC.                                 *)
(***************************************************************************)
EXTENDS HandleTable, TLC

ObjectSymmetry == Permutations(Objects)
=============================================================================
