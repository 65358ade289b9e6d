--------------------------- MODULE MCSkipListTimer ---------------------------
(***************************************************************************)
(* Instances of SkipListTimer for TLC.  Nodes are interchangeable, and     *)
(* permuted in the run that checks no liveness.                            *)
(***************************************************************************)
EXTENDS SkipListTimer, TLC

Symmetry == Permutations(Nodes)

(* The instances are such as the theorems are about. *)
ASSUME TimesFitHere == TimesFit
=============================================================================
