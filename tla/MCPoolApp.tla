----------------------------- MODULE MCPoolApp -----------------------------
(***************************************************************************)
(* Instances of PoolApp for TLC.                                           *)
(***************************************************************************)
EXTENDS PoolApp
=============================================================================
