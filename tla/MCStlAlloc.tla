----------------------------- MODULE MCStlAlloc -----------------------------
(***************************************************************************)
(* Instances of StlAlloc for TLC.                                          *)
(***************************************************************************)
EXTENDS StlAlloc
=============================================================================
