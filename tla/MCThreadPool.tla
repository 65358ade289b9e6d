---------------------------- MODULE MCThreadPool ----------------------------
(***************************************************************************)
(* Instances of ThreadPool for TLC; the configurations give the constants  *)
(* model values.                                                           *)
(***************************************************************************)
EXTENDS ThreadPool, TLC
=============================================================================
