---------------------------- MODULE MCAsyncHttp ----------------------------
(***************************************************************************)
(* Instances of AsyncHttp for TLC.                                         *)
(***************************************************************************)
EXTENDS AsyncHttp
=============================================================================
