------------------------------- MODULE MCGuid -------------------------------
(***************************************************************************)
(* Instances of Guid for TLC, with narrower fields.                        *)
(***************************************************************************)
EXTENDS Guid
=============================================================================
