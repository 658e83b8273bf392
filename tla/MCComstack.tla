----------------------------- MODULE MCComstack -----------------------------
(***************************************************************************)
(* Instances of ComstackProperties for TLC.                                *)
(***************************************************************************)
EXTENDS ComstackProperties
=============================================================================
