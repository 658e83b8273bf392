--------------------------- MODULE MCAssociation ---------------------------
(***************************************************************************)
(* Instances of AssociationProperties for TLC.                             *)
(***************************************************************************)
EXTENDS AssociationProperties
=============================================================================
