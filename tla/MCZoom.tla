------------------------------- MODULE MCZoom -------------------------------
(***************************************************************************)
(* Instances of ZoomProperties for TLC.                                    *)
(***************************************************************************)
EXTENDS ZoomProperties, TLC

CONSTANTS r1, r2

Symmetric == Permutations(ResultSet)
=============================================================================
