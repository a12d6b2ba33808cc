--------------------------- MODULE MCTargetOwnership --------------------------
(* TargetOwnership for TLC.                                                 *)
EXTENDS TargetOwnership
=============================================================================
