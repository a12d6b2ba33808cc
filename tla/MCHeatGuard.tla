----------------------------- MODULE MCHeatGuard ------------------------------
(* HeatGuard for TLC: a room of 20 degrees with a fallback of 18; one setpoint *)
(* below the demand margin and two above.                                      *)
EXTENDS HeatGuard
MCHeats == {20, 22, 23}
=============================================================================
