------------------------------- MODULE TargetGrid -------------------------------
(* core/climate.py: what a climate entity can be asked for in its current mode, *)
(* and the legal target that a requested room temperature becomes.  All         *)
(* temperatures are integers of one small unit, so the tolerances of the code's *)
(* comparisons of floats have no counterpart here.                              *)
EXTENDS Integers, FiniteSets

CONSTANT NoTarget    \* a ClimateFailure

Lesser(a, b) == IF a <= b THEN a ELSE b
Greater(a, b) == IF a >= b THEN a ELSE b
Clamped(x, low, high) == Lesser(Greater(x, low), high)

Directions == {"heating", "cooling", "ranged", "bidirectional"}

-----------------------------------------------------------------------------
(* The capability matrix *)

\* infer_auto_mapping: what Auto means is taken from unambiguous capabilities only.
InferAuto(scalar, ranged, modes) ==
  LET heats == "heat" \in modes
      cools == "cool" \in modes
  IN IF ranged THEN "ranged"
     ELSE IF ~scalar THEN NoTarget
     ELSE IF (heats /\ cools) \/ "heat_cool" \in modes THEN "bidirectional"
     ELSE IF heats THEN "heating"
     ELSE IF cools THEN "cooling" ELSE NoTarget

\* resolve_capability: the direction of a device in its current mode.
Capability(device) ==
  LET Scalar(direction) == IF device.scalar THEN direction ELSE NoTarget
  IN IF ~device.observable THEN NoTarget
     ELSE CASE device.mode = "heat" -> Scalar("heating")
            [] device.mode = "cool" -> Scalar("cooling")
            [] device.mode = "heat_cool" ->
                 IF device.ranged THEN "ranged" ELSE Scalar("bidirectional")
            [] device.mode = "auto" -> InferAuto(device.scalar, device.ranged, device.modes)
            [] OTHER -> NoTarget

-----------------------------------------------------------------------------
(* The grid *)

CeilDiv(a, b) == -((-a) \div b)

\* build_grid: the indices of the points between the tighter of the device's and
\* the user's bounds.
Grid(device, user) ==
  LET low == Greater(device.min, user.min)
      high == Lesser(device.max, user.max)
  IN [origin |-> device.min, step |-> device.step, low |-> low, high |-> high,
      first |-> CeilDiv(low - device.min, device.step),
      last |-> (high - device.min) \div device.step]

Legal(grid) == grid.low <= grid.high /\ grid.first <= grid.last

\* Rounding of a position on the grid: by the mode, or inwards of the request.
Index(x, grid, rounding, direction) ==
  LET offset == x - grid.origin
      up == CeilDiv(offset, grid.step)
      down == offset \div grid.step
  IN CASE rounding = "ceiling" -> up
       [] rounding = "floor" -> down
       [] rounding = "mathematical" -> (2 * offset + grid.step) \div (2 * grid.step)
       [] OTHER -> IF direction = "heating" THEN up ELSE down

\* The target at a point of the grid; none where rounding has left the grid.
Target(index, bounded, direction, grid, calibration) ==
  LET actuator == grid.origin + index * grid.step
  IN IF ~Legal(grid) \/ index < grid.first \/ index > grid.last THEN NoTarget
     ELSE [direction |-> direction, bounded |-> bounded - calibration,
           actuator |-> actuator, room |-> actuator - calibration]

RoundedTarget(bounded, direction, grid, calibration, rounding) ==
  Target(Index(bounded, grid, rounding, direction), bounded, direction, grid, calibration)

\* _normalize_scalar_with_grid: calibration, the user's bounds, the device's bounds and
\* rounding.  `bounded` is the request in room coordinates before rounding.
NormalizeScalar(room, direction, device, user, rounding) ==
  RoundedTarget(Clamped(Clamped(room + user.calibration, user.min, user.max),
                        device.min, device.max),
                direction, Grid(device, user), user.calibration, rounding)

\* normalize_range_target: both ends, with the minimum gap between them.
RangeOf(heating, cooling, gap) ==
  IF heating = NoTarget \/ cooling = NoTarget THEN NoTarget
  ELSE IF cooling.actuator - heating.actuator < gap THEN NoTarget
  ELSE [heating |-> heating, cooling |-> cooling]

NormalizeRange(low, high, device, user, rounding, gap) ==
  RangeOf(NormalizeScalar(low, "heating", device, user, rounding),
          NormalizeScalar(high, "cooling", device, user, rounding), gap)
=============================================================================
