------------------------------ MODULE HeatingPolicy ------------------------------
(* core/policy.py and core/bidirectional.py: from the roots of the comfort      *)
(* model (the room temperatures at which the selected votes are reached) to the *)
(* temperatures that a zone requests.                                           *)
EXTENDS TargetGrid

CONSTANTS
  NoRoot,     \* a root that could not be solved, or no value
  Degree      \* units per degree; a multiple of four

ASSUME PolicyAssumption == Degree \in Nat \ {0} /\ Degree % 4 = 0

MaxInfluence == 2 * Degree      \* MAX_CRITICAL_INFLUENCE_C

Heats(direction) == direction \in {"heating", "ranged"}
Cools(direction) == direction \in {"cooling", "ranged"}

-----------------------------------------------------------------------------
(* Heating demand *)

\* resolve_heating_demand whose start does not see that the stop is reached, with a bug.
HeatingDemandEager(active, desired, room, request, start, stop, forced, lower, assist) ==
  LET stopReached == desired - room <= stop
      shortfall == request - room
  IN IF forced THEN TRUE
     ELSE IF lower # NoRoot /\ (room < lower \/ (active /\ room < lower + stop)) THEN TRUE
     ELSE IF active THEN ~stopReached
     ELSE shortfall >= start \/ (assist /\ shortfall > 0)

\* resolve_heating_demand: the start compares the unrounded request, the stop the
\* rounded one; Boost, a room below its comfort range and the demand of other
\* rooms start it early.
HeatingDemand(active, desired, room, request, start, stop, forced, lower, assist) ==
  LET stopReached == desired - room <= stop
      shortfall == request - room
  IN IF forced THEN TRUE
     ELSE IF lower # NoRoot /\ (room < lower \/ (active /\ room < lower + stop)) THEN TRUE
     ELSE IF active THEN ~stopReached
     ELSE ~stopReached /\ (shortfall >= start \/ (assist /\ shortfall > 0))

-----------------------------------------------------------------------------
(* Critical locations *)

Demanded(demands, modes, root) ==
  {d[root] : d \in {e \in demands : e.eligible /\ e.mode \in modes /\ e[root] # NoRoot}}

\* The outer comfort range limits what a location may add; a range that is not
\* known forbids it.
OuterKnown(roots) == roots.lower # NoRoot /\ roots.upper # NoRoot /\ roots.upper > roots.lower
EdgeGuard(roots) == Lesser(Degree \div 4, (roots.upper - roots.lower) \div 4)

CriticalHeating(roots, demands) ==
  LET base == roots.heating
      asked == Demanded(demands, {"heating", "both"}, "heating")
      worst == CHOOSE x \in asked \cup {base} : \A y \in asked \cup {base} : y <= x
      cap == Greater(base, Lesser(base + MaxInfluence, roots.upper - EdgeGuard(roots)))
  IN IF worst = base \/ ~OuterKnown(roots) THEN base ELSE Lesser(worst, cap)

CriticalCooling(roots, demands) ==
  LET base == roots.cooling
      asked == Demanded(demands, {"cooling", "both"}, "cooling")
      worst == CHOOSE x \in asked \cup {base} : \A y \in asked \cup {base} : y >= x
      floor == Lesser(base, Greater(base - MaxInfluence, roots.lower + EdgeGuard(roots)))
  IN IF worst = base \/ ~OuterKnown(roots) THEN base ELSE Greater(worst, floor)

\* Locations whose demands would close the range are all left out.
KeptOpenNever(targets, roots, direction, gap) == targets   \* with a bug
KeptOpen(targets, roots, direction, gap) ==
  IF direction = "ranged" /\ targets.cooling - targets.heating < gap
  THEN [heating |-> roots.heating, cooling |-> roots.cooling]
  ELSE targets

\* apply_critical_demands
CriticalTargets(roots, demands, direction, gap) ==
  IF \/ Heats(direction) /\ roots.heating = NoRoot
     \/ Cools(direction) /\ roots.cooling = NoRoot
  THEN NoTarget
  ELSE IF direction = "ranged" /\ roots.cooling - roots.heating < gap THEN NoTarget
  ELSE KeptOpen([heating |-> IF Heats(direction) THEN CriticalHeating(roots, demands) ELSE NoRoot,
                 cooling |-> IF Cools(direction) THEN CriticalCooling(roots, demands) ELSE NoRoot],
                roots, direction, gap)

-----------------------------------------------------------------------------
(* Profile and Boost *)

Shifted(x, by) == IF x = NoRoot THEN NoRoot ELSE x + by

\* _policy_transform with Boost off: setback, or the limits of the user with what
\* the critical locations have added.
Setback(targets, roots, set) ==
  IF set.profile # "eco" THEN targets
  ELSE IF set.intensity = "deep"
  THEN [heating |-> IF targets.heating = NoRoot THEN NoRoot
                    ELSE set.min + (targets.heating - roots.heating),
        cooling |-> IF targets.cooling = NoRoot THEN NoRoot
                    ELSE set.max + (targets.cooling - roots.cooling)]
  ELSE [heating |-> Shifted(targets.heating, -set.setback),
        cooling |-> Shifted(targets.cooling, set.setback)]

\* ... with Boost: neutral and the offset, within the limits; both ends of a range
\* keep the gap around neutral; a scalar target takes the goal on its grid.
BoostGoal(targets, roots, direction, set, goal) ==
  LET low == IF Heats(direction) /\ roots.neutral # NoRoot
             THEN Lesser(roots.neutral + set.delta, set.max) ELSE targets.heating
      high == IF Cools(direction) /\ roots.neutral # NoRoot
              THEN Greater(roots.neutral - set.delta, set.min) ELSE targets.cooling
      half == set.gap \div 2
  IN IF direction = "ranged" /\ roots.neutral # NoRoot
     THEN [heating |-> Lesser(low, roots.neutral - half),
           cooling |-> Greater(high, roots.neutral + half)]
     ELSE [heating |-> IF direction = "heating" /\ goal # NoRoot THEN goal ELSE low,
           cooling |-> IF direction = "cooling" /\ goal # NoRoot THEN goal ELSE high]

\* ... and Rapid Boost of a scalar target: the limit of the user until the room has
\* come within the approach band of the goal.
Boosted(boosted, direction, set, room, latched) ==
  LET near == \/ direction = "heating" /\ room >= boosted.heating - set.approach
              \/ direction = "cooling" /\ room <= boosted.cooling + set.approach
      reached == latched \/ near
      scalarGoal == IF direction = "heating" THEN boosted.heating ELSE boosted.cooling
  IN IF set.boost = "adaptive" \/ direction = "ranged" \/ scalarGoal = NoRoot
     THEN [targets |-> boosted, reached |-> FALSE]
     ELSE [targets |-> IF reached THEN boosted
                       ELSE [heating |-> IF direction = "heating" THEN set.max ELSE NoRoot,
                             cooling |-> IF direction = "cooling" THEN set.min ELSE NoRoot],
           reached |-> reached]

Transformed(targets, roots, direction, set, goal, room, latched) ==
  IF set.boost = "off" THEN [targets |-> Setback(targets, roots, set), reached |-> FALSE]
  ELSE Boosted(BoostGoal(targets, roots, direction, set, goal), direction, set, room, latched)

-----------------------------------------------------------------------------
(* The request *)

Slewed(x, previous, allowance) ==
  IF NoRoot \in {x, previous} THEN x ELSE Clamped(x, previous - allowance, previous + allowance)

\* Ordinary changes are slewed; an explicit transition and the end of the rapid phase
\* are applied at once.
Requested(t, latched, previous, allowance, explicit) ==
  LET atOnce == explicit \/ (t.reached /\ ~latched)
      Request(end) == IF atOnce THEN t.targets[end]
                      ELSE Slewed(t.targets[end], previous[end], allowance)
  IN [heating |-> Request("heating"), cooling |-> Request("cooling"), reached |-> t.reached]

\* build_adaptive_policy: critical locations, profile or Boost, and the slew.  Boost
\* needs no heating root.
AdaptivePolicyOf(critical, roots, direction, set, goal, room, latched, previous, allowance,
                 explicit) ==
  LET noControlRoot == [heating |-> NoRoot, cooling |-> NoRoot]
      boostAnyway == set.boost # "off" /\ roots.neutral # NoRoot /\ direction = "heating"
  IN IF critical = NoTarget /\ ~boostAnyway THEN NoTarget
     ELSE Requested(Transformed(IF critical = NoTarget THEN noControlRoot ELSE critical,
                                roots, direction, set, goal, room, latched),
                    latched, previous, allowance, explicit)

AdaptivePolicy(roots, demands, direction, set, goal, room, latched, previous, allowance, explicit) ==
  AdaptivePolicyOf(CriticalTargets(roots, demands, direction, set.gap), roots, direction, set,
                   goal, room, latched, previous, allowance, explicit)

\* build_fixed_fallback: the configured temperatures, without any comfort result.
FixedFallback(direction, set) ==
  IF set.noWrite \/ (direction = "ranged" /\ set.fallbackHigh - set.fallbackLow < set.gap)
  THEN NoTarget
  ELSE [heating |-> IF direction = "cooling" THEN NoRoot ELSE set.fallbackLow,
        cooling |-> IF direction = "heating" THEN NoRoot ELSE set.fallbackHigh,
        reached |-> FALSE]

\* build_manual_heating_fallback: timed heat without a valid humidity, from cached
\* references; without one, Rapid may use the limit of the user only.
ManualHeating(occupied, neutral, set, goal, room, latched) ==
  LET cached == IF occupied = NoRoot THEN set.max
                ELSE IF set.boost # "off" /\ neutral # NoRoot THEN neutral + set.delta
                ELSE occupied
      bounded == Lesser(IF goal = NoRoot THEN cached ELSE goal, set.max)
      reached == set.boost = "rapid" /\ (latched \/ room >= bounded - set.approach)
  IN IF occupied = NoRoot /\ set.boost # "rapid" THEN NoTarget
     ELSE [heating |-> IF set.boost = "rapid" /\ ~reached THEN set.max ELSE bounded,
           cooling |-> NoRoot, reached |-> reached]

\* check_cross_actuator_coordination: the proposal keeps the gap to every opposing
\* target, as intended, or as observed where nothing is intended.
Coordinated(direction, proposed, opposing, gap) ==
  \A o \in {p \in opposing : p.direction = (IF direction = "heating" THEN "cooling" ELSE "heating")} :
    LET established == IF o.owned /\ o.available THEN o.intended ELSE o.observed
    IN /\ established # NoRoot
       /\ IF direction = "heating" THEN established - proposed >= gap
          ELSE proposed - established >= gap

\* select_scalar_target: the root that a heat-and-cool device is given, by the
\* outdoor temperature, and neutral where that would drive the room the wrong way.
ScalarBranch(indoor, outdoor, roots) ==
  CASE outdoor < roots.heating /\ indoor > roots.cooling -> "neutral"
    [] outdoor > roots.cooling /\ indoor < roots.heating -> "neutral"
    [] outdoor < roots.neutral -> "heating"
    [] outdoor > roots.neutral -> "cooling"
    [] OTHER -> "neutral"

\* policy_direction of the selection.
BranchDirection(branch, indoor, roots) ==
  IF branch = "heating" \/ (branch = "neutral" /\ indoor <= roots.neutral)
  THEN "heating" ELSE "cooling"
=============================================================================
