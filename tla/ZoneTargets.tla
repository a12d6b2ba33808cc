------------------------------- MODULE ZoneTargets -------------------------------
(* From the sources of a zone to the targets it publishes: calculation.py and   *)
(* core/pipeline.py with the feedback that the runtime keeps between two        *)
(* calculations (the 15-minute failure hold, the previous request, the one-shot *)
(* explicit transition, the reached phase of Rapid Boost, the heating-demand    *)
(* latches, the cached references of manual heating).                           *)
(*                                                                              *)
(* The roots of the comfort model are data of the world.  A calculation and the *)
(* task that applies its result are one step here; their interleavings are the  *)
(* subject of ZoneController and CommandBroker.                                 *)
EXTENDS HeatingPolicy, Sequences

CONSTANTS
  Plants,        \* sequences of devices that a zone may control
  Configurations, \* options of the entry
  UserChoices,       \* what the user and the occupancy choose at run time
  Worlds,        \* what the sources say
  Fine,          \* no condition, no reason
  HoldSpan,      \* the failure hold of 15 minutes, in ticks
  Slew,          \* SLEW_RATE_C_PER_SECOND, in units per tick
  MaxQuarters,   \* bound on the time
  MaxInputs,     \* bound on the changes of world, choice and device
  MaxSaveErrors  \* bound on the failed saves

\* What a device reports, what an entry is configured with and a user chooses, and what
\* the sources say.  The gap of a range is halved, so its half is a whole number of units.
Devices == [observable : BOOLEAN, mode : STRING, modes : SUBSET STRING, scalar : BOOLEAN,
            ranged : BOOLEAN, min : Int, max : Int, step : Nat \ {0}]
Options == [min : Int, max : Int, calibration : Int, rounding : STRING, gap : Nat,
            setback : Nat, intensity : STRING, delta : Int, approach : Int, noWrite : BOOLEAN,
            fallbackLow : Int, fallbackHigh : Int, buffer : BOOLEAN, start : Int, stop : Int,
            reject : BOOLEAN, assist : BOOLEAN]
Selections == [profile : STRING, occupied : BOOLEAN, boost : STRING, preheat : BOOLEAN]
Root == Int \union {NoRoot}
Sources == [room : Int, outdoor : Int,
            roots : [{"lower", "heating", "neutral", "cooling", "upper"} -> Root],
            demands : SUBSET [eligible : BOOLEAN, mode : STRING, heating : Root, cooling : Root],
            dew : Root, faults : SUBSET STRING]

ASSUME ZoneAssumption ==
  /\ NoRoot \notin Int
  /\ Fine \notin {"primary", "humidity", "speed_stale", "current", "control_band"}
  /\ Fine \notin {"heating", "neutral", "cooling"}
  /\ {HoldSpan, Slew, MaxQuarters, MaxInputs, MaxSaveErrors} \subseteq Nat
  /\ Plants \subseteq Seq(Devices) \ {<<>>}
  /\ Configurations \subseteq Options /\ \A o \in Configurations : o.gap % 2 = 0
  /\ UserChoices \subseteq Selections
  /\ Worlds \subseteq Sources /\ \A w \in Worlds : IsFiniteSet(w.demands)

VARIABLES
  plant,      \* the devices
  world,      \* the sources, as validated
  set,        \* the options and the choices
  quarter,    \* time
  hold,       \* failure_hold_reason, its age and failure_hold_elapsed
  previous,   \* previous_requested and its age
  explicit,   \* explicit_transition
  reached,    \* rapid_boost_reached
  latch,      \* heating_demand_active
  known,      \* the cached heating references
  marker,     \* manual_heating_fallback_pending
  setpoint,   \* the scalar target of each device
  out,        \* the targets of the last calculation
  calm,       \* nothing that the next calculation reads has changed
  streak,     \* the condition that was published last, and for how long without a break
  inputs, saveErrors

zoneVars == <<plant, world, set, quarter, hold, previous, explicit, reached, latch, known,
              marker, setpoint, out, calm, streak, inputs, saveErrors>>

\* The sequence of what each device gets.
Each(Op(_)) == SubSeq([i \in DOMAIN plant |-> Op(i)], 1, Len(plant))

NoReference == [occupied |-> NoRoot, unoccupied |-> NoRoot, neutral |-> NoRoot]

-----------------------------------------------------------------------------
(* One target: core/pipeline.py *)

\* A device that cannot be controlled is calculated for all the same.
Direction(device) ==
  IF Capability(device) # NoTarget THEN Capability(device)
  ELSE IF InferAuto(device.scalar, device.ranged, device.modes) = "bidirectional"
  THEN "bidirectional"
  ELSE IF device.ranged THEN "ranged" ELSE IF device.mode = "cool" THEN "cooling" ELSE "heating"

Failed(reason, condition, solved) ==
  [policy |-> NoTarget, target |-> NoTarget, reason |-> reason, hold |-> condition,
   kind |-> "none", boost |-> "off", solved |-> solved, gated |-> FALSE,
   reference |-> NoReference]

\* Cooling that no comfort result limits stays above the dew point.
AboveDew(target, direction, dew) ==
  LET cooling == IF direction = "ranged" THEN target.cooling ELSE target
  IN IF target = NoTarget THEN NoTarget
     ELSE IF dew # NoRoot /\ Cools(direction) /\ cooling.room < dew THEN NoTarget
     ELSE target

\* _normalize_policy: the legal target of a policy.
Executable(policy, direction, device, s, dew) ==
  LET needed == {x \in {"heating", "cooling"} : x = direction \/ direction = "ranged"}
  IN IF policy = NoTarget THEN NoTarget
     ELSE IF \E x \in needed : policy[x] = NoRoot THEN NoTarget
     ELSE AboveDew(IF direction = "ranged"
                   THEN NormalizeRange(policy.heating, policy.cooling, device, s, s.rounding, s.gap)
                   ELSE NormalizeScalar(policy[direction], direction, device, s, s.rounding),
                   direction, dew)

\* A policy and its legal target, if it has one.
Outcome(policy, target, condition, solved) ==
  [Failed(IF target = NoTarget THEN "no_legal_target" ELSE Fine, condition, solved)
     EXCEPT !.policy = policy, !.target = target]

\* _fixed_fallback
FixedOf(policy, direction, device, w, s, condition, gated, solved) ==
  [Outcome(policy, Executable(policy, direction, device, s, w.dew), condition, solved)
     EXCEPT !.kind = "fixed", !.gated = gated]

Fixed(direction, device, w, s, condition, gated, solved) ==
  IF direction = "bidirectional" THEN Failed(condition, condition, solved)
  ELSE FixedOf(FixedFallback(direction, s), direction, device, w, s, condition, gated, solved)

\* directional_root_eligibility, and the roots that Boost needs instead.
Required(direction, boosted) ==
  CASE direction = "heating" -> IF boosted THEN <<"neutral">> ELSE <<"heating">>
    [] direction = "cooling" -> IF boosted THEN <<"cooling", "neutral">> ELSE <<"cooling">>
    [] direction = "ranged" -> <<"heating", "cooling">>
    [] OTHER -> <<"heating", "neutral", "cooling">>

Ineligible(direction, boosted, w, s) ==
  LET needed == Required(direction, boosted)
      lost == {i \in DOMAIN needed : w.roots[needed[i]] = NoRoot}
  IN IF "current" \in w.faults THEN "current"
     ELSE IF lost # {} THEN needed[CHOOSE i \in lost : \A j \in lost : i <= j]
     ELSE IF direction = "ranged" /\ w.roots.cooling - w.roots.heating < s.gap
     THEN "control_band" ELSE Fine

RoomOf(target) == IF target = NoTarget THEN NoRoot ELSE target.room

\* The room targets of comfort and setback without Boost, for the cache: as the policy
\* has them, neither calibrated nor rounded.
ReferenceOf(critical, w, s) ==
  LET Room(profile) == Setback(critical, w.roots, [s EXCEPT !.profile = profile]).heating
  IN IF critical = NoTarget THEN NoReference
     ELSE [occupied |-> Room("comfort"), unoccupied |-> Room("eco"), neutral |-> w.roots.neutral]

Reference(direction, w, s) ==
  IF direction # "heating" THEN NoReference
  ELSE ReferenceOf(CriticalTargets(w.roots, w.demands, direction, s.gap), w, s)

\* calculate_zone from the eligible roots on; `boosted` is the Boost of a device with
\* one setpoint, whose goal is taken on its grid.
AdaptiveOutcome(policy, target, direction, device, w, s) ==
  [Outcome(policy, target, Fine, TRUE)
     EXCEPT !.kind = "adaptive", !.boost = s.boost,
            !.reference = IF target = NoTarget THEN NoReference
                          ELSE Reference(direction, w, s)]

AdaptiveOf(policy, direction, device, w, s) ==
  AdaptiveOutcome(policy, Executable(policy, direction, device, s,
                                     IF s.boost = "off" THEN NoRoot ELSE w.dew),
                  direction, device, w, s)

AdaptiveTo(goal, direction, boosted, device, w, s, fb) ==
  IF boosted /\ goal = NoTarget THEN Failed("no_legal_target", Fine, TRUE)
  ELSE AdaptiveOf(AdaptivePolicy(w.roots, w.demands, direction, s,
                                 IF boosted THEN goal.room ELSE NoRoot, w.room, fb.reached,
                                 fb.previous, fb.allowance, fb.explicit),
                  direction, device, w, s)

Adaptive(direction, boosted, device, w, s, fb) ==
  AdaptiveTo(NormalizeScalar(IF direction = "heating" THEN w.roots.neutral + s.delta
                             ELSE w.roots.neutral - s.delta, direction, device, s, s.rounding),
             direction, boosted, device, w, s, fb)

\* A device that heats and cools through one setpoint: the selected root, at once,
\* and neutral without profile, Boost and locations.
Shown(result, w) ==
  LET target == [result.target EXCEPT !.direction =
                   IF result.target.room >= w.room THEN "heating" ELSE "cooling"]
  IN IF result.target = NoTarget THEN result
     ELSE IF "diagnostic" \in w.faults
     THEN [result EXCEPT !.target = NoTarget, !.reason = "diagnostic", !.hold = "diagnostic"]
     ELSE [result EXCEPT !.target = target]

Selected(device, w, s, fb) ==
  LET branch == ScalarBranch(w.room, w.outdoor, w.roots)
      direction == BranchDirection(branch, w.room, w.roots)
      atNeutral == [w EXCEPT !.roots.heating = w.roots.neutral,
                             !.roots.cooling = w.roots.neutral, !.demands = {}]
      plainly == [s EXCEPT !.profile = "comfort", !.boost = "off",
                           !.rounding = IF @ = "inward" THEN "mathematical" ELSE @]
      atOnce == [fb EXCEPT !.explicit = TRUE]
      neutral == branch = "neutral"
  IN IF "outdoor" \in w.faults \/ "stale" \in w.faults
        \/ ~(w.roots.heating <= w.roots.neutral /\ w.roots.neutral <= w.roots.cooling)
     THEN Failed("selection", "selection", TRUE)
     ELSE IF s.reject /\ "extrapolated" \in w.faults THEN Failed("extrapolated", "extrapolated", TRUE)
     ELSE Shown(Adaptive(direction, FALSE, device, IF neutral THEN atNeutral ELSE w,
                         IF neutral THEN plainly ELSE s, atOnce), w)

\* calculate_zone: history that is missing or only diagnostic falls back at once,
\* missing roots and a rejected extrapolation after the failure hold.
Zone(device, w, s, fb) ==
  LET direction == Direction(device)
      boosted == s.boost # "off" /\ direction \in {"heating", "cooling"}
      lost == Ineligible(direction, boosted, w, s)
      Held(reason) == IF fb.elapsed THEN Fixed(direction, device, w, s, reason, TRUE, TRUE)
                      ELSE Failed(reason, reason, TRUE)
  IN CASE "mean" \in w.faults -> Fixed(direction, device, w, s, "mean", FALSE, FALSE)
       [] "speed" \in w.faults -> Fixed(direction, device, w, s, "speed_invalid", TRUE, FALSE)
       [] "diagnostic" \in w.faults /\ direction # "bidirectional" ->
            Fixed(direction, device, w, s, "diagnostic", FALSE, TRUE)
       [] lost # Fine -> Held(lost)
       [] direction = "bidirectional" -> Selected(device, w, s, fb)
       [] s.reject /\ "extrapolated" \in w.faults -> Held("extrapolated")
       [] OTHER -> Adaptive(direction, boosted, device, w, s, fb)

-----------------------------------------------------------------------------
(* Manual heating without a valid humidity: _manual_heating_targets *)

ManualIntended(s) == s.preheat \/ s.boost # "off"
Withdraws(s, fb) == fb.marker /\ ~ManualIntended(s)

\* Cooling and devices that do both keep their guards.
ManualPossible(s, fb) ==
  /\ ManualIntended(s) \/ Withdraws(s, fb)
  /\ \A i \in DOMAIN plant : Capability(plant[i]) \in {"heating", NoTarget}

\* The return of an ended manual heat goes downwards only.
ManualPolicy(i, w, s, fb) ==
  LET device == plant[i]
      reference == known[i]
      kept == IF s.profile = "eco" THEN reference.unoccupied ELSE reference.occupied
      return == Lesser(IF kept = NoRoot THEN s.min ELSE kept, setpoint[i] - s.calibration)
      goal == NormalizeScalar(reference.neutral + s.delta, "heating", device, s, s.rounding)
  IN IF Withdraws(s, fb)
     THEN ManualHeating(return, NoRoot, [s EXCEPT !.boost = "off"], NoRoot, w.room, FALSE)
     ELSE ManualHeating(reference.occupied, reference.neutral, s,
                        IF reference.neutral = NoRoot \/ s.boost = "off" THEN NoRoot
                        ELSE RoomOf(goal), w.room, fb.reached)

ManualOutcome(policy, target, i, s, fb) ==
  LET rises == Withdraws(s, fb) /\ target # NoTarget /\ target.actuator > setpoint[i]
  IN IF Capability(plant[i]) = NoTarget \/ target = NoTarget \/ rises
     THEN Failed("no_manual_target", Fine, FALSE)
     ELSE [Outcome(policy, target, Fine, FALSE) EXCEPT
             !.kind = "manual", !.boost = IF Withdraws(s, fb) THEN "off" ELSE s.boost]

ManualOf(policy, i, s, fb) ==
  ManualOutcome(policy, Executable(policy, "heating", plant[i], s, NoRoot), i, s, fb)

ManualTarget(i, w, s, fb) == ManualOf(ManualPolicy(i, w, s, fb), i, s, fb)

-----------------------------------------------------------------------------
(* All targets of a zone: calculate_runtime_snapshot *)

\* The first mandatory source that is missing; a missing air speed waits for the hold.
Mandatory(w, fb) ==
  CASE "primary" \in w.faults -> "primary"
    [] "humidity" \in w.faults -> "humidity"
    [] "speed" \in w.faults /\ ~fb.elapsed -> "speed_stale"
    [] OTHER -> Fine

\* Rapid Boost of devices that heat and devices that cool is adaptive.
EffectiveBoost(s) ==
  IF s.boost = "rapid" /\ {"heating", "cooling"} \subseteq {Capability(plant[i]) : i \in DOMAIN plant}
  THEN [s EXCEPT !.boost = "adaptive"] ELSE s

Actual(device, result) ==     \* the mapping's direction
  IF Capability(device) = "bidirectional" /\ result.target # NoTarget
  THEN result.target.direction ELSE Capability(device)

Scalar(result) == result.target # NoTarget /\ "actuator" \in DOMAIN result.target

\* The final coordination of a scalar target with the others'; `owned` are the targets
\* whose intended value counts.
Coordinate(results, owned, s) ==
  LET Opposing(i) ==
        {[direction |-> Actual(plant[j], results[j]),
          owned |-> j \in owned /\ Scalar(results[j]), available |-> plant[j].observable,
          intended |-> IF Scalar(results[j]) THEN results[j].target.room ELSE NoRoot,
          observed |-> setpoint[j]] : j \in {k \in DOMAIN plant : k # i /\ Capability(plant[k]) # NoTarget}}
      Checked(i) ==
        IF /\ Capability(plant[i]) # NoTarget /\ Scalar(results[i])
           /\ ~Coordinated(Actual(plant[i], results[i]), results[i].target.room, Opposing(i), s.gap)
        THEN [results[i] EXCEPT !.reason = "uncoordinated"] ELSE results[i]
  IN Each(Checked)

\* Boost and Preheat heat without a heating root, from the other roots or the cache.
Rootless(zones, w) ==
  \E i \in DOMAIN plant :
    \/ zones[i].reason = "heating"
    \/ /\ zones[i].target # NoTarget /\ zones[i].solved
       /\ Capability(plant[i]) = "heating" /\ w.roots.heating = NoRoot

FromCache(rootless, s, fb) == rootless /\ s.boost = "off" /\ ManualPossible(s, fb)

Replacement(zone, cached, i, fromCache) ==
  CASE fromCache /\ cached.target # NoTarget -> [cached EXCEPT !.solved = zone.solved]
    [] Capability(plant[i]) = NoTarget -> [zone EXCEPT !.reason = "incapable"]
    [] OTHER -> zone

Combined(results, manual, w, s) ==
  LET held == {i \in DOMAIN plant : results[i].hold # Fine}
  IN [targets |-> Coordinate(results, DOMAIN plant, s), manual |-> manual,
      first |-> results[1].policy,
      hold |-> IF held # {} THEN results[CHOOSE i \in held : \A j \in held : i <= j].hold
               ELSE IF manual THEN "heating"
               ELSE IF "speed" \in w.faults THEN "speed_invalid" ELSE Fine]

Completed(zones, rootless, w, s, fb) ==
  LET fromCache == FromCache(rootless, s, fb)
      Replaced(i) == Replacement(zones[i], ManualTarget(i, w, s, fb), i, fromCache)
  IN Combined(Each(Replaced), rootless /\ (s.boost # "off" \/ fromCache), w, s)

CompletedZones(zones, w, s, fb) == Completed(zones, Rootless(zones, w), w, s, fb)

Calculated(w, s, fb) ==
  LET Alone(i) == Zone(plant[i], w, EffectiveBoost(s), fb)
  IN CompletedZones(Each(Alone), w, s, fb)

\* Without a valid humidity every target is one of manual heating.
ManualZone(targets) ==
  LET made == {i \in DOMAIN plant : targets[i].kind = "manual"}
  IN [targets |-> targets, manual |-> TRUE, hold |-> "humidity",
      first |-> IF made = {} THEN NoTarget
                ELSE targets[CHOOSE i \in made : \A j \in made : i <= j].policy]

Calculation(w, s, fb) ==
  LET failure == Mandatory(w, fb)
  IN IF failure = Fine THEN Calculated(w, s, fb)
     ELSE IF /\ failure = "humidity" /\ w.faults \cap {"stale", "speed"} = {}
             /\ ManualPossible(s, fb)
     THEN LET Manual(i) == ManualTarget(i, w, s, fb) IN ManualZone(Each(Manual))
     ELSE [targets |-> LET None(i) == Failed(failure, Fine, FALSE) IN Each(None),
           manual |-> FALSE, hold |-> failure, first |-> NoTarget]

-----------------------------------------------------------------------------
(* The heating demand: _apply_heating_demand_hysteresis *)

\* The heating target that the latch of a device decides about.
Buffered(i, r, c, w, s) ==
  /\ s.buffer /\ r.target # NoTarget /\ r.reason = Fine
  /\ Scalar(r) => Capability(plant[i]) = "heating"
  /\ w.faults \cap {"primary", "stale"} = {}
  /\ c.hold = Fine \/ c.manual

HeatingPart(r) == IF Scalar(r) THEN r.target ELSE r.target.heating

Demands(i, r, w, s) ==
  LET heating == HeatingPart(r)
      comfort == s.occupied /\ r.kind = "adaptive"
  IN HeatingDemand(latch[i], heating.room, w.room, heating.bounded, s.start, s.stop,
                   r.boost # "off", IF comfort /\ r.solved THEN w.roots.lower ELSE NoRoot,
                   s.assist /\ comfort)

\* _idle_heating_target: rounded down, no higher than the room.
IdleTarget(i, r, w, s) ==
  LET idle == NormalizeScalar(Lesser(w.room, HeatingPart(r).room), "heating", plant[i], s, "floor")
  IN IF idle = NoTarget THEN NoTarget
     ELSE IF Scalar(r) THEN idle ELSE [r.target EXCEPT !.heating = idle]

Idle(i, r, idle) ==
  IF idle = NoTarget THEN [result |-> [r EXCEPT !.reason = "no_idle_target"], latch |-> latch[i]]
  ELSE [result |-> [r EXCEPT !.target = idle], latch |-> FALSE]

Buffer(i, r, c, w, s) ==
  IF ~Buffered(i, r, c, w, s) THEN [result |-> r, latch |-> latch[i]]
  ELSE IF Demands(i, r, w, s) THEN [result |-> r, latch |-> TRUE]
  ELSE Idle(i, r, IdleTarget(i, r, w, s))

-----------------------------------------------------------------------------
(* The runtime *)

Allowance == Slew * previous.age

Feedback == [elapsed |-> hold.elapsed, reached |-> reached, previous |-> previous,
             allowance |-> Allowance, explicit |-> explicit, marker |-> marker]

\* _update_failure_hold that keeps what another condition has waited for, with a bug.
HoldAfterKept(condition) ==
  IF condition = Fine THEN [reason |-> Fine, age |-> 0, elapsed |-> FALSE]
  ELSE IF condition = hold.reason THEN hold
  ELSE [hold EXCEPT !.reason = condition]

\* _update_failure_hold: a new condition begins its own hold.
HoldAfter(condition) ==
  IF condition = Fine THEN [reason |-> Fine, age |-> 0, elapsed |-> FALSE]
  ELSE IF condition = hold.reason THEN hold
  ELSE [reason |-> condition, age |-> 0, elapsed |-> FALSE]

\* What the next calculation reads of this one, the latches aside.
Inputs == <<hold.reason, hold.elapsed, previous, explicit, reached, known, marker, setpoint>>

\* _publish_calculation
Publish(c, decided) ==
  /\ hold' = HoldAfter(c.hold)
  /\ streak' = [condition |-> c.hold, age |-> IF c.hold = streak.condition THEN streak.age ELSE 0,
                before |-> streak.age]
  /\ out' = [i \in DOMAIN plant |-> decided[i].result]
  /\ IF c.first # NoTarget
     THEN /\ previous' = [heating |-> c.first.heating, cooling |-> c.first.cooling, age |-> 0]
          /\ explicit' = (explicit /\ c.hold # Fine)
          /\ reached' = (reached \/ (set.boost = "rapid" /\ c.first.reached))
     ELSE /\ explicit' = (explicit \/ c.hold # Fine)
          /\ UNCHANGED <<previous, reached>>
  /\ known' = IF /\ c.hold = Fine
                 /\ world.faults \cap {"primary", "stale", "current"} = {}
              THEN [i \in DOMAIN plant |-> c.targets[i].reference] ELSE known

\* _async_apply_calculation: the marker of manual heating and the latches are saved
\* before a target is written, or the write is given up; the broker may refuse it.
ApplyResults(c, decided, results, owned) ==
  LET executable == {i \in DOMAIN plant : decided[i].result.target # NoTarget /\ decided[i].result.reason = Fine}
      wanted == IF executable = {} THEN marker
                ELSE IF c.manual THEN TRUE ELSE IF c.hold = Fine THEN FALSE ELSE marker
      changed == {i \in DOMAIN plant : decided[i].latch # latch[i]}
      writable == {i \in executable \cap owned :
                     /\ Scalar(results[i]) /\ results[i].reason = Fine
                     /\ ~("stale" \in world.faults /\ Actual(plant[i], results[i]) = "cooling")}
      New(written) == [i \in DOMAIN plant |-> IF i \in written THEN results[i].target.actuator
                                              ELSE setpoint[i]]
  IN \/ /\ marker' = wanted
        /\ latch' = [i \in DOMAIN plant |-> decided[i].latch]
        /\ \E written \in SUBSET writable : setpoint' = New(written)
        /\ UNCHANGED saveErrors
     \/ /\ wanted # marker /\ saveErrors < MaxSaveErrors      \* the marker is not saved
        /\ latch' = [i \in DOMAIN plant |-> decided[i].latch]
        /\ saveErrors' = saveErrors + 1
        /\ UNCHANGED <<marker, setpoint>>
     \/ /\ changed # {} /\ saveErrors < MaxSaveErrors          \* the latches are not saved
        /\ marker' = wanted
        /\ \E written \in SUBSET (writable \ changed) : setpoint' = New(written)
        /\ saveErrors' = saveErrors + 1
        /\ UNCHANGED latch

Apply(c, decided, owned) ==
  LET Result(i) == decided[i].result
  IN ApplyResults(c, decided, Coordinate(Each(Result), owned, set), owned)

Conclude(c, decided) ==
  /\ Publish(c, decided)
  /\ \E owned \in SUBSET DOMAIN plant : Apply(c, decided, owned)

Decide(c) ==
  LET Decided(i) == Buffer(i, c.targets[i], c, world, set)
  IN Conclude(c, Each(Decided))

Calculate ==
  /\ Decide(Calculation(world, set, Feedback))
  /\ calm' = (saveErrors' = saveErrors /\ Inputs' = Inputs)
  /\ UNCHANGED <<plant, world, set, quarter, inputs>>

\* The 15 minutes of one condition are over.
HoldElapses ==
  /\ hold.reason # Fine /\ ~hold.elapsed /\ hold.age = HoldSpan
  /\ hold' = [hold EXCEPT !.elapsed = TRUE]
  /\ calm' = FALSE
  /\ UNCHANGED <<plant, world, set, quarter, previous, explicit, reached, latch, known, marker,
                 setpoint, out, streak, inputs, saveErrors>>

Tick ==
  /\ quarter < MaxQuarters
  /\ hold.reason # Fine /\ ~hold.elapsed => hold.age < HoldSpan
  /\ quarter' = quarter + 1
  /\ hold' = [hold EXCEPT !.age = IF hold.reason = Fine THEN 0 ELSE Lesser(@ + 1, HoldSpan)]
  /\ previous' = [previous EXCEPT !.age = @ + 1]
  /\ streak' = [streak EXCEPT !.age = IF streak.condition = Fine THEN 0 ELSE Lesser(@ + 1, HoldSpan)]
  /\ calm' = FALSE
  /\ UNCHANGED <<plant, world, set, explicit, reached, latch, known, marker, setpoint, out,
                 inputs, saveErrors>>

Disturb ==
  /\ inputs < MaxInputs
  /\ inputs' = inputs + 1
  /\ calm' = FALSE
  /\ UNCHANGED <<quarter, hold, previous, latch, known, marker, setpoint, out, streak, saveErrors>>

WorldChanges ==
  /\ Disturb
  /\ \E w \in Worlds \ {world} : world' = w
  /\ UNCHANGED <<plant, set, explicit, reached>>

\* A choice of the user or a change of the occupancy is an explicit transition; a new
\* Boost begins with its rapid phase.
ChoiceChanges ==
  /\ Disturb
  /\ \E c \in UserChoices :
       /\ \E f \in DOMAIN c : c[f] # set[f]
       /\ set' = [f \in DOMAIN set |-> IF f \in DOMAIN c THEN c[f] ELSE set[f]]
       /\ reached' = (reached /\ c.boost = set.boost)
  /\ explicit' = TRUE
  /\ UNCHANGED <<plant, world>>

\* The mode of a device is changed at the device.
DeviceChanges ==
  /\ Disturb
  /\ \E p \in Plants \ {plant} : Len(p) = Len(plant) /\ plant' = p
  /\ UNCHANGED <<world, set, explicit, reached>>

ZoneInit ==
  /\ plant \in Plants
  /\ world \in Worlds
  /\ \E o \in Configurations, c \in UserChoices :
       set = [f \in DOMAIN o \cup DOMAIN c |-> IF f \in DOMAIN c THEN c[f] ELSE o[f]]
  /\ quarter = 0
  /\ hold = [reason |-> Fine, age |-> 0, elapsed |-> FALSE]
  /\ previous = [heating |-> NoRoot, cooling |-> NoRoot, age |-> 0]
  /\ explicit = TRUE
  /\ reached = FALSE
  /\ latch = [i \in DOMAIN plant |-> FALSE]
  /\ known = [i \in DOMAIN plant |-> NoReference]
  /\ marker = FALSE
  /\ setpoint = [i \in DOMAIN plant |-> set.min]
  /\ out = <<>>
  /\ calm = FALSE
  /\ streak = [condition |-> Fine, age |-> 0, before |-> 0]
  /\ inputs = 0
  /\ saveErrors = 0

ZoneNext == Calculate \/ HoldElapses \/ Tick \/ WorldChanges \/ ChoiceChanges \/ DeviceChanges

ZoneSpec == ZoneInit /\ [][ZoneNext]_zoneVars

-----------------------------------------------------------------------------
(* Properties *)

ZoneTypeOK ==
  /\ plant \in Plants /\ world \in Worlds
  /\ quarter \in 0 .. MaxQuarters /\ inputs \in 0 .. MaxInputs /\ saveErrors \in 0 .. MaxSaveErrors
  /\ hold.age \in 0 .. HoldSpan /\ {explicit, reached, marker, calm, hold.elapsed} \subseteq BOOLEAN
  /\ latch \in [DOMAIN plant -> BOOLEAN]
  /\ DOMAIN setpoint = DOMAIN plant /\ DOMAIN known = DOMAIN plant
  /\ hold.reason = streak.condition
  /\ previous.age \in 0 .. MaxQuarters

\* Calculating once more without a new input never turns a heating-demand latch over:
\* the start and the stop of the demand leave no room between them in which a rounded
\* target makes heating start and stop at every calculation.
NoChatter == [][calm /\ UNCHANGED <<plant, world, set, quarter, hold>> => UNCHANGED latch]_zoneVars

\* A zone falls back to the fixed temperatures for want of a root, of an air speed or of
\* applicability only after one condition was published for 15 minutes without a break.
FallbackEarned == \A i \in DOMAIN out : out[i].gated => streak.before >= HoldSpan

Ordered(p, gap) ==
  IF NoRoot \in {p.heating, p.cooling} THEN p.heating = p.cooling
  ELSE p.cooling - p.heating >= gap

\* Whatever locations, profile and Boost add to a range, and however its ends are slewed
\* from an ordered range, what is requested keeps the gap between heating and cooling, as
\* long as a deep setback has the room to.
RangesOrdered ==
  [][out' # out /\ (explicit \/ Ordered(previous, set.gap))
     /\ (set.intensity = "deep" => set.max - set.min >= set.gap + 2 * MaxInfluence)
     => \A i \in DOMAIN out' :
          out'[i].policy # NoTarget /\ Direction(plant[i]) = "ranged"
            => Ordered(out'[i].policy, set.gap)]_zoneVars
=============================================================================
