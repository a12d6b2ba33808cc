---------------------------- MODULE ZoneTargetsProofs ----------------------------
(* A zone falls back only after the failure hold, its heating demand settles, and  *)
(* what it requests of a range keeps the gap, for any devices, options, choices    *)
(* and sources.                                                                    *)
EXTENDS ZoneTargets, TLAPS, SequenceTheorems, FiniteSetTheorems

-----------------------------------------------------------------------------
(* The failure hold.                                                         *)

LEMMA ZoneConstants ==
  /\ NoRoot \notin Int /\ HoldSpan \in Nat /\ Slew \in Nat /\ MaxQuarters \in Nat
  /\ MaxInputs \in Nat /\ MaxSaveErrors \in Nat
  /\ Fine # "primary" /\ Fine # "humidity" /\ Fine # "speed_stale"
BY ZoneAssumption

LEMMA PlantIs ==
  ASSUME plant \in Plants
  PROVE  plant \in Seq(Devices) /\ Len(plant) \in Nat /\ DOMAIN plant = 1 .. Len(plant)
BY ZoneAssumption

\* A sequence made by Each has what the operator makes of each device.
LEMMA EachIs ==
  ASSUME plant \in Plants, NEW f, DOMAIN f = DOMAIN plant
  PROVE  /\ DOMAIN SubSeq(f, 1, Len(plant)) = DOMAIN plant
         /\ \A i \in DOMAIN plant : SubSeq(f, 1, Len(plant))[i] = f[i]
<1>1. Len(plant) \in Nat /\ DOMAIN plant = 1 .. Len(plant)
  BY PlantIs
<1> DEFINE S == {f[i] : i \in DOMAIN plant}
<1>2. \A i \in 1 .. Len(plant) : f[i] \in S
  BY <1>1
<1> HIDE DEF S
<1>3. /\ SubSeq(f, 1, Len(plant)) \in Seq(S)
      /\ Len(SubSeq(f, 1, Len(plant))) = (IF 1 <= Len(plant) THEN Len(plant) - 1 + 1 ELSE 0)
      /\ \A i \in 1 .. Len(plant) - 1 + 1 : SubSeq(f, 1, Len(plant))[i] = f[1 + i - 1]
  BY <1>1, <1>2, SubSeqProperties
<1>4. Len(SubSeq(f, 1, Len(plant))) = Len(plant)
  BY <1>1, <1>3
<1>5. DOMAIN SubSeq(f, 1, Len(plant)) = 1 .. Len(plant)
  BY <1>3, <1>4
<1> QED BY <1>1, <1>3, <1>5

\* Whether a result is one of the failure hold.
Says(r, g) == "gated" \in DOMAIN r /\ r.gated = g

LEMMA FailedSays == \A reason, condition, solved : Says(Failed(reason, condition, solved), FALSE)
BY DEF Failed, Says

LEMMA OutcomeSays ==
  \A policy, target, condition, solved : Says(Outcome(policy, target, condition, solved), FALSE)
BY FailedSays, Zenon DEF Outcome, Says

LEMMA SaysTarget ==
  ASSUME NEW r, NEW g, Says(r, g), NEW x, NEW y, NEW z
  PROVE  /\ Says([r EXCEPT !.target = x], g)
         /\ Says([r EXCEPT !.target = x, !.reason = y, !.hold = z], g)
         /\ Says([r EXCEPT !.reason = y], g)
         /\ Says([r EXCEPT !.solved = y], g)
         /\ Says([r EXCEPT !.kind = x, !.boost = y, !.reference = z], g)
         /\ Says([r EXCEPT !.kind = x, !.boost = y], g)
         /\ Says([r EXCEPT !.kind = x, !.gated = y], y)
BY Zenon DEF Says

LEMMA FixedOfSays ==
  \A policy, direction, device, w, s, condition, gated, solved :
    Says(FixedOf(policy, direction, device, w, s, condition, gated, solved), gated)
BY OutcomeSays, SaysTarget, Zenon DEF FixedOf

LEMMA FixedSays ==
  \A direction, device, w, s, condition, gated, solved :
    \/ Says(Fixed(direction, device, w, s, condition, gated, solved), FALSE)
    \/ Says(Fixed(direction, device, w, s, condition, gated, solved), gated)
<1> SUFFICES ASSUME NEW direction, NEW device, NEW w, NEW s, NEW condition, NEW gated, NEW solved
             PROVE  \/ Says(Fixed(direction, device, w, s, condition, gated, solved), FALSE)
                    \/ Says(Fixed(direction, device, w, s, condition, gated, solved), gated)
  OBVIOUS
<1>1. \/ Fixed(direction, device, w, s, condition, gated, solved) = Failed(condition, condition, solved)
      \/ Fixed(direction, device, w, s, condition, gated, solved) =
           FixedOf(FixedFallback(direction, s), direction, device, w, s, condition, gated, solved)
  BY Zenon DEF Fixed
<1> QED BY <1>1, FixedOfSays, FailedSays, Zenon

LEMMA AdaptiveSays ==
  \A direction, boosted, device, w, s, fb : Says(Adaptive(direction, boosted, device, w, s, fb), FALSE)
<1>1. \A policy, target, direction, device, w, s :
        Says(AdaptiveOutcome(policy, target, direction, device, w, s), FALSE)
  BY OutcomeSays, SaysTarget, Zenon DEF AdaptiveOutcome
<1>2. \A policy, direction, device, w, s : Says(AdaptiveOf(policy, direction, device, w, s), FALSE)
  BY <1>1, Zenon DEF AdaptiveOf
<1>3. \A goal, direction, boosted, device, w, s, fb :
        Says(AdaptiveTo(goal, direction, boosted, device, w, s, fb), FALSE)
  BY <1>2, FailedSays, Zenon DEF AdaptiveTo
<1> QED BY <1>3, Zenon DEF Adaptive

LEMMA SelectedSays == \A device, w, s, fb : Says(Selected(device, w, s, fb), FALSE)
<1>1. \A r, w : Says(r, FALSE) => Says(Shown(r, w), FALSE)
  BY SaysTarget, Zenon DEF Shown
<1> QED BY <1>1, AdaptiveSays, FailedSays, Zenon DEF Selected

\* Only a hold that has elapsed, or an air speed that is wrong, is behind such a result.
Gated(r, may) == Says(r, FALSE) \/ (Says(r, TRUE) /\ may)

LEMMA ZoneGated ==
  ASSUME NEW device, NEW w, NEW s, NEW fb, NEW may, fb.elapsed => may, "speed" \in w.faults => may
  PROVE  Gated(Zone(device, w, s, fb), may)
<1> DEFINE direction == Direction(device)
<1>1. \A r : Says(r, FALSE) => Gated(r, may)
  BY DEF Gated
<1>2. \A condition, solved : Gated(Fixed(direction, device, w, s, condition, FALSE, solved), may)
  BY FixedSays, Zenon DEF Gated
<1>3. ASSUME may
      PROVE  \A condition, solved : Gated(Fixed(direction, device, w, s, condition, TRUE, solved), may)
  BY <1>3, FixedSays, Zenon DEF Gated
<1>4. \A reason, boosted : /\ Gated(Failed(reason, reason, TRUE), may)
                           /\ Gated(Selected(device, w, s, fb), may)
                           /\ Gated(Adaptive(direction, boosted, device, w, s, fb), may)
  BY <1>1, FailedSays, SelectedSays, AdaptiveSays, Zenon
<1> HIDE DEF direction
<1>5. \A reason : Gated(IF fb.elapsed THEN Fixed(direction, device, w, s, reason, TRUE, TRUE)
                        ELSE Failed(reason, reason, TRUE), may)
  BY <1>3, <1>4, Zenon
<1> HIDE DEF Gated
<1> USE DEF direction
<1> QED BY <1>2, <1>3, <1>4, <1>5, Zenon DEF Zone

LEMMA GatedKept ==
  ASSUME NEW r, NEW may, Gated(r, may), NEW x
  PROVE  /\ Gated([r EXCEPT !.reason = x], may) /\ Gated([r EXCEPT !.solved = x], may)
         /\ Gated([r EXCEPT !.target = x], may)
BY SaysTarget, Zenon DEF Gated

LEMMA ManualSays == \A i, w, s, fb : Says(ManualTarget(i, w, s, fb), FALSE)
<1>1. \A policy, target, i, s, fb : Says(ManualOutcome(policy, target, i, s, fb), FALSE)
  BY OutcomeSays, FailedSays, SaysTarget, Zenon DEF ManualOutcome
<1> QED BY <1>1, Zenon DEF ManualTarget, ManualOf

LEMMA ReplacementGated ==
  ASSUME NEW zone, NEW cached, NEW i, NEW fromCache, NEW may,
         Gated(zone, may), Gated(cached, may)
  PROVE  Gated(Replacement(zone, cached, i, fromCache), may)
<1>1. \/ Replacement(zone, cached, i, fromCache) = [cached EXCEPT !.solved = zone.solved]
      \/ Replacement(zone, cached, i, fromCache) = [zone EXCEPT !.reason = "incapable"]
      \/ Replacement(zone, cached, i, fromCache) = zone
  BY DEF Replacement
<1>2. Gated([cached EXCEPT !.solved = zone.solved], may)
  BY GatedKept
<1>3. Gated([zone EXCEPT !.reason = "incapable"], may)
  BY GatedKept
<1> QED BY <1>1, <1>2, <1>3, Zenon

\* The coordination changes no more than the reason.
LEMMA CoordinateIs ==
  ASSUME plant \in Plants, NEW results, NEW owned, NEW s
  PROVE  /\ DOMAIN Coordinate(results, owned, s) = DOMAIN plant
         /\ \A i \in DOMAIN plant :
              \/ Coordinate(results, owned, s)[i] = results[i]
              \/ Coordinate(results, owned, s)[i] = [results[i] EXCEPT !.reason = "uncoordinated"]
<1> DEFINE Opposing(i) ==
        {[direction |-> Actual(plant[j], results[j]),
          owned |-> j \in owned /\ Scalar(results[j]), available |-> plant[j].observable,
          intended |-> IF Scalar(results[j]) THEN results[j].target.room ELSE NoRoot,
          observed |-> setpoint[j]] : j \in {k \in DOMAIN plant : k # i /\ Capability(plant[k]) # NoTarget}}
      Clashes(i) ==
        /\ Capability(plant[i]) # NoTarget /\ Scalar(results[i])
        /\ ~Coordinated(Actual(plant[i], results[i]), results[i].target.room, Opposing(i), s.gap)
      f == [i \in DOMAIN plant |->
              IF Clashes(i) THEN [results[i] EXCEPT !.reason = "uncoordinated"] ELSE results[i]]
<1>1. Coordinate(results, owned, s) = SubSeq(f, 1, Len(plant))
  BY Zenon DEF Coordinate, Each
<1>2. DOMAIN f = DOMAIN plant
  OBVIOUS
<1>3. \A i \in DOMAIN plant :
        f[i] = results[i] \/ f[i] = [results[i] EXCEPT !.reason = "uncoordinated"]
  <2> HIDE DEF Clashes
  <2> QED BY Zenon
<1> HIDE DEF f
<1> QED BY <1>1, <1>2, <1>3, EachIs

\* Every target of a calculation is gated by the hold that it was given.
AllGated(results, may) == DOMAIN results = DOMAIN plant /\ \A i \in DOMAIN plant : Gated(results[i], may)

LEMMA CompletedGated ==
  ASSUME plant \in Plants, NEW zones, NEW w, NEW s, NEW fb, NEW may, AllGated(zones, may)
  PROVE  AllGated(CompletedZones(zones, w, s, fb).targets, may)
<1> DEFINE fromCache == FromCache(Rootless(zones, w), s, fb)
           f == [i \in DOMAIN plant |->
                   Replacement(zones[i], ManualTarget(i, w, s, fb), i, fromCache)]
           results == SubSeq(f, 1, Len(plant))
<1>1. CompletedZones(zones, w, s, fb).targets = Coordinate(results, DOMAIN plant, s)
  BY DEF CompletedZones, Completed, Combined, Each
<1>2. \A i \in DOMAIN plant : Gated(f[i], may)
  <2>1. ASSUME NEW i \in DOMAIN plant PROVE Gated(f[i], may)
    <3>1. Gated(zones[i], may) /\ Gated(ManualTarget(i, w, s, fb), may)
      BY ManualSays, Zenon DEF AllGated, Gated
    <3>2. f[i] = Replacement(zones[i], ManualTarget(i, w, s, fb), i, fromCache)
      OBVIOUS
    <3> QED BY <3>1, <3>2, ReplacementGated, Zenon
  <2> QED BY <2>1
<1>3. DOMAIN f = DOMAIN plant
  OBVIOUS
<1> HIDE DEF f
<1>4. \A i \in DOMAIN plant : Gated(results[i], may)
  BY <1>2, <1>3, EachIs
<1> HIDE DEF results
<1>5. ASSUME NEW i \in DOMAIN plant
      PROVE  Gated(Coordinate(results, DOMAIN plant, s)[i], may)
  <2>1. Gated(results[i], may) /\ Gated([results[i] EXCEPT !.reason = "uncoordinated"], may)
    BY <1>4, GatedKept
  <2>2. \/ Coordinate(results, DOMAIN plant, s)[i] = results[i]
        \/ Coordinate(results, DOMAIN plant, s)[i] = [results[i] EXCEPT !.reason = "uncoordinated"]
    BY CoordinateIs
  <2> QED BY <2>1, <2>2, Zenon
<1>6. DOMAIN Coordinate(results, DOMAIN plant, s) = DOMAIN plant
  BY CoordinateIs
<1> QED BY <1>1, <1>5, <1>6, Zenon DEF AllGated

LEMMA CalculationGated ==
  ASSUME plant \in Plants, NEW w, NEW s, NEW fb, NEW may, fb.elapsed => may
  PROVE  AllGated(Calculation(w, s, fb).targets, may)
<1>1. \A r : Says(r, FALSE) => Gated(r, may)
  BY DEF Gated
<1>2. CASE Mandatory(w, fb) = Fine
  <2>1. "speed" \in w.faults => may
    BY <1>2, ZoneConstants DEF Mandatory
  <2> DEFINE f == [i \in DOMAIN plant |-> Zone(plant[i], w, EffectiveBoost(s), fb)]
  <2>2. \A i \in DOMAIN plant : Gated(f[i], may)
    BY <2>1, ZoneGated
  <2>3. Calculation(w, s, fb) = CompletedZones(SubSeq(f, 1, Len(plant)), w, s, fb)
    BY <1>2, Zenon DEF Calculation, Calculated, Each
  <2>4. DOMAIN f = DOMAIN plant
    OBVIOUS
  <2> HIDE DEF f
  <2>5. AllGated(SubSeq(f, 1, Len(plant)), may)
    BY <2>2, <2>4, EachIs DEF AllGated
  <2> QED BY <2>3, <2>5, CompletedGated
<1>3. CASE Mandatory(w, fb) # Fine
  <2> DEFINE manual == [i \in DOMAIN plant |-> ManualTarget(i, w, s, fb)]
             none == [i \in DOMAIN plant |-> Failed(Mandatory(w, fb), Fine, FALSE)]
  <2>1. \/ Calculation(w, s, fb).targets = SubSeq(manual, 1, Len(plant))
        \/ Calculation(w, s, fb).targets = SubSeq(none, 1, Len(plant))
    BY <1>3 DEF Calculation, ManualZone, Each
  <2>2. \A i \in DOMAIN plant : Gated(manual[i], may) /\ Gated(none[i], may)
    BY <1>1, ManualSays, FailedSays
  <2>3. DOMAIN manual = DOMAIN plant /\ DOMAIN none = DOMAIN plant
    OBVIOUS
  <2> HIDE DEF manual, none
  <2>4. /\ AllGated(SubSeq(manual, 1, Len(plant)), may)
        /\ AllGated(SubSeq(none, 1, Len(plant)), may)
    BY <2>2, <2>3, EachIs DEF AllGated
  <2> QED BY <2>1, <2>4, Zenon
<1> QED BY <1>2, <1>3

LEMMA BufferGated ==
  ASSUME NEW i, NEW r, NEW c, NEW w, NEW s, NEW may, Gated(r, may)
  PROVE  Gated(Buffer(i, r, c, w, s).result, may)
<1> DEFINE idle == IdleTarget(i, r, w, s)
<1>1. \/ Buffer(i, r, c, w, s).result = r
      \/ Buffer(i, r, c, w, s).result = [r EXCEPT !.reason = "no_idle_target"]
      \/ Buffer(i, r, c, w, s).result = [r EXCEPT !.target = idle]
  <2> HIDE DEF idle
  <2>1. Idle(i, r, idle).result = [r EXCEPT !.reason = "no_idle_target"]
          \/ Idle(i, r, idle).result = [r EXCEPT !.target = idle]
    BY DEF Idle
  <2> USE DEF idle
  <2> QED BY <2>1, Zenon DEF Buffer
<1>2. Gated([r EXCEPT !.reason = "no_idle_target"], may)
  BY GatedKept
<1>3. Gated([r EXCEPT !.target = idle], may)
  BY GatedKept
<1> QED BY <1>1, <1>2, <1>3, Zenon

\* The calculation of the present inputs, and what the latches make of it.
Current == Calculation(world, set, Feedback)
Decisions == SubSeq([i \in DOMAIN plant |-> Buffer(i, Current.targets[i], Current, world, set)],
                    1, Len(plant))

LEMMA DecisionsAre ==
  ASSUME plant \in Plants
  PROVE  /\ DOMAIN Decisions = DOMAIN plant
         /\ \A i \in DOMAIN plant :
              Decisions[i] = Buffer(i, Current.targets[i], Current, world, set)
<1> DEFINE f == [i \in DOMAIN plant |-> Buffer(i, Current.targets[i], Current, world, set)]
<1>1. DOMAIN f = DOMAIN plant /\ Decisions = SubSeq(f, 1, Len(plant))
  BY DEF Decisions
<1>2. \A i \in DOMAIN plant : f[i] = Buffer(i, Current.targets[i], Current, world, set)
  OBVIOUS
<1> HIDE DEF f
<1> QED BY <1>1, <1>2, EachIs

LEMMA CalculateIs ==
  ASSUME Calculate
  PROVE  /\ Publish(Current, Decisions)
         /\ \E owned \in SUBSET DOMAIN plant : Apply(Current, Decisions, owned)
         /\ calm' = (saveErrors' = saveErrors /\ Inputs' = Inputs)
         /\ UNCHANGED <<plant, world, set, quarter, inputs>>
BY Zenon DEF Calculate, Decide, Conclude, Each, Current, Decisions

LEMMA DecisionsGated ==
  ASSUME plant \in Plants, NEW may, hold.elapsed => may
  PROVE  \A i \in DOMAIN plant : Gated(Decisions[i].result, may)
<1>1. Feedback.elapsed => may
  BY DEF Feedback
<1>2. AllGated(Current.targets, may)
  BY <1>1, CalculationGated DEF Current
<1> QED BY <1>2, DecisionsAre, BufferGated DEF AllGated

\* The hold knows how long its condition has been published.
HoldInv ==
  /\ plant \in Plants
  /\ DOMAIN hold = {"reason", "age", "elapsed"} /\ DOMAIN streak = {"condition", "age", "before"}
  /\ hold.reason = streak.condition /\ hold.age = streak.age
  /\ hold.age \in 0 .. HoldSpan /\ hold.elapsed \in BOOLEAN
  /\ hold.elapsed => hold.reason # Fine /\ hold.age = HoldSpan
  /\ hold.reason = Fine => hold.age = 0
  /\ \A i \in DOMAIN out : Gated(out[i], streak.before >= HoldSpan)

LEMMA HoldInitially == ZoneInit => HoldInv
<1> SUFFICES ASSUME ZoneInit PROVE HoldInv
  OBVIOUS
<1>1. /\ plant \in Plants /\ hold = [reason |-> Fine, age |-> 0, elapsed |-> FALSE]
      /\ streak = [condition |-> Fine, age |-> 0, before |-> 0] /\ out = << >>
  BY Zenon DEF ZoneInit
<1>2. 0 \in 0 .. HoldSpan
  BY ZoneConstants
<1> QED BY <1>1, <1>2 DEF HoldInv

LEMMA HoldCalculates == HoldInv /\ Calculate => HoldInv'
<1> SUFFICES ASSUME HoldInv, Calculate PROVE HoldInv'
  OBVIOUS
<1>1. /\ plant' = plant /\ hold' = HoldAfter(Current.hold)
      /\ streak' = [condition |-> Current.hold,
                    age |-> IF Current.hold = streak.condition THEN streak.age ELSE 0,
                    before |-> streak.age]
      /\ out' = [i \in DOMAIN plant |-> Decisions[i].result]
  BY CalculateIs, Zenon DEF Publish
<1>2. \A i \in DOMAIN plant : Gated(Decisions[i].result, streak.age >= HoldSpan)
  <2>1. hold.elapsed => streak.age >= HoldSpan
    BY ZoneConstants DEF HoldInv
  <2> QED BY <2>1, DecisionsGated DEF HoldInv
<1>3. streak'.before = streak.age /\ streak'.condition = Current.hold
      /\ DOMAIN streak' = {"condition", "age", "before"}
      /\ streak'.age = IF Current.hold = streak.condition THEN streak.age ELSE 0
  BY <1>1
<1>4. \A i \in DOMAIN out' : Gated(out'[i], streak'.before >= HoldSpan)
  BY <1>1, <1>2, <1>3, Zenon
<1>5. 0 \in 0 .. HoldSpan
  BY ZoneConstants
<1>6. /\ DOMAIN hold' = {"reason", "age", "elapsed"} /\ hold'.reason = streak'.condition
      /\ hold'.age = streak'.age /\ hold'.age \in 0 .. HoldSpan /\ hold'.elapsed \in BOOLEAN
      /\ hold'.elapsed => hold'.reason # Fine /\ hold'.age = HoldSpan
      /\ hold'.reason = Fine => hold'.age = 0
  <2>1. CASE Current.hold = Fine
    <3>1. hold' = [reason |-> Fine, age |-> 0, elapsed |-> FALSE]
      BY <1>1, <2>1 DEF HoldAfter
    <3>2. streak'.age = 0
      BY <1>3, <2>1 DEF HoldInv
    <3> QED BY <1>3, <1>5, <2>1, <3>1, <3>2
  <2>2. CASE Current.hold # Fine /\ Current.hold = hold.reason
    <3>1. hold' = hold
      BY <1>1, <2>2 DEF HoldAfter
    <3> QED BY <1>3, <2>2, <3>1 DEF HoldInv
  <2>3. CASE Current.hold # Fine /\ Current.hold # hold.reason
    <3>1. hold' = [reason |-> Current.hold, age |-> 0, elapsed |-> FALSE]
      BY <1>1, <2>3 DEF HoldAfter
    <3>2. streak'.age = 0
      BY <1>3, <2>3 DEF HoldInv
    <3> QED BY <1>3, <1>5, <2>3, <3>1, <3>2
  <2> QED BY <2>1, <2>2, <2>3
<1> QED BY <1>1, <1>3, <1>4, <1>6, Zenon DEF HoldInv

LEMMA HoldSteps == HoldInv /\ [ZoneNext]_zoneVars => HoldInv'
<1> SUFFICES ASSUME HoldInv, [ZoneNext]_zoneVars PROVE HoldInv'
  OBVIOUS
<1>1. CASE Calculate
  BY <1>1, HoldCalculates
<1>2. CASE HoldElapses
  <2>1. /\ UNCHANGED <<plant, streak, out>> /\ hold.reason # Fine /\ hold.age = HoldSpan
        /\ hold' = [hold EXCEPT !.elapsed = TRUE]
    BY <1>2 DEF HoldElapses
  <2>2. /\ DOMAIN hold' = DOMAIN hold /\ hold'.reason = hold.reason /\ hold'.age = hold.age
        /\ hold'.elapsed = TRUE
    BY <2>1 DEF HoldInv
  <2> QED BY <2>1, <2>2 DEF HoldInv, Gated
<1>3. CASE Tick
  <2> DEFINE a == IF hold.reason = Fine THEN 0 ELSE Lesser(hold.age + 1, HoldSpan)
             b == IF streak.condition = Fine THEN 0 ELSE Lesser(streak.age + 1, HoldSpan)
  <2>1. /\ UNCHANGED <<plant, out>>
        /\ hold' = [hold EXCEPT !.age = a] /\ streak' = [streak EXCEPT !.age = b]
    BY <1>3 DEF Tick
  <2>2. a = b /\ a \in 0 .. HoldSpan /\ (hold.reason # Fine /\ hold.age = HoldSpan => a = HoldSpan)
       /\ (hold.reason = Fine => a = 0)
    BY ZoneConstants DEF HoldInv, Lesser
  <2> HIDE DEF a, b
  <2>3. /\ DOMAIN hold' = DOMAIN hold /\ hold'.reason = hold.reason /\ hold'.age = a
        /\ hold'.elapsed = hold.elapsed
        /\ DOMAIN streak' = DOMAIN streak /\ streak'.condition = streak.condition
        /\ streak'.age = b /\ streak'.before = streak.before
    BY <2>1, Zenon DEF HoldInv
  <2> QED BY <2>1, <2>2, <2>3, Zenon DEF HoldInv, Gated
<1>4. CASE WorldChanges \/ ChoiceChanges \/ DeviceChanges
  <2>1. UNCHANGED <<hold, streak, out>> /\ (plant' = plant \/ plant' \in Plants)
    BY <1>4 DEF WorldChanges, ChoiceChanges, DeviceChanges, Disturb
  <2> QED BY <2>1 DEF HoldInv, Gated
<1>5. CASE UNCHANGED zoneVars
  BY <1>5 DEF zoneVars, HoldInv, Gated
<1> QED BY <1>1, <1>2, <1>3, <1>4, <1>5 DEF ZoneNext

\* A zone falls back to the fixed temperatures for want of a root, of an air speed or of
\* applicability only after one condition was published for 15 minutes without a break.
THEOREM FallbackIsEarned == ZoneSpec => []FallbackEarned
<1>1. HoldInv => FallbackEarned
  BY DEF HoldInv, FallbackEarned, Gated, Says
<1> QED BY <1>1, HoldInitially, HoldSteps, PTL DEF ZoneSpec

-----------------------------------------------------------------------------
(* The heating demand.                                                       *)

\* What a latch that is l becomes.
LatchOf(i, r, c, w, s, l) ==
  LET heating == HeatingPart(r)
      comfort == s.occupied /\ r.kind = "adaptive"
  IN IF ~Buffered(i, r, c, w, s) THEN l
     ELSE IF HeatingDemand(l, heating.room, w.room, heating.bounded, s.start, s.stop,
                           r.boost # "off", IF comfort /\ r.solved THEN w.roots.lower ELSE NoRoot,
                           s.assist /\ comfort)
     THEN TRUE
     ELSE IF IdleTarget(i, r, w, s) = NoTarget THEN l ELSE FALSE

LEMMA BufferLatch ==
  \A i, r, c, w, s : Buffer(i, r, c, w, s).latch = LatchOf(i, r, c, w, s, latch[i])
<1> SUFFICES ASSUME NEW i, NEW r, NEW c, NEW w, NEW s
             PROVE  Buffer(i, r, c, w, s).latch = LatchOf(i, r, c, w, s, latch[i])
  OBVIOUS
<1> DEFINE idle == IdleTarget(i, r, w, s)
<1>1. Idle(i, r, idle).latch = IF idle = NoTarget THEN latch[i] ELSE FALSE
  <2> HIDE DEF idle
  <2> QED BY DEF Idle
<1>2. Buffer(i, r, c, w, s).latch =
        IF ~Buffered(i, r, c, w, s) THEN latch[i]
        ELSE IF Demands(i, r, w, s) THEN TRUE ELSE Idle(i, r, idle).latch
  BY DEF Buffer
<1> QED BY <1>1, <1>2, Zenon DEF LatchOf, Demands

\* Deciding once more changes nothing: a demand that has started is not stopped by the
\* comparison that started it, one that has stopped is not started by the other.
LEMMA DemandsSettle ==
  ASSUME NEW l \in BOOLEAN, NEW i, NEW r, NEW c, NEW w, NEW s
  PROVE  /\ LatchOf(i, r, c, w, s, l) \in BOOLEAN
         /\ LatchOf(i, r, c, w, s, LatchOf(i, r, c, w, s, l)) = LatchOf(i, r, c, w, s, l)
<1>1. ASSUME NEW desired, NEW room, NEW request, NEW start, NEW stop, NEW forced, NEW lower, NEW assist
      PROVE  /\ HeatingDemand(l, desired, room, request, start, stop, forced, lower, assist)
                  => HeatingDemand(TRUE, desired, room, request, start, stop, forced, lower, assist)
             /\ ~HeatingDemand(l, desired, room, request, start, stop, forced, lower, assist)
                  => ~HeatingDemand(FALSE, desired, room, request, start, stop, forced, lower, assist)
  BY Zenon DEF HeatingDemand
<1> QED BY <1>1, Zenon DEF LatchOf

\* A calculation reads the devices, their setpoints and the cached references.
LEMMA ManualUnchanged ==
  ASSUME UNCHANGED <<plant, known, setpoint>>
  PROVE  \A i, w, s, fb : ManualTarget(i, w, s, fb)' = ManualTarget(i, w, s, fb)
<1>1. \A i, w, s, fb : ManualPolicy(i, w, s, fb)' = ManualPolicy(i, w, s, fb)
  BY DEF ManualPolicy
<1>2. \A policy, target, i, s, fb :
        ManualOutcome(policy, target, i, s, fb)' = ManualOutcome(policy, target, i, s, fb)
  BY DEF ManualOutcome
<1>3. \A policy, i, s, fb : ManualOf(policy, i, s, fb)' = ManualOf(policy, i, s, fb)
  BY <1>2, Zenon DEF ManualOf
<1> SUFFICES ASSUME NEW i, NEW w, NEW s, NEW fb
             PROVE  ManualTarget(i, w, s, fb)' = ManualTarget(i, w, s, fb)
  OBVIOUS
<1> QED BY <1>1, <1>3, Zenon DEF ManualTarget

LEMMA CompletedUnchanged ==
  ASSUME UNCHANGED <<plant, known, setpoint>>
  PROVE  \A zones, w, s, fb : CompletedZones(zones, w, s, fb)' = CompletedZones(zones, w, s, fb)
<1>1. \A results, owned, s : Coordinate(results, owned, s)' = Coordinate(results, owned, s)
  BY DEF Coordinate, Each
<1>2. \A results, manual, w, s : Combined(results, manual, w, s)' = Combined(results, manual, w, s)
  BY <1>1 DEF Combined
<1>3. \A zones, w : Rootless(zones, w)' = Rootless(zones, w)
  BY DEF Rootless
<1>4. \A rootless, s, fb : FromCache(rootless, s, fb)' = FromCache(rootless, s, fb)
  BY DEF FromCache, ManualPossible
<1>5. \A zone, cached, i, fromCache :
        Replacement(zone, cached, i, fromCache)' = Replacement(zone, cached, i, fromCache)
  BY DEF Replacement
<1>6. \A zones, rootless, w, s, fb :
        Completed(zones, rootless, w, s, fb)' = Completed(zones, rootless, w, s, fb)
  BY <1>2, <1>4, <1>5, ManualUnchanged DEF Completed, Each
<1> QED BY <1>3, <1>6 DEF CompletedZones

LEMMA CalculationUnchanged ==
  ASSUME UNCHANGED <<plant, known, setpoint>>
  PROVE  \A w, s, fb : Calculation(w, s, fb)' = Calculation(w, s, fb)
<1>1. \A s : EffectiveBoost(s)' = EffectiveBoost(s)
  BY DEF EffectiveBoost
<1>2. \A w, s, fb : Calculated(w, s, fb)' = Calculated(w, s, fb)
  BY <1>1, CompletedUnchanged DEF Calculated, Each
<1>3. \A targets : ManualZone(targets)' = ManualZone(targets)
  BY DEF ManualZone
<1>4. \A s, fb : ManualPossible(s, fb)' = ManualPossible(s, fb)
  BY DEF ManualPossible
<1> QED BY <1>2, <1>3, <1>4, ManualUnchanged DEF Calculation, Each

LEMMA LatchOfUnchanged ==
  ASSUME plant' = plant
  PROVE  \A i, r, c, w, s, l : LatchOf(i, r, c, w, s, l)' = LatchOf(i, r, c, w, s, l)
<1>1. \A i, r, c, w, s : Buffered(i, r, c, w, s)' <=> Buffered(i, r, c, w, s)
  BY DEF Buffered
<1>2. \A i, r, w, s : IdleTarget(i, r, w, s)' = IdleTarget(i, r, w, s)
  BY DEF IdleTarget
<1> SUFFICES ASSUME NEW i, NEW r, NEW c, NEW w, NEW s, NEW l
             PROVE  LatchOf(i, r, c, w, s, l)' = LatchOf(i, r, c, w, s, l)
  OBVIOUS
<1>3. (Buffered(i, r, c, w, s)' <=> Buffered(i, r, c, w, s)) /\ IdleTarget(i, r, w, s)' = IdleTarget(i, r, w, s)
  BY <1>1, <1>2
<1> QED BY <1>3, Zenon DEF LatchOf

\* Calculating from w, s and fb would leave the latches as they are.
Steady(w, s, fb) ==
  \A i \in DOMAIN plant :
    LatchOf(i, Calculation(w, s, fb).targets[i], Calculation(w, s, fb), w, s, latch[i]) = latch[i]
SettledInv ==
  /\ plant \in Plants /\ latch \in [DOMAIN plant -> BOOLEAN] /\ saveErrors \in Nat
  /\ calm => \A w, s, fb : w = world /\ s = set /\ fb = Feedback => Steady(w, s, fb)

LEMMA SettledInitially == ZoneInit => SettledInv
<1> SUFFICES ASSUME ZoneInit PROVE SettledInv
  OBVIOUS
<1>1. plant \in Plants /\ latch = [i \in DOMAIN plant |-> FALSE] /\ saveErrors = 0 /\ calm = FALSE
  BY Zenon DEF ZoneInit
<1> QED BY <1>1 DEF SettledInv

LEMMA DecidedLatch ==
  ASSUME SettledInv, NEW i \in DOMAIN plant
  PROVE  /\ Decisions[i].latch = LatchOf(i, Current.targets[i], Current, world, set, latch[i])
         /\ Decisions[i].latch \in BOOLEAN
<1>1. plant \in Plants /\ latch[i] \in BOOLEAN
  BY DEF SettledInv
<1>2. Decisions[i].latch = LatchOf(i, Current.targets[i], Current, world, set, latch[i])
  BY <1>1, DecisionsAre, BufferLatch, Zenon
<1> QED BY <1>1, <1>2, DemandsSettle

LEMMA AppliedLatch ==
  ASSUME Calculate
  PROVE  /\ \/ latch' = [i \in DOMAIN plant |-> Decisions[i].latch]
            \/ latch' = latch /\ saveErrors' = saveErrors + 1
         /\ saveErrors' = saveErrors \/ saveErrors' = saveErrors + 1
<1>1. PICK owned \in SUBSET DOMAIN plant : Apply(Current, Decisions, owned)
  BY CalculateIs
<1>2. PICK results : ApplyResults(Current, Decisions, results, owned)
  BY <1>1, Zenon DEF Apply
<1> QED BY <1>2, Zenon DEF ApplyResults

LEMMA SettledSteps == SettledInv /\ [ZoneNext]_zoneVars => SettledInv'
<1> SUFFICES ASSUME SettledInv, [ZoneNext]_zoneVars PROVE SettledInv'
  OBVIOUS
<1>1. CASE Calculate
  <2>1. /\ UNCHANGED <<plant, world, set>>
        /\ calm' = (saveErrors' = saveErrors /\ Inputs' = Inputs)
    BY <1>1, CalculateIs
  <2>2. latch' \in [DOMAIN plant -> BOOLEAN] /\ saveErrors' \in Nat
    BY <1>1, AppliedLatch, DecidedLatch DEF SettledInv
  <2>3. ASSUME calm'
        PROVE  \A w, s, fb : w = world' /\ s = set' /\ fb = Feedback' => Steady(w, s, fb)'
    <3>1. saveErrors' = saveErrors /\ Inputs' = Inputs
      BY <2>1, <2>3
    <3>2. UNCHANGED <<plant, known, setpoint>> /\ Feedback' = Feedback
      BY <2>1, <3>1 DEF Inputs, Feedback, Allowance
    <3>3. latch' = [i \in DOMAIN plant |-> Decisions[i].latch]
      BY <1>1, <3>1, AppliedLatch DEF SettledInv
    <3> SUFFICES ASSUME NEW w, NEW s, NEW fb, w = world, s = set, fb = Feedback,
                        NEW i \in DOMAIN plant
                 PROVE  LatchOf(i, Calculation(w, s, fb).targets[i], Calculation(w, s, fb), w, s, latch'[i])
                          = latch'[i]
      <4>1. \A w, s, fb : Calculation(w, s, fb)' = Calculation(w, s, fb)
        BY <3>2, CalculationUnchanged
      <4>2. \A i, r, c, w, s, l : LatchOf(i, r, c, w, s, l)' = LatchOf(i, r, c, w, s, l)
        BY <3>2, LatchOfUnchanged
      <4> QED BY <2>1, <3>2, <4>1, <4>2 DEF Steady
    <3>4. Calculation(w, s, fb) = Current
      BY Zenon DEF Current
    <3>5. /\ latch'[i] = LatchOf(i, Current.targets[i], Current, w, s, latch[i])
          /\ latch[i] \in BOOLEAN
      BY <3>3, DecidedLatch DEF SettledInv
    <3> QED BY <3>4, <3>5, DemandsSettle
  <2> QED BY <2>1, <2>2, <2>3 DEF SettledInv
<1>2. CASE HoldElapses \/ Tick \/ WorldChanges \/ ChoiceChanges
  <2>1. UNCHANGED <<plant, latch, saveErrors>> /\ calm' = FALSE
    BY <1>2 DEF HoldElapses, Tick, WorldChanges, ChoiceChanges, Disturb
  <2> QED BY <2>1 DEF SettledInv
<1>3. CASE DeviceChanges
  <2>1. PICK p \in Plants : Len(p) = Len(plant) /\ plant' = p
    BY <1>3 DEF DeviceChanges
  <2>2. DOMAIN p = DOMAIN plant
    BY <2>1, ZoneAssumption DEF SettledInv
  <2>3. UNCHANGED <<latch, saveErrors>> /\ calm' = FALSE
    BY <1>3 DEF DeviceChanges, Disturb
  <2> QED BY <2>1, <2>2, <2>3 DEF SettledInv
<1>4. CASE UNCHANGED zoneVars
  <2>1. UNCHANGED <<plant, latch, saveErrors, calm, world, set>> /\ Feedback' = Feedback
    BY <1>4 DEF zoneVars, Feedback, Allowance
  <2>2. \A w, s, fb : Steady(w, s, fb)' <=> Steady(w, s, fb)
    <3>1. \A w, s, fb : Calculation(w, s, fb)' = Calculation(w, s, fb)
      BY <1>4, CalculationUnchanged DEF zoneVars
    <3>2. \A i, r, c, w, s, l : LatchOf(i, r, c, w, s, l)' = LatchOf(i, r, c, w, s, l)
      BY <2>1, LatchOfUnchanged
    <3> QED BY <2>1, <3>1, <3>2 DEF Steady
  <2> QED BY <2>1, <2>2 DEF SettledInv
<1> QED BY <1>1, <1>2, <1>3, <1>4 DEF ZoneNext

\* Calculating once more without a new input never turns a heating-demand latch over:
\* the start and the stop of the demand leave no room between them in which a rounded
\* target makes heating start and stop at every calculation.
THEOREM DemandSettles == ZoneSpec => NoChatter
<1> DEFINE Quiet == calm /\ UNCHANGED <<plant, world, set, quarter, hold>> => UNCHANGED latch
<1>1. SettledInv /\ [ZoneNext]_zoneVars => [Quiet]_zoneVars
  <2> SUFFICES ASSUME SettledInv, [ZoneNext]_zoneVars, calm,
                      UNCHANGED <<plant, world, set, quarter, hold>>
               PROVE  latch' = latch
    BY Zenon
  <2>1. CASE Calculate
    <3>1. \A i \in DOMAIN plant : Decisions[i].latch = latch[i]
      <4>1. Steady(world, set, Feedback)
        BY DEF SettledInv
      <4> QED BY <4>1, DecidedLatch DEF Steady, Current
    <3>2. latch = [i \in DOMAIN plant |-> latch[i]]
      BY DEF SettledInv
    <3> QED BY <2>1, <3>1, <3>2, AppliedLatch
  <2>2. CASE ~Calculate
    BY <2>2 DEF ZoneNext, HoldElapses, Tick, WorldChanges, ChoiceChanges, DeviceChanges, Disturb,
                zoneVars
  <2> QED BY <2>1, <2>2
<1> HIDE DEF Quiet
<1>2. ZoneSpec => [][Quiet]_zoneVars
  BY <1>1, SettledInitially, SettledSteps, PTL DEF ZoneSpec
<1> QED BY <1>2 DEF Quiet, NoChatter

-----------------------------------------------------------------------------
(* Types.                                                                    *)

PreviousInv ==
  /\ DOMAIN previous = {"heating", "cooling", "age"} /\ previous.age \in Nat
  /\ previous.age <= quarter
ZoneTypesInv == HoldInv /\ PreviousInv /\ ZoneTypeOK

LEMMA ZoneTypesInitially == ZoneInit => ZoneTypesInv
<1> SUFFICES ASSUME ZoneInit PROVE ZoneTypesInv
  OBVIOUS
<1>1. HoldInv
  BY HoldInitially
<1>2. /\ plant \in Plants /\ world \in Worlds /\ quarter = 0
      /\ previous = [heating |-> NoRoot, cooling |-> NoRoot, age |-> 0]
      /\ explicit = TRUE /\ reached = FALSE /\ marker = FALSE /\ calm = FALSE
      /\ hold = [reason |-> Fine, age |-> 0, elapsed |-> FALSE]
      /\ streak = [condition |-> Fine, age |-> 0, before |-> 0]
      /\ latch = [i \in DOMAIN plant |-> FALSE] /\ known = [i \in DOMAIN plant |-> NoReference]
      /\ setpoint = [i \in DOMAIN plant |-> set.min] /\ inputs = 0 /\ saveErrors = 0
  BY Zenon DEF ZoneInit
<1>3. PreviousInv
  BY <1>2 DEF PreviousInv
<1>4. /\ hold.age = 0 /\ hold.elapsed = FALSE /\ hold.reason = streak.condition /\ previous.age = 0
      /\ DOMAIN setpoint = DOMAIN plant /\ DOMAIN known = DOMAIN plant
      /\ latch \in [DOMAIN plant -> BOOLEAN]
  BY <1>2
<1>5. 0 \in 0 .. HoldSpan /\ 0 \in 0 .. MaxQuarters /\ 0 \in 0 .. MaxInputs /\ 0 \in 0 .. MaxSaveErrors
  BY ZoneConstants
<1>6. ZoneTypeOK
  BY <1>2, <1>4, <1>5 DEF ZoneTypeOK
<1> QED BY <1>1, <1>3, <1>6 DEF ZoneTypesInv

\* What applying a calculation leaves.
LEMMA AppliedTypes ==
  ASSUME ZoneTypesInv, SettledInv, Calculate
  PROVE  /\ marker' \in BOOLEAN /\ latch' \in [DOMAIN plant -> BOOLEAN]
         /\ DOMAIN setpoint' = DOMAIN plant /\ saveErrors' \in 0 .. MaxSaveErrors
<1>1. PICK owned \in SUBSET DOMAIN plant : Apply(Current, Decisions, owned)
  BY CalculateIs
<1>2. PICK results : ApplyResults(Current, Decisions, results, owned)
  BY <1>1, Zenon DEF Apply
<1>3. latch' \in [DOMAIN plant -> BOOLEAN]
  BY AppliedLatch, DecidedLatch DEF SettledInv
<1>4. marker' \in BOOLEAN
  <2>1. marker \in BOOLEAN
    BY DEF ZoneTypesInv, ZoneTypeOK
  <2>2. marker' = marker \/ marker' = TRUE \/ marker' = FALSE
    BY <1>2 DEF ApplyResults
  <2> QED BY <2>1, <2>2
<1>5. DOMAIN setpoint' = DOMAIN plant
  <2>1. DOMAIN setpoint = DOMAIN plant
    BY DEF ZoneTypesInv, ZoneTypeOK
  <2>2. setpoint' = setpoint \/ \E written : setpoint' =
          [i \in DOMAIN plant |-> IF i \in written THEN results[i].target.actuator ELSE setpoint[i]]
    BY <1>2, Zenon DEF ApplyResults
  <2> QED BY <2>1, <2>2
<1>6. saveErrors' \in 0 .. MaxSaveErrors
  <2>1. saveErrors \in 0 .. MaxSaveErrors
    BY DEF ZoneTypesInv, ZoneTypeOK
  <2>2. saveErrors' = saveErrors \/ (saveErrors < MaxSaveErrors /\ saveErrors' = saveErrors + 1)
    BY <1>2, Zenon DEF ApplyResults
  <2> QED BY <2>1, <2>2, ZoneConstants
<1> QED BY <1>3, <1>4, <1>5, <1>6

LEMMA ZoneTypesCalculate ==
  ASSUME ZoneTypesInv, SettledInv, Calculate, HoldInv'
  PROVE  PreviousInv' /\ ZoneTypeOK'
<1>1. /\ UNCHANGED <<plant, world, set, quarter, inputs>>
      /\ calm' = (saveErrors' = saveErrors /\ Inputs' = Inputs)
      /\ Publish(Current, Decisions)
  BY CalculateIs
<1>2. calm' \in BOOLEAN
  BY <1>1, Zenon
<1>3. /\ explicit' = (explicit /\ Current.hold # Fine) \/ explicit' = (explicit \/ Current.hold # Fine)
      /\ reached' = (reached \/ (set.boost = "rapid" /\ Current.first.reached)) \/ reached' = reached
      /\ \/ previous' = previous
         \/ previous' = [heating |-> Current.first.heating, cooling |-> Current.first.cooling, age |-> 0]
      /\ \/ known' = known
         \/ known' = [i \in DOMAIN plant |-> Current.targets[i].reference]
  BY <1>1 DEF Publish
<1>4. explicit' \in BOOLEAN /\ reached' \in BOOLEAN
  BY <1>3 DEF ZoneTypesInv, ZoneTypeOK
<1>5. DOMAIN known' = DOMAIN plant
  BY <1>3 DEF ZoneTypesInv, ZoneTypeOK
<1>6. PreviousInv' /\ previous'.age \in 0 .. MaxQuarters
  <2>1. quarter \in Nat /\ 0 \in 0 .. MaxQuarters
    BY ZoneConstants DEF ZoneTypesInv, ZoneTypeOK
  <2>2. CASE previous' = previous
    BY <1>1, <2>2 DEF ZoneTypesInv, PreviousInv, ZoneTypeOK
  <2>3. CASE previous' = [heating |-> Current.first.heating, cooling |-> Current.first.cooling, age |-> 0]
    BY <1>1, <2>1, <2>3 DEF PreviousInv
  <2> QED BY <1>3, <2>2, <2>3
<1>7. /\ hold'.age \in 0 .. HoldSpan /\ hold'.elapsed \in BOOLEAN /\ hold'.reason = streak'.condition
  BY DEF HoldInv
<1> QED BY <1>1, <1>2, <1>4, <1>5, <1>6, <1>7, AppliedTypes DEF ZoneTypesInv, ZoneTypeOK

LEMMA ZoneTypesSteps == ZoneTypesInv /\ SettledInv /\ [ZoneNext]_zoneVars => ZoneTypesInv'
<1> SUFFICES ASSUME ZoneTypesInv, SettledInv, [ZoneNext]_zoneVars PROVE ZoneTypesInv'
  OBVIOUS
<1>1. HoldInv'
  BY HoldSteps DEF ZoneTypesInv
<1>0. hold'.age \in 0 .. HoldSpan /\ hold'.elapsed \in BOOLEAN /\ hold'.reason = streak'.condition
  BY <1>1 DEF HoldInv
<1>2. CASE Calculate
  BY <1>1, <1>2, ZoneTypesCalculate DEF ZoneTypesInv
<1>3. CASE HoldElapses
  <2>1. calm' = FALSE /\ UNCHANGED <<plant, world, quarter, previous, explicit, reached, latch, known,
                                     marker, setpoint, inputs, saveErrors>>
    BY <1>3 DEF HoldElapses
  <2> QED BY <1>0, <1>1, <2>1 DEF ZoneTypesInv, PreviousInv, ZoneTypeOK
<1>4. CASE Tick
  <2>1. /\ quarter < MaxQuarters /\ quarter' = quarter + 1 /\ calm' = FALSE
        /\ previous' = [previous EXCEPT !.age = @ + 1]
        /\ UNCHANGED <<plant, world, explicit, reached, latch, known, marker, setpoint, inputs, saveErrors>>
    BY <1>4 DEF Tick
  <2>2. quarter \in 0 .. MaxQuarters /\ PreviousInv
    BY DEF ZoneTypesInv, ZoneTypeOK
  <2>3. DOMAIN previous' = DOMAIN previous /\ previous'.age = previous.age + 1
    BY <2>1, <2>2 DEF PreviousInv
  <2>4. quarter' \in 0 .. MaxQuarters /\ PreviousInv' /\ previous'.age \in 0 .. MaxQuarters
    BY <2>1, <2>2, <2>3, ZoneConstants DEF PreviousInv
  <2> QED BY <1>0, <1>1, <2>1, <2>4 DEF ZoneTypesInv, ZoneTypeOK
<1>5. CASE WorldChanges \/ ChoiceChanges \/ DeviceChanges
  <2>1. /\ inputs < MaxInputs /\ inputs' = inputs + 1 /\ calm' = FALSE
        /\ UNCHANGED <<quarter, previous, latch, known, marker, setpoint, saveErrors>>
        /\ world' = world \/ world' \in Worlds
        /\ explicit' = explicit \/ explicit' = TRUE
    BY <1>5 DEF WorldChanges, ChoiceChanges, DeviceChanges, Disturb
  <2>2. reached' \in BOOLEAN
    <3>1. reached' = reached \/ \E c \in UserChoices : reached' = (reached /\ c.boost = set.boost)
      BY <1>5 DEF WorldChanges, ChoiceChanges, DeviceChanges
    <3> QED BY <3>1 DEF ZoneTypesInv, ZoneTypeOK
  <2>3. plant' \in Plants /\ DOMAIN plant' = DOMAIN plant
    <3>1. plant' = plant \/ \E p \in Plants : Len(p) = Len(plant) /\ plant' = p
      BY <1>5 DEF WorldChanges, ChoiceChanges, DeviceChanges
    <3> QED BY <3>1, ZoneAssumption DEF ZoneTypesInv, ZoneTypeOK
  <2>4. inputs' \in 0 .. MaxInputs
    BY <2>1, ZoneConstants DEF ZoneTypesInv, ZoneTypeOK
  <2> QED BY <1>0, <1>1, <2>1, <2>2, <2>3, <2>4 DEF ZoneTypesInv, PreviousInv, ZoneTypeOK
<1>6. CASE UNCHANGED zoneVars
  BY <1>1, <1>6 DEF zoneVars, ZoneTypesInv, PreviousInv, ZoneTypeOK
<1> QED BY <1>2, <1>3, <1>4, <1>5, <1>6 DEF ZoneNext

LEMMA ZoneTypes == ZoneSpec => []ZoneTypeOK
<1>1. ZoneTypesInv /\ SettledInv => ZoneTypeOK
  BY DEF ZoneTypesInv
<1> QED BY <1>1, ZoneTypesInitially, ZoneTypesSteps, SettledInitially, SettledSteps, PTL DEF ZoneSpec

-----------------------------------------------------------------------------
(* Numbers.                                                                  *)

LEMMA LeastNumber ==
  ASSUME NEW S \in SUBSET Nat, S # {}
  PROVE  \E n \in S : \A m \in S : n <= m
<1> DEFINE R == OpToRel(<, Nat)
<1>1. IsWellFoundedOn(R, Nat)
  BY NatLessThanWellFounded
<1>2. \A a, b \in Nat : a < b => <<a, b>> \in R
  BY DEF OpToRel
<1> HIDE DEF R
<1>3. PICK n \in S : \A m \in S : ~ (<<m, n>> \in R)
  BY <1>1, WFMin
<1>4. \A m \in S : ~(m < n)
  BY <1>2, <1>3
<1> QED BY <1>4

\* A finite set of numbers has a largest one.
LEMMA LargestOf ==
  ASSUME NEW S \in SUBSET Int, IsFiniteSet(S), S # {}
  PROVE  \E x \in S : \A y \in S : y <= x
<1> DEFINE Lacking(T) == IsFiniteSet(T) /\ T # {} /\ \A x \in T : \E y \in T : ~(y <= x)
           Sizes == {n \in Nat : \E T \in SUBSET Int : Lacking(T) /\ Cardinality(T) = n}
<1>1. CASE Sizes = {}
  <2>1. Cardinality(S) \in Nat
    BY FS_CardinalityType
  <2>2. ~Lacking(S)
    BY <1>1, <2>1
  <2> QED BY <2>2
<1>2. CASE Sizes # {}
  <2>1. PICK n \in Sizes : \A m \in Sizes : n <= m
    BY <1>2, LeastNumber
  <2>2. PICK T \in SUBSET Int : Lacking(T) /\ Cardinality(T) = n
    BY <2>1
  <2>3. PICK x \in T : TRUE
    BY <2>2
  <2> DEFINE U == T \ {x}
  <2>4. IsFiniteSet(U) /\ Cardinality(U) = Cardinality(T) - 1 /\ Cardinality(U) \in Nat
    BY <2>2, <2>3, FS_RemoveElement, FS_CardinalityType
  <2>5. ~Lacking(U)
    <3>1. Cardinality(U) \notin Sizes
      <4>1. n \in Nat /\ Cardinality(U) < n
        BY <2>1, <2>2, <2>4
      <4> HIDE DEF Sizes, Lacking, U
      <4> QED BY <2>1, <2>4, <4>1
    <3>2. U \in SUBSET Int
      OBVIOUS
    <3> HIDE DEF Lacking, U
    <3> QED BY <2>4, <3>1, <3>2
  <2>6. CASE U = {}
    <3>1. T = {x} /\ x \in Int
      BY <2>3, <2>6
    <3> QED BY <2>2, <3>1
  <2>7. CASE U # {}
    <3>1. PICK u \in U : \A y \in U : y <= u
      BY <2>4, <2>5, <2>7
    <3>2. x \in Int /\ u \in Int /\ u \in T /\ \A y \in T : y \in Int
      BY <2>3
    <3>3. CASE x <= u
      <4>1. \A y \in T : y <= u
        BY <3>1, <3>3
      <4> QED BY <2>2, <3>2, <4>1
    <3>4. CASE ~(x <= u)
      <4>1. \A y \in T : y <= x
        BY <3>1, <3>2, <3>4
      <4> QED BY <2>2, <2>3, <4>1
    <3> QED BY <3>3, <3>4
  <2> QED BY <2>6, <2>7
<1> QED BY <1>1, <1>2

LEMMA ImageFinite ==
  ASSUME NEW S, IsFiniteSet(S), NEW f, DOMAIN f = S, f = [x \in S |-> f[x]]
  PROVE  IsFiniteSet({f[x] : x \in S})
<1> DEFINE T == {f[x] : x \in S}
<1>1. f \in [S -> T]
  OBVIOUS
<1>2. \A y \in T : \E x \in S : f[x] = y
  OBVIOUS
<1> HIDE DEF T
<1>3. f \in Surjection(S, T)
  BY <1>1, <1>2 DEF Surjection
<1>4. IsFiniteSet(T)
  BY <1>3, FS_Surjection
<1> QED BY <1>4 DEF T

LEMMA SmallestOf ==
  ASSUME NEW S \in SUBSET Int, IsFiniteSet(S), S # {}
  PROVE  \E x \in S : \A y \in S : y >= x
<1> DEFINE f == [y \in S |-> -y]
           T == {f[y] : y \in S}
<1>1. IsFiniteSet(T)
  <2>1. DOMAIN f = S /\ f = [y \in S |-> f[y]]
    OBVIOUS
  <2> HIDE DEF f
  <2> QED BY <2>1, ImageFinite
<1>2. T \in SUBSET Int /\ T # {}
  OBVIOUS
<1>3. PICK t \in T : \A y \in T : y <= t
  BY <1>1, <1>2, LargestOf
<1>4. PICK x \in S : t = -x
  BY <1>3
<1>5. \A y \in S : -y <= -x
  BY <1>3, <1>4
<1> QED BY <1>4, <1>5

-----------------------------------------------------------------------------
(* Critical locations, profile, Boost and slew.                              *)

RootNames == {"lower", "heating", "neutral", "cooling", "upper"}
RootsOK(roots) == DOMAIN roots = RootNames /\ \A e \in RootNames : roots[e] \in Root
DemandsOK(demands) ==
  IsFiniteSet(demands) /\ \A d \in demands : d["heating"] \in Root /\ d["cooling"] \in Root

LEMMA DemandedIs ==
  ASSUME NEW demands, DemandsOK(demands), NEW modes, NEW root \in {"heating", "cooling"}
  PROVE  Demanded(demands, modes, root) \in SUBSET Int /\ IsFiniteSet(Demanded(demands, modes, root))
<1> DEFINE S == {e \in demands : e.eligible /\ e.mode \in modes /\ e[root] # NoRoot}
           f == [d \in S |-> d[root]]
<1>1. IsFiniteSet(S)
  BY FS_Subset DEF DemandsOK
<1>2. \A d \in S : d \in demands /\ d[root] # NoRoot
  OBVIOUS
<1>3. Demanded(demands, modes, root) = {d[root] : d \in S}
  BY Zenon DEF Demanded
<1> HIDE DEF S
<1>4. \A d \in S : d[root] \in Int
  BY <1>2 DEF DemandsOK, Root
<1>5. DOMAIN f = S /\ f = [d \in S |-> f[d]] /\ Demanded(demands, modes, root) = {f[d] : d \in S}
  BY <1>3
<1> HIDE DEF f
<1>6. IsFiniteSet({f[d] : d \in S})
  BY <1>1, <1>5, ImageFinite
<1> QED BY <1>3, <1>4, <1>5, <1>6

LEMMA InfluenceNat == MaxInfluence \in Nat /\ Degree \div 4 \in Int
BY PolicyAssumption DEF MaxInfluence

LEMMA CriticalHeatingIs ==
  ASSUME NEW roots, RootsOK(roots), NEW demands, DemandsOK(demands), roots.heating \in Int
  PROVE  /\ CriticalHeating(roots, demands) \in Int
         /\ roots.heating <= CriticalHeating(roots, demands)
         /\ CriticalHeating(roots, demands) <= roots.heating + MaxInfluence
<1> DEFINE base == roots.heating
           asked == Demanded(demands, {"heating", "both"}, "heating")
           worst == CHOOSE x \in asked \cup {base} : \A y \in asked \cup {base} : y <= x
           cap == Greater(base, Lesser(base + MaxInfluence, roots.upper - EdgeGuard(roots)))
<1>1. asked \in SUBSET Int /\ IsFiniteSet(asked)
  BY DemandedIs
<1> HIDE DEF asked
<1>2. IsFiniteSet(asked \cup {base})
  BY <1>1, FS_AddElement
<1>3. asked \cup {base} \in SUBSET Int /\ asked \cup {base} # {}
  BY <1>1
<1>4. \E x \in asked \cup {base} : \A y \in asked \cup {base} : y <= x
  BY <1>2, <1>3, LargestOf
<1>5. worst \in asked \cup {base} /\ \A y \in asked \cup {base} : y <= worst
  BY <1>4
<1>6. worst \in Int /\ base <= worst
  BY <1>3, <1>5
<1> USE DEF asked
<1>7. CriticalHeating(roots, demands) =
        IF worst = base \/ ~OuterKnown(roots) THEN base ELSE Lesser(worst, cap)
  BY DEF CriticalHeating
<1> HIDE DEF worst, asked
<1>8. CASE worst = base \/ ~OuterKnown(roots)
  BY <1>7, <1>8, InfluenceNat
<1>9. CASE ~(worst = base \/ ~OuterKnown(roots))
  <2>1. roots.upper \in Int /\ roots.lower \in Int
    BY <1>9 DEF OuterKnown, RootsOK, RootNames, Root
  <2>2. EdgeGuard(roots) \in Int
    BY <2>1, InfluenceNat DEF EdgeGuard, Lesser
  <2>3. cap \in Int /\ base <= cap /\ cap <= base + MaxInfluence
    BY <2>1, <2>2, InfluenceNat DEF Greater, Lesser
  <2> HIDE DEF cap
  <2>4. CriticalHeating(roots, demands) = Lesser(worst, cap)
    BY <1>7, <1>9, Zenon
  <2>5. base \in Int /\ MaxInfluence \in Int
    BY InfluenceNat
  <2> QED BY <1>6, <2>3, <2>4, <2>5 DEF Lesser
<1> QED BY <1>8, <1>9

LEMMA CriticalCoolingIs ==
  ASSUME NEW roots, RootsOK(roots), NEW demands, DemandsOK(demands), roots.cooling \in Int
  PROVE  /\ CriticalCooling(roots, demands) \in Int
         /\ CriticalCooling(roots, demands) <= roots.cooling
         /\ roots.cooling - MaxInfluence <= CriticalCooling(roots, demands)
<1> DEFINE base == roots.cooling
           asked == Demanded(demands, {"cooling", "both"}, "cooling")
           worst == CHOOSE x \in asked \cup {base} : \A y \in asked \cup {base} : y >= x
           floor == Lesser(base, Greater(base - MaxInfluence, roots.lower + EdgeGuard(roots)))
<1>1. asked \in SUBSET Int /\ IsFiniteSet(asked)
  BY DemandedIs
<1> HIDE DEF asked
<1>2. IsFiniteSet(asked \cup {base})
  BY <1>1, FS_AddElement
<1>3. asked \cup {base} \in SUBSET Int /\ asked \cup {base} # {}
  BY <1>1
<1>4. \E x \in asked \cup {base} : \A y \in asked \cup {base} : y >= x
  BY <1>2, <1>3, SmallestOf
<1>5. worst \in asked \cup {base} /\ \A y \in asked \cup {base} : y >= worst
  BY <1>4
<1>6. worst \in Int /\ worst <= base
  BY <1>3, <1>5
<1> USE DEF asked
<1>7. CriticalCooling(roots, demands) =
        IF worst = base \/ ~OuterKnown(roots) THEN base ELSE Greater(worst, floor)
  BY DEF CriticalCooling
<1> HIDE DEF worst, asked
<1>8. CASE worst = base \/ ~OuterKnown(roots)
  BY <1>7, <1>8, InfluenceNat
<1>9. CASE ~(worst = base \/ ~OuterKnown(roots))
  <2>1. roots.upper \in Int /\ roots.lower \in Int
    BY <1>9 DEF OuterKnown, RootsOK, RootNames, Root
  <2>2. EdgeGuard(roots) \in Int
    BY <2>1, InfluenceNat DEF EdgeGuard, Lesser
  <2>3. floor \in Int /\ floor <= base /\ base - MaxInfluence <= floor
    BY <2>1, <2>2, InfluenceNat DEF Greater, Lesser
  <2> HIDE DEF floor
  <2>4. CriticalCooling(roots, demands) = Greater(worst, floor)
    BY <1>7, <1>9, Zenon
  <2>5. base \in Int /\ MaxInfluence \in Int
    BY InfluenceNat
  <2> QED BY <1>6, <2>3, <2>4, <2>5 DEF Greater
<1> QED BY <1>8, <1>9

Numbers == {"min", "max", "calibration", "delta", "approach", "fallbackLow", "fallbackHigh", "start", "stop"}
SetOK(s) ==
  /\ Numbers \union {"gap", "setback", "profile", "intensity", "boost", "rounding"} \subseteq DOMAIN s
  /\ \A f \in Numbers : s[f] \in Int
  /\ s.gap \in Nat /\ s.gap % 2 = 0 /\ s.setback \in Nat
Ends(t) == t.heating \in Root /\ t.cooling \in Root

\* What the critical locations make of the roots.
CriticalEnds(t, roots, direction, gap) ==
  /\ Ends(t)
  /\ t.heating # NoRoot => /\ roots.heating \in Int
                           /\ t.heating <= roots.heating + MaxInfluence
  /\ t.cooling # NoRoot => /\ roots.cooling \in Int
                           /\ roots.cooling - MaxInfluence <= t.cooling
  /\ Heats(direction) => t.heating \in Int
  /\ Cools(direction) => t.cooling \in Int
  /\ direction = "ranged" => t.cooling - t.heating >= gap

LEMMA RootIs == \A x : x \in Root <=> (x \in Int \/ x = NoRoot)
BY DEF Root

LEMMA CriticalTargetsIs ==
  ASSUME NEW roots, RootsOK(roots), NEW demands, DemandsOK(demands), NEW direction, NEW gap \in Nat
  PROVE  \/ CriticalTargets(roots, demands, direction, gap) = NoTarget
         \/ CriticalEnds(CriticalTargets(roots, demands, direction, gap), roots, direction, gap)
<1> DEFINE h == IF Heats(direction) THEN CriticalHeating(roots, demands) ELSE NoRoot
           c == IF Cools(direction) THEN CriticalCooling(roots, demands) ELSE NoRoot
           t == CriticalTargets(roots, demands, direction, gap)
<1>1. roots.heating \in Root /\ roots.cooling \in Root
  BY DEF RootsOK, RootNames
<1> SUFFICES ASSUME t # NoTarget PROVE CriticalEnds(t, roots, direction, gap)
  OBVIOUS
<1>2. /\ Heats(direction) => roots.heating \in Int
      /\ Cools(direction) => roots.cooling \in Int
      /\ direction = "ranged" => ~(roots.cooling - roots.heating < gap)
      /\ t = KeptOpen([heating |-> h, cooling |-> c], roots, direction, gap)
  BY <1>1, RootIs DEF CriticalTargets
<1>3. /\ Heats(direction) => h \in Int /\ roots.heating <= h /\ h <= roots.heating + MaxInfluence
      /\ ~Heats(direction) => h = NoRoot
  BY <1>2, CriticalHeatingIs
<1>4. /\ Cools(direction) => c \in Int /\ c <= roots.cooling /\ roots.cooling - MaxInfluence <= c
      /\ ~Cools(direction) => c = NoRoot
  BY <1>2, CriticalCoolingIs
<1> HIDE DEF h, c
<1>5. direction = "ranged" => Heats(direction) /\ Cools(direction)
  BY DEF Heats, Cools
<1>6. CASE direction = "ranged" /\ c - h < gap
  <2>1. t = [heating |-> roots.heating, cooling |-> roots.cooling]
    BY <1>2, <1>6 DEF KeptOpen
  <2>2. t.heating = roots.heating /\ t.cooling = roots.cooling
    BY <2>1
  <2> HIDE DEF t
  <2> QED BY <1>2, <1>5, <1>6, <2>2, InfluenceNat, ZoneConstants DEF CriticalEnds, Ends, Root
<1>7. CASE ~(direction = "ranged" /\ c - h < gap)
  <2>1. t = [heating |-> h, cooling |-> c]
    BY <1>2, <1>7 DEF KeptOpen
  <2>2. t.heating = h /\ t.cooling = c
    BY <2>1
  <2> HIDE DEF t
  <2>3. Ends(t)
    BY <1>3, <1>4, <2>2 DEF Ends, Root
  <2>4. h # NoRoot => Heats(direction)
    BY <1>3
  <2>5. c # NoRoot => Cools(direction)
    BY <1>4
  <2> QED BY <1>2, <1>3, <1>4, <1>5, <1>7, <2>2, <2>3, <2>4, <2>5 DEF CriticalEnds
<1> QED BY <1>6, <1>7

\* The range that a policy asks for is not too narrow.
Wide(s) == s.intensity = "deep" => s.max - s.min >= s.gap + 2 * MaxInfluence

LEMMA SetIs ==
  ASSUME NEW s, SetOK(s)
  PROVE  /\ s.min \in Int /\ s.max \in Int /\ s.calibration \in Int /\ s.delta \in Int
         /\ s.approach \in Int /\ s.fallbackLow \in Int /\ s.fallbackHigh \in Int
         /\ s.gap \in Nat /\ s.gap % 2 = 0 /\ s.setback \in Nat
BY DEF SetOK, Numbers

LEMMA SetbackIs ==
  ASSUME NEW roots, NEW direction, NEW s, SetOK(s), NEW t, CriticalEnds(t, roots, direction, s.gap)
  PROVE  /\ Ends(Setback(t, roots, s))
         /\ t.heating \in Int => Setback(t, roots, s).heating \in Int
         /\ direction = "ranged" /\ Wide(s) => Ordered(Setback(t, roots, s), s.gap)
<1> DEFINE h == t.heating
           c == t.cooling
           r == Setback(t, roots, s)
<1>0. /\ h \in Root /\ c \in Root
      /\ h # NoRoot => h \in Int /\ roots.heating \in Int /\ h <= roots.heating + MaxInfluence
      /\ c # NoRoot => c \in Int /\ roots.cooling \in Int /\ roots.cooling - MaxInfluence <= c
      /\ direction = "ranged" => h \in Int /\ c \in Int /\ c - h >= s.gap
  BY RootIs DEF CriticalEnds, Ends, Heats, Cools
<1>1. s.min \in Int /\ s.max \in Int /\ s.gap \in Nat /\ s.setback \in Nat /\ NoRoot \notin Int
  BY SetIs, ZoneConstants
<1>2. CASE s.profile # "eco"
  <2>1. r = t
    BY <1>2 DEF Setback
  <2>2. direction = "ranged" => Ordered(t, s.gap)
    BY <1>0, <1>1 DEF Ordered
  <2> QED BY <1>0, <2>1, <2>2 DEF Ends
<1>3. CASE s.profile = "eco" /\ s.intensity = "deep"
  <2> DEFINE low == IF h = NoRoot THEN NoRoot ELSE s.min + (h - roots.heating)
             high == IF c = NoRoot THEN NoRoot ELSE s.max + (c - roots.cooling)
  <2>1. r = [heating |-> low, cooling |-> high]
    BY <1>3 DEF Setback
  <2>2. r.heating = low /\ r.cooling = high
    BY <2>1
  <2>3. low \in Root /\ high \in Root /\ (h \in Int => low \in Int)
    BY <1>0, <1>1 DEF Root
  <2>4. ASSUME direction = "ranged", Wide(s)
        PROVE  low \in Int /\ high \in Int /\ high - low >= s.gap
    <3>1. s.max - s.min >= s.gap + 2 * MaxInfluence /\ MaxInfluence \in Nat
      BY <1>3, <2>4, InfluenceNat DEF Wide
    <3>2. low = s.min + (h - roots.heating) /\ high = s.max + (c - roots.cooling)
      BY <1>0, <1>1, <2>4
    <3>3. /\ h \in Int /\ roots.heating \in Int /\ h <= roots.heating + MaxInfluence
          /\ c \in Int /\ roots.cooling \in Int /\ roots.cooling - MaxInfluence <= c
      BY <1>0, <1>1, <2>4
    <3> HIDE DEF low, high, h, c
    <3> QED BY <1>1, <3>1, <3>2, <3>3
  <2> HIDE DEF low, high
  <2> QED BY <1>1, <2>2, <2>3, <2>4 DEF Ends, Ordered
<1>4. CASE s.profile = "eco" /\ s.intensity # "deep"
  <2> DEFINE low == Shifted(h, -s.setback)
             high == Shifted(c, s.setback)
  <2>1. r = [heating |-> low, cooling |-> high]
    BY <1>4 DEF Setback
  <2>2. r.heating = low /\ r.cooling = high
    BY <2>1
  <2>3. low \in Root /\ high \in Root /\ (h \in Int => low \in Int)
    BY <1>0, <1>1 DEF Root, Shifted
  <2>4. ASSUME direction = "ranged"
        PROVE  low \in Int /\ high \in Int /\ high - low >= s.gap
    BY <1>0, <1>1, <2>4 DEF Shifted
  <2> HIDE DEF low, high
  <2> QED BY <1>1, <2>2, <2>3, <2>4 DEF Ends, Ordered
<1> QED BY <1>2, <1>3, <1>4

LEMMA BoostGoalIs ==
  ASSUME NEW roots, RootsOK(roots), NEW direction, NEW s, SetOK(s), NEW t, Ends(t), NEW goal \in Root
  PROVE  /\ Ends(BoostGoal(t, roots, direction, s, goal))
         /\ direction = "ranged" /\ Ordered(t, s.gap)
              => Ordered(BoostGoal(t, roots, direction, s, goal), s.gap)
<1> DEFINE low == IF Heats(direction) /\ roots.neutral # NoRoot
                  THEN Lesser(roots.neutral + s.delta, s.max) ELSE t.heating
           high == IF Cools(direction) /\ roots.neutral # NoRoot
                   THEN Greater(roots.neutral - s.delta, s.min) ELSE t.cooling
           half == s.gap \div 2
           r == BoostGoal(t, roots, direction, s, goal)
<1>1. s.min \in Int /\ s.max \in Int /\ s.delta \in Int /\ s.gap \in Nat /\ s.gap % 2 = 0
  BY SetIs
<1>2. roots.neutral \in Int \/ roots.neutral = NoRoot
  BY DEF RootsOK, RootNames, Root
<1>3. low \in Root /\ high \in Root
  BY <1>1, <1>2 DEF Ends, Root, Lesser, Greater
<1>4. half \in Int /\ 2 * half = s.gap
  BY <1>1
<1>5. CASE direction = "ranged" /\ roots.neutral # NoRoot
  <2>1. Heats(direction) /\ Cools(direction)
    BY <1>5 DEF Heats, Cools
  <2>2. low \in Int /\ high \in Int /\ roots.neutral \in Int
    BY <1>1, <1>2, <1>5, <2>1 DEF Lesser, Greater
  <2> HIDE DEF half, low, high
  <2>3. r = [heating |-> Lesser(low, roots.neutral - half), cooling |-> Greater(high, roots.neutral + half)]
    BY <1>5 DEF BoostGoal, half, low, high
  <2>4. r.heating = Lesser(low, roots.neutral - half) /\ r.cooling = Greater(high, roots.neutral + half)
    BY <2>3
  <2>5. r.heating \in Int /\ r.cooling \in Int /\ r.cooling - r.heating >= s.gap
    BY <1>1, <1>4, <2>2, <2>4 DEF Lesser, Greater
  <2> QED BY <2>5, ZoneConstants DEF Ends, Ordered, Root
<1>6. CASE ~(direction = "ranged" /\ roots.neutral # NoRoot)
  <2> DEFINE a == IF direction = "heating" /\ goal # NoRoot THEN goal ELSE low
             b == IF direction = "cooling" /\ goal # NoRoot THEN goal ELSE high
  <2>1. r = [heating |-> a, cooling |-> b]
    BY <1>6 DEF BoostGoal
  <2>2. r.heating = a /\ r.cooling = b
    BY <2>1
  <2>3. a \in Root /\ b \in Root
    BY <1>3
  <2>4. direction = "ranged" => a = t.heating /\ b = t.cooling
    BY <1>6
  <2> HIDE DEF a, b
  <2> QED BY <2>2, <2>3, <2>4 DEF Ends, Ordered
<1> QED BY <1>5, <1>6

LEMMA BoostedIs ==
  ASSUME NEW b, Ends(b), NEW direction, NEW s, SetOK(s), NEW room, NEW latched
  PROVE  /\ Ends(Boosted(b, direction, s, room, latched).targets)
         /\ direction = "ranged" => Boosted(b, direction, s, room, latched).targets = b
<1> DEFINE limit == [heating |-> IF direction = "heating" THEN s.max ELSE NoRoot,
                     cooling |-> IF direction = "cooling" THEN s.min ELSE NoRoot]
           r == Boosted(b, direction, s, room, latched).targets
<1>1. r = b \/ (direction # "ranged" /\ r = limit)
  BY DEF Boosted
<1>2. Ends(limit)
  BY SetIs DEF Ends, Root
<1> QED BY <1>1, <1>2

LEMMA TransformedIs ==
  ASSUME NEW roots, RootsOK(roots), NEW direction, NEW s, SetOK(s), NEW t,
         NEW goal \in Root, NEW room, NEW latched,
         CriticalEnds(t, roots, direction, s.gap) \/ (Ends(t) /\ direction = "heating" /\ s.boost # "off")
  PROVE  /\ Ends(Transformed(t, roots, direction, s, goal, room, latched).targets)
         /\ direction = "ranged" /\ Wide(s)
              => Ordered(Transformed(t, roots, direction, s, goal, room, latched).targets, s.gap)
<1> DEFINE r == Transformed(t, roots, direction, s, goal, room, latched).targets
<1>1. CASE s.boost = "off"
  <2>1. r = Setback(t, roots, s)
    BY <1>1 DEF Transformed
  <2> QED BY <1>1, <2>1, SetbackIs
<1>2. CASE s.boost # "off"
  <2>1. Ends(t) /\ (direction = "ranged" => Ordered(t, s.gap))
    <3>1. NoRoot \notin Int
      BY ZoneConstants
    <3> QED BY <3>1 DEF CriticalEnds, Ordered, Heats, Cools
  <2> DEFINE b == BoostGoal(t, roots, direction, s, goal)
  <2>2. Ends(b) /\ (direction = "ranged" => Ordered(b, s.gap))
    BY <2>1, BoostGoalIs
  <2>3. r = Boosted(b, direction, s, room, latched).targets
    BY <1>2 DEF Transformed
  <2> HIDE DEF b
  <2> QED BY <2>2, <2>3, BoostedIs
<1> QED BY <1>1, <1>2

\* The slew moves both ends by the same allowance and keeps the distance between them.
LEMMA SlewedIs ==
  \A x, p \in Root : \A a \in Int : Slewed(x, p, a) \in Root
BY DEF Slewed, Root, Clamped, Lesser, Greater

LEMMA SlewKeeps ==
  ASSUME NEW h \in Int, NEW c \in Int, NEW p \in Int, NEW q \in Int, NEW a \in Int, NEW gap \in Int,
         c - h >= gap, q - p >= gap
  PROVE  Slewed(c, q, a) - Slewed(h, p, a) >= gap /\ Slewed(c, q, a) \in Int /\ Slewed(h, p, a) \in Int
BY ZoneConstants DEF Slewed, Clamped, Lesser, Greater

LEMMA RequestedIs ==
  ASSUME NEW t, Ends(t.targets), NEW latched, NEW before, Ends(before), NEW a \in Int, NEW at
  PROVE  /\ Ends(Requested(t, latched, before, a, at))
         /\ \A gap \in Int : Ordered(t.targets, gap) /\ (at \/ Ordered(before, gap))
                               => Ordered(Requested(t, latched, before, a, at), gap)
<1> DEFINE h == t.targets.heating
           c == t.targets.cooling
           p == before.heating
           q == before.cooling
           r == Requested(t, latched, before, a, at)
           once == at \/ (t.reached /\ ~latched)
<1>1. h \in Root /\ c \in Root /\ p \in Root /\ q \in Root
  BY DEF Ends
<1>2. /\ r.heating = IF once THEN h ELSE Slewed(h, p, a)
      /\ r.cooling = IF once THEN c ELSE Slewed(c, q, a)
  BY DEF Requested
<1>3. Ends(r)
  BY <1>1, <1>2, SlewedIs DEF Ends
<1>4. ASSUME NEW gap \in Int, Ordered(t.targets, gap), at \/ Ordered(before, gap)
      PROVE  Ordered(r, gap)
  <2>1. CASE once
    BY <1>2, <1>4, <2>1 DEF Ordered
  <2>2. CASE ~once /\ (h = NoRoot \/ c = NoRoot)
    <3>1. h = NoRoot /\ c = NoRoot
      BY <1>4, <2>2 DEF Ordered
    <3>2. r.heating = NoRoot /\ r.cooling = NoRoot
      BY <1>2, <2>2, <3>1 DEF Slewed
    <3> QED BY <3>2 DEF Ordered
  <2>3. CASE ~once /\ h # NoRoot /\ c # NoRoot /\ (p = NoRoot \/ q = NoRoot)
    <3>1. p = NoRoot /\ q = NoRoot
      BY <1>4, <2>3 DEF Ordered
    <3>2. r.heating = h /\ r.cooling = c
      BY <1>2, <2>3, <3>1 DEF Slewed
    <3> QED BY <1>4, <3>2 DEF Ordered
  <2>4. CASE ~once /\ h # NoRoot /\ c # NoRoot /\ p # NoRoot /\ q # NoRoot
    <3>1. h \in Int /\ c \in Int /\ p \in Int /\ q \in Int
      BY <1>1, <2>4 DEF Root
    <3>2. c - h >= gap /\ q - p >= gap
      BY <1>4, <2>4 DEF Ordered
    <3>3. /\ Slewed(c, q, a) - Slewed(h, p, a) >= gap
          /\ Slewed(c, q, a) \in Int /\ Slewed(h, p, a) \in Int
      BY <3>1, <3>2, SlewKeeps
    <3>4. r.heating = Slewed(h, p, a) /\ r.cooling = Slewed(c, q, a)
      BY <1>2, <2>4
    <3> HIDE DEF r
    <3>5. r.heating # NoRoot /\ r.cooling # NoRoot /\ r.cooling - r.heating >= gap
      BY <3>3, <3>4, ZoneConstants
    <3> QED BY <3>5 DEF Ordered, r
  <2> QED BY <2>1, <2>2, <2>3, <2>4
<1> QED BY <1>3, <1>4

IsPolicy(p) == p = NoTarget \/ Ends(p)

LEMMA AdaptivePolicyIs ==
  ASSUME NEW roots, RootsOK(roots), NEW demands, DemandsOK(demands), NEW direction, NEW s, SetOK(s),
         NEW goal \in Root, NEW room, NEW latched, NEW before, Ends(before), NEW a \in Int, NEW at
  PROVE  LET p == AdaptivePolicy(roots, demands, direction, s, goal, room, latched, before, a, at)
         IN /\ IsPolicy(p)
            /\ direction = "ranged" /\ Wide(s) /\ (at \/ Ordered(before, s.gap))
                 => p = NoTarget \/ Ordered(p, s.gap)
<1> DEFINE p == AdaptivePolicy(roots, demands, direction, s, goal, room, latched, before, a, at)
           critical == CriticalTargets(roots, demands, direction, s.gap)
           none == [heating |-> NoRoot, cooling |-> NoRoot]
           t == IF critical = NoTarget THEN none ELSE critical
           moved == Transformed(t, roots, direction, s, goal, room, latched)
<1>1. s.gap \in Nat
  BY SetIs
<1>2. critical = NoTarget \/ CriticalEnds(critical, roots, direction, s.gap)
  BY <1>1, CriticalTargetsIs
<1>3. Ends(none)
  BY DEF Ends, Root
<1>4. \/ p = NoTarget
      \/ /\ critical = NoTarget => s.boost # "off" /\ direction = "heating"
         /\ p = Requested(moved, latched, before, a, at)
  BY DEF AdaptivePolicy, AdaptivePolicyOf
<1> HIDE DEF critical, none
<1>5. ASSUME critical = NoTarget => s.boost # "off" /\ direction = "heating"
      PROVE  /\ Ends(moved.targets)
             /\ direction = "ranged" /\ Wide(s) => Ordered(moved.targets, s.gap)
  <2>1. CriticalEnds(t, roots, direction, s.gap) \/ (Ends(t) /\ direction = "heating" /\ s.boost # "off")
    BY <1>2, <1>3, <1>5
  <2> HIDE DEF t
  <2> QED BY <2>1, TransformedIs
<1> HIDE DEF moved
<1>6. CASE p # NoTarget
  <2>1. p = Requested(moved, latched, before, a, at) /\ Ends(moved.targets)
        /\ (direction = "ranged" /\ Wide(s) => Ordered(moved.targets, s.gap))
    BY <1>4, <1>5, <1>6
  <2> HIDE DEF p
  <2> QED BY <1>1, <2>1, RequestedIs DEF IsPolicy, p
<1>7. CASE p = NoTarget
  BY <1>7 DEF IsPolicy
<1> QED BY <1>6, <1>7

LEMMA FixedFallbackIs ==
  ASSUME NEW direction, NEW s, SetOK(s)
  PROVE  /\ IsPolicy(FixedFallback(direction, s))
         /\ direction = "ranged" => \/ FixedFallback(direction, s) = NoTarget
                                    \/ Ordered(FixedFallback(direction, s), s.gap)
<1> DEFINE p == FixedFallback(direction, s)
           low == IF direction = "cooling" THEN NoRoot ELSE s.fallbackLow
           high == IF direction = "heating" THEN NoRoot ELSE s.fallbackHigh
<1>1. s.fallbackLow \in Int /\ s.fallbackHigh \in Int /\ s.gap \in Nat /\ NoRoot \notin Int
  BY SetIs, ZoneConstants
<1>2. CASE p # NoTarget
  <2>1. /\ p = [heating |-> low, cooling |-> high, reached |-> FALSE]
        /\ direction = "ranged" => ~(s.fallbackHigh - s.fallbackLow < s.gap)
    BY <1>2 DEF FixedFallback
  <2>2. p.heating = low /\ p.cooling = high
    BY <2>1
  <2>3. low \in Root /\ high \in Root
    BY <1>1 DEF Root
  <2>4. direction = "ranged" => low = s.fallbackLow /\ high = s.fallbackHigh
    OBVIOUS
  <2> QED BY <1>1, <2>1, <2>2, <2>3, <2>4 DEF IsPolicy, Ends, Ordered
<1>3. CASE p = NoTarget
  BY <1>3 DEF IsPolicy
<1> QED BY <1>2, <1>3

LEMMA ManualHeatingIs ==
  ASSUME NEW occupied \in Root, NEW neutral \in Root, NEW s, SetOK(s), NEW goal \in Root,
         NEW room, NEW latched
  PROVE  IsPolicy(ManualHeating(occupied, neutral, s, goal, room, latched))
<1> DEFINE p == ManualHeating(occupied, neutral, s, goal, room, latched)
           cached == IF occupied = NoRoot THEN s.max
                     ELSE IF s.boost # "off" /\ neutral # NoRoot THEN neutral + s.delta
                     ELSE occupied
           bounded == Lesser(IF goal = NoRoot THEN cached ELSE goal, s.max)
           near == s.boost = "rapid" /\ (latched \/ room >= bounded - s.approach)
<1>1. s.max \in Int /\ s.delta \in Int
  BY SetIs
<1>2. cached \in Int
  BY <1>1 DEF Root
<1>3. bounded \in Int
  BY <1>1, <1>2 DEF Root, Lesser
<1> HIDE DEF cached, bounded
<1>4. p = NoTarget \/ p = [heating |-> IF s.boost = "rapid" /\ ~near THEN s.max ELSE bounded,
                           cooling |-> NoRoot, reached |-> near]
  BY DEF ManualHeating, cached, bounded
<1> HIDE DEF near
<1> QED BY <1>1, <1>3, <1>4 DEF IsPolicy, Ends, Root

-----------------------------------------------------------------------------
(* Targets.                                                                  *)

DeviceOK(d) == d.min \in Int /\ d.max \in Int /\ d.step \in Nat \ {0}
IsScalar(t) ==
  /\ DOMAIN t = {"direction", "bounded", "actuator", "room"}
  /\ t.bounded \in Int /\ t.actuator \in Int /\ t.room \in Int
IsRange(t) == DOMAIN t = {"heating", "cooling"} /\ IsScalar(t.heating) /\ IsScalar(t.cooling)
IsTarget(t) == t = NoTarget \/ IsScalar(t) \/ IsRange(t)

LEMMA CeilDivInt == \A a \in Int : \A b \in Nat \ {0} : CeilDiv(a, b) \in Int
BY DEF CeilDiv

LEMMA ClampedInt == \A x, a, b \in Int : Clamped(x, a, b) \in Int
BY DEF Clamped, Lesser, Greater

LEMMA IndexInt ==
  ASSUME NEW x \in Int, NEW origin \in Int, NEW step \in Nat \ {0}, NEW low, NEW high,
         NEW first, NEW last, NEW rounding, NEW direction
  PROVE  Index(x, [origin |-> origin, step |-> step, low |-> low, high |-> high,
                   first |-> first, last |-> last], rounding, direction) \in Int
<1> DEFINE up == CeilDiv(x - origin, step)
           down == (x - origin) \div step
           mid == (2 * (x - origin) + step) \div (2 * step)
           g == [origin |-> origin, step |-> step, low |-> low, high |-> high,
                 first |-> first, last |-> last]
<1>1. up \in Int
  <2>1. x - origin \in Int
    OBVIOUS
  <2> QED BY <2>1, CeilDivInt
<1>2. down \in Int
  OBVIOUS
<1>3. mid \in Int
  <2>1. 2 * (x - origin) + step \in Int /\ 2 * step \in Int /\ 2 * step > 0
    OBVIOUS
  <2> DEFINE p == 2 * (x - origin) + step
             q == 2 * step
  <2>2. p \in Int /\ q \in Int /\ q > 0
    BY <2>1
  <2> HIDE DEF p, q
  <2>3. p \div q \in Int
    BY <2>2
  <2> QED BY <2>3 DEF p, q
<1>4. g.origin = origin /\ g.step = step
  OBVIOUS
<1> HIDE DEF g
<1>5. \/ Index(x, g, rounding, direction) = up
      \/ Index(x, g, rounding, direction) = down
      \/ Index(x, g, rounding, direction) = mid
  BY <1>4 DEF Index
<1> HIDE DEF up, down, mid
<1>6. Index(x, g, rounding, direction) \in Int
  BY <1>1, <1>2, <1>3, <1>5
<1> QED BY <1>6 DEF g

LEMMA NormalizeScalarIs ==
  ASSUME NEW room \in Int, NEW direction, NEW device, DeviceOK(device), NEW s, SetOK(s), NEW rounding
  PROVE  LET t == NormalizeScalar(room, direction, device, s, rounding)
         IN t = NoTarget \/ IsScalar(t)
<1> DEFINE bounded == Clamped(Clamped(room + s.calibration, s.min, s.max), device.min, device.max)
           low == Greater(device.min, s.min)
           high == Lesser(device.max, s.max)
           first == CeilDiv(low - device.min, device.step)
           last == (high - device.min) \div device.step
           g == [origin |-> device.min, step |-> device.step, low |-> low, high |-> high,
                 first |-> first, last |-> last]
           index == Index(bounded, g, rounding, direction)
           t == NormalizeScalar(room, direction, device, s, rounding)
<1>1. s.calibration \in Int /\ s.min \in Int /\ s.max \in Int
  BY SetIs
<1>2. device.min \in Int /\ device.max \in Int /\ device.step \in Nat \ {0}
  BY DEF DeviceOK
<1>3. bounded \in Int
  <2>1. room + s.calibration \in Int
    BY <1>1
  <2>2. Clamped(room + s.calibration, s.min, s.max) \in Int
    BY <1>1, <2>1, ClampedInt
  <2> QED BY <1>2, <2>2, ClampedInt
<1>4. g.origin = device.min /\ g.step = device.step
  OBVIOUS
<1>5. t = Target(index, bounded, direction, g, s.calibration)
  BY DEF NormalizeScalar, RoundedTarget, Grid
<1> HIDE DEF bounded, low, high, first, last
<1>6. index \in Int
  BY <1>2, <1>3, IndexInt
<1> HIDE DEF index, g
<1> DEFINE actuator == device.min + index * device.step
<1>7. actuator \in Int
  BY <1>2, <1>6
<1>8. \/ t = NoTarget
      \/ t = [direction |-> direction, bounded |-> bounded - s.calibration,
              actuator |-> actuator, room |-> actuator - s.calibration]
  BY <1>4, <1>5 DEF Target
<1> HIDE DEF actuator
<1> QED BY <1>1, <1>3, <1>7, <1>8 DEF IsScalar

LEMMA ExecutableIs ==
  ASSUME NEW policy, IsPolicy(policy), NEW direction \in {"heating", "cooling", "ranged"},
         NEW device, DeviceOK(device), NEW s, SetOK(s), NEW dew
  PROVE  IsTarget(Executable(policy, direction, device, s, dew))
<1> DEFINE needed == {x \in {"heating", "cooling"} : x = direction \/ direction = "ranged"}
           t == IF direction = "ranged"
                THEN NormalizeRange(policy.heating, policy.cooling, device, s, s.rounding, s.gap)
                ELSE NormalizeScalar(policy[direction], direction, device, s, s.rounding)
<1>1. \A target : AboveDew(target, direction, dew) = target \/ AboveDew(target, direction, dew) = NoTarget
  BY Zenon DEF AboveDew
<1>2. CASE policy = NoTarget \/ \E x \in needed : policy[x] = NoRoot
  BY <1>2 DEF Executable, IsTarget
<1>3. CASE policy # NoTarget /\ ~\E x \in needed : policy[x] = NoRoot
  <2>1. Executable(policy, direction, device, s, dew) = AboveDew(t, direction, dew)
    BY <1>3 DEF Executable
  <2>2. policy.heating \in Root /\ policy.cooling \in Root
    BY <1>3 DEF IsPolicy, Ends
  <2>3. CASE direction = "ranged"
    <3> DEFINE h == NormalizeScalar(policy.heating, "heating", device, s, s.rounding)
               c == NormalizeScalar(policy.cooling, "cooling", device, s, s.rounding)
    <3>1. policy.heating # NoRoot /\ policy.cooling # NoRoot
      BY <1>3, <2>3
    <3>2. (h = NoTarget \/ IsScalar(h)) /\ (c = NoTarget \/ IsScalar(c))
      BY <2>2, <3>1, NormalizeScalarIs DEF Root
    <3>3. t = RangeOf(h, c, s.gap)
      BY <2>3 DEF NormalizeRange
    <3> HIDE DEF h, c
    <3>4. t = NoTarget \/ (t = [heating |-> h, cooling |-> c] /\ IsScalar(h) /\ IsScalar(c))
      BY <3>2, <3>3 DEF RangeOf
    <3>5. t = NoTarget \/ IsRange(t)
      BY <3>4 DEF IsRange
    <3> HIDE DEF t
    <3> QED BY <1>1, <2>1, <3>5 DEF IsTarget
  <2>4. CASE direction \in {"heating", "cooling"}
    <3>1. policy[direction] \in Int
      BY <1>3, <2>2, <2>4 DEF Root
    <3>2. t = NormalizeScalar(policy[direction], direction, device, s, s.rounding)
      BY <2>4
    <3>3. t = NoTarget \/ IsScalar(t)
      BY <3>1, <3>2, NormalizeScalarIs
    <3> HIDE DEF t
    <3> QED BY <1>1, <2>1, <3>3 DEF IsTarget
  <2> QED BY <2>3, <2>4
<1> QED BY <1>2, <1>3

LEMMA CapabilityIs ==
  \A device : Capability(device) \in {"heating", "cooling", "ranged", "bidirectional", NoTarget}
<1> SUFFICES ASSUME NEW device
             PROVE  Capability(device) \in {"heating", "cooling", "ranged", "bidirectional", NoTarget}
  OBVIOUS
<1>1. InferAuto(device.scalar, device.ranged, device.modes)
        \in {"heating", "cooling", "ranged", "bidirectional", NoTarget}
  BY DEF InferAuto
<1> QED BY <1>1 DEF Capability

LEMMA DirectionIs ==
  ASSUME NEW device
  PROVE  /\ Direction(device) \in {"heating", "cooling", "ranged", "bidirectional"}
         /\ Capability(device) # NoTarget => Direction(device) = Capability(device)
BY CapabilityIs DEF Direction

-----------------------------------------------------------------------------
(* Results.                                                                  *)

IsReference(r) ==
  /\ DOMAIN r = {"occupied", "unoccupied", "neutral"}
  /\ r.occupied \in Root /\ r.unoccupied \in Root /\ r.neutral \in Root
IsResult(r) ==
  /\ DOMAIN r = {"policy", "target", "reason", "hold", "kind", "boost", "solved", "gated", "reference"}
  /\ IsPolicy(r.policy) /\ IsTarget(r.target) /\ IsReference(r.reference)

LEMMA NoReferenceIs == IsReference(NoReference)
BY DEF NoReference, IsReference, Root

LEMMA FailedResult ==
  \A reason, condition, solved : /\ IsResult(Failed(reason, condition, solved))
                                 /\ Failed(reason, condition, solved).policy = NoTarget
BY NoReferenceIs DEF Failed, IsResult, IsPolicy, IsTarget

\* What the changes of a result keep.
LEMMA ResultChanged ==
  ASSUME NEW r, IsResult(r), NEW x, NEW y, NEW z
  PROVE  /\ IsResult([r EXCEPT !.reason = x]) /\ [r EXCEPT !.reason = x].policy = r.policy
         /\ IsResult([r EXCEPT !.solved = x]) /\ [r EXCEPT !.solved = x].policy = r.policy
         /\ IsResult([r EXCEPT !.kind = x, !.boost = y]) /\ [r EXCEPT !.kind = x, !.boost = y].policy = r.policy
         /\ IsResult([r EXCEPT !.kind = x, !.gated = y]) /\ [r EXCEPT !.kind = x, !.gated = y].policy = r.policy
BY Zenon DEF IsResult

LEMMA ResultRetargeted ==
  ASSUME NEW r, IsResult(r), NEW t, IsTarget(t), NEW x, NEW y
  PROVE  /\ IsResult([r EXCEPT !.target = t]) /\ [r EXCEPT !.target = t].policy = r.policy
         /\ IsResult([r EXCEPT !.target = t, !.reason = x, !.hold = y])
         /\ [r EXCEPT !.target = t, !.reason = x, !.hold = y].policy = r.policy
BY Zenon DEF IsResult

LEMMA ResultReferred ==
  ASSUME NEW r, IsResult(r), NEW f, IsReference(f), NEW x, NEW y
  PROVE  /\ IsResult([r EXCEPT !.kind = x, !.boost = y, !.reference = f])
         /\ [r EXCEPT !.kind = x, !.boost = y, !.reference = f].policy = r.policy
BY Zenon DEF IsResult

LEMMA OutcomeResult ==
  ASSUME NEW policy, IsPolicy(policy), NEW target, IsTarget(target), NEW condition, NEW solved
  PROVE  /\ IsResult(Outcome(policy, target, condition, solved))
         /\ Outcome(policy, target, condition, solved).policy = policy
<1>1. \A r : IsResult(r) => /\ IsResult([r EXCEPT !.policy = policy, !.target = target])
                            /\ [r EXCEPT !.policy = policy, !.target = target].policy = policy
  BY Zenon DEF IsResult
<1> QED BY <1>1, FailedResult, Zenon DEF Outcome

-----------------------------------------------------------------------------
(* One target.                                                               *)

WorldOK(w) ==
  /\ {"roots", "demands"} \subseteq DOMAIN w
  /\ RootsOK(w.roots) /\ DemandsOK(w.demands)
FeedbackOK(fb) ==
  /\ DOMAIN fb = {"elapsed", "reached", "previous", "allowance", "explicit", "marker"}
  /\ Ends(fb.previous) /\ fb.allowance \in Int

\* A result, the request of which keeps the gap if it has to.
Fits(r, must, gap) == IsResult(r) /\ (must => r.policy = NoTarget \/ Ordered(r.policy, gap))
Must(direction, s, fb) == direction = "ranged" /\ Wide(s) /\ (fb.explicit \/ Ordered(fb.previous, s.gap))

LEMMA FailedFits ==
  ASSUME NEW reason, NEW condition, NEW solved, NEW must, NEW gap
  PROVE  Fits(Failed(reason, condition, solved), must, gap)
BY FailedResult DEF Fits

LEMMA FixedFits ==
  ASSUME NEW direction \in {"heating", "cooling", "ranged", "bidirectional"},
         NEW device, DeviceOK(device), NEW w, NEW s, SetOK(s), NEW condition, NEW gated, NEW solved
  PROVE  Fits(Fixed(direction, device, w, s, condition, gated, solved), direction = "ranged", s.gap)
<1> DEFINE r == Fixed(direction, device, w, s, condition, gated, solved)
           policy == FixedFallback(direction, s)
           target == Executable(policy, direction, device, s, w.dew)
           o == Outcome(policy, target, condition, solved)
<1>1. CASE direction = "bidirectional"
  BY <1>1, FailedFits DEF Fixed
<1>2. CASE direction # "bidirectional"
  <2>1. IsPolicy(policy) /\ (direction = "ranged" => policy = NoTarget \/ Ordered(policy, s.gap))
    BY FixedFallbackIs
  <2>2. r = [o EXCEPT !.kind = "fixed", !.gated = gated]
    BY <1>2, Zenon DEF Fixed, FixedOf
  <2> HIDE DEF policy
  <2>3. IsTarget(target)
    BY <1>2, <2>1, ExecutableIs
  <2> HIDE DEF target
  <2>4. IsResult(o) /\ o.policy = policy
    BY <2>1, <2>3, OutcomeResult
  <2> HIDE DEF o
  <2>5. IsResult(r) /\ r.policy = policy
    <3>1. /\ IsResult([o EXCEPT !.kind = "fixed", !.gated = gated])
          /\ [o EXCEPT !.kind = "fixed", !.gated = gated].policy = o.policy
      BY <2>4, Zenon DEF IsResult
    <3> QED BY <2>2, <2>4, <3>1
  <2> HIDE DEF r
  <2>6. Fits(r, direction = "ranged", s.gap)
    BY <2>1, <2>5 DEF Fits
  <2> QED BY <2>6 DEF r
<1> QED BY <1>1, <1>2

LEMMA ReferenceOfIs ==
  ASSUME NEW w, WorldOK(w), NEW s, SetOK(s)
  PROVE  \A direction : IsReference(Reference(direction, w, s))
<1> DEFINE critical == CriticalTargets(w.roots, w.demands, "heating", s.gap)
           Room(profile) == Setback(critical, w.roots, [s EXCEPT !.profile = profile]).heating
<1>1. critical = NoTarget \/ CriticalEnds(critical, w.roots, "heating", s.gap)
  BY SetIs, CriticalTargetsIs DEF WorldOK
<1> HIDE DEF critical
<1>2. ASSUME NEW profile, critical # NoTarget
      PROVE  Room(profile) \in Root
  <2> DEFINE u == [s EXCEPT !.profile = profile]
  <2>1. SetOK(u) /\ u.gap = s.gap
    BY DEF SetOK, Numbers
  <2>2. CriticalEnds(critical, w.roots, "heating", u.gap) /\ critical.heating \in Int
    BY <1>1, <1>2, <2>1 DEF CriticalEnds, Heats
  <2> HIDE DEF u
  <2>3. Setback(critical, w.roots, u).heating \in Int
    BY <2>1, <2>2, SetbackIs
  <2> QED BY <2>3 DEF u, Root
<1>3. ASSUME critical # NoTarget
      PROVE  IsReference([occupied |-> Room("comfort"), unoccupied |-> Room("eco"), neutral |-> w.roots.neutral])
  <2>1. Room("comfort") \in Root /\ Room("eco") \in Root
    BY <1>2, <1>3
  <2>2. w.roots.neutral \in Root
    BY DEF WorldOK, RootsOK, RootNames
  <2> HIDE DEF Room
  <2> QED BY <2>1, <2>2 DEF IsReference
<1>4. IsReference(ReferenceOf(critical, w, s))
  BY <1>3, NoReferenceIs DEF ReferenceOf
<1> QED BY <1>4, NoReferenceIs DEF Reference, critical

LEMMA AdaptiveFits ==
  ASSUME NEW direction \in {"heating", "cooling", "ranged"}, NEW boosted \in BOOLEAN,
         NEW device, DeviceOK(device), NEW w, WorldOK(w), NEW s, SetOK(s), NEW fb, FeedbackOK(fb),
         boosted => w.roots.neutral \in Int
  PROVE  Fits(Adaptive(direction, boosted, device, w, s, fb), Must(direction, s, fb), s.gap)
<1> DEFINE goal == NormalizeScalar(IF direction = "heating" THEN w.roots.neutral + s.delta
                                   ELSE w.roots.neutral - s.delta, direction, device, s, s.rounding)
           aim == IF boosted THEN goal.room ELSE NoRoot
           policy == AdaptivePolicy(w.roots, w.demands, direction, s, aim, w.room, fb.reached,
                                    fb.previous, fb.allowance, fb.explicit)
           dew == IF s.boost = "off" THEN NoRoot ELSE w.dew
           target == Executable(policy, direction, device, s, dew)
           reference == IF target = NoTarget THEN NoReference ELSE Reference(direction, w, s)
           o == Outcome(policy, target, Fine, TRUE)
           r == Adaptive(direction, boosted, device, w, s, fb)
<1>1. boosted => goal = NoTarget \/ IsScalar(goal)
  <2>1. ASSUME boosted
        PROVE  (IF direction = "heating" THEN w.roots.neutral + s.delta
                ELSE w.roots.neutral - s.delta) \in Int
    BY <2>1, SetIs
  <2> QED BY <2>1, NormalizeScalarIs
<1>2. r = AdaptiveTo(goal, direction, boosted, device, w, s, fb)
  BY DEF Adaptive
<1> HIDE DEF goal
<1>3. CASE boosted /\ goal = NoTarget
  BY <1>2, <1>3, FailedFits DEF AdaptiveTo
<1>4. CASE ~(boosted /\ goal = NoTarget)
  <2>1. aim \in Root
    BY <1>1, <1>4 DEF IsScalar, Root
  <2>2. r = [o EXCEPT !.kind = "adaptive", !.boost = s.boost, !.reference = reference]
    BY <1>2, <1>4, Zenon DEF AdaptiveTo, AdaptiveOf, AdaptiveOutcome
  <2> HIDE DEF aim
  <2>3. IsPolicy(policy) /\ (Must(direction, s, fb) => policy = NoTarget \/ Ordered(policy, s.gap))
    BY <2>1, AdaptivePolicyIs DEF FeedbackOK, WorldOK, Must
  <2> HIDE DEF policy, dew
  <2>4. IsTarget(target)
    BY <2>3, ExecutableIs
  <2> HIDE DEF target
  <2>5. IsResult(o) /\ o.policy = policy
    BY <2>3, <2>4, OutcomeResult
  <2>6. IsReference(reference)
    BY ReferenceOfIs, NoReferenceIs
  <2> HIDE DEF o, reference, r
  <2>7. IsResult(r) /\ r.policy = o.policy
    BY <2>2, <2>5, <2>6, Zenon DEF IsResult
  <2>8. Fits(r, Must(direction, s, fb), s.gap)
    BY <2>3, <2>5, <2>7 DEF Fits
  <2> QED BY <2>8 DEF r
<1> QED BY <1>3, <1>4

LEMMA TargetTurned ==
  ASSUME NEW t, IsTarget(t), t # NoTarget, NEW x
  PROVE  IsTarget([t EXCEPT !.direction = x])
<1>1. CASE IsScalar(t)
  <2>1. IsScalar([t EXCEPT !.direction = x])
    BY <1>1, Zenon DEF IsScalar
  <2> QED BY <2>1 DEF IsTarget
<1>2. CASE IsRange(t)
  <2>1. IsRange([t EXCEPT !.direction = x])
    BY <1>2, Zenon DEF IsRange
  <2> QED BY <2>1 DEF IsTarget
<1> QED BY <1>1, <1>2 DEF IsTarget

LEMMA ShownIs == ASSUME NEW r, IsResult(r), NEW w PROVE IsResult(Shown(r, w))
<1> DEFINE target == [r.target EXCEPT !.direction = IF r.target.room >= w.room THEN "heating" ELSE "cooling"]
<1>1. r.target # NoTarget => IsTarget(target)
  BY TargetTurned DEF IsResult
<1>2. \/ Shown(r, w) = r
      \/ Shown(r, w) = [r EXCEPT !.target = NoTarget, !.reason = "diagnostic", !.hold = "diagnostic"]
      \/ r.target # NoTarget /\ Shown(r, w) = [r EXCEPT !.target = target]
  BY Zenon DEF Shown
<1>3. IsTarget(NoTarget)
  BY DEF IsTarget
<1> HIDE DEF target
<1>4. IsTarget(target) => IsResult([r EXCEPT !.target = target])
  BY Zenon DEF IsResult
<1>5. IsResult([r EXCEPT !.target = NoTarget, !.reason = "diagnostic", !.hold = "diagnostic"])
  BY <1>3, Zenon DEF IsResult
<1> QED BY <1>1, <1>2, <1>4, <1>5, Zenon

LEMMA SelectedIs ==
  ASSUME NEW device, DeviceOK(device), NEW w, WorldOK(w), NEW s, SetOK(s), NEW fb, FeedbackOK(fb)
  PROVE  IsResult(Selected(device, w, s, fb))
<1> DEFINE branch == ScalarBranch(w.room, w.outdoor, w.roots)
           direction == BranchDirection(branch, w.room, w.roots)
           atNeutral == [w EXCEPT !.roots.heating = w.roots.neutral,
                                  !.roots.cooling = w.roots.neutral, !.demands = {}]
           plainly == [s EXCEPT !.profile = "comfort", !.boost = "off",
                                !.rounding = IF @ = "inward" THEN "mathematical" ELSE @]
           atOnce == [fb EXCEPT !.explicit = TRUE]
           v == IF branch = "neutral" THEN atNeutral ELSE w
           u == IF branch = "neutral" THEN plainly ELSE s
           r == Adaptive(direction, FALSE, device, v, u, atOnce)
<1>1. direction \in {"heating", "cooling", "ranged"}
  BY DEF BranchDirection
<1>2. \/ \E condition : Selected(device, w, s, fb) = Failed(condition, condition, TRUE)
      \/ Selected(device, w, s, fb) = Shown(r, w)
  BY Zenon DEF Selected
<1>3. SetOK(plainly)
  BY DEF SetOK, Numbers
<1>4. FeedbackOK(atOnce)
  BY DEF FeedbackOK
<1>5. WorldOK(atNeutral)
  <2> DEFINE n == w.roots.neutral
             roots == [[w.roots EXCEPT !.heating = n] EXCEPT !.cooling = n]
  <2>1. RootsOK(roots)
    BY DEF WorldOK, RootsOK, RootNames
  <2>2. DOMAIN atNeutral = DOMAIN w /\ atNeutral.roots = roots /\ atNeutral.demands = {}
    BY DEF WorldOK
  <2>3. DemandsOK({})
    BY FS_EmptySet DEF DemandsOK
  <2> HIDE DEF roots, atNeutral
  <2> QED BY <2>1, <2>2, <2>3 DEF WorldOK
<1> HIDE DEF direction, atNeutral, plainly, atOnce
<1>6. Fits(r, Must(direction, u, atOnce), u.gap)
  <2>1. WorldOK(v) /\ SetOK(u)
    BY <1>3, <1>5
  <2> HIDE DEF v, u
  <2> QED BY <1>1, <1>4, <2>1, AdaptiveFits
<1>7. IsResult(Shown(r, w))
  BY <1>6, ShownIs DEF Fits
<1> HIDE DEF r
<1> QED BY <1>2, <1>7, FailedResult

LEMMA EligibleRoots ==
  ASSUME NEW w, WorldOK(w), NEW s, NEW direction \in {"heating", "cooling"},
         Ineligible(direction, TRUE, w, s) = Fine
  PROVE  w.roots.neutral \in Int
<1> DEFINE needed == Required(direction, TRUE)
           lost == {i \in DOMAIN needed : w.roots[needed[i]] = NoRoot}
           first == CHOOSE i \in lost : \A j \in lost : i <= j
<1>1. w.roots.neutral \in Root
  BY DEF WorldOK, RootsOK, RootNames
<1>2. CASE direction = "heating"
  <2>1. needed = <<"neutral">>
    BY <1>2 DEF Required
  <2> HIDE DEF needed
  <2>2. DOMAIN needed = {1} /\ needed[1] = "neutral"
    <3>1. \A a : DOMAIN <<a>> = 1 .. 1 /\ <<a>>[1] = a
      OBVIOUS
    <3>2. DOMAIN needed = 1 .. 1 /\ needed[1] = "neutral"
      BY <2>1, <3>1, Zenon
    <3> QED BY <3>2
  <2> HIDE DEF needed
  <2>3. lost # {} => 1 \in lost /\ \A i \in lost : i = 1
    BY <2>2
  <2>4. lost # {} => first = 1
    BY <2>3
  <2> USE DEF needed
  <2>5. lost # {} => needed[first] = Fine \/ Fine = "current"
    BY DEF Ineligible
  <2>6. lost = {}
    BY <2>2, <2>4, <2>5, ZoneAssumption
  <2> HIDE DEF needed
  <2>7. w.roots["neutral"] # NoRoot
    BY <2>2, <2>6
  <2> QED BY <1>1, <2>7 DEF Root
<1>3. CASE direction = "cooling"
  <2>1. needed = <<"cooling", "neutral">>
    BY <1>3 DEF Required
  <2> HIDE DEF needed
  <2>2. DOMAIN needed = {1, 2} /\ needed[1] = "cooling" /\ needed[2] = "neutral"
    <3>1. \A a, b : DOMAIN <<a, b>> = 1 .. 2 /\ <<a, b>>[1] = a /\ <<a, b>>[2] = b
      OBVIOUS
    <3>2. DOMAIN needed = 1 .. 2 /\ needed[1] = "cooling" /\ needed[2] = "neutral"
      BY <2>1, <3>1, Zenon
    <3>3. 1 .. 2 = {1, 2}
      OBVIOUS
    <3> QED BY <3>2, <3>3
  <2> HIDE DEF needed
  <2>3. ASSUME 2 \in lost PROVE first = 1 \/ first = 2
    <3>1. lost \subseteq {1, 2}
      BY <2>2
    <3>2. \E i \in lost : \A j \in lost : i <= j
      <4>1. CASE 1 \in lost
        BY <3>1, <4>1
      <4>2. CASE 1 \notin lost
        BY <2>3, <3>1, <4>2
      <4> QED BY <4>1, <4>2
    <3>3. first \in lost
      BY <3>2
    <3> QED BY <3>1, <3>3
  <2> USE DEF needed
  <2>4. 2 \in lost => needed[first] = Fine \/ Fine = "current"
    BY DEF Ineligible
  <2>5. 2 \notin lost
    BY <2>2, <2>3, <2>4, ZoneAssumption
  <2> HIDE DEF needed
  <2>6. w.roots["neutral"] # NoRoot
    BY <2>2, <2>5
  <2> QED BY <1>1, <2>6 DEF Root
<1> QED BY <1>2, <1>3

LEMMA ZoneFits ==
  ASSUME NEW device, DeviceOK(device), NEW w, WorldOK(w), NEW s, SetOK(s), NEW fb, FeedbackOK(fb)
  PROVE  Fits(Zone(device, w, s, fb), Must(Direction(device), s, fb), s.gap)
<1> DEFINE direction == Direction(device)
           must == Must(direction, s, fb)
           boosted == s.boost # "off" /\ direction \in {"heating", "cooling"}
           r == Zone(device, w, s, fb)
<1>1. direction \in {"heating", "cooling", "ranged", "bidirectional"}
  BY DirectionIs
<1>2. must => direction = "ranged"
  BY DEF Must
<1>3. \A condition, gated, solved :
        Fits(Fixed(direction, device, w, s, condition, gated, solved), must, s.gap)
  BY <1>1, <1>2, FixedFits DEF Fits
<1>4. \A reason : Fits(Failed(reason, reason, TRUE), must, s.gap)
  BY FailedFits
<1>5. direction = "bidirectional" => Fits(Selected(device, w, s, fb), must, s.gap)
  BY <1>2, SelectedIs DEF Fits
<1>6. direction # "bidirectional" /\ Ineligible(direction, boosted, w, s) = Fine
        => Fits(Adaptive(direction, boosted, device, w, s, fb), must, s.gap)
  <2>1. ASSUME direction # "bidirectional", Ineligible(direction, boosted, w, s) = Fine
        PROVE  Fits(Adaptive(direction, boosted, device, w, s, fb), must, s.gap)
    <3>1. boosted \in BOOLEAN /\ direction \in {"heating", "cooling", "ranged"}
      BY <1>1, <2>1
    <3>2. boosted => w.roots.neutral \in Int
      <4>1. ASSUME boosted PROVE w.roots.neutral \in Int
        <5>1. boosted = TRUE /\ direction \in {"heating", "cooling"}
          BY <4>1
        <5> HIDE DEF boosted, direction
        <5> QED BY <2>1, <5>1, EligibleRoots
      <4> QED BY <4>1
    <3> HIDE DEF boosted, direction
    <3> QED BY <3>1, <3>2, AdaptiveFits
  <2> QED BY <2>1
<1> HIDE DEF must
<1>7. \/ \E condition, gated, solved : r = Fixed(direction, device, w, s, condition, gated, solved)
      \/ \E reason : r = Failed(reason, reason, TRUE)
      \/ direction = "bidirectional" /\ r = Selected(device, w, s, fb)
      \/ /\ direction # "bidirectional" /\ Ineligible(direction, boosted, w, s) = Fine
         /\ r = Adaptive(direction, boosted, device, w, s, fb)
  <2> HIDE DEF boosted, direction
  <2>1. Zone(device, w, s, fb) =
          LET Held(reason) == IF fb.elapsed THEN Fixed(direction, device, w, s, reason, TRUE, TRUE)
                              ELSE Failed(reason, reason, TRUE)
              lost == Ineligible(direction, boosted, w, s)
          IN CASE "mean" \in w.faults -> Fixed(direction, device, w, s, "mean", FALSE, FALSE)
               [] "speed" \in w.faults -> Fixed(direction, device, w, s, "speed_invalid", TRUE, FALSE)
               [] "diagnostic" \in w.faults /\ direction # "bidirectional" ->
                    Fixed(direction, device, w, s, "diagnostic", FALSE, TRUE)
               [] lost # Fine -> Held(lost)
               [] direction = "bidirectional" -> Selected(device, w, s, fb)
               [] s.reject /\ "extrapolated" \in w.faults -> Held("extrapolated")
               [] OTHER -> Adaptive(direction, boosted, device, w, s, fb)
    BY DEF Zone, boosted, direction
  <2> QED BY <2>1
<1> HIDE DEF r, direction, boosted
<1>8. Fits(r, must, s.gap)
  BY <1>3, <1>4, <1>5, <1>6, <1>7, Zenon
<1> QED BY <1>8 DEF r, must, direction

-----------------------------------------------------------------------------
(* All targets of a zone.                                                    *)

LEMMA PlantDevices ==
  ASSUME plant \in Plants
  PROVE  /\ 1 \in DOMAIN plant
         /\ \A i \in DOMAIN plant : DeviceOK(plant[i])
<1>1. plant \in Seq(Devices) /\ plant # <<>> /\ DOMAIN plant = 1 .. Len(plant) /\ Len(plant) \in Nat
  BY PlantIs, ZoneAssumption
<1>2. \A d \in Devices : DeviceOK(d)
  BY DEF Devices, DeviceOK
<1>3. \A i \in DOMAIN plant : plant[i] \in Devices
  BY <1>1
<1>4. Len(plant) # 0
  BY <1>1
<1> QED BY <1>1, <1>2, <1>3, <1>4

\* What the runtime keeps for manual heating.
KeptOK ==
  /\ \A i \in DOMAIN plant : IsReference(known[i]) /\ setpoint[i] \in Int

LEMMA ManualIs ==
  ASSUME plant \in Plants, KeptOK, NEW i \in DOMAIN plant, NEW w, NEW s, SetOK(s), NEW fb
  PROVE  /\ IsResult(ManualTarget(i, w, s, fb))
         /\ Capability(plant[i]) = NoTarget => ManualTarget(i, w, s, fb).policy = NoTarget
<1> DEFINE device == plant[i]
           reference == known[i]
           kept == IF s.profile = "eco" THEN reference.unoccupied ELSE reference.occupied
           return == Lesser(IF kept = NoRoot THEN s.min ELSE kept, setpoint[i] - s.calibration)
           unboosted == [s EXCEPT !.boost = "off"]
           goal == NormalizeScalar(reference.neutral + s.delta, "heating", device, s, s.rounding)
           aim == IF reference.neutral = NoRoot \/ s.boost = "off" THEN NoRoot ELSE RoomOf(goal)
           policy == ManualPolicy(i, w, s, fb)
           target == Executable(policy, "heating", device, s, NoRoot)
           o == Outcome(policy, target, Fine, FALSE)
           boost == IF Withdraws(s, fb) THEN "off" ELSE s.boost
           r == ManualTarget(i, w, s, fb)
<1>1. DeviceOK(device)
  BY PlantDevices
<1>2. IsReference(reference) /\ setpoint[i] \in Int
  BY DEF KeptOK
<1>3. return \in Root
  <2>1. (IF kept = NoRoot THEN s.min ELSE kept) \in Int
    BY <1>2, SetIs, RootIs DEF IsReference
  <2>2. setpoint[i] - s.calibration \in Int
    BY <1>2, SetIs
  <2> HIDE DEF kept
  <2> QED BY <2>1, <2>2 DEF Lesser, Root
<1>4. SetOK(unboosted)
  BY DEF SetOK, Numbers
<1>5. aim \in Root
  <2>1. CASE reference.neutral = NoRoot
    BY <2>1 DEF Root
  <2>2. CASE reference.neutral # NoRoot
    <3>1. reference.neutral + s.delta \in Int
      BY <1>2, <2>2, SetIs, RootIs DEF IsReference
    <3>2. goal = NoTarget \/ IsScalar(goal)
      BY <1>1, <3>1, NormalizeScalarIs
    <3> HIDE DEF goal
    <3>3. RoomOf(goal) \in Root
      BY <3>2 DEF RoomOf, IsScalar, Root
    <3> QED BY <3>3 DEF Root
  <2> QED BY <2>1, <2>2
<1>6. IsPolicy(policy)
  <2>1. \/ policy = ManualHeating(return, NoRoot, unboosted, NoRoot, w.room, FALSE)
        \/ policy = ManualHeating(reference.occupied, reference.neutral, s, aim, w.room, fb.reached)
    BY Zenon DEF ManualPolicy
  <2> HIDE DEF return, unboosted, aim, policy
  <2>2. NoRoot \in Root /\ reference.occupied \in Root /\ reference.neutral \in Root
    BY <1>2 DEF IsReference, Root
  <2>3. IsPolicy(ManualHeating(return, NoRoot, unboosted, NoRoot, w.room, FALSE))
    BY <1>3, <1>4, <2>2, ManualHeatingIs
  <2>4. IsPolicy(ManualHeating(reference.occupied, reference.neutral, s, aim, w.room, fb.reached))
    BY <1>5, <2>2, ManualHeatingIs
  <2> QED BY <2>1, <2>3, <2>4
<1> HIDE DEF policy
<1>7. IsTarget(target)
  BY <1>1, <1>6, ExecutableIs
<1>8. \/ r = Failed("no_manual_target", Fine, FALSE)
      \/ r = [o EXCEPT !.kind = "manual", !.boost = boost] /\ Capability(plant[i]) # NoTarget
  BY Zenon DEF ManualTarget, ManualOf, ManualOutcome, policy
<1> HIDE DEF target
<1>9. IsResult(o)
  BY <1>6, <1>7, OutcomeResult
<1> HIDE DEF o, boost, r
<1>10. IsResult([o EXCEPT !.kind = "manual", !.boost = boost])
  BY <1>9, Zenon DEF IsResult
<1>11. /\ IsResult(Failed("no_manual_target", Fine, FALSE))
       /\ Failed("no_manual_target", Fine, FALSE).policy = NoTarget
  BY FailedResult
<1>12. IsResult(r) /\ (Capability(plant[i]) = NoTarget => r.policy = NoTarget)
  BY <1>8, <1>10, <1>11, Zenon
<1> QED BY <1>12 DEF r

\* Manual heating is possible with devices that heat only.
LEMMA ManualFits ==
  ASSUME plant \in Plants, KeptOK, NEW i \in DOMAIN plant, NEW w, NEW s, SetOK(s), NEW fb, NEW must,
         ManualPossible(s, fb), must => Direction(plant[i]) = "ranged"
  PROVE  Fits(ManualTarget(i, w, s, fb), must, s.gap)
<1>1. Capability(plant[i]) \in {"heating", NoTarget}
  BY DEF ManualPossible
<1>2. Capability(plant[i]) # NoTarget => Direction(plant[i]) = "heating"
  BY <1>1, DirectionIs
<1> QED BY <1>1, <1>2, ManualIs DEF Fits

\* Every target of a calculation fits.
AllFit(results, must, gap) ==
  /\ DOMAIN results = DOMAIN plant
  /\ \A i \in DOMAIN plant : Fits(results[i], must /\ Direction(plant[i]) = "ranged", gap)

LEMMA FitsKept ==
  ASSUME NEW r, NEW must, NEW gap, Fits(r, must, gap), NEW x
  PROVE  Fits([r EXCEPT !.reason = x], must, gap) /\ Fits([r EXCEPT !.solved = x], must, gap)
BY ResultChanged DEF Fits

LEMMA CompletedFits ==
  ASSUME plant \in Plants, KeptOK, NEW zones, NEW w, NEW s, SetOK(s), NEW fb, NEW must,
         AllFit(zones, must, s.gap)
  PROVE  /\ AllFit(CompletedZones(zones, w, s, fb).targets, must, s.gap)
         /\ IsPolicy(CompletedZones(zones, w, s, fb).first)
<1> DEFINE fromCache == FromCache(Rootless(zones, w), s, fb)
           f == [i \in DOMAIN plant |->
                   Replacement(zones[i], ManualTarget(i, w, s, fb), i, fromCache)]
           results == SubSeq(f, 1, Len(plant))
           need(i) == must /\ Direction(plant[i]) = "ranged"
<1>1. /\ CompletedZones(zones, w, s, fb).targets = Coordinate(results, DOMAIN plant, s)
      /\ CompletedZones(zones, w, s, fb).first = results[1].policy
  BY DEF CompletedZones, Completed, Combined, Each
<1>2. \A i \in DOMAIN plant : Fits(f[i], need(i), s.gap)
  <2>1. ASSUME NEW i \in DOMAIN plant PROVE Fits(f[i], need(i), s.gap)
    <3> DEFINE zone == zones[i]
               cached == ManualTarget(i, w, s, fb)
    <3>1. Fits(zone, need(i), s.gap)
      BY DEF AllFit
    <3>2. fromCache => Fits(cached, need(i), s.gap)
      BY ManualFits DEF FromCache
    <3>3. f[i] = Replacement(zone, cached, i, fromCache)
      OBVIOUS
    <3> HIDE DEF zone, cached, fromCache, f, need
    <3>4. \/ f[i] = [cached EXCEPT !.solved = zone.solved] /\ fromCache
          \/ f[i] = [zone EXCEPT !.reason = "incapable"]
          \/ f[i] = zone
      BY <3>3 DEF Replacement
    <3>5. fromCache => Fits([cached EXCEPT !.solved = zone.solved], need(i), s.gap)
      BY <3>2, FitsKept
    <3>6. Fits([zone EXCEPT !.reason = "incapable"], need(i), s.gap)
      BY <3>1, FitsKept
    <3> QED BY <3>1, <3>4, <3>5, <3>6, Zenon
  <2> QED BY <2>1
<1>3. DOMAIN f = DOMAIN plant
  OBVIOUS
<1> HIDE DEF f, need
<1>4. \A i \in DOMAIN plant : Fits(results[i], need(i), s.gap)
  BY <1>2, <1>3, EachIs
<1> HIDE DEF results
<1>5. ASSUME NEW i \in DOMAIN plant
      PROVE  Fits(Coordinate(results, DOMAIN plant, s)[i], need(i), s.gap)
  <2>1. /\ Fits(results[i], need(i), s.gap)
        /\ Fits([results[i] EXCEPT !.reason = "uncoordinated"], need(i), s.gap)
    BY <1>4, FitsKept
  <2>2. \/ Coordinate(results, DOMAIN plant, s)[i] = results[i]
        \/ Coordinate(results, DOMAIN plant, s)[i] = [results[i] EXCEPT !.reason = "uncoordinated"]
    BY CoordinateIs
  <2> QED BY <2>1, <2>2, Zenon
<1>6. DOMAIN Coordinate(results, DOMAIN plant, s) = DOMAIN plant
  BY CoordinateIs
<1>7. AllFit(CompletedZones(zones, w, s, fb).targets, must, s.gap)
  <2> DEFINE targets == Coordinate(results, DOMAIN plant, s)
  <2>1. /\ DOMAIN targets = DOMAIN plant
        /\ \A i \in DOMAIN plant : Fits(targets[i], must /\ Direction(plant[i]) = "ranged", s.gap)
    BY <1>5, <1>6, Zenon DEF need
  <2> HIDE DEF targets
  <2>2. AllFit(targets, must, s.gap)
    BY <2>1 DEF AllFit
  <2> QED BY <1>1, <2>2, Zenon DEF targets
<1>8. IsPolicy(results[1].policy)
  BY <1>4, PlantDevices DEF Fits, IsResult
<1> QED BY <1>1, <1>7, <1>8

\* What keeps a calculation from closing a range.
Need(s, fb) == Wide(s) /\ (fb.explicit \/ Ordered(fb.previous, s.gap))

LEMMA EffectiveIs ==
  ASSUME NEW s, SetOK(s)
  PROVE  /\ SetOK(EffectiveBoost(s)) /\ EffectiveBoost(s).gap = s.gap
         /\ Wide(EffectiveBoost(s)) <=> Wide(s)
<1> DEFINE t == [s EXCEPT !.boost = "adaptive"]
<1>1. EffectiveBoost(s) = s \/ EffectiveBoost(s) = t
  BY Zenon DEF EffectiveBoost
<1>2. SetOK(t)
  BY DEF SetOK, Numbers
<1>3. t.gap = s.gap /\ t.max = s.max /\ t.min = s.min
  BY DEF SetOK, Numbers
<1>4. t.intensity = s.intensity
  BY DEF SetOK
<1> HIDE DEF t
<1>5. Wide(t) <=> Wide(s)
  BY <1>3, <1>4 DEF Wide
<1> QED BY <1>1, <1>2, <1>3, <1>5

LEMMA CalculationFits ==
  ASSUME plant \in Plants, KeptOK, NEW w, WorldOK(w), NEW s, SetOK(s), NEW fb, FeedbackOK(fb)
  PROVE  /\ AllFit(Calculation(w, s, fb).targets, Need(s, fb), s.gap)
         /\ IsPolicy(Calculation(w, s, fb).first)
<1> DEFINE c == Calculation(w, s, fb)
           must == Need(s, fb)
<1>1. CASE Mandatory(w, fb) = Fine
  <2> DEFINE e == EffectiveBoost(s)
             f == [i \in DOMAIN plant |-> Zone(plant[i], w, e, fb)]
             zones == SubSeq(f, 1, Len(plant))
  <2>1. SetOK(e) /\ e.gap = s.gap /\ (Wide(e) <=> Wide(s))
    BY EffectiveIs
  <2>2. c = CompletedZones(zones, w, s, fb)
    BY <1>1, Zenon DEF Calculation, Calculated, Each
  <2> HIDE DEF e
  <2>3. \A i \in DOMAIN plant : Fits(Zone(plant[i], w, e, fb), must /\ Direction(plant[i]) = "ranged", s.gap)
    <3>1. ASSUME NEW i \in DOMAIN plant
          PROVE  Fits(Zone(plant[i], w, e, fb), must /\ Direction(plant[i]) = "ranged", s.gap)
      <4>1. Fits(Zone(plant[i], w, e, fb), Must(Direction(plant[i]), e, fb), e.gap)
        BY <2>1, ZoneFits, PlantDevices
      <4>2. must /\ Direction(plant[i]) = "ranged" => Must(Direction(plant[i]), e, fb)
        BY <2>1 DEF Need, Must
      <4> QED BY <2>1, <4>1, <4>2 DEF Fits
    <3> QED BY <3>1
  <2>4. DOMAIN f = DOMAIN plant /\ \A i \in DOMAIN plant : f[i] = Zone(plant[i], w, e, fb)
    OBVIOUS
  <2> HIDE DEF f, must
  <2>5. AllFit(zones, must, s.gap)
    BY <2>3, <2>4, EachIs DEF AllFit
  <2> HIDE DEF zones, c
  <2>6. AllFit(c.targets, must, s.gap) /\ IsPolicy(c.first)
    BY <2>2, <2>5, CompletedFits
  <2> QED BY <2>6 DEF c, must
<1>2. CASE Mandatory(w, fb) # Fine
  <2> DEFINE manual == [i \in DOMAIN plant |-> ManualTarget(i, w, s, fb)]
             none == [i \in DOMAIN plant |-> Failed(Mandatory(w, fb), Fine, FALSE)]
             targets == SubSeq(manual, 1, Len(plant))
             blank == SubSeq(none, 1, Len(plant))
  <2>1. \/ ManualPossible(s, fb) /\ c = ManualZone(targets)
        \/ c.targets = blank /\ c.first = NoTarget
    BY <1>2 DEF Calculation, Each
  <2>2. /\ DOMAIN manual = DOMAIN plant /\ DOMAIN none = DOMAIN plant
        /\ \A i \in DOMAIN plant : /\ manual[i] = ManualTarget(i, w, s, fb)
                                   /\ none[i] = Failed(Mandatory(w, fb), Fine, FALSE)
    OBVIOUS
  <2> HIDE DEF manual, none, c, must
  <2> DEFINE need(i) == must /\ Direction(plant[i]) = "ranged"
  <2>8. /\ DOMAIN targets = DOMAIN plant /\ DOMAIN blank = DOMAIN plant
        /\ \A i \in DOMAIN plant : targets[i] = manual[i] /\ blank[i] = none[i]
    BY <2>2, EachIs
  <2>9. \A i \in DOMAIN plant : ManualPossible(s, fb) => Fits(ManualTarget(i, w, s, fb), need(i), s.gap)
    BY ManualFits
  <2>10. \A i \in DOMAIN plant : Fits(Failed(Mandatory(w, fb), Fine, FALSE), need(i), s.gap)
    BY FailedFits
  <2> HIDE DEF targets, blank, need
  <2>3. ManualPossible(s, fb) => AllFit(targets, must, s.gap)
    <3>1. ManualPossible(s, fb) => \A i \in DOMAIN plant : Fits(targets[i], need(i), s.gap)
      BY <2>2, <2>8, <2>9
    <3> QED BY <2>8, <3>1 DEF AllFit, need
  <2>4. AllFit(blank, must, s.gap)
    <3>1. \A i \in DOMAIN plant : Fits(blank[i], need(i), s.gap)
      BY <2>2, <2>8, <2>10
    <3> QED BY <2>8, <3>1 DEF AllFit, need
  <2>5. AllFit(targets, must, s.gap) => IsPolicy(ManualZone(targets).first)
    <3> SUFFICES ASSUME AllFit(targets, must, s.gap) PROVE IsPolicy(ManualZone(targets).first)
      OBVIOUS
    <3> HIDE DEF targets
    <3> DEFINE made == {i \in DOMAIN plant : targets[i].kind = "manual"}
               first == CHOOSE i \in made : \A j \in made : i <= j
    <3>1. ManualZone(targets).first = (IF made = {} THEN NoTarget ELSE targets[first].policy)
      BY DEF ManualZone
    <3>2. made \in SUBSET Nat
      BY PlantIs
    <3>3. made # {} => \E n \in made : \A m \in made : n <= m
      BY <3>2, LeastNumber
    <3>4. made # {} => first \in made
      <4> HIDE DEF made
      <4> QED BY <3>3
    <3>5. made # {} => IsPolicy(targets[first].policy)
      <4> HIDE DEF first
      <4> QED BY <3>4 DEF AllFit, Fits, IsResult
    <3> HIDE DEF made, first
    <3> QED BY <3>1, <3>5 DEF IsPolicy
  <2>6. ManualZone(targets).targets = targets
    BY DEF ManualZone
  <2> HIDE DEF targets, blank
  <2>7. AllFit(c.targets, must, s.gap) /\ IsPolicy(c.first)
    BY <2>1, <2>3, <2>4, <2>5, <2>6 DEF IsPolicy
  <2> QED BY <2>7 DEF c, must
<1> QED BY <1>1, <1>2

LEMMA ScalarIs ==
  ASSUME NEW r, IsResult(r), r.target # NoTarget
  PROVE  IF Scalar(r) THEN IsScalar(r.target) ELSE IsRange(r.target)
BY DEF IsResult, IsTarget, IsScalar, IsRange, Scalar

LEMMA IdleIs ==
  ASSUME plant \in Plants, NEW i \in DOMAIN plant, NEW r, IsResult(r), r.target # NoTarget,
         NEW w, w.room \in Int, NEW s, SetOK(s)
  PROVE  IsTarget(IdleTarget(i, r, w, s))
<1> DEFINE level == Lesser(w.room, HeatingPart(r).room)
           idle == NormalizeScalar(level, "heating", plant[i], s, "floor")
           range == [r.target EXCEPT !.heating = idle]
<1>1. HeatingPart(r).room \in Int
  BY ScalarIs DEF HeatingPart, IsScalar, IsRange
<1>2. level \in Int
  BY <1>1 DEF Lesser
<1> HIDE DEF level
<1>3. idle = NoTarget \/ IsScalar(idle)
  BY <1>2, NormalizeScalarIs, PlantDevices
<1>4. IdleTarget(i, r, w, s) = (IF idle = NoTarget THEN NoTarget ELSE IF Scalar(r) THEN idle ELSE range)
  BY DEF IdleTarget, level
<1> HIDE DEF idle
<1>5. ~Scalar(r) /\ idle # NoTarget => IsRange(range)
  <2>1. ASSUME ~Scalar(r), idle # NoTarget PROVE IsRange(range)
    <3>1. IsRange(r.target) /\ IsScalar(idle)
      BY <1>3, <2>1, ScalarIs
    <3> QED BY <3>1, Zenon DEF IsRange
  <2> QED BY <2>1
<1> HIDE DEF range
<1> QED BY <1>3, <1>4, <1>5 DEF IsTarget

LEMMA BufferFits ==
  ASSUME plant \in Plants, NEW i \in DOMAIN plant, NEW r, NEW c, NEW w, w.room \in Int,
         NEW s, SetOK(s), NEW must, NEW gap, Fits(r, must, gap)
  PROVE  Fits(Buffer(i, r, c, w, s).result, must, gap)
<1> DEFINE idle == IdleTarget(i, r, w, s)
<1>1. \/ Buffer(i, r, c, w, s).result = r
      \/ Buffer(i, r, c, w, s).result = [r EXCEPT !.reason = "no_idle_target"]
      \/ r.target # NoTarget /\ Buffer(i, r, c, w, s).result = [r EXCEPT !.target = idle]
  <2> HIDE DEF idle
  <2>1. Idle(i, r, idle).result = [r EXCEPT !.reason = "no_idle_target"]
          \/ Idle(i, r, idle).result = [r EXCEPT !.target = idle]
    BY DEF Idle
  <2> USE DEF idle
  <2> QED BY <2>1, Zenon DEF Buffer, Buffered
<1>2. Fits([r EXCEPT !.reason = "no_idle_target"], must, gap)
  BY FitsKept
<1>3. r.target # NoTarget => IsTarget(idle)
  BY IdleIs DEF Fits
<1> HIDE DEF idle
<1>4. r.target # NoTarget => Fits([r EXCEPT !.target = idle], must, gap)
  BY <1>3, ResultRetargeted DEF Fits
<1> QED BY <1>1, <1>2, <1>4, Zenon

-----------------------------------------------------------------------------
(* What a range requests.                                                    *)

RangeInv == SetOK(set) /\ KeptOK /\ Ends(previous)

LEMMA WorldIs == ASSUME world \in Worlds PROVE WorldOK(world) /\ world.room \in Int
<1>1. world \in Sources /\ IsFiniteSet(world.demands)
  BY ZoneAssumption
<1>2. world.room \in Int /\ {"roots", "demands"} \subseteq DOMAIN world
  BY <1>1 DEF Sources
<1>3. RootsOK(world.roots)
  BY <1>1 DEF Sources, RootsOK, RootNames
<1>4. world.demands \in SUBSET [eligible : BOOLEAN, mode : STRING, heating : Root, cooling : Root]
  BY <1>1 DEF Sources
<1>5. \A d \in world.demands : d["heating"] \in Root /\ d["cooling"] \in Root
  BY <1>4
<1>6. DemandsOK(world.demands)
  BY <1>1, <1>5 DEF DemandsOK
<1> QED BY <1>2, <1>3, <1>6 DEF WorldOK

LEMMA FeedbackIs ==
  ASSUME ZoneTypesInv, RangeInv
  PROVE  /\ FeedbackOK(Feedback)
         /\ Feedback.explicit = explicit /\ Feedback.previous = previous
<1>1. Allowance \in Int
  <2>1. \A a, b \in Nat : a * b \in Int
    OBVIOUS
  <2> QED BY <2>1, ZoneConstants DEF Allowance, ZoneTypesInv, PreviousInv
<1>2. Ends(previous)
  BY DEF RangeInv
<1> HIDE DEF Allowance
<1> QED BY <1>1, <1>2 DEF Feedback, FeedbackOK

LEMMA CurrentFits ==
  ASSUME ZoneTypesInv, RangeInv
  PROVE  /\ AllFit(Current.targets, Need(set, Feedback), set.gap)
         /\ IsPolicy(Current.first)
<1>1. plant \in Plants /\ world \in Worlds
  BY DEF ZoneTypesInv, ZoneTypeOK
<1> QED BY <1>1, WorldIs, FeedbackIs, CalculationFits DEF Current, RangeInv

LEMMA DecisionsFit ==
  ASSUME ZoneTypesInv, RangeInv
  PROVE  \A i \in DOMAIN plant :
           Fits(Decisions[i].result, Need(set, Feedback) /\ Direction(plant[i]) = "ranged", set.gap)
<1>1. plant \in Plants /\ world \in Worlds
  BY DEF ZoneTypesInv, ZoneTypeOK
<1> DEFINE need(i) == Need(set, Feedback) /\ Direction(plant[i]) = "ranged"
<1>2. ASSUME NEW i \in DOMAIN plant PROVE Fits(Decisions[i].result, need(i), set.gap)
  <2>1. Fits(Current.targets[i], need(i), set.gap)
    BY CurrentFits DEF AllFit
  <2>2. Decisions[i] = Buffer(i, Current.targets[i], Current, world, set)
    BY <1>1, DecisionsAre
  <2>3. world.room \in Int /\ SetOK(set)
    BY <1>1, WorldIs DEF RangeInv
  <2> HIDE DEF need
  <2> QED BY <1>1, <2>1, <2>2, <2>3, BufferFits
<1> QED BY <1>2

LEMMA RangeInitially == ZoneInit => RangeInv
<1> SUFFICES ASSUME ZoneInit PROVE RangeInv
  OBVIOUS
<1>1. PICK o \in Configurations, c \in UserChoices :
        set = [f \in DOMAIN o \cup DOMAIN c |-> IF f \in DOMAIN c THEN c[f] ELSE o[f]]
  BY Zenon DEF ZoneInit
<1>2. o \in Options /\ o.gap % 2 = 0 /\ c \in Selections
  BY ZoneAssumption
<1>3. /\ DOMAIN o = {"min", "max", "calibration", "rounding", "gap", "setback", "intensity", "delta",
                     "approach", "noWrite", "fallbackLow", "fallbackHigh", "buffer", "start", "stop",
                     "reject", "assist"}
      /\ DOMAIN c = {"profile", "occupied", "boost", "preheat"}
  BY <1>2 DEF Options, Selections
<1>4. \A f \in Numbers \union {"gap", "setback"} : set[f] = o[f]
  BY <1>1, <1>3 DEF Numbers
<1>5. Numbers \union {"gap", "setback", "profile", "intensity", "boost", "rounding"} \subseteq DOMAIN set
  BY <1>1, <1>3 DEF Numbers
<1>6. (\A f \in Numbers : o[f] \in Int) /\ o["gap"] \in Nat /\ o["setback"] \in Nat
  BY <1>2 DEF Options, Numbers
<1>7. SetOK(set)
  BY <1>2, <1>4, <1>5, <1>6 DEF SetOK
<1>8. Ends(previous)
  BY DEF ZoneInit, Ends, Root
<1>9. KeptOK
  <2>1. set.min \in Int
    BY <1>7, SetIs
  <2>2. known = [i \in DOMAIN plant |-> NoReference] /\ setpoint = [i \in DOMAIN plant |-> set.min]
    BY Zenon DEF ZoneInit
  <2> QED BY <2>1, <2>2, NoReferenceIs DEF KeptOK
<1> QED BY <1>7, <1>8, <1>9 DEF RangeInv

LEMMA RangeSetpoints ==
  ASSUME ZoneTypesInv, RangeInv, Calculate
  PROVE  \A i \in DOMAIN plant : setpoint'[i] \in Int
<1>1. plant \in Plants /\ DOMAIN setpoint = DOMAIN plant
  BY DEF ZoneTypesInv, ZoneTypeOK
<1>2. PICK owned \in SUBSET DOMAIN plant : Apply(Current, Decisions, owned)
  BY CalculateIs
<1> DEFINE f == [i \in DOMAIN plant |-> Decisions[i].result]
           decided == SubSeq(f, 1, Len(plant))
           results == Coordinate(decided, owned, set)
<1>3. ApplyResults(Current, Decisions, results, owned)
  BY <1>2, Zenon DEF Apply, Each
<1>4. DOMAIN f = DOMAIN plant /\ \A i \in DOMAIN plant : f[i] = Decisions[i].result
  OBVIOUS
<1> HIDE DEF f
<1>5. \A i \in DOMAIN plant : IsResult(decided[i])
  BY <1>1, <1>4, EachIs, DecisionsFit DEF Fits
<1> HIDE DEF decided
<1>6. \A i \in DOMAIN plant : IsResult(results[i])
  <2>1. ASSUME NEW i \in DOMAIN plant PROVE IsResult(results[i])
    <3>1. IsResult(decided[i]) /\ IsResult([decided[i] EXCEPT !.reason = "uncoordinated"])
      BY <1>5, ResultChanged
    <3>2. results[i] = decided[i] \/ results[i] = [decided[i] EXCEPT !.reason = "uncoordinated"]
      BY <1>1, CoordinateIs
    <3> HIDE DEF results
    <3> QED BY <3>1, <3>2, Zenon
  <2> QED BY <2>1
<1> HIDE DEF results
<1>7. \/ setpoint' = setpoint
      \/ \E written \in SUBSET {i \in DOMAIN plant : Scalar(results[i])} :
           setpoint' = [i \in DOMAIN plant |-> IF i \in written THEN results[i].target.actuator ELSE setpoint[i]]
  <2>1. \/ setpoint' = setpoint
        \/ \E written :
             /\ \A i \in written : i \in DOMAIN plant /\ Scalar(results[i])
             /\ setpoint' = [i \in DOMAIN plant |-> IF i \in written THEN results[i].target.actuator ELSE setpoint[i]]
    BY <1>3, Zenon DEF ApplyResults
  <2> QED BY <2>1
<1>8. \A i \in DOMAIN plant : Scalar(results[i]) => results[i].target.actuator \in Int
  BY <1>6, ScalarIs DEF Scalar, IsScalar
<1>9. \A i \in DOMAIN plant : setpoint[i] \in Int
  BY DEF RangeInv, KeptOK
<1> QED BY <1>7, <1>8, <1>9

LEMMA RangeCalculates ==
  ASSUME ZoneTypesInv, RangeInv, Calculate
  PROVE  RangeInv'
<1>1. UNCHANGED <<plant, set>> /\ Publish(Current, Decisions)
  BY CalculateIs
<1>2. Ends(previous')
  <2>1. \/ previous' = previous
        \/ /\ Current.first # NoTarget
           /\ previous' = [heating |-> Current.first.heating, cooling |-> Current.first.cooling, age |-> 0]
    BY <1>1 DEF Publish
  <2> QED BY <2>1, CurrentFits DEF IsPolicy, Ends, RangeInv
<1>3. \A i \in DOMAIN plant : IsReference(known'[i])
  <2>1. known' = known \/ known' = [i \in DOMAIN plant |-> Current.targets[i].reference]
    BY <1>1 DEF Publish
  <2>2. \A i \in DOMAIN plant : IsReference(known[i]) /\ IsReference(Current.targets[i].reference)
    BY CurrentFits DEF RangeInv, KeptOK, AllFit, Fits, IsResult
  <2> QED BY <2>1, <2>2
<1>4. SetOK(set')
  BY <1>1 DEF RangeInv
<1> QED BY <1>1, <1>2, <1>3, <1>4, RangeSetpoints DEF RangeInv, KeptOK

LEMMA RangeSteps == ZoneTypesInv /\ RangeInv /\ [ZoneNext]_zoneVars => RangeInv'
<1> SUFFICES ASSUME ZoneTypesInv, RangeInv, [ZoneNext]_zoneVars PROVE RangeInv'
  OBVIOUS
<1>1. CASE Calculate
  BY <1>1, RangeCalculates
<1>2. CASE HoldElapses
  BY <1>2 DEF HoldElapses, RangeInv, KeptOK
<1>3. CASE Tick
  <2>1. previous' = [previous EXCEPT !.age = @ + 1] /\ UNCHANGED <<plant, set, known, setpoint>>
    BY <1>3 DEF Tick
  <2>2. Ends(previous')
    BY <2>1 DEF RangeInv, Ends, ZoneTypesInv, PreviousInv
  <2> QED BY <2>1, <2>2 DEF RangeInv, KeptOK
<1>4. CASE WorldChanges
  BY <1>4 DEF WorldChanges, Disturb, RangeInv, KeptOK
<1>5. CASE ChoiceChanges
  <2>1. UNCHANGED <<plant, previous, known, setpoint>>
    BY <1>5 DEF ChoiceChanges, Disturb
  <2>2. PICK c \in UserChoices :
          set' = [f \in DOMAIN set |-> IF f \in DOMAIN c THEN c[f] ELSE set[f]]
    BY <1>5 DEF ChoiceChanges
  <2>3. DOMAIN c = {"profile", "occupied", "boost", "preheat"}
    BY ZoneAssumption DEF Selections
  <2>4. DOMAIN set' = DOMAIN set /\ \A f \in Numbers \union {"gap", "setback"} : set'[f] = set[f]
    BY <2>2, <2>3 DEF Numbers, RangeInv, SetOK
  <2>5. SetOK(set')
    BY <2>4 DEF RangeInv, SetOK
  <2> QED BY <2>1, <2>5 DEF RangeInv, KeptOK
<1>6. CASE DeviceChanges
  <2>1. UNCHANGED <<set, previous, known, setpoint>>
    BY <1>6 DEF DeviceChanges, Disturb
  <2>2. DOMAIN plant' = DOMAIN plant
    <3>1. \E p \in Plants : Len(p) = Len(plant) /\ plant' = p
      BY <1>6 DEF DeviceChanges
    <3> QED BY <3>1, ZoneAssumption DEF ZoneTypesInv, ZoneTypeOK
  <2> QED BY <2>1, <2>2 DEF RangeInv, KeptOK
<1>7. CASE UNCHANGED zoneVars
  BY <1>7 DEF zoneVars, RangeInv, KeptOK
<1> QED BY <1>1, <1>2, <1>3, <1>4, <1>5, <1>6, <1>7 DEF ZoneNext

\* Whatever locations, profile and Boost add to a range, and however its ends are slewed
\* from an ordered range, what is requested keeps the gap between heating and cooling, as
\* long as a deep setback has the room to.
THEOREM RangesAreOrdered == ZoneSpec => RangesOrdered
<1> DEFINE Kept ==
      out' # out /\ (explicit \/ Ordered(previous, set.gap))
      /\ (set.intensity = "deep" => set.max - set.min >= set.gap + 2 * MaxInfluence)
      => \A i \in DOMAIN out' :
           out'[i].policy # NoTarget /\ Direction(plant[i]) = "ranged"
             => Ordered(out'[i].policy, set.gap)
<1>1. ZoneTypesInv /\ RangeInv /\ [ZoneNext]_zoneVars => [Kept]_zoneVars
  <2> SUFFICES ASSUME ZoneTypesInv, RangeInv, [ZoneNext]_zoneVars PROVE out' = out \/ Kept
    OBVIOUS
  <2>1. CASE Calculate
    <3>1. out' = [i \in DOMAIN plant |-> Decisions[i].result]
      BY <2>1, CalculateIs DEF Publish
    <3>2. (explicit \/ Ordered(previous, set.gap)) /\ Wide(set) => Need(set, Feedback)
      BY FeedbackIs DEF Need
    <3>3. Need(set, Feedback) => \A i \in DOMAIN plant : Direction(plant[i]) = "ranged"
            => Decisions[i].result.policy = NoTarget \/ Ordered(Decisions[i].result.policy, set.gap)
      BY DecisionsFit DEF Fits
    <3>4. DOMAIN out' = DOMAIN plant /\ \A i \in DOMAIN plant : out'[i] = Decisions[i].result
      BY <3>1
    <3>5. Wide(set) <=> (set.intensity = "deep" => set.max - set.min >= set.gap + 2 * MaxInfluence)
      BY DEF Wide
    <3> QED BY <3>2, <3>3, <3>4, <3>5
  <2>2. CASE HoldElapses \/ Tick \/ WorldChanges \/ ChoiceChanges \/ DeviceChanges
    BY <2>2 DEF HoldElapses, Tick, WorldChanges, ChoiceChanges, DeviceChanges, Disturb
  <2>3. CASE UNCHANGED zoneVars
    BY <2>3 DEF zoneVars
  <2> QED BY <2>1, <2>2, <2>3 DEF ZoneNext
<1>2. ZoneSpec => [][Kept]_zoneVars
  <2> HIDE DEF Kept
  <2> QED BY <1>1, ZoneTypesInitially, ZoneTypesSteps, SettledInitially, SettledSteps,
             RangeInitially, RangeSteps, PTL DEF ZoneSpec
<1> QED BY <1>2 DEF RangesOrdered

=============================================================================
