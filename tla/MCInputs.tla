------------------------------- MODULE MCInputs -------------------------------
(* SourceValidation, SourceFreshness, StaleSafety, CriticalLocations,           *)
(* OutdoorHistory and ZoneTargets for TLC, side by side: the initial state      *)
(* chooses the part that moves, the others stand still.                         *)
EXTENDS SourceValidation, SourceFreshness, StaleSafety, CriticalLocations, OutdoorHistory,
        ZoneTargets

VARIABLE part

inputVars == <<part, sourceVars, freshVars, safetyVars, critVars, histVars, zoneVars>>

InputsInit ==
  /\ part \in {"source", "freshness", "safety", "location", "history", "targets"}
  /\ SourceInit /\ FreshInit /\ SafetyInit /\ CritInit /\ HistInit /\ ZoneInit
  /\ part # "freshness" => rh /\ activity = 0
  /\ part # "safety" => demanding = {}
  /\ part # "location" => mode = "both" /\ delta = 1
  /\ part # "targets" =>
       /\ plant = CHOOSE p \in Plants : TRUE
       /\ world = CHOOSE w \in Worlds : TRUE
       /\ set.profile = "comfort" /\ set.boost = "off"

InputsNext ==
  /\ UNCHANGED part
  /\ \/ /\ part = "source" /\ SourceNext
        /\ UNCHANGED <<freshVars, safetyVars, critVars, histVars, zoneVars>>
     \/ /\ part = "freshness" /\ FreshNext
        /\ UNCHANGED <<sourceVars, safetyVars, critVars, histVars, zoneVars>>
     \/ /\ part = "safety" /\ SafetyNext
        /\ UNCHANGED <<sourceVars, freshVars, critVars, histVars, zoneVars>>
     \/ /\ part = "location" /\ CritNext
        /\ UNCHANGED <<sourceVars, freshVars, safetyVars, histVars, zoneVars>>
     \/ /\ part = "history" /\ HistNext
        /\ UNCHANGED <<sourceVars, freshVars, safetyVars, critVars, zoneVars>>
     \/ /\ part = "targets" /\ ZoneNext
        /\ UNCHANGED <<sourceVars, freshVars, safetyVars, critVars, histVars>>

InputsSpec == InputsInit /\ [][InputsNext]_inputVars

\* The type invariants of all parts: what validation, freshness, the cooling safety,
\* locations, history and the calculation keep is what the code can put there.
InputsTypeOK ==
  SourceTypeOK /\ FreshTypeOK /\ SafetyTypeOK /\ CritTypeOK /\ HistTypeOK /\ ZoneTypeOK

-----------------------------------------------------------------------------
MCReading == {20, 21, 25}
MCRawDelta == {-3, 1, 2}

\* Devices, options and worlds of ZoneTargets, in quarters of a degree.
Device(hvac, ranged, min, step) ==
  [observable |-> TRUE, mode |-> hvac,
   modes |-> IF hvac = "auto" THEN {"auto", "heat", "cool", "off"} ELSE {hvac, "off"}, scalar |-> ~ranged,
   ranged |-> ranged, min |-> min, max |-> 112, step |-> step]
MCPlants == {<<Device("heat", FALSE, 40, 4)>>, <<Device("heat_cool", TRUE, 64, 2)>>,
             <<Device("auto", FALSE, 64, 2)>>,
             <<Device("heat", FALSE, 40, 2), Device("cool", FALSE, 64, 4)>>}
MCConfigurations ==
  {[min |-> 72, max |-> 104, calibration |-> 1, rounding |-> "floor", gap |-> 4, setback |-> 8,
    intensity |-> i, delta |-> 6, approach |-> 2, noWrite |-> FALSE, fallbackLow |-> 72,
    fallbackHigh |-> 104, buffer |-> TRUE, start |-> 2, stop |-> 1, reject |-> TRUE,
    assist |-> FALSE] : i \in {"custom"}}
MCChoices ==
  {[profile |-> "comfort", occupied |-> TRUE, boost |-> "off", preheat |-> FALSE],
   [profile |-> "eco", occupied |-> FALSE, boost |-> "off", preheat |-> TRUE],
   [profile |-> "comfort", occupied |-> TRUE, boost |-> "rapid", preheat |-> FALSE]}
Plain == [lower |-> 80, heating |-> 84, neutral |-> 88, cooling |-> 94, upper |-> 98]
World(room, roots, faults) ==
  [room |-> room, outdoor |-> 60, roots |-> roots, demands |-> {}, dew |-> 60, faults |-> faults]
MCWorlds ==
  {World(83, Plain, {}),
   [World(87, Plain, {}) EXCEPT !.demands =
      {[eligible |-> TRUE, mode |-> "both", heating |-> 91, cooling |-> 90]}],
   World(78, [Plain EXCEPT !.heating = NoRoot, !.lower = NoRoot], {}),
   World(83, Plain, {"humidity"}),
   World(83, Plain, {"speed"}),
   World(83, Plain, {"primary", "stale"}),
   [World(96, Plain, {"extrapolated"}) EXCEPT !.outdoor = 100]}
=============================================================================
