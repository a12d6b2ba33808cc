------------------------------- MODULE TimedModes -------------------------------
(* Boost, Preheat, occupancy and the explicit transitions of a zone: what the   *)
(* user selects (async_set_boost_mode, async_set_preheat_active,                *)
(* async_set_strategy, async_set_eco_intensity), what the expiry timers do,     *)
(* what a calculation captures and what its publication consumes, and what the  *)
(* config entry and the control store bring back after a reload or a crash.     *)
EXTENDS Naturals, Sequences

CONSTANTS
  NoTime,                  \* no expiry
  BoostSpan, PreheatSpan,  \* boost_duration_minutes, preheat_duration_minutes
  OccupancyHold,           \* OCCUPANCY_UNKNOWN_HOLD
  MaxMinutes, MaxChoices, MaxStops, MaxSaves  \* bounds: time, user steps, restarts, queue

ASSUME ModesAssumption ==
  /\ NoTime \notin Nat
  /\ {BoostSpan, PreheatSpan} \subseteq Nat \ {0}
  /\ {OccupancyHold, MaxMinutes, MaxChoices, MaxStops, MaxSaves} \subseteq Nat

VARIABLES
  when,
  mode,        \* boost_mode of the running zone and of its entry's options
  reached,     \* rapid_boost_reached
  boostUntil, preheatUntil,   \* the expiries in `values`, each with its timer
  occupancy,   \* state of the occupancy entity
  profile,     \* profile_resolution: the profile and when it was resolved, or NoTime
  explicit,    \* explicit_transition
  snapshot,    \* the newest request of the controller, or NoTime
  output,      \* phase of the last published result
  saves,       \* runtime states that wait for the control store
  held,        \* runtime state that the control store has in memory
  store,       \* ... and on disk: what a restart would bring back
  disk,        \* boost_mode in the entry's options on disk
  choices, stops,
  \* history
  granted,     \* latest end of a Boost or of a Preheat that the user was given
  approached,  \* the selected Boost has published its approach
  lost         \* ... and a save of it has failed, or a crash has come before it

clockVars == <<when, choices, stops>>
modeVars == <<mode, reached, boostUntil, preheatUntil>>
recordVars == <<saves, held, store, disk>>
historyVars == <<granted, approached, lost>>
modesVars == <<clockVars, modeVars, occupancy, profile, explicit, snapshot, output, recordVars,
               historyVars>>

BoostModes == {"off", "adaptive", "rapid"}
Until(e) == e # NoTime /\ when < e
MaxTime(a, b) == IF a < b THEN b ELSE a

-----------------------------------------------------------------------------
(* What a calculation sees *)

\* resolve_profile: an unknown occupancy keeps the last resolution for a while,
\* with the time at which it was made.
Resolved(preheating) ==
  LET known == IF preheating THEN "on" ELSE occupancy
  IN IF known = "off" THEN [of |-> "eco", at |-> when]
     ELSE IF known = "unknown" /\ profile # NoTime /\ when <= profile.at + OccupancyHold
          THEN profile
     ELSE [of |-> "comfort", at |-> when]

ProfileMoves(new) == profile # NoTime /\ profile.of # new.of

\* What Boost asks of a room that is, or is not, within the approach band.
Phase(boost, latched, near) ==
  IF boost # "rapid" THEN boost ELSE IF latched \/ near THEN "approach" ELSE "rapid"

\* async_request_snapshot, with the values that the caller has just written and
\* the transition it has marked; a changed profile is a transition of its own.
Captures(marked, preheating) ==
  LET new == Resolved(preheating)
      transition == marked \/ ProfileMoves(new)
  IN /\ profile' = new
     /\ explicit' = (explicit \/ transition)
     /\ \E near \in BOOLEAN :
          snapshot' = [phase |-> Phase(mode', reached', near)]

\* _schedule_runtime_persistence: the values of now, in the order of the lock.
RuntimeState(r, b, p) == [reached |-> r, boost |-> b, preheat |-> p]
Persist == saves' = Append(saves, RuntimeState(reached', boostUntil', preheatUntil'))

-----------------------------------------------------------------------------
(* The user and the timers *)

Choose == choices < MaxChoices /\ choices' = choices + 1 /\ Len(saves) < MaxSaves

\* async_set_boost_mode: selecting the active Boost again renews it.
SelectBoost(m) ==
  /\ Choose /\ (m = "off" => mode # "off")
  /\ mode' = m /\ reached' = FALSE
  /\ boostUntil' = IF m = "off" THEN NoTime ELSE when + BoostSpan
  /\ granted' = IF m = "off" THEN granted ELSE [granted EXCEPT !.boost = MaxTime(@, when + BoostSpan)]
  /\ approached' = FALSE /\ lost' = FALSE /\ UNCHANGED preheatUntil
  /\ Captures(TRUE, Until(preheatUntil)) /\ Persist
  /\ UNCHANGED <<when, stops, occupancy, output, held, store, disk>>

\* The timer of the Boost: the same, at its expiry.
BoostExpires ==
  /\ boostUntil = when /\ mode' = "off" /\ reached' = FALSE /\ boostUntil' = NoTime
  /\ approached' = FALSE /\ lost' = FALSE /\ UNCHANGED preheatUntil
  /\ Captures(TRUE, Until(preheatUntil)) /\ Persist
  /\ UNCHANGED <<clockVars, occupancy, output, held, store, disk, granted>>

\* async_set_preheat_active(True): it renews the interval, and is no transition
\* unless the profile changes.
StartPreheat ==
  /\ Choose /\ preheatUntil' = when + PreheatSpan
  /\ granted' = [granted EXCEPT !.preheat = MaxTime(@, when + PreheatSpan)]
  /\ UNCHANGED <<mode, reached, boostUntil>>
  /\ Captures(FALSE, TRUE) /\ Persist
  /\ UNCHANGED <<when, stops, occupancy, output, held, store, disk, approached, lost>>

\* async_set_preheat_active(False), by the user or by the timer.
PreheatStopped ==
  /\ preheatUntil # NoTime /\ preheatUntil' = NoTime
  /\ UNCHANGED <<mode, reached, boostUntil>>
  /\ Captures(FALSE, FALSE) /\ Persist
  /\ UNCHANGED <<when, stops, occupancy, output, held, store, disk, historyVars>>

StopPreheat == Choose /\ PreheatStopped
PreheatExpires == preheatUntil = when /\ PreheatStopped /\ UNCHANGED choices

\* Strategy, setback, the switch of the control, Resume, the end of an override:
\* one explicit transition and a new snapshot.
OtherTransition ==
  /\ Choose /\ UNCHANGED modeVars
  /\ Captures(TRUE, Until(preheatUntil)) /\ Persist
  /\ UNCHANGED <<when, stops, occupancy, output, held, store, disk, historyVars>>

\* An event of the occupancy entity, or of any other source.
SourceEvent ==
  /\ Choose
  /\ \E o \in {"on", "off", "unknown"} : occupancy' = o
  /\ UNCHANGED modeVars
  /\ UNCHANGED <<when, stops, profile, explicit, snapshot, output, recordVars, historyVars>>

\* ... and the snapshot that its debounce asks for.
Debounced ==
  /\ UNCHANGED modeVars /\ Captures(FALSE, Until(preheatUntil))
  /\ UNCHANGED <<clockVars, occupancy, output, recordVars, historyVars>>

-----------------------------------------------------------------------------
(* Results *)

\* _publish_calculation that saves the latch and forgets to set it, with a bug.
PublishUnlatched ==
  /\ snapshot # NoTime /\ snapshot' = NoTime
  /\ output' = snapshot.phase
  /\ IF mode = "rapid" /\ snapshot.phase = "approach" /\ ~reached
     THEN saves' = Append(saves, RuntimeState(TRUE, boostUntil, preheatUntil))
     ELSE UNCHANGED saves
  /\ approached' = (approached \/ snapshot.phase = "approach")
  /\ explicit' = FALSE
  /\ UNCHANGED <<clockVars, modeVars, occupancy, profile, held, store, disk, granted, lost>>

\* _publish_calculation of the newest request.  A result that the inputs hold
\* back leaves the transition to a later one.
Publish ==
  /\ snapshot # NoTime /\ snapshot' = NoTime
  /\ output' = snapshot.phase
  /\ LET latch == mode = "rapid" /\ snapshot.phase = "approach" /\ ~reached
     IN /\ reached' = (reached \/ latch)
        /\ IF latch THEN saves' = Append(saves, RuntimeState(TRUE, boostUntil, preheatUntil))
           ELSE UNCHANGED saves
  /\ approached' = (approached \/ snapshot.phase = "approach")
  /\ explicit' = FALSE
  /\ UNCHANGED <<clockVars, mode, boostUntil, preheatUntil, occupancy, profile, held, store,
                 disk, granted, lost>>

\* A held result without numbers: recovery of the inputs will be a transition.
PublishHeld ==
  /\ snapshot # NoTime /\ snapshot' = NoTime /\ output' = "held"
  /\ explicit' = TRUE
  /\ UNCHANGED <<clockVars, modeVars, occupancy, profile, recordVars, historyVars>>

-----------------------------------------------------------------------------
(* Persistence, time and restarts *)

SaveRuntime ==
  /\ saves # << >> /\ saves' = Tail(saves) /\ held' = Head(saves) /\ store' = Head(saves)
  /\ UNCHANGED <<clockVars, modeVars, occupancy, profile, explicit, snapshot, output, disk,
                 historyVars>>

\* The write is not verified: the file may have what it had, the memory has the new
\* state, which the next write of any field of the store takes along.
SaveFails ==
  /\ saves # << >> /\ saves' = Tail(saves) /\ lost' = (lost \/ approached)
  /\ held' = Head(saves) /\ store' \in {store, Head(saves)}
  /\ UNCHANGED <<clockVars, modeVars, occupancy, profile, explicit, snapshot, output, disk,
                 granted, approached>>

OtherSave ==
  /\ store # held /\ store' = held
  /\ UNCHANGED <<clockVars, modeVars, occupancy, profile, explicit, snapshot, output, saves, held,
                 disk, historyVars>>

\* Home Assistant writes the options of the entry some time after the update.
OptionsWritten ==
  /\ disk # mode /\ disk' = mode
  /\ UNCHANGED <<clockVars, modeVars, occupancy, profile, explicit, snapshot, output, saves, held,
                 store, historyVars>>

\* async_start that grants the whole interval again, with a bug.
RestoredAnew(boost) ==
  LET goesOn == boost # "off" /\ store.boost # NoTime
  IN /\ mode' = IF goesOn THEN boost ELSE "off"
     /\ boostUntil' = IF goesOn THEN when + BoostSpan ELSE NoTime
     /\ reached' = (goesOn /\ store.reached)
     /\ preheatUntil' = IF Until(store.preheat) THEN store.preheat ELSE NoTime
     /\ profile' = NoTime /\ snapshot' = NoTime /\ saves' = << >> /\ held' = store
     /\ explicit' = TRUE
     /\ approached' = (approached /\ goesOn)
     /\ UNCHANGED <<when, choices, occupancy, output, store, granted>>

\* async_start: a Boost goes on for what is left of it, with its latch.
Restored(boost) ==
  LET goesOn == boost # "off" /\ Until(store.boost)
  IN /\ mode' = IF goesOn THEN boost ELSE "off"
     /\ boostUntil' = IF goesOn THEN store.boost ELSE NoTime
     /\ reached' = (goesOn /\ store.reached)
     /\ preheatUntil' = IF Until(store.preheat) THEN store.preheat ELSE NoTime
     /\ profile' = NoTime /\ snapshot' = NoTime /\ saves' = << >> /\ held' = store
     /\ explicit' = TRUE
     /\ approached' = (approached /\ goesOn)
     /\ UNCHANGED <<when, choices, occupancy, output, store, granted>>

Stop == stops < MaxStops /\ stops' = stops + 1

\* async_unload waits for the saves; the options stay in memory.
ReloadZone == Stop /\ saves = << >> /\ Restored(mode) /\ UNCHANGED <<disk, lost>>

CrashZone ==
  /\ Stop /\ Restored(disk) /\ UNCHANGED disk
  /\ lost' = (lost \/ (approached /\ (saves # << >> \/ disk # mode)))

\* No timer is overdue: the event loop serves them when they are due.
MinutePasses ==
  /\ when < MaxMinutes /\ when' = when + 1
  /\ when \notin {boostUntil, preheatUntil}
  /\ UNCHANGED <<choices, stops, modeVars, occupancy, profile, explicit, snapshot, output,
                 recordVars, historyVars>>

ModesInit ==
  /\ when = 0 /\ choices = 0 /\ stops = 0
  /\ mode = "off" /\ reached = FALSE /\ boostUntil = NoTime /\ preheatUntil = NoTime
  /\ occupancy \in {"on", "off", "unknown"} /\ profile = NoTime
  /\ explicit = TRUE /\ snapshot = NoTime /\ output = "off"
  /\ saves = << >> /\ store = RuntimeState(FALSE, NoTime, NoTime) /\ held = store
  /\ disk = "off"
  /\ granted = [boost |-> 0, preheat |-> 0] /\ approached = FALSE /\ lost = FALSE

ModesNext ==
  \/ \E m \in BoostModes : SelectBoost(m)
  \/ BoostExpires \/ StartPreheat \/ StopPreheat \/ PreheatExpires \/ OtherTransition
  \/ SourceEvent \/ Debounced \/ Publish \/ PublishHeld
  \/ SaveRuntime \/ SaveFails \/ OtherSave \/ OptionsWritten \/ ReloadZone \/ CrashZone
  \/ MinutePasses

ModesSpec == ModesInit /\ [][ModesNext]_modesVars

-----------------------------------------------------------------------------
(* Properties *)

ModesTypeOK ==
  /\ when \in Nat /\ mode \in BoostModes /\ disk \in BoostModes
  /\ {reached, explicit, approached, lost} \subseteq BOOLEAN
  /\ {boostUntil, preheatUntil} \subseteq Nat \cup {NoTime}
  /\ output \in BoostModes \cup {"approach", "held"}

\* Boost and Preheat last until an end that a selection of the user gave them:
\* they are never without an end, and no restart, crash or failed save of the
\* store gives them more (docs/configuration-reference.md: the timer never gains
\* extra time).
BoundedModes ==
  /\ mode # "off" => (boostUntil # NoTime /\ when <= boostUntil)
  /\ boostUntil # NoTime => boostUntil <= granted.boost
  /\ preheatUntil # NoTime => (when <= preheatUntil /\ preheatUntil <= granted.preheat)

\* Rapid Boost that has come into its approach band asks for the maximum no more
\* until the next selection: neither a calculation that was captured earlier, nor
\* a renewed room shortfall, nor a restart, unless the save of the latch was lost.
RapidOnce == (approached /\ ~lost) => output # "rapid"
=============================================================================
