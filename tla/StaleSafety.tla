------------------------------- MODULE StaleSafety -------------------------------
(* The cooling safety of a zone whose room sensor has fallen silent              *)
(* (_schedule_stale_safety, _async_apply_stale_safety): an hour after the last    *)
(* report, each cooling target that still demands is sent its fallback once.  A   *)
(* task goes through the targets and awaits the broker at each, while reports,    *)
(* publications, answers of the devices and the next timer come in between.       *)
EXTENDS Naturals

CONSTANTS
  Coolers,                  \* number of targets that cool, in the order of the configuration
  FreshSpan, SafetyDelay,   \* primary freshness, STALE_SAFETY_DELAY
  NoTimer,
  MaxMoment, MaxRoomReports, MaxRuns, MaxSwitches  \* bounds: time, reports, tasks at once, switches

ASSUME SafetyAssumption ==
  /\ {Coolers, MaxMoment, MaxRoomReports, MaxRuns, MaxSwitches} \subseteq Nat
  /\ FreshSpan \in Nat /\ SafetyDelay \in Nat /\ FreshSpan < SafetyDelay
  /\ NoTimer \notin Nat

VARIABLES
  moment,
  heard,      \* time of the newest report of the room sensor
  reports,    \* number of reports, which is what the input generation counts
  capture,    \* what the newest snapshot saw: "fresh", "stale", or "none" if published
  control,    \* control_enabled
  armed,      \* due time of the stale_safety timer, or NoTimer
  applied,    \* stale_safety_applied
  run,        \* the tasks of _async_apply_stale_safety
  demanding,  \* targets whose setpoint is below the last room temperature
  unanswered, \* targets with a command that was sent and not answered
  answered,   \* history: targets sent their fallback in this silence, unless that failed
  switches

safetyVars == <<moment, heard, reports, capture, control, armed, applied, run, demanding,
                unanswered, answered, switches>>

Cooler == 1 .. Coolers
Rest == [at |-> "none", target |-> 0, generation |-> 0, overtaken |-> FALSE]
Silent == moment >= heard + SafetyDelay
Aged == moment > heard + FreshSpan
Later(a, b) == IF a < b THEN b ELSE a

SafetyInit ==
  /\ moment = 0 /\ heard = 0 /\ reports = 0 /\ capture = "none" /\ control = TRUE
  /\ armed = NoTimer /\ applied = {} /\ run = [k \in 1 .. MaxRuns |-> Rest]
  /\ demanding \in SUBSET Cooler /\ unanswered = {} /\ answered = {} /\ switches = 0

-----------------------------------------------------------------------------
(* Reports and publications *)

\* A report makes the intents void that were made before it; `overtaken` marks the
\* tasks that took their reference before it.
RoomReports ==
  /\ reports < MaxRoomReports /\ reports' = reports + 1 /\ heard' = moment
  /\ run' = [k \in DOMAIN run |-> [run[k] EXCEPT !.overtaken = run[k].at \in {"submitting", "sent"}]]
  /\ answered' = {}
  /\ UNCHANGED <<moment, capture, control, armed, applied, demanding, unanswered, switches>>

\* A snapshot is taken, after a report, a timer of its freshness, or any other event.
Captured ==
  /\ capture' = IF Aged THEN "stale" ELSE "fresh"
  /\ UNCHANGED <<moment, heard, reports, control, armed, applied, run, demanding, unanswered,
                 answered, switches>>

\* _schedule_stale_safety of its result.  A fresh one forgets what was applied once a
\* target could be computed; a stale one sets the timer again, which replaces the old one.
Scheduled(stale, complete) ==
  IF ~control THEN armed' = NoTimer /\ applied' = {}
  ELSE IF ~stale
  THEN armed' = NoTimer /\ applied' = IF complete THEN {} ELSE applied
  ELSE /\ armed' = IF Cooler \subseteq applied THEN armed ELSE Later(moment, heard + SafetyDelay)
       /\ UNCHANGED applied

\* Only a fresh result may command a target to cool.
Published ==
  /\ capture # "none" /\ capture' = "none"
  /\ \E complete \in BOOLEAN :
       /\ Scheduled(capture = "stale", complete)
       /\ IF capture = "fresh" /\ complete /\ control
          THEN \E more \in SUBSET (Cooler \ unanswered) : demanding' = demanding \union more
          ELSE UNCHANGED demanding
  /\ UNCHANGED <<moment, heard, reports, control, run, unanswered, answered, switches>>

\* async_set_control_enabled asks for a snapshot, whose publication does the rest.
SwitchControl ==
  /\ switches < MaxSwitches /\ switches' = switches + 1 /\ control' = ~control
  /\ UNCHANGED <<moment, heard, reports, capture, armed, applied, run, demanding, unanswered,
                 answered>>

-----------------------------------------------------------------------------
(* The task *)

\* The timer fires and creates a task.
SafetyFires ==
  /\ armed # NoTimer /\ armed <= moment /\ armed' = NoTimer
  /\ \E k \in DOMAIN run :
       run[k].at = "none" /\ run' = [run EXCEPT ![k].at = "created"]
  /\ UNCHANGED <<moment, heard, reports, capture, control, applied, demanding, unanswered,
                 answered, switches>>

\* The loop from the target `first` on: those done or without a demand are passed over,
\* the next one is submitted under the generation of this moment.
Needed(first) == {t \in first .. Coolers : t \notin applied' /\ t \in demanding'}
Visits(k, first) ==
  run' = [run EXCEPT ![k] =
    IF Needed(first) = {} THEN Rest
    ELSE [at |-> "submitting", generation |-> reports, overtaken |-> run[k].overtaken,
          target |-> CHOOSE t \in Needed(first) : \A u \in Needed(first) : t <= u]]

\* The task that takes the word of the timer for the silence, with a bug.
SafetyBeginsUnchecked(k) ==
  /\ run[k].at = "created" /\ UNCHANGED <<applied, demanding>>
  /\ IF control THEN Visits(k, 1) ELSE run' = [run EXCEPT ![k] = Rest]
  /\ UNCHANGED <<moment, heard, reports, capture, control, armed, unanswered, answered, switches>>

\* Its start: the reference is read again.
SafetyBegins(k) ==
  /\ run[k].at = "created" /\ UNCHANGED <<applied, demanding>>
  /\ IF control /\ Silent THEN Visits(k, 1) ELSE run' = [run EXCEPT ![k] = Rest]
  /\ UNCHANGED <<moment, heard, reports, capture, control, armed, unanswered, answered, switches>>

\* The broker has journalled the command and calls the service: its preflight has found
\* the generation of the intent, no other command pending, and another setpoint.
SafetySent(k) ==
  LET t == run[k].target
  IN /\ run[k].at = "submitting" /\ run[k].generation = reports /\ control
     /\ t \notin unanswered /\ t \in demanding
     /\ run' = [run EXCEPT ![k].at = "sent"]
     /\ unanswered' = unanswered \union {t}
     /\ answered' = IF run[k].overtaken THEN answered ELSE answered \union {t}
     /\ UNCHANGED <<moment, heard, reports, capture, control, armed, applied, demanding, switches>>

\* async_submit returns: after a call; with `command_pending`, `command_interval` or
\* `target_unchanged`, which count as applied; or refused.
SafetyReturns(k) ==
  LET t == run[k].target
  IN /\ \/ run[k].at = "sent" /\ applied' = applied \union {t}
        \/ /\ run[k].at = "submitting" /\ run[k].generation = reports /\ control
           /\ applied' = applied \union {t}
        \/ run[k].at = "submitting" /\ UNCHANGED applied
     /\ UNCHANGED demanding
     /\ Visits(k, t + 1)
     /\ UNCHANGED <<moment, heard, reports, capture, control, armed, unanswered, answered, switches>>

\* The device confirms, or it rejects or stays silent until the timeout, which permits
\* another command.
Confirmed(t) ==
  /\ t \in unanswered /\ unanswered' = unanswered \ {t} /\ demanding' = demanding \ {t}
  /\ UNCHANGED <<moment, heard, reports, capture, control, armed, applied, run, answered, switches>>
Unconfirmed(t) ==
  /\ t \in unanswered /\ unanswered' = unanswered \ {t}
  /\ applied' = applied \ {t} /\ answered' = answered \ {t}
  /\ UNCHANGED <<moment, heard, reports, capture, control, armed, run, demanding, switches>>

\* The unit of time is long to a calculation or a call of a service, which end first, as
\* do the timers that are due.  A device may take longer to answer.
MomentPasses ==
  /\ moment < MaxMoment /\ moment' = moment + 1
  /\ (armed # NoTimer => armed > moment)
  /\ capture = "none" /\ \A k \in DOMAIN run : run[k].at = "none"
  /\ UNCHANGED <<heard, reports, capture, control, armed, applied, run, demanding, unanswered,
                 answered, switches>>

SafetyNext ==
  \/ RoomReports \/ Captured \/ Published \/ SwitchControl \/ SafetyFires \/ MomentPasses
  \/ \E k \in DOMAIN run : SafetyBegins(k) \/ SafetySent(k) \/ SafetyReturns(k)
  \/ \E t \in Cooler : Confirmed(t) \/ Unconfirmed(t)

SafetySpec == SafetyInit /\ [][SafetyNext]_safetyVars

-----------------------------------------------------------------------------
(* Properties *)

SafetyTypeOK ==
  /\ moment \in Nat /\ heard \in 0 .. moment /\ reports \in Nat
  /\ capture \in {"none", "fresh", "stale"} /\ control \in BOOLEAN
  /\ armed \in Nat \union {NoTimer} /\ applied \subseteq Cooler
  /\ run \in [1 .. MaxRuns -> [at : {"none", "created", "submitting", "sent"}, target : 0 .. Coolers,
                               generation : Nat, overtaken : BOOLEAN]]
  /\ demanding \subseteq Cooler /\ unanswered \subseteq Cooler /\ answered \subseteq Cooler
  /\ switches \in Nat

\* A task that no report has overtaken sends a fallback only an hour after the last
\* report, and to no target to which this silence has sent it before, unless that failed:
\* however timers, overlapping tasks, publications and answers of the devices interleave
\* (SI-27: a one-time fallback after one hour of stale primary temperature).
SafetyOnlyInSilence ==
  [][\A k \in DOMAIN run :
       run[k].at = "submitting" /\ run'[k].at = "sent" /\ ~run[k].overtaken
         => Silent /\ run[k].target \notin answered]_safetyVars
=============================================================================
