------------------------------ MODULE HeatGuard ------------------------------
(***************************************************************************)
(* The heat-demand feedback guard of one heating target: the automaton of  *)
(* core/stale_heating.py as runtime.py uses it, on calculations with a     *)
(* fresh, a stale or an invalid primary temperature, with the guard that   *)
(* the control store keeps and what a restart makes of it.                 *)
(*                                                                         *)
(* A calculation advances the guard at once; a task of its own saves the   *)
(* guard if it has changed and submits the setpoint to the broker.  Tasks  *)
(* get the store in the order of their calculations and the broker in the  *)
(* order of their submits; a task with nothing to save passes those that   *)
(* are saving.  A command that the broker sends has been journalled before *)
(* and a journal write saves the whole store, the guard in memory included *)
(* (CommandBroker is where that is checked).                               *)
(*                                                                         *)
(* Time passes in minutes, and only while no task is on its way: store and *)
(* broker are assumed to be done with one within a minute.  The room stays *)
(* at Room; a calculation asks for one of Heats, and that is demand when   *)
(* it is Margin above the room.  Temperatures are multiplied by Scale,     *)
(* which keeps the ramp exact.  The rounding to the actuator grid is left  *)
(* out: it is monotone and the present setpoint lies on the grid.          *)
(***************************************************************************)
EXTENDS Integers, Sequences

CONSTANTS
  Heats, Room, Margin, Fallback,           \* temperatures, degrees
  Fresh,                                   \* primary_max_age: an older report is stale
  Active, Trial, RampMax, PerDegree,       \* timeouts of the guard, minutes per degree
  MaxClock, MaxCrashes, MaxTasks,          \* bounds: time, crashes, tasks at a time,
  LastReport                               \* and the sensor is silent after LastReport

ASSUME GuardAssumption ==
  /\ Heats \subseteq Nat /\ Room \in Nat /\ Margin \in Nat \ {0} /\ Fallback \in Nat
  /\ {Fresh, Active, Trial, RampMax, PerDegree} \subseteq Nat \ {0}
  /\ MaxClock \in Nat \ {0} /\ {MaxCrashes, MaxTasks, LastReport} \subseteq Nat

VARIABLES
  up,         \* whether the zone runs
  now,
  guard,      \* heat_guards[identity]
  mem, disk,  \* heat_guards_json in memory and on disk
  lastValid,  \* last_valid_at on disk
  report,     \* primary_feedback_at
  primary,    \* what the validation makes of the primary
  saving,     \* tasks of _async_apply_calculation that save the guard, and
  sending,    \* those that the broker has: the commands they are to send
  target,     \* the heating setpoint of the climate, scaled
  settled,    \* that setpoint when no task was last on its way (history)
  cold,       \* withdrawn, and no report accepted since (history): a command of a
              \* withdrawing guard has been dealt with and none was on its way
  since,      \* time of the first command of this demand, no report since (history)
  trial,      \* start of the last stale trial, no report since (history)
  crashes

zone == <<guard, mem, report, primary>>
tasks == <<saving, sending, settled>>
vars == <<up, now, zone, disk, lastValid, tasks, target, cold, since, trial, crashes>>

-----------------------------------------------------------------------------
Phases == {"idle", "monitoring", "stale_start", "ramp", "exhausted"}
NoTime == 0
Time == 0 .. MaxClock
Scale == PerDegree * RampMax

\* ramp_start_c is scaled here.
Guard == [phase : Phases, started : Time, report : Time, ramp : Time, start : Nat,
          evidence : Time]
NewGuard == [phase |-> "idle", started |-> NoTime, report |-> NoTime, ramp |-> NoTime,
             start |-> 0, evidence |-> NoTime]
NoGuard == [phase |-> "none"]     \* a store without heat_guards_json
Withdrawing(g) == g.phase \in {"ramp", "exhausted"}

Min2(a, b) == IF a <= b THEN a ELSE b
Max2(a, b) == IF a >= b THEN a ELSE b

\* advance_heat_guard: a report newer than the evidence starts over, ...
Renewed(g, demand) ==
  IF report # NoTime /\ g.evidence # NoTime /\ report > g.evidence
    THEN [NewGuard EXCEPT !.phase = IF demand THEN "monitoring" ELSE "idle",
                          !.started = IF demand THEN now ELSE NoTime,
                          !.report = report, !.evidence = report]
    ELSE g

\* ... without demand nothing runs, but a withdrawal is not forgotten, ...
RestedForgetful(g) ==   \* with a bug
  [g EXCEPT !.phase = "idle", !.started = NoTime,
            !.evidence = IF @ = NoTime THEN report ELSE @]
Rested(g) ==
  [g EXCEPT !.phase = IF Withdrawing(g) THEN "exhausted" ELSE "idle",
            !.started = NoTime,
            !.evidence = IF @ = NoTime THEN report ELSE @]

\* ... with demand an idle guard starts, and a guard past its deadline withdraws.
Begun(g, stale) ==
  IF g.phase = "idle"
    THEN [g EXCEPT !.phase = IF stale THEN "stale_start" ELSE "monitoring",
                   !.started = now, !.report = report, !.evidence = report]
    ELSE g

Deadline(g) ==
  IF g.phase = "stale_start" /\ g.started # NoTime THEN g.started + Trial
  ELSE Active + (IF g.started = NoTime /\ g.report = NoTime THEN now
                 ELSE Max2(g.started, g.report))

\* The ramp begins at the deadline, however late the calculation is.
RampBeginNow(g) == now   \* with a bug
RampBegin(g) == Deadline(g)

DemandedEarly(g, ask) ==   \* with a bug
  IF Withdrawing(g) THEN g
  ELSE [g EXCEPT !.phase = "ramp", !.ramp = RampBegin(g), !.start = ask]
Demanded(g, ask) ==
  CASE g.phase = "ramp" /\ (g.ramp = NoTime \/ now >= g.ramp + RampMax) ->
         [g EXCEPT !.phase = "exhausted"]
    [] ~Withdrawing(g) /\ now >= Deadline(g) ->
         [g EXCEPT !.phase = "ramp", !.ramp = RampBegin(g), !.start = ask]
    [] OTHER -> g

Advance(g, stale, demand, ask) ==
  LET renewed == Renewed(g, demand)
  IN  IF demand THEN Demanded(Begun(renewed, stale), ask) ELSE Rested(renewed)

\* ramp_heating_target, scaled; a guard that does not withdraw sets no limit.
RampTarget(g) ==
  LET fallback == Scale * Fallback
      start == Max2(fallback, g.start)
      elapsed == Max2(0, now - g.ramp)
      fall == Max2(RampMax * Scale, (start - fallback) * PerDegree) * elapsed
  IN  IF g.phase = "exhausted" \/ g.ramp = NoTime THEN fallback
      ELSE Max2(fallback, start - fall \div Scale)

Demands(scaled) == scaled >= (Room + Margin) * Scale

-----------------------------------------------------------------------------
\* A command on its way: its setpoint, the guard it was calculated with,
\* whether with demand for heat, and whether no report came since (history).
Command == [want : Nat, guard : Guard, demand : BOOLEAN, current : BOOLEAN]
Overtaken(commands) == [i \in DOMAIN commands |-> [commands[i] EXCEPT !.current = FALSE]]

Init ==
  /\ up = FALSE /\ now = 1
  /\ guard = NewGuard /\ mem = NoGuard /\ disk = NoGuard
  /\ lastValid = NoTime /\ report = NoTime /\ primary = "lost"
  /\ saving = <<>> /\ sending = <<>>
  /\ target \in {Scale * h : h \in Heats} /\ settled = target
  /\ cold = FALSE /\ since = NoTime /\ trial = NoTime /\ crashes = 0

\* Without a task on its way the setpoint has settled.
Settles == settled' = IF saving' = <<>> /\ sending' = <<>> THEN target' ELSE settled

CanApply == up /\ report # NoTime /\ Len(saving) + Len(sending) < MaxTasks

\* The new guard, and the task of the calculation; a changed guard is saved.
HandedUnsaved(g, want, demand) ==   \* with a bug
  /\ guard' = g /\ mem' = mem /\ saving' = saving
  /\ sending' = Append(sending, [want |-> want, guard |-> g, demand |-> demand,
                                 current |-> TRUE])
Handed(g, want, demand) ==
  LET command == [want |-> want, guard |-> g, demand |-> demand, current |-> TRUE]
  IN  /\ guard' = g
      /\ \/ g # guard /\ mem' = g /\ saving' = Append(saving, command) /\ sending' = sending
         \/ g = guard /\ mem' = mem /\ saving' = saving /\ sending' = Append(sending, command)

\* _guard_heating_target, on a primary temperature that is fresh or stale
Calculate ==
  \E heat \in Heats, stale \in BOOLEAN :
    LET ask == Scale * heat
        g == Advance(guard, stale, Demands(ask), ask)
    IN  /\ CanApply /\ primary = "valid"
        /\ stale => now - report >= Fresh
        /\ Handed(g, IF Withdrawing(g) THEN Min2(Min2(ask, RampTarget(g)), target) ELSE ask,
                  Demands(ask))
        /\ since' = IF Demands(ask) THEN since ELSE NoTime
        /\ UNCHANGED <<up, now, report, primary, disk, lastValid, settled, target, cold, trial,
                     crashes>>

\* _async_guard_invalid_primary, on an unavailable or malformed one
InvalidBegins ==
  LET g == [guard EXCEPT !.phase = "ramp", !.ramp = now, !.start = target]
  IN  /\ CanApply /\ primary # "valid"
      /\ ~Withdrawing(guard) /\ Demands(target)
      /\ Handed(g, Min2(target, RampTarget(g)), FALSE)
      /\ since' = NoTime
      /\ UNCHANGED <<up, now, report, primary, disk, lastValid, settled, target, cold, trial,
                     crashes>>

\* Here the end of the ramp is not saved.
InvalidContinues ==
  LET g == IF guard.ramp # NoTime /\ now >= guard.ramp + RampMax
             THEN [guard EXCEPT !.phase = "exhausted"] ELSE guard
  IN  /\ CanApply /\ primary # "valid" /\ Withdrawing(guard)
      /\ guard' = g
      /\ sending' = Append(sending, [want |-> Min2(target, RampTarget(g)), guard |-> g,
                                     demand |-> FALSE, current |-> TRUE])
      /\ UNCHANGED <<up, now, mem, report, primary, disk, lastValid, saving, settled, target,
                     cold, since, trial, crashes>>

\* async_update_heat_guards: an unverified write may have reached the disk, and
\* the task then ends.
SaveDone ==
  /\ saving # <<>> /\ saving' = Tail(saving)
  /\ \/ disk' = mem /\ sending' = Append(sending, Head(saving))
     \/ disk' \in {disk, mem} /\ UNCHANGED sending
  /\ UNCHANGED <<up, now, zone, lastValid, target, cold, since, trial, crashes>> /\ Settles

\* The broker sends the command, after it has journalled it with all the rest,
\* or does not: it waits, the setpoint is that already, a write has failed, ...
Send ==
  \E sent \in BOOLEAN :
    /\ sending # <<>> /\ sending' = Tail(sending)
    /\ sent => Head(sending).want # target
    /\ disk' = IF sent THEN mem ELSE disk
    /\ target' = IF sent THEN Head(sending).want ELSE target
    /\ LET c == Head(sending)
           counts == /\ c.current   \* and is in force or kept on disk
                     /\ sent \/ (disk = mem /\ mem # NoGuard)
       IN  /\ cold' = (cold \/ (/\ counts /\ Withdrawing(c.guard)
                                 /\ saving = <<>> /\ Len(sending) = 1))
           /\ since' = IF counts /\ c.demand /\ c.guard = guard /\ since = NoTime
                         THEN now ELSE since
           /\ trial' = IF counts /\ c.guard.phase = "stale_start"
                         THEN c.guard.started ELSE trial
    /\ UNCHANGED <<up, now, zone, lastValid, saving, crashes>> /\ Settles

\* _record_primary_feedback.  The validation may reject a report: after a jump,
\* or after a loss until two good reports have come.
Report ==
  /\ up /\ now > report /\ now <= LastReport
  /\ report' = now
  /\ primary' \in {"valid", "rejected"}
  /\ cold' = (cold /\ primary' # "valid")
  /\ since' = NoTime /\ trial' = NoTime
  /\ saving' = Overtaken(saving) /\ sending' = Overtaken(sending)
  /\ UNCHANGED <<up, now, guard, mem, disk, lastValid, settled, target, crashes>>

Lost ==
  /\ up /\ primary # "lost"
  /\ primary' = "lost"
  /\ UNCHANGED <<up, now, guard, mem, report, disk, lastValid, tasks, target, cold, since,
                 trial, crashes>>

\* A calculation accepts a rejected report that has become stale as a stale one:
\* being stale ends the recovery (validate_measured_source).
Age ==
  /\ up /\ primary = "rejected" /\ now - report >= Fresh
  /\ primary' = "valid"
  /\ cold' = FALSE /\ since' = NoTime
  /\ saving' = Overtaken(saving) /\ sending' = Overtaken(sending)
  /\ UNCHANGED <<up, now, guard, mem, report, disk, lastValid, settled, target, trial, crashes>>

\* Any other write of the store, of the last valid outputs among them; what it
\* says of those is of use only as long as there are no guards.
OtherWrite ==
  /\ up
  /\ disk' = mem
  /\ \/ lastValid' = lastValid
     \/ mem = NoGuard /\ lastValid' \in {at \in {report, now} : at > lastValid}
  /\ UNCHANGED <<up, now, zone, tasks, target, cold, since, trial, crashes>>

\* What is in memory is lost.
Crash ==
  /\ up /\ crashes < MaxCrashes
  /\ up' = FALSE
  /\ crashes' = crashes + 1
  /\ guard' = NewGuard /\ mem' = NoGuard /\ report' = NoTime /\ primary' = "lost"
  /\ saving' = <<>> /\ sending' = <<>>
  /\ UNCHANGED <<now, disk, lastValid, target, cold, since, trial>> /\ Settles

\* A store without guards grants no trial; a state that Home Assistant has
\* restored is not a report.
Restored == IF disk # NoGuard THEN disk
            ELSE IF lastValid # NoTime
              THEN [NewGuard EXCEPT !.phase = "exhausted", !.evidence = lastValid]
            ELSE NewGuard
RestoredReport(g, observed) == IF g.evidence # NoTime THEN g.evidence
                               ELSE IF lastValid # NoTime THEN Min2(observed, lastValid)
                               ELSE observed
Start ==
  /\ ~up
  /\ up' = TRUE
  /\ guard' = Restored /\ mem' = disk
  /\ \/ /\ \E observed \in 1 .. now : report' = RestoredReport(Restored, observed)
        /\ primary' \in {"valid", "lost"}
     \/ report' = NoTime /\ primary' = "lost"     \* it shows no number
  /\ UNCHANGED <<now, disk, lastValid, tasks, target, cold, since, trial, crashes>>

Tick ==
  /\ now < MaxClock /\ saving = <<>> /\ sending = <<>>
  /\ now' = now + 1
  /\ UNCHANGED <<up, zone, disk, lastValid, tasks, target, cold, since, trial, crashes>>

Next ==
  \/ Calculate \/ InvalidBegins \/ InvalidContinues \/ SaveDone \/ Send
  \/ Report \/ Lost \/ Age \/ OtherWrite \/ Crash \/ Start \/ Tick
Spec == Init /\ [][Next]_vars

-----------------------------------------------------------------------------
(* What the guard promises.                                                *)

\* Every variable holds what the code can put there, and a guard that runs or
\* withdraws has the times its phase needs.
TypeOK ==
  /\ {up, cold} \subseteq BOOLEAN
  /\ {now, lastValid, report, since, trial} \subseteq Time
  /\ guard \in Guard /\ {mem, disk} \subseteq Guard \union {NoGuard}
  /\ primary \in {"valid", "rejected", "lost"}
  /\ saving \in Seq(Command) /\ sending \in Seq(Command)
  /\ \A g \in {guard, mem, disk} \ {NoGuard} :
       /\ {g.started, g.report, g.ramp, g.evidence} \subseteq 0 .. now
       /\ g.phase \in {"monitoring", "stale_start"} => g.started # NoTime
       /\ g.phase = "ramp" => g.ramp # NoTime
  /\ {target, settled} \subseteq Nat /\ crashes \in 0 .. MaxCrashes

\* A heating setpoint that has been withdrawn for want of reports is not raised
\* before the next report is accepted above what it was when no task was last on
\* its way: not by demand that stops and returns, by a primary that comes and
\* goes, by a failed save, by a restart or by any number of tasks that overlap
\* (stale_heating.py:103, "Monotone linear withdrawal").  A task that was on its
\* way when the withdrawal began is no exception: cold waits for it.
WithdrawalMonotone == [][cold => target' <= settled]_vars

\* It is not raised at all, as the docs have it: a command that waits while an
\* earlier one is dispatched was limited by the setpoint it had read before
\* (docs/configuration-reference.md:290-292).
NeverRaised == [][cold => target' <= target]_vars

\* A restart at any instant takes a withdrawal up that the broker has acted on,
\* whatever saves have failed (runtime.py:2862-2875, 260-298).
WithdrawalSurvives == cold => Withdrawing(Restored)

\* Uninterrupted demand without a report has come down to the fallback when
\* the longer of the two timeouts and the whole ramp have passed since its
\* first command, restarts and late calculations included
\* (docs/configuration-reference.md:290-292).
FallbackReached ==
  \A i \in DOMAIN sending :
    LET c == sending[i]
    IN  c.demand /\ c.current /\ c.guard = guard /\ since # NoTime
          /\ now >= since + Max2(Active, Trial) + RampMax
        => c.want <= Fallback * Scale

\* There is one stale trial for a report, as the docs have it: whatever begins
\* another one before the next report breaks it
\* (docs/configuration-reference.md:287-288).
OneTrial == [][trial # NoTime => trial' \in {NoTime, trial}]_vars
=============================================================================
