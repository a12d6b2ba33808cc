--------------------------- MODULE TargetOwnership ---------------------------
(***************************************************************************)
(* Who commands the targets of one zone: the ownership automaton           *)
(* (core/ownership.py) as runtime.py drives it, the override expiry        *)
(* timers, the records that every transition writes to the verified store  *)
(* (adapters/storage.py), and what becomes of all that when the zone is    *)
(* unloaded, crashes and starts again.                                     *)
(*                                                                         *)
(* A transition takes effect at once; its record is captured then and      *)
(* written later by a task of its own, and the tasks get the lock of the   *)
(* store in the order they were created (writes).  A record is changed in  *)
(* memory (mem) before the file (disk); nobody looks at whether the write  *)
(* was verified.                                                           *)
(*                                                                         *)
(* Left out: revisions and the readiness fields, which the transitions     *)
(* sent by runtime.py write but never read (CommandBroker is where they    *)
(* matter), override_reason, the events that nothing sends                 *)
(* (TARGET_REPLACED, EXTERNAL_PRESET, COMMAND_*, LATE_ACKNOWLEDGED,        *)
(* CLEAN_RESTART), and the migration of records that only older releases   *)
(* wrote (command_fault, "unclean_restart").                               *)
(***************************************************************************)
EXTENDS Integers, Sequences, FiniteSets, SequencesExt

CONSTANTS
  Target,           \* the targets of the config entry; their order may be any
  Duration,         \* manual_override_minutes
  StartupFaults,    \* whether a stop or a failed write may fall among the
                    \* writes of one start
  MaxClock, MaxChanges, MaxRestarts   \* bounds: time, disturbances, starts

ASSUME TargetAssumption == IsFiniteSet(Target)
ASSUME BoundAssumption ==
  /\ Duration \in Nat \ {0} /\ StartupFaults \in BOOLEAN
  /\ MaxClock \in Nat /\ MaxChanges \in Nat /\ MaxRestarts \in Nat

VARIABLES
  phase,     \* "down", "loaded" (store recovered), "running", "unloading"
  own,       \* ZoneRuntime.ownership
  enabled,   \* the control_enabled option of the config entry
  live,      \* what the climate entity of a target offers
  baseline,  \* initial_target_baselines
  timer,     \* timers["override:..."]: when it fires
  resuming,  \* targets that a running async_resume has not reached
  requires,  \* persistence.requires_resume
  writes,    \* background tasks that wait for or hold the store lock
  mem, disk, \* persistence.state.actuators and the file it is saved to
  now, changes, restarts,
  starting,  \* how many of the writes belong to the start
  promise,   \* until when the user's last override is to hold (history)
  kept,      \* whether that override has reached the disk (history)
  gate       \* what became of the gate that a corrupt store set (history)

runtimeVars == <<own, enabled, baseline, timer, resuming, requires>>
storeVars == <<writes, mem, disk, starting>>
boundVars == <<now, changes, restarts>>
history == <<promise, kept, gate>>
vars == <<phase, live, runtimeVars, storeVars, boundVars, history>>

-----------------------------------------------------------------------------
Ownership == {"disabled", "owned", "manual_override", "reconciling"}
Readiness == {"available", "suspended", "unavailable"}
NoTime == 0
Time == 0 .. MaxClock

\* ownership, override_expiry and resume_required; also the stored record.
OwnershipState == [ownership : Ownership, expiry : Time, resume : BOOLEAN]
InitialOwnership == [ownership |-> "disabled", expiry |-> NoTime, resume |-> FALSE]
Reconciling(resume) ==
  [ownership |-> "reconciling", expiry |-> NoTime, resume |-> resume]
Override(until) ==
  [ownership |-> "manual_override", expiry |-> until, resume |-> FALSE]

\* One write of the store: the records it changes.  {} -> none for the writes
\* of other state, which save the records of all targets all the same.
NoRecord == [t \in {} |-> InitialOwnership]
Write == UNION {[S -> OwnershipState] : S \in SUBSET Target}
Merged(w, records) ==
  [t \in Target |-> IF t \in DOMAIN w THEN w[t] ELSE records[t]]

\* reduce_ownership, event by event.
Enable(o) == Reconciling(FALSE)
Disable(o) == InitialOwnership
Resume(o) == Reconciling(FALSE)
ExternalTargetSet(o) == Override(now + Duration)
HvacMode(o, ready) ==
  IF ready = "available" /\ o.ownership = "owned"
    THEN [o EXCEPT !.ownership = "reconciling"] ELSE o
Returned(o) ==
  IF o.ownership = "owned" THEN [o EXCEPT !.ownership = "reconciling"] ELSE o
Unavailable(o) == o
OverrideExpiredAlways(o) ==   \* with a bug
  IF o.ownership = "manual_override"
    THEN [o EXCEPT !.ownership = "reconciling", !.expiry = NoTime] ELSE o
OverrideExpired(o) ==
  IF o.ownership = "manual_override" /\ now >= o.expiry
    THEN [o EXCEPT !.ownership = "reconciling", !.expiry = NoTime] ELSE o
UncleanRestart(o) == [o EXCEPT !.ownership = "reconciling", !.resume = TRUE]
Reconciled(o, dataReady) ==
  IF o.ownership = "reconciling" /\ ~o.resume /\ dataReady
    THEN [o EXCEPT !.ownership = "owned"] ELSE o

\* _transition arms the override timer for the state it leads to.
TimerFor(o) == IF o.ownership = "manual_override" THEN o.expiry ELSE NoTime

\* _transition of the targets S: the states f, the timers, one write each.
Records(order, f) == [i \in DOMAIN order |-> [t \in {order[i]} |-> f[t]]]
TransitionUnordered(S, f, further) ==   \* with a bug
  /\ own' = [t \in Target |-> IF t \in S THEN f[t] ELSE own[t]]
  /\ timer' = [t \in Target |-> IF t \in S THEN TimerFor(f[t]) ELSE timer[t]]
  /\ \E order \in SetToSeqs(S) : writes' = Records(order, f) \o writes \o further
Transition(S, f, further) ==
  /\ own' = [t \in Target |-> IF t \in S THEN f[t] ELSE own[t]]
  /\ timer' = [t \in Target |-> IF t \in S THEN TimerFor(f[t]) ELSE timer[t]]
  /\ \E order \in SetToSeqs(S) : writes' = writes \o Records(order, f) \o further

Disturb == changes < MaxChanges /\ changes' = changes + 1
-----------------------------------------------------------------------------
\* What earlier runs of the zone can have left in the file.
StoredState ==
  {Reconciling(FALSE), Reconciling(TRUE)} \cup {Override(until) : until \in Time \ {NoTime}}

Init ==
  /\ phase = "down" /\ own = [t \in Target |-> InitialOwnership]
  /\ enabled \in BOOLEAN
  /\ live \in [Target -> {"available", "unavailable"}]
  /\ baseline = {} /\ timer = [t \in Target |-> NoTime]
  /\ resuming = {} /\ requires = FALSE
  /\ writes = <<>> /\ starting = 0
  /\ mem \in [Target -> StoredState]
  /\ \/ disk = [state |-> "good", records |-> mem]
     \/ /\ disk = [state |-> "missing", records |-> mem]
        /\ mem = [t \in Target |-> Reconciling(FALSE)]
  /\ now = 0 /\ changes = 0 /\ restarts = 0
  /\ promise = [t \in Target |-> mem[t].expiry]
  /\ kept = {t \in Target : mem[t].expiry # NoTime}
  /\ gate = [t \in Target |-> IF mem[t].resume THEN "set" ELSE "none"]

\* prepare_startup_recovery: overrides survive; a record that asks for Resume,
\* or a corrupt store, makes every other target ask for it.
StoredGateIgnored == FALSE   \* with a bug
StoredGate == \E t \in Target : /\ disk.records[t].resume
                                /\ disk.records[t].ownership # "manual_override"
Recovered(corrupt) ==
  LET ask == corrupt \/ StoredGate
  IN  [t \in Target |->
         IF corrupt \/ disk.records[t].ownership # "manual_override"
           THEN [ownership |-> "reconciling", resume |-> ask,
                 expiry |-> IF corrupt THEN NoTime ELSE disk.records[t].expiry]
           ELSE [disk.records[t] EXCEPT !.resume = FALSE]]

\* ZoneCommandPersistence.async_start: read, recover, write; the start goes on
\* if the write fails.  A missing file is a new store.
Load(saved) ==
  /\ phase = "down" /\ phase' = "loaded"
  /\ restarts < MaxRestarts /\ restarts' = restarts + 1
  /\ LET corrupt == disk.state = "corrupt"
         recovered == IF disk.state = "missing"
                        THEN [t \in Target |-> Reconciling(FALSE)]
                        ELSE Recovered(corrupt)
     IN  /\ mem' = recovered
         /\ disk' = IF saved THEN [state |-> "good", records |-> recovered] ELSE disk
         /\ requires' = (corrupt \/ (disk.state = "good" /\ StoredGate))
         /\ gate' = [t \in Target |-> IF corrupt THEN "set" ELSE gate[t]]
         /\ IF corrupt THEN /\ promise' = [t \in Target |-> NoTime] /\ kept' = {}
                       ELSE UNCHANGED <<promise, kept>>
  /\ own' = [t \in Target |-> InitialOwnership]
  /\ saved \/ changes < MaxChanges
  /\ changes' = IF saved THEN changes ELSE changes + 1
  /\ UNCHANGED <<live, enabled, baseline, timer, resuming, writes, starting, now>>

\* The rest of async_start.  With control enabled every target is enabled, then
\* the stored overrides are put back and their expiry is looked at, then the
\* targets without one get the gate: three passes, one write per transition.
RestoredOverride(t) ==
  mem[t].ownership = "manual_override"
AfterOverrides(t) ==
  IF RestoredOverride(t) THEN OverrideExpired(mem[t]) ELSE Enable(own[t])
Gated(t) == requires /\ AfterOverrides(t).ownership # "manual_override"
Started(t) ==
  IF Gated(t) THEN UncleanRestart(AfterOverrides(t)) ELSE AfterOverrides(t)

StartControlUntimed ==   \* with a bug
  /\ own' = [t \in Target |-> Started(t)] /\ UNCHANGED <<timer, starting>>
  /\ \E order \in SetToSeqs(Target) : writes' = Records(order, [t \in Target |-> Started(t)])
StartControl ==
  /\ own' = [t \in Target |-> Started(t)]
  /\ timer' = [t \in Target |-> TimerFor(Started(t))]
  /\ \E enable \in SetToSeqs(Target),
        restore \in SetToSeqs({t \in Target : RestoredOverride(t)}),
        recover \in SetToSeqs({t \in Target : Gated(t)}) :
       writes' = Records(enable, [t \in Target |-> Enable(own[t])])
                   \o Records(restore, [t \in Target |-> AfterOverrides(t)])
                   \o Records(recover, [t \in Target |-> Started(t)])
  /\ starting' = Len(writes')

Acquire ==
  /\ phase = "loaded" /\ phase' = "running"
  /\ IF enabled THEN StartControl ELSE UNCHANGED <<own, timer, writes, starting>>
  /\ baseline' \in SUBSET Target
  /\ UNCHANGED <<live, enabled, resuming, requires, mem, disk, boundVars, history>>

-----------------------------------------------------------------------------
\* A user, or anything that is not an echo of this zone, sets a target:
\* _service_event, or feedback that the broker calls external.
ExternalTarget(t) ==
  /\ phase = "running" /\ Disturb /\ now + Duration <= MaxClock
  /\ Transition({t}, [u \in {t} |-> ExternalTargetSet(own[u])], <<>>)
  /\ baseline' = baseline \ {t}
  /\ promise' = [promise EXCEPT ![t] = now + Duration] /\ kept' = kept \ {t}
  /\ gate' = [gate EXCEPT ![t] = IF @ = "set" THEN "overridden" ELSE @]
  /\ UNCHANGED <<phase, live, enabled, resuming, requires, mem, disk, starting, now, restarts>>

\* The first complete automatic observation of a target without a setpoint.
FirstObservation(t) ==
  /\ phase = "running" /\ t \in baseline /\ live[t] # "unavailable"
  /\ baseline' = baseline \ {t}
  /\ UNCHANGED <<phase, live, own, enabled, timer, resuming, requires, storeVars, boundVars, history>>

\* The climate entity goes away, returns or changes its HVAC mode
\* (_async_handle_target_state); while the zone is not running nobody listens.
Seen(t, ready) ==
  CASE ready = "unavailable" -> Unavailable(own[t])
    [] live[t] = "unavailable" -> Returned(own[t])
    [] OTHER -> HvacMode(own[t], ready)

ClimateChange(t, ready) ==
  /\ ready # live[t] /\ Disturb /\ live' = [live EXCEPT ![t] = ready]
  /\ IF phase = "running"
       THEN Transition({t}, [u \in {t} |-> Seen(u, ready)], <<>>)
       ELSE UNCHANGED <<own, timer, writes>>
  /\ UNCHANGED <<phase, enabled, baseline, resuming, requires, mem, disk, starting, now,
                 restarts, history>>

\* _reconcile_targets, with the verdict of a calculation on each target: its
\* data are ready, are held over, or it saw another climate state than the live
\* one or has no result.
ReconcilableAlways(verdict) ==   \* with a bug
  {t \in Target : /\ own[t].ownership = "reconciling" /\ ~own[t].resume
                  /\ t \notin baseline /\ live[t] = "available"
                  /\ verdict[t] # "unusable"}
Reconcilable(verdict) ==
  {t \in Target : /\ enabled /\ own[t].ownership = "reconciling" /\ ~own[t].resume
                  /\ t \notin baseline /\ live[t] = "available"
                  /\ verdict[t] # "unusable"}
Calculation(verdict) ==
  LET S == Reconcilable(verdict)
      f == [t \in S |-> Reconciled(own[t], verdict[t] = "ready")]
  IN  /\ phase = "running" /\ S # {}
      /\ \A t \in Target \ S : verdict[t] = "unusable"
      /\ IF \E t \in S : verdict[t] = "held" THEN Disturb ELSE UNCHANGED changes
      /\ Transition(S, f, <<>>)
      /\ UNCHANGED <<phase, live, enabled, baseline, resuming, requires, mem, disk,
                     starting, now, restarts, history>>

\* The timer of _schedule_override_expiry.
ExpiryTimer(t) ==
  /\ phase = "running" /\ timer[t] # NoTime /\ timer[t] <= now
  /\ Transition({t}, [u \in {t} |-> OverrideExpired(own[u])], <<>>)
  /\ UNCHANGED <<phase, live, enabled, baseline, resuming, requires, mem, disk, starting,
                 boundVars, history>>

\* async_resume: it waits for the broker before each target.
PressResume ==
  /\ phase = "running" /\ resuming = {} /\ Disturb
  /\ requires' = FALSE /\ resuming' = Target
  /\ UNCHANGED <<phase, live, own, enabled, baseline, timer, storeVars, now, restarts, history>>

ResumeTarget(t) ==
  /\ phase = "running" /\ t \in resuming /\ resuming' = resuming \ {t}
  /\ Transition({t}, [u \in {t} |-> Resume(own[u])],
                IF resuming = {t} THEN <<NoRecord>> ELSE <<>>)
  /\ promise' = [promise EXCEPT ![t] = NoTime] /\ kept' = kept \ {t}
  /\ gate' = [gate EXCEPT ![t] = "none"]
  /\ UNCHANGED <<phase, live, enabled, baseline, requires, mem, disk, starting, boundVars>>

\* async_set_control_enabled; the lease of each target is had without trouble.
SetControlEnabled ==
  /\ phase = "running" /\ Disturb /\ enabled' = ~enabled
  /\ Transition(Target,
                [t \in Target |-> IF enabled THEN Disable(own[t]) ELSE Enable(own[t])],
                <<NoRecord>>)
  /\ promise' = [t \in Target |-> NoTime] /\ kept' = {}
  /\ gate' = [t \in Target |-> "none"]
  /\ UNCHANGED <<phase, live, baseline, resuming, requires, mem, disk, starting, now, restarts>>
-----------------------------------------------------------------------------
\* One write of the store reaches the file, or fails and leaves the change in
\* memory for the next write to carry.  An override is kept when it is on disk
\* and no older write is left that would pass over it.
OverrideOn(records) ==
  {t \in Target : /\ promise[t] # NoTime /\ records[t].expiry = promise[t]
                  /\ records[t].ownership = "manual_override"
                  /\ \A i \in DOMAIN writes' : t \notin DOMAIN writes'[i]}
Save(records) ==
  /\ disk' = [state |-> "good", records |-> records]
  /\ kept' = kept \cup OverrideOn(records)

Interrupted == starting > 0 /\ ~StartupFaults

WriteDone(saved) ==
  /\ phase \in {"running", "unloading"} /\ writes # <<>>
  /\ mem' = Merged(Head(writes), mem)
  /\ writes' = Tail(writes)
  /\ starting' = IF starting = 0 THEN 0 ELSE starting - 1
  /\ IF saved THEN Save(mem') /\ UNCHANGED changes
              ELSE Disturb /\ ~Interrupted /\ UNCHANGED <<disk, kept>>
  /\ UNCHANGED <<phase, live, runtimeVars, now, restarts, promise, gate>>

\* A write of other state, a journalled command for one: it saves the records too.
OtherWrite ==
  /\ phase = "running" /\ Disturb /\ writes' = Append(writes, NoRecord)
  /\ UNCHANGED <<phase, live, runtimeVars, mem, disk, starting, now, restarts, history>>

\* async_unload: the timers go at once, the writes get fifteen seconds, and
\* async_mark_clean saves memory unless a command is unresolved.
Unload ==
  /\ phase = "running" /\ resuming = {} /\ Disturb /\ phase' = "unloading"
  /\ restarts < MaxRestarts
  /\ timer' = [t \in Target |-> NoTime]
  /\ UNCHANGED <<live, own, enabled, baseline, resuming, requires, storeVars, now, restarts, history>>

\* The tasks that are left are cancelled; the first had the lock and had
\* changed its record in memory.
CancelWrites ==
  /\ phase = "unloading" /\ writes # <<>> /\ Disturb
  /\ ~Interrupted
  /\ mem' = Merged(Head(writes), mem) /\ writes' = <<>> /\ starting' = 0
  /\ UNCHANGED <<phase, live, runtimeVars, disk, now, restarts, history>>

Remaining(overrides) ==
  [t \in Target |-> IF t \in overrides THEN promise[t] ELSE NoTime]
Down ==
  /\ phase' = "down"
  /\ resuming' = {} /\ writes' = <<>> /\ starting' = 0
  /\ timer' = [t \in Target |-> NoTime] /\ baseline' = {}

MarkClean(saved) ==
  /\ phase = "unloading" /\ writes = <<>>
  /\ Down
  /\ IF saved THEN Save(mem) ELSE UNCHANGED <<disk, kept>>
  /\ promise' = Remaining(kept')
  /\ UNCHANGED <<live, own, enabled, requires, mem, boundVars, gate>>

Crash ==
  /\ phase # "down" /\ Disturb /\ restarts < MaxRestarts
  /\ ~Interrupted
  /\ Down
  /\ promise' = Remaining(kept)
  /\ UNCHANGED <<live, own, enabled, requires, mem, disk, kept, now, restarts, gate>>

\* The file is found unreadable.
Corrupt ==
  /\ phase = "down" /\ disk.state = "good" /\ Disturb
  /\ disk' = [disk EXCEPT !.state = "corrupt"]
  /\ UNCHANGED <<phase, live, runtimeVars, writes, mem, starting, now, restarts, history>>

Tick ==
  /\ now < MaxClock /\ now' = now + 1
  /\ UNCHANGED <<phase, live, runtimeVars, storeVars, changes, restarts, history>>

Next ==
  \/ \E saved \in BOOLEAN : Load(saved) \/ WriteDone(saved) \/ MarkClean(saved)
  \/ Acquire \/ PressResume \/ SetControlEnabled
  \/ \E t \in Target : ExternalTarget(t) \/ FirstObservation(t) \/ ExpiryTimer(t) \/ ResumeTarget(t)
  \/ \E t \in Target, ready \in Readiness : ClimateChange(t, ready)
  \/ \E verdict \in [Target -> {"ready", "held", "unusable"}] : Calculation(verdict)
  \/ OtherWrite \/ Unload \/ CancelWrites \/ Crash \/ Corrupt
  \/ Tick

Spec == Init /\ [][Next]_vars

\* Home Assistant sets the zone up again, its timers fire, its tasks and the
\* saves they wait for end, and time passes.
FairSpec ==
  /\ Spec /\ WF_vars(\E saved \in BOOLEAN : Load(saved)) /\ WF_vars(Acquire)
  /\ WF_vars(\E saved \in BOOLEAN : WriteDone(saved))
  /\ WF_vars(\E saved \in BOOLEAN : MarkClean(saved))
  /\ \A t \in Target : WF_vars(ExpiryTimer(t))
  /\ WF_vars(Tick)
-----------------------------------------------------------------------------
\* Every variable keeps to what the code can put there: an expiry lies within the
\* time that has been promised, a write changes records of known targets only.
TypeOK ==
  /\ phase \in {"down", "loaded", "running", "unloading"}
  /\ own \in [Target -> OwnershipState] /\ enabled \in BOOLEAN
  /\ live \in [Target -> Readiness] /\ baseline \subseteq Target
  /\ timer \in [Target -> Time] /\ resuming \subseteq Target /\ requires \in BOOLEAN
  /\ writes \in Seq(Write) /\ starting \in Nat
  /\ mem \in [Target -> OwnershipState]
  /\ disk \in [state : {"missing", "good", "corrupt"}, records : [Target -> OwnershipState]]
  /\ now \in Time /\ changes \in 0 .. MaxChanges /\ restarts \in 0 .. MaxRestarts
  /\ promise \in [Target -> Time] /\ kept \subseteq Target
  /\ gate \in [Target -> {"none", "set", "overridden"}]

\* A target is owned, the only state in which the broker lets an ordinary
\* command through, only while control is enabled, nothing asks for Resume, no
\* override is left in its state and its first setpoint has been observed.
OwnedIsAllowed ==
  \A t \in Target : own[t].ownership = "owned" =>
    enabled /\ ~own[t].resume /\ own[t].expiry = NoTime /\ t \notin baseline

\* An override that a user made is in force, with its original expiry, until
\* it expires or the user presses Resume or switches control, across
\* unavailability, mode changes, unloading, and any restart once it has been
\* saved (docs/operations.md:150).
OverrideKept ==
  phase = "running" /\ enabled =>
    \A t \in Target : now < promise[t] =>
      own[t].ownership = "manual_override" /\ own[t].expiry = promise[t]

\* After a corrupt store no target is owned again, in this run or a later one,
\* before Resume, a switch of control, or a setpoint from outside.  The docs
\* name Resume alone (docs/operations.md:169-170); an EXTERNAL_TARGET clears
\* resume_required too (ownership.py:211-239).
GateHolds ==
  \A t \in Target : gate[t] = "set" => own[t].ownership # "owned"

\* When the tasks that save are done, the stored record of a target is that of
\* its last transition, in whatever order transitions and writes met.
RecordsSettle ==
  phase = "running" /\ writes = <<>> =>
    \A t \in Target : own[t].ownership = "disabled" \/ mem[t] = own[t]

\* Every override comes to an end, whatever restarts happen meanwhile.
OverrideEnds ==
  \A t \in Target : own[t].ownership = "manual_override" ~>
                       phase = "running" /\ own[t].ownership # "manual_override"
=============================================================================
