------------------------------ MODULE ControlStore ------------------------------
(* The control store of a zone (adapters/storage.py): one state in memory, one    *)
(* file, one lock.  An operation changes the memory, saves the whole state, reads *)
(* it back and compares; its caller learns whether that succeeded.  A value of a  *)
(* field is the number of the request that made it; the display snapshot, whose   *)
(* requests carry a time of their own and may come late, is numbered by its time  *)
(* (and those made after a start that forgot the snapshot behind those before).   *)
EXTENDS Naturals, Sequences, FiniteSets

CONSTANTS
  NoCommand,
  MaxOps, MaxQueue, MaxFaults, MaxStarts   \* bounds: operations, waiters, faults, starts

ASSUME StoreAssumption ==
  /\ NoCommand \notin Nat
  /\ {MaxOps, MaxQueue, MaxFaults, MaxStarts} \subseteq Nat

Field == {"command", "runtime", "last_valid", "marker", "guards", "demand", "actuator"}
Late == "last_valid"

VARIABLES
  mem,       \* ZoneCommandPersistence.state: generation, clean mark, pending command,
             \* the value of each field, and `blank`, the value of the snapshot that
             \* stands for none (last_valid_at is None)
  file,      \* the same, as it is on disk
  up,        \* the zone: "down", "starting", "running" or "stopping"
  queue,     \* operations that hold (the first) or wait for the lock
  phase,     \* what the holder does: "idle", "saving", "reading"
  image,     \* state that the holder has serialised
  wanted,    \* newest value of each field asked for
  kept,      \* newest value of each field acknowledged
  failed,    \* newest snapshot in a write that has failed
  open,      \* the command whose journal write was acknowledged and is not withdrawn
  ops, faults, starts

storeVars == <<mem, file, up, queue, phase, image, wanted, kept, failed, open, ops, faults,
               starts>>
counters == <<ops, faults, starts>>

Zero == [f \in Field |-> 0]
NewState == [gen |-> 0, clean |-> FALSE, pending |-> NoCommand, val |-> Zero, blank |-> 0]

StoreInit ==
  /\ mem = NewState /\ file = NewState /\ image = NewState
  /\ up = "down" /\ queue = << >> /\ phase = "idle"
  /\ wanted = Zero /\ kept = Zero /\ failed = 0 /\ open = NoCommand
  /\ ops = 0 /\ faults = 0 /\ starts = 0

-----------------------------------------------------------------------------
(* Requests.  An operation is a record of its kind, its field and its value;      *)
(* `pending` is the command that a journal write leaves pending.                  *)

Op(kind, f, v, c) == [kind |-> kind, field |-> f, value |-> v, pending |-> c]

Ask(op) ==
  /\ up = "running" /\ ops < MaxOps /\ Len(queue) < MaxQueue
  /\ ops' = ops + 1 /\ queue' = Append(queue, op)
  /\ wanted' = [wanted EXCEPT ![op.field] = IF op.value > @ THEN op.value ELSE @]
  /\ UNCHANGED <<mem, file, up, phase, image, kept, failed, faults, starts>>

Newer(f) == wanted[f] + 1

\* async_persist_pending and async_mark_dispatched; async_resolve withdraws the command.
PersistPending == Ask(Op("persist", "command", Newer("command"), Newer("command")))
                  /\ UNCHANGED open
ResolveCommand == Ask(Op("resolve", "command", Newer("command"), NoCommand))
                  /\ open' = NoCommand
UpdateRuntime == Ask(Op("update", "runtime", Newer("runtime"), NoCommand)) /\ UNCHANGED open
UpdateMarker == Ask(Op("update", "marker", Newer("marker"), NoCommand)) /\ UNCHANGED open
UpdateHeatGuards == Ask(Op("update", "guards", Newer("guards"), NoCommand)) /\ UNCHANGED open
UpdateActuator == Ask(Op("update", "actuator", Newer("actuator"), NoCommand)) /\ UNCHANGED open
UpdateDemand == Ask(Op("candidate", "demand", Newer("demand"), NoCommand)) /\ UNCHANGED open

\* The snapshots of two calculations may arrive in either order.
UpdateLastValid ==
  /\ \E v \in mem.blank + 1 .. wanted[Late] + 2 : Ask(Op("display", Late, v, NoCommand))
  /\ UNCHANGED open

-----------------------------------------------------------------------------
(* The operation that has the lock *)

Applied(m, op) ==
  [m EXCEPT !.gen = @ + 1, !.val[op.field] = op.value,
            !.pending = IF op.kind \in {"persist", "resolve"} THEN op.pending ELSE @]

\* mark_clean_shutdown, which is refused while a command is pending.
CleanMark(m) == [m EXCEPT !.gen = @ + 1, !.clean = TRUE]
CleanMarkRefusedNever(m) == FALSE   \* with a bug
CleanMarkRefused(m) == m.pending # NoCommand

OlderSnapshotStored(op) == FALSE   \* with a bug
OlderSnapshot(op) == op.kind = "display" /\ op.value < mem.val[Late]

Refused(op) == op.kind = "clean" /\ CleanMarkRefused(mem)

\* The lock is released; a start or a stop is complete with its only write.
EndsBusy(op) ==   \* with a bug
  /\ queue' = Tail(queue) /\ UNCHANGED <<phase, image>>
  /\ up' = CASE op.kind = "start" -> "running" [] op.kind = "clean" -> "down" [] OTHER -> up
Ends(op) ==
  /\ queue' = Tail(queue) /\ phase' = "idle" /\ image' = NewState
  /\ up' = CASE op.kind = "start" -> "running" [] op.kind = "clean" -> "down" [] OTHER -> up

Acknowledged(op) == [kept EXCEPT ![op.field] = IF op.value > @ THEN op.value ELSE @]

\* A snapshot older than the one in memory is dropped, and its caller told that it is
\* stored, although the write of the newer one may have failed.
DropSnapshot ==
  /\ queue # << >> /\ phase = "idle"
  /\ LET op == Head(queue) IN OlderSnapshot(op) /\ Ends(op) /\ kept' = Acknowledged(op)
  /\ UNCHANGED <<mem, file, wanted, failed, open, counters>>

\* A clean mark is refused.
RefuseMark ==
  /\ queue # << >> /\ phase = "idle"
  /\ Refused(Head(queue)) /\ Ends(Head(queue))
  /\ UNCHANGED <<mem, file, wanted, kept, failed, open, counters>>

\* The state is changed and serialised.  Only the demand latch keeps its change back
\* until the write has been verified.
BeginWrite ==
  /\ queue # << >> /\ phase = "idle"
  /\ LET op == Head(queue)
         next == CASE op.kind = "clean" -> CleanMark(mem)
                   [] op.kind = "start" -> mem
                   [] OTHER -> Applied(mem, op)
     IN /\ ~OlderSnapshot(op) /\ ~Refused(op)
        /\ image' = next
        /\ mem' = IF op.kind = "candidate" THEN mem ELSE next
  /\ phase' = "saving"
  /\ UNCHANGED <<file, up, queue, wanted, kept, failed, open, counters>>

Fault == faults < MaxFaults /\ faults' = faults + 1

\* The file is replaced as a whole, or the save is lost without an error.
Save ==
  /\ phase = "saving" /\ phase' = "reading"
  /\ \/ file' = image /\ UNCHANGED faults
     \/ Fault /\ UNCHANGED file
  /\ UNCHANGED <<mem, up, queue, image, wanted, kept, failed, open, ops, starts>>

\* The write in progress comes to nothing: the memory may be ahead of the file now.
WriteLost == failed' = IF image.val[Late] > failed THEN image.val[Late] ELSE failed

\* The caller learns of a failure: the save or the readback raises, before or after
\* the file has changed.
FailWrite ==
  /\ phase \in {"saving", "reading"} /\ Fault
  /\ Ends(Head(queue)) /\ WriteLost
  /\ UNCHANGED <<mem, file, wanted, kept, open, ops, starts>>

Verified == file.gen = image.gen /\ file = image

\* The readback is compared, and the operation returns.
Compare ==
  /\ phase = "reading"
  /\ LET op == Head(queue)
         told == op.kind \notin {"start", "clean"}
     IN /\ Ends(op)
        /\ mem' = IF Verified /\ op.kind = "candidate" THEN image ELSE mem
        /\ kept' = IF Verified /\ told THEN Acknowledged(op) ELSE kept
        /\ open' = IF Verified /\ op.kind = "persist"
                      /\ \A i \in 2 .. Len(queue) : queue[i].kind # "resolve"
                   THEN op.pending ELSE open
  /\ IF Verified THEN UNCHANGED failed ELSE WriteLost
  /\ UNCHANGED <<file, wanted, counters>>

-----------------------------------------------------------------------------
(* Starts and stops *)

\* prepare_startup_recovery: the open command is not replayed, and what depends on the
\* configuration is dropped if that has changed.
Recovered(prior, changed) ==
  LET fresh(f) == wanted[f] + 1
      reset == {"command"} \union (IF changed THEN {"demand", Late} ELSE {})
  IN [gen |-> prior.gen + 1, clean |-> FALSE, pending |-> NoCommand,
      val |-> [f \in Field |-> IF f \in reset THEN fresh(f) ELSE prior.val[f]],
      blank |-> IF changed THEN fresh(Late) ELSE prior.blank]

\* async_start takes the lock, reads the file and writes the recovered state.  If that
\* fails, the zone runs on with a storage fault.
Start ==
  /\ up = "down" /\ starts < MaxStarts /\ starts' = starts + 1
  /\ up' = "starting"
  /\ \E changed \in BOOLEAN :
       LET next == Recovered(file, changed)
       IN /\ mem' = next
          /\ wanted' = [f \in Field |-> IF next.val[f] > wanted[f] THEN next.val[f]
                                        ELSE wanted[f]]
  /\ queue' = <<Op("start", "actuator", 0, NoCommand)>> /\ phase' = "idle"
  /\ open' = NoCommand
  /\ UNCHANGED <<file, image, kept, failed, ops, faults>>

\* async_unload has waited for the tasks of the zone; async_mark_clean is the last write.
Unload ==
  /\ up = "running" /\ queue = << >> /\ up' = "stopping"
  /\ queue' = <<Op("clean", "actuator", 0, NoCommand)>>
  /\ UNCHANGED <<mem, file, phase, image, wanted, kept, failed, open, counters>>

\* Home Assistant stops without unloading: the memory is gone.
Crash ==
  /\ up # "down"
  /\ up' = "down" /\ queue' = << >> /\ phase' = "idle"
  /\ mem' = NewState /\ image' = NewState
  /\ UNCHANGED <<file, wanted, kept, failed, open, counters>>

StoreNext ==
  \/ PersistPending \/ ResolveCommand \/ UpdateRuntime \/ UpdateMarker \/ UpdateHeatGuards
  \/ UpdateActuator \/ UpdateDemand \/ UpdateLastValid
  \/ DropSnapshot \/ RefuseMark \/ BeginWrite \/ Save \/ FailWrite \/ Compare
  \/ Start \/ Unload \/ Crash

StoreSpec == StoreInit /\ [][StoreNext]_storeVars

-----------------------------------------------------------------------------
StoreState == [gen : Nat, clean : BOOLEAN, pending : Nat \union {NoCommand}, val : [Field -> Nat],
               blank : Nat]
Operation == [kind : {"persist", "resolve", "update", "candidate", "display", "start", "clean"},
              field : Field, value : Nat, pending : Nat \union {NoCommand}]

StoreTypeOK ==
  /\ mem \in StoreState /\ file \in StoreState /\ image \in StoreState
  /\ up \in {"down", "starting", "running", "stopping"}
  /\ phase \in {"idle", "saving", "reading"}
  /\ queue \in Seq(Operation) /\ (phase # "idle" => queue # << >>)
  /\ wanted \in [Field -> Nat] /\ kept \in [Field -> Nat] /\ failed \in Nat
  /\ open \in Nat \union {NoCommand}
  /\ ops \in Nat /\ faults \in Nat /\ starts \in Nat

\* A value whose write was acknowledged survives: failed, lost and unverified writes of
\* other values, late snapshots, crashes and restarts never bring an older one back.
\* The display snapshot may be acknowledged without being in the file, if a newer one
\* was in a write that failed; but no older one ever replaces that of the file.
StorePromise == INSTANCE AbstractStore WITH file <- file.val, Shown <- Late
StoreKeepsPromise == StorePromise!Spec

\* While a command is open whose journal entry was acknowledged, a restart would find a
\* command in the file, and would not take the last run for a clean one.
OpenCommandFound == open # NoCommand => file.pending # NoCommand /\ ~file.clean
=============================================================================
