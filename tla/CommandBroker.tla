---------------------------- MODULE CommandBroker ----------------------------
(***************************************************************************)
(* The command broker of one actuator target (adapters/broker.py) with the *)
(* code that drives it: the tasks that submit intents, the verified        *)
(* control store it journals to, the state-event handlers of runtime.py,   *)
(* the acknowledgement timer and the ownership transitions that runtime.py *)
(* performs around broker calls.  Broker state is kept per target and no   *)
(* operation touches two targets, so one target is enough.                 *)
(*                                                                         *)
(* The program is one asyncio event loop: a coroutine runs without         *)
(* interruption up to an await that suspends, so one action is the code    *)
(* between two such awaits.  The awaits are the per-target asyncio.Lock    *)
(* (lock), the writes of the verified store, which its own lock serves in  *)
(* FIFO order (jobs), and the climate service call.                        *)
(*                                                                         *)
(* Data abstraction.  A target value is a member of Val; the tolerances of *)
(* the code compare values of one actuator grid and are equality here.     *)
(* env.gen stands for the entry and input generations, and env.rev for the *)
(* ownership revision: the external revision and the capability generation *)
(* never change without an ownership revision, so one counter tells apart  *)
(* what the three do.  Time is counted in units of ten seconds.            *)
(***************************************************************************)
EXTENDS Integers, Sequences, FiniteSets, Functions

CONSTANTS
  Task,             \* coroutines that call async_submit for this target
  Val,              \* values of the actuator grid
  NoVal,            \* no value: None, and the fingerprint of an unavailable target
  Kinds,            \* kinds of intent that are submitted
  HardInterval, OrdinaryInterval, AckWindow, ServiceLimit, IntentLife,
  MaxAttempts,      \* MAX_WRITE_ATTEMPTS
  MaxLag,           \* age that the captured `now` of a submit can have
  Drains,           \* whether async_drain_queued is called (runtime.py never does)
  Disturbances,     \* what may disturb the broker (see DisturbanceKinds)
  MaxClock, MaxCommands, MaxDisturbances   \* bounds: time, commands, disturbances

\* explicit_transition, safety_deescalation and recovery_reassertion of an
\* intent; held: below the minimum change or within the release hysteresis of
\* the acknowledged target.
\* timed: the caller sets the ack timer and records an external target that is found;
\* _async_guard_invalid_primary, which submits while the primary is invalid, does neither.
IntentKind == [explicit: BOOLEAN, safety: BOOLEAN, recovery: BOOLEAN, held: BOOLEAN,
               timed: BOOLEAN]

\* Device events and reports, changes around the broker, failures.
DisturbanceKinds == {"device", "report", "service_event", "resume", "ownership",
                     "readiness", "input", "unload", "call_fails", "write_fails"}

ASSUME ValueAssumption == NoVal \notin Val

ASSUME KindAssumption ==
  /\ Kinds \subseteq IntentKind
  /\ \A k \in Kinds : /\ k.safety \/ k.recovery => k.explicit
                      /\ ~k.timed => k.safety /\ ~k.recovery

ASSUME TimeAssumption ==
  /\ {HardInterval, OrdinaryInterval, AckWindow, ServiceLimit, IntentLife} \subseteq Nat
  /\ 0 < HardInterval /\ HardInterval < OrdinaryInterval
  /\ 0 < ServiceLimit /\ ServiceLimit < AckWindow
  /\ MaxLag \in Nat /\ MaxAttempts \in Nat \ {0} /\ Drains \in BOOLEAN

ASSUME BoundAssumption ==
  /\ {MaxClock, MaxCommands, MaxDisturbances} \subseteq Nat
  /\ Disturbances \subseteq DisturbanceKinds

VARIABLES
  b,        \* _TargetBrokerState of the target
  gate,     \* CommandBroker._gate_open
  timer,    \* the ack timer of the target: the time it is set for, if any
  lock,     \* the target's asyncio.Lock: its holder, then the waiters in order
  task,     \* what each submitting coroutine is doing
  jobs,     \* journal writes in the order the store's lock serves them
  journal,  \* pending_command of the actuator, in memory and on disk
  env,      \* live device target and the runtime's view and ownership of it
  events,   \* device events whose handler task has not run yet
  clock,
  nextId,   \* next command id (and context id)
  calls,    \* service calls made, in order: the device may answer any of them
  spent,    \* disturbances so far
  hist      \* history that only properties read

vars == <<b, gate, timer, lock, task, jobs, journal, env, events, clock, nextId, calls, spent, hist>>

ValOrNone == Val \union {NoVal}

\* PendingCommand; id 0 is None.
Cmd == [id: Nat, val: ValOrNone, rev: Nat, reg: Nat, sent: BOOLEAN]
NoCmd == [id |-> 0, val |-> NoVal, rev |-> 0, reg |-> 0, sent |-> FALSE]

\* NormalizedIntent; value NoVal is None.
Intent == [val: ValOrNone, kind: IntentKind, gen: Nat, rev: Nat, at: Nat]
NoKind == [explicit |-> FALSE, safety |-> FALSE, recovery |-> FALSE, held |-> FALSE,
           timed |-> FALSE]
NoIntent == [val |-> NoVal, kind |-> NoKind, gen |-> 0, rev |-> 0, at |-> 0]

Feedback == [val: ValOrNone, ctx: Nat, user: BOOLEAN, rev: Nat]
NoFeedback == [val |-> NoVal, ctx |-> 0, user |-> FALSE, rev |-> 0]

Statuses == {"idle", "awaiting_acknowledgement", "retry_pending", "write_failed",
             "acknowledged", "waiting_target"}

\* What continues when a journal write returns.
TaskContinuations == {"persist", "mark", "cancel", "cancel_external"}
Continuations == TaskContinuations \union
                 {"settled", "timed_out", "external", "late_feedback", "resumed", "unavailable"}
Job == [then: Continuations, cmd: Cmd, fb: Feedback]

Record == [id: Nat, sent: BOOLEAN]
NoRecord == [id |-> 0, sent |-> FALSE]

Pc == {"idle", "waiting", "persist", "mark", "cancel", "call"}
Idle == [pc |-> "idle", intent |-> NoIntent, now |-> 0, cmd |-> NoCmd, callAt |-> 0]

\* last_dispatch_at is None: every interval since has passed.
Never == -OrdinaryInterval


-----------------------------------------------------------------------------
(* Broker decisions *)

Deadline(c) == c.reg + AckWindow

\* _broker_preflight: the target is fit, available, and its newest live value
\* has been seen by the event handler.
TargetReady == env.fit /\ env.live # NoVal /\ env.seen = env.live

\* _preflight_reason is None.
PreflightPasses(i, now) ==
  /\ now < i.at + IntentLife
  /\ i.gen = env.gen
  /\ i.rev = env.rev
  /\ env.mode = "owned"
  /\ TargetReady
  /\ env.data \/ i.kind.safety

Permitted(i, now) == gate /\ PreflightPasses(i, now)

\* _live_target_reason is None: the live target is one ATHB knows of.
LiveKnown(s, i) ==
  LET known == ({s.baseline, s.acked}
                  \union {c.val : c \in {d \in Range(s.uncertain) : d.rev = i.rev}})
               \ {NoVal}
  IN known # {} => env.live \in known

TooSoonNever(s, i, now) == FALSE   \* with a bug: intervals are not kept

TooSoon(s, i, now) ==
  now - s.lastDispatch < IF i.kind.explicit THEN HardInterval ELSE OrdinaryInterval

\* target_unchanged, below_minimum_change or quantization_hysteresis.
Held(s, i) ==
  /\ ~s.failed /\ s.acked # NoVal /\ ~i.kind.recovery
  /\ s.acked = i.val \/ i.kind.held

ExhaustedLate(s) ==     \* with a bug: one attempt too many
  s.attempts > MaxAttempts /\ s.failed

Exhausted(s) == s.attempts >= MaxAttempts /\ s.failed
BackingOff(s, now) == s.failed /\ now < s.lastDispatch + OrdinaryInterval

\* The write a submit makes before it decides: a new goal has a new budget, a
\* recovery forgets the acknowledgement, the first intent adopts the baseline.
Retarget(s, v) ==
  IF s.goal = v THEN s
  ELSE [s EXCEPT !.goal = v, !.attempts = 0, !.status = "idle"]

Adopt(s, i) ==
  IF i.kind.recovery THEN [s EXCEPT !.acked = NoVal, !.baseline = env.live]
  ELSE IF s.baseline = NoVal /\ s.acked = NoVal THEN [s EXCEPT !.baseline = env.live]
  ELSE s

Prepare(s, i) == Adopt(Retarget(s, i.val), i)

RemainingChecks(s, i, now) ==
  /\ ~Exhausted(s)
  /\ ~BackingOff(s, now)
  /\ ~Held(s, i)
  /\ ~TooSoon(s, i, now)

WriteFailed(s) ==
  [s EXCEPT !.failed = TRUE,
            !.status = IF s.attempts >= MaxAttempts THEN "write_failed" ELSE "retry_pending"]

RememberAll(u, c) ==    \* with a bug: the oldest is not evicted
  IF c \in Range(u) THEN u ELSE Append(u, c)

Remember(u, c) ==
  IF c \in Range(u) THEN u
  ELSE IF Len(u) < MaxAttempts THEN Append(u, c)
  ELSE Append(Tail(u), c)

TimedOutForgotten(s) ==   \* with a bug: the command is not kept as uncertain
  WriteFailed([s EXCEPT !.pending = NoCmd, !.queued = NoIntent])

TimedOut(s) ==
  WriteFailed([s EXCEPT !.pending = NoCmd, !.queued = NoIntent,
                        !.uncertain = Remember(s.uncertain, s.pending)])

Acknowledge(s, v) ==
  [s EXCEPT !.acked = v, !.status = "acknowledged", !.failed = FALSE, !.baseline = v]

\* async_resume_target before its await.
Reset(s) ==
  [s EXCEPT !.pending = NoCmd, !.completed = NoCmd, !.queued = NoIntent,
            !.goal = NoVal, !.attempts = 0, !.status = "idle", !.failed = FALSE,
            !.baseline = NoVal, !.uncertain = <<>>]

EchoOfAnyRevision(s, fb) ==   \* with a bug: the revision is not compared
  /\ ~fb.user /\ gate /\ env.mode = "owned"
  /\ \E c \in Range(s.uncertain) \union {s.pending, s.completed} :
       /\ c.sent
       /\ c \in Range(s.uncertain) \/ clock < Deadline(c)
       /\ c.val = fb.val

\* expected_automatic_echo: classify_acknowledgement acknowledges the value for a
\* dispatched command that is unresolved or within its window.
Echo(s, fb) ==
  /\ ~fb.user /\ gate /\ env.mode = "owned"
  /\ \E c \in Range(s.uncertain) \union {s.pending, s.completed} :
       /\ c.sent
       /\ c \in Range(s.uncertain) \/ clock < Deadline(c)
       /\ c.rev = fb.rev /\ c.val = fb.val

TransitionInPlace(e, mode) ==   \* with a bug: the revision stays
  [e EXCEPT !.mode = mode]

\* ZoneRuntime._transition: a new revision, and the queued intent is dropped.
Transition(e, mode) == [e EXCEPT !.mode = mode, !.rev = @ + 1]
Invalidate(s) == [s EXCEPT !.queued = NoIntent]

Called == {calls[k].cmd : k \in DOMAIN calls}

\* One more disturbance, within the bound.
Disturb(kind) ==
  kind \in Disturbances /\ spent < MaxDisturbances /\ spent' = spent + 1

EnqueueJob(then, c, fb) == jobs' = Append(jobs, [then |-> then, cmd |-> c, fb |-> fb])

-----------------------------------------------------------------------------
(* History, for the properties:                                            *)
(*   unanswered   service calls for the goal that nothing has answered     *)
(*   raced        a dispatch has gone on although what it rests on was     *)
(*                gone: the checks made before waiting for the lock, or    *)
(*                its pending command, given up before it was sent         *)
(*   settled      ids of commands that were acknowledged, superseded by an *)
(*                intervention, or called before Resume or an unavailable  *)
(*                target discarded everything                              *)
(*   user         revisions under which feedback had a user context        *)
(*   ignored      such feedback was not judged: the pending command was    *)
(*                not sent yet, or was of an older revision                *)
(*   overtaken    a late echo was recorded as a failure while a dispatch   *)
(*                that had passed its checks was under way                 *)

History == [unanswered: Nat, raced: BOOLEAN, settled: SUBSET Nat, user: SUBSET Nat,
            ignored: BOOLEAN, overtaken: BOOLEAN]

Answered(h) == [h EXCEPT !.unanswered = 0]
Retargeted(h, v) == IF b.goal = v THEN h ELSE Answered(h)
Noted(h, fb) == [h EXCEPT !.user = IF fb.user THEN @ \union {fb.rev} ELSE @]
Ignored(h, fb) == [Noted(h, fb) EXCEPT !.ignored = @ \/ fb.user]
Settled(h) == [Answered(h) EXCEPT !.settled = @ \union ({b.pending.id} \ {0})]
Overtaken(h) == [Answered(h) EXCEPT !.overtaken = @ \/ b.pending # NoCmd]
Discarded(h) == [Answered(h) EXCEPT !.settled = @ \union {c.id : c \in Called}]

-----------------------------------------------------------------------------
Init ==
  /\ b = [pending |-> NoCmd, completed |-> NoCmd, queued |-> NoIntent, acked |-> NoVal,
          lastDispatch |-> Never, goal |-> NoVal, attempts |-> 0,
          failed |-> FALSE, status |-> "idle", baseline |-> NoVal, uncertain |-> <<>>]
  /\ gate = TRUE
  /\ timer = {}
  /\ lock = <<>>
  /\ task = [t \in Task |-> Idle]
  /\ jobs = <<>>
  /\ journal = [mem |-> NoRecord, disk |-> NoRecord]
  /\ \E v \in Val : env = [live |-> v, seen |-> v, rev |-> 0, gen |-> 0,
                           mode |-> "owned", fit |-> TRUE, data |-> TRUE]
  /\ events = <<>>
  /\ clock = 0
  /\ nextId = 1
  /\ calls = <<>>
  /\ spent = 0
  /\ hist = [unanswered |-> 0, raced |-> FALSE, settled |-> {}, user |-> {},
             ignored |-> FALSE, overtaken |-> FALSE]

-----------------------------------------------------------------------------
(* async_submit *)

\* The head of _async_dispatch, up to the first journal write.
Begin(t, s, i, now) ==
  LET c == [id |-> nextId, val |-> i.val, rev |-> i.rev, reg |-> now, sent |-> FALSE]
  IN /\ b' = [s EXCEPT !.queued = NoIntent, !.pending = c, !.completed = NoCmd]
     /\ task' = [task EXCEPT ![t] = [pc |-> "persist", intent |-> i, now |-> now,
                                     cmd |-> c, callAt |-> 0]]
     /\ nextId' = nextId + 1
     /\ EnqueueJob("persist", c, NoFeedback)


\* _schedule_broker_deadline: the ack timer of the pending command.
SetTimer(i, c) == timer' = IF i.kind.timed THEN {Deadline(c)} ELSE timer

Unstarted == Cardinality({t \in Task : task[t].pc = "waiting"})

\* Closed gate or failed preflight.
Refused(s, i, now) ==
  /\ ~Permitted(i, now)
  /\ b' = IF gate THEN Invalidate(s) ELSE s
  /\ UNCHANGED <<timer, task, lock, jobs, nextId, env, hist>>

\* A command is pending: the intent replaces the queued one.
Postponed(s, i, now) ==
  /\ Permitted(i, now)
  /\ s.pending # NoCmd
  /\ b' = [s EXCEPT !.queued = i]
  /\ SetTimer(i, s.pending)
  /\ UNCHANGED <<task, lock, jobs, nextId, env, hist>>

\* A recovery reassertion finds the live target already at the request.
AlreadyCurrent(s, i, now) ==
  /\ Permitted(i, now)
  /\ s.pending = NoCmd
  /\ i.kind.recovery /\ env.live = i.val
  /\ b' = [Retarget(s, i.val) EXCEPT !.acked = env.live, !.queued = NoIntent,
                                     !.status = "acknowledged", !.failed = FALSE]
  /\ hist' = Answered(hist)
  /\ UNCHANGED <<timer, task, lock, jobs, nextId, env>>

Considered(s, i, now) ==
  /\ Permitted(i, now)
  /\ s.pending = NoCmd
  /\ ~(i.kind.recovery /\ env.live = i.val)

\* An unexpected live value: the caller records an external target, or ignores it.
FoundExternal(s, i, now) ==
  /\ Considered(s, i, now)
  /\ ~LiveKnown(Prepare(s, i), i)
  /\ b' = Invalidate(Prepare(s, i))
  /\ IF i.kind.timed
     THEN env' = Transition(env, "manual") /\ hist' = Answered(hist)
     ELSE UNCHANGED env /\ hist' = Retargeted(hist, i.val)
  /\ UNCHANGED <<timer, task, lock, jobs, nextId>>

\* The budget is spent, or the anti-chatter rules keep the established target.
Suppressed(s, i, now) ==
  LET p == Prepare(s, i)
  IN /\ Considered(s, i, now)
     /\ LiveKnown(p, i)
     /\ Exhausted(p) \/ (~BackingOff(p, now) /\ Held(p, i))
     /\ b' = p
     /\ hist' = Retargeted(hist, i.val)
     /\ UNCHANGED <<timer, task, lock, jobs, nextId, env>>

\* Too soon after the last dispatch: the intent is queued.
Delayed(s, i, now) ==
  LET p == Prepare(s, i)
      q == [p EXCEPT !.queued = i]
  IN /\ Considered(s, i, now)
     /\ LiveKnown(p, i)
     /\ ~Exhausted(p)
     /\ \/ BackingOff(p, now) /\ b' = [q EXCEPT !.status = "retry_pending"]
        \/ ~BackingOff(p, now) /\ ~Held(p, i) /\ TooSoon(p, i, now) /\ b' = q
     /\ hist' = Retargeted(hist, i.val)
     /\ UNCHANGED <<timer, task, lock, jobs, nextId, env>>

LockUnused == TRUE      \* with a bug: no task ever waits for the lock

\* async with state.lock: nobody holds the target's lock.
LockFree == lock = <<>>

\* Every check passed: dispatch now, or wait for the target's lock.
Accepted(t, s, i, now) ==
  LET p == Prepare(s, i)
  IN /\ Considered(s, i, now)
     /\ LiveKnown(p, i)
     /\ RemainingChecks(p, i, now)
     /\ nextId + Unstarted <= MaxCommands
     /\ now + AckWindow <= MaxClock
     /\ lock' = Append(lock, t)
     /\ IF LockFree
        THEN Begin(t, p, i, now)
        ELSE /\ b' = p
             /\ task' = [task EXCEPT ![t] = [Idle EXCEPT !.pc = "waiting", !.intent = i,
                                                         !.now = now]]
             /\ UNCHANGED <<jobs, nextId>>
     /\ hist' = Retargeted(hist, i.val)
     /\ UNCHANGED <<timer, env>>

AsyncSubmit(t, s, i, now) ==
  \/ Refused(s, i, now)
  \/ Postponed(s, i, now)
  \/ AlreadyCurrent(s, i, now)
  \/ FoundExternal(s, i, now)
  \/ Suppressed(s, i, now)
  \/ Delayed(s, i, now)
  \/ Accepted(t, s, i, now)

\* _async_apply_calculation: an intent stamped with the current generations and
\* with the `now` captured before the task's earlier awaits.
Submit(t) ==
  /\ task[t].pc = "idle"
  /\ \E v \in Val, k \in Kinds, now \in (clock - MaxLag) .. clock :
       /\ now >= 0
       /\ AsyncSubmit(t, b, [val |-> v, kind |-> k, gen |-> env.gen, rev |-> env.rev,
                             at |-> now], now)
  /\ UNCHANGED <<gate, journal, events, clock, calls, spent>>

\* async_drain_queued: the queued intent is taken and submitted again.
Drain(t) ==
  /\ Drains
  /\ task[t].pc = "idle"
  /\ b.queued # NoIntent /\ b.pending = NoCmd
  /\ AsyncSubmit(t, Invalidate(b), b.queued, clock)
  /\ UNCHANGED <<gate, journal, events, clock, calls, spent>>

-----------------------------------------------------------------------------
(* _async_dispatch *)

\* The first waiter gets the lock and dispatches, with no check in between.
AcquireLock(t) ==
  /\ task[t].pc = "waiting"
  /\ lock[1] = t
  /\ LET i == task[t].intent
         now == task[t].now
     IN /\ Begin(t, b, i, now)
        /\ hist' = [hist EXCEPT !.raced = @ \/ b.pending # NoCmd \/ b.goal # i.val
                                            \/ ~RemainingChecks(b, i, now)]
  /\ UNCHANGED <<gate, timer, lock, journal, env, events, clock, calls, spent>>

MayProceedUnchecked(t) == gate   \* with a bug: nothing is checked again

\* _preflight_reason or _live_target_reason of a dispatch in progress.
MayProceed(t) ==
  Permitted(task[t].intent, task[t].now) /\ LiveKnown(b, task[t].intent)

FinishHolding(t) ==     \* with a bug: the lock is not released
  task' = [task EXCEPT ![t] = Idle] /\ UNCHANGED lock

\* The dispatch ends without a service call.
Finish(t) ==
  /\ task' = [task EXCEPT ![t] = Idle]
  /\ lock' = Tail(lock)

\* The dispatch is abandoned: its journal entry is resolved first.
Cancel(t, c, external) ==
  /\ b' = [b EXCEPT !.pending = NoCmd]
  /\ task' = [task EXCEPT ![t].pc = "cancel", ![t].cmd = c]
  /\ jobs' = Append(Tail(jobs),
                    [then |-> IF external THEN "cancel_external" ELSE "cancel",
                     cmd |-> c, fb |-> NoFeedback])
  /\ UNCHANGED lock

\* async_persist_pending returns.
AfterPersist(t, verified) ==
  LET c == [task[t].cmd EXCEPT !.sent = TRUE]
  IN \/ /\ ~verified
        /\ b' = [b EXCEPT !.pending = NoCmd]
        /\ Finish(t)
        /\ jobs' = Tail(jobs)
     \/ /\ verified /\ ~MayProceed(t)
        /\ Cancel(t, task[t].cmd, Permitted(task[t].intent, task[t].now))
     \/ /\ verified /\ MayProceed(t)
        /\ task' = [task EXCEPT ![t].pc = "mark", ![t].cmd = c]
        /\ jobs' = Append(Tail(jobs), [then |-> "mark", cmd |-> c, fb |-> NoFeedback])
        /\ UNCHANGED <<b, lock>>

\* The service call is issued, with the state it is issued in.
CallService(t) ==
  LET c == task[t].cmd
  IN /\ b' = [b EXCEPT !.pending = c, !.attempts = @ + 1, !.lastDispatch = task[t].now,
                       !.status = "awaiting_acknowledgement"]
     /\ task' = [task EXCEPT ![t].pc = "call", ![t].callAt = clock]
     /\ calls' = Append(calls, [cmd |-> c, at |-> clock])
     /\ hist' = [hist EXCEPT !.unanswered = @ + 1, !.raced = @ \/ b.pending.id # c.id]
     /\ jobs' = Tail(jobs)
     /\ UNCHANGED lock

AfterMarkUnverified(t, verified) ==   \* with a bug: a failed write is not noticed
  \/ /\ ~MayProceed(t)
     /\ Cancel(t, task[t].cmd, PreflightPasses(task[t].intent, task[t].now)
                                 /\ ~LiveKnown(b, task[t].intent))
     /\ UNCHANGED <<calls, hist>>
  \/ MayProceed(t) /\ CallService(t)

\* async_mark_dispatched returns.
AfterMark(t, verified) ==
  \/ /\ ~verified
     /\ b' = [b EXCEPT !.pending = NoCmd]
     /\ Finish(t)
     /\ jobs' = Tail(jobs)
     /\ UNCHANGED <<calls, hist>>
  \/ /\ verified /\ ~MayProceed(t)
     /\ Cancel(t, task[t].cmd, PreflightPasses(task[t].intent, task[t].now)
                                 /\ ~LiveKnown(b, task[t].intent))
     /\ UNCHANGED <<calls, hist>>
  \/ /\ verified /\ MayProceed(t)
     /\ CallService(t)

\* The service call returns, fails, or is stopped by its deadline.
CallEnd(t) ==
  /\ task[t].pc = "call"
  /\ \/ UNCHANGED <<b, spent>>
     \/ /\ Disturb("call_fails")
        /\ b' = IF b.pending = task[t].cmd
                THEN WriteFailed([b EXCEPT !.uncertain = Remember(@, task[t].cmd)])
                ELSE b
  /\ IF b.pending = task[t].cmd
     THEN SetTimer(task[t].intent, task[t].cmd)
     ELSE UNCHANGED timer
  /\ Finish(t)
  /\ UNCHANGED <<gate, jobs, journal, env, events, clock, nextId, calls, hist>>

-----------------------------------------------------------------------------
(* Device events: async_feedback and the handlers of runtime.py around it *)

LateOfAnyGoal(fb) ==    \* with a bug: the command may be of an earlier goal
  {c \in Range(b.uncertain) : c.val = fb.val}

\* The unresolved commands for the goal that the feedback acknowledges.
LateAcknowledged(fb) == {c \in Range(b.uncertain) : c.val = b.goal /\ c.val = fb.val}

\* An echo of a command when none is pending: a late acknowledgement of the goal,
\* or an obsolete write that has replaced the acknowledged target.
EchoFeedback(fb) ==
  LET late == LateAcknowledged(fb)
  IN \/ /\ late # {}
        /\ b' = Acknowledge(b, fb.val)
        /\ timer' = {}
        /\ hist' = Answered(hist)
     \/ /\ late = {}
        /\ IF b.goal # NoVal /\ b.acked # NoVal /\ ~b.failed /\ b.acked # fb.val
           THEN /\ b' = WriteFailed([b EXCEPT !.attempts = 0, !.baseline = fb.val])
                /\ hist' = Overtaken(hist)
           ELSE UNCHANGED <<b, hist>>
        /\ UNCHANGED timer

\* No command is pending: an echo of an unresolved one, or an external target.
UnsolicitedFeedback(fb, e) ==
  \/ /\ Echo(b, fb)
     /\ EchoFeedback(fb)
     /\ env' = e
  \/ /\ ~Echo(b, fb)
     /\ env' = Transition(e, "manual")
     /\ b' = Invalidate(b)
     /\ hist' = Answered(Noted(hist, fb))
     /\ UNCHANGED timer

\* classify_acknowledgement for the pending command p, and what follows from it.
PendingFeedback(fb, e) ==
  LET p == b.pending
      current == p.rev = fb.rev
      own == fb.ctx = p.id
      matches == p.val = fb.val
      cleared == [b EXCEPT !.pending = NoCmd, !.queued = NoIntent]
  IN /\ env' = e
     /\ \/ /\ Echo(b, fb) /\ ~matches               \* an older command's echo
           /\ UNCHANGED <<b, jobs, hist>>
        \/ /\ Echo(b, fb) => matches
           /\ \/ /\ ~current                        \* obsolete feedback
                 /\ hist' = Ignored(hist, fb)
                 /\ UNCHANGED <<b, jobs>>
              \/ /\ current /\ ~fb.user /\ matches  \* acknowledged
                 /\ b' = [Acknowledge(b, fb.val) EXCEPT !.pending = NoCmd,
                                                        !.completed = p]
                 /\ hist' = Settled(hist)
                 /\ EnqueueJob("settled", p, NoFeedback)
              \/ /\ current /\ ~fb.user /\ own /\ ~matches   \* coerced or rejected
                 /\ b' = WriteFailed([cleared EXCEPT !.uncertain = Remember(@, p),
                                                     !.baseline = fb.val])
                 /\ UNCHANGED hist
                 /\ EnqueueJob("settled", p, NoFeedback)
              \/ /\ current                         \* intervention
                 /\ fb.user \/ (~own /\ ~matches)
                 /\ b' = cleared
                 /\ hist' = Settled(Noted(hist, fb))
                 /\ EnqueueJob("external", p, NoFeedback)

\* _async_process_target_feedback and async_feedback up to their first await.
ProcessFeedback(fb, e) ==
  \/ /\ b.pending # NoCmd /\ ~b.pending.sent
     /\ env' = e
     /\ hist' = Ignored(hist, fb)
     /\ UNCHANGED <<b, timer, jobs>>
  \/ /\ b.pending # NoCmd /\ b.pending.sent /\ clock >= Deadline(b.pending)
     /\ b' = TimedOut(b)
     /\ env' = e
     /\ hist' = Noted(hist, fb)
     /\ EnqueueJob("late_feedback", b.pending, fb)
     /\ UNCHANGED timer
  \/ /\ b.pending # NoCmd /\ b.pending.sent /\ clock < Deadline(b.pending)
     /\ PendingFeedback(fb, e)
     /\ UNCHANGED timer
  \/ /\ b.pending = NoCmd
     /\ UnsolicitedFeedback(fb, e)
     /\ UNCHANGED jobs

FeedbackOf(ev) == [val |-> ev.val, ctx |-> ev.ctx, user |-> ev.user, rev |-> env.rev]

\* _async_handle_target_state, availability unchanged.
HandleChange(ev) ==
  LET e == [env EXCEPT !.seen = ev.val]
  IN \/ /\ env.seen = ev.val \/ ev.val = NoVal
        /\ env' = e
        /\ UNCHANGED <<b, timer, jobs, hist>>
     \/ /\ env.seen # ev.val /\ ev.val # NoVal
        /\ ProcessFeedback(FeedbackOf(ev), e)

\* The same for a target that became unavailable or returned: a revision, then
\* async_target_unavailable, and the value is recorded after its await.
HandleAvailability(ev) ==
  \E fit \in BOOLEAN :
    LET mode == IF ev.val # NoVal /\ env.mode = "owned" THEN "suspended" ELSE env.mode
        e == [Transition(env, mode) EXCEPT !.fit = fit]
    IN
     /\ fit => ev.val # NoVal
     /\ hist' = Discarded(hist)
     /\ IF b.pending # NoCmd
        THEN /\ b' = Reset(b)
             /\ env' = e
             /\ EnqueueJob("unavailable", b.pending,
                           [NoFeedback EXCEPT !.val = ev.val])
             /\ UNCHANGED timer
        ELSE /\ b' = [Reset(b) EXCEPT !.acked = NoVal, !.status = "waiting_target"]
             /\ env' = [e EXCEPT !.seen = ev.val]
             /\ timer' = {}
             /\ UNCHANGED jobs

\* _async_handle_target_report: an unchanged report only answers a pending command.
HandleReport(ev) ==
  \/ /\ b.pending = NoCmd \/ ev.val = NoVal
     /\ UNCHANGED <<b, env, timer, jobs, hist>>
  \/ /\ b.pending # NoCmd /\ ev.val # NoVal
     /\ ProcessFeedback(FeedbackOf(ev), env)

HandleEvent ==
  /\ events # <<>>
  /\ LET ev == Head(events)
     IN \/ ev.report /\ HandleReport(ev)
        \/ ~ev.report /\ (ev.was = NoVal) # (ev.val = NoVal) /\ HandleAvailability(ev)
        \/ ~ev.report /\ (ev.was = NoVal) = (ev.val = NoVal) /\ HandleChange(ev)
  /\ events' = Tail(events)
  /\ UNCHANGED <<gate, lock, task, journal, clock, nextId, calls, spent>>

-----------------------------------------------------------------------------
(* The rest of the broker's operations and of its environment *)

\* The ack timer fires: async_acknowledgement_timeout gives up a pending command
\* that is overdue, sent or not.
AckTimeout ==
  /\ \E d \in timer : clock >= d
  /\ timer' = {}
  /\ IF b.pending # NoCmd /\ clock >= Deadline(b.pending)
     THEN b' = TimedOut(b) /\ EnqueueJob("timed_out", b.pending, NoFeedback)
     ELSE UNCHANGED <<b, jobs>>
  /\ UNCHANGED <<gate, lock, task, journal, env, events, clock, nextId, calls, spent, hist>>

\* async_resume for this target: the RESUME transition follows the broker's await.
Resume ==
  /\ Disturb("resume")
  /\ hist' = Discarded(hist)
  /\ b' = Reset(b)
  /\ IF b.pending # NoCmd
     THEN /\ EnqueueJob("resumed", b.pending, NoFeedback)
          /\ UNCHANGED <<timer, env>>
     ELSE /\ env' = Transition(env, "suspended")
          /\ timer' = {}
          /\ UNCHANGED jobs
  /\ UNCHANGED <<gate, lock, task, journal, events, clock, nextId, calls>>

\* async_unload: close_gate, and no timer is left.
CloseGate ==
  /\ Disturb("unload")
  /\ gate
  /\ gate' = FALSE
  /\ timer' = {}
  /\ b' = Invalidate(b)
  /\ UNCHANGED <<lock, task, jobs, journal, env, events, clock, nextId, calls, hist>>

\* The disk keeps the old record ("lost"), or has the new one although the
\* readback could not verify it ("unverified").
WriteOutcomes == {"verified", "unverified", "lost"}

Recorded(j) ==
  CASE j.then = "persist" -> [id |-> j.cmd.id, sent |-> FALSE]
    [] j.then = "mark"    -> [id |-> j.cmd.id, sent |-> TRUE]
    [] OTHER              -> NoRecord

\* The dispatch was given up for an external target, and its caller records that.
RecordsExternal(j, t) ==
  j.then = "cancel_external" /\ env.mode # "manual" /\ task[t].intent.kind.timed

\* The dispatch t that awaited the write j goes on.
ContinueDispatch(j, t, verified) ==
  \/ /\ j.then = "persist"
     /\ AfterPersist(t, verified)
     /\ UNCHANGED <<timer, env, calls, hist>>
  \/ /\ j.then = "mark"
     /\ AfterMark(t, verified)
     /\ UNCHANGED <<timer, env>>
  \/ /\ j.then \in {"cancel", "cancel_external"} /\ ~RecordsExternal(j, t)
     /\ Finish(t)
     /\ jobs' = Tail(jobs)
     /\ UNCHANGED <<b, timer, env, calls, hist>>
  \/ /\ RecordsExternal(j, t)
     /\ Finish(t)
     /\ jobs' = Tail(jobs)
     /\ env' = Transition(env, "manual")
     /\ b' = Invalidate(b)
     /\ hist' = Answered(hist)
     /\ UNCHANGED <<timer, calls>>

\* Another coroutine that awaited the write j goes on.
ContinueOther(j) ==
  /\ \/ /\ j.then = "timed_out"
        /\ UNCHANGED <<b, timer, env, hist>>
     \/ /\ j.then = "settled"
        /\ timer' = {}
        /\ UNCHANGED <<b, env, hist>>
     \/ /\ j.then = "external"
        /\ env' = Transition(env, "manual")
        /\ b' = Invalidate(b)
        /\ UNCHANGED <<timer, hist>>
     \/ /\ j.then = "late_feedback"
        /\ UnsolicitedFeedback(j.fb, env)
     \/ /\ j.then = "resumed"
        /\ env' = Transition(env, "suspended")
        /\ timer' = {}
        /\ b' = Invalidate(b)
        /\ UNCHANGED hist
     \/ /\ j.then = "unavailable"
        /\ env' = [env EXCEPT !.seen = j.fb.val]
        /\ timer' = {}
        /\ b' = [b EXCEPT !.acked = NoVal, !.status = "waiting_target"]
        /\ UNCHANGED hist
  /\ jobs' = Tail(jobs)
  /\ UNCHANGED <<lock, task, calls>>

\* ZoneCommandPersistence._write_command completes and its caller goes on.
JobDone ==
  /\ jobs # <<>>
  /\ \E w \in WriteOutcomes :
       /\ IF w = "verified" THEN UNCHANGED spent ELSE Disturb("write_fails")
       /\ journal' = [mem |-> Recorded(Head(jobs)),
                      disk |-> IF w = "lost" THEN journal.disk ELSE Recorded(Head(jobs))]
       /\ \/ ContinueDispatch(Head(jobs), lock[1], w = "verified")
          \/ ContinueOther(Head(jobs))
  /\ UNCHANGED <<gate, events, clock, nextId>>

\* Another writer of the store saves the record the memory holds.
OtherWrite ==
  /\ journal.disk # journal.mem
  /\ journal' = [journal EXCEPT !.disk = journal.mem]
  /\ UNCHANGED <<b, gate, timer, lock, task, jobs, env, events, clock, nextId, calls, spent, hist>>

\* Every other _transition: disable, enable, expiry, mode changes.
OwnershipChange ==
  /\ Disturb("ownership")
  /\ \E mode \in {env.mode, "suspended"}, fit \in BOOLEAN :
       env' = [Transition(env, mode) EXCEPT !.fit = fit]
  /\ b' = Invalidate(b)
  /\ UNCHANGED <<gate, timer, lock, task, jobs, journal, events, clock, nextId, calls, hist>>

\* _reconcile_targets hands the target back to ATHB.
Reconciled ==
  /\ env.mode = "suspended" /\ TargetReady
  /\ env' = [Transition(env, "owned") EXCEPT !.data = TRUE]
  /\ b' = Invalidate(b)
  /\ UNCHANGED <<gate, timer, lock, task, jobs, journal, events, clock, nextId, calls, spent, hist>>

\* _reconcile_targets records a readiness without a transition.
ReadinessChange ==
  /\ Disturb("readiness")
  /\ \E data, fit \in BOOLEAN : env' = [env EXCEPT !.data = data, !.fit = fit]
  /\ UNCHANGED <<b, gate, timer, lock, task, jobs, journal, events, clock, nextId, calls, hist>>

\* A new measurement or setting: the input or entry generation advances.
InputChange ==
  /\ Disturb("input")
  /\ env' = [env EXCEPT !.gen = @ + 1]
  /\ UNCHANGED <<b, gate, timer, lock, task, jobs, journal, events, clock, nextId, calls, hist>>

\* _service_event: somebody else calls climate.set_temperature for the target.
ServiceEvent ==
  /\ Disturb("service_event")
  /\ \E v \in Val, user \in BOOLEAN :
       ~Echo(b, [val |-> v, ctx |-> 0, user |-> user, rev |-> env.rev])
  /\ env' = Transition(env, "manual")
  /\ b' = Invalidate(b)
  /\ hist' = Answered(hist)
  /\ UNCHANGED <<gate, timer, lock, task, jobs, journal, events, clock, nextId, calls>>

\* The device target changes: somebody else's change, or the effect of any
\* command sent so far, perhaps coerced to another value.
DeviceChange ==
  /\ Disturb("device")
  /\ \E v \in ValOrNone \ {env.live}, c \in Called \union {NoCmd}, user \in BOOLEAN :
       /\ user => c = NoCmd
       /\ env' = [env EXCEPT !.live = v]
       /\ events' = Append(events, [report |-> FALSE, was |-> env.live, val |-> v,
                                    ctx |-> c.id, user |-> user])
  /\ UNCHANGED <<b, gate, timer, lock, task, jobs, journal, clock, nextId, calls, hist>>

\* The device reports its unchanged state while a command is pending.
DeviceReport ==
  /\ Disturb("report")
  /\ b.pending # NoCmd
  /\ \E c \in Called \union {NoCmd}, user \in BOOLEAN :
       /\ user => c = NoCmd
       /\ events' = Append(events, [report |-> TRUE, was |-> env.live, val |-> env.live,
                                    ctx |-> c.id, user |-> user])
  /\ UNCHANGED <<b, gate, timer, lock, task, jobs, journal, env, clock, nextId, calls, hist>>

\* Time passes, but never past the deadline of a service call.
Tick ==
  /\ clock < MaxClock
  /\ \A t \in Task : task[t].pc = "call" => clock < task[t].callAt + ServiceLimit
  /\ clock' = clock + 1
  /\ UNCHANGED <<b, gate, timer, lock, task, jobs, journal, env, events, nextId, calls, spent, hist>>

Next ==
  \/ \E t \in Task : Submit(t) \/ Drain(t) \/ AcquireLock(t) \/ CallEnd(t)
  \/ JobDone \/ OtherWrite
  \/ HandleEvent \/ AckTimeout \/ Resume \/ CloseGate
  \/ OwnershipChange \/ Reconciled \/ ReadinessChange \/ InputChange \/ ServiceEvent
  \/ DeviceChange \/ DeviceReport
  \/ Tick

Spec == Init /\ [][Next]_vars

\* The loop runs every ready coroutine, a write and a service call end, timers
\* fire, and events are handled.
Fairness ==
  /\ \A t \in Task : WF_vars(AcquireLock(t)) /\ WF_vars(CallEnd(t))
  /\ WF_vars(JobDone) /\ WF_vars(AckTimeout) /\ WF_vars(HandleEvent) /\ WF_vars(Tick)

FairSpec == Spec /\ Fairness

-----------------------------------------------------------------------------
(* Properties *)

BrokerState ==
  [pending: Cmd, completed: Cmd, queued: Intent, acked: ValOrNone, lastDispatch: Int, goal: ValOrNone, attempts: Nat, failed: BOOLEAN,
   status: Statuses, baseline: ValOrNone, uncertain: Seq(Cmd)]

TaskState == [pc: Pc, intent: Intent, now: Nat, cmd: Cmd, callAt: Nat]

Environment == [live: ValOrNone, seen: ValOrNone, rev: Nat, gen: Nat,
                mode: {"owned", "manual", "suspended"}, fit: BOOLEAN, data: BOOLEAN]

Event == [report: BOOLEAN, was: ValOrNone, val: ValOrNone, ctx: Nat, user: BOOLEAN]

\* Every variable has its type, and a target retains at most MaxAttempts uncertain
\* commands.
TypeOK ==
  /\ b \in BrokerState
  /\ Len(b.uncertain) <= MaxAttempts
  /\ gate \in BOOLEAN
  /\ timer \in SUBSET Int
  /\ lock \in Seq(Task)
  /\ task \in [Task -> TaskState]
  /\ jobs \in Seq(Job)
  /\ journal \in [mem: Record, disk: Record]
  /\ env \in Environment
  /\ events \in Seq(Event)
  /\ clock \in Nat
  /\ nextId \in Nat \ {0}
  /\ calls \in Seq([cmd: Cmd, at: Nat])
  /\ spent \in Nat
  /\ hist \in History

\* The dispatch in progress: the tasks that hold the target's lock.
Dispatching == {t \in Task : task[t].pc \in {"persist", "mark", "cancel", "call"}}

\* Service calls for one target never overlap, nor do two dispatches: whatever the
\* interleaving of submits, waits and failures, the lock has one holder at a time.
OneDispatchAtATime == \A t, u \in Dispatching : t = u

CallIssued == Len(calls') > Len(calls)

\* A service call is only made for a target that, at that instant, ATHB owns under
\* the revision and generation of the intent, and whose live value it has seen; what
\* changed while the two journal writes were awaited stops the dispatch.
CallsPermitted ==
  [][CallIssued =>
       \E t \in Task :
         /\ task'[t].pc = "call" /\ task[t].pc # "call"
         /\ gate
         /\ env.mode = "owned" /\ env.fit
         /\ env.rev = task[t].intent.rev /\ env.gen = task[t].intent.gen
         /\ env.live # NoVal /\ env.live = env.seen
         /\ env.data \/ task[t].intent.kind.safety]_vars

\* A change with a user context ends automatic control: no service call is made under
\* the ownership revision it was judged under, although the transition to a manual
\* override may have to wait for a journal write.
UserChangesRespected ==
  [][CallIssued /\ ~hist.ignored
       => \A t \in Task : task'[t].pc = "call" /\ task[t].pc # "call"
                            => task[t].intent.rev \notin hist.user]_vars

\* At every instant a crash would leave a journal that shows the dispatched command:
\* a service call is never outstanding without its record on disk, as long as no
\* dispatch has gone on although its command had been given up.
JournalCoversPending ==
  b.pending.sent /\ ~hist.raced => journal.disk = [id |-> b.pending.id, sent |-> TRUE]

\* A goal gets at most MaxAttempts service calls before something answers one of them.
BudgetRespected == hist.unanswered <= MaxAttempts \/ hist.raced

\* Recorded dispatch times keep the hard interval, and the ordinary one after a failure,
\* as long as no failure has been recorded behind the back of a dispatch that had passed
\* its checks: the checks after the journal writes do not ask for the pause again.
DispatchesSpaced ==
  [][CallIssued /\ ~hist'.raced =>
       /\ b'.lastDispatch - b.lastDispatch >= HardInterval
       /\ b.failed /\ ~hist.overtaken
            => b'.lastDispatch - b.lastDispatch >= OrdinaryInterval]_vars

\* An acknowledged status means that the goal, and nothing else, was confirmed: no
\* late, coerced or obsolete echo leaves a different value established.
AcknowledgedIsGoal ==
  b.status = "acknowledged" /\ b.acked # NoVal /\ ~hist.raced
    => ~b.failed /\ b.acked = b.goal

\* The ownership revision of the feedback a step judges.
JudgedRevision == IF jobs # <<>> /\ jobs' = Tail(jobs) THEN Head(jobs).fb.rev ELSE env.rev

\* Device feedback acknowledges a value only if a service call for it was made under
\* the ownership revision in force when the feedback came; without feedback, a submit
\* that finds the live target at its request acknowledges that target.
AcknowledgementsEarned ==
  [][b'.status = "acknowledged" /\ b.status # "acknowledged" =>
       \/ events' = events /\ jobs' = jobs /\ b'.acked = env.live
       \/ \E c \in Called : c.val = b'.acked /\ c.rev = JudgedRevision]_vars

\* The last MaxAttempts service calls are accounted for: a call that was never
\* acknowledged is pending or kept as uncertain, so that its late echo is not taken for
\* a manual change.  A command that timed out unsent can take the place of an older one.
CallsAccountedFor ==
  \A k \in DOMAIN calls :
    LET c == calls[k].cmd
    IN k > Len(calls) - MaxAttempts /\ ~hist.raced
         => \/ c.id \in hist.settled \/ c = b.pending \/ c \in Range(b.uncertain)
            \/ \E d \in Range(b.uncertain) : ~d.sent

\* Every submit comes to an end: no task waits for the lock forever.
SubmitsEnd == \A t \in Task : task[t].pc # "idle" ~> task[t].pc = "idle"

\* A command that has, or will have, an ack timer of its own: a timed intent is being
\* dispatched with it, or it is pending, sent, and the timer is set for it.
Clocked(id) ==
  \/ \E t \in Dispatching : task[t].cmd.id = id /\ task[t].intent.kind.timed
  \/ b.pending.sent /\ Deadline(b.pending) \in timer


\* docs/operations.md: "Explicit user-context calls and differing external targets
\* remain interventions."  The same without the exception.
UserChangesAlwaysRespected ==
  [][CallIssued
       => \A t \in Task : task'[t].pc = "call" /\ task[t].pc # "call"
                            => task[t].intent.rev \notin hist.user]_vars

\* What the tests and the plan say (SI-13): one pending command per target.  A
\* dispatched command stays pending until it is resolved, no other replaces it.
OnePending == [][b.pending.sent /\ b'.pending # b.pending => b'.pending = NoCmd]_vars

=============================================================================
