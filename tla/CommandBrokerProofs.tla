------------------------- MODULE CommandBrokerProofs -------------------------
(***************************************************************************)
(* Theorems about CommandBroker.  IInv adds to the types what ties the     *)
(* lock, the tasks and the journal writes together: only the task at the   *)
(* head of the lock dispatches, and at most one journal write is awaited   *)
(* by a dispatch, namely the one that the stage of that task names.  DInv  *)
(* adds what ties the pending command to the journal and to the attempts.  *)
(* Outcome sums up what any step does to the commands, and CommandInv is   *)
(* what follows for the calls made: their order, the pauses between them,  *)
(* what is still kept of them and the users' changes they stay behind.     *)
(***************************************************************************)
EXTENDS CommandBroker, TLAPS, SequenceTheorems, FiniteSetTheorems

\* The stage of the dispatch that awaits a journal write.
Stage == [then \in TaskContinuations |->
            IF then = "persist" THEN "persist" ELSE IF then = "mark" THEN "mark" ELSE "cancel"]

LockInv ==
  /\ \A t \in Dispatching : lock # <<>> /\ lock[1] = t
  /\ \A t \in Task : task[t].pc = "waiting" => t \in Range(lock)
  /\ \A t \in Task : task[t].pc = "idle" => t \notin Range(lock)
  /\ \A k, l \in DOMAIN lock : lock[k] = lock[l] => k = l

AwaitedJobs == {k \in DOMAIN jobs : jobs[k].then \in TaskContinuations}

JobInv ==
  /\ \A k \in AwaitedJobs : lock # <<>> /\ task[lock[1]].pc = Stage[jobs[k].then]
  /\ \A k, l \in AwaitedJobs : k = l

IInv == TypeOK /\ LockInv /\ JobInv

-----------------------------------------------------------------------------
(* Types of the broker's helpers *)

LEMMA RangeType ==
  ASSUME NEW S, NEW q \in Seq(S)
  PROVE  Range(q) \subseteq S
  BY DEF Range

LEMMA Elements ==
  ASSUME NEW S, NEW q \in Seq(S)
  PROVE  /\ \A k \in DOMAIN q : q[k] \in S
         /\ q # <<>> => Head(q) \in S /\ Head(q) = q[1] /\ 1 \in DOMAIN q
  OBVIOUS

LEMMA AppendElements ==
  ASSUME NEW S, NEW q \in Seq(S), NEW x \in S, NEW k \in DOMAIN Append(q, x)
  PROVE  \/ k \in DOMAIN q /\ Append(q, x)[k] = q[k]
         \/ k = Len(q) + 1 /\ Append(q, x)[k] = x
  OBVIOUS

LEMMA ConstantTypes ==
  /\ NoCmd \in Cmd
  /\ NoKind \in IntentKind
  /\ NoIntent \in Intent
  /\ NoFeedback \in Feedback
  /\ NoRecord \in Record
  /\ Idle \in TaskState
  <1>1. NoVal \in ValOrNone
    BY DEF ValOrNone
  <1>2. NoCmd \in Cmd /\ NoKind \in IntentKind /\ NoFeedback \in Feedback /\ NoRecord \in Record
    BY <1>1 DEF NoCmd, Cmd, NoKind, IntentKind, NoFeedback, Feedback, NoRecord, Record
  <1>3. NoIntent \in Intent
    BY <1>1, <1>2 DEF NoIntent, Intent
  <1>4. Idle \in TaskState
    BY <1>2, <1>3 DEF Idle, TaskState, Pc
  <1>5. QED
    BY <1>2, <1>3, <1>4

\* A broker state whose uncertain commands fit.
Fitting == {s \in BrokerState : Len(s.uncertain) <= MaxAttempts}

LEMMA RememberType ==
  ASSUME NEW u \in Seq(Cmd), Len(u) <= MaxAttempts, NEW c \in Cmd
  PROVE  Remember(u, c) \in Seq(Cmd) /\ Len(Remember(u, c)) <= MaxAttempts
  <1>1. MaxAttempts \in Nat \ {0}
    BY TimeAssumption
  <1>2. CASE c \in Range(u)
    BY <1>2 DEF Remember
  <1>3. CASE c \notin Range(u) /\ Len(u) < MaxAttempts
    BY <1>1, <1>3 DEF Remember
  <1>4. CASE c \notin Range(u) /\ ~(Len(u) < MaxAttempts)
    <2>1. u # <<>> /\ Len(u) = MaxAttempts
      BY <1>1, <1>4
    <2>2. Tail(u) \in Seq(Cmd) /\ Len(Tail(u)) = Len(u) - 1
      BY <2>1
    <2>3. Remember(u, c) = Append(Tail(u), c)
      BY <1>4 DEF Remember
    <2>4. QED
      BY <1>1, <2>1, <2>2, <2>3
  <1>5. QED
    BY <1>2, <1>3, <1>4

LEMMA WriteFailedType ==
  ASSUME NEW s \in Fitting
  PROVE  WriteFailed(s) \in Fitting
  BY DEF WriteFailed, Fitting, BrokerState, Statuses

LEMMA TimedOutType ==
  ASSUME NEW s \in Fitting
  PROVE  TimedOut(s) \in Fitting
  <1> DEFINE u == Remember(s.uncertain, s.pending)
             r == [s EXCEPT !.pending = NoCmd, !.queued = NoIntent, !.uncertain = u]
  <1>1. u \in Seq(Cmd) /\ Len(u) <= MaxAttempts
    BY RememberType DEF Fitting, BrokerState
  <1>2. r \in Fitting
    <2> HIDE DEF u
    <2> QED
    BY <1>1, ConstantTypes DEF Fitting, BrokerState
  <1>3. QED
    BY <1>2, WriteFailedType DEF TimedOut

LEMMA PrepareType ==
  ASSUME NEW s \in Fitting, NEW i \in Intent, env \in Environment
  PROVE  /\ Retarget(s, i.val) \in Fitting
         /\ Prepare(s, i) \in Fitting
  <1>1. Retarget(s, i.val) \in Fitting
    BY DEF Retarget, Fitting, BrokerState, Intent, Statuses
  <1>2. ASSUME NEW r \in Fitting
        PROVE  Adopt(r, i) \in Fitting
    BY DEF Adopt, Fitting, BrokerState, Environment, ValOrNone
  <1>3. QED
    BY <1>1, <1>2 DEF Prepare

LEMMA SimpleTypes ==
  ASSUME NEW s \in Fitting, NEW v \in ValOrNone
  PROVE  /\ Acknowledge(s, v) \in Fitting
         /\ Reset(s) \in Fitting
         /\ Invalidate(s) \in Fitting
  <1>1. Acknowledge(s, v) \in Fitting
    BY DEF Acknowledge, Fitting, BrokerState, Statuses
  <1>2. Reset(s) \in Fitting
    <2>1. <<>> \in Seq(Cmd) /\ Len(<<>>) = 0 /\ 0 <= MaxAttempts
      BY TimeAssumption
    <2>2. QED
      BY <2>1, ConstantTypes DEF Reset, Fitting, BrokerState, Statuses, ValOrNone
  <1>3. Invalidate(s) \in Fitting
    BY ConstantTypes DEF Invalidate, Fitting, BrokerState
  <1>4. QED
    BY <1>1, <1>2, <1>3

LEMMA TransitionType ==
  ASSUME NEW e \in Environment, NEW mode \in {"owned", "manual", "suspended"}
  PROVE  Transition(e, mode) \in Environment
  <1>1. e.rev + 1 \in Nat
    BY DEF Environment
  <1>2. QED
    BY <1>1 DEF Transition, Environment

\* The histories of settled, answered and noted commands.
LEMMA HistoryTypes ==
  ASSUME NEW h \in History, NEW fb \in Feedback, NEW v, b \in BrokerState
  PROVE  /\ Answered(h) \in History
         /\ Retargeted(h, v) \in History
         /\ Noted(h, fb) \in History
         /\ Ignored(h, fb) \in History
         /\ Settled(h) \in History
         /\ Overtaken(h) \in History
  <1>1. Answered(h) \in History
    BY DEF Answered, History
  <1>2. Retargeted(h, v) \in History
    BY <1>1 DEF Retargeted
  <1>3. Noted(h, fb) \in History
    BY DEF Noted, History, Feedback
  <1>4. Ignored(h, fb) \in History
    BY <1>3 DEF Ignored, History
  <1>5. b.pending.id \in Nat
    BY DEF Cmd, BrokerState
  <1>6. Settled(h) \in History
    BY <1>1, <1>5 DEF Settled, History
  <1>7. Overtaken(h) \in History
    BY <1>1 DEF Overtaken, History
  <1>8. QED
    BY <1>1, <1>2, <1>3, <1>4, <1>6, <1>7

LEMMA CalledTypes == TypeOK => Called \subseteq Cmd /\ \A k \in DOMAIN calls : calls[k].cmd \in Cmd
<1> SUFFICES ASSUME TypeOK PROVE Called \subseteq Cmd /\ \A k \in DOMAIN calls : calls[k].cmd \in Cmd
  OBVIOUS
<1>1. calls \in Seq([cmd: Cmd, at: Nat])
  BY DEF TypeOK
<1>2. \A k \in DOMAIN calls : calls[k] \in [cmd: Cmd, at: Nat]
  BY <1>1, Elements
<1>3. \A k \in DOMAIN calls : calls[k].cmd \in Cmd
  BY <1>2
<1>4. Called \subseteq Cmd
  BY <1>3 DEF Called
<1> QED BY <1>3, <1>4

LEMMA DiscardedType ==
  ASSUME TypeOK, NEW h \in History
  PROVE  Discarded(h) \in History
<1>1. {c.id : c \in Called} \subseteq Nat
  <2>1. \A c \in Called : c.id \in Nat
    BY CalledTypes DEF Cmd
  <2> HIDE DEF Called
  <2> QED BY <2>1
<1>2. Answered(h) \in History
  BY DEF Answered, History
<1> QED BY <1>1, <1>2 DEF Discarded, History

-----------------------------------------------------------------------------
(* Types of the steps *)

LEMMA EnqueueType ==
  ASSUME TypeOK, NEW then \in Continuations, NEW c \in Cmd, NEW fb \in Feedback,
         EnqueueJob(then, c, fb)
  PROVE  jobs' \in Seq(Job)
  <1>1. [then |-> then, cmd |-> c, fb |-> fb] \in Job
    BY DEF Job
  <1>2. QED
    BY <1>1 DEF EnqueueJob, TypeOK

LEMMA BeginType ==
  ASSUME TypeOK, NEW t \in Task, NEW s \in Fitting, NEW i \in Intent, NEW now \in Nat,
         Begin(t, s, i, now)
  PROVE  /\ b' \in Fitting
         /\ task' \in [Task -> TaskState]
         /\ jobs' \in Seq(Job)
         /\ nextId' \in Nat \ {0}
  <1> DEFINE c == [id |-> nextId, val |-> i.val, rev |-> i.rev, reg |-> now, sent |-> FALSE]
  <1>1. c \in Cmd
    BY DEF Cmd, Intent, TypeOK
  <1>2. /\ b' = [s EXCEPT !.queued = NoIntent, !.pending = c, !.completed = NoCmd]
        /\ task' = [task EXCEPT ![t] = [pc |-> "persist", intent |-> i, now |-> now,
                                        cmd |-> c, callAt |-> 0]]
        /\ nextId' = nextId + 1
        /\ EnqueueJob("persist", c, NoFeedback)
    BY DEF Begin
  <1> HIDE DEF c
  <1>3. b' \in Fitting
    BY <1>1, <1>2, ConstantTypes DEF Fitting, BrokerState
  <1>4. task' \in [Task -> TaskState]
    BY <1>1, <1>2 DEF TypeOK, TaskState, Pc
  <1>5. jobs' \in Seq(Job)
    BY <1>1, <1>2, EnqueueType, ConstantTypes DEF Continuations, TaskContinuations
  <1>6. QED
    BY <1>2, <1>3, <1>4, <1>5 DEF TypeOK

LEMMA SetTimerType ==
  ASSUME TypeOK, NEW i, NEW c \in Cmd, SetTimer(i, c)
  PROVE  timer' \in SUBSET Int
  <1>1. Deadline(c) \in Int
    BY TimeAssumption DEF Deadline, Cmd
  <1>2. QED
    BY <1>1 DEF SetTimer, TypeOK

\* What async_submit may change keeps its type.
LEMMA AsyncSubmitType ==
  ASSUME TypeOK, NEW t \in Task, NEW s \in Fitting, NEW i \in Intent, NEW now \in Nat,
         AsyncSubmit(t, s, i, now)
  PROVE  /\ b' \in Fitting
         /\ timer' \in SUBSET Int
         /\ lock' \in Seq(Task)
         /\ task' \in [Task -> TaskState]
         /\ jobs' \in Seq(Job)
         /\ nextId' \in Nat \ {0}
         /\ env' \in Environment
         /\ hist' \in History
  <1> DEFINE p == Prepare(s, i)
  <1>1. /\ b \in BrokerState /\ env \in Environment /\ hist \in History
        /\ env.live \in ValOrNone /\ i.val \in ValOrNone
    BY DEF TypeOK, Environment, Intent
  <1>2. p \in Fitting /\ Retarget(s, i.val) \in Fitting
    BY <1>1, PrepareType
  <1>3. /\ Answered(hist) \in History
        /\ Retargeted(hist, i.val) \in History
    BY <1>1, HistoryTypes, ConstantTypes
  <1>4. /\ Transition(env, "manual") \in Environment
        /\ Invalidate(s) \in Fitting /\ Invalidate(p) \in Fitting
    BY <1>1, <1>2, TransitionType, SimpleTypes
  <1> HIDE DEF p
  <1>5. CASE Refused(s, i, now)
    BY <1>4, <1>5 DEF Refused, TypeOK
  <1>6. CASE Postponed(s, i, now)
    <2>1. s.pending \in Cmd
      BY DEF Fitting, BrokerState
    <2>2. timer' \in SUBSET Int
      BY <1>6, <2>1, SetTimerType DEF Postponed
    <2>3. [s EXCEPT !.queued = i] \in Fitting
      BY DEF Fitting, BrokerState
    <2>4. QED
      BY <1>6, <2>2, <2>3 DEF Postponed, TypeOK
  <1>7. CASE AlreadyCurrent(s, i, now)
    <2>1. b' \in Fitting
      BY <1>1, <1>2, <1>7, ConstantTypes DEF AlreadyCurrent, Fitting, BrokerState, Statuses
    <2>2. QED
      BY <1>3, <1>7, <2>1 DEF AlreadyCurrent, TypeOK
  <1>8. CASE FoundExternal(s, i, now)
    BY <1>3, <1>4, <1>8 DEF FoundExternal, TypeOK, p
  <1>9. CASE Suppressed(s, i, now)
    BY <1>2, <1>3, <1>9 DEF Suppressed, TypeOK, p
  <1>10. CASE Delayed(s, i, now)
    <2>1. /\ [p EXCEPT !.queued = i] \in Fitting
          /\ [[p EXCEPT !.queued = i] EXCEPT !.status = "retry_pending"] \in Fitting
      BY <1>2 DEF Fitting, BrokerState, Statuses
    <2>2. b' \in Fitting
      BY <1>10, <2>1 DEF Delayed, p
    <2>3. QED
      BY <1>3, <1>10, <2>2 DEF Delayed, TypeOK
  <1>11. CASE Accepted(t, s, i, now)
    <2>1. lock' \in Seq(Task) /\ timer' = timer /\ env' = env /\ hist' \in History
      BY <1>3, <1>11 DEF Accepted, TypeOK
    <2>2. CASE lock = <<>>
      <3>1. Begin(t, p, i, now)
        BY <1>11, <2>2 DEF Accepted, LockFree, p
      <3>2. QED
        BY <1>2, <2>1, <3>1, BeginType DEF TypeOK
    <2>3. CASE lock # <<>>
      <3>1. [Idle EXCEPT !.pc = "waiting", !.intent = i, !.now = now] \in TaskState
        BY ConstantTypes DEF TaskState, Pc
      <3>2. task' \in [Task -> TaskState]
        BY <1>11, <2>3, <3>1 DEF Accepted, LockFree, TypeOK
      <3>3. b' = p /\ jobs' = jobs /\ nextId' = nextId
        BY <1>11, <2>3 DEF Accepted, LockFree, p
      <3>4. QED
        BY <1>2, <2>1, <3>2, <3>3 DEF TypeOK
    <2>4. QED
      BY <2>2, <2>3
  <1>12. QED
    BY <1>5, <1>6, <1>7, <1>8, <1>9, <1>10, <1>11 DEF AsyncSubmit

LEMMA BrokerFits == TypeOK => b \in Fitting
  BY DEF TypeOK, Fitting

LEMMA SubmitInputs ==
  ASSUME TypeOK, NEW t \in Task, Submit(t) \/ Drain(t)
  PROVE  \E s \in Fitting, i \in Intent, now \in Nat : AsyncSubmit(t, s, i, now)
  <1>1. b \in Fitting /\ Invalidate(b) \in Fitting
    BY BrokerFits, SimpleTypes, ConstantTypes DEF NoCmd, Cmd
  <1>2. CASE Submit(t)
    <2>1. PICK v \in Val, k \in Kinds, now \in (clock - MaxLag) .. clock :
             /\ now >= 0
             /\ AsyncSubmit(t, b, [val |-> v, kind |-> k, gen |-> env.gen,
                                   rev |-> env.rev, at |-> now], now)
      BY <1>2 DEF Submit
    <2>2. now \in Nat
      BY <2>1, TimeAssumption DEF TypeOK
    <2>3. [val |-> v, kind |-> k, gen |-> env.gen, rev |-> env.rev, at |-> now] \in Intent
      BY <2>2, KindAssumption DEF Intent, ValOrNone, TypeOK, Environment
    <2>4. QED
      BY <1>1, <2>1, <2>2, <2>3
  <1>3. CASE Drain(t)
    BY <1>1, <1>3 DEF Drain, TypeOK, BrokerState
  <1>4. QED
    BY <1>2, <1>3

LEMMA SubmitType ==
  ASSUME TypeOK, NEW t \in Task, Submit(t) \/ Drain(t)
  PROVE  TypeOK'
  <1>1. UNCHANGED <<gate, journal, events, clock, calls, spent>>
    BY DEF Submit, Drain
  <1>2. QED
    BY <1>1, SubmitInputs, AsyncSubmitType DEF TypeOK, Fitting

-----------------------------------------------------------------------------
(* The lock and the journal writes *)

\* The dispatch at the head of the lock ends.
LEMMA FinishStep ==
  ASSUME IInv, NEW t \in Dispatching, Finish(t),
         \/ jobs' = jobs /\ AwaitedJobs = {}
         \/ jobs # <<>> /\ 1 \in AwaitedJobs /\ jobs' = Tail(jobs)
  PROVE  LockInv' /\ JobInv' /\ lock' \in Seq(Task) /\ task' \in [Task -> TaskState]
  <1>1. /\ t \in Task /\ lock \in Seq(Task) /\ lock # <<>> /\ lock[1] = t
        /\ task \in [Task -> TaskState] /\ jobs \in Seq(Job)
        /\ \A k, l \in DOMAIN lock : lock[k] = lock[l] => k = l
    BY DEF IInv, TypeOK, LockInv, Dispatching
  <1>2. lock' = Tail(lock) /\ task' = [task EXCEPT ![t] = Idle] /\ Idle.pc = "idle"
    BY DEF Finish, Idle
  <1>3. /\ lock' \in Seq(Task) /\ Len(lock') = Len(lock) - 1
        /\ \A k \in DOMAIN lock' : k + 1 \in DOMAIN lock /\ k + 1 # 1 /\ lock'[k] = lock[k + 1]
    BY <1>1, <1>2
  <1>4. task' \in [Task -> TaskState]
    BY <1>1, <1>2, ConstantTypes
  <1>5. t \notin Range(lock')
    <2> SUFFICES ASSUME NEW k \in DOMAIN lock', lock'[k] = t
                 PROVE  FALSE
      BY DEF Range
    <2>1. k + 1 \in DOMAIN lock /\ k + 1 # 1 /\ lock[k + 1] = t
      BY <1>3
    <2>2. 1 \in DOMAIN lock
      BY <1>1
    <2>3. QED
      BY <1>1, <2>1, <2>2
  <1>6. Range(lock') \subseteq Range(lock)
    BY <1>1, <1>3 DEF Range
  <1>7. \A u \in Task : u # t /\ u \in Range(lock) => u \in Range(lock')
    <2> SUFFICES ASSUME NEW u \in Task, u # t, u \in Range(lock)
                 PROVE  u \in Range(lock')
      OBVIOUS
    <2>1. PICK k \in DOMAIN lock : lock[k] = u
      BY DEF Range
    <2>2. k # 1 /\ k - 1 \in DOMAIN Tail(lock) /\ Tail(lock)[k - 1] = u
      BY <1>1, <2>1
    <2>3. QED
      BY <1>2, <2>2 DEF Range
  <1>8. \A u \in Task : u # t => task'[u] = task[u]
    BY <1>1, <1>2
  <1>9. task'[t].pc = "idle"
    BY <1>1, <1>2
  <1>10. Dispatching' = {}
    BY <1>1, <1>8, <1>9 DEF IInv, LockInv, Dispatching
  <1>11. LockInv'
    <2>1. \A u \in Task : task'[u].pc = "waiting" => u \in Range(lock')
      BY <1>7, <1>8, <1>9 DEF IInv, LockInv
    <2>2. \A u \in Task : task'[u].pc = "idle" => u \notin Range(lock')
      BY <1>5, <1>6, <1>8 DEF IInv, LockInv
    <2>3. \A k, l \in DOMAIN lock' : lock'[k] = lock'[l] => k = l
      <3> SUFFICES ASSUME NEW k \in DOMAIN lock', NEW l \in DOMAIN lock', lock'[k] = lock'[l]
                   PROVE  k = l
        OBVIOUS
      <3>1. k \in Int /\ l \in Int
        BY <1>3
      <3>2. k + 1 = l + 1
        BY <1>1, <1>3
      <3>3. QED
        BY <3>1, <3>2
    <2>4. QED
      BY <1>10, <2>1, <2>2, <2>3 DEF LockInv
  <1>12. AwaitedJobs' = {}
    <2>1. CASE jobs' = jobs /\ AwaitedJobs = {}
      BY <2>1 DEF AwaitedJobs
    <2>2. CASE jobs # <<>> /\ 1 \in AwaitedJobs /\ jobs' = Tail(jobs)
      <3> SUFFICES ASSUME NEW k \in AwaitedJobs'
                   PROVE  FALSE
        OBVIOUS
      <3>1. k \in DOMAIN jobs' /\ jobs'[k].then \in TaskContinuations
        BY DEF AwaitedJobs
      <3>2. k + 1 \in DOMAIN jobs /\ jobs[k + 1] = jobs'[k] /\ k + 1 # 1
        BY <1>1, <2>2, <3>1
      <3>3. k + 1 \in AwaitedJobs
        BY <3>1, <3>2 DEF AwaitedJobs
      <3>4. QED
        BY <2>2, <3>2, <3>3 DEF IInv, JobInv
    <2>3. QED
      BY <2>1, <2>2
  <1>13. QED
    BY <1>3, <1>4, <1>11, <1>12 DEF JobInv

\* A step that leaves the lock and the tasks alone, and at most queues a write that no
\* dispatch awaits.
LEMMA OutsideStep ==
  ASSUME IInv, lock' = lock, task' = task,
         jobs' = jobs \/ \E j \in Job : j.then \notin TaskContinuations /\ jobs' = Append(jobs, j)
  PROVE  LockInv' /\ JobInv'
  <1>1. LockInv'
    BY DEF IInv, LockInv, Dispatching
  <1>2. AwaitedJobs' = AwaitedJobs /\ \A k \in AwaitedJobs : jobs'[k] = jobs[k]
    <2>1. CASE jobs' = jobs
      BY <2>1 DEF AwaitedJobs
    <2>2. CASE \E j \in Job : j.then \notin TaskContinuations /\ jobs' = Append(jobs, j)
      <3>1. PICK j \in Job : j.then \notin TaskContinuations /\ jobs' = Append(jobs, j)
        BY <2>2
      <3>2. /\ jobs \in Seq(Job)
            /\ DOMAIN jobs = 1 .. Len(jobs) /\ DOMAIN jobs' = 1 .. (Len(jobs) + 1)
            /\ \A k \in DOMAIN jobs : jobs'[k] = jobs[k]
            /\ jobs'[Len(jobs) + 1] = j
        BY <3>1 DEF IInv, TypeOK
      <3>3. \A k \in DOMAIN jobs' : k \in DOMAIN jobs \/ k = Len(jobs) + 1
        BY <3>2
      <3>4. DOMAIN jobs \subseteq DOMAIN jobs'
        BY <3>2
      <3>5. QED
        BY <3>1, <3>2, <3>3, <3>4 DEF AwaitedJobs
    <2>3. QED
      BY <2>1, <2>2
  <1>3. QED
    BY <1>1, <1>2 DEF IInv, JobInv

\* The head of the queue, a write that no dispatch awaits, completes.
LEMMA ServedStep ==
  ASSUME IInv, lock' = lock, task' = task,
         jobs # <<>>, jobs[1].then \notin TaskContinuations, jobs' = Tail(jobs)
  PROVE  LockInv' /\ JobInv'
  <1>1. LockInv'
    BY DEF IInv, LockInv, Dispatching
  <1>2. \A k \in AwaitedJobs' : k \in Int /\ k + 1 \in AwaitedJobs /\ jobs'[k] = jobs[k + 1]
    BY DEF IInv, TypeOK, AwaitedJobs
  <1>3. \A k \in AwaitedJobs' : lock' # <<>> /\ task'[lock'[1]].pc = Stage[jobs'[k].then]
    BY <1>2 DEF IInv, JobInv
  <1>4. ASSUME NEW k \in AwaitedJobs', NEW l \in AwaitedJobs'
        PROVE  k = l
    <2>1. k \in Int /\ l \in Int /\ k + 1 = l + 1
      BY <1>2 DEF IInv, JobInv
    <2>2. QED
      BY <2>1
  <1>5. QED
    BY <1>1, <1>3, <1>4 DEF JobInv

\* The first dispatch stage: the task holds the lock and queues its first write.
LEMMA BeginStep ==
  ASSUME IInv, NEW t \in Task, NEW s, NEW i \in Intent, NEW now \in Nat, Begin(t, s, i, now),
         AwaitedJobs = {}, lock' \in Seq(Task), lock' # <<>>, lock'[1] = t
  PROVE  /\ task'[t].pc = "persist"
         /\ \A u \in Task : u # t => task'[u] = task[u]
         /\ JobInv'
  <1> DEFINE c == [id |-> nextId, val |-> i.val, rev |-> i.rev, reg |-> now, sent |-> FALSE]
             r == [pc |-> "persist", intent |-> i, now |-> now, cmd |-> c, callAt |-> 0]
             j == [then |-> "persist", cmd |-> c, fb |-> NoFeedback]
  <1>1. task' = [task EXCEPT ![t] = r] /\ jobs' = Append(jobs, j)
    BY DEF Begin, EnqueueJob
  <1>2. c \in Cmd
    BY DEF Cmd, Intent, IInv, TypeOK
  <1>3. j \in Job /\ j.then = "persist" /\ r.pc = "persist"
    <2> HIDE DEF c
    <2> QED
      BY <1>2, ConstantTypes DEF Job, Continuations, TaskContinuations
  <1> HIDE DEF j, r
  <1>4. jobs \in Seq(Job) /\ task \in [Task -> TaskState]
    BY DEF IInv, TypeOK
  <1>5. /\ task'[t].pc = "persist"
        /\ \A u \in Task : u # t => task'[u] = task[u]
    BY <1>1, <1>3, <1>4
  <1>6. AwaitedJobs' \subseteq {Len(jobs) + 1} /\ jobs'[Len(jobs) + 1] = j
    BY <1>1, <1>3, <1>4 DEF AwaitedJobs
  <1>7. Stage["persist"] = "persist"
    BY DEF Stage, TaskContinuations
  <1>8. QED
    BY <1>3, <1>5, <1>6, <1>7 DEF JobInv

\* A task takes a place in the queue of the lock.
LEMMA JoinLock ==
  ASSUME IInv, NEW t \in Task, task[t].pc = "idle", lock' = Append(lock, t),
         task' \in [Task -> TaskState], \A u \in Task : u # t => task'[u] = task[u],
         \/ lock = <<>> /\ task'[t].pc = "persist"
         \/ lock # <<>> /\ task'[t].pc = "waiting"
  PROVE  LockInv'
  <1>1. /\ lock \in Seq(Task) /\ t \notin Range(lock)
        /\ DOMAIN lock = 1 .. Len(lock) /\ DOMAIN lock' = 1 .. (Len(lock) + 1)
        /\ \A k \in DOMAIN lock : lock'[k] = lock[k]
        /\ lock'[Len(lock) + 1] = t /\ Len(lock) \in Nat
    BY DEF IInv, TypeOK, LockInv
  <1>2. Range(lock') = Range(lock) \union {t}
    <2>1. \A k \in DOMAIN lock' : k \in DOMAIN lock \/ k = Len(lock) + 1
      BY <1>1
    <2>2. DOMAIN lock \subseteq DOMAIN lock' /\ Len(lock) + 1 \in DOMAIN lock'
      BY <1>1
    <2>3. QED
      BY <1>1, <2>1, <2>2 DEF Range
  <1>3. \A u \in Dispatching' : lock' # <<>> /\ lock'[1] = u
    <2> SUFFICES ASSUME NEW u \in Dispatching'
                 PROVE  lock' # <<>> /\ lock'[1] = u
      OBVIOUS
    <2>1. CASE u = t
      <3>1. lock = <<>>
        BY <2>1 DEF Dispatching
      <3>2. QED
        BY <1>1, <2>1, <3>1
    <2>2. CASE u # t
      <3>1. lock # <<>> /\ lock[1] = u
        BY <2>2 DEF Dispatching, IInv, LockInv
      <3>2. QED
        BY <1>1, <3>1
    <2>3. QED
      BY <2>1, <2>2
  <1>4. \A k, l \in DOMAIN lock' : lock'[k] = lock'[l] => k = l
    <2> SUFFICES ASSUME NEW k \in DOMAIN lock', NEW l \in DOMAIN lock', lock'[k] = lock'[l]
                 PROVE  k = l
      OBVIOUS
    <2>1. \A m \in DOMAIN lock' : m \in DOMAIN lock \/ m = Len(lock) + 1
      BY <1>1
    <2>2. \A m \in DOMAIN lock : lock'[m] # t
      BY <1>1 DEF Range
    <2>3. QED
      BY <1>1, <2>1, <2>2 DEF IInv, LockInv
  <1>5. /\ \A u \in Task : task'[u].pc = "waiting" => u \in Range(lock')
        /\ \A u \in Task : task'[u].pc = "idle" => u \notin Range(lock')
    BY <1>2 DEF IInv, LockInv
  <1>6. QED
    BY <1>3, <1>4, <1>5 DEF LockInv

\* The task at the head of the lock moves between stages of its dispatch, or to the
\* first of them.
LEMMA HolderStep ==
  ASSUME IInv, NEW t \in Task, lock # <<>>, lock[1] = t, task[t].pc # "idle", lock' = lock,
         task'[t].pc \in {"persist", "mark", "cancel", "call"},
         \A u \in Task : u # t => task'[u] = task[u]
  PROVE  LockInv'
  <1>1. \A u \in Dispatching' : u = t
    BY DEF Dispatching, IInv, LockInv
  <1>2. /\ \A u \in Task : task'[u].pc = "waiting" => u \in Range(lock')
        /\ \A u \in Task : task'[u].pc = "idle" => u \notin Range(lock')
    BY DEF IInv, LockInv
  <1>3. QED
    BY <1>1, <1>2 DEF IInv, LockInv

\* A dispatch goes to the stage of the write it queues, or to its service call.
LEMMA AdvanceStep ==
  ASSUME IInv, NEW t \in Task, lock # <<>>, lock[1] = t, lock' = lock,
         jobs # <<>>, 1 \in AwaitedJobs,
         \/ jobs' = Tail(jobs)
         \/ \E j \in Job : /\ j.then \in TaskContinuations
                           /\ jobs' = Append(Tail(jobs), j)
                           /\ task'[t].pc = Stage[j.then]
  PROVE  JobInv'
  <1>1. jobs \in Seq(Job) /\ \A k \in AwaitedJobs : k = 1
    BY DEF IInv, TypeOK, JobInv
  <1>2. /\ Tail(jobs) \in Seq(Job) /\ Len(Tail(jobs)) = Len(jobs) - 1
        /\ \A k \in 1 .. Len(Tail(jobs)) :
              k + 1 \in DOMAIN jobs /\ k + 1 # 1 /\ Tail(jobs)[k] = jobs[k + 1]
    BY <1>1
  <1>3. \A k \in 1 .. Len(Tail(jobs)) : Tail(jobs)[k].then \notin TaskContinuations
    BY <1>1, <1>2 DEF AwaitedJobs
  <1>4. CASE jobs' = Tail(jobs)
    <2>1. AwaitedJobs' = {}
      BY <1>2, <1>3, <1>4 DEF AwaitedJobs
    <2>2. QED
      BY <2>1 DEF JobInv
  <1>5. CASE \E j \in Job : /\ j.then \in TaskContinuations
                            /\ jobs' = Append(Tail(jobs), j)
                            /\ task'[t].pc = Stage[j.then]
    <2>1. PICK j \in Job : /\ j.then \in TaskContinuations
                           /\ jobs' = Append(Tail(jobs), j)
                           /\ task'[t].pc = Stage[j.then]
      BY <1>5
    <2>2. Tail(jobs) \in Seq(Job) /\ DOMAIN Tail(jobs) = 1 .. Len(Tail(jobs))
      BY <1>2
    <2>3. \A k \in AwaitedJobs' : k = Len(Tail(jobs)) + 1 /\ jobs'[k] = j
      <3> SUFFICES ASSUME NEW k \in AwaitedJobs'
                   PROVE  k = Len(Tail(jobs)) + 1 /\ jobs'[k] = j
        OBVIOUS
      <3>1. k \in DOMAIN jobs' /\ jobs'[k].then \in TaskContinuations
        BY DEF AwaitedJobs
      <3>2. \/ k \in DOMAIN Tail(jobs) /\ jobs'[k] = Tail(jobs)[k]
            \/ k = Len(Tail(jobs)) + 1 /\ jobs'[k] = j
        BY <2>1, <2>2, <3>1, AppendElements
      <3>3. QED
        BY <1>3, <2>2, <3>1, <3>2
    <2>4. \A k \in AwaitedJobs' : lock' # <<>> /\ task'[lock'[1]].pc = Stage[jobs'[k].then]
      BY <2>1, <2>3
    <2>5. QED
      BY <2>3, <2>4 DEF JobInv
  <1>6. QED
    BY <1>4, <1>5

\* While no task dispatches, no write is awaited by a dispatch.
LEMMA NoAwaitedJob ==
  ASSUME IInv, lock = <<>> \/ task[lock[1]].pc \in {"waiting", "call"}
  PROVE  AwaitedJobs = {}
  <1>1. \A then \in TaskContinuations : Stage[then] \in {"persist", "mark", "cancel"}
    BY DEF Stage
  <1>2. QED
    BY <1>1 DEF IInv, JobInv, AwaitedJobs

LEMMA SubmitStep ==
  ASSUME IInv, NEW t \in Task, Submit(t) \/ Drain(t)
  PROVE  IInv'
  <1>1. TypeOK'
    BY SubmitType DEF IInv
  <1>2. task[t].pc = "idle"
    BY DEF Submit, Drain
  <1>3. PICK s \in Fitting, i \in Intent, now \in Nat : AsyncSubmit(t, s, i, now)
    BY SubmitInputs DEF IInv
  <1>4. CASE UNCHANGED <<lock, task, jobs>>
    BY <1>1, <1>4, OutsideStep DEF IInv
  <1>5. CASE Accepted(t, s, i, now)
    <2>1. lock' = Append(lock, t)
      BY <1>5 DEF Accepted
    <2>2. lock \in Seq(Task) /\ lock' \in Seq(Task) /\ task' \in [Task -> TaskState]
          /\ task \in [Task -> TaskState]
      BY <1>1 DEF TypeOK, IInv
    <2>3. CASE lock = <<>>
      <3>1. Begin(t, Prepare(s, i), i, now)
        BY <1>5, <2>3 DEF Accepted, LockFree
      <3>2. lock' # <<>> /\ lock'[1] = t
        BY <2>1, <2>3
      <3>3. /\ task'[t].pc = "persist"
            /\ \A u \in Task : u # t => task'[u] = task[u]
            /\ JobInv'
        BY <2>2, <2>3, <3>1, <3>2, BeginStep, NoAwaitedJob
      <3>4. LockInv'
        BY <1>2, <2>1, <2>2, <2>3, <3>3, JoinLock
      <3>5. QED
        BY <1>1, <3>3, <3>4 DEF IInv
    <2>4. CASE lock # <<>>
      <3>1. /\ task' = [task EXCEPT ![t] = [Idle EXCEPT !.pc = "waiting", !.intent = i,
                                                        !.now = now]]
            /\ jobs' = jobs
        BY <1>5, <2>4 DEF Accepted, LockFree
      <3>2. task'[t].pc = "waiting" /\ \A u \in Task : u # t => task'[u] = task[u]
        <4> DEFINE r == [Idle EXCEPT !.pc = "waiting", !.intent = i, !.now = now]
        <4>1. r.pc = "waiting"
          BY DEF Idle
        <4> HIDE DEF r
        <4>2. task' = [task EXCEPT ![t] = r]
          BY <3>1 DEF r
        <4>3. QED
          BY <2>2, <4>1, <4>2
      <3>3. LockInv'
        BY <1>2, <2>1, <2>2, <2>4, <3>2, JoinLock
      <3>4. lock' # <<>> /\ lock'[1] = lock[1] /\ lock[1] \in Task /\ lock[1] # t
        BY <1>2, <2>1, <2>2, <2>4 DEF IInv, LockInv, Range
      <3>5. JobInv'
        BY <3>1, <3>2, <3>4 DEF IInv, JobInv, AwaitedJobs
      <3>6. QED
        BY <1>1, <3>3, <3>5 DEF IInv
    <2>5. QED
      BY <2>3, <2>4
  <1>6. QED
    BY <1>3, <1>4, <1>5
    DEF AsyncSubmit, Refused, Postponed, AlreadyCurrent, FoundExternal, Suppressed, Delayed

LEMMA AcquireLockStep ==
  ASSUME IInv, NEW t \in Task, AcquireLock(t)
  PROVE  IInv'
  <1> DEFINE i == task[t].intent
             now == task[t].now
  <1>1. /\ lock \in Seq(Task) /\ lock # <<>> /\ lock[1] = t /\ lock' = lock
        /\ task[t].pc = "waiting" /\ i \in Intent /\ now \in Nat
    BY DEF AcquireLock, IInv, LockInv, TypeOK, TaskState, Range
  <1>2. Begin(t, b, i, now) /\ b \in Fitting
    BY BrokerFits DEF AcquireLock, IInv
  <1>3. /\ task'[t].pc = "persist"
        /\ \A u \in Task : u # t => task'[u] = task[u]
        /\ JobInv'
    BY <1>1, <1>2, NoAwaitedJob, BeginStep
  <1>4. LockInv'
    BY <1>1, <1>3, HolderStep
  <1>5. hist' \in History
    BY DEF AcquireLock, IInv, TypeOK, History
  <1>6. /\ b' \in Fitting
        /\ task' \in [Task -> TaskState]
        /\ jobs' \in Seq(Job)
        /\ nextId' \in Nat \ {0}
    BY <1>1, <1>2, BeginType DEF IInv
  <1>7. TypeOK'
    BY <1>5, <1>6 DEF AcquireLock, IInv, TypeOK, Fitting
  <1>8. QED
    BY <1>3, <1>4, <1>7 DEF IInv

\* A dispatch awaits the write at the head of the queue.
HeadAwaited == jobs # <<>> /\ Head(jobs).then \in TaskContinuations

LEMMA HeadJob ==
  ASSUME IInv, HeadAwaited
  PROVE  /\ 1 \in AwaitedJobs
         /\ lock # <<>> /\ lock[1] \in Dispatching /\ lock[1] \in Task
         /\ task[lock[1]].pc = Stage[Head(jobs).then]
         /\ task[lock[1]] \in TaskState
  <1>1. jobs \in Seq(Job) /\ jobs # <<>> /\ Head(jobs) = jobs[1] /\ 1 \in DOMAIN jobs
    BY DEF IInv, TypeOK, HeadAwaited
  <1>2. 1 \in AwaitedJobs
    BY <1>1 DEF HeadAwaited, AwaitedJobs
  <1>3. lock # <<>> /\ task[lock[1]].pc = Stage[Head(jobs).then]
    BY <1>1, <1>2 DEF IInv, JobInv
  <1>4. lock[1] \in Task /\ task[lock[1]] \in TaskState
    BY <1>3 DEF IInv, TypeOK
  <1>5. Stage[Head(jobs).then] \in {"persist", "mark", "cancel"}
    BY DEF Stage, HeadAwaited
  <1>6. QED
    BY <1>2, <1>3, <1>4, <1>5 DEF Dispatching

LEMMA CancelStep ==
  ASSUME IInv, HeadAwaited, NEW t, t = lock[1], NEW c \in Cmd, NEW external, Cancel(t, c, external)
  PROVE  /\ b' \in Fitting
         /\ task' \in [Task -> TaskState]
         /\ jobs' \in Seq(Job)
         /\ lock' = lock
         /\ LockInv' /\ JobInv'
  <1> DEFINE then == IF external THEN "cancel_external" ELSE "cancel"
             j == [then |-> then, cmd |-> c, fb |-> NoFeedback]
  <1>1. /\ 1 \in AwaitedJobs /\ lock # <<>> /\ t \in Dispatching /\ t \in Task
        /\ task \in [Task -> TaskState] /\ jobs \in Seq(Job) /\ jobs # <<>>
    BY HeadJob DEF IInv, TypeOK, HeadAwaited
  <1>2. then \in TaskContinuations /\ Stage[then] = "cancel"
    BY DEF Stage, TaskContinuations
  <1>3. jobs' = Append(Tail(jobs), j) /\ lock' = lock
    BY DEF Cancel
  <1> HIDE DEF then
  <1>4. j \in Job /\ j.then = then
    BY <1>2, ConstantTypes DEF Job, Continuations
  <1>5. jobs' \in Seq(Job)
    BY <1>1, <1>3, <1>4
  <1>6. b' \in Fitting
    BY BrokerFits, ConstantTypes DEF Cancel, IInv, Fitting, BrokerState
  <1>7. task' = [task EXCEPT ![t] = [task[t] EXCEPT !.pc = "cancel", !.cmd = c]]
    BY <1>1 DEF Cancel
  <1>8. [task[t] EXCEPT !.pc = "cancel", !.cmd = c] \in TaskState
    BY <1>1 DEF TaskState, Pc
  <1>9. /\ task' \in [Task -> TaskState] /\ task'[t].pc = "cancel"
        /\ \A u \in Task : u # t => task'[u] = task[u]
    BY <1>1, <1>7, <1>8 DEF TaskState
  <1>10. LockInv'
    BY <1>1, <1>3, <1>9, HolderStep DEF Dispatching
  <1>11. JobInv'
    <2> HIDE DEF j
    <2> QED
      BY <1>1, <1>2, <1>3, <1>4, <1>9, AdvanceStep
  <1>12. QED
    BY <1>3, <1>5, <1>6, <1>9, <1>10, <1>11

\* What a step of a dispatch that awaited a write establishes.
DispatchOK ==
  /\ b' \in Fitting
  /\ lock' \in Seq(Task)
  /\ task' \in [Task -> TaskState]
  /\ jobs' \in Seq(Job)
  /\ LockInv' /\ JobInv'

\* The dispatch is given up before its service call.
LEMMA AbandonStep ==
  ASSUME IInv, HeadAwaited, Finish(lock[1]), jobs' = Tail(jobs), b' \in Fitting
  PROVE  DispatchOK
  <1>1. /\ 1 \in AwaitedJobs /\ lock[1] \in Dispatching /\ jobs \in Seq(Job) /\ jobs # <<>>
    BY HeadJob DEF IInv, TypeOK, HeadAwaited
  <1>2. jobs' \in Seq(Job)
    BY <1>1
  <1>3. QED
    BY <1>1, <1>2, FinishStep DEF DispatchOK

LEMMA AfterPersistStep ==
  ASSUME IInv, HeadAwaited, NEW t, t = lock[1], NEW verified, AfterPersist(t, verified)
  PROVE  DispatchOK
  <1> DEFINE c == [task[t].cmd EXCEPT !.sent = TRUE]
             j == [then |-> "mark", cmd |-> c, fb |-> NoFeedback]
  <1>1. /\ 1 \in AwaitedJobs /\ lock # <<>> /\ t \in Dispatching /\ t \in Task
        /\ task \in [Task -> TaskState] /\ jobs \in Seq(Job) /\ jobs # <<>>
        /\ lock \in Seq(Task) /\ task[t].cmd \in Cmd /\ b \in Fitting
    BY HeadJob, BrokerFits DEF IInv, TypeOK, HeadAwaited, TaskState
  <1>2. c \in Cmd
    BY <1>1 DEF Cmd
  <1>3. [b EXCEPT !.pending = NoCmd] \in Fitting
    BY <1>1, ConstantTypes DEF Fitting, BrokerState
  <1>4. CASE ~verified /\ b' = [b EXCEPT !.pending = NoCmd] /\ Finish(t) /\ jobs' = Tail(jobs)
    BY <1>3, <1>4, AbandonStep
  <1>5. CASE Cancel(t, task[t].cmd, Permitted(task[t].intent, task[t].now))
    BY <1>1, <1>5, CancelStep DEF DispatchOK
  <1>6. CASE /\ task' = [task EXCEPT ![t].pc = "mark", ![t].cmd = c]
             /\ jobs' = Append(Tail(jobs), j)
             /\ UNCHANGED <<b, lock>>
    <2>1. task' = [task EXCEPT ![t] = [task[t] EXCEPT !.pc = "mark", !.cmd = c]]
      BY <1>1, <1>6
    <2> HIDE DEF c
    <2>2. [task[t] EXCEPT !.pc = "mark", !.cmd = c] \in TaskState
      BY <1>1, <1>2 DEF TaskState, Pc
    <2>3. /\ task' \in [Task -> TaskState] /\ task'[t].pc = "mark"
          /\ \A u \in Task : u # t => task'[u] = task[u]
      BY <1>1, <2>1, <2>2 DEF TaskState
    <2>4. j \in Job /\ j.then \in TaskContinuations /\ Stage[j.then] = "mark"
      BY <1>2, ConstantTypes DEF Job, Continuations, TaskContinuations, Stage
    <2> HIDE DEF j
    <2>5. jobs' \in Seq(Job)
      BY <1>1, <1>6, <2>4
    <2>6. LockInv'
      BY <1>1, <1>6, <2>3, HolderStep DEF Dispatching
    <2>7. JobInv'
      BY <1>1, <1>6, <2>3, <2>4, AdvanceStep
    <2>8. QED
      BY <1>1, <1>6, <2>3, <2>5, <2>6, <2>7 DEF DispatchOK
  <1>7. QED
    BY <1>4, <1>5, <1>6 DEF AfterPersist

LEMMA CallServiceStep ==
  ASSUME IInv, HeadAwaited, NEW t, t = lock[1], CallService(t)
  PROVE  /\ DispatchOK
         /\ calls' \in Seq([cmd: Cmd, at: Nat])
         /\ hist' \in History
  <1> DEFINE c == task[t].cmd
  <1>1. /\ 1 \in AwaitedJobs /\ lock # <<>> /\ t \in Dispatching /\ t \in Task
        /\ task \in [Task -> TaskState] /\ jobs \in Seq(Job) /\ jobs # <<>>
        /\ lock \in Seq(Task) /\ c \in Cmd /\ task[t].now \in Nat /\ b \in Fitting
        /\ clock \in Nat
    BY HeadJob, BrokerFits DEF IInv, TypeOK, HeadAwaited, TaskState
  <1>2. b' \in Fitting
    <2> DEFINE n == b.attempts + 1
               m == task[t].now
    <2>1. b' = [b EXCEPT !.pending = c, !.attempts = n, !.lastDispatch = m,
                         !.status = "awaiting_acknowledgement"]
      BY DEF CallService
    <2>2. n \in Nat /\ m \in Int
      BY <1>1 DEF Fitting, BrokerState
    <2> HIDE DEF c, n, m
    <2>3. QED
      BY <1>1, <2>1, <2>2 DEF Fitting, BrokerState, Statuses
  <1>3. /\ task' = [task EXCEPT ![t] = [task[t] EXCEPT !.pc = "call", !.callAt = clock]]
        /\ jobs' = Tail(jobs) /\ lock' = lock
    BY <1>1 DEF CallService
  <1>4. [task[t] EXCEPT !.pc = "call", !.callAt = clock] \in TaskState
    BY <1>1 DEF TaskState, Pc
  <1>5. /\ task' \in [Task -> TaskState] /\ task'[t].pc = "call"
        /\ \A u \in Task : u # t => task'[u] = task[u]
    BY <1>1, <1>3, <1>4 DEF TaskState
  <1>6. LockInv'
    BY <1>1, <1>3, <1>5, HolderStep DEF Dispatching
  <1>7. JobInv'
    BY <1>1, <1>3, AdvanceStep
  <1>8. calls' \in Seq([cmd: Cmd, at: Nat])
    <2>1. [cmd |-> c, at |-> clock] \in [cmd: Cmd, at: Nat]
      BY <1>1
    <2>2. calls' = Append(calls, [cmd |-> c, at |-> clock])
      BY DEF CallService
    <2>3. QED
      BY <2>1, <2>2 DEF IInv, TypeOK
  <1>9. hist' \in History
    <2> DEFINE n == hist.unanswered + 1
               r == hist.raced \/ b.pending.id # c.id
    <2>1. hist' = [hist EXCEPT !.unanswered = n, !.raced = r]
      BY DEF CallService
    <2>2. n \in Nat
      BY DEF IInv, TypeOK, History
    <2>3. r \in BOOLEAN
      OBVIOUS
    <2> HIDE DEF n, r
    <2>4. QED
      BY <2>1, <2>2, <2>3 DEF IInv, TypeOK, History
  <1>10. QED
    BY <1>1, <1>2, <1>3, <1>5, <1>6, <1>7, <1>8, <1>9 DEF DispatchOK

LEMMA AfterMarkStep ==
  ASSUME IInv, HeadAwaited, NEW t, t = lock[1], NEW verified, AfterMark(t, verified)
  PROVE  /\ DispatchOK
         /\ calls' \in Seq([cmd: Cmd, at: Nat])
         /\ hist' \in History
  <1>1. /\ lock \in Seq(Task) /\ task[t].cmd \in Cmd /\ b \in Fitting
        /\ calls \in Seq([cmd: Cmd, at: Nat]) /\ hist \in History
    BY HeadJob, BrokerFits DEF IInv, TypeOK, TaskState
  <1>2. [b EXCEPT !.pending = NoCmd] \in Fitting
    BY <1>1, ConstantTypes DEF Fitting, BrokerState
  <1>3. CASE /\ b' = [b EXCEPT !.pending = NoCmd] /\ Finish(t) /\ jobs' = Tail(jobs)
             /\ UNCHANGED <<calls, hist>>
    BY <1>1, <1>2, <1>3, AbandonStep
  <1>4. CASE /\ Cancel(t, task[t].cmd, PreflightPasses(task[t].intent, task[t].now)
                                         /\ ~LiveKnown(b, task[t].intent))
             /\ UNCHANGED <<calls, hist>>
    BY <1>1, <1>4, CancelStep DEF DispatchOK
  <1>5. CASE CallService(t)
    BY <1>5, CallServiceStep
  <1>6. QED
    BY <1>3, <1>4, <1>5 DEF AfterMark

LEMMA CallEndStep ==
  ASSUME IInv, NEW t \in Task, CallEnd(t)
  PROVE  IInv'
  <1>1. /\ t \in Dispatching /\ task[t].pc = "call" /\ Finish(t) /\ jobs' = jobs
        /\ task[t].cmd \in Cmd /\ b \in Fitting
    BY BrokerFits DEF CallEnd, Dispatching, IInv, TypeOK, TaskState
  <1>2. AwaitedJobs = {}
    BY <1>1, NoAwaitedJob DEF IInv, LockInv
  <1>3. LockInv' /\ JobInv' /\ lock' \in Seq(Task) /\ task' \in [Task -> TaskState]
    BY <1>1, <1>2, FinishStep
  <1>4. timer' \in SUBSET Int
    BY <1>1, SetTimerType DEF CallEnd, IInv, TypeOK
  <1>5. b' \in Fitting
    <2> DEFINE u == Remember(b.uncertain, task[t].cmd)
               r == [b EXCEPT !.uncertain = u]
    <2>1. u \in Seq(Cmd) /\ Len(u) <= MaxAttempts
      BY <1>1, RememberType DEF Fitting, BrokerState
    <2>2. r \in Fitting
      <3> HIDE DEF u
      <3> QED
        BY <1>1, <2>1 DEF Fitting, BrokerState
    <2>3. WriteFailed(r) \in Fitting
      BY <2>2, WriteFailedType
    <2>4. b' = b \/ b' = WriteFailed(r)
      BY DEF CallEnd
    <2>5. QED
      BY <1>1, <2>3, <2>4
  <1>6. spent' \in Nat
    BY DEF CallEnd, Disturb, IInv, TypeOK
  <1>7. TypeOK'
    BY <1>3, <1>4, <1>5, <1>6 DEF CallEnd, IInv, TypeOK, Fitting
  <1>8. QED
    BY <1>3, <1>7 DEF IInv

-----------------------------------------------------------------------------
(* Feedback *)

LEMMA UnsolicitedFeedbackType ==
  ASSUME TypeOK, NEW fb \in Feedback, NEW e \in Environment, UnsolicitedFeedback(fb, e)
  PROVE  /\ b' \in Fitting
         /\ timer' \in SUBSET Int
         /\ env' \in Environment
         /\ hist' \in History
  <1>1. /\ b \in Fitting /\ b \in BrokerState /\ hist \in History /\ timer \in SUBSET Int
        /\ fb.val \in ValOrNone /\ Range(b.uncertain) \subseteq Cmd
    BY BrokerFits, RangeType DEF TypeOK, Feedback, BrokerState
  <1>2. CASE Echo(b, fb) /\ EchoFeedback(fb) /\ env' = e
    <2> DEFINE late == LateAcknowledged(fb)
               r == [b EXCEPT !.attempts = 0, !.baseline = fb.val]
    <2>1. late \in SUBSET Cmd
      BY <1>1 DEF LateAcknowledged
    <2>2. Answered(hist) \in History /\ Overtaken(hist) \in History
      BY <1>1, HistoryTypes, ConstantTypes
    <2>3. r \in Fitting
      BY <1>1 DEF Fitting, BrokerState
    <2>4. WriteFailed(r) \in Fitting /\ Acknowledge(b, fb.val) \in Fitting
      BY <1>1, <2>3, WriteFailedType, SimpleTypes
    <2>5. /\ b' \in {b, WriteFailed(r), Acknowledge(b, fb.val)}
          /\ hist' \in {hist, Answered(hist), Overtaken(hist)}
          /\ timer' \in {timer, {}}
      BY <1>2 DEF EchoFeedback
    <2>6. QED
      BY <1>1, <1>2, <2>2, <2>4, <2>5
  <1>3. CASE /\ env' = Transition(e, "manual") /\ b' = Invalidate(b)
             /\ hist' = Answered(Noted(hist, fb)) /\ UNCHANGED timer
    <2>1. Noted(hist, fb) \in History
      BY <1>1, HistoryTypes, ConstantTypes
    <2>2. Answered(Noted(hist, fb)) \in History
      BY <1>1, <2>1, HistoryTypes, ConstantTypes
    <2>3. Invalidate(b) \in Fitting /\ Transition(e, "manual") \in Environment
      BY <1>1, SimpleTypes, TransitionType
    <2>4. QED
      BY <1>1, <1>3, <2>2, <2>3
  <1>4. QED
    BY <1>2, <1>3 DEF UnsolicitedFeedback

\* A step queues at most a write that no dispatch awaits.
QueuesOutside == jobs' = jobs \/ \E j \in Job : j.then \notin TaskContinuations
                                              /\ jobs' = Append(jobs, j)

LEMMA EnqueueOutside ==
  ASSUME NEW then \in Continuations \ TaskContinuations, NEW c \in Cmd, NEW fb \in Feedback,
         EnqueueJob(then, c, fb)
  PROVE  QueuesOutside
  <1>1. [then |-> then, cmd |-> c, fb |-> fb] \in Job
    BY DEF Job
  <1>2. QED
    BY <1>1 DEF EnqueueJob, QueuesOutside

LEMMA OutsideContinuations ==
  {"settled", "timed_out", "external", "late_feedback", "resumed", "unavailable"}
    \subseteq Continuations \ TaskContinuations
  BY DEF Continuations, TaskContinuations

LEMMA PendingFeedbackType ==
  ASSUME TypeOK, NEW fb \in Feedback, NEW e \in Environment, PendingFeedback(fb, e)
  PROVE  /\ b' \in Fitting
         /\ env' \in Environment
         /\ hist' \in History
         /\ QueuesOutside
  <1> DEFINE p == b.pending
             cleared == [b EXCEPT !.pending = NoCmd, !.queued = NoIntent]
             failed == [cleared EXCEPT !.uncertain = Remember(b.uncertain, p),
                                       !.baseline = fb.val]
             acked == [Acknowledge(b, fb.val) EXCEPT !.pending = NoCmd, !.completed = p]
  <1>1. /\ b \in Fitting /\ b \in BrokerState /\ hist \in History /\ p \in Cmd
        /\ fb.val \in ValOrNone /\ Acknowledge(b, fb.val) \in Fitting
    BY BrokerFits, SimpleTypes DEF TypeOK, Feedback, BrokerState
  <1>2. /\ Ignored(hist, fb) \in History /\ Noted(hist, fb) \in History
        /\ Settled(hist) \in History
    BY <1>1, HistoryTypes, ConstantTypes
  <1>3. Settled(Noted(hist, fb)) \in History
    BY <1>1, <1>2, HistoryTypes, ConstantTypes
  <1>4. cleared \in Fitting
    BY <1>1, ConstantTypes DEF Fitting, BrokerState
  <1>5. WriteFailed(failed) \in Fitting
    <2>1. Remember(b.uncertain, p) \in Seq(Cmd) /\ Len(Remember(b.uncertain, p)) <= MaxAttempts
      BY <1>1, RememberType DEF Fitting, BrokerState
    <2>2. failed \in Fitting
      <3> DEFINE u == Remember(b.uncertain, p)
                 k == cleared
      <3> HIDE DEF u, k
      <3>1. [k EXCEPT !.uncertain = u, !.baseline = fb.val] \in Fitting
        BY <1>1, <1>4, <2>1 DEF u, k, Fitting, BrokerState
      <3>2. QED
        BY <3>1 DEF u, k
    <2>3. QED
      BY <2>2, WriteFailedType
  <1>6. acked \in Fitting
    <2> DEFINE a == Acknowledge(b, fb.val)
    <2> HIDE DEF a
    <2>1. [a EXCEPT !.pending = NoCmd, !.completed = p] \in Fitting
      BY <1>1, ConstantTypes DEF a, Fitting, BrokerState
    <2>2. QED
      BY <2>1 DEF a
  <1>7. env' = e
    BY DEF PendingFeedback
  <1>8. CASE b' = b /\ jobs' = jobs /\ hist' \in {hist, Ignored(hist, fb)}
    BY <1>1, <1>2, <1>7, <1>8 DEF QueuesOutside
  <1>9. CASE /\ b' = acked
             /\ hist' = Settled(hist)
             /\ EnqueueJob("settled", p, NoFeedback)
    BY <1>1, <1>2, <1>6, <1>7, <1>9, EnqueueOutside, OutsideContinuations, ConstantTypes
  <1>10. CASE /\ b' = WriteFailed(failed)
              /\ UNCHANGED hist
              /\ EnqueueJob("settled", p, NoFeedback)
    BY <1>1, <1>5, <1>7, <1>10, EnqueueOutside, OutsideContinuations, ConstantTypes
  <1>11. CASE /\ b' = cleared
              /\ hist' = Settled(Noted(hist, fb))
              /\ EnqueueJob("external", p, NoFeedback)
    BY <1>1, <1>3, <1>4, <1>7, <1>11, EnqueueOutside, OutsideContinuations, ConstantTypes
  <1>12. QED
    BY <1>8, <1>9, <1>10, <1>11 DEF PendingFeedback

LEMMA ProcessFeedbackType ==
  ASSUME TypeOK, NEW fb \in Feedback, NEW e \in Environment, ProcessFeedback(fb, e)
  PROVE  /\ b' \in Fitting
         /\ timer' \in SUBSET Int
         /\ env' \in Environment
         /\ hist' \in History
         /\ QueuesOutside
  <1>1. /\ b \in Fitting /\ b \in BrokerState /\ hist \in History /\ b.pending \in Cmd
        /\ timer \in SUBSET Int
    BY BrokerFits DEF TypeOK, BrokerState
  <1>2. Ignored(hist, fb) \in History /\ Noted(hist, fb) \in History
    BY <1>1, HistoryTypes, ConstantTypes
  <1>3. CASE env' = e /\ hist' = Ignored(hist, fb) /\ UNCHANGED <<b, timer, jobs>>
    BY <1>1, <1>2, <1>3 DEF QueuesOutside
  <1>4. CASE /\ b' = TimedOut(b) /\ env' = e /\ hist' = Noted(hist, fb)
             /\ EnqueueJob("late_feedback", b.pending, fb)
             /\ UNCHANGED timer
    BY <1>1, <1>2, <1>4, TimedOutType, EnqueueOutside, OutsideContinuations
  <1>5. CASE PendingFeedback(fb, e) /\ UNCHANGED timer
    BY <1>1, <1>5, PendingFeedbackType
  <1>6. CASE UnsolicitedFeedback(fb, e) /\ UNCHANGED jobs
    BY <1>6, UnsolicitedFeedbackType DEF QueuesOutside
  <1>7. QED
    BY <1>3, <1>4, <1>5, <1>6 DEF ProcessFeedback

LEMMA HandleEventStep ==
  ASSUME IInv, HandleEvent
  PROVE  IInv'
  <1> DEFINE ev == Head(events)
             fb == FeedbackOf(ev)
  <1>1. /\ TypeOK /\ events \in Seq(Event) /\ events # <<>> /\ ev \in Event
        /\ events' = Tail(events) /\ events' \in Seq(Event)
        /\ UNCHANGED <<gate, lock, task, journal, clock, nextId, calls, spent>>
    BY DEF HandleEvent, IInv, TypeOK
  <1>2. /\ b \in Fitting /\ b \in BrokerState /\ hist \in History /\ env \in Environment
        /\ timer \in SUBSET Int /\ b.pending \in Cmd /\ ev.val \in ValOrNone
    BY <1>1, BrokerFits DEF TypeOK, BrokerState, Event
  <1>3. fb \in Feedback
    BY <1>1 DEF FeedbackOf, Feedback, Event, TypeOK, Environment
  <1>4. /\ b' \in Fitting
        /\ timer' \in SUBSET Int
        /\ env' \in Environment
        /\ hist' \in History
        /\ QueuesOutside
    <2>1. CASE HandleReport(ev)
      BY <1>1, <1>2, <1>3, <2>1, ProcessFeedbackType DEF HandleReport, QueuesOutside
    <2>2. CASE HandleChange(ev)
      <3> DEFINE e == [env EXCEPT !.seen = ev.val]
      <3>1. e \in Environment
        BY <1>2 DEF Environment
      <3>2. CASE env' = e /\ UNCHANGED <<b, timer, jobs, hist>>
        BY <1>2, <3>1, <3>2 DEF QueuesOutside
      <3>3. CASE ProcessFeedback(fb, e)
        <4> HIDE DEF e, fb
        <4> QED
          BY <1>1, <1>3, <3>1, <3>3, ProcessFeedbackType
      <3>4. QED
        BY <2>2, <3>2, <3>3 DEF HandleChange
    <2>3. CASE HandleAvailability(ev)
      <3> DEFINE mode == IF ev.val # NoVal /\ env.mode = "owned" THEN "suspended" ELSE env.mode
      <3>1. PICK fit \in BOOLEAN :
              LET e == [Transition(env, mode) EXCEPT !.fit = fit]
              IN /\ hist' = Discarded(hist)
                 /\ IF b.pending # NoCmd
                    THEN /\ b' = Reset(b)
                         /\ env' = e
                         /\ EnqueueJob("unavailable", b.pending,
                                       [NoFeedback EXCEPT !.val = ev.val])
                         /\ UNCHANGED timer
                    ELSE /\ b' = [Reset(b) EXCEPT !.acked = NoVal, !.status = "waiting_target"]
                         /\ env' = [e EXCEPT !.seen = ev.val]
                         /\ timer' = {}
                         /\ UNCHANGED jobs
        BY <2>3 DEF HandleAvailability
      <3> DEFINE r == Reset(b)
                 e == [Transition(env, mode) EXCEPT !.fit = fit]
                 f == [NoFeedback EXCEPT !.val = ev.val]
      <3>2. Discarded(hist) \in History
        BY <1>1, <1>2, DiscardedType
      <3>3. mode \in {"owned", "manual", "suspended"}
        BY <1>2 DEF Environment
      <3>4. r \in Fitting /\ Transition(env, mode) \in Environment
        <4> HIDE DEF mode
        <4> QED
          BY <1>2, <3>3, SimpleTypes, TransitionType
      <3>5. e \in Environment
        BY <3>4 DEF Environment
      <3>6. f \in Feedback
        BY <1>2, ConstantTypes DEF Feedback
      <3>7. CASE b' = r /\ env' = e /\ EnqueueJob("unavailable", b.pending, f) /\ UNCHANGED timer
        BY <1>2, <3>1, <3>2, <3>4, <3>5, <3>6, <3>7, EnqueueOutside, OutsideContinuations, <1>1
      <3>8. CASE /\ b' = [r EXCEPT !.acked = NoVal, !.status = "waiting_target"]
                 /\ env' = [e EXCEPT !.seen = ev.val]
                 /\ timer' = {} /\ UNCHANGED jobs
        <4> HIDE DEF r, e
        <4>1. b' \in Fitting
          BY <3>4, <3>8 DEF Fitting, BrokerState, ValOrNone, Statuses
        <4>2. env' \in Environment
          BY <1>2, <3>5, <3>8 DEF Environment
        <4>3. QED
          BY <3>1, <3>2, <3>8, <4>1, <4>2 DEF QueuesOutside
      <3>9. QED
        BY <3>1, <3>7, <3>8
    <2>4. QED
      BY <2>1, <2>2, <2>3 DEF HandleEvent
  <1>5. jobs' \in Seq(Job)
    <2>1. jobs \in Seq(Job) /\ QueuesOutside
      BY <1>1, <1>4 DEF TypeOK
    <2>2. QED
      BY <2>1 DEF QueuesOutside
  <1>6. TypeOK'
    BY <1>1, <1>4, <1>5 DEF TypeOK, Fitting
  <1>7. LockInv' /\ JobInv'
    BY <1>1, <1>4, OutsideStep DEF QueuesOutside
  <1>8. QED
    BY <1>6, <1>7 DEF IInv

-----------------------------------------------------------------------------
(* The remaining steps *)

\* The steps that touch neither the lock nor the tasks and await no write.
LEMMA TimerAndResumeStep ==
  ASSUME IInv, AckTimeout \/ Resume \/ CloseGate
  PROVE  IInv'
  <1>1. /\ TypeOK /\ b \in Fitting /\ b \in BrokerState /\ b.pending \in Cmd
        /\ hist \in History /\ env \in Environment /\ jobs \in Seq(Job)
    BY BrokerFits DEF IInv, TypeOK, BrokerState
  <1>2. /\ Discarded(hist) \in History
        /\ TimedOut(b) \in Fitting /\ Reset(b) \in Fitting /\ Invalidate(b) \in Fitting
        /\ Transition(env, "suspended") \in Environment
    <2>1. NoVal \in ValOrNone
      BY DEF ValOrNone
    <2>2. QED
      BY <1>1, <2>1, DiscardedType, TimedOutType, SimpleTypes, TransitionType
  <1>3. QueuesOutside
    <2>1. \/ jobs' = jobs
          \/ EnqueueJob("timed_out", b.pending, NoFeedback)
          \/ EnqueueJob("resumed", b.pending, NoFeedback)
      BY DEF AckTimeout, Resume, CloseGate
    <2>2. QED
      BY <1>1, <2>1, EnqueueOutside, OutsideContinuations, ConstantTypes DEF QueuesOutside
  <1>4. jobs' \in Seq(Job)
    BY <1>1, <1>3 DEF QueuesOutside
  <1>5. b' \in Fitting /\ timer' \in SUBSET Int /\ env' \in Environment /\ hist' \in History
    <2>1. b' \in {b, TimedOut(b), Reset(b), Invalidate(b)} /\ timer' \in {timer, {}}
      BY DEF AckTimeout, Resume, CloseGate
    <2>2. env' \in {env, Transition(env, "suspended")} /\ hist' \in {hist, Discarded(hist)}
      BY DEF AckTimeout, Resume, CloseGate
    <2>3. timer \in SUBSET Int
      BY <1>1 DEF TypeOK
    <2>4. QED
      BY <1>1, <1>2, <2>1, <2>2, <2>3
  <1>6. spent' \in Nat /\ gate' \in BOOLEAN
    <2>1. spent' \in {spent, spent + 1} /\ (gate' = gate \/ gate' = FALSE)
      BY DEF AckTimeout, Resume, CloseGate, Disturb
    <2>2. spent' \in Nat
      BY <1>1, <2>1 DEF TypeOK
    <2>3. gate' \in BOOLEAN
      BY <1>1, <2>1, Zenon DEF TypeOK
    <2>4. QED
      BY <2>2, <2>3
  <1>7. UNCHANGED <<lock, task, journal, events, clock, nextId, calls>>
    BY DEF AckTimeout, Resume, CloseGate
  <1>8. TypeOK'
    BY <1>1, <1>4, <1>5, <1>6, <1>7 DEF TypeOK, Fitting
  <1>9. LockInv' /\ JobInv'
    BY <1>3, <1>7, OutsideStep DEF QueuesOutside
  <1>10. QED
    BY <1>8, <1>9 DEF IInv

LEMMA EnvironmentStep ==
  ASSUME IInv,
         \/ OtherWrite \/ OwnershipChange \/ Reconciled \/ ReadinessChange \/ InputChange
         \/ ServiceEvent \/ DeviceChange \/ DeviceReport \/ Tick
  PROVE  IInv'
  <1>1. /\ TypeOK /\ b \in Fitting /\ hist \in History /\ env \in Environment
        /\ events \in Seq(Event) /\ Invalidate(b) \in Fitting /\ Answered(hist) \in History
        /\ calls \in Seq([cmd: Cmd, at: Nat])
    <2>1. NoVal \in ValOrNone /\ b \in BrokerState
      BY DEF IInv, TypeOK, ValOrNone
    <2>2. QED
      BY <2>1, BrokerFits, SimpleTypes, HistoryTypes, ConstantTypes DEF IInv, TypeOK
  <1>2. UNCHANGED <<gate, timer, lock, task, jobs, nextId, calls>>
    BY DEF OtherWrite, OwnershipChange, Reconciled, ReadinessChange, InputChange,
           ServiceEvent, DeviceChange, DeviceReport, Tick
  <1>3. b' \in Fitting /\ hist' \in History
    <2>1. b' \in {b, Invalidate(b)} /\ hist' \in {hist, Answered(hist)}
      BY DEF OtherWrite, OwnershipChange, Reconciled, ReadinessChange, InputChange,
             ServiceEvent, DeviceChange, DeviceReport, Tick
    <2>2. QED
      BY <1>1, <2>1
  <1>4. spent' \in Nat /\ clock' \in Nat /\ journal' \in [mem: Record, disk: Record]
    <2>1. spent' \in {spent, spent + 1} /\ clock' \in {clock, clock + 1}
      BY DEF OtherWrite, OwnershipChange, Reconciled, ReadinessChange, InputChange,
             ServiceEvent, DeviceChange, DeviceReport, Tick, Disturb
    <2>2. journal' = journal \/ journal' = [journal EXCEPT !.disk = journal.mem]
      BY DEF OtherWrite, OwnershipChange, Reconciled, ReadinessChange, InputChange,
             ServiceEvent, DeviceChange, DeviceReport, Tick
    <2>3. QED
      BY <1>1, <2>1, <2>2 DEF TypeOK
  <1>5. env' \in Environment
    <2>1. \A mode \in {"owned", "manual", "suspended"} :
             Transition(env, mode) \in Environment
      BY <1>1, TransitionType
    <2>2. CASE OwnershipChange
      <3>1. PICK mode \in {env.mode, "suspended"}, fit \in BOOLEAN :
              env' = [Transition(env, mode) EXCEPT !.fit = fit]
        BY <2>2 DEF OwnershipChange
      <3>2. Transition(env, mode) \in Environment
        BY <1>1, <2>1 DEF Environment
      <3>3. QED
        BY <3>1, <3>2 DEF Environment
    <2>3. CASE Reconciled
      <3>1. env' = [Transition(env, "owned") EXCEPT !.data = TRUE]
        BY <2>3 DEF Reconciled
      <3>2. QED
        BY <2>1, <3>1 DEF Environment
    <2>4. CASE ReadinessChange
      BY <1>1, <2>4 DEF ReadinessChange, Environment
    <2>5. CASE InputChange
      <3> DEFINE n == env.gen + 1
      <3>1. n \in Nat /\ env' = [env EXCEPT !.gen = n]
        BY <1>1, <2>5 DEF InputChange, Environment
      <3> HIDE DEF n
      <3>2. QED
        BY <1>1, <3>1 DEF Environment
    <2>6. CASE ServiceEvent
      BY <2>1, <2>6 DEF ServiceEvent
    <2>7. CASE DeviceChange
      BY <1>1, <2>7 DEF DeviceChange, Environment
    <2>8. CASE env' = env
      BY <1>1, <2>8
    <2>9. QED
      BY <2>2, <2>3, <2>4, <2>5, <2>6, <2>7, <2>8 DEF OtherWrite, DeviceReport, Tick
  <1>6. events' \in Seq(Event)
    <2>1. \A c \in Called \union {NoCmd} : c.id \in Nat
      <3>1. \A k \in DOMAIN calls : calls[k] \in [cmd: Cmd, at: Nat]
        BY <1>1, Elements
      <3>2. \A k \in DOMAIN calls : calls[k].cmd \in Cmd
        BY <3>1
      <3>3. Called \subseteq Cmd
        BY <3>2 DEF Called
      <3>4. QED
        BY <3>3, ConstantTypes DEF Cmd
    <2>2. env.live \in ValOrNone
      BY <1>1 DEF Environment
    <2>3. CASE DeviceChange
      BY <1>1, <2>1, <2>2, <2>3 DEF DeviceChange, Event
    <2>4. CASE DeviceReport
      BY <1>1, <2>1, <2>2, <2>4 DEF DeviceReport, Event
    <2>5. CASE events' = events
      BY <1>1, <2>5
    <2>6. QED
      BY <2>3, <2>4, <2>5 DEF OtherWrite, OwnershipChange, Reconciled, ReadinessChange,
                              InputChange, ServiceEvent, Tick
  <1>7. TypeOK'
    BY <1>1, <1>2, <1>3, <1>4, <1>5, <1>6 DEF TypeOK, Fitting
  <1>8. LockInv' /\ JobInv'
    BY <1>2, OutsideStep
  <1>9. QED
    BY <1>7, <1>8 DEF IInv

LEMMA ContinueDispatchStep ==
  ASSUME IInv, jobs # <<>>, NEW t, t = lock[1], NEW verified,
         ContinueDispatch(Head(jobs), t, verified)
  PROVE  /\ DispatchOK
         /\ timer' = timer
         /\ env' \in Environment
         /\ calls' \in Seq([cmd: Cmd, at: Nat])
         /\ hist' \in History
  <1> DEFINE j == Head(jobs)
  <1>1. HeadAwaited
    BY DEF ContinueDispatch, RecordsExternal, HeadAwaited, TaskContinuations
  <1>2. /\ b \in Fitting /\ env \in Environment /\ hist \in History
        /\ calls \in Seq([cmd: Cmd, at: Nat])
    BY BrokerFits DEF IInv, TypeOK
  <1>3. /\ Transition(env, "manual") \in Environment
        /\ Invalidate(b) \in Fitting /\ Answered(hist) \in History
    <2>1. NoVal \in ValOrNone /\ b \in BrokerState
      BY DEF IInv, TypeOK, ValOrNone
    <2>2. QED
      BY <1>2, <2>1, TransitionType, SimpleTypes, HistoryTypes, ConstantTypes
  <1>4. CASE AfterPersist(t, verified) /\ UNCHANGED <<timer, env, calls, hist>>
    BY <1>1, <1>2, <1>4, AfterPersistStep
  <1>5. CASE AfterMark(t, verified) /\ UNCHANGED <<timer, env>>
    BY <1>1, <1>2, <1>5, AfterMarkStep
  <1>6. CASE /\ Finish(t) /\ jobs' = Tail(jobs)
             /\ UNCHANGED <<b, timer, env, calls, hist>>
    BY <1>1, <1>2, <1>6, AbandonStep
  <1>7. CASE /\ Finish(t) /\ jobs' = Tail(jobs)
             /\ env' = Transition(env, "manual")
             /\ b' = Invalidate(b)
             /\ hist' = Answered(hist)
             /\ UNCHANGED <<timer, calls>>
    BY <1>1, <1>2, <1>3, <1>7, AbandonStep
  <1>8. QED
    BY <1>4, <1>5, <1>6, <1>7 DEF ContinueDispatch

LEMMA ContinueOtherStep ==
  ASSUME IInv, jobs # <<>>, ContinueOther(Head(jobs))
  PROVE  /\ DispatchOK
         /\ timer' \in SUBSET Int
         /\ env' \in Environment
         /\ calls' \in Seq([cmd: Cmd, at: Nat])
         /\ hist' \in History
  <1> DEFINE j == Head(jobs)
  <1>1. /\ TypeOK /\ b \in Fitting /\ env \in Environment /\ hist \in History /\ timer \in SUBSET Int
        /\ calls \in Seq([cmd: Cmd, at: Nat]) /\ jobs \in Seq(Job)
        /\ lock \in Seq(Task) /\ task \in [Task -> TaskState]
    BY BrokerFits DEF IInv, TypeOK
  <1>2. j \in Job /\ j = jobs[1] /\ j.fb \in Feedback /\ j.fb.val \in ValOrNone
    <2>1. j \in Job /\ j = jobs[1]
      BY <1>1, Elements
    <2> HIDE DEF j
    <2>2. QED
      BY <2>1 DEF Job, Feedback
  <1>3. /\ jobs' = Tail(jobs) /\ j.then \notin TaskContinuations
        /\ UNCHANGED <<lock, task, calls>>
    BY DEF ContinueOther, TaskContinuations
  <1>4. LockInv' /\ JobInv'
    BY <1>1, <1>2, <1>3, ServedStep
  <1>5. jobs' \in Seq(Job)
    BY <1>1, <1>3
  <1>6. /\ \A mode \in {"owned", "manual", "suspended"} : Transition(env, mode) \in Environment
        /\ Invalidate(b) \in Fitting
    <2>1. NoVal \in ValOrNone
      BY DEF ValOrNone
    <2>2. QED
      BY <1>1, <2>1, TransitionType, SimpleTypes
  <1>7. b' \in Fitting /\ timer' \in SUBSET Int /\ env' \in Environment /\ hist' \in History
    <2>1. CASE UnsolicitedFeedback(j.fb, env)
      BY <1>1, <1>2, <2>1, UnsolicitedFeedbackType
    <2>2. CASE /\ env' = [env EXCEPT !.seen = j.fb.val]
               /\ timer' = {}
               /\ b' = [b EXCEPT !.acked = NoVal, !.status = "waiting_target"]
               /\ UNCHANGED hist
      <3>1. b' \in Fitting
        BY <1>1, <2>2 DEF Fitting, BrokerState, ValOrNone, Statuses
      <3>2. env' \in Environment
        BY <1>1, <1>2, <2>2 DEF Environment
      <3>3. QED
        BY <1>1, <2>2, <3>1, <3>2
    <2>3. CASE /\ b' \in {b, Invalidate(b)}
               /\ timer' \in {timer, {}}
               /\ env' \in {env, Transition(env, "manual"), Transition(env, "suspended")}
               /\ UNCHANGED hist
      BY <1>1, <1>6, <2>3
    <2>4. QED
      BY <2>1, <2>2, <2>3 DEF ContinueOther
  <1>8. QED
    BY <1>1, <1>3, <1>4, <1>5, <1>7 DEF DispatchOK

LEMMA JobDoneStep ==
  ASSUME IInv, JobDone
  PROVE  IInv'
  <1>1. PICK w \in WriteOutcomes :
          /\ IF w = "verified" THEN UNCHANGED spent ELSE Disturb("write_fails")
          /\ journal' = [mem |-> Recorded(Head(jobs)),
                         disk |-> IF w = "lost" THEN journal.disk ELSE Recorded(Head(jobs))]
          /\ \/ ContinueDispatch(Head(jobs), lock[1], w = "verified")
             \/ ContinueOther(Head(jobs))
    BY DEF JobDone
  <1>2. jobs # <<>> /\ jobs \in Seq(Job) /\ UNCHANGED <<gate, events, clock, nextId>>
        /\ TypeOK
    BY DEF JobDone, IInv, TypeOK
  <1>3. /\ DispatchOK
        /\ timer' \in SUBSET Int
        /\ env' \in Environment
        /\ calls' \in Seq([cmd: Cmd, at: Nat])
        /\ hist' \in History
    BY <1>1, <1>2, ContinueDispatchStep, ContinueOtherStep DEF TypeOK
  <1>4. journal' \in [mem: Record, disk: Record]
    <2>1. Head(jobs) \in Job
      BY <1>2
    <2>2. Recorded(Head(jobs)) \in Record
      BY <2>1, ConstantTypes DEF Recorded, Record, Job, Cmd
    <2>3. QED
      BY <1>1, <1>2, <2>2 DEF TypeOK
  <1>5. spent' \in Nat
    <2>1. spent' \in {spent, spent + 1}
      BY <1>1 DEF Disturb
    <2>2. QED
      BY <1>2, <2>1 DEF TypeOK
  <1>6. TypeOK'
    BY <1>2, <1>3, <1>4, <1>5 DEF TypeOK, DispatchOK, Fitting
  <1>7. QED
    BY <1>3, <1>6 DEF IInv, DispatchOK

-----------------------------------------------------------------------------
(* The inductive invariant *)

LEMMA InitInv == Init => IInv
  <1> SUFFICES ASSUME Init
               PROVE  IInv
    OBVIOUS
  <1>1. NoVal \in ValOrNone /\ Val \subseteq ValOrNone /\ <<>> \in Seq(Cmd) /\ Len(<<>>) = 0
    BY DEF ValOrNone
  <1>2. Never \in Int
    BY TimeAssumption DEF Never
  <1>3. b \in BrokerState /\ Len(b.uncertain) <= MaxAttempts
    BY <1>1, <1>2, ConstantTypes, TimeAssumption DEF Init, BrokerState, Statuses
  <1>4. env \in Environment
    BY <1>1 DEF Init, Environment
  <1>5. task \in [Task -> TaskState] /\ journal \in [mem: Record, disk: Record]
    BY ConstantTypes DEF Init
  <1>6. hist \in History
    BY DEF Init, History
  <1>7. TypeOK
    BY <1>3, <1>4, <1>5, <1>6 DEF Init, TypeOK
  <1>8. LockInv
    <2>1. \A t \in Task : task[t].pc = "idle"
      BY DEF Init, Idle
    <2>2. lock = <<>> /\ Range(lock) = {} /\ DOMAIN lock = {}
      BY DEF Init, Range
    <2>3. QED
      BY <2>1, <2>2 DEF LockInv, Dispatching
  <1>9. JobInv
    BY DEF Init, JobInv, AwaitedJobs
  <1>10. QED
    BY <1>7, <1>8, <1>9 DEF IInv

LEMMA NextInv == IInv /\ [Next]_vars => IInv'
  <1> SUFFICES ASSUME IInv, [Next]_vars
               PROVE  IInv'
    OBVIOUS
  <1>1. CASE \E t \in Task : Submit(t) \/ Drain(t) \/ AcquireLock(t) \/ CallEnd(t)
    BY <1>1, SubmitStep, AcquireLockStep, CallEndStep
  <1>2. CASE JobDone
    BY <1>2, JobDoneStep
  <1>3. CASE HandleEvent
    BY <1>3, HandleEventStep
  <1>4. CASE AckTimeout \/ Resume \/ CloseGate
    BY <1>4, TimerAndResumeStep
  <1>5. CASE \/ OtherWrite \/ OwnershipChange \/ Reconciled \/ ReadinessChange \/ InputChange
             \/ ServiceEvent \/ DeviceChange \/ DeviceReport \/ Tick
    BY <1>5, EnvironmentStep
  <1>6. CASE UNCHANGED vars
    <2>1. TypeOK'
      BY <1>6 DEF vars, IInv, TypeOK
    <2>2. LockInv' /\ JobInv'
      BY <1>6, OutsideStep DEF vars
    <2>3. QED
      BY <2>1, <2>2 DEF IInv
  <1>7. QED
    BY <1>1, <1>2, <1>3, <1>4, <1>5, <1>6 DEF Next

THEOREM InvariantHolds == Spec => []IInv
  BY InitInv, NextInv, PTL DEF Spec

\* Every variable of the broker keeps its type and at most MaxAttempts uncertain
\* commands are retained (_remember_uncertain), for any number of submitting tasks.
THEOREM TypeCorrect == Spec => []TypeOK
  <1>1. IInv => TypeOK
    BY DEF IInv
  <1>2. QED
    BY <1>1, InvariantHolds, PTL

\* The asyncio.Lock of a target serialises its dispatches: at any time one task at most
\* is between the head of _async_dispatch and its end, through every early return,
\* failed journal write, failed service call, Resume and transition.
THEOREM OneDispatch == Spec => []OneDispatchAtATime
  <1>1. IInv => OneDispatchAtATime
    BY DEF IInv, LockInv, OneDispatchAtATime
  <1>2. QED
    BY <1>1, InvariantHolds, PTL

-----------------------------------------------------------------------------
(* Service calls *)

LEMMA OnlyMarkCalls ==
  ASSUME IInv, [Next]_vars, CallIssued
  PROVE  /\ HeadAwaited
         /\ task[lock[1]].pc = "mark"
         /\ MayProceed(lock[1])
         /\ CallService(lock[1])
  <1>1. calls' # calls
    BY DEF CallIssued
  <1>2. JobDone
    <2>1. \A t \in Task : Submit(t) \/ Drain(t) \/ AcquireLock(t) \/ CallEnd(t) => calls' = calls
      BY DEF Submit, Drain, AcquireLock, CallEnd
    <2>2. HandleEvent \/ AckTimeout \/ Resume \/ CloseGate => calls' = calls
      BY DEF HandleEvent, AckTimeout, Resume, CloseGate
    <2>3. \/ OtherWrite \/ OwnershipChange \/ Reconciled \/ ReadinessChange \/ InputChange
          \/ ServiceEvent \/ DeviceChange \/ DeviceReport \/ Tick
          \/ UNCHANGED vars
          => calls' = calls
      BY DEF OtherWrite, OwnershipChange, Reconciled, ReadinessChange, InputChange,
             ServiceEvent, DeviceChange, DeviceReport, Tick, vars
    <2>4. QED
      BY <1>1, <2>1, <2>2, <2>3 DEF Next
  <1>3. PICK verified \in BOOLEAN :
          ContinueDispatch(Head(jobs), lock[1], verified) \/ ContinueOther(Head(jobs))
    BY <1>2 DEF JobDone
  <1>4. Head(jobs).then = "mark" /\ AfterMark(lock[1], verified)
    BY <1>1, <1>3 DEF ContinueDispatch, ContinueOther
  <1>5. MayProceed(lock[1]) /\ CallService(lock[1])
    BY <1>1, <1>4 DEF AfterMark
  <1>6. HeadAwaited
    BY <1>2, <1>4 DEF HeadAwaited, JobDone, TaskContinuations
  <1>7. task[lock[1]].pc = "mark"
    BY <1>4, <1>6, HeadJob DEF Stage, TaskContinuations
  <1>8. QED
    BY <1>5, <1>6, <1>7

\* Every service call is made by a dispatch whose second journal write has returned, and
\* in a state that passes the whole preflight again: the target is owned under the
\* revision and generation of the intent and its live value has been seen, whatever
\* happened while _async_dispatch awaited the lock and the store.
THEOREM CallsArePermitted == Spec => CallsPermitted
  <1> DEFINE Permission ==
               \E t \in Task :
                 /\ task'[t].pc = "call" /\ task[t].pc # "call"
                 /\ gate
                 /\ env.mode = "owned" /\ env.fit
                 /\ env.rev = task[t].intent.rev /\ env.gen = task[t].intent.gen
                 /\ env.live # NoVal /\ env.live = env.seen
                 /\ env.data \/ task[t].intent.kind.safety
  <1>1. IInv /\ [Next]_vars => [CallIssued => Permission]_vars
    <2> SUFFICES ASSUME IInv, [Next]_vars, CallIssued
                 PROVE  Permission
      OBVIOUS
    <2> DEFINE t == lock[1]
    <2>1. /\ HeadAwaited /\ task[t].pc = "mark"
          /\ MayProceed(t) /\ CallService(t)
      BY OnlyMarkCalls
    <2>2. t \in Task
      BY <2>1, HeadJob
    <2>3. task'[t].pc = "call"
      BY <2>1, <2>2 DEF CallService, IInv, TypeOK, TaskState
    <2>4. /\ gate
          /\ env.mode = "owned" /\ env.fit
          /\ env.rev = task[t].intent.rev /\ env.gen = task[t].intent.gen
          /\ env.live # NoVal /\ env.live = env.seen
          /\ env.data \/ task[t].intent.kind.safety
      BY <2>1 DEF MayProceed, Permitted, PreflightPasses, TargetReady
    <2>5. QED
      BY <2>1, <2>2, <2>3, <2>4
  <1>2. QED
    BY <1>1, InvariantHolds, PTL DEF Spec, CallsPermitted

-----------------------------------------------------------------------------
(* The journal, the budget and the acknowledged goal.  As long as no dispatch has  *)
(* gone on without what it rests on, the write that an unsent command awaits is    *)
(* the last of the queue and nothing is queued while a command is outstanding.     *)

StageInv ==
  \A t \in Task : task[t].pc \in {"persist", "mark"} =>
    /\ task[t].cmd.id # 0
    /\ task[t].cmd.id = b.pending.id => task[t].cmd.val = b.pending.val
    /\ task[t].pc = "mark" =>
         task[t].cmd.sent /\ \A k \in AwaitedJobs : jobs[k].cmd = task[t].cmd

Clean == ~hist.raced
Unsent(p) == p # NoCmd /\ ~p.sent
SentRecord(p) == [id |-> p.id, sent |-> TRUE]

PendingInv ==
  Clean =>
    /\ b.pending # NoCmd => b.pending.val = b.goal
    /\ Unsent(b.pending) => jobs # <<>> /\ jobs[Len(jobs)].then \in {"persist", "mark"}
    /\ b.pending.sent =>
         /\ jobs = <<>>
         /\ journal.mem = SentRecord(b.pending) /\ journal.disk = SentRecord(b.pending)

AttemptsInv ==
  Clean =>
    /\ hist.unanswered <= b.attempts /\ hist.unanswered <= MaxAttempts
    /\ hist.unanswered > 0 => b.failed \/ b.pending.sent
    /\ Unsent(b.pending) => hist.unanswered < MaxAttempts

DInv == StageInv /\ PendingInv /\ AttemptsInv /\ AcknowledgedIsGoal

\* What a step that neither begins nor sends a command may do to the broker's state.
Budgeted ==
  \/ hist'.unanswered = 0
  \/ /\ hist'.unanswered = hist.unanswered /\ b'.attempts = b.attempts
     /\ \/ b'.failed
        \/ /\ b.failed => b'.failed
           /\ b.pending.sent => b'.pending = b.pending
Confirmed ==
  \/ b'.status # "acknowledged" \/ b'.acked = NoVal \/ (~b'.failed /\ b'.acked = b'.goal)
  \/ b'.status = b.status /\ b'.acked = b.acked /\ b'.goal = b.goal /\ (b'.failed => b.failed)
Quiet ==
  /\ hist.raced => hist'.raced
  /\ hist.unanswered \in Nat
  /\ b'.pending = NoCmd \/ (b'.pending = b.pending /\ b'.goal = b.goal)
  /\ Budgeted /\ Confirmed

LEMMA Bounds == MaxAttempts \in Nat /\ MaxAttempts > 0 /\ NoCmd.id = 0 /\ ~NoCmd.sent
BY TimeAssumption DEF NoCmd

LEMMA TailLast ==
  ASSUME NEW S, NEW q \in Seq(S), Len(q) # 0, Len(q) # 1
  PROVE  Tail(q) # <<>> /\ Tail(q)[Len(Tail(q))] = q[Len(q)]
<1>1. Len(Tail(q)) = Len(q) - 1 /\ Len(q) - 1 \in 1 .. Len(q) - 1
  OBVIOUS
<1>2. \A k \in 1 .. Len(q) - 1 : Tail(q)[k] = q[k + 1]
  OBVIOUS
<1>3. Tail(q)[Len(q) - 1] = q[(Len(q) - 1) + 1] /\ (Len(q) - 1) + 1 = Len(q)
  BY <1>1, <1>2
<1>4. Tail(q) # <<>>
  <2>1. Len(Tail(q)) # 0
    BY <1>1
  <2>2. Len(<<>>) = 0
    OBVIOUS
  <2> QED BY <2>1, <2>2
<1> QED BY <1>1, <1>3, <1>4

\* Budget and acknowledgement survive a quiet step.
LEMMA QuietKeeps ==
  ASSUME IInv, IInv', DInv, ~hist'.raced => Quiet
  PROVE  AttemptsInv' /\ AcknowledgedIsGoal'
<1>1. ASSUME Clean' PROVE Clean /\ Quiet
  BY <1>1 DEF Quiet, Clean
<1>2. /\ hist.unanswered \in Nat /\ hist'.unanswered \in Nat /\ b.attempts \in Nat /\ b'.attempts \in Nat
  BY DEF IInv, TypeOK, History, BrokerState
<1>3. AttemptsInv'
  <2> SUFFICES ASSUME Clean'
      PROVE  /\ hist'.unanswered <= b'.attempts /\ hist'.unanswered <= MaxAttempts
             /\ hist'.unanswered > 0 => b'.failed \/ b'.pending.sent
             /\ Unsent(b'.pending) => hist'.unanswered < MaxAttempts
    BY DEF AttemptsInv
  <2>1. Clean /\ Quiet
    BY <1>1
  <2>2. /\ hist.unanswered <= b.attempts /\ hist.unanswered <= MaxAttempts
        /\ hist.unanswered > 0 => b.failed \/ b.pending.sent
        /\ Unsent(b.pending) => hist.unanswered < MaxAttempts
    BY <2>1 DEF DInv, AttemptsInv
  <2>3. CASE hist'.unanswered = 0
    BY <2>3, <1>2, Bounds
  <2>4. CASE hist'.unanswered # 0
    <3>1. /\ hist'.unanswered = hist.unanswered /\ b'.attempts = b.attempts
          /\ \/ b'.failed
             \/ /\ b.failed => b'.failed
                /\ b.pending.sent => b'.pending = b.pending
      BY <2>1, <2>4 DEF Quiet, Budgeted
    <3>2. b'.pending = NoCmd \/ b'.pending = b.pending
      BY <2>1 DEF Quiet
    <3>3. Unsent(b'.pending) => Unsent(b.pending)
      BY <3>2 DEF Unsent
    <3> QED BY <3>1, <3>2, <3>3, <2>2
  <2> QED BY <2>3, <2>4
<1>4. AcknowledgedIsGoal'
  BY <1>1 DEF DInv, AcknowledgedIsGoal, Clean, Quiet, Confirmed
<1> QED BY <1>3, <1>4

\* A step that leaves the dispatch alone, and resolves the command that is pending
\* if it queues a write.
LEMMA OutsideKeeps ==
  ASSUME IInv, IInv', DInv, ~hist'.raced => Quiet, task' = task,
         \/ UNCHANGED <<jobs, journal>>
         \/ /\ b'.pending = NoCmd
            /\ \E j \in Job : j.then \notin TaskContinuations /\ jobs' = Append(jobs, j)
         \/ jobs # <<>> /\ Head(jobs).then \notin TaskContinuations /\ jobs' = Tail(jobs),
         b'.pending \in {NoCmd, b.pending}
  PROVE  DInv'
<1>0. /\ jobs \in Seq(Job) /\ b.pending \in Cmd /\ b'.pending \in Cmd
  BY DEF IInv, TypeOK, BrokerState
<1>1. \A k \in AwaitedJobs' : \E l \in AwaitedJobs : jobs'[k] = jobs[l]
  <2>1. CASE jobs' = jobs
    BY <2>1 DEF AwaitedJobs
  <2>2. CASE \E j \in Job : j.then \notin TaskContinuations /\ jobs' = Append(jobs, j)
    <3>1. PICK j \in Job : j.then \notin TaskContinuations /\ jobs' = Append(jobs, j)
      BY <2>2
    <3>2. ASSUME NEW k \in AwaitedJobs' PROVE k \in AwaitedJobs /\ jobs'[k] = jobs[k]
      BY <3>1, <3>2, <1>0, AppendElements DEF AwaitedJobs
    <3> QED BY <3>2
  <2>3. CASE jobs # <<>> /\ jobs' = Tail(jobs)
    <3>1. ASSUME NEW k \in AwaitedJobs' PROVE k + 1 \in AwaitedJobs /\ jobs'[k] = jobs[k + 1]
      BY <2>3, <3>1, <1>0 DEF AwaitedJobs
    <3> QED BY <3>1
  <2> QED BY <2>1, <2>2, <2>3
<1>2. StageInv'
  <2> SUFFICES ASSUME NEW t \in Task, task'[t].pc \in {"persist", "mark"}
      PROVE  /\ task'[t].cmd.id # 0
             /\ task'[t].cmd.id = b'.pending.id => task'[t].cmd.val = b'.pending.val
             /\ task'[t].pc = "mark" =>
                  task'[t].cmd.sent /\ \A k \in AwaitedJobs' : jobs'[k].cmd = task'[t].cmd
    BY DEF StageInv
  <2>1. task'[t] = task[t]
    OBVIOUS
  <2>2. /\ task[t].cmd.id # 0
        /\ task[t].cmd.id = b.pending.id => task[t].cmd.val = b.pending.val
        /\ task[t].pc = "mark" =>
             task[t].cmd.sent /\ \A k \in AwaitedJobs : jobs[k].cmd = task[t].cmd
    BY <2>1 DEF DInv, StageInv
  <2> QED BY <2>1, <2>2, <1>1, Bounds
<1>3. PendingInv'
  <2> SUFFICES ASSUME Clean'
      PROVE  /\ b'.pending # NoCmd => b'.pending.val = b'.goal
             /\ Unsent(b'.pending) => jobs' # <<>> /\ jobs'[Len(jobs')].then \in {"persist", "mark"}
             /\ b'.pending.sent =>
                  /\ jobs' = <<>>
                  /\ journal'.mem = SentRecord(b'.pending) /\ journal'.disk = SentRecord(b'.pending)
    BY DEF PendingInv
  <2>1. Clean /\ Quiet
    BY DEF Clean, Quiet
  <2>2. /\ b.pending # NoCmd => b.pending.val = b.goal
        /\ Unsent(b.pending) => jobs # <<>> /\ jobs[Len(jobs)].then \in {"persist", "mark"}
        /\ b.pending.sent =>
             /\ jobs = <<>>
             /\ journal.mem = SentRecord(b.pending) /\ journal.disk = SentRecord(b.pending)
    BY <2>1 DEF DInv, PendingInv
  <2>3. CASE b'.pending = NoCmd
    BY <2>3, Bounds DEF Unsent
  <2>4. CASE b'.pending # NoCmd
    <3>1. b'.pending = b.pending /\ b'.goal = b.goal
      BY <2>4, <2>1 DEF Quiet
    <3>2. CASE UNCHANGED <<jobs, journal>>
      BY <2>2, <3>1, <3>2
    <3>3. CASE jobs # <<>> /\ Head(jobs).then \notin TaskContinuations /\ jobs' = Tail(jobs)
      <4>1. ~b.pending.sent
        BY <2>2, <3>3
      <4>2. Unsent(b.pending) => jobs' # <<>> /\ jobs'[Len(jobs')] = jobs[Len(jobs)]
        <5> SUFFICES ASSUME Unsent(b.pending)
                     PROVE  jobs' # <<>> /\ jobs'[Len(jobs')] = jobs[Len(jobs)]
          OBVIOUS
        <5>1. jobs[Len(jobs)].then \in TaskContinuations
          BY <2>2 DEF TaskContinuations
        <5>2. Head(jobs) = jobs[1] /\ Len(jobs) # 1 /\ Len(jobs) \in Nat \ {0}
          BY <5>1, <3>3, <1>0
        <5> QED BY <5>2, <3>3, <1>0, TailLast
      <4> QED BY <2>2, <3>1, <4>1, <4>2
    <3> QED BY <2>4, <3>2, <3>3
  <2> QED BY <2>3, <2>4
<1> QED BY <1>2, <1>3, QuietKeeps DEF DInv

-----------------------------------------------------------------------------
\* What the helpers do to the fields that matter here.
LEMMA Helpers ==
  ASSUME NEW s \in BrokerState, NEW v
  PROVE  /\ Invalidate(s).pending = s.pending /\ Invalidate(s).goal = s.goal
         /\ Invalidate(s).attempts = s.attempts /\ Invalidate(s).status = s.status
         /\ Invalidate(s).acked = s.acked /\ (Invalidate(s).failed <=> s.failed)
         /\ WriteFailed(s).pending = s.pending /\ WriteFailed(s).goal = s.goal
         /\ WriteFailed(s).attempts = s.attempts /\ WriteFailed(s).status # "acknowledged"
         /\ WriteFailed(s).failed
         /\ TimedOut(s).pending = NoCmd /\ TimedOut(s).attempts = s.attempts
         /\ TimedOut(s).status # "acknowledged" /\ TimedOut(s).failed
         /\ Reset(s).pending = NoCmd /\ Reset(s).status # "acknowledged"
         /\ Acknowledge(s, v).pending = s.pending /\ Acknowledge(s, v).goal = s.goal
         /\ Acknowledge(s, v).acked = v /\ ~Acknowledge(s, v).failed
<1>1. /\ Invalidate(s).pending = s.pending /\ Invalidate(s).goal = s.goal
      /\ Invalidate(s).attempts = s.attempts /\ Invalidate(s).status = s.status
      /\ Invalidate(s).acked = s.acked /\ (Invalidate(s).failed <=> s.failed)
  BY DEF Invalidate, BrokerState
<1>2. /\ WriteFailed(s).pending = s.pending /\ WriteFailed(s).goal = s.goal
      /\ WriteFailed(s).attempts = s.attempts /\ WriteFailed(s).status # "acknowledged"
      /\ WriteFailed(s).failed
  BY DEF WriteFailed, BrokerState
<1>3. /\ TimedOut(s).pending = NoCmd /\ TimedOut(s).attempts = s.attempts
      /\ TimedOut(s).status # "acknowledged" /\ TimedOut(s).failed
  BY DEF TimedOut, WriteFailed, BrokerState
<1>4. Reset(s).pending = NoCmd /\ Reset(s).status # "acknowledged"
  BY DEF Reset, BrokerState
<1>5. /\ Acknowledge(s, v).pending = s.pending /\ Acknowledge(s, v).goal = s.goal
      /\ Acknowledge(s, v).acked = v /\ ~Acknowledge(s, v).failed
  BY DEF Acknowledge, BrokerState
<1> QED BY <1>1, <1>2, <1>3, <1>4, <1>5

LEMMA Histories ==
  ASSUME hist \in History, NEW fb, NEW v
  PROVE  /\ Answered(hist).unanswered = 0 /\ (Answered(hist).raced <=> hist.raced)
         /\ Noted(hist, fb).unanswered = hist.unanswered /\ (Noted(hist, fb).raced <=> hist.raced)
         /\ Ignored(hist, fb).unanswered = hist.unanswered
         /\ (Ignored(hist, fb).raced <=> hist.raced)
         /\ Settled(hist).unanswered = 0 /\ (Settled(hist).raced <=> hist.raced)
         /\ Discarded(hist).unanswered = 0 /\ (Discarded(hist).raced <=> hist.raced)
         /\ Overtaken(hist).unanswered = 0 /\ (Overtaken(hist).raced <=> hist.raced)
         /\ Retargeted(hist, v).unanswered = (IF b.goal = v THEN hist.unanswered ELSE 0)
         /\ (Retargeted(hist, v).raced <=> hist.raced)
<1>1. /\ Answered(hist).unanswered = 0 /\ (Answered(hist).raced <=> hist.raced)
  BY DEF Answered, History
<1>2. /\ Noted(hist, fb).unanswered = hist.unanswered /\ (Noted(hist, fb).raced <=> hist.raced)
  BY DEF Noted, History
<1>3. /\ Ignored(hist, fb).unanswered = hist.unanswered
      /\ (Ignored(hist, fb).raced <=> hist.raced)
  BY DEF Ignored, Noted, History
<1>4. Settled(hist).unanswered = 0 /\ (Settled(hist).raced <=> hist.raced)
  BY DEF Settled, Answered, History
<1>5. /\ Retargeted(hist, v).unanswered = (IF b.goal = v THEN hist.unanswered ELSE 0)
      /\ (Retargeted(hist, v).raced <=> hist.raced)
  BY <1>1 DEF Retargeted
<1>6. Discarded(hist).unanswered = 0 /\ (Discarded(hist).raced <=> hist.raced)
  BY DEF Discarded, Answered, History
<1>7. Overtaken(hist).unanswered = 0 /\ (Overtaken(hist).raced <=> hist.raced)
  BY DEF Overtaken, Answered, History
<1> QED BY <1>1, <1>2, <1>3, <1>4, <1>5, <1>6, <1>7

LEMMA PreparedFields ==
  ASSUME NEW s \in BrokerState, NEW i \in Intent, env \in Environment
  PROVE  LET p == Prepare(s, i)
         IN /\ p.pending = s.pending /\ p.goal = i.val /\ (p.failed <=> s.failed)
            /\ p.attempts = (IF s.goal = i.val THEN s.attempts ELSE 0)
            /\ p.status = (IF s.goal = i.val THEN s.status ELSE "idle")
            /\ p.acked = s.acked \/ p.acked = NoVal
<1> DEFINE r == Retarget(s, i.val)
<1>1. /\ r \in BrokerState /\ r.pending = s.pending /\ r.goal = i.val /\ (r.failed <=> s.failed)
      /\ r.attempts = (IF s.goal = i.val THEN s.attempts ELSE 0)
      /\ r.status = (IF s.goal = i.val THEN s.status ELSE "idle")
      /\ r.acked = s.acked
  BY DEF Retarget, BrokerState, Statuses, Intent
<1> HIDE DEF r
<1>2. LET p == Adopt(r, i)
      IN /\ p.pending = r.pending /\ p.goal = r.goal /\ (p.failed <=> r.failed)
         /\ p.attempts = r.attempts /\ p.status = r.status
         /\ p.acked = r.acked \/ p.acked = NoVal
  BY <1>1 DEF Adopt, BrokerState
<1> QED BY <1>1, <1>2 DEF Prepare, r

-----------------------------------------------------------------------------
(* The steps of a submit *)

\* A state in which a submit decides: the broker's, perhaps without the queued intent.
Deciding(s) ==
  /\ s \in Fitting /\ s \in BrokerState
  /\ s.pending = b.pending /\ s.goal = b.goal /\ s.attempts = b.attempts
  /\ s.status = b.status /\ s.acked = b.acked /\ (s.failed <=> b.failed)

\* A submit that adopts a goal while no command is pending.
LEMMA AdoptedIsQuiet ==
  ASSUME IInv, NEW s, Deciding(s), NEW i \in Intent, s.pending = NoCmd,
         NEW p, p = Prepare(s, i),
         b'.pending = p.pending, b'.goal = p.goal, b'.attempts = p.attempts,
         b'.failed <=> p.failed, b'.acked = p.acked,
         b'.status = p.status \/ b'.status # "acknowledged",
         hist' = Retargeted(hist, i.val) \/ hist' = Answered(hist)
  PROVE  Quiet
<1>1. /\ b \in BrokerState /\ env \in Environment /\ hist \in History /\ hist.unanswered \in Nat
      /\ s \in BrokerState
  BY DEF IInv, TypeOK, Deciding, History
<1>2. /\ p.pending = s.pending /\ p.goal = i.val /\ (p.failed <=> s.failed)
      /\ p.attempts = (IF s.goal = i.val THEN s.attempts ELSE 0)
      /\ p.status = (IF s.goal = i.val THEN s.status ELSE "idle")
      /\ p.acked = s.acked \/ p.acked = NoVal
  BY <1>1, PreparedFields
<1>3. /\ hist'.raced <=> hist.raced
      /\ hist'.unanswered = 0 \/ (b.goal = i.val /\ hist'.unanswered = hist.unanswered)
  BY <1>1, Histories
<1>4. b'.pending = NoCmd /\ ~b.pending.sent
  BY <1>2, Bounds DEF Deciding
<1>5. Budgeted
  BY <1>2, <1>3, <1>4 DEF Budgeted, Deciding
<1>6. Confirmed
  <2>1. CASE s.goal = i.val
    BY <2>1, <1>2 DEF Confirmed, Deciding
  <2>2. CASE s.goal # i.val
    BY <2>2, <1>2 DEF Confirmed, Deciding
  <2> QED BY <2>1, <2>2
<1> QED BY <1>1, <1>3, <1>4, <1>5, <1>6 DEF Quiet

\* The first stage of a dispatch, for a goal that has attempts left.
LEMMA BeginKeeps ==
  ASSUME IInv, IInv', DInv, NEW t \in Task, NEW s \in BrokerState, NEW i \in Intent,
         NEW now \in Nat, Begin(t, s, i, now),
         \A u \in Task : task[u].pc \notin {"persist", "mark"},
         hist.raced => hist'.raced,
         Clean' => /\ s.goal = i.val /\ hist'.unanswered < MaxAttempts
                   /\ hist'.unanswered <= s.attempts
                   /\ hist'.unanswered > 0 => s.failed
                   /\ s.status = "acknowledged" /\ s.acked # NoVal =>
                        ~s.failed /\ s.acked = s.goal
  PROVE  DInv'
<1> DEFINE c == [id |-> nextId, val |-> i.val, rev |-> i.rev, reg |-> now, sent |-> FALSE]
           j == [then |-> "persist", cmd |-> c, fb |-> NoFeedback]
           r == [pc |-> "persist", intent |-> i, now |-> now, cmd |-> c, callAt |-> 0]
<1>1. /\ b' = [s EXCEPT !.queued = NoIntent, !.pending = c, !.completed = NoCmd]
      /\ task' = [task EXCEPT ![t] = r]
      /\ jobs' = Append(jobs, j)
  BY DEF Begin, EnqueueJob
<1>2. /\ nextId \in Nat \ {0} /\ jobs \in Seq(Job) /\ task \in [Task -> TaskState]
      /\ hist'.unanswered \in Nat
  BY DEF IInv, TypeOK, History
<1>3. c.id # 0 /\ c.val = i.val /\ ~c.sent /\ c # NoCmd
  BY <1>2, Bounds
<1>4. r.pc = "persist" /\ r.cmd = c /\ j.then = "persist"
  OBVIOUS
<1>5. j \in Job
  <2>1. c \in Cmd
    BY <1>2 DEF Cmd, Intent
  <2> QED BY <2>1, ConstantTypes DEF Job, Continuations, TaskContinuations
<1> HIDE DEF c, r, j
<1>6. /\ b'.pending = c /\ b'.goal = s.goal /\ b'.attempts = s.attempts /\ (b'.failed <=> s.failed)
      /\ b'.status = s.status /\ b'.acked = s.acked
  BY <1>1 DEF BrokerState
<1>7. task'[t].pc = "persist" /\ task'[t].cmd = c
  BY <1>1, <1>2, <1>4
<1>8. \A u \in Task : u # t => task'[u] = task[u]
  BY <1>1, <1>2
<1>9. StageInv'
  <2> SUFFICES ASSUME NEW u \in Task, task'[u].pc \in {"persist", "mark"}
      PROVE  /\ task'[u].cmd.id # 0
             /\ task'[u].cmd.id = b'.pending.id => task'[u].cmd.val = b'.pending.val
             /\ task'[u].pc = "mark" =>
                  task'[u].cmd.sent /\ \A k \in AwaitedJobs' : jobs'[k].cmd = task'[u].cmd
    BY DEF StageInv
  <2>1. u = t
    BY <1>8
  <2> QED BY <2>1, <1>3, <1>6, <1>7
<1>10. jobs' # <<>> /\ jobs'[Len(jobs')] = j
  BY <1>1, <1>2, <1>5
<1>11. PendingInv'
  BY <1>3, <1>4, <1>6, <1>10 DEF PendingInv
<1>12. AttemptsInv'
  BY <1>6, <1>2, Bounds DEF AttemptsInv
<1>13. AcknowledgedIsGoal'
  BY <1>6 DEF AcknowledgedIsGoal, Clean
<1> QED BY <1>9, <1>11, <1>12, <1>13 DEF DInv

LEMMA SubmitKeeps ==
  ASSUME IInv, IInv', DInv, NEW t \in Task, Submit(t) \/ Drain(t)
  PROVE  DInv'
<1>1. /\ b \in BrokerState /\ env \in Environment /\ hist \in History /\ hist.unanswered \in Nat
      /\ jobs \in Seq(Job) /\ task \in [Task -> TaskState] /\ b \in Fitting
  BY BrokerFits DEF IInv, TypeOK, History
<1>2. task[t].pc = "idle" /\ journal' = journal
  BY DEF Submit, Drain
<1>3a. PICK s \in {b, Invalidate(b)}, i \in Intent, now \in Nat : AsyncSubmit(t, s, i, now)
  <2>1. CASE Submit(t)
    <3>1. PICK v \in Val, k \in Kinds, now \in (clock - MaxLag) .. clock :
             /\ now >= 0
             /\ AsyncSubmit(t, b, [val |-> v, kind |-> k, gen |-> env.gen,
                                   rev |-> env.rev, at |-> now], now)
      BY <2>1 DEF Submit
    <3>2. now \in Nat
      BY <3>1, TimeAssumption DEF IInv, TypeOK
    <3>3. [val |-> v, kind |-> k, gen |-> env.gen, rev |-> env.rev, at |-> now] \in Intent
      BY <3>2, KindAssumption, <1>1 DEF Intent, ValOrNone, Environment
    <3> QED BY <3>1, <3>2, <3>3
  <2>2. CASE Drain(t)
    <3>1. AsyncSubmit(t, Invalidate(b), b.queued, clock)
      BY <2>2 DEF Drain
    <3>2. b.queued \in Intent /\ clock \in Nat
      BY DEF IInv, TypeOK, BrokerState
    <3> QED BY <3>1, <3>2
  <2> QED BY <2>1, <2>2
<1>3. Deciding(s) /\ AsyncSubmit(t, s, i, now)
  <2>1. Deciding(b)
    BY <1>1 DEF Deciding
  <2>2. Deciding(Invalidate(b))
    <3>1. Invalidate(b) \in Fitting /\ Invalidate(b) \in BrokerState
      BY <1>1, SimpleTypes, ConstantTypes DEF Fitting, NoCmd, Cmd
    <3>2. /\ Invalidate(b).pending = b.pending /\ Invalidate(b).goal = b.goal
          /\ Invalidate(b).attempts = b.attempts /\ Invalidate(b).status = b.status
          /\ Invalidate(b).acked = b.acked /\ (Invalidate(b).failed <=> b.failed)
      BY <1>1, Helpers
    <3> QED BY <3>1, <3>2 DEF Deciding
  <2> QED BY <2>1, <2>2, <1>3a
<1> DEFINE p == Prepare(s, i)
<1>4. /\ s \in BrokerState /\ Invalidate(s).pending = s.pending /\ Invalidate(s).goal = s.goal
      /\ Invalidate(s).attempts = s.attempts /\ Invalidate(s).status = s.status
      /\ Invalidate(s).acked = s.acked /\ (Invalidate(s).failed <=> s.failed)
  BY <1>3, Helpers DEF Deciding
<1>5. /\ p.pending = s.pending /\ p.goal = i.val /\ (p.failed <=> s.failed)
      /\ p.attempts = (IF s.goal = i.val THEN s.attempts ELSE 0)
      /\ p.status = (IF s.goal = i.val THEN s.status ELSE "idle")
      /\ p.acked = s.acked \/ p.acked = NoVal
  BY <1>1, <1>4, PreparedFields
<1>6. p \in BrokerState /\ p \in Fitting
  BY <1>1, <1>3, PrepareType DEF Deciding, Fitting
<1> HIDE DEF p
<1>7. CASE Refused(s, i, now)
  <2>1. b' = Invalidate(s) \/ b' = s
    BY <1>7 DEF Refused
  <2>2. UNCHANGED <<task, jobs, hist>>
    BY <1>7 DEF Refused
  <2>3. Quiet
    BY <2>1, <2>2, <1>1, <1>3, <1>4 DEF Quiet, Budgeted, Confirmed, Deciding
  <2> QED BY <1>2, <2>2, <2>3, OutsideKeeps DEF Quiet
<1>8. CASE Postponed(s, i, now)
  <2>1. b' = [s EXCEPT !.queued = i] /\ UNCHANGED <<task, jobs, hist>>
    BY <1>8 DEF Postponed
  <2>2. /\ b'.pending = s.pending /\ b'.goal = s.goal /\ b'.attempts = s.attempts
        /\ b'.status = s.status /\ b'.acked = s.acked /\ (b'.failed <=> s.failed)
    BY <2>1, <1>4 DEF BrokerState
  <2>3. Quiet
    BY <2>1, <2>2, <1>1, <1>3 DEF Quiet, Budgeted, Confirmed, Deciding
  <2> QED BY <1>2, <2>1, <2>3, OutsideKeeps DEF Quiet
<1>9. CASE AlreadyCurrent(s, i, now)
  <2> DEFINE r == Retarget(s, i.val)
  <2>1. /\ b' = [r EXCEPT !.acked = env.live, !.queued = NoIntent,
                          !.status = "acknowledged", !.failed = FALSE]
        /\ s.pending = NoCmd /\ env.live = i.val /\ hist' = Answered(hist)
        /\ UNCHANGED <<task, jobs>>
    BY <1>9 DEF AlreadyCurrent
  <2>2. r \in BrokerState /\ r.pending = s.pending /\ r.goal = i.val
    BY <1>4 DEF Retarget, BrokerState, Statuses, Intent
  <2> HIDE DEF r
  <2>3. b'.pending = NoCmd /\ b'.goal = i.val /\ b'.acked = i.val /\ ~b'.failed
    BY <2>1, <2>2 DEF BrokerState
  <2>4. hist'.unanswered = 0 /\ (hist'.raced <=> hist.raced)
    BY <2>1, <1>1, Histories
  <2>5. Quiet
    BY <2>3, <2>4, <1>1 DEF Quiet, Budgeted, Confirmed
  <2> QED BY <1>2, <2>1, <2>3, <2>5, OutsideKeeps
<1>10. ASSUME FoundExternal(s, i, now) \/ Suppressed(s, i, now) \/ Delayed(s, i, now)
              \/ (Accepted(t, s, i, now) /\ lock # <<>>)
       PROVE  /\ s.pending = NoCmd /\ jobs' = jobs
              /\ b'.pending = p.pending /\ b'.goal = p.goal /\ b'.attempts = p.attempts
              /\ b'.failed <=> p.failed
              /\ b'.acked = p.acked
              /\ b'.status = p.status \/ b'.status # "acknowledged"
              /\ hist' = Retargeted(hist, i.val) \/ hist' = Answered(hist)
              /\ Quiet
  <2>1. s.pending = NoCmd
    BY <1>10 DEF FoundExternal, Suppressed, Delayed, Accepted, Considered
  <2>2. /\ \/ b' = Invalidate(p) \/ b' = p \/ b' = [p EXCEPT !.queued = i]
           \/ b' = [[p EXCEPT !.queued = i] EXCEPT !.status = "retry_pending"]
        /\ jobs' = jobs
        /\ hist' = Retargeted(hist, i.val) \/ hist' = Answered(hist)
    BY <1>10 DEF FoundExternal, Suppressed, Delayed, Accepted, LockFree, p
  <2>3. /\ b'.pending = p.pending /\ b'.goal = p.goal /\ b'.attempts = p.attempts
        /\ b'.failed <=> p.failed
        /\ b'.acked = p.acked
        /\ b'.status = p.status \/ b'.status # "acknowledged"
    <3>1. CASE b' = Invalidate(p)
      BY <3>1, <1>6, Helpers
    <3>2. CASE b' = p
      BY <3>2
    <3>3. CASE b' = [p EXCEPT !.queued = i]
      BY <3>3, <1>6 DEF BrokerState
    <3>4. CASE b' = [[p EXCEPT !.queued = i] EXCEPT !.status = "retry_pending"]
      BY <3>4, <1>6 DEF BrokerState
    <3> QED BY <2>2, <3>1, <3>2, <3>3, <3>4
  <2>4. Quiet
    BY <2>1, <2>2, <2>3, <1>3, AdoptedIsQuiet DEF p
  <2> QED BY <2>1, <2>2, <2>3, <2>4
<1>11. CASE FoundExternal(s, i, now) \/ Suppressed(s, i, now) \/ Delayed(s, i, now)
  <2>1. task' = task
    BY <1>11 DEF FoundExternal, Suppressed, Delayed
  <2> QED BY <1>2, <1>5, <1>10, <1>11, <2>1, OutsideKeeps
<1>12. CASE Accepted(t, s, i, now) /\ lock # <<>>
  <2>1. b'.pending = NoCmd /\ b.pending = NoCmd
    BY <1>3, <1>5, <1>10, <1>12 DEF Deciding
  <2>2. /\ task'[t].pc = "waiting" /\ \A u \in Task : u # t => task'[u] = task[u]
    <3> DEFINE r == [Idle EXCEPT !.pc = "waiting", !.intent = i, !.now = now]
    <3>1. r.pc = "waiting"
      BY DEF Idle
    <3>2. task' = [task EXCEPT ![t] = r]
      BY <1>12 DEF Accepted, LockFree
    <3> HIDE DEF r
    <3> QED BY <3>1, <3>2, <1>1
  <2>3. StageInv'
    <3> SUFFICES ASSUME NEW u \in Task, task'[u].pc \in {"persist", "mark"}
        PROVE  /\ task'[u].cmd.id # 0
               /\ task'[u].cmd.id = b'.pending.id => task'[u].cmd.val = b'.pending.val
               /\ task'[u].pc = "mark" =>
                    task'[u].cmd.sent /\ \A k \in AwaitedJobs' : jobs'[k].cmd = task'[u].cmd
      BY DEF StageInv
    <3>1. task'[u] = task[u]
      BY <2>2
    <3> QED BY <3>1, <2>1, <1>10, <1>12 DEF DInv, StageInv, AwaitedJobs
  <2>4. PendingInv'
    BY <2>1, Bounds DEF PendingInv, Unsent
  <2> QED BY <2>3, <2>4, <1>10, <1>12, QuietKeeps DEF DInv
<1>13. CASE Accepted(t, s, i, now) /\ lock = <<>>
  <2>1. /\ Begin(t, p, i, now) /\ RemainingChecks(p, i, now)
        /\ hist' = Retargeted(hist, i.val) /\ s.pending = NoCmd
    BY <1>13 DEF Accepted, LockFree, Considered, p
  <2>2. \A u \in Task : task[u].pc \notin {"persist", "mark"}
    BY <1>13 DEF IInv, LockInv, Dispatching
  <2>3. /\ hist'.unanswered = (IF b.goal = i.val THEN hist.unanswered ELSE 0)
        /\ hist'.raced <=> hist.raced
    BY <2>1, <1>1, Histories
  <2>4. ASSUME Clean'
        PROVE  /\ p.goal = i.val /\ hist'.unanswered < MaxAttempts
               /\ hist'.unanswered <= p.attempts
               /\ hist'.unanswered > 0 => p.failed
               /\ p.status = "acknowledged" /\ p.acked # NoVal =>
                    ~p.failed /\ p.acked = p.goal
    <3>1. Clean /\ b.pending = NoCmd /\ ~b.pending.sent
      BY <2>1, <2>3, <2>4, <1>3, Bounds DEF Clean, Deciding
    <3>2. /\ hist.unanswered <= b.attempts
          /\ hist.unanswered > 0 => b.failed
      BY <3>1 DEF DInv, AttemptsInv
    <3>3. b.status = "acknowledged" /\ b.acked # NoVal => ~b.failed /\ b.acked = b.goal
      BY <3>1 DEF DInv, AcknowledgedIsGoal, Clean
    <3>4. ~(p.attempts >= MaxAttempts /\ p.failed) /\ p.attempts \in Nat
      BY <2>1, <1>6 DEF RemainingChecks, Exhausted, BrokerState
    <3>5. CASE b.goal = i.val
      <4>1. p.attempts = b.attempts /\ (p.failed <=> b.failed) /\ p.status = b.status
        BY <3>5, <1>3, <1>5 DEF Deciding
      <4>2. hist'.unanswered <= p.attempts /\ (hist'.unanswered > 0 => p.failed)
        BY <4>1, <3>2, <3>5, <2>3
      <4>3. hist'.unanswered < MaxAttempts
        BY <4>2, <3>4, <2>3, <3>5, <1>1, Bounds
      <4>4. p.acked = b.acked \/ p.acked = NoVal
        BY <1>3, <1>5 DEF Deciding
      <4> QED BY <4>1, <4>2, <4>3, <4>4, <3>3, <3>5, <1>5
    <3>6. CASE b.goal # i.val
      BY <3>6, <3>4, <1>3, <1>5, <2>3, Bounds DEF Deciding
    <3> QED BY <3>5, <3>6
  <2>5. hist.raced => hist'.raced
    BY <2>3
  <2> QED BY <2>1, <2>2, <2>4, <2>5, <1>6, BeginKeeps
<1> QED BY <1>3, <1>7, <1>8, <1>9, <1>11, <1>12, <1>13 DEF AsyncSubmit

-----------------------------------------------------------------------------
(* The steps of a dispatch *)

LEMMA AcquireLockKeeps ==
  ASSUME IInv, IInv', DInv, NEW t \in Task, AcquireLock(t)
  PROVE  DInv'
<1> DEFINE i == task[t].intent
           now == task[t].now
           more == b.pending # NoCmd \/ b.goal # i.val \/ ~RemainingChecks(b, i, now)
<1>1. /\ lock[1] = t /\ task[t].pc = "waiting" /\ i \in Intent /\ now \in Nat
      /\ b \in BrokerState /\ hist \in History /\ hist.unanswered \in Nat
  BY DEF AcquireLock, IInv, TypeOK, TaskState, History
<1>2. Begin(t, b, i, now) /\ hist' = [hist EXCEPT !.raced = @ \/ more]
  BY DEF AcquireLock
<1>3. \A u \in Task : task[u].pc \notin {"persist", "mark"}
  BY <1>1 DEF IInv, LockInv, Dispatching
<1>4. hist'.unanswered = hist.unanswered /\ (hist'.raced <=> hist.raced \/ more)
  BY <1>1, <1>2 DEF History
<1>5. ASSUME Clean'
      PROVE  /\ b.goal = i.val /\ hist'.unanswered < MaxAttempts
             /\ hist'.unanswered <= b.attempts
             /\ hist'.unanswered > 0 => b.failed
             /\ b.status = "acknowledged" /\ b.acked # NoVal => ~b.failed /\ b.acked = b.goal
  <2>1. Clean /\ b.pending = NoCmd /\ b.goal = i.val /\ RemainingChecks(b, i, now)
    BY <1>4, <1>5 DEF Clean
  <2>2. hist.unanswered <= b.attempts /\ (hist.unanswered > 0 => b.failed)
    BY <2>1, Bounds DEF DInv, AttemptsInv
  <2>3. ~(b.attempts >= MaxAttempts /\ b.failed) /\ b.attempts \in Nat
    BY <2>1, <1>1 DEF RemainingChecks, Exhausted, BrokerState
  <2>4. hist.unanswered < MaxAttempts
    BY <2>2, <2>3, <1>1, Bounds
  <2>5. b.status = "acknowledged" /\ b.acked # NoVal => ~b.failed /\ b.acked = b.goal
    BY <2>1 DEF DInv, AcknowledgedIsGoal, Clean
  <2> QED BY <1>4, <2>1, <2>2, <2>4, <2>5
<1>6. hist.raced => hist'.raced
  BY <1>4
<1> HIDE DEF i, now
<1> QED BY <1>1, <1>2, <1>3, <1>5, <1>6, BeginKeeps

\* A step after which no dispatch awaits a write.
LEMMA EndKeeps ==
  ASSUME IInv, IInv', DInv, ~hist'.raced => Quiet,
         \A u \in Task : task'[u].pc \notin {"persist", "mark"},
         ~hist'.raced => b'.pending = NoCmd \/ UNCHANGED <<jobs, journal>>
  PROVE  DInv'
<1>1. StageInv'
  BY DEF StageInv
<1>2. PendingInv'
  <2> SUFFICES ASSUME Clean'
      PROVE  /\ b'.pending # NoCmd => b'.pending.val = b'.goal
             /\ Unsent(b'.pending) => jobs' # <<>> /\ jobs'[Len(jobs')].then \in {"persist", "mark"}
             /\ b'.pending.sent =>
                  /\ jobs' = <<>>
                  /\ journal'.mem = SentRecord(b'.pending) /\ journal'.disk = SentRecord(b'.pending)
    BY DEF PendingInv
  <2>1. Clean /\ Quiet
    BY DEF Clean, Quiet
  <2>2. CASE b'.pending = NoCmd
    BY <2>2, Bounds DEF Unsent
  <2>3. CASE b'.pending # NoCmd
    <3>1. b'.pending = b.pending /\ b'.goal = b.goal /\ UNCHANGED <<jobs, journal>>
      BY <2>3, <2>1 DEF Quiet, Clean
    <3> QED BY <3>1, <2>1 DEF DInv, PendingInv
  <2> QED BY <2>2, <2>3
<1> QED BY <1>1, <1>2, QuietKeeps DEF DInv

\* The holder of the lock is the only task that dispatches, so when it is past its writes no task
\* awaits one.
LEMMA NoneAwaits ==
  ASSUME IInv, NEW t \in Dispatching, task'[t].pc \notin {"persist", "mark"},
         \A u \in Task : u # t => task'[u] = task[u]
  PROVE  \A u \in Task : task'[u].pc \notin {"persist", "mark"}
BY DEF IInv, LockInv, Dispatching

LEMMA CallEndKeeps ==
  ASSUME IInv, IInv', DInv, NEW t \in Task, CallEnd(t)
  PROVE  DInv'
<1>1. /\ t \in Dispatching /\ task' = [task EXCEPT ![t] = Idle] /\ Idle.pc = "idle"
      /\ UNCHANGED <<jobs, journal, hist>>
      /\ b \in BrokerState /\ hist \in History /\ hist.unanswered \in Nat
      /\ task \in [Task -> TaskState]
  BY DEF CallEnd, Finish, Dispatching, Idle, IInv, TypeOK, History
<1>2. \A u \in Task : task'[u].pc \notin {"persist", "mark"}
  <2>1. task'[t].pc \notin {"persist", "mark"} /\ \A u \in Task : u # t => task'[u] = task[u]
    BY <1>1 DEF Dispatching
  <2> QED BY <1>1, <2>1, NoneAwaits
<1>3. Quiet
  <2>1. CASE b' = b
    BY <2>1, <1>1 DEF Quiet, Budgeted, Confirmed
  <2>2. CASE b' # b
    <3> DEFINE u == Remember(b.uncertain, task[t].cmd)
               r == [b EXCEPT !.uncertain = u]
    <3>1. b' = WriteFailed(r)
      BY <2>2 DEF CallEnd
    <3>2. r \in BrokerState /\ r.pending = b.pending /\ r.goal = b.goal /\ r.attempts = b.attempts
      <4>1. u \in Seq(Cmd)
        BY <1>1, RememberType DEF IInv, TypeOK, TaskState, BrokerState
      <4> HIDE DEF u
      <4> QED BY <4>1, <1>1 DEF BrokerState
    <3> HIDE DEF r
    <3>3. /\ b'.pending = b.pending /\ b'.goal = b.goal /\ b'.attempts = b.attempts
          /\ b'.status # "acknowledged" /\ b'.failed
      BY <3>1, <3>2, Helpers
    <3> QED BY <3>3, <1>1 DEF Quiet, Budgeted, Confirmed
  <2> QED BY <2>1, <2>2
<1> QED BY <1>1, <1>2, <1>3, EndKeeps

\* While writes are queued no command is outstanding, and a command that is pending then
\* awaits the only one.
LEMMA OwnWrite ==
  ASSUME IInv, DInv, HeadAwaited, Clean
  PROVE  /\ ~b.pending.sent
         /\ b.pending # NoCmd => Len(jobs) = 1 /\ Head(jobs).then \in {"persist", "mark"}
<1>1. jobs \in Seq(Job) /\ jobs # <<>> /\ 1 \in AwaitedJobs
  BY HeadJob DEF IInv, TypeOK, HeadAwaited
<1>2. ~b.pending.sent
  BY <1>1 DEF DInv, PendingInv
<1>3. ASSUME b.pending # NoCmd
      PROVE  Len(jobs) = 1 /\ Head(jobs).then \in {"persist", "mark"}
  <2>1. jobs[Len(jobs)].then \in {"persist", "mark"}
    BY <1>2, <1>3 DEF DInv, PendingInv, Unsent
  <2>2. Len(jobs) \in AwaitedJobs
    BY <1>1, <2>1 DEF AwaitedJobs, TaskContinuations
  <2>3. Len(jobs) = 1
    BY <1>1, <2>2 DEF IInv, JobInv
  <2> QED BY <1>1, <2>1, <2>3
<1> QED BY <1>2, <1>3

\* A dispatch that has got a write back and makes no call.
LEMMA GivenUpKeeps ==
  ASSUME IInv, IInv', DInv, HeadAwaited, NEW t, t = lock[1],
         Finish(t) \/ (\E c \in Cmd, external \in BOOLEAN : Cancel(t, c, external)),
         \/ b' = [b EXCEPT !.pending = NoCmd]
         \/ (b' = b \/ b' = Invalidate(b)) /\ Head(jobs).then \notin {"persist", "mark"},
         hist' = hist \/ hist' = Answered(hist)
  PROVE  DInv'
<1>1. /\ t \in Dispatching /\ t \in Task /\ task \in [Task -> TaskState] /\ task[t] \in TaskState
      /\ b \in BrokerState /\ hist \in History /\ hist.unanswered \in Nat
  BY HeadJob DEF IInv, TypeOK, History
<1>2. task'[t].pc \notin {"persist", "mark"} /\ \A u \in Task : u # t => task'[u] = task[u]
  <2>1. CASE Finish(t)
    <3>1. task' = [task EXCEPT ![t] = Idle] /\ Idle.pc = "idle"
      BY <2>1 DEF Finish, Idle
    <3> QED BY <3>1, <1>1
  <2>2. CASE \E c \in Cmd, external \in BOOLEAN : Cancel(t, c, external)
    <3>1. PICK c \in Cmd : task' = [task EXCEPT ![t] = [task[t] EXCEPT !.pc = "cancel", !.cmd = c]]
      BY <2>2, <1>1 DEF Cancel
    <3>2. [task[t] EXCEPT !.pc = "cancel", !.cmd = c].pc = "cancel"
      BY <1>1 DEF TaskState
    <3> QED BY <3>1, <3>2, <1>1
  <2> QED BY <2>1, <2>2
<1>3. \A u \in Task : task'[u].pc \notin {"persist", "mark"}
  BY <1>1, <1>2, NoneAwaits
<1>4. (hist'.raced <=> hist.raced) /\ (hist'.unanswered = hist.unanswered \/ hist'.unanswered = 0)
  BY <1>1, Histories
<1>5. /\ b'.goal = b.goal /\ b'.attempts = b.attempts /\ b'.status = b.status /\ b'.acked = b.acked
      /\ b'.failed <=> b.failed
      /\ b'.pending = NoCmd \/ (b'.pending = b.pending /\ Head(jobs).then \notin {"persist", "mark"})
  <2>1. CASE b' = [b EXCEPT !.pending = NoCmd]
    BY <2>1, <1>1 DEF BrokerState
  <2>2. CASE b' = b /\ Head(jobs).then \notin {"persist", "mark"}
    BY <2>2
  <2>3. CASE b' = Invalidate(b) /\ Head(jobs).then \notin {"persist", "mark"}
    BY <2>3, <1>1, Helpers
  <2> QED BY <2>1, <2>2, <2>3
<1>6. ASSUME ~hist'.raced PROVE Quiet /\ b'.pending = NoCmd
  <2>1. ~b.pending.sent /\ b'.pending = NoCmd
    BY <1>4, <1>5, <1>6, OwnWrite DEF Clean
  <2> QED BY <2>1, <1>1, <1>4, <1>5 DEF Quiet, Budgeted, Confirmed
<1> QED BY <1>3, <1>6, EndKeeps

\* The command is journalled and its record is marked as sent next.
LEMMA MarkKeeps ==
  ASSUME IInv, IInv', DInv, HeadAwaited, NEW t, t = lock[1], Head(jobs).then = "persist",
         task' = [task EXCEPT ![t].pc = "mark", ![t].cmd = [task[t].cmd EXCEPT !.sent = TRUE]],
         jobs' = Append(Tail(jobs), [then |-> "mark", cmd |-> [task[t].cmd EXCEPT !.sent = TRUE],
                                     fb |-> NoFeedback]),
         UNCHANGED <<b, hist>>
  PROVE  DInv'
<1> DEFINE c == [task[t].cmd EXCEPT !.sent = TRUE]
           j == [then |-> "mark", cmd |-> c, fb |-> NoFeedback]
<1>1. /\ t \in Dispatching /\ t \in Task /\ task \in [Task -> TaskState] /\ task[t] \in TaskState
      /\ task[t].cmd \in Cmd /\ jobs \in Seq(Job) /\ jobs # <<>> /\ 1 \in AwaitedJobs
      /\ task[t].pc = "persist"
      /\ b \in BrokerState /\ hist.unanswered \in Nat
  BY HeadJob DEF IInv, TypeOK, History, TaskState, HeadAwaited, Stage, TaskContinuations
<1>2. c \in Cmd /\ c.sent /\ c.id = task[t].cmd.id /\ c.val = task[t].cmd.val
  BY <1>1 DEF Cmd
<1>3. j \in Job /\ j.then = "mark" /\ j.cmd = c
  BY <1>2, ConstantTypes DEF Job, Continuations, TaskContinuations
<1>4. task' = [task EXCEPT ![t] = [task[t] EXCEPT !.pc = "mark", !.cmd = c]]
  BY <1>1
<1>5. jobs' = Append(Tail(jobs), j)
  OBVIOUS
<1> HIDE DEF c, j
<1>6. /\ task'[t].pc = "mark" /\ task'[t].cmd = c
      /\ \A u \in Task : u # t => task'[u] = task[u]
  <2>1. [task[t] EXCEPT !.pc = "mark", !.cmd = c].pc = "mark"
        /\ [task[t] EXCEPT !.pc = "mark", !.cmd = c].cmd = c
    BY <1>1 DEF TaskState
  <2> QED BY <2>1, <1>1, <1>4
<1>7. /\ Tail(jobs) \in Seq(Job) /\ jobs' # <<>> /\ Len(jobs') \in DOMAIN jobs'
      /\ jobs'[Len(jobs')] = j
  BY <1>1, <1>3, <1>5
<1>8. \A k \in AwaitedJobs' : jobs'[k] = j
  <2>1. Len(jobs') \in AwaitedJobs'
    BY <1>3, <1>7 DEF AwaitedJobs, TaskContinuations
  <2> QED BY <2>1, <1>7 DEF IInv, JobInv
<1>9. StageInv'
  <2> SUFFICES ASSUME NEW u \in Task, task'[u].pc \in {"persist", "mark"}
      PROVE  /\ task'[u].cmd.id # 0
             /\ task'[u].cmd.id = b'.pending.id => task'[u].cmd.val = b'.pending.val
             /\ task'[u].pc = "mark" =>
                  task'[u].cmd.sent /\ \A k \in AwaitedJobs' : jobs'[k].cmd = task'[u].cmd
    BY DEF StageInv
  <2>1. CASE u = t
    <3>1. task[t].cmd.id # 0 /\ (task[t].cmd.id = b.pending.id => task[t].cmd.val = b.pending.val)
      BY <1>1 DEF DInv, StageInv
    <3>2. b'.pending = b.pending /\ task'[u].cmd = c
      BY <2>1, <1>6
    <3>3. c.id # 0 /\ (c.id = b.pending.id => c.val = b.pending.val)
      BY <3>1, <1>2
    <3>4. \A k \in AwaitedJobs' : jobs'[k].cmd = c
      BY <1>3, <1>8
    <3>5. c.sent
      BY <1>2
    <3> QED BY <3>2, <3>3, <3>4, <3>5
  <2>2. CASE u # t
    BY <2>2, <1>1, <1>6 DEF IInv, LockInv, Dispatching
  <2> QED BY <2>1, <2>2
<1>10. PendingInv'
  BY <1>1, <1>3, <1>7, OwnWrite DEF DInv, PendingInv, Clean
<1>11. Quiet
  BY <1>1 DEF Quiet, Budgeted, Confirmed
<1> QED BY <1>9, <1>10, <1>11, QuietKeeps DEF DInv

\* The service call: its record is on disk, and it is an attempt that was left.
LEMMA CallKeeps ==
  ASSUME IInv, IInv', DInv, HeadAwaited, NEW t, t = lock[1], Head(jobs).then = "mark",
         CallService(t),
         journal' = [mem |-> Recorded(Head(jobs)), disk |-> Recorded(Head(jobs))]
  PROVE  DInv'
<1> DEFINE c == task[t].cmd
           more == b.pending.id # c.id
           made == hist.unanswered + 1
           tries == b.attempts + 1
           when == task[t].now
<1>1. /\ t \in Dispatching /\ t \in Task /\ task \in [Task -> TaskState] /\ task[t] \in TaskState
      /\ c \in Cmd /\ jobs \in Seq(Job) /\ jobs # <<>> /\ 1 \in AwaitedJobs /\ Head(jobs) = jobs[1]
      /\ task[t].pc = "mark" /\ clock \in Nat
      /\ b \in BrokerState /\ hist \in History /\ hist.unanswered \in Nat /\ b.attempts \in Nat
  <2>1. t \in Dispatching /\ t \in Task /\ task[t] \in TaskState /\ 1 \in AwaitedJobs /\ jobs # <<>>
    BY HeadJob DEF HeadAwaited
  <2>2. task[t].pc = "mark"
    BY HeadJob DEF Stage, TaskContinuations
  <2>3. /\ task \in [Task -> TaskState] /\ jobs \in Seq(Job) /\ clock \in Nat
        /\ b \in BrokerState /\ hist \in History
    BY DEF IInv, TypeOK
  <2>4. c \in Cmd /\ Head(jobs) = jobs[1]
    BY <2>1, <2>3 DEF TaskState
  <2>5. hist.unanswered \in Nat /\ b.attempts \in Nat
    BY <2>3 DEF History, BrokerState
  <2> QED BY <2>1, <2>2, <2>3, <2>4, <2>5
<1>2. /\ c.id # 0 /\ c.sent /\ (c.id = b.pending.id => c.val = b.pending.val)
      /\ Head(jobs).cmd = c
  BY <1>1 DEF DInv, StageInv
<1>3. /\ b' = [b EXCEPT !.pending = c, !.attempts = tries, !.lastDispatch = when,
                        !.status = "awaiting_acknowledgement"]
      /\ task' = [task EXCEPT ![t] = [task[t] EXCEPT !.pc = "call", !.callAt = clock]]
      /\ hist' = [hist EXCEPT !.unanswered = made, !.raced = @ \/ more]
      /\ jobs' = Tail(jobs)
  BY <1>1 DEF CallService
<1>4. tries \in Nat /\ tries = b.attempts + 1 /\ made = hist.unanswered + 1
  BY <1>1
<1>5. more <=> b.pending.id # c.id
  OBVIOUS
<1> HIDE DEF c, more, made, tries, when
<1>6. /\ b'.pending = c /\ b'.goal = b.goal /\ b'.attempts = tries
      /\ b'.status = "awaiting_acknowledgement"
  BY <1>1, <1>3 DEF BrokerState
<1>7. hist'.unanswered = made /\ (hist'.raced <=> hist.raced \/ more)
  BY <1>1, <1>3 DEF History
<1>8. \A u \in Task : task'[u].pc \notin {"persist", "mark"}
  <2>1. [task[t] EXCEPT !.pc = "call", !.callAt = clock].pc = "call"
    BY <1>1 DEF TaskState
  <2>2. task'[t].pc = "call" /\ \A u \in Task : u # t => task'[u] = task[u]
    BY <2>1, <1>1, <1>3
  <2> QED BY <2>2, <1>1, NoneAwaits
<1>9. StageInv'
  BY <1>8 DEF StageInv
<1>10. ASSUME Clean'
       PROVE  /\ Clean /\ c.id = b.pending.id /\ Unsent(b.pending)
              /\ Len(jobs) = 1
  <2>1. Clean /\ c.id = b.pending.id
    BY <1>5, <1>7, <1>10 DEF Clean
  <2>2. b.pending # NoCmd
    BY <2>1, <1>2, Bounds
  <2> QED BY <2>1, <2>2, OwnWrite DEF Unsent
<1>11. PendingInv'
  <2> SUFFICES ASSUME Clean'
      PROVE  /\ b'.pending # NoCmd => b'.pending.val = b'.goal
             /\ Unsent(b'.pending) => jobs' # <<>> /\ jobs'[Len(jobs')].then \in {"persist", "mark"}
             /\ b'.pending.sent =>
                  /\ jobs' = <<>>
                  /\ journal'.mem = SentRecord(b'.pending) /\ journal'.disk = SentRecord(b'.pending)
    BY DEF PendingInv
  <2>1. c.val = b.goal
    BY <1>2, <1>10 DEF DInv, PendingInv, Unsent
  <2>2. jobs' = <<>>
    BY <1>1, <1>3, <1>10
  <2>3. Recorded(Head(jobs)) = SentRecord(c)
    BY <1>2 DEF Recorded, SentRecord
  <2>4. journal'.mem = SentRecord(c) /\ journal'.disk = SentRecord(c)
    BY <2>3
  <2>5. ~Unsent(c)
    BY <1>2 DEF Unsent
  <2> QED BY <2>1, <2>2, <2>4, <2>5, <1>6
<1>12. AttemptsInv'
  <2> SUFFICES ASSUME Clean'
      PROVE  /\ hist'.unanswered <= b'.attempts /\ hist'.unanswered <= MaxAttempts
             /\ hist'.unanswered > 0 => b'.failed \/ b'.pending.sent
             /\ Unsent(b'.pending) => hist'.unanswered < MaxAttempts
    BY DEF AttemptsInv
  <2>1. hist.unanswered <= b.attempts /\ hist.unanswered < MaxAttempts
    BY <1>10 DEF DInv, AttemptsInv
  <2>2. b'.pending.sent /\ ~Unsent(b'.pending)
    BY <1>2, <1>6 DEF Unsent
  <2>3. hist'.unanswered <= b'.attempts /\ hist'.unanswered <= MaxAttempts
    BY <2>1, <1>1, <1>4, <1>6, <1>7, Bounds
  <2> QED BY <2>2, <2>3
<1>13. AcknowledgedIsGoal'
  BY <1>6 DEF AcknowledgedIsGoal
<1> QED BY <1>9, <1>11, <1>12, <1>13 DEF DInv

LEMMA DispatchKeeps ==
  ASSUME IInv, IInv', DInv, jobs # <<>>, NEW verified \in BOOLEAN,
         ContinueDispatch(Head(jobs), lock[1], verified),
         verified => journal' = [mem |-> Recorded(Head(jobs)), disk |-> Recorded(Head(jobs))]
  PROVE  DInv'
<1> DEFINE t == lock[1]
           j == Head(jobs)
<1>1. HeadAwaited
  BY DEF ContinueDispatch, RecordsExternal, HeadAwaited, TaskContinuations
<1>2. task[t].cmd \in Cmd
  BY <1>1, HeadJob DEF TaskState
<1>3. ASSUME j.then = "persist", AfterPersist(t, verified), hist' = hist PROVE DInv'
  <2>1. CASE b' = [b EXCEPT !.pending = NoCmd] /\ Finish(t)
    BY <1>1, <1>3, <2>1, GivenUpKeeps
  <2>2. CASE Cancel(t, task[t].cmd, Permitted(task[t].intent, task[t].now))
    <3>1. b' = [b EXCEPT !.pending = NoCmd]
      BY <2>2 DEF Cancel
    <3>2. \E c \in Cmd, external \in BOOLEAN : Cancel(t, c, external)
      <4>1. Permitted(task[t].intent, task[t].now) \in BOOLEAN
        BY Zenon DEF Permitted
      <4> QED BY <2>2, <4>1, <1>2
    <3> QED BY <1>1, <1>3, <3>1, <3>2, GivenUpKeeps
  <2>3. CASE /\ task' = [task EXCEPT ![t].pc = "mark", ![t].cmd = [task[t].cmd EXCEPT !.sent = TRUE]]
             /\ jobs' = Append(Tail(jobs),
                          [then |-> "mark", cmd |-> [task[t].cmd EXCEPT !.sent = TRUE],
                           fb |-> NoFeedback])
             /\ UNCHANGED <<b, lock>>
    BY <1>1, <1>3, <2>3, MarkKeeps
  <2> QED BY <1>3, <2>1, <2>2, <2>3 DEF AfterPersist
<1>4. ASSUME j.then = "mark", AfterMark(t, verified) PROVE DInv'
  <2>1. CASE b' = [b EXCEPT !.pending = NoCmd] /\ Finish(t) /\ hist' = hist
    BY <1>1, <2>1, GivenUpKeeps
  <2>2. CASE /\ Cancel(t, task[t].cmd, PreflightPasses(task[t].intent, task[t].now)
                                         /\ ~LiveKnown(b, task[t].intent))
             /\ hist' = hist
    <3>1. b' = [b EXCEPT !.pending = NoCmd]
      BY <2>2 DEF Cancel
    <3>2. \E c \in Cmd, external \in BOOLEAN : Cancel(t, c, external)
      <4>1. (PreflightPasses(task[t].intent, task[t].now) /\ ~LiveKnown(b, task[t].intent))
              \in BOOLEAN
        BY Zenon
      <4> QED BY <2>2, <4>1, <1>2
    <3> QED BY <1>1, <2>2, <3>1, <3>2, GivenUpKeeps
  <2>3. CASE verified /\ CallService(t)
    BY <1>1, <1>4, <2>3, CallKeeps
  <2> QED BY <1>4, <2>1, <2>2, <2>3 DEF AfterMark
<1>5. ASSUME j.then \in {"cancel", "cancel_external"}, Finish(t), b' = b \/ b' = Invalidate(b),
             hist' = hist \/ hist' = Answered(hist)
      PROVE  DInv'
  BY <1>1, <1>5, GivenUpKeeps
<1> QED BY <1>3, <1>4, <1>5 DEF ContinueDispatch, RecordsExternal

-----------------------------------------------------------------------------
(* Feedback, timers and the other steps *)

\* A step that changes nothing of the broker, and of the history only what the
\* properties of users and settled commands read.
LEMMA StillIsQuiet ==
  ASSUME IInv, b' = b \/ b' = Invalidate(b),
         hist'.raced <=> hist.raced,
         hist'.unanswered = hist.unanswered \/ hist'.unanswered = 0
  PROVE  Quiet /\ b'.pending = b.pending
<1>1. b \in BrokerState /\ hist.unanswered \in Nat
  BY DEF IInv, TypeOK, History
<1>2. /\ b'.pending = b.pending /\ b'.goal = b.goal /\ b'.attempts = b.attempts
      /\ b'.status = b.status /\ b'.acked = b.acked /\ (b'.failed <=> b.failed)
  BY <1>1, Helpers
<1>3. Budgeted /\ Confirmed
  BY <1>2 DEF Budgeted, Confirmed
<1> QED BY <1>1, <1>2, <1>3 DEF Quiet

LEMMA EchoIsQuiet ==
  ASSUME IInv, NEW fb \in Feedback, EchoFeedback(fb)
  PROVE  Quiet /\ b'.pending = b.pending
<1>1. b \in BrokerState /\ hist \in History /\ hist.unanswered \in Nat /\ fb.val \in ValOrNone
  BY DEF IInv, TypeOK, History, Feedback
<1>2. /\ Answered(hist).unanswered = 0 /\ (Answered(hist).raced <=> hist.raced)
      /\ Overtaken(hist).unanswered = 0 /\ (Overtaken(hist).raced <=> hist.raced)
  BY <1>1, Histories
<1>3. CASE LateAcknowledged(fb) # {} /\ b' = Acknowledge(b, fb.val) /\ hist' = Answered(hist)
  <2>1. fb.val = b.goal
    BY <1>3 DEF LateAcknowledged
  <2>2. /\ b'.pending = b.pending /\ b'.goal = b.goal /\ b'.acked = fb.val /\ ~b'.failed
    BY <1>1, <1>3, Helpers
  <2>3. Budgeted /\ Confirmed
    BY <1>2, <1>3, <2>1, <2>2 DEF Budgeted, Confirmed
  <2> QED BY <1>1, <1>2, <1>3, <2>2, <2>3 DEF Quiet
<1>4. CASE /\ b' = WriteFailed([b EXCEPT !.attempts = 0, !.baseline = fb.val])
           /\ hist' = Overtaken(hist)
  <2> DEFINE r == [b EXCEPT !.attempts = 0, !.baseline = fb.val]
  <2>1. r \in BrokerState /\ r.pending = b.pending /\ r.goal = b.goal
    BY <1>1 DEF BrokerState
  <2>2. b' = WriteFailed(r)
    BY <1>4
  <2> HIDE DEF r
  <2>3. b'.pending = b.pending /\ b'.goal = b.goal /\ b'.status # "acknowledged"
    BY <2>1, <2>2, Helpers
  <2>4. Budgeted /\ Confirmed
    BY <1>2, <1>4, <2>3 DEF Budgeted, Confirmed
  <2> QED BY <1>1, <1>2, <1>4, <2>3, <2>4 DEF Quiet
<1>5. CASE b' = b /\ hist' = hist
  BY <1>5, StillIsQuiet
<1> QED BY <1>3, <1>4, <1>5 DEF EchoFeedback

LEMMA UnsolicitedIsQuiet ==
  ASSUME IInv, NEW fb \in Feedback, NEW e, UnsolicitedFeedback(fb, e)
  PROVE  Quiet /\ b'.pending = b.pending
<1>1. CASE EchoFeedback(fb)
  BY <1>1, EchoIsQuiet
<1>2. CASE b' = Invalidate(b) /\ hist' = Answered(Noted(hist, fb))
  <2>1. hist \in History /\ b \in BrokerState
    BY DEF IInv, TypeOK
  <2>2. Noted(hist, fb) \in History /\ (Noted(hist, fb).raced <=> hist.raced)
    BY <2>1, HistoryTypes, Histories
  <2>3. hist'.unanswered = 0 /\ (hist'.raced <=> hist.raced)
    BY <1>2, <2>2 DEF Answered, History
  <2> QED BY <1>2, <2>3, StillIsQuiet
<1> QED BY <1>1, <1>2 DEF UnsolicitedFeedback

\* The pending command ends, and its journal entry is cleared.
Ends(j) == b'.pending = NoCmd /\ j.then \notin TaskContinuations /\ jobs' = Append(jobs, j)

LEMMA EndsByEnqueue ==
  ASSUME IInv, b'.pending = NoCmd, NEW then \in Continuations \ TaskContinuations,
         NEW c \in Cmd, NEW fb \in Feedback, EnqueueJob(then, c, fb)
  PROVE  \E j \in Job : Ends(j)
<1>1. [then |-> then, cmd |-> c, fb |-> fb] \in Job
  BY DEF Job
<1> QED BY <1>1 DEF Ends, EnqueueJob

LEMMA PendingFeedbackQuiet ==
  ASSUME IInv, DInv, NEW fb \in Feedback, NEW e, b.pending # NoCmd, PendingFeedback(fb, e)
  PROVE  /\ ~hist'.raced => Quiet
         /\ (jobs' = jobs /\ b'.pending = b.pending) \/ (\E j \in Job : Ends(j))
<1> DEFINE p == b.pending
           cleared == [b EXCEPT !.pending = NoCmd, !.queued = NoIntent]
<1>1. /\ b \in BrokerState /\ hist \in History /\ hist.unanswered \in Nat /\ p \in Cmd
      /\ fb.val \in ValOrNone /\ NoCmd \in Cmd /\ NoIntent \in Intent /\ NoFeedback \in Feedback
  BY ConstantTypes DEF IInv, TypeOK, History, Feedback, BrokerState
<1>2. "settled" \in Continuations \ TaskContinuations /\ "external" \in Continuations \ TaskContinuations
  BY DEF Continuations, TaskContinuations
<1>3. /\ cleared \in BrokerState /\ cleared.pending = NoCmd /\ cleared.goal = b.goal
      /\ cleared.attempts = b.attempts /\ cleared.status = b.status /\ cleared.acked = b.acked
      /\ cleared.failed <=> b.failed
  BY <1>1 DEF BrokerState
<1>4. CASE b' = b /\ jobs' = jobs /\ hist' \in {hist, Ignored(hist, fb)}
  <2>1. (hist'.raced <=> hist.raced) /\ hist'.unanswered = hist.unanswered
    BY <1>1, <1>4, Histories
  <2> QED BY <1>4, <2>1, StillIsQuiet
<1>5. CASE /\ p.val = fb.val
           /\ b' = [Acknowledge(b, fb.val) EXCEPT !.pending = NoCmd, !.completed = p]
           /\ hist' = Settled(hist)
           /\ EnqueueJob("settled", p, NoFeedback)
  <2> DEFINE r == Acknowledge(b, fb.val)
  <2>1. r.goal = b.goal /\ r.acked = fb.val /\ ~r.failed /\ r \in BrokerState
    BY <1>1, Helpers, SimpleTypes, BrokerFits DEF Fitting, IInv
  <2>2. b' = [r EXCEPT !.pending = NoCmd, !.completed = p]
    BY <1>5
  <2> HIDE DEF r
  <2>3. b'.pending = NoCmd /\ b'.goal = b.goal /\ b'.acked = fb.val /\ ~b'.failed
    BY <2>1, <2>2 DEF BrokerState
  <2>4. hist'.unanswered = 0 /\ (hist'.raced <=> hist.raced)
    BY <1>1, <1>5, Histories
  <2>5. ASSUME ~hist'.raced PROVE Quiet
    <3>1. p.val = b.goal
      BY <2>4, <2>5 DEF DInv, PendingInv, Clean
    <3>2. Budgeted /\ Confirmed
      BY <2>3, <2>4, <3>1, <1>5 DEF Budgeted, Confirmed
    <3> QED BY <3>2, <2>3, <2>4, <1>1 DEF Quiet
  <2> QED BY <1>1, <1>2, <1>5, <2>3, <2>5, EndsByEnqueue
<1>6. CASE /\ b' = WriteFailed([cleared EXCEPT !.uncertain = Remember(@, p), !.baseline = fb.val])
           /\ hist' = hist
           /\ EnqueueJob("settled", p, NoFeedback)
  <2> DEFINE u == Remember(cleared.uncertain, p)
             r == [cleared EXCEPT !.uncertain = u, !.baseline = fb.val]
  <2>1. u \in Seq(Cmd)
    <3>1. cleared.uncertain = b.uncertain /\ b.uncertain \in Seq(Cmd) /\ Len(b.uncertain) <= MaxAttempts
      BY <1>1 DEF BrokerState, IInv, TypeOK
    <3> QED BY <1>1, <3>1, RememberType
  <2>2. b' = WriteFailed(r)
    BY <1>6
  <2> HIDE DEF u, cleared
  <2>3. r \in BrokerState /\ r.pending = NoCmd /\ r.attempts = b.attempts
    BY <1>1, <1>3, <2>1 DEF BrokerState
  <2> HIDE DEF r
  <2>4. b'.pending = NoCmd /\ b'.attempts = b.attempts /\ b'.status # "acknowledged" /\ b'.failed
    BY <2>2, <2>3, Helpers
  <2>5. Quiet
    BY <2>4, <1>1, <1>6 DEF Quiet, Budgeted, Confirmed
  <2> QED BY <1>1, <1>2, <1>6, <2>4, <2>5, EndsByEnqueue
<1>7. CASE /\ b' = cleared
           /\ hist' = Settled(Noted(hist, fb))
           /\ EnqueueJob("external", p, NoFeedback)
  <2>1. Noted(hist, fb) \in History /\ (Noted(hist, fb).raced <=> hist.raced)
    BY <1>1, HistoryTypes, Histories
  <2>2. hist'.unanswered = 0 /\ (hist'.raced <=> hist.raced)
    BY <1>7, <2>1 DEF Settled, Answered, History
  <2> HIDE DEF cleared
  <2>3. Budgeted /\ Confirmed
    BY <1>3, <1>7, <2>2 DEF Budgeted, Confirmed
  <2>4. Quiet /\ b'.pending = NoCmd
    BY <1>1, <1>3, <1>7, <2>2, <2>3 DEF Quiet
  <2> QED BY <1>1, <1>2, <1>7, <2>4, EndsByEnqueue
<1> QED BY <1>4, <1>5, <1>6, <1>7 DEF PendingFeedback

LEMMA ProcessFeedbackQuiet ==
  ASSUME IInv, DInv, NEW fb \in Feedback, NEW e, ProcessFeedback(fb, e)
  PROVE  /\ ~hist'.raced => Quiet
         /\ (jobs' = jobs /\ b'.pending = b.pending) \/ (\E j \in Job : Ends(j))
<1>1. /\ b \in BrokerState /\ hist \in History /\ hist.unanswered \in Nat /\ b.pending \in Cmd
  BY DEF IInv, TypeOK, History, BrokerState
<1>2. CASE b' = b /\ jobs' = jobs /\ hist' = Ignored(hist, fb)
  <2>1. (hist'.raced <=> hist.raced) /\ hist'.unanswered = hist.unanswered
    BY <1>1, <1>2, Histories
  <2> QED BY <1>2, <2>1, StillIsQuiet
<1>3. CASE /\ b' = TimedOut(b)
           /\ hist' = Noted(hist, fb)
           /\ EnqueueJob("late_feedback", b.pending, fb)
  <2>1. (hist'.raced <=> hist.raced) /\ hist'.unanswered = hist.unanswered
    BY <1>1, <1>3, Histories
  <2>2. b'.pending = NoCmd /\ b'.attempts = b.attempts /\ b'.status # "acknowledged" /\ b'.failed
    BY <1>1, <1>3, Helpers
  <2>3. Quiet
    BY <1>1, <2>1, <2>2 DEF Quiet, Budgeted, Confirmed
  <2>4. "late_feedback" \in Continuations \ TaskContinuations
    BY DEF Continuations, TaskContinuations
  <2> QED BY <1>1, <1>3, <2>2, <2>3, <2>4, EndsByEnqueue
<1>4. CASE b.pending # NoCmd /\ PendingFeedback(fb, e)
  BY <1>4, PendingFeedbackQuiet
<1>5. CASE UnsolicitedFeedback(fb, e) /\ jobs' = jobs
  BY <1>5, UnsolicitedIsQuiet
<1> QED BY <1>2, <1>3, <1>4, <1>5 DEF ProcessFeedback

LEMMA HandleEventKeeps ==
  ASSUME IInv, IInv', DInv, HandleEvent
  PROVE  DInv'
<1> DEFINE ev == Head(events)
           fb == FeedbackOf(ev)
<1>1. /\ TypeOK /\ b \in BrokerState /\ b.pending \in Cmd /\ env \in Environment
      /\ hist \in History /\ hist.unanswered \in Nat /\ events \in Seq(Event) /\ jobs \in Seq(Job)
  BY DEF IInv, TypeOK, BrokerState, History
<1>2. ev \in Event /\ ev.val \in ValOrNone /\ UNCHANGED <<task, journal>>
  <2>1. events # <<>> /\ UNCHANGED <<task, journal>>
    BY DEF HandleEvent
  <2>2. ev \in Event
    BY <1>1, <2>1
  <2> HIDE DEF ev
  <2> QED BY <2>1, <2>2 DEF Event
<1>3. fb \in Feedback
  BY <1>1, <1>2 DEF FeedbackOf, Feedback, Event, Environment
<1>4. /\ ~hist'.raced => Quiet
      /\ (jobs' = jobs /\ b'.pending = b.pending) \/ (\E j \in Job : Ends(j))
  <2>1. CASE UNCHANGED <<b, jobs, hist>>
    BY <2>1, StillIsQuiet
  <2>2. CASE \E e : ProcessFeedback(fb, e)
    <3> HIDE DEF fb
    <3> QED BY <2>2, <1>3, ProcessFeedbackQuiet
  <2>3. CASE HandleAvailability(ev)
    <3>1. /\ hist' = Discarded(hist)
          /\ \/ /\ b' = Reset(b)
                /\ EnqueueJob("unavailable", b.pending, [NoFeedback EXCEPT !.val = ev.val])
             \/ /\ b.pending = NoCmd
                /\ b' = [Reset(b) EXCEPT !.acked = NoVal, !.status = "waiting_target"]
                /\ jobs' = jobs
      BY <2>3 DEF HandleAvailability
    <3> DEFINE f == [NoFeedback EXCEPT !.val = ev.val]
               r == Reset(b)
    <3>2. f \in Feedback
      BY <1>2, ConstantTypes DEF Feedback
    <3>3. r \in BrokerState /\ r.pending = NoCmd /\ r.status # "acknowledged"
      BY <1>1, Helpers, SimpleTypes, BrokerFits DEF Fitting, ValOrNone
    <3>4. hist'.unanswered = 0 /\ (hist'.raced <=> hist.raced)
      BY <1>1, <3>1, Histories
    <3>5. b' = r \/ b' = [r EXCEPT !.acked = NoVal, !.status = "waiting_target"]
      BY <3>1
    <3>6. (jobs' = jobs /\ b.pending = NoCmd) \/ EnqueueJob("unavailable", b.pending, f)
      BY <3>1
    <3> HIDE DEF r, f
    <3>7. b'.pending = NoCmd /\ b'.status # "acknowledged"
      <4>1. CASE b' = r
        BY <3>3, <4>1
      <4>2. CASE b' = [r EXCEPT !.acked = NoVal, !.status = "waiting_target"]
        BY <3>3, <4>2 DEF BrokerState
      <4> QED BY <3>5, <4>1, <4>2
    <3>8. Quiet
      BY <1>1, <3>4, <3>7 DEF Quiet, Budgeted, Confirmed
    <3>9. "unavailable" \in Continuations \ TaskContinuations
      BY OutsideContinuations
    <3> QED BY <1>1, <3>2, <3>6, <3>7, <3>8, <3>9, EndsByEnqueue
  <2> QED BY <2>1, <2>2, <2>3 DEF HandleEvent, HandleReport, HandleChange
<1> QED BY <1>2, <1>4, OutsideKeeps DEF Ends

LEMMA TimerAndResumeKeeps ==
  ASSUME IInv, IInv', DInv, AckTimeout \/ Resume \/ CloseGate
  PROVE  DInv'
<1>1. /\ b \in BrokerState /\ b.pending \in Cmd /\ NoFeedback \in Feedback
      /\ hist \in History /\ hist.unanswered \in Nat
      /\ UNCHANGED <<task, journal>>
  BY ConstantTypes DEF IInv, TypeOK, BrokerState, History, AckTimeout, Resume, CloseGate
<1>2. {"timed_out", "resumed"} \subseteq Continuations \ TaskContinuations
  BY OutsideContinuations
<1>3. Quiet /\ ((jobs' = jobs /\ b'.pending \in {NoCmd, b.pending}) \/ (\E j \in Job : Ends(j)))
  <2>1. CASE /\ b' = TimedOut(b) /\ EnqueueJob("timed_out", b.pending, NoFeedback)
             /\ hist' = hist
    <3>1. b'.pending = NoCmd /\ b'.attempts = b.attempts /\ b'.status # "acknowledged" /\ b'.failed
      BY <1>1, <2>1, Helpers
    <3>2. Quiet
      BY <1>1, <2>1, <3>1 DEF Quiet, Budgeted, Confirmed
    <3> QED BY <1>1, <1>2, <2>1, <3>1, <3>2, EndsByEnqueue
  <2>2. CASE (b' = b \/ b' = Invalidate(b)) /\ jobs' = jobs /\ hist' = hist
    BY <2>2, StillIsQuiet
  <2>3. CASE /\ b' = Reset(b) /\ hist' = Discarded(hist)
             /\ jobs' = jobs \/ EnqueueJob("resumed", b.pending, NoFeedback)
    <3>1. b'.pending = NoCmd /\ b'.status # "acknowledged"
      BY <1>1, <2>3, Helpers
    <3>2. hist'.unanswered = 0 /\ (hist'.raced <=> hist.raced)
      BY <1>1, <2>3, Histories
    <3>3. Quiet
      BY <1>1, <3>1, <3>2 DEF Quiet, Budgeted, Confirmed
    <3> QED BY <1>1, <1>2, <2>3, <3>1, <3>3, EndsByEnqueue
  <2> QED BY <2>1, <2>2, <2>3 DEF AckTimeout, Resume, CloseGate
<1> QED BY <1>1, <1>3, OutsideKeeps DEF Ends

LEMMA ContinueOtherKeeps ==
  ASSUME IInv, IInv', DInv, jobs # <<>>, ContinueOther(Head(jobs))
  PROVE  DInv'
<1> DEFINE j == Head(jobs)
<1>1. /\ jobs' = Tail(jobs) /\ j.then \notin TaskContinuations /\ task' = task
      /\ b \in BrokerState /\ hist.unanswered \in Nat /\ j \in Job
  <2>1. jobs' = Tail(jobs) /\ j.then \notin TaskContinuations /\ task' = task
    BY DEF ContinueOther, TaskContinuations
  <2>2. b \in BrokerState /\ hist.unanswered \in Nat /\ jobs \in Seq(Job)
    BY DEF IInv, TypeOK, History
  <2> QED BY <2>1, <2>2
<1>2. j.fb \in Feedback
  <2> HIDE DEF j
  <2> QED BY <1>1 DEF Job
<1>3. Quiet /\ b'.pending = b.pending
  <2>1. CASE UnsolicitedFeedback(j.fb, env)
    BY <1>2, <2>1, UnsolicitedIsQuiet
  <2>2. CASE (b' = b \/ b' = Invalidate(b)) /\ hist' = hist
    BY <2>2, StillIsQuiet
  <2>3. CASE b' = [b EXCEPT !.acked = NoVal, !.status = "waiting_target"] /\ hist' = hist
    <3>1. /\ b'.pending = b.pending /\ b'.goal = b.goal /\ b'.attempts = b.attempts
          /\ b'.status # "acknowledged" /\ (b'.failed <=> b.failed)
      BY <1>1, <2>3 DEF BrokerState
    <3>2. Budgeted /\ Confirmed
      BY <2>3, <3>1 DEF Budgeted, Confirmed
    <3> QED BY <1>1, <2>3, <3>1, <3>2 DEF Quiet
  <2> QED BY <2>1, <2>2, <2>3 DEF ContinueOther
<1> QED BY <1>1, <1>3, OutsideKeeps

LEMMA JobDoneKeeps ==
  ASSUME IInv, IInv', DInv, JobDone
  PROVE  DInv'
<1>1. PICK w \in WriteOutcomes :
        /\ journal' = [mem |-> Recorded(Head(jobs)),
                       disk |-> IF w = "lost" THEN journal.disk ELSE Recorded(Head(jobs))]
        /\ \/ ContinueDispatch(Head(jobs), lock[1], w = "verified")
           \/ ContinueOther(Head(jobs))
  BY DEF JobDone
<1>2. jobs # <<>>
  BY DEF JobDone
<1>3. CASE ContinueOther(Head(jobs))
  BY <1>2, <1>3, ContinueOtherKeeps
<1>4. CASE ContinueDispatch(Head(jobs), lock[1], w = "verified")
  <2>1. (w = "verified") \in BOOLEAN
    OBVIOUS
  <2>2. (w = "verified") => journal' = [mem |-> Recorded(Head(jobs)), disk |-> Recorded(Head(jobs))]
    BY <1>1
  <2> QED BY <1>2, <1>4, <2>1, <2>2, DispatchKeeps
<1> QED BY <1>1, <1>3, <1>4

\* Another writer saves the memory's record: with a command outstanding it is on disk already.
LEMMA OtherWriteKeeps ==
  ASSUME IInv, IInv', DInv, OtherWrite
  PROVE  DInv'
<1>1. UNCHANGED <<b, task, jobs, hist>> /\ journal.disk # journal.mem
  BY DEF OtherWrite
<1>2. StageInv' /\ AttemptsInv' /\ AcknowledgedIsGoal'
  BY <1>1 DEF DInv, StageInv, AwaitedJobs, AttemptsInv, AcknowledgedIsGoal, Clean, Unsent
<1>3. PendingInv'
  BY <1>1 DEF DInv, PendingInv, Clean, Unsent, SentRecord
<1> QED BY <1>2, <1>3 DEF DInv

LEMMA EnvironmentKeeps ==
  ASSUME IInv, IInv', DInv,
         \/ OwnershipChange \/ Reconciled \/ ReadinessChange \/ InputChange
         \/ ServiceEvent \/ DeviceChange \/ DeviceReport \/ Tick \/ UNCHANGED vars
  PROVE  DInv'
<1>1. /\ UNCHANGED <<task, jobs, journal>>
      /\ b' = b \/ b' = Invalidate(b)
      /\ hist' = hist \/ hist' = Answered(hist)
  BY DEF OwnershipChange, Reconciled, ReadinessChange, InputChange, ServiceEvent, DeviceChange,
         DeviceReport, Tick, vars
<1>2. hist \in History
  BY DEF IInv, TypeOK
<1>3. (hist'.raced <=> hist.raced) /\ (hist'.unanswered = hist.unanswered \/ hist'.unanswered = 0)
  BY <1>1, <1>2, Histories
<1>4. Quiet /\ b'.pending = b.pending
  BY <1>1, <1>3, StillIsQuiet
<1> QED BY <1>1, <1>4, OutsideKeeps

LEMMA InitDInv == Init => DInv
<1> SUFFICES ASSUME Init PROVE DInv
  OBVIOUS
<1>1. /\ b.pending = NoCmd /\ b.status = "idle" /\ b.attempts = 0 /\ hist.unanswered = 0
      /\ \A t \in Task : task[t].pc = "idle"
  BY DEF Init, Idle
<1>2. StageInv /\ AcknowledgedIsGoal
  BY <1>1 DEF StageInv, AcknowledgedIsGoal
<1>3. PendingInv /\ AttemptsInv
  BY <1>1, Bounds DEF PendingInv, AttemptsInv, Unsent
<1> QED BY <1>2, <1>3 DEF DInv

LEMMA NextDInv == IInv /\ DInv /\ [Next]_vars => DInv'
<1> SUFFICES ASSUME IInv, DInv, [Next]_vars PROVE DInv'
  OBVIOUS
<1>1. IInv'
  BY NextInv
<1>2. CASE \E t \in Task : Submit(t) \/ Drain(t)
  BY <1>1, <1>2, SubmitKeeps
<1>3. CASE \E t \in Task : AcquireLock(t)
  BY <1>1, <1>3, AcquireLockKeeps
<1>4. CASE \E t \in Task : CallEnd(t)
  BY <1>1, <1>4, CallEndKeeps
<1>5. CASE JobDone
  BY <1>1, <1>5, JobDoneKeeps
<1>6. CASE HandleEvent
  BY <1>1, <1>6, HandleEventKeeps
<1>7. CASE AckTimeout \/ Resume \/ CloseGate
  BY <1>1, <1>7, TimerAndResumeKeeps
<1>8. CASE OtherWrite
  BY <1>1, <1>8, OtherWriteKeeps
<1>9. CASE \/ OwnershipChange \/ Reconciled \/ ReadinessChange \/ InputChange
           \/ ServiceEvent \/ DeviceChange \/ DeviceReport \/ Tick \/ UNCHANGED vars
  BY <1>1, <1>9, EnvironmentKeeps
<1> QED BY <1>2, <1>3, <1>4, <1>5, <1>6, <1>7, <1>8, <1>9 DEF Next

LEMMA DispatchInvariant == Spec => [](IInv /\ DInv)
BY InitInv, InitDInv, NextInv, NextDInv, PTL DEF Spec

\* At every instant a crash finds the outstanding service call in the journal on disk
\* (async_mark_dispatched before the call, _write_command, the other writers of the
\* store), whatever writes are lost or unverified and whoever else saves, unless the
\* dispatch had been given up while it was under way.
THEOREM JournalCovers == Spec => []JournalCoversPending
<1>1. IInv /\ DInv => JournalCoversPending
  BY DEF DInv, PendingInv, JournalCoversPending, Clean, SentRecord
<1> QED BY <1>1, DispatchInvariant, PTL

\* No goal gets more than MAX_WRITE_ATTEMPTS service calls before one of them is
\* answered (_remaining_checks, _record_write_failure), through time-outs, failed and
\* coerced calls, repeated submits and recoveries.
THEOREM BudgetKept == Spec => []BudgetRespected
<1>1. IInv /\ DInv => BudgetRespected
  BY DEF DInv, AttemptsInv, BudgetRespected, Clean
<1> QED BY <1>1, DispatchInvariant, PTL

\* An acknowledged status (async_feedback, the recovery of _async_submit) stands for the
\* broker's present goal, whatever late, coerced or obsolete echoes arrive.
THEOREM AcknowledgedGoal == Spec => []AcknowledgedIsGoal
<1>1. IInv /\ DInv => AcknowledgedIsGoal
  BY DEF DInv
<1> QED BY <1>1, DispatchInvariant, PTL

-----------------------------------------------------------------------------
(* What a step does to the commands.  Every step keeps them, drops, loses, doubts or    *)
(* discards the pending one, opens a dispatch or sends its command; what is known of    *)
(* the calls, of the pauses between them and of the feedback follows from that.         *)

Writing(t) == task[t].pc \in {"persist", "mark"}
Spaced(t) ==
  /\ task[t].now - b.lastDispatch >= HardInterval
  /\ b.failed /\ ~hist.overtaken => task[t].now - b.lastDispatch >= OrdinaryInterval

\* The same commands, dispatch time and no new failure.
SameCommands(r, s) ==
  /\ r.pending = s.pending /\ r.completed = s.completed /\ r.uncertain = s.uncertain
  /\ r.lastDispatch = s.lastDispatch /\ (r.failed => s.failed)

Keeps ==
  /\ b'.pending = b.pending /\ b'.completed = b.completed /\ b'.uncertain = b.uncertain
  /\ b'.failed => b.failed \/ b.pending = NoCmd \/ b.pending.sent \/ hist'.overtaken
Drops ==
  /\ b'.pending = NoCmd /\ b'.completed \in {b.completed, b.pending}
  /\ b'.uncertain = b.uncertain
  /\ b.pending.sent => hist'.raced \/ b.pending.id \in hist'.settled \union {0}
Loses ==
  /\ b.pending # NoCmd /\ b'.pending = NoCmd /\ b'.completed = b.completed
  /\ b'.uncertain = Remember(b.uncertain, b.pending)
Doubts ==
  /\ b.pending.sent /\ b'.pending = b.pending /\ b'.completed = b.completed
  /\ b'.uncertain = Remember(b.uncertain, b.pending)
Discards ==
  /\ b'.pending = NoCmd /\ b'.completed = NoCmd /\ b'.uncertain = <<>>
  /\ \A c \in Called : c.id \in hist'.settled

Carries == \A t \in Task : Writing(t)' => Writing(t) /\ task'[t].now = task[t].now
Stands ==
  /\ UNCHANGED <<calls, nextId>> /\ b'.lastDispatch = b.lastDispatch /\ Carries
  /\ Keeps \/ Drops \/ Loses \/ Doubts \/ Discards

Opens ==
  /\ calls' = calls /\ nextId' = nextId + 1
  /\ b'.pending.id = nextId /\ ~b'.pending.sent /\ b'.pending # NoCmd
  /\ b'.completed = NoCmd /\ b'.uncertain = b.uncertain
  /\ hist'.raced \/ (b.pending = NoCmd /\ \A t \in Task : Writing(t)' => Spaced(t)')

Sends ==
  /\ nextId' = nextId /\ b'.completed = b.completed /\ b'.uncertain = b.uncertain
  /\ \A t \in Task : ~Writing(t)'
  /\ b'.pending.sent /\ b'.pending # NoCmd
  /\ Len(calls') = Len(calls) + 1 /\ calls'[Len(calls) + 1].cmd = b'.pending
  /\ \A k \in DOMAIN calls : calls'[k] = calls[k]
  /\ hist'.raced \/ (b.pending.id = b'.pending.id /\ Unsent(b.pending))

Effect ==
  /\ (hist.raced => hist'.raced) /\ (hist.overtaken => hist'.overtaken)
  /\ hist.settled \subseteq hist'.settled
  /\ Stands \/ Opens \/ Sends

\* What acknowledges a value: a live target that a submit finds at its request, or a
\* command that was sent under the revision of the feedback.
Earned ==
  b'.status = "acknowledged" /\ b.status # "acknowledged" =>
    \/ events' = events /\ jobs' = jobs /\ b'.acked = env.live
    \/ \E c \in Range(b.uncertain) \union {b.pending, b.completed} :
         c.sent /\ c.val = b'.acked /\ c.rev = JudgedRevision

\* A transition that user feedback waits for.
Override(j) == j.then = "external" \/ (j.then = "late_feedback" /\ j.fb.user)

\* What a step does to the users' revisions: they belong to the past, a transition makes
\* all of them past, and new user feedback queues its transition behind no dispatch.
NewJob(q) == q = jobs \/ \E j \in Job : q = Append(jobs, j) /\ j.fb.rev <= env.rev
Judges ==
  /\ env.rev <= env'.rev /\ (hist.ignored => hist'.ignored)
  /\ \A r \in hist'.user : r \in hist.user \/ r <= env.rev
  /\ \/ NewJob(jobs')
     \/ jobs # <<>> /\ jobs' = Tail(jobs)
     \/ jobs # <<>> /\ \E j \in Job : jobs' = Append(Tail(jobs), j) /\ j.fb.rev <= env.rev
  /\ \/ env'.rev > env.rev
     \/ hist'.ignored
     \/ hist'.user = hist.user /\ (NewJob(jobs') \/ ~Override(Head(jobs)))
     \/ b.pending.sent /\ \E j \in Job : jobs' = Append(jobs, j) /\ Override(j)

Outcome == Effect /\ Earned /\ Judges

-----------------------------------------------------------------------------
\* The broker's helpers keep the commands.
LEMMA HelpersKeep ==
  ASSUME NEW s \in BrokerState, NEW i \in Intent
  PROVE  /\ SameCommands(Invalidate(s), s)
         /\ SameCommands(Retarget(s, i.val), s)
         /\ SameCommands(Prepare(s, i), s)
         /\ SameCommands([s EXCEPT !.queued = i], s)
<1>1. SameCommands(Invalidate(s), s) /\ SameCommands([s EXCEPT !.queued = i], s)
  BY DEF SameCommands, Invalidate, BrokerState
<1>2. Retarget(s, i.val) \in BrokerState /\ SameCommands(Retarget(s, i.val), s)
  BY DEF SameCommands, Retarget, BrokerState, Statuses, Intent
<1>3. ASSUME NEW r \in BrokerState PROVE SameCommands(Adopt(r, i), r)
  BY DEF SameCommands, Adopt, BrokerState
<1>4. SameCommands(Prepare(s, i), s)
  BY <1>2, <1>3 DEF SameCommands, Prepare
<1> QED BY <1>1, <1>2, <1>4

\* What the history keeps.
LEMMA HistoriesKeep ==
  ASSUME hist \in History, NEW fb, NEW v
  PROVE  /\ Answered(hist).settled = hist.settled /\ Answered(hist).user = hist.user
         /\ Answered(hist).ignored <=> hist.ignored
         /\ Answered(hist).overtaken <=> hist.overtaken
         /\ Retargeted(hist, v).settled = hist.settled /\ Retargeted(hist, v).user = hist.user
         /\ Retargeted(hist, v).ignored <=> hist.ignored
         /\ Retargeted(hist, v).overtaken <=> hist.overtaken
         /\ Noted(hist, fb).settled = hist.settled
         /\ Noted(hist, fb).user = (IF fb.user THEN hist.user \union {fb.rev} ELSE hist.user)
         /\ Noted(hist, fb).ignored <=> hist.ignored
         /\ Noted(hist, fb).overtaken <=> hist.overtaken
         /\ Ignored(hist, fb).settled = hist.settled
         /\ Ignored(hist, fb).user = (IF fb.user THEN hist.user \union {fb.rev} ELSE hist.user)
         /\ Ignored(hist, fb).ignored <=> hist.ignored \/ fb.user
         /\ Ignored(hist, fb).overtaken <=> hist.overtaken
         /\ Settled(hist).settled = hist.settled \union ({b.pending.id} \ {0})
         /\ Settled(hist).user = hist.user /\ (Settled(hist).ignored <=> hist.ignored)
         /\ Settled(hist).overtaken <=> hist.overtaken
         /\ Discarded(hist).settled = hist.settled \union {c.id : c \in Called}
         /\ Discarded(hist).user = hist.user /\ (Discarded(hist).ignored <=> hist.ignored)
         /\ Discarded(hist).overtaken <=> hist.overtaken
         /\ Overtaken(hist).settled = hist.settled /\ Overtaken(hist).user = hist.user
         /\ Overtaken(hist).ignored <=> hist.ignored
         /\ Overtaken(hist).overtaken <=> hist.overtaken \/ b.pending # NoCmd
<1>1. /\ Answered(hist).settled = hist.settled /\ Answered(hist).user = hist.user
      /\ Answered(hist).ignored <=> hist.ignored
      /\ Answered(hist).overtaken <=> hist.overtaken
      /\ Answered(hist) \in [unanswered: Nat, raced: BOOLEAN, settled: SUBSET Nat,
                             user: SUBSET Nat, ignored: BOOLEAN, overtaken: BOOLEAN]
  BY DEF Answered, History
<1>2. /\ Retargeted(hist, v).settled = hist.settled /\ Retargeted(hist, v).user = hist.user
      /\ Retargeted(hist, v).ignored <=> hist.ignored
      /\ Retargeted(hist, v).overtaken <=> hist.overtaken
  BY <1>1 DEF Retargeted
<1>3. /\ Noted(hist, fb).settled = hist.settled
      /\ Noted(hist, fb).user = (IF fb.user THEN hist.user \union {fb.rev} ELSE hist.user)
      /\ Noted(hist, fb).ignored <=> hist.ignored
      /\ Noted(hist, fb).overtaken <=> hist.overtaken
  BY DEF Noted, History
<1>4. /\ Ignored(hist, fb).settled = hist.settled
      /\ Ignored(hist, fb).user = (IF fb.user THEN hist.user \union {fb.rev} ELSE hist.user)
      /\ Ignored(hist, fb).ignored <=> hist.ignored \/ fb.user
      /\ Ignored(hist, fb).overtaken <=> hist.overtaken
  BY DEF Ignored, Noted, History
<1>5. /\ Settled(hist).settled = hist.settled \union ({b.pending.id} \ {0})
      /\ Settled(hist).user = hist.user /\ (Settled(hist).ignored <=> hist.ignored)
      /\ Settled(hist).overtaken <=> hist.overtaken
  BY <1>1 DEF Settled
<1>6. /\ Discarded(hist).settled = hist.settled \union {c.id : c \in Called}
      /\ Discarded(hist).user = hist.user /\ (Discarded(hist).ignored <=> hist.ignored)
      /\ Discarded(hist).overtaken <=> hist.overtaken
  <2> DEFINE ids == {c.id : c \in Called}
  <2>1. Discarded(hist) = [Answered(hist) EXCEPT !.settled = @ \union ids]
    BY DEF Discarded
  <2> HIDE DEF ids
  <2> SUFFICES /\ Discarded(hist).settled = hist.settled \union ids
               /\ Discarded(hist).user = hist.user /\ (Discarded(hist).ignored <=> hist.ignored)
               /\ Discarded(hist).overtaken <=> hist.overtaken
    BY DEF ids
  <2> QED BY <1>1, <2>1
<1>7. /\ Overtaken(hist).settled = hist.settled /\ Overtaken(hist).user = hist.user
      /\ Overtaken(hist).ignored <=> hist.ignored
      /\ Overtaken(hist).overtaken <=> hist.overtaken \/ b.pending # NoCmd
  BY <1>1 DEF Overtaken
<1> QED BY <1>1, <1>2, <1>3, <1>4, <1>5, <1>6, <1>7

\* A step of the submits, timers and transitions that keeps the commands.
LEMMA StillStands ==
  ASSUME IInv, SameCommands(b', b), UNCHANGED <<calls, nextId>>, Carries,
         hist.raced => hist'.raced, hist.overtaken => hist'.overtaken,
         hist'.settled = hist.settled
  PROVE  Effect
BY DEF Effect, Stands, Keeps, SameCommands

-----------------------------------------------------------------------------
\* A transition takes a new revision.
LEMMA NewRevision ==
  ASSUME NEW e \in Environment, NEW mode
  PROVE  /\ e.rev \in Nat /\ Transition(e, mode).rev = e.rev + 1
         /\ e.rev <= e.rev /\ e.rev <= e.rev + 1 /\ e.rev < e.rev + 1
<1>1. e.rev \in Nat
  BY DEF Environment
<1>2. Transition(e, mode).rev = e.rev + 1
  BY DEF Transition, Environment
<1> QED BY <1>1, <1>2

\* The opening of a dispatch.
LEMMA BeginOpens ==
  ASSUME IInv, NEW t \in Task, NEW s \in BrokerState, NEW i \in Intent,
         NEW now \in Nat, Begin(t, s, i, now), UNCHANGED <<calls, events>>, env' = env,
         \A u \in Task : ~Writing(u),
         SameCommands(s, b), s.status = b.status \/ s.status # "acknowledged",
         hist'.settled = hist.settled, hist'.user = hist.user, hist'.ignored <=> hist.ignored,
         hist.raced => hist'.raced, hist'.overtaken <=> hist.overtaken,
         ~hist'.raced => b.pending = NoCmd /\ ~BackingOff(s, now) /\ ~TooSoon(s, i, now)
  PROVE  Outcome
<1> DEFINE c == [id |-> nextId, val |-> i.val, rev |-> i.rev, reg |-> now, sent |-> FALSE]
           j == [then |-> "persist", cmd |-> c, fb |-> NoFeedback]
           r == [pc |-> "persist", intent |-> i, now |-> now, cmd |-> c, callAt |-> 0]
<1>1. /\ b' = [s EXCEPT !.queued = NoIntent, !.pending = c, !.completed = NoCmd]
      /\ task' = [task EXCEPT ![t] = r] /\ nextId' = nextId + 1
      /\ jobs' = Append(jobs, j)
  BY DEF Begin, EnqueueJob
<1>2. /\ nextId \in Nat \ {0} /\ jobs \in Seq(Job) /\ task \in [Task -> TaskState]
      /\ env \in Environment /\ env.rev \in Nat /\ s.lastDispatch \in Int
  BY DEF IInv, TypeOK, Environment, BrokerState
<1>3. c.id = nextId /\ ~c.sent /\ c # NoCmd /\ r.pc = "persist" /\ r.now = now
  BY <1>2, Bounds
<1>4. j \in Job /\ j.fb.rev = 0
  <2>1. c \in Cmd
    BY <1>2 DEF Cmd, Intent
  <2> QED BY <2>1, ConstantTypes DEF Job, Continuations, TaskContinuations, NoFeedback
<1> HIDE DEF c, r, j
<1>5. /\ b'.pending = c /\ b'.completed = NoCmd /\ b'.uncertain = s.uncertain
      /\ b'.lastDispatch = s.lastDispatch /\ (b'.failed <=> s.failed) /\ b'.status = s.status
  BY <1>1 DEF BrokerState
<1>6. /\ task'[t] = r /\ \A u \in Task : u # t => task'[u] = task[u]
  BY <1>1, <1>2
<1>7. ASSUME ~hist'.raced, NEW u \in Task, Writing(u)'
      PROVE  Spaced(u)'
  <2>1. u = t
    BY <1>6, <1>7 DEF Writing
  <2>2. s.failed => ~(now < s.lastDispatch + OrdinaryInterval)
    BY <1>7 DEF BackingOff
  <2>3. ~(now - s.lastDispatch < IF i.kind.explicit THEN HardInterval ELSE OrdinaryInterval)
    BY <1>7 DEF TooSoon
  <2>4. HardInterval \in Nat /\ OrdinaryInterval \in Nat /\ HardInterval < OrdinaryInterval
    BY TimeAssumption
  <2>5. now - s.lastDispatch >= HardInterval
    BY <2>3, <2>4, <1>2
  <2>6. s.failed => now - s.lastDispatch >= OrdinaryInterval
    BY <2>2, <2>4, <1>2
  <2>7. task'[u].now = now
    BY <2>1, <1>3, <1>6
  <2> QED BY <2>5, <2>6, <2>7, <1>5 DEF Spaced
<1>8. Opens
  BY <1>1, <1>3, <1>5, <1>7 DEF Opens, SameCommands
<1>9. Effect
  BY <1>8 DEF Effect
<1>10. Earned
  BY <1>5 DEF Earned
<1>11. Judges
  BY <1>1, <1>2, <1>4 DEF Judges, NewJob
<1> QED BY <1>9, <1>10, <1>11 DEF Outcome

\* A submit keeps the commands or opens a dispatch.
LEMMA SubmitOutcome ==
  ASSUME IInv, NEW t \in Task, Submit(t) \/ Drain(t)
  PROVE  Outcome
<1>1. /\ b \in BrokerState /\ env \in Environment /\ hist \in History /\ env.rev \in Nat
      /\ jobs \in Seq(Job) /\ task \in [Task -> TaskState] /\ b \in Fitting
  BY BrokerFits DEF IInv, TypeOK, Environment
<1>2. task[t].pc = "idle" /\ UNCHANGED <<calls, events>>
  BY DEF Submit, Drain
<1>3. PICK s \in {b, Invalidate(b)}, i \in Intent, now \in Nat : AsyncSubmit(t, s, i, now)
  <2>1. CASE Submit(t)
    <3>1. PICK v \in Val, k \in Kinds, now \in (clock - MaxLag) .. clock :
             /\ now >= 0
             /\ AsyncSubmit(t, b, [val |-> v, kind |-> k, gen |-> env.gen,
                                   rev |-> env.rev, at |-> now], now)
      BY <2>1 DEF Submit
    <3>2. now \in Nat
      BY <3>1, TimeAssumption DEF IInv, TypeOK
    <3>3. [val |-> v, kind |-> k, gen |-> env.gen, rev |-> env.rev, at |-> now] \in Intent
      BY <3>2, KindAssumption, <1>1 DEF Intent, ValOrNone, Environment
    <3> QED BY <3>1, <3>2, <3>3
  <2>2. CASE Drain(t)
    <3>1. AsyncSubmit(t, Invalidate(b), b.queued, clock)
      BY <2>2 DEF Drain
    <3>2. b.queued \in Intent /\ clock \in Nat
      BY DEF IInv, TypeOK, BrokerState
    <3> QED BY <3>1, <3>2
  <2> QED BY <2>1, <2>2
<1>4. /\ s \in BrokerState /\ s \in Fitting /\ SameCommands(s, b) /\ s.status = b.status
  <2>1. Invalidate(b) \in Fitting /\ Invalidate(b) \in BrokerState
    BY <1>1, SimpleTypes, ConstantTypes DEF Fitting, NoCmd, Cmd
  <2>2. SameCommands(Invalidate(b), b) /\ Invalidate(b).status = b.status
    BY <1>1, HelpersKeep, Helpers
  <2> QED BY <1>1, <1>3, <2>1, <2>2 DEF SameCommands
<1> DEFINE p == Prepare(s, i)
<1>5. /\ p \in BrokerState /\ SameCommands(p, b)
      /\ p.status = b.status \/ p.status # "acknowledged"
  <2>1. p \in BrokerState
    BY <1>1, <1>4, PrepareType DEF Fitting
  <2>2. SameCommands(p, s) /\ (p.status = s.status \/ p.status # "acknowledged")
    <3>1. p.status = (IF s.goal = i.val THEN s.status ELSE "idle")
      BY <1>1, <1>4, PreparedFields
    <3> QED BY <3>1, <1>4, HelpersKeep
  <2> QED BY <2>1, <2>2, <1>4 DEF SameCommands
<1>6. /\ Retarget(s, i.val) \in BrokerState /\ SameCommands(Retarget(s, i.val), b)
  <2>1. Retarget(s, i.val) \in BrokerState
    BY <1>1, <1>4, PrepareType DEF Fitting
  <2> QED BY <2>1, <1>4, HelpersKeep DEF SameCommands
<1> HIDE DEF p
\* The steps that do not dispatch.
<1>7. ASSUME SameCommands(b', b), UNCHANGED <<nextId, jobs>>, Carries,
             b'.status = b.status \/ b'.status # "acknowledged" \/ b'.acked = env.live,
             hist' = hist \/ hist' = Answered(hist) \/ hist' = Retargeted(hist, i.val),
             env' = env \/ env' = Transition(env, "manual")
      PROVE  Outcome
  <2>1. /\ hist.raced => hist'.raced
        /\ hist'.settled = hist.settled /\ hist'.user = hist.user /\ (hist'.ignored <=> hist.ignored)
        /\ hist'.overtaken <=> hist.overtaken
    <3>1. CASE hist' = hist
      BY <3>1
    <3>2. CASE hist' = Answered(hist)
      BY <1>1, <3>2, Histories, HistoriesKeep
    <3>3. CASE hist' = Retargeted(hist, i.val)
      BY <1>1, <3>3, Histories, HistoriesKeep
    <3> QED BY <1>7, <3>1, <3>2, <3>3
  <2>2. Effect
    BY <1>2, <1>7, <2>1, StillStands
  <2>3. Earned
    <3>1. events' = events /\ jobs' = jobs
      BY <1>2, <1>7
    <3>2. b'.status = "acknowledged" /\ b.status # "acknowledged" => b'.acked = env.live
      BY <1>7
    <3> QED BY <3>1, <3>2 DEF Earned
  <2>4. env.rev <= env'.rev
    BY <1>1, <1>7, NewRevision
  <2>5. Judges
    <3>1. env'.rev > env.rev \/ hist'.user = hist.user
      BY <2>1
    <3> QED BY <1>7, <2>1, <2>4, <3>1 DEF Judges, NewJob
  <2> QED BY <2>2, <2>3, <2>5 DEF Outcome
<1>8. ASSUME task' = task PROVE Carries
  BY <1>8 DEF Carries, Writing
<1>9. CASE Refused(s, i, now)
  <2>1. b' = Invalidate(s) \/ b' = s
    BY <1>9 DEF Refused
  <2>2. SameCommands(b', b) /\ b'.status = b.status
    BY <2>1, <1>4, HelpersKeep, Helpers DEF SameCommands
  <2> QED BY <1>7, <1>8, <1>9, <2>2 DEF Refused
<1>10. CASE Postponed(s, i, now)
  <2>1. b' = [s EXCEPT !.queued = i]
    BY <1>10 DEF Postponed
  <2>2. SameCommands(b', b) /\ b'.status = b.status
    BY <2>1, <1>4 DEF SameCommands, BrokerState
  <2> QED BY <1>7, <1>8, <1>10, <2>2 DEF Postponed
<1>11. CASE AlreadyCurrent(s, i, now)
  <2> DEFINE q == Retarget(s, i.val)
  <2>1. b' = [q EXCEPT !.acked = env.live, !.queued = NoIntent,
                       !.status = "acknowledged", !.failed = FALSE]
    BY <1>11 DEF AlreadyCurrent
  <2> HIDE DEF q
  <2>2. SameCommands(b', q) /\ b'.acked = env.live
    <3>1. q \in BrokerState
      BY <1>6 DEF q
    <3> QED BY <2>1, <3>1 DEF SameCommands, BrokerState
  <2>3. SameCommands(b', b)
    BY <2>2, <1>6 DEF SameCommands, q
  <2> QED BY <1>7, <1>8, <1>11, <2>2, <2>3 DEF AlreadyCurrent
<1>12. CASE FoundExternal(s, i, now) \/ Suppressed(s, i, now) \/ Delayed(s, i, now)
            \/ (Accepted(t, s, i, now) /\ lock # <<>>)
  <2>1. /\ \/ b' = Invalidate(p) \/ b' = p \/ b' = [p EXCEPT !.queued = i]
           \/ b' = [[p EXCEPT !.queued = i] EXCEPT !.status = "retry_pending"]
        /\ UNCHANGED <<nextId, jobs>>
        /\ hist' = Retargeted(hist, i.val) \/ hist' = Answered(hist)
        /\ env' = env \/ env' = Transition(env, "manual")
    BY <1>12 DEF FoundExternal, Suppressed, Delayed, Accepted, LockFree, p
  <2>2. SameCommands(b', b) /\ (b'.status = p.status \/ b'.status # "acknowledged")
    <3>1. CASE b' = Invalidate(p)
      BY <3>1, <1>5, HelpersKeep, Helpers DEF SameCommands
    <3>2. CASE b' = p
      BY <3>2, <1>5
    <3>3. CASE b' = [p EXCEPT !.queued = i]
      BY <3>3, <1>5 DEF SameCommands, BrokerState
    <3>4. CASE b' = [[p EXCEPT !.queued = i] EXCEPT !.status = "retry_pending"]
      BY <3>4, <1>5 DEF SameCommands, BrokerState
    <3> QED BY <2>1, <3>1, <3>2, <3>3, <3>4
  <2>3. Carries
    <3>1. CASE Accepted(t, s, i, now) /\ lock # <<>>
      <4> DEFINE r == [Idle EXCEPT !.pc = "waiting", !.intent = i, !.now = now]
      <4>1. r.pc = "waiting"
        BY DEF Idle
      <4>2. task' = [task EXCEPT ![t] = r]
        BY <3>1 DEF Accepted, LockFree
      <4> HIDE DEF r
      <4>3. task'[t].pc = "waiting" /\ \A u \in Task : u # t => task'[u] = task[u]
        BY <4>1, <4>2, <1>1
      <4> QED BY <4>3 DEF Carries, Writing
    <3>2. CASE FoundExternal(s, i, now) \/ Suppressed(s, i, now) \/ Delayed(s, i, now)
      BY <1>8, <3>2 DEF FoundExternal, Suppressed, Delayed
    <3> QED BY <1>12, <3>1, <3>2
  <2>4. b'.status = b.status \/ b'.status # "acknowledged"
    BY <2>2, <1>5
  <2> QED BY <1>7, <2>1, <2>2, <2>3, <2>4
<1>13. CASE Accepted(t, s, i, now) /\ lock = <<>>
  <2>1. /\ Begin(t, p, i, now) /\ RemainingChecks(p, i, now)
        /\ hist' = Retargeted(hist, i.val) /\ s.pending = NoCmd /\ env' = env
    BY <1>13 DEF Accepted, LockFree, Considered, p
  <2>2. \A u \in Task : ~Writing(u)
    BY <1>13 DEF IInv, LockInv, Dispatching, Writing
  <2>3. /\ hist'.raced <=> hist.raced
        /\ hist'.settled = hist.settled /\ hist'.user = hist.user /\ (hist'.ignored <=> hist.ignored)
        /\ hist'.overtaken <=> hist.overtaken
    BY <2>1, <1>1, Histories, HistoriesKeep
  <2>4. ~BackingOff(p, now) /\ ~TooSoon(p, i, now)
    BY <2>1 DEF RemainingChecks
  <2>5. b.pending = NoCmd
    BY <2>1, <1>4 DEF SameCommands
  <2> QED BY <2>1, <2>2, <2>3, <2>4, <2>5, <1>2, <1>5, BeginOpens
<1> QED BY <1>3, <1>9, <1>10, <1>11, <1>12, <1>13 DEF AsyncSubmit

LEMMA AcquireLockOutcome ==
  ASSUME IInv, NEW t \in Task, AcquireLock(t)
  PROVE  Outcome
<1> DEFINE i == task[t].intent
           now == task[t].now
           more == b.pending # NoCmd \/ b.goal # i.val \/ ~RemainingChecks(b, i, now)
<1>1. /\ lock[1] = t /\ task[t].pc = "waiting" /\ i \in Intent /\ now \in Nat
      /\ b \in BrokerState /\ hist \in History
  BY DEF AcquireLock, IInv, TypeOK, TaskState
<1>2. /\ Begin(t, b, i, now) /\ hist' = [hist EXCEPT !.raced = @ \/ more]
      /\ UNCHANGED <<calls, events>> /\ env' = env
  BY DEF AcquireLock
<1>3. \A u \in Task : ~Writing(u)
  BY <1>1 DEF IInv, LockInv, Dispatching, Writing
<1>4. /\ hist'.settled = hist.settled /\ hist'.user = hist.user /\ (hist'.ignored <=> hist.ignored)
      /\ hist'.overtaken <=> hist.overtaken
      /\ hist'.raced <=> hist.raced \/ more
  BY <1>1, <1>2 DEF History
<1>5. ~hist'.raced => b.pending = NoCmd /\ ~BackingOff(b, now) /\ ~TooSoon(b, i, now)
  BY <1>4 DEF RemainingChecks
<1>6. SameCommands(b, b)
  BY DEF SameCommands
<1>7. hist.raced => hist'.raced
  BY <1>4
<1> HIDE DEF i, now, more
<1> QED BY <1>1, <1>2, <1>3, <1>4, <1>5, <1>6, <1>7, BeginOpens

-----------------------------------------------------------------------------
(* The steps of a dispatch *)

\* The command of a service call under way is marked as sent.
CallSent == \A t \in Task : task[t].pc = "call" => task[t].cmd.sent

LEMMA CallSentStep ==
  ASSUME IInv, DInv, CallSent, [Next]_vars
  PROVE  CallSent'
<1>1. task \in [Task -> TaskState] /\ Idle.pc = "idle"
  BY DEF IInv, TypeOK, Idle
<1>2. ASSUME task' = task PROVE CallSent'
  BY <1>2 DEF CallSent
<1>3. ASSUME NEW t \in Task, NEW r, task' = [task EXCEPT ![t] = r],
             r.pc = "call" => r.cmd.sent
      PROVE  CallSent'
  <2>1. task'[t] = r /\ \A u \in Task : u # t => task'[u] = task[u]
    BY <1>1, <1>3
  <2> QED BY <1>3, <2>1 DEF CallSent
<1>4. ASSUME NEW t \in Task, NEW s, NEW i, NEW now, Begin(t, s, i, now) PROVE CallSent'
  <2> DEFINE c == [id |-> nextId, val |-> i.val, rev |-> i.rev, reg |-> now, sent |-> FALSE]
             r == [pc |-> "persist", intent |-> i, now |-> now, cmd |-> c, callAt |-> 0]
  <2>1. task' = [task EXCEPT ![t] = r]
    BY <1>4 DEF Begin
  <2>2. r.pc # "call"
    OBVIOUS
  <2> HIDE DEF r
  <2> QED BY <1>3, <2>1, <2>2
<1>5. ASSUME NEW t \in Task, task' = [task EXCEPT ![t] = Idle] PROVE CallSent'
  <2>1. Idle.pc # "call"
    BY <1>1
  <2> QED BY <1>3, <1>5, <2>1
<1>6. ASSUME NEW t \in Task, Submit(t) \/ Drain(t) PROVE CallSent'
  <2>1. PICK s \in Fitting, i \in Intent, now \in Nat : AsyncSubmit(t, s, i, now)
    BY <1>6, SubmitInputs DEF IInv
  <2>2. CASE Accepted(t, s, i, now)
    <3> DEFINE r == [Idle EXCEPT !.pc = "waiting", !.intent = i, !.now = now]
    <3>1. Begin(t, Prepare(s, i), i, now) \/ task' = [task EXCEPT ![t] = r]
      BY <2>2 DEF Accepted
    <3>2. r.pc # "call"
      BY DEF Idle
    <3> HIDE DEF r
    <3> QED BY <1>3, <1>4, <3>1, <3>2
  <2>3. CASE \/ Refused(s, i, now) \/ Postponed(s, i, now) \/ AlreadyCurrent(s, i, now)
             \/ FoundExternal(s, i, now) \/ Suppressed(s, i, now) \/ Delayed(s, i, now)
    <3>1. task' = task
      BY <2>3 DEF Refused, Postponed, AlreadyCurrent, FoundExternal, Suppressed, Delayed
    <3> QED BY <1>2, <3>1
  <2> QED BY <2>1, <2>2, <2>3 DEF AsyncSubmit
<1>7. ASSUME NEW t \in Task, AcquireLock(t) PROVE CallSent'
  BY <1>4, <1>7 DEF AcquireLock
<1>8. ASSUME NEW t \in Task, CallEnd(t) PROVE CallSent'
  BY <1>5, <1>8 DEF CallEnd, Finish
<1>9. CASE JobDone
  <2>1. PICK verified \in BOOLEAN :
          ContinueDispatch(Head(jobs), lock[1], verified) \/ ContinueOther(Head(jobs))
    BY <1>9 DEF JobDone
  <2>2. CASE ContinueOther(Head(jobs))
    BY <1>2, <2>2 DEF ContinueOther
  <2>3. CASE ContinueDispatch(Head(jobs), lock[1], verified)
    <3> DEFINE t == lock[1]
    <3>1. HeadAwaited
      BY <1>9, <2>3
      DEF ContinueDispatch, RecordsExternal, HeadAwaited, TaskContinuations, JobDone
    <3>2. t \in Task /\ task[t] \in TaskState /\ task[t].pc = Stage[Head(jobs).then]
      BY <3>1, HeadJob
    <3>3. CASE Finish(t)
      BY <1>5, <3>2, <3>3 DEF Finish
    <3>4. CASE \E c, external : Cancel(t, c, external)
      <4>1. PICK c : task' = [task EXCEPT ![t] = [task[t] EXCEPT !.pc = "cancel", !.cmd = c]]
        BY <1>1, <3>2, <3>4 DEF Cancel
      <4>2. [task[t] EXCEPT !.pc = "cancel", !.cmd = c].pc # "call"
        BY <3>2 DEF TaskState
      <4> QED BY <1>3, <3>2, <4>1, <4>2
    <3>5. CASE \E c : task' = [task EXCEPT ![t].pc = "mark", ![t].cmd = c]
      <4>1. PICK c : task' = [task EXCEPT ![t] = [task[t] EXCEPT !.pc = "mark", !.cmd = c]]
        BY <1>1, <3>2, <3>5
      <4>2. [task[t] EXCEPT !.pc = "mark", !.cmd = c].pc # "call"
        BY <3>2 DEF TaskState
      <4> QED BY <1>3, <3>2, <4>1, <4>2
    <3>6. CASE Head(jobs).then = "mark" /\ CallService(t)
      <4>1. task' = [task EXCEPT ![t] = [task[t] EXCEPT !.pc = "call", !.callAt = clock]]
        BY <1>1, <3>2, <3>6 DEF CallService
      <4>2. task[t].pc = "mark"
        BY <3>2, <3>6 DEF Stage, TaskContinuations
      <4>3. [task[t] EXCEPT !.pc = "call", !.callAt = clock].cmd = task[t].cmd
        BY <3>2 DEF TaskState
      <4>4. task[t].cmd.sent
        BY <3>2, <4>2 DEF DInv, StageInv
      <4> QED BY <1>3, <3>2, <4>1, <4>3, <4>4
    <3> HIDE DEF t
    <3> QED BY <2>3, <3>3, <3>4, <3>5, <3>6 DEF ContinueDispatch, AfterPersist, AfterMark, t
  <2> QED BY <2>1, <2>2, <2>3
<1>10. CASE \/ HandleEvent \/ AckTimeout \/ Resume \/ CloseGate \/ OtherWrite
            \/ OwnershipChange \/ Reconciled \/ ReadinessChange \/ InputChange
            \/ ServiceEvent \/ DeviceChange \/ DeviceReport \/ Tick \/ UNCHANGED vars
  <2>1. task' = task
    BY <1>10 DEF HandleEvent, AckTimeout, Resume, CloseGate, OtherWrite, OwnershipChange,
                 Reconciled, ReadinessChange, InputChange, ServiceEvent, DeviceChange,
                 DeviceReport, Tick, vars
  <2> QED BY <1>2, <2>1
<1> QED BY <1>6, <1>7, <1>8, <1>9, <1>10 DEF Next

\* The end of a service call keeps its command or doubts it.
LEMMA CallEndOutcome ==
  ASSUME IInv, DInv, CallSent, NEW t \in Task, CallEnd(t)
  PROVE  Outcome
<1>1. /\ task' = [task EXCEPT ![t] = Idle] /\ Idle.pc = "idle"
      /\ UNCHANGED <<jobs, hist, calls, nextId, events>> /\ env' = env
      /\ task[t].pc = "call"
      /\ b \in BrokerState /\ task \in [Task -> TaskState] /\ env \in Environment
  BY DEF CallEnd, Finish, Idle, IInv, TypeOK
<1>2. Carries
  <2>1. task'[t].pc = "idle" /\ \A u \in Task : u # t => task'[u] = task[u]
    BY <1>1
  <2> QED BY <2>1 DEF Carries, Writing
<1>3. (Keeps \/ Doubts) /\ b'.lastDispatch = b.lastDispatch
      /\ (b'.status = b.status \/ b'.status # "acknowledged")
  <2>1. CASE b' = b
    BY <2>1 DEF Keeps
  <2>2. CASE b' # b
    <3> DEFINE u == Remember(b.uncertain, task[t].cmd)
               r == [b EXCEPT !.uncertain = u]
    <3>1. b' = WriteFailed(r) /\ b.pending = task[t].cmd
      BY <2>2 DEF CallEnd
    <3>2. b.pending.sent
      BY <1>1, <3>1 DEF CallSent
    <3>3. u = Remember(b.uncertain, b.pending)
      BY <3>1
    <3>4. u \in Seq(Cmd)
      BY <1>1, RememberType DEF IInv, TypeOK, TaskState, BrokerState
    <3> HIDE DEF u
    <3>5. /\ r \in BrokerState /\ r.pending = b.pending /\ r.completed = b.completed
          /\ r.uncertain = u /\ r.lastDispatch = b.lastDispatch
      BY <3>4, <1>1 DEF BrokerState
    <3> HIDE DEF r
    <3>6. /\ b'.pending = r.pending /\ b'.completed = r.completed
          /\ b'.uncertain = r.uncertain /\ b'.lastDispatch = r.lastDispatch
          /\ b'.status # "acknowledged"
      <4>1. b' = [r EXCEPT !.failed = TRUE,
                           !.status = IF r.attempts >= MaxAttempts THEN "write_failed"
                                      ELSE "retry_pending"]
        BY <3>1 DEF WriteFailed
      <4> QED BY <4>1, <3>5 DEF BrokerState
    <3> QED BY <3>2, <3>3, <3>5, <3>6 DEF Doubts
  <2> QED BY <2>1, <2>2
<1>4. Effect
  BY <1>1, <1>2, <1>3 DEF Effect, Stands
<1>5. Earned
  BY <1>3 DEF Earned
<1>6. Judges
  BY <1>1, NewRevision DEF Judges, NewJob
<1> QED BY <1>4, <1>5, <1>6 DEF Outcome

\* A dispatch that has got a write back and makes no call.
LEMMA GivenUpOutcome ==
  ASSUME IInv, DInv, HeadAwaited, NEW t, t = lock[1],
         \/ Finish(t) /\ jobs' = Tail(jobs)
         \/ \E c \in Cmd, external \in BOOLEAN : Cancel(t, c, external),
         b' = [b EXCEPT !.pending = NoCmd] \/ b' = b \/ b' = Invalidate(b),
         hist' = hist \/ hist' = Answered(hist),
         env' = env \/ env' = Transition(env, "manual"),
         UNCHANGED <<calls, nextId, events>>
  PROVE  Outcome
<1>1. /\ t \in Task /\ task \in [Task -> TaskState] /\ task[t] \in TaskState
      /\ b \in BrokerState /\ hist \in History /\ env \in Environment /\ jobs # <<>>
      /\ NoFeedback.rev = 0
  BY HeadJob DEF IInv, TypeOK, HeadAwaited, NoFeedback
<1>2. /\ task'[t].pc \notin {"persist", "mark"} /\ \A u \in Task : u # t => task'[u] = task[u]
      /\ \/ jobs' = Tail(jobs)
         \/ \E j \in Job : jobs' = Append(Tail(jobs), j) /\ j.fb.rev = 0
  <2>1. CASE Finish(t) /\ jobs' = Tail(jobs)
    <3>1. task' = [task EXCEPT ![t] = Idle] /\ Idle.pc = "idle"
      BY <2>1 DEF Finish, Idle
    <3> QED BY <3>1, <2>1, <1>1
  <2>2. CASE \E c \in Cmd, external \in BOOLEAN : Cancel(t, c, external)
    <3>1. PICK c \in Cmd, external \in BOOLEAN : Cancel(t, c, external)
      BY <2>2
    <3> DEFINE then == IF external THEN "cancel_external" ELSE "cancel"
               j == [then |-> then, cmd |-> c, fb |-> NoFeedback]
    <3>2. /\ task' = [task EXCEPT ![t] = [task[t] EXCEPT !.pc = "cancel", !.cmd = c]]
          /\ jobs' = Append(Tail(jobs), j)
      BY <3>1, <1>1 DEF Cancel
    <3>3. [task[t] EXCEPT !.pc = "cancel", !.cmd = c].pc = "cancel"
      BY <1>1 DEF TaskState
    <3>4. then \in Continuations
      BY DEF Continuations, TaskContinuations
    <3>5. j \in Job /\ j.fb.rev = 0
      <4> HIDE DEF then
      <4> QED BY <3>4, <1>1, ConstantTypes DEF Job
    <3> HIDE DEF j
    <3> QED BY <3>2, <3>3, <3>5, <1>1
  <2> QED BY <2>1, <2>2
<1>3. Carries
  BY <1>2 DEF Carries, Writing
<1>4. /\ hist'.raced <=> hist.raced
      /\ hist'.settled = hist.settled /\ hist'.user = hist.user /\ (hist'.ignored <=> hist.ignored)
      /\ hist'.overtaken <=> hist.overtaken
  <2>1. CASE hist' = hist
    BY <2>1
  <2>2. CASE hist' = Answered(hist)
    BY <2>2, <1>1, Histories, HistoriesKeep
  <2> QED BY <2>1, <2>2
<1>5. (Keeps \/ Drops) /\ b'.lastDispatch = b.lastDispatch /\ b'.status = b.status
  <2>1. CASE b' = [b EXCEPT !.pending = NoCmd]
    <3>1. b.pending.sent => hist'.raced
      <4>1. Clean => ~b.pending.sent
        BY OwnWrite
      <4> QED BY <4>1, <1>4 DEF Clean
    <3>2. /\ b'.pending = NoCmd /\ b'.completed = b.completed /\ b'.uncertain = b.uncertain
          /\ b'.lastDispatch = b.lastDispatch /\ b'.status = b.status
      BY <2>1, <1>1 DEF BrokerState
    <3> QED BY <3>1, <3>2 DEF Drops
  <2>2. CASE b' = b \/ b' = Invalidate(b)
    <3>1. SameCommands(b', b) /\ b'.status = b.status
      BY <2>2, <1>1, HelpersKeep, ConstantTypes, Helpers DEF SameCommands
    <3> QED BY <3>1 DEF Keeps, SameCommands
  <2> QED BY <2>1, <2>2
<1>6. Effect
  BY <1>3, <1>4, <1>5 DEF Effect, Stands
<1>7. Earned
  BY <1>5 DEF Earned
<1>8. Judges
  <2>1. ~Override(Head(jobs))
    BY DEF Override, HeadAwaited, TaskContinuations
  <2>2. env.rev <= env'.rev /\ 0 <= env.rev
    BY <1>1, NewRevision
  <2> QED BY <1>1, <1>2, <1>4, <2>1, <2>2 DEF Judges
<1> QED BY <1>6, <1>7, <1>8 DEF Outcome

\* The command is journalled and its record is marked as sent next.
LEMMA MarkOutcome ==
  ASSUME IInv, HeadAwaited, NEW t, t = lock[1], Head(jobs).then = "persist",
         task' = [task EXCEPT ![t].pc = "mark", ![t].cmd = [task[t].cmd EXCEPT !.sent = TRUE]],
         jobs' = Append(Tail(jobs), [then |-> "mark", cmd |-> [task[t].cmd EXCEPT !.sent = TRUE],
                                     fb |-> NoFeedback]),
         UNCHANGED <<b, hist, calls, nextId, events>>, env' = env
  PROVE  Outcome
<1> DEFINE c == [task[t].cmd EXCEPT !.sent = TRUE]
           j == [then |-> "mark", cmd |-> c, fb |-> NoFeedback]
<1>1. /\ t \in Task /\ task \in [Task -> TaskState] /\ task[t] \in TaskState
      /\ task[t].cmd \in Cmd /\ jobs # <<>> /\ task[t].pc = "persist"
      /\ env \in Environment /\ NoFeedback.rev = 0
  BY HeadJob DEF IInv, TypeOK, TaskState, HeadAwaited, Stage, TaskContinuations, NoFeedback
<1>2. c \in Cmd
  BY <1>1 DEF Cmd
<1>3. j \in Job /\ j.fb.rev = 0
  BY <1>1, <1>2, ConstantTypes DEF Job, Continuations, TaskContinuations
<1>4. task' = [task EXCEPT ![t] = [task[t] EXCEPT !.pc = "mark", !.cmd = c]]
  BY <1>1
<1>5. jobs' = Append(Tail(jobs), j)
  OBVIOUS
<1> HIDE DEF c, j
<1>6. /\ task'[t].now = task[t].now /\ \A u \in Task : u # t => task'[u] = task[u]
  <2>1. [task[t] EXCEPT !.pc = "mark", !.cmd = c].now = task[t].now
    BY <1>1 DEF TaskState
  <2> QED BY <2>1, <1>1, <1>4
<1>7. Carries
  BY <1>1, <1>6 DEF Carries, Writing
<1>8. Effect
  BY <1>7 DEF Effect, Stands, Keeps
<1>9. Earned
  BY DEF Earned
<1>10. Judges
  <2>1. ~Override(Head(jobs))
    BY DEF Override
  <2>2. env.rev <= env.rev /\ 0 <= env.rev
    BY <1>1 DEF Environment
  <2>3. j.fb.rev <= env.rev
    BY <1>3, <2>2
  <2>4. \E x \in Job : jobs' = Append(Tail(jobs), x) /\ x.fb.rev <= env.rev
    BY <1>3, <1>5, <2>3
  <2> QED BY <1>1, <2>1, <2>2, <2>4 DEF Judges
<1> QED BY <1>8, <1>9, <1>10 DEF Outcome

\* The service call sends the pending command, unless the dispatch had been given up.
LEMMA CallOutcome ==
  ASSUME IInv, DInv, HeadAwaited, NEW t, t = lock[1], Head(jobs).then = "mark",
         CallService(t), UNCHANGED <<nextId, events>>, env' = env
  PROVE  Outcome
<1> DEFINE c == task[t].cmd
           more == b.pending.id # c.id
           made == hist.unanswered + 1
           tries == b.attempts + 1
           when == task[t].now
<1>1. /\ t \in Dispatching /\ t \in Task /\ task \in [Task -> TaskState] /\ task[t] \in TaskState
      /\ c \in Cmd /\ jobs # <<>> /\ task[t].pc = "mark" /\ clock \in Nat
      /\ b \in BrokerState /\ hist \in History /\ env \in Environment
      /\ calls \in Seq([cmd: Cmd, at: Nat])
  <2>1. t \in Dispatching /\ t \in Task /\ task[t] \in TaskState /\ jobs # <<>>
    BY HeadJob DEF HeadAwaited
  <2>2. task[t].pc = "mark"
    BY HeadJob DEF Stage, TaskContinuations
  <2>3. /\ task \in [Task -> TaskState] /\ clock \in Nat /\ env \in Environment
        /\ b \in BrokerState /\ hist \in History /\ calls \in Seq([cmd: Cmd, at: Nat])
    BY DEF IInv, TypeOK
  <2>4. c \in Cmd
    BY <2>1 DEF TaskState
  <2> QED BY <2>1, <2>2, <2>3, <2>4
<1>2. c.id # 0 /\ c.sent
  BY <1>1 DEF DInv, StageInv
<1>3. /\ b' = [b EXCEPT !.pending = c, !.attempts = tries, !.lastDispatch = when,
                        !.status = "awaiting_acknowledgement"]
      /\ task' = [task EXCEPT ![t] = [task[t] EXCEPT !.pc = "call", !.callAt = clock]]
      /\ calls' = Append(calls, [cmd |-> c, at |-> clock])
      /\ hist' = [hist EXCEPT !.unanswered = made, !.raced = @ \/ more]
      /\ jobs' = Tail(jobs)
  BY <1>1 DEF CallService
<1>4. more <=> b.pending.id # c.id
  OBVIOUS
<1> HIDE DEF c, more, made, tries, when
<1>5. /\ b'.pending = c /\ b'.completed = b.completed /\ b'.uncertain = b.uncertain
      /\ b'.status = "awaiting_acknowledgement"
  BY <1>1, <1>3 DEF BrokerState
<1>6. /\ hist'.raced <=> hist.raced \/ more
      /\ hist'.settled = hist.settled /\ hist'.user = hist.user /\ (hist'.ignored <=> hist.ignored)
      /\ hist'.overtaken <=> hist.overtaken
  BY <1>1, <1>3 DEF History
<1>7. \A u \in Task : ~Writing(u)'
  <2>1. [task[t] EXCEPT !.pc = "call", !.callAt = clock].pc = "call"
    BY <1>1 DEF TaskState
  <2>2. task'[t].pc = "call" /\ \A u \in Task : u # t => task'[u] = task[u]
    BY <2>1, <1>1, <1>3
  <2> QED BY <2>2, <1>1, NoneAwaits DEF Writing
<1>8. hist'.raced \/ (b.pending.id = b'.pending.id /\ Unsent(b.pending))
  <2> SUFFICES ASSUME ~hist'.raced PROVE b.pending.id = b'.pending.id /\ Unsent(b.pending)
    OBVIOUS
  <2>1. Clean /\ c.id = b.pending.id
    BY <1>4, <1>6 DEF Clean
  <2>2. b.pending # NoCmd
    BY <2>1, <1>2, Bounds
  <2> QED BY <2>1, <2>2, <1>5, OwnWrite DEF Unsent
<1>9. /\ Len(calls') = Len(calls) + 1 /\ calls'[Len(calls) + 1].cmd = c
      /\ \A k \in DOMAIN calls : calls'[k] = calls[k]
  <2> DEFINE x == [cmd |-> c, at |-> clock]
  <2>1. x \in [cmd: Cmd, at: Nat] /\ x.cmd = c
    BY <1>1
  <2>2. calls' = Append(calls, x)
    BY <1>3
  <2> HIDE DEF x
  <2> QED BY <2>1, <2>2, <1>1
<1>10. Sends
  <2>1. c # NoCmd
    BY <1>2, Bounds
  <2> QED BY <2>1, <1>2, <1>5, <1>7, <1>8, <1>9 DEF Sends
<1>11. Effect
  BY <1>6, <1>10 DEF Effect
<1>12. Earned
  BY <1>5 DEF Earned
<1>13. Judges
  <2>1. ~Override(Head(jobs))
    BY DEF Override
  <2>2. env.rev <= env.rev
    BY <1>1, NewRevision
  <2> QED BY <1>1, <1>3, <1>6, <2>1, <2>2 DEF Judges
<1> QED BY <1>11, <1>12, <1>13 DEF Outcome

LEMMA DispatchOutcome ==
  ASSUME IInv, DInv, jobs # <<>>, NEW verified \in BOOLEAN,
         ContinueDispatch(Head(jobs), lock[1], verified), UNCHANGED <<nextId, events>>
  PROVE  Outcome
<1> DEFINE t == lock[1]
           j == Head(jobs)
<1>1. HeadAwaited
  BY DEF ContinueDispatch, RecordsExternal, HeadAwaited, TaskContinuations
<1>2. task[t].cmd \in Cmd
  BY <1>1, HeadJob DEF TaskState
<1>3. ASSUME j.then = "persist", AfterPersist(t, verified), UNCHANGED <<hist, calls>>, env' = env
      PROVE  Outcome
  <2>1. CASE b' = [b EXCEPT !.pending = NoCmd] /\ Finish(t) /\ jobs' = Tail(jobs)
    BY <1>1, <1>3, <2>1, GivenUpOutcome
  <2>2. CASE Cancel(t, task[t].cmd, Permitted(task[t].intent, task[t].now))
    <3>1. b' = [b EXCEPT !.pending = NoCmd]
      BY <2>2 DEF Cancel
    <3>2. \E c \in Cmd, external \in BOOLEAN : Cancel(t, c, external)
      <4>1. Permitted(task[t].intent, task[t].now) \in BOOLEAN
        BY Zenon DEF Permitted
      <4> QED BY <2>2, <4>1, <1>2
    <3> QED BY <1>1, <1>3, <3>1, <3>2, GivenUpOutcome
  <2>3. CASE /\ task' = [task EXCEPT ![t].pc = "mark", ![t].cmd = [task[t].cmd EXCEPT !.sent = TRUE]]
             /\ jobs' = Append(Tail(jobs),
                          [then |-> "mark", cmd |-> [task[t].cmd EXCEPT !.sent = TRUE],
                           fb |-> NoFeedback])
             /\ UNCHANGED <<b, lock>>
    BY <1>1, <1>3, <2>3, MarkOutcome
  <2> QED BY <1>3, <2>1, <2>2, <2>3 DEF AfterPersist
<1>4. ASSUME j.then = "mark", AfterMark(t, verified), env' = env PROVE Outcome
  <2>1. CASE /\ b' = [b EXCEPT !.pending = NoCmd] /\ Finish(t) /\ jobs' = Tail(jobs)
             /\ UNCHANGED <<hist, calls>>
    BY <1>1, <1>4, <2>1, GivenUpOutcome
  <2>2. CASE /\ Cancel(t, task[t].cmd, PreflightPasses(task[t].intent, task[t].now)
                                         /\ ~LiveKnown(b, task[t].intent))
             /\ UNCHANGED <<hist, calls>>
    <3>1. b' = [b EXCEPT !.pending = NoCmd]
      BY <2>2 DEF Cancel
    <3>2. \E c \in Cmd, external \in BOOLEAN : Cancel(t, c, external)
      <4>1. (PreflightPasses(task[t].intent, task[t].now) /\ ~LiveKnown(b, task[t].intent))
              \in BOOLEAN
        BY Zenon
      <4> QED BY <2>2, <4>1, <1>2
    <3> QED BY <1>1, <1>4, <2>2, <3>1, <3>2, GivenUpOutcome
  <2>3. CASE verified /\ CallService(t)
    BY <1>1, <1>4, <2>3, CallOutcome
  <2> QED BY <1>4, <2>1, <2>2, <2>3 DEF AfterMark
<1>5. ASSUME j.then \in {"cancel", "cancel_external"}, Finish(t), jobs' = Tail(jobs),
             b' = b \/ b' = Invalidate(b), hist' = hist \/ hist' = Answered(hist),
             env' = env \/ env' = Transition(env, "manual"), calls' = calls
      PROVE  Outcome
  BY <1>1, <1>5, GivenUpOutcome
<1> QED BY <1>3, <1>4, <1>5 DEF ContinueDispatch, RecordsExternal

-----------------------------------------------------------------------------
(* What feedback does to the commands *)

\* The value that a step acknowledges was sent under the revision of the feedback.
JudgedBy(fb) ==
  b'.status = "acknowledged" /\ b.status # "acknowledged" =>
    \E c \in Range(b.uncertain) \union {b.pending, b.completed} :
      c.sent /\ c.val = b'.acked /\ c.rev = fb.rev

\* The history grows.
Remembers ==
  /\ (hist.raced => hist'.raced) /\ (hist.overtaken => hist'.overtaken)
  /\ (hist.ignored => hist'.ignored) /\ hist.settled \subseteq hist'.settled

LEMMA BrokerHelpers ==
  ASSUME NEW s \in BrokerState, NEW v
  PROVE  /\ Acknowledge(s, v).completed = s.completed /\ Acknowledge(s, v).uncertain = s.uncertain
         /\ Acknowledge(s, v).lastDispatch = s.lastDispatch
         /\ WriteFailed(s).completed = s.completed /\ WriteFailed(s).uncertain = s.uncertain
         /\ WriteFailed(s).lastDispatch = s.lastDispatch
         /\ TimedOut(s).completed = s.completed /\ TimedOut(s).lastDispatch = s.lastDispatch
         /\ TimedOut(s).uncertain = Remember(s.uncertain, s.pending)
         /\ Reset(s).completed = NoCmd /\ Reset(s).uncertain = <<>>
         /\ Reset(s).lastDispatch = s.lastDispatch
<1>1. /\ Acknowledge(s, v).completed = s.completed /\ Acknowledge(s, v).uncertain = s.uncertain
      /\ Acknowledge(s, v).lastDispatch = s.lastDispatch
  BY DEF Acknowledge, BrokerState
<1>2. /\ WriteFailed(s).completed = s.completed /\ WriteFailed(s).uncertain = s.uncertain
      /\ WriteFailed(s).lastDispatch = s.lastDispatch
  BY DEF WriteFailed, BrokerState
<1>3. /\ TimedOut(s).completed = s.completed /\ TimedOut(s).lastDispatch = s.lastDispatch
      /\ TimedOut(s).uncertain = Remember(s.uncertain, s.pending)
  BY DEF TimedOut, WriteFailed, BrokerState
<1>4. /\ Reset(s).completed = NoCmd /\ Reset(s).uncertain = <<>>
      /\ Reset(s).lastDispatch = s.lastDispatch
  BY DEF Reset, BrokerState
<1> QED BY <1>1, <1>2, <1>3, <1>4

LEMMA EchoCommands ==
  ASSUME IInv, NEW fb \in Feedback, Echo(b, fb), EchoFeedback(fb)
  PROVE  /\ Keeps /\ b'.lastDispatch = b.lastDispatch /\ JudgedBy(fb)
         /\ Remembers /\ hist'.user = hist.user
<1>1. b \in BrokerState /\ hist \in History
  BY DEF IInv, TypeOK
<1>2. /\ Answered(hist).raced <=> hist.raced
      /\ Answered(hist).settled = hist.settled /\ Answered(hist).user = hist.user
      /\ (Answered(hist).ignored <=> hist.ignored) /\ (Answered(hist).overtaken <=> hist.overtaken)
      /\ Overtaken(hist).raced <=> hist.raced
      /\ Overtaken(hist).settled = hist.settled /\ Overtaken(hist).user = hist.user
      /\ Overtaken(hist).ignored <=> hist.ignored
      /\ Overtaken(hist).overtaken <=> hist.overtaken \/ b.pending # NoCmd
  BY <1>1, Histories, HistoriesKeep
<1>3. CASE b' = Acknowledge(b, fb.val) /\ hist' = Answered(hist)
  <2>1. /\ b'.pending = b.pending /\ b'.completed = b.completed /\ b'.uncertain = b.uncertain
        /\ b'.lastDispatch = b.lastDispatch /\ b'.acked = fb.val /\ ~b'.failed
    BY <1>1, <1>3, Helpers, BrokerHelpers
  <2>2. JudgedBy(fb)
    BY <2>1 DEF JudgedBy, Echo
  <2> QED BY <1>2, <1>3, <2>1, <2>2 DEF Keeps, Remembers
<1>4. CASE /\ b' = WriteFailed([b EXCEPT !.attempts = 0, !.baseline = fb.val])
           /\ hist' = Overtaken(hist)
  <2> DEFINE r == [b EXCEPT !.attempts = 0, !.baseline = fb.val]
  <2>1. /\ r \in BrokerState /\ r.pending = b.pending /\ r.completed = b.completed
        /\ r.uncertain = b.uncertain /\ r.lastDispatch = b.lastDispatch
    <3>1. fb.val \in ValOrNone
      BY DEF Feedback
    <3> QED BY <1>1, <3>1 DEF BrokerState
  <2>2. b' = WriteFailed(r)
    BY <1>4
  <2> HIDE DEF r
  <2>3. /\ b'.pending = b.pending /\ b'.completed = b.completed /\ b'.uncertain = b.uncertain
        /\ b'.lastDispatch = b.lastDispatch /\ b'.status # "acknowledged"
    BY <2>1, <2>2, Helpers, BrokerHelpers
  <2> QED BY <1>2, <1>4, <2>3 DEF Keeps, Remembers, JudgedBy
<1>5. CASE b' = b /\ hist' = hist
  BY <1>5 DEF Keeps, Remembers, JudgedBy
<1> QED BY <1>3, <1>4, <1>5 DEF EchoFeedback

LEMMA UnsolicitedCommands ==
  ASSUME IInv, NEW fb \in Feedback, fb.rev <= env.rev, NEW e \in Environment, e.rev = env.rev,
         UnsolicitedFeedback(fb, e)
  PROVE  /\ Keeps /\ b'.lastDispatch = b.lastDispatch /\ JudgedBy(fb) /\ Remembers
         /\ env.rev <= env'.rev /\ \A r \in hist'.user : r \in hist.user \/ r <= env.rev
         /\ env'.rev > env.rev \/ (hist'.user = hist.user /\ ~fb.user)
<1>1. b \in BrokerState /\ hist \in History /\ env.rev \in Nat
  BY DEF IInv, TypeOK, Environment
<1>2. CASE Echo(b, fb) /\ EchoFeedback(fb) /\ env' = e
  <2>1. ~fb.user
    BY <1>2 DEF Echo
  <2>2. /\ Keeps /\ b'.lastDispatch = b.lastDispatch /\ JudgedBy(fb)
        /\ Remembers /\ hist'.user = hist.user
    BY <1>2, EchoCommands
  <2> QED BY <1>1, <1>2, <2>1, <2>2
<1>3. CASE /\ env' = Transition(e, "manual") /\ b' = Invalidate(b)
           /\ hist' = Answered(Noted(hist, fb))
  <2>1. env'.rev = env.rev + 1
    BY <1>3, NewRevision
  <2>2. /\ b'.pending = b.pending /\ b'.completed = b.completed /\ b'.uncertain = b.uncertain
        /\ b'.lastDispatch = b.lastDispatch /\ (b'.failed <=> b.failed) /\ b'.status = b.status
    BY <1>1, <1>3 DEF Invalidate, BrokerState
  <2>3. /\ Noted(hist, fb) \in History /\ (Noted(hist, fb).raced <=> hist.raced)
        /\ Noted(hist, fb).settled = hist.settled
        /\ Noted(hist, fb).user = (IF fb.user THEN hist.user \union {fb.rev} ELSE hist.user)
        /\ Noted(hist, fb).ignored <=> hist.ignored
        /\ Noted(hist, fb).overtaken <=> hist.overtaken
    BY <1>1, HistoryTypes, Histories, HistoriesKeep
  <2>4. /\ hist'.raced <=> hist.raced
        /\ hist'.settled = hist.settled
        /\ hist'.user = (IF fb.user THEN hist.user \union {fb.rev} ELSE hist.user)
        /\ (hist'.ignored <=> hist.ignored) /\ (hist'.overtaken <=> hist.overtaken)
    <3> DEFINE h == Noted(hist, fb)
    <3> HIDE DEF h
    <3>1. ASSUME h \in History
          PROVE  /\ Answered(h).raced <=> h.raced
                 /\ Answered(h).settled = h.settled /\ Answered(h).user = h.user
                 /\ (Answered(h).ignored <=> h.ignored) /\ (Answered(h).overtaken <=> h.overtaken)
      BY <3>1 DEF Answered, History
    <3> QED BY <1>3, <2>3, <3>1 DEF h
  <2>5. Keeps /\ Remembers /\ JudgedBy(fb)
    BY <2>2, <2>4 DEF Keeps, Remembers, JudgedBy
  <2> QED BY <1>1, <2>1, <2>2, <2>4, <2>5
<1> QED BY <1>2, <1>3 DEF UnsolicitedFeedback

\* A step outside the dispatches, as far as it is about commands and revisions.
LEMMA EventOutcome ==
  ASSUME IInv, UNCHANGED <<task, calls, nextId>>, b'.lastDispatch = b.lastDispatch,
         Keeps \/ Drops \/ Loses \/ Discards, Remembers, NewJob(jobs'),
         NEW fb, fb.rev = env.rev, JudgedBy(fb),
         env.rev <= env'.rev, \A r \in hist'.user : r \in hist.user \/ r <= env.rev,
         \/ env'.rev > env.rev \/ hist'.ignored \/ hist'.user = hist.user
         \/ b.pending.sent /\ \E j \in Job : jobs' = Append(jobs, j) /\ Override(j)
  PROVE  Outcome
<1>1. Carries
  BY DEF Carries, Writing
<1>2. Effect
  BY <1>1 DEF Effect, Stands, Remembers
<1>3. ~(jobs # <<>> /\ jobs' = Tail(jobs))
  <2>1. jobs \in Seq(Job)
    BY DEF IInv, TypeOK
  <2>2. SUFFICES ASSUME jobs # <<>>, jobs' = Tail(jobs) PROVE FALSE
    OBVIOUS
  <2>3. Len(jobs') = Len(jobs) - 1 /\ Len(jobs) \in Nat
    BY <2>1, <2>2
  <2>4. Len(jobs') = Len(jobs) \/ Len(jobs') = Len(jobs) + 1
    BY <2>1 DEF NewJob
  <2> QED BY <2>3, <2>4
<1>4. Earned
  <2>1. JudgedRevision = fb.rev
    BY <1>3 DEF JudgedRevision
  <2> QED BY <2>1 DEF JudgedBy, Earned
<1>5. Judges
  BY DEF Judges, Remembers
<1> QED BY <1>2, <1>4, <1>5 DEF Outcome

\* Feedback that changes no command and is at most noted.
LEMMA IgnoredOutcome ==
  ASSUME IInv, UNCHANGED <<task, calls, nextId, b, jobs>>, env'.rev = env.rev,
         NEW fb \in Feedback, fb.rev = env.rev, hist' = hist \/ hist' = Ignored(hist, fb)
  PROVE  Outcome
<1>1. hist \in History /\ env.rev \in Nat
  BY DEF IInv, TypeOK, Environment
<1>2. /\ Remembers /\ \A r \in hist'.user : r \in hist.user \/ r <= env.rev
      /\ hist'.ignored \/ hist'.user = hist.user
  <2>1. CASE hist' = hist
    BY <2>1 DEF Remembers
  <2>2. CASE hist' = Ignored(hist, fb)
    <3>1. /\ hist'.raced <=> hist.raced
          /\ hist'.settled = hist.settled
          /\ hist'.user = (IF fb.user THEN hist.user \union {fb.rev} ELSE hist.user)
          /\ hist'.ignored <=> hist.ignored \/ fb.user
          /\ hist'.overtaken <=> hist.overtaken
      BY <1>1, <2>2, Histories, HistoriesKeep
    <3> QED BY <3>1, <1>1 DEF Remembers
  <2> QED BY <2>1, <2>2
<1>3. Keeps /\ JudgedBy(fb) /\ NewJob(jobs')
  BY DEF Keeps, JudgedBy, NewJob
<1> QED BY <1>1, <1>2, <1>3, EventOutcome

LEMMA QueuedJob ==
  ASSUME IInv, NEW then \in Continuations, NEW c \in Cmd, NEW fb \in Feedback,
         fb.rev <= env.rev, EnqueueJob(then, c, fb)
  PROVE  /\ NewJob(jobs')
         /\ then = "external" \/ (then = "late_feedback" /\ fb.user)
              => \E j \in Job : jobs' = Append(jobs, j) /\ Override(j)
<1> DEFINE j == [then |-> then, cmd |-> c, fb |-> fb]
<1>1. j \in Job /\ j.fb = fb /\ j.then = then
  BY DEF Job
<1>2. jobs' = Append(jobs, j)
  BY DEF EnqueueJob
<1> HIDE DEF j
<1> QED BY <1>1, <1>2 DEF NewJob, Override

LEMMA PendingFeedbackOutcome ==
  ASSUME IInv, NEW fb \in Feedback, fb.rev = env.rev, NEW e \in Environment, e.rev = env.rev,
         b.pending # NoCmd, b.pending.sent, PendingFeedback(fb, e),
         UNCHANGED <<task, calls, nextId>>
  PROVE  Outcome
<1> DEFINE p == b.pending
           cleared == [b EXCEPT !.pending = NoCmd, !.queued = NoIntent]
<1>1. /\ b \in BrokerState /\ hist \in History /\ p \in Cmd /\ env.rev \in Nat
      /\ fb.val \in ValOrNone /\ NoCmd \in Cmd /\ NoIntent \in Intent /\ NoFeedback \in Feedback
      /\ NoFeedback.rev <= env.rev
  BY ConstantTypes DEF IInv, TypeOK, Feedback, BrokerState, Environment, NoFeedback
<1>2. "settled" \in Continuations /\ "external" \in Continuations
  BY DEF Continuations
<1>3. /\ cleared \in BrokerState /\ cleared.pending = NoCmd /\ cleared.completed = b.completed
      /\ cleared.uncertain = b.uncertain /\ cleared.lastDispatch = b.lastDispatch
      /\ cleared.status = b.status
  BY <1>1 DEF BrokerState
<1>4. env'.rev = env.rev /\ env.rev <= env.rev
  BY <1>1 DEF PendingFeedback
<1>5. CASE b' = b /\ jobs' = jobs /\ (hist' = hist \/ hist' = Ignored(hist, fb))
  BY <1>4, <1>5, IgnoredOutcome
<1>6. CASE /\ p.rev = fb.rev /\ p.val = fb.val
           /\ b' = [Acknowledge(b, fb.val) EXCEPT !.pending = NoCmd, !.completed = p]
           /\ hist' = Settled(hist)
           /\ EnqueueJob("settled", p, NoFeedback)
  <2> DEFINE r == Acknowledge(b, fb.val)
  <2>1. /\ r \in BrokerState /\ r.acked = fb.val /\ r.uncertain = b.uncertain
        /\ r.lastDispatch = b.lastDispatch
    BY <1>1, Helpers, BrokerHelpers, SimpleTypes, BrokerFits DEF Fitting, IInv
  <2>2. b' = [r EXCEPT !.pending = NoCmd, !.completed = p]
    BY <1>6
  <2> HIDE DEF r
  <2>3. /\ b'.pending = NoCmd /\ b'.completed = p /\ b'.uncertain = b.uncertain
        /\ b'.lastDispatch = b.lastDispatch /\ b'.acked = fb.val
    BY <2>1, <2>2 DEF BrokerState
  <2>4. /\ hist'.raced <=> hist.raced
        /\ hist'.settled = hist.settled \union ({p.id} \ {0}) /\ hist'.user = hist.user
        /\ (hist'.ignored <=> hist.ignored) /\ (hist'.overtaken <=> hist.overtaken)
    BY <1>1, <1>6, Histories, HistoriesKeep
  <2>5. Drops /\ Remembers
    BY <2>3, <2>4 DEF Drops, Remembers
  <2>6. JudgedBy(fb)
    BY <2>3, <1>6 DEF JudgedBy
  <2>7. NewJob(jobs')
    BY <1>1, <1>2, <1>6, QueuedJob
  <2> QED BY <1>4, <2>3, <2>4, <2>5, <2>6, <2>7, EventOutcome
<1>7. CASE /\ b' = WriteFailed([cleared EXCEPT !.uncertain = Remember(@, p), !.baseline = fb.val])
           /\ hist' = hist
           /\ EnqueueJob("settled", p, NoFeedback)
  <2> DEFINE u == Remember(cleared.uncertain, p)
             r == [cleared EXCEPT !.uncertain = u, !.baseline = fb.val]
  <2>1. u \in Seq(Cmd) /\ u = Remember(b.uncertain, p)
    <3>1. cleared.uncertain = b.uncertain /\ b.uncertain \in Seq(Cmd) /\ Len(b.uncertain) <= MaxAttempts
      BY <1>1 DEF BrokerState, IInv, TypeOK
    <3> QED BY <1>1, <3>1, RememberType
  <2>2. b' = WriteFailed(r)
    BY <1>7
  <2> HIDE DEF u, cleared
  <2>3. /\ r \in BrokerState /\ r.pending = NoCmd /\ r.completed = b.completed
        /\ r.uncertain = u /\ r.lastDispatch = b.lastDispatch
    BY <1>1, <1>3, <2>1 DEF BrokerState
  <2> HIDE DEF r
  <2>4. /\ b'.pending = NoCmd /\ b'.completed = b.completed /\ b'.uncertain = u
        /\ b'.lastDispatch = b.lastDispatch /\ b'.status # "acknowledged"
    BY <2>2, <2>3, Helpers, BrokerHelpers
  <2>5. Loses /\ Remembers /\ JudgedBy(fb)
    BY <2>1, <2>4, <1>7 DEF Loses, Remembers, JudgedBy
  <2>6. NewJob(jobs')
    BY <1>1, <1>2, <1>7, QueuedJob
  <2> QED BY <1>4, <1>7, <2>4, <2>5, <2>6, EventOutcome
<1>8. CASE /\ b' = cleared
           /\ hist' = Settled(Noted(hist, fb))
           /\ EnqueueJob("external", p, NoFeedback)
  <2> DEFINE h == Noted(hist, fb)
  <2>1. /\ h \in History /\ (h.raced <=> hist.raced)
        /\ h.settled = hist.settled
        /\ h.user = (IF fb.user THEN hist.user \union {fb.rev} ELSE hist.user)
        /\ (h.ignored <=> hist.ignored) /\ (h.overtaken <=> hist.overtaken)
    BY <1>1, HistoryTypes, Histories, HistoriesKeep
  <2>2. hist' = Settled(h)
    BY <1>8
  <2> HIDE DEF h, cleared
  <2>3. /\ hist'.raced <=> hist.raced
        /\ hist'.settled = hist.settled \union ({p.id} \ {0})
        /\ hist'.user = (IF fb.user THEN hist.user \union {fb.rev} ELSE hist.user)
        /\ (hist'.ignored <=> hist.ignored) /\ (hist'.overtaken <=> hist.overtaken)
    BY <2>1, <2>2 DEF Settled, Answered, History
  <2>4. Drops /\ Remembers /\ JudgedBy(fb)
    BY <2>3, <1>3, <1>8 DEF Drops, Remembers, JudgedBy
  <2>5. NewJob(jobs') /\ \E j \in Job : jobs' = Append(jobs, j) /\ Override(j)
    BY <1>1, <1>2, <1>8, QueuedJob
  <2>6. \A x \in hist'.user : x \in hist.user \/ x <= env.rev
    BY <2>3, <1>1
  <2> QED BY <1>3, <1>4, <1>8, <2>4, <2>5, <2>6, EventOutcome
<1> QED BY <1>5, <1>6, <1>7, <1>8 DEF PendingFeedback

LEMMA ProcessFeedbackOutcome ==
  ASSUME IInv, NEW fb \in Feedback, fb.rev = env.rev, NEW e \in Environment, e.rev = env.rev,
         ProcessFeedback(fb, e), UNCHANGED <<task, calls, nextId>>
  PROVE  Outcome
<1>1. /\ b \in BrokerState /\ hist \in History /\ b.pending \in Cmd /\ env.rev \in Nat
      /\ fb.rev <= env.rev
  BY DEF IInv, TypeOK, BrokerState, Environment
<1>2. CASE b' = b /\ jobs' = jobs /\ hist' = Ignored(hist, fb) /\ env' = e
  BY <1>2, IgnoredOutcome
<1>3. CASE /\ b.pending # NoCmd /\ b.pending.sent /\ b' = TimedOut(b) /\ env' = e
           /\ hist' = Noted(hist, fb)
           /\ EnqueueJob("late_feedback", b.pending, fb)
  <2>1. /\ hist'.raced <=> hist.raced
        /\ hist'.settled = hist.settled
        /\ hist'.user = (IF fb.user THEN hist.user \union {fb.rev} ELSE hist.user)
        /\ (hist'.ignored <=> hist.ignored) /\ (hist'.overtaken <=> hist.overtaken)
    BY <1>1, <1>3, Histories, HistoriesKeep
  <2>2. /\ b'.pending = NoCmd /\ b'.completed = b.completed /\ b'.lastDispatch = b.lastDispatch
        /\ b'.uncertain = Remember(b.uncertain, b.pending) /\ b'.status # "acknowledged"
    BY <1>1, <1>3, Helpers, BrokerHelpers
  <2>3. Loses /\ Remembers /\ JudgedBy(fb)
    BY <2>1, <2>2, <1>3 DEF Loses, Remembers, JudgedBy
  <2>4. "late_feedback" \in Continuations
    BY DEF Continuations
  <2>5. /\ NewJob(jobs')
        /\ fb.user => \E j \in Job : jobs' = Append(jobs, j) /\ Override(j)
    BY <1>1, <1>3, <2>4, QueuedJob
  <2>6. \A x \in hist'.user : x \in hist.user \/ x <= env.rev
    BY <2>1, <1>1
  <2> QED BY <1>1, <1>3, <2>1, <2>2, <2>3, <2>5, <2>6, EventOutcome
<1>4. CASE b.pending # NoCmd /\ b.pending.sent /\ PendingFeedback(fb, e)
  BY <1>4, PendingFeedbackOutcome
<1>5. CASE UnsolicitedFeedback(fb, e) /\ jobs' = jobs
  <2>1. /\ Keeps /\ b'.lastDispatch = b.lastDispatch /\ JudgedBy(fb) /\ Remembers
        /\ env.rev <= env'.rev /\ \A r \in hist'.user : r \in hist.user \/ r <= env.rev
        /\ env'.rev > env.rev \/ hist'.user = hist.user
    BY <1>1, <1>5, UnsolicitedCommands
  <2>2. NewJob(jobs')
    BY <1>5 DEF NewJob
  <2> QED BY <2>1, <2>2, EventOutcome
<1> QED BY <1>2, <1>3, <1>4, <1>5 DEF ProcessFeedback

\* Availability changes and Resume discard every command; the calls made so far count
\* as settled.
LEMMA DiscardOutcome ==
  ASSUME IInv, UNCHANGED <<task, calls, nextId>>, hist' = Discarded(hist),
         \/ b' = Reset(b)
         \/ b' = [Reset(b) EXCEPT !.acked = NoVal, !.status = "waiting_target"],
         NewJob(jobs'), env.rev <= env'.rev
  PROVE  Outcome
<1> DEFINE r == Reset(b)
           ids == {c.id : c \in Called}
<1>1. /\ b \in BrokerState /\ hist \in History /\ NoFeedback \in Feedback
  BY ConstantTypes DEF IInv, TypeOK
<1>2. /\ r \in BrokerState /\ r.pending = NoCmd /\ r.completed = NoCmd /\ r.uncertain = <<>>
      /\ r.lastDispatch = b.lastDispatch /\ r.status # "acknowledged"
  BY <1>1, Helpers, BrokerHelpers, SimpleTypes, BrokerFits DEF Fitting, IInv, ValOrNone
<1> HIDE DEF r
<1>3. /\ b'.pending = NoCmd /\ b'.completed = NoCmd /\ b'.uncertain = <<>>
      /\ b'.lastDispatch = b.lastDispatch /\ b'.status # "acknowledged"
  <2>1. CASE b' = r
    BY <1>2, <2>1
  <2>2. CASE b' = [r EXCEPT !.acked = NoVal, !.status = "waiting_target"]
    BY <1>2, <2>2 DEF BrokerState
  <2> QED BY <2>1, <2>2 DEF r
<1>4. /\ hist'.raced <=> hist.raced
      /\ hist'.settled = hist.settled \union ids /\ hist'.user = hist.user
      /\ (hist'.ignored <=> hist.ignored) /\ (hist'.overtaken <=> hist.overtaken)
  BY <1>1, Histories, HistoriesKeep
<1>5. \A c \in Called : c.id \in hist'.settled
  BY <1>4
<1> HIDE DEF ids
<1>6. Discards /\ Remembers
  BY <1>3, <1>4, <1>5 DEF Discards, Remembers
<1> DEFINE fb == [NoFeedback EXCEPT !.rev = env.rev]
<1>7. fb.rev = env.rev
  BY DEF NoFeedback
<1> HIDE DEF fb
<1>8. JudgedBy(fb)
  BY <1>3 DEF JudgedBy
<1> QED BY <1>3, <1>4, <1>6, <1>7, <1>8, EventOutcome

LEMMA HandleEventOutcome ==
  ASSUME IInv, HandleEvent
  PROVE  Outcome
<1> DEFINE ev == Head(events)
           fb == FeedbackOf(ev)
           seen == [env EXCEPT !.seen = ev.val]
<1>1. /\ b \in BrokerState /\ b.pending \in Cmd /\ env \in Environment /\ env.rev \in Nat
      /\ events \in Seq(Event) /\ jobs \in Seq(Job)
  BY DEF IInv, TypeOK, BrokerState, Environment
<1>2. ev \in Event /\ ev.val \in ValOrNone /\ UNCHANGED <<task, calls, nextId>>
  <2>1. events # <<>> /\ UNCHANGED <<task, calls, nextId>>
    BY DEF HandleEvent
  <2>2. ev \in Event
    BY <1>1, <2>1
  <2> HIDE DEF ev
  <2> QED BY <2>1, <2>2 DEF Event
<1>3. fb \in Feedback /\ fb.rev = env.rev
  BY <1>1, <1>2 DEF FeedbackOf, Feedback, Event
<1>4. seen \in Environment /\ seen.rev = env.rev
  BY <1>1, <1>2 DEF Environment
<1>5. CASE UNCHANGED <<b, jobs, hist>> /\ (env' = env \/ env' = seen)
  <2>1. env'.rev = env.rev
    BY <1>4, <1>5
  <2> QED BY <1>2, <1>3, <1>5, <2>1, IgnoredOutcome
<1>6. CASE ProcessFeedback(fb, env) \/ ProcessFeedback(fb, seen)
  <2> HIDE DEF fb, seen
  <2> QED BY <1>1, <1>2, <1>3, <1>4, <1>6, ProcessFeedbackOutcome
<1>7. CASE HandleAvailability(ev)
  <2> DEFINE f == [NoFeedback EXCEPT !.val = ev.val]
  <2>1. /\ hist' = Discarded(hist)
        /\ \/ b' = Reset(b) /\ EnqueueJob("unavailable", b.pending, f)
           \/ /\ b' = [Reset(b) EXCEPT !.acked = NoVal, !.status = "waiting_target"]
              /\ jobs' = jobs
    BY <1>7 DEF HandleAvailability
  <2>2. env'.rev = env.rev + 1
    <3>1. PICK fit, mode :
            LET e == [Transition(env, mode) EXCEPT !.fit = fit]
            IN env' = e \/ env' = [e EXCEPT !.seen = ev.val]
      BY <1>7 DEF HandleAvailability
    <3> DEFINE d == Transition(env, mode)
               e == [d EXCEPT !.fit = fit]
    <3>2. d = [env EXCEPT !.mode = mode, !.rev = env.rev + 1]
      BY DEF Transition
    <3> HIDE DEF d
    <3>3. e.rev = env.rev + 1
      BY <1>1, <3>2 DEF Environment
    <3>4. [e EXCEPT !.seen = ev.val].rev = env.rev + 1
      BY <1>1, <3>2 DEF Environment
    <3> QED BY <3>1, <3>3, <3>4 DEF d
  <2>3. f \in Feedback /\ f.rev <= env.rev
    <3>1. f \in Feedback
      BY <1>2, ConstantTypes DEF Feedback
    <3>2. f.rev = 0
      BY DEF NoFeedback
    <3> QED BY <1>1, <3>1, <3>2
  <2>4. "unavailable" \in Continuations
    BY DEF Continuations
  <2> HIDE DEF f
  <2>5. NewJob(jobs')
    <3>1. CASE jobs' = jobs
      BY <3>1 DEF NewJob
    <3>2. CASE EnqueueJob("unavailable", b.pending, f)
      BY <1>1, <2>3, <2>4, <3>2, QueuedJob
    <3> QED BY <2>1, <3>1, <3>2
  <2>6. env.rev <= env'.rev
    BY <1>1, <2>2
  <2> QED BY <1>2, <2>1, <2>5, <2>6, DiscardOutcome
<1> QED BY <1>5, <1>6, <1>7 DEF HandleEvent, HandleReport, HandleChange

LEMMA TimerAndResumeOutcome ==
  ASSUME IInv, AckTimeout \/ Resume \/ CloseGate
  PROVE  Outcome
<1>1. /\ b \in BrokerState /\ b.pending \in Cmd /\ NoFeedback \in Feedback /\ env.rev \in Nat
      /\ hist \in History /\ UNCHANGED <<task, calls, nextId>> /\ NoFeedback.rev <= env.rev
      /\ env \in Environment
  BY ConstantTypes
     DEF IInv, TypeOK, BrokerState, Environment, NoFeedback, AckTimeout, Resume, CloseGate
<1>2. "timed_out" \in Continuations /\ "resumed" \in Continuations
  BY DEF Continuations
<1> DEFINE fb == [NoFeedback EXCEPT !.rev = env.rev]
<1>3. fb.rev = env.rev /\ fb \in Feedback
  BY <1>1 DEF NoFeedback, Feedback
<1> HIDE DEF fb
<1>4. CASE /\ b.pending # NoCmd /\ b' = TimedOut(b)
           /\ EnqueueJob("timed_out", b.pending, NoFeedback) /\ hist' = hist /\ env' = env
  <2>1. /\ b'.pending = NoCmd /\ b'.completed = b.completed /\ b'.lastDispatch = b.lastDispatch
        /\ b'.uncertain = Remember(b.uncertain, b.pending) /\ b'.status # "acknowledged"
    BY <1>1, <1>4, Helpers, BrokerHelpers
  <2>2. Loses /\ Remembers /\ JudgedBy(fb)
    BY <2>1, <1>4 DEF Loses, Remembers, JudgedBy
  <2>3. NewJob(jobs')
    BY <1>1, <1>2, <1>4, QueuedJob
  <2>4. env.rev <= env.rev
    BY <1>1
  <2> QED BY <1>1, <1>3, <1>4, <2>1, <2>2, <2>3, <2>4, EventOutcome
<1>5. CASE UNCHANGED <<b, jobs, hist, env>>
  BY <1>1, <1>3, <1>5, IgnoredOutcome
<1>6. CASE b' = Invalidate(b) /\ UNCHANGED <<jobs, hist, env>>
  <2>1. SameCommands(b', b) /\ b'.status = b.status
    BY <1>1, <1>6, ConstantTypes, HelpersKeep, Helpers
  <2>2. Keeps /\ Remembers /\ JudgedBy(fb) /\ NewJob(jobs')
    BY <2>1, <1>6 DEF SameCommands, Keeps, Remembers, JudgedBy, NewJob
  <2>3. env.rev <= env.rev
    BY <1>1
  <2> QED BY <1>1, <1>3, <1>6, <2>1, <2>2, <2>3, EventOutcome DEF SameCommands
<1>7. CASE Resume
  <2>1. /\ b' = Reset(b) /\ hist' = Discarded(hist)
        /\ (jobs' = jobs \/ EnqueueJob("resumed", b.pending, NoFeedback))
        /\ (env' = env \/ env' = Transition(env, "suspended"))
    BY <1>7 DEF Resume
  <2>2. NewJob(jobs')
    <3>1. CASE jobs' = jobs
      BY <3>1 DEF NewJob
    <3>2. CASE EnqueueJob("resumed", b.pending, NoFeedback)
      BY <1>1, <1>2, <3>2, QueuedJob
    <3> QED BY <2>1, <3>1, <3>2
  <2>3. env.rev <= env'.rev
    BY <1>1, <2>1, NewRevision
  <2> QED BY <1>1, <2>1, <2>2, <2>3, DiscardOutcome
<1> QED BY <1>4, <1>5, <1>6, <1>7 DEF AckTimeout, CloseGate

\* The revisions that queued feedback was judged under are past or in force.
FeedbackPast == \A k \in DOMAIN jobs : jobs[k].fb.rev <= env.rev

LEMMA ContinueOtherOutcome ==
  ASSUME IInv, FeedbackPast, jobs # <<>>, ContinueOther(Head(jobs)), UNCHANGED nextId
  PROVE  Outcome
<1> DEFINE j == Head(jobs)
<1>1. /\ jobs' = Tail(jobs) /\ UNCHANGED <<task, calls>>
      /\ b \in BrokerState /\ hist \in History /\ env \in Environment /\ env.rev \in Nat
  BY DEF ContinueOther, IInv, TypeOK, Environment
<1>2. j \in Job /\ j.fb.rev <= env.rev
  <2>1. jobs \in Seq(Job)
    BY DEF IInv, TypeOK
  <2> QED BY <2>1, Elements DEF FeedbackPast
<1>3. j.fb \in Feedback
  <2> HIDE DEF j
  <2> QED BY <1>2 DEF Job
<1>4. ASSUME Keeps, b'.lastDispatch = b.lastDispatch, JudgedBy(j.fb), Remembers,
             env.rev <= env'.rev, \A r \in hist'.user : r \in hist.user \/ r <= env.rev,
             env'.rev > env.rev \/ (hist'.user = hist.user /\ ~Override(j))
      PROVE  Outcome
  <2>1. Carries
    BY <1>1 DEF Carries, Writing
  <2>2. Effect
    BY <1>1, <1>4, <2>1 DEF Effect, Stands, Remembers
  <2>3. Earned
    <3>1. JudgedRevision = j.fb.rev
      BY <1>1 DEF JudgedRevision
    <3> QED BY <1>4, <3>1 DEF Earned, JudgedBy
  <2>4. Judges
    BY <1>1, <1>4 DEF Judges, Remembers
  <2> QED BY <2>2, <2>3, <2>4 DEF Outcome
<1>5. CASE j.then = "late_feedback" /\ UnsolicitedFeedback(j.fb, env)
  <2> DEFINE fb == j.fb
  <2>1. fb \in Feedback /\ fb.rev <= env.rev /\ UnsolicitedFeedback(fb, env)
    BY <1>2, <1>3, <1>5
  <2>2. Override(j) => fb.user
    BY <1>5 DEF Override
  <2>3. /\ Keeps /\ b'.lastDispatch = b.lastDispatch /\ JudgedBy(fb) /\ Remembers
        /\ env.rev <= env'.rev /\ \A r \in hist'.user : r \in hist.user \/ r <= env.rev
        /\ env'.rev > env.rev \/ (hist'.user = hist.user /\ ~fb.user)
    <3> HIDE DEF fb
    <3> QED BY <1>1, <2>1, UnsolicitedCommands
  <2> QED BY <1>4, <2>2, <2>3
<1>6. CASE /\ j.then # "late_feedback" /\ hist' = hist
           /\ \/ b' = b \/ b' = Invalidate(b)
              \/ b' = [b EXCEPT !.acked = NoVal, !.status = "waiting_target"]
           /\ \/ j.then # "external" /\ env'.rev = env.rev
              \/ env' = Transition(env, "manual") \/ env' = Transition(env, "suspended")
  <2>1. /\ b'.pending = b.pending /\ b'.completed = b.completed /\ b'.uncertain = b.uncertain
        /\ b'.lastDispatch = b.lastDispatch /\ (b'.failed <=> b.failed)
        /\ b'.status = b.status \/ b'.status # "acknowledged"
    <3>1. CASE b' = b
      BY <3>1
    <3>2. CASE b' = Invalidate(b)
      BY <1>1, <3>2 DEF Invalidate, BrokerState
    <3>3. CASE b' = [b EXCEPT !.acked = NoVal, !.status = "waiting_target"]
      BY <1>1, <3>3 DEF BrokerState
    <3> QED BY <1>6, <3>1, <3>2, <3>3
  <2>2. Keeps /\ JudgedBy(j.fb) /\ Remembers
    BY <1>6, <2>1 DEF Keeps, JudgedBy, Remembers
  <2>3. env.rev <= env'.rev /\ (env'.rev > env.rev \/ ~Override(j))
    <3>1. CASE j.then # "external" /\ env'.rev = env.rev
      BY <1>1, <1>6, <3>1 DEF Override
    <3>2. CASE env' = Transition(env, "manual") \/ env' = Transition(env, "suspended")
      BY <1>1, <3>2, NewRevision
    <3> QED BY <1>6, <3>1, <3>2
  <2> QED BY <1>4, <1>6, <2>1, <2>2, <2>3
<1>7. [env EXCEPT !.seen = j.fb.val].rev = env.rev
  BY <1>1 DEF Environment
<1> QED BY <1>5, <1>6, <1>7 DEF ContinueOther

LEMMA EnvironmentOutcome ==
  ASSUME IInv,
         \/ OwnershipChange \/ Reconciled \/ ReadinessChange \/ InputChange
         \/ ServiceEvent \/ DeviceChange \/ DeviceReport \/ Tick \/ OtherWrite
         \/ UNCHANGED vars
  PROVE  Outcome
<1>1. /\ UNCHANGED <<task, jobs, calls, nextId>>
      /\ b' = b \/ b' = Invalidate(b)
      /\ hist' = hist \/ hist' = Answered(hist)
  BY DEF OwnershipChange, Reconciled, ReadinessChange, InputChange, ServiceEvent, DeviceChange,
         DeviceReport, Tick, OtherWrite, vars
<1>2. hist \in History /\ b \in BrokerState /\ env \in Environment /\ env.rev \in Nat
  BY DEF IInv, TypeOK, Environment
<1>3. env.rev <= env'.rev
  <2>1. CASE OwnershipChange
    <3>1. PICK mode, fit : env' = [Transition(env, mode) EXCEPT !.fit = fit]
      BY <2>1 DEF OwnershipChange
    <3>2. [[env EXCEPT !.mode = mode, !.rev = env.rev + 1] EXCEPT !.fit = fit].rev = env.rev + 1
      BY <1>2 DEF Environment
    <3> QED BY <1>2, <3>1, <3>2 DEF Transition
  <2>2. CASE Reconciled
    <3>1. env' = [Transition(env, "owned") EXCEPT !.data = TRUE]
      BY <2>2 DEF Reconciled
    <3>2. [[env EXCEPT !.mode = "owned", !.rev = env.rev + 1] EXCEPT !.data = TRUE].rev = env.rev + 1
      BY <1>2 DEF Environment
    <3> QED BY <1>2, <3>1, <3>2 DEF Transition
  <2>3. CASE ServiceEvent
    BY <1>2, <2>3, NewRevision DEF ServiceEvent
  <2>4. CASE ReadinessChange
    <3>1. PICK data, fit : env' = [env EXCEPT !.data = data, !.fit = fit]
      BY <2>4 DEF ReadinessChange
    <3> QED BY <1>2, <3>1 DEF Environment
  <2>5. CASE InputChange
    BY <1>2, <2>5 DEF InputChange, Environment
  <2>6. CASE DeviceChange
    <3>1. PICK v : env' = [env EXCEPT !.live = v]
      BY <2>6 DEF DeviceChange
    <3> QED BY <1>2, <3>1 DEF Environment
  <2>7. CASE DeviceReport \/ Tick \/ OtherWrite \/ UNCHANGED vars
    BY <1>2, <2>7 DEF DeviceReport, Tick, OtherWrite, vars
  <2> QED BY <2>1, <2>2, <2>3, <2>4, <2>5, <2>6, <2>7
<1>4. /\ hist'.raced <=> hist.raced
      /\ hist'.settled = hist.settled /\ hist'.user = hist.user /\ (hist'.ignored <=> hist.ignored)
      /\ hist'.overtaken <=> hist.overtaken
  <2>1. CASE hist' = hist
    BY <2>1
  <2>2. CASE hist' = Answered(hist)
    BY <2>2, <1>2, Histories, HistoriesKeep
  <2> QED BY <1>1, <2>1, <2>2
<1>5. SameCommands(b', b) /\ b'.status = b.status
  <2>1. SameCommands(b, b)
    BY DEF SameCommands
  <2>2. SameCommands(Invalidate(b), b) /\ Invalidate(b).status = b.status
    BY <1>2, ConstantTypes, HelpersKeep, Helpers
  <2> QED BY <1>1, <2>1, <2>2
<1> DEFINE fb == [NoFeedback EXCEPT !.rev = env.rev]
<1>6. fb.rev = env.rev
  BY DEF NoFeedback
<1> HIDE DEF fb
<1>7. Keeps /\ Remembers /\ JudgedBy(fb) /\ NewJob(jobs')
  BY <1>1, <1>4, <1>5 DEF SameCommands, Keeps, Remembers, JudgedBy, NewJob
<1> QED BY <1>1, <1>3, <1>4, <1>5, <1>6, <1>7, EventOutcome DEF SameCommands

LEMMA OutcomeOfStep ==
  ASSUME IInv, DInv, CallSent, FeedbackPast, [Next]_vars
  PROVE  Outcome
<1>1. CASE \E t \in Task : Submit(t) \/ Drain(t)
  BY <1>1, SubmitOutcome
<1>2. CASE \E t \in Task : AcquireLock(t)
  BY <1>2, AcquireLockOutcome
<1>3. CASE \E t \in Task : CallEnd(t)
  BY <1>3, CallEndOutcome
<1>4. CASE JobDone
  <2>1. PICK w \in WriteOutcomes :
          \/ ContinueDispatch(Head(jobs), lock[1], w = "verified")
          \/ ContinueOther(Head(jobs))
    BY <1>4 DEF JobDone
  <2>2. jobs # <<>> /\ UNCHANGED <<nextId, events>>
    BY <1>4 DEF JobDone
  <2>3. (w = "verified") \in BOOLEAN
    OBVIOUS
  <2>4. CASE ContinueDispatch(Head(jobs), lock[1], w = "verified")
    BY <2>2, <2>3, <2>4, DispatchOutcome
  <2>5. CASE ContinueOther(Head(jobs))
    BY <2>2, <2>5, ContinueOtherOutcome
  <2> QED BY <2>1, <2>4, <2>5
<1>5. CASE HandleEvent
  BY <1>5, HandleEventOutcome
<1>6. CASE AckTimeout \/ Resume \/ CloseGate
  BY <1>6, TimerAndResumeOutcome
<1>7. CASE \/ OwnershipChange \/ Reconciled \/ ReadinessChange \/ InputChange
           \/ ServiceEvent \/ DeviceChange \/ DeviceReport \/ Tick \/ OtherWrite
           \/ UNCHANGED vars
  BY <1>7, EnvironmentOutcome
<1> QED BY <1>1, <1>2, <1>3, <1>4, <1>5, <1>6, <1>7 DEF Next

-----------------------------------------------------------------------------
(* What follows for the commands: whatever is sent was called, users' revisions are  *)
(* past or their transition is queued in front of every dispatch, and an unsent      *)
(* command keeps its distance.                                                       *)

CallsKnown ==
  /\ b.pending.sent => b.pending \in Called
  /\ b.completed.sent => b.completed \in Called
  /\ \A d \in Range(b.uncertain) : d.sent => d \in Called

UserInv ==
  /\ \A t \in Task : Writing(t) => ~b.pending.sent
  /\ \A r \in hist.user : r <= env.rev
  /\ FeedbackPast
  /\ ~hist.ignored /\ env.rev \in hist.user =>
       \E k \in DOMAIN jobs :
         Override(jobs[k]) /\ \A l \in 1 .. k : jobs[l].then \notin {"persist", "mark"}

SpacingInv ==
  Clean /\ Unsent(b.pending) => \A t \in Task : Writing(t) => Spaced(t)

LEMMA RememberRange ==
  ASSUME NEW u \in Seq(Cmd), Len(u) <= MaxAttempts, NEW c \in Cmd
  PROVE  Range(Remember(u, c)) \subseteq Range(u) \union {c}
<1>1. ASSUME NEW q \in Seq(Cmd) PROVE Range(Append(q, c)) \subseteq Range(q) \union {c}
  BY DEF Range
<1>2. u # <<>> => Tail(u) \in Seq(Cmd) /\ Range(Tail(u)) \subseteq Range(u)
  BY DEF Range
<1>3. CASE Remember(u, c) = u
  BY <1>3
<1>4. CASE Remember(u, c) = Append(u, c)
  BY <1>1, <1>4
<1>5. CASE Remember(u, c) = Append(Tail(u), c) /\ ~(Len(u) < MaxAttempts)
  <2>1. u # <<>>
    BY <1>5, Bounds
  <2> QED BY <1>1, <1>2, <1>5, <2>1
<1> QED BY <1>3, <1>4, <1>5 DEF Remember

LEMMA CalledGrows ==
  ASSUME IInv, Effect
  PROVE  Called \subseteq Called' /\ (Sends => b'.pending \in Called')
<1>1. CASE Stands \/ Opens
  <2>1. calls' = calls
    BY <1>1 DEF Stands, Opens
  <2>2. Called' = Called
    BY <2>1 DEF Called
  <2>3. Sends => FALSE
    <3>1. Len(calls) \in Nat
      BY DEF IInv, TypeOK
    <3> QED BY <2>1, <3>1 DEF Sends
  <2> QED BY <2>2, <2>3
<1>2. CASE Sends
  <2>1. /\ calls \in Seq([cmd: Cmd, at: Nat]) /\ DOMAIN calls = 1 .. Len(calls) /\ Len(calls) \in Nat
    BY DEF IInv, TypeOK
  <2>2. /\ calls'[Len(calls) + 1].cmd = b'.pending /\ Len(calls') = Len(calls) + 1
        /\ \A k \in DOMAIN calls : calls'[k] = calls[k]
    BY <1>2 DEF Sends
  <2>3. DOMAIN calls' = 1 .. Len(calls) + 1
    <3>1. CASE calls' = calls
      BY <3>1, <2>1, <2>2
    <3> QED BY <2>2, <1>2 DEF Sends
  <2> QED BY <2>1, <2>2, <2>3 DEF Called
<1> QED BY <1>1, <1>2 DEF Effect

LEMMA CallsKnownStep ==
  ASSUME IInv, CallsKnown, Effect
  PROVE  CallsKnown'
<1>1. /\ ~NoCmd.sent /\ b \in BrokerState /\ b.pending \in Cmd /\ b.uncertain \in Seq(Cmd)
      /\ Len(b.uncertain) <= MaxAttempts
  BY Bounds DEF IInv, TypeOK, BrokerState
<1>2. Called \subseteq Called' /\ (Sends => b'.pending \in Called')
  BY CalledGrows
<1>3. Range(Remember(b.uncertain, b.pending)) \subseteq Range(b.uncertain) \union {b.pending}
  BY <1>1, RememberRange
<1>4. \A d \in Range(b.uncertain) \union {b.pending, b.completed, NoCmd} : d.sent => d \in Called'
  BY <1>1, <1>2 DEF CallsKnown
<1>5. Range(<<>>) = {}
  BY DEF Range
<1>6. /\ b'.pending \in {b.pending, NoCmd} \/ ~b'.pending.sent \/ b'.pending \in Called'
      /\ b'.completed \in {b.completed, b.pending, NoCmd}
      /\ Range(b'.uncertain) \subseteq Range(b.uncertain) \union {b.pending}
  <2>1. CASE Keeps \/ Drops
    BY <2>1 DEF Keeps, Drops
  <2>2. CASE Loses \/ Doubts
    BY <1>3, <2>2 DEF Loses, Doubts
  <2>3. CASE Discards
    BY <1>5, <2>3 DEF Discards
  <2>4. CASE Opens \/ Sends
    BY <1>2, <2>4 DEF Opens, Sends
  <2> QED BY <2>1, <2>2, <2>3, <2>4 DEF Effect, Stands
<1> QED BY <1>4, <1>6 DEF CallsKnown

\* A journal write that a dispatch awaits belongs to a task that is writing.
LEMMA WritersWrite ==
  ASSUME IInv, NEW k \in DOMAIN jobs, jobs[k].then \in {"persist", "mark"}
  PROVE  \E t \in Task : Writing(t)
<1>1. k \in AwaitedJobs
  BY DEF AwaitedJobs, TaskContinuations
<1>2. lock # <<>> /\ task[lock[1]].pc = Stage[jobs[k].then]
  BY <1>1 DEF IInv, JobInv
<1>3. lock[1] \in Task
  BY <1>2 DEF IInv, TypeOK
<1>4. Stage[jobs[k].then] = jobs[k].then
  BY DEF Stage, TaskContinuations
<1> QED BY <1>2, <1>3, <1>4 DEF Writing

LEMMA WritingStep ==
  ASSUME \A t \in Task : Writing(t) => ~b.pending.sent, Effect
  PROVE  \A t \in Task : Writing(t)' => ~b'.pending.sent
<1>1. ~NoCmd.sent
  BY Bounds
<1>2. CASE Stands
  <2> SUFFICES ASSUME NEW t \in Task, Writing(t)' PROVE ~b'.pending.sent
    OBVIOUS
  <2>1. Writing(t)
    BY <1>2 DEF Stands, Carries
  <2>2. ~b.pending.sent
    BY <2>1
  <2> QED BY <1>1, <1>2, <2>2 DEF Stands, Keeps, Drops, Loses, Doubts, Discards
<1>3. CASE Opens \/ Sends
  BY <1>3 DEF Opens, Sends
<1> QED BY <1>2, <1>3 DEF Effect

\* How the queue moves.
LEMMA QueueMoves ==
  ASSUME IInv, Judges
  PROVE  \/ NewJob(jobs') /\ \A k \in DOMAIN jobs : k \in DOMAIN jobs' /\ jobs'[k] = jobs[k]
         \/ /\ \A k \in DOMAIN jobs : k # 1 => k - 1 \in DOMAIN jobs' /\ jobs'[k - 1] = jobs[k]
            /\ jobs # <<>> /\ ~NewJob(jobs')
<1>1. jobs \in Seq(Job) /\ DOMAIN jobs = 1 .. Len(jobs) /\ Len(jobs) \in Nat
  BY DEF IInv, TypeOK
<1>2. CASE NewJob(jobs')
  BY <1>1, <1>2 DEF NewJob
<1>3. CASE /\ jobs # <<>> /\ ~NewJob(jobs')
           /\ jobs' = Tail(jobs) \/ \E j \in Job : jobs' = Append(Tail(jobs), j)
  <2>1. Tail(jobs) \in Seq(Job) /\ Len(Tail(jobs)) = Len(jobs) - 1 /\ Len(jobs) > 0
    BY <1>1, <1>3
  <2>2. \A k \in DOMAIN jobs : k # 1 => k - 1 \in DOMAIN Tail(jobs) /\ Tail(jobs)[k - 1] = jobs[k]
    BY <1>1, <1>3
  <2>3. ASSUME NEW j \in Job
        PROVE  \A k \in DOMAIN Tail(jobs) :
                 k \in DOMAIN Append(Tail(jobs), j) /\ Append(Tail(jobs), j)[k] = Tail(jobs)[k]
    BY <2>1
  <2> QED BY <1>3, <2>2, <2>3
<1> QED BY <1>2, <1>3 DEF Judges

LEMMA FeedbackPastStep ==
  ASSUME IInv, IInv', FeedbackPast, Judges
  PROVE  FeedbackPast'
<1>1. /\ jobs \in Seq(Job) /\ env.rev \in Nat /\ env'.rev \in Nat /\ env.rev <= env'.rev
      /\ \A j \in Job : j.fb.rev \in Nat
  <2>1. \A j \in Job : j.fb.rev \in Nat
    BY DEF Job, Feedback
  <2> QED BY <2>1 DEF IInv, TypeOK, Environment, Judges
<1>2. ASSUME NEW q \in Seq(Job), NEW j \in Job, j.fb.rev <= env.rev,
             \A k \in DOMAIN q : q[k].fb.rev <= env.rev
      PROVE  \A k \in DOMAIN Append(q, j) : Append(q, j)[k].fb.rev <= env.rev
  BY <1>2, AppendElements
<1>3. jobs # <<>> => Tail(jobs) \in Seq(Job) /\ \A k \in DOMAIN Tail(jobs) : Tail(jobs)[k].fb.rev <= env.rev
  BY <1>1 DEF FeedbackPast
<1>4. \A k \in DOMAIN jobs' : jobs'[k].fb.rev <= env.rev
  <2>1. CASE NewJob(jobs')
    BY <1>1, <1>2, <2>1 DEF NewJob, FeedbackPast
  <2>2. CASE jobs # <<>> /\ jobs' = Tail(jobs)
    BY <1>3, <2>2
  <2>3. CASE jobs # <<>> /\ \E j \in Job : jobs' = Append(Tail(jobs), j) /\ j.fb.rev <= env.rev
    BY <1>2, <1>3, <2>3
  <2> QED BY <2>1, <2>2, <2>3 DEF Judges
<1>5. \A k \in DOMAIN jobs' : jobs'[k].fb.rev \in Nat
  <2>1. jobs' \in Seq(Job)
    BY DEF IInv, TypeOK
  <2> QED BY <1>1, <2>1
<1> QED BY <1>1, <1>4, <1>5 DEF FeedbackPast

LEMMA UserInvStep ==
  ASSUME IInv, IInv', UserInv, Outcome
  PROVE  UserInv'
<1>1. /\ env.rev \in Nat /\ env'.rev \in Nat /\ env.rev <= env'.rev /\ hist.user \subseteq Nat
      /\ hist'.user \subseteq Nat /\ Judges /\ Effect
  BY DEF IInv, TypeOK, Environment, History, Outcome, Judges
<1>2. \A t \in Task : Writing(t)' => ~b'.pending.sent
  BY <1>1, WritingStep DEF UserInv
<1>3. \A r \in hist'.user : r <= env.rev /\ r <= env'.rev
  BY <1>1 DEF Judges, UserInv
<1>4. FeedbackPast'
  BY <1>1, FeedbackPastStep DEF UserInv
<1>5. ASSUME ~hist'.ignored, env'.rev \in hist'.user
      PROVE  \E k \in DOMAIN jobs' :
               Override(jobs'[k]) /\ \A l \in 1 .. k : jobs'[l].then \notin {"persist", "mark"}
  <2>1. env'.rev = env.rev
    BY <1>1, <1>3, <1>5
  <2>2. /\ jobs \in Seq(Job) /\ jobs' \in Seq(Job) /\ DOMAIN jobs = 1 .. Len(jobs)
        /\ DOMAIN jobs' = 1 .. Len(jobs') /\ Len(jobs) \in Nat
    BY DEF IInv, TypeOK
  <2>3. CASE hist'.user = hist.user /\ (NewJob(jobs') \/ ~Override(Head(jobs)))
    <3>1. PICK k \in DOMAIN jobs :
            Override(jobs[k]) /\ \A l \in 1 .. k : jobs[l].then \notin {"persist", "mark"}
      BY <1>1, <1>5, <2>1, <2>3 DEF UserInv, Judges
    <3>2. CASE \A l \in DOMAIN jobs : l \in DOMAIN jobs' /\ jobs'[l] = jobs[l]
      BY <2>2, <3>1, <3>2
    <3>3. CASE /\ \A l \in DOMAIN jobs : l # 1 => l - 1 \in DOMAIN jobs' /\ jobs'[l - 1] = jobs[l]
               /\ jobs # <<>> /\ ~NewJob(jobs')
      <4>1. k # 1
        BY <2>2, <2>3, <3>1, <3>3
      <4>2. k - 1 \in DOMAIN jobs' /\ Override(jobs'[k - 1])
        BY <3>1, <3>3, <4>1
      <4>3. \A l \in 1 .. k - 1 : jobs'[l].then \notin {"persist", "mark"}
        <5> SUFFICES ASSUME NEW l \in 1 .. k - 1 PROVE jobs'[l].then \notin {"persist", "mark"}
          OBVIOUS
        <5>1. l + 1 \in DOMAIN jobs /\ l + 1 # 1 /\ l + 1 \in 1 .. k /\ (l + 1) - 1 = l
          BY <2>2
        <5> QED BY <3>1, <3>3, <5>1
      <4> QED BY <4>2, <4>3
    <3> QED BY <1>1, <3>2, <3>3, QueueMoves
  <2>4. CASE b.pending.sent /\ \E j \in Job : jobs' = Append(jobs, j) /\ Override(j)
    <3>1. PICK j \in Job : jobs' = Append(jobs, j) /\ Override(j)
      BY <2>4
    <3>2. \A l \in DOMAIN jobs : jobs[l].then \notin {"persist", "mark"}
      BY <2>4, WritersWrite DEF UserInv
    <3>3. j.then \notin {"persist", "mark"}
      BY <3>1 DEF Override
    <3>4. Len(jobs) + 1 \in DOMAIN jobs' /\ jobs'[Len(jobs) + 1] = j
      BY <2>2, <3>1
    <3>5. \A l \in 1 .. Len(jobs) + 1 : jobs'[l].then \notin {"persist", "mark"}
      <4> SUFFICES ASSUME NEW l \in 1 .. Len(jobs) + 1
                   PROVE  jobs'[l].then \notin {"persist", "mark"}
        OBVIOUS
      <4>1. l \in DOMAIN jobs => jobs'[l] = jobs[l]
        BY <2>2, <3>1
      <4>2. l \notin DOMAIN jobs => l = Len(jobs) + 1
        BY <2>2
      <4> QED BY <3>2, <3>3, <3>4, <4>1, <4>2
    <3> QED BY <3>1, <3>4, <3>5
  <2> QED BY <1>1, <1>5, <2>1, <2>3, <2>4 DEF Judges
<1> QED BY <1>2, <1>3, <1>4, <1>5 DEF UserInv

LEMMA SpacingStep ==
  ASSUME IInv, SpacingInv, Effect
  PROVE  SpacingInv'
<1> SUFFICES ASSUME Clean', Unsent(b'.pending), NEW t \in Task, Writing(t)' PROVE Spaced(t)'
  BY DEF SpacingInv, Unsent
<1>1. Clean
  BY DEF Effect, Clean
<1>2. CASE Stands
  <2>1. Keeps
    BY <1>2 DEF Stands, Drops, Loses, Doubts, Discards, Unsent
  <2>2. Unsent(b.pending) /\ Writing(t) /\ task'[t].now = task[t].now /\ b'.lastDispatch = b.lastDispatch
    BY <1>2, <2>1 DEF Stands, Carries, Keeps, Unsent
  <2>3. Spaced(t)
    BY <1>1, <2>2 DEF SpacingInv
  <2>4. b'.failed /\ ~hist'.overtaken => b.failed /\ ~hist.overtaken
    BY <2>1, <2>2 DEF Keeps, Effect, Unsent
  <2> QED BY <2>2, <2>3, <2>4 DEF Spaced
<1>3. CASE Opens
  BY <1>3 DEF Opens, Clean
<1>4. CASE Sends
  BY <1>4 DEF Sends
<1> QED BY <1>2, <1>3, <1>4 DEF Effect

-----------------------------------------------------------------------------
(* The order of the commands.  Their ids grow in the order of the calls and of the     *)
(* uncertain commands, so that what leaves the uncertain ones is older than all that   *)
(* stay, and the pending command is the newest.                                        *)

Increasing(u) == \A i, k \in DOMAIN u : i < k => u[i].id < u[k].id

\* The call c needs no account any more, is kept, or all that are kept are newer.
Accounted(c) ==
  \/ c.id \in hist.settled \/ c = b.pending \/ c \in Range(b.uncertain)
  \/ Len(b.uncertain) = MaxAttempts /\ \A d \in Range(b.uncertain) : c.id < d.id

CallsOrdered ==
  /\ \A i, k \in DOMAIN calls : i < k => calls[i].cmd.id < calls[k].cmd.id
  /\ \A k \in DOMAIN calls : calls[k].cmd.sent /\ calls[k].cmd.id < nextId
PendingNewest ==
  b.pending # NoCmd =>
    /\ b.pending.id = nextId - 1 /\ b.pending.id > 0
    /\ \A d \in Range(b.uncertain) : d.id < b.pending.id \/ (d = b.pending /\ b.pending.sent)
    /\ ~b.pending.sent => \A k \in DOMAIN calls : calls[k].cmd.id < b.pending.id
UncertainOrdered ==
  Increasing(b.uncertain) /\ \A d \in Range(b.uncertain) : d.id < nextId

OrderInv ==
  Clean =>
    /\ CallsOrdered /\ PendingNewest /\ UncertainOrdered
    /\ \A k \in DOMAIN calls : Accounted(calls[k].cmd)

\* An uncertain command is added behind the others; only the oldest leaves, when the
\* place is needed.
LEMMA RememberOrder ==
  ASSUME NEW u \in Seq(Cmd), Len(u) <= MaxAttempts, NEW c \in Cmd, Increasing(u),
         \A d \in Range(u) : d.id < c.id \/ d = c
  PROVE  /\ Increasing(Remember(u, c)) /\ c \in Range(Remember(u, c))
         /\ Remember(u, c) \in Seq(Cmd)
         /\ \A d \in Range(u) :
              \/ d \in Range(Remember(u, c))
              \/ /\ Len(Remember(u, c)) = MaxAttempts
                 /\ \A x \in Range(Remember(u, c)) : d.id < x.id
         /\ \A i \in Int : Len(u) = MaxAttempts /\ (\A x \in Range(u) : i < x.id)
              => /\ Len(Remember(u, c)) = MaxAttempts
                 /\ \A x \in Range(Remember(u, c)) : i < x.id
<1>1. /\ MaxAttempts \in Nat /\ MaxAttempts > 0 /\ Len(u) \in Nat /\ DOMAIN u = 1 .. Len(u)
      /\ c.id \in Nat /\ \A k \in DOMAIN u : u[k] \in Cmd /\ u[k].id \in Nat
  <2>1. \A x \in Cmd : x.id \in Nat
    BY DEF Cmd
  <2>2. \A k \in DOMAIN u : u[k] \in Cmd
    BY Elements
  <2> QED BY <2>1, <2>2, Bounds
<1>4. MaxAttempts \in Nat /\ MaxAttempts > 0 /\ Len(u) \in Nat /\ Len(u) <= MaxAttempts
  BY <1>1
<1>2. CASE c \in Range(u)
  <2>1. Remember(u, c) = u
    BY <1>2 DEF Remember
  <2> QED BY <1>2, <2>1
<1>3. CASE c \notin Range(u)
  <2>1. \A k \in DOMAIN u : u[k].id < c.id
    BY <1>3 DEF Range
  \* Appending to a suffix of u.
  <2>2. ASSUME NEW q \in Seq(Cmd), NEW m \in Nat, Len(q) = Len(u) - m,
               \A k \in DOMAIN q : k + m \in DOMAIN u /\ q[k] = u[k + m]
        PROVE  /\ Increasing(Append(q, c)) /\ c \in Range(Append(q, c))
               /\ Append(q, c) \in Seq(Cmd) /\ Len(Append(q, c)) = Len(q) + 1
               /\ \A k \in DOMAIN u : k > m => u[k] \in Range(Append(q, c))
               /\ \A x \in Range(Append(q, c)) : x = c \/ \E k \in DOMAIN u : k > m /\ x = u[k]
    <3> DEFINE a == Append(q, c)
    <3>1. /\ a \in Seq(Cmd) /\ Len(a) = Len(q) + 1 /\ DOMAIN a = 1 .. Len(q) + 1
          /\ a[Len(q) + 1] = c /\ \A k \in 1 .. Len(q) : a[k] = q[k]
          /\ DOMAIN q = 1 .. Len(q) /\ Len(q) \in Nat
      BY <2>2
    <3> HIDE DEF a
    <3>2. \A k \in 1 .. Len(q) : k + m \in DOMAIN u /\ a[k] = u[k + m]
      BY <2>2, <3>1
    <3>3. Increasing(a)
      <4> SUFFICES ASSUME NEW i \in DOMAIN a, NEW k \in DOMAIN a, i < k PROVE a[i].id < a[k].id
        BY DEF Increasing
      <4>1. i \in 1 .. Len(q) /\ a[i] = u[i + m] /\ i + m \in DOMAIN u
        BY <3>1, <3>2
      <4>2. CASE k = Len(q) + 1
        BY <2>1, <3>1, <4>1, <4>2
      <4>3. CASE k \in 1 .. Len(q)
        <5>1. a[k] = u[k + m] /\ k + m \in DOMAIN u /\ i + m < k + m
          BY <3>1, <3>2, <4>1, <4>3
        <5> QED BY <4>1, <5>1 DEF Increasing
      <4> QED BY <3>1, <4>2, <4>3
    <3>4. c \in Range(a)
      BY <3>1 DEF Range
    <3>5. ASSUME NEW k \in DOMAIN u, k > m PROVE u[k] \in Range(a)
      <4>1. k - m \in 1 .. Len(q) /\ (k - m) + m = k
        BY <1>1, <2>2, <3>1, <3>5
      <4>2. a[k - m] = u[k] /\ k - m \in DOMAIN a
        BY <3>1, <3>2, <4>1
      <4> QED BY <4>2 DEF Range
    <3>6. ASSUME NEW x \in Range(a) PROVE x = c \/ \E k \in DOMAIN u : k > m /\ x = u[k]
      <4>1. PICK k \in DOMAIN a : x = a[k]
        BY DEF Range
      <4>2. CASE k \in 1 .. Len(q)
        <5>1. x = u[k + m] /\ k + m \in DOMAIN u /\ k + m > m
          BY <3>1, <3>2, <4>1, <4>2
        <5> QED BY <5>1
      <4> QED BY <3>1, <4>1, <4>2
    <3> QED BY <3>1, <3>3, <3>4, <3>5, <3>6 DEF a
  <2>3. CASE Len(u) < MaxAttempts
    <3>1. Remember(u, c) = Append(u, c)
      BY <1>3, <2>3 DEF Remember
    <3>2. /\ Increasing(Append(u, c)) /\ c \in Range(Append(u, c)) /\ Append(u, c) \in Seq(Cmd)
          /\ \A k \in DOMAIN u : k > 0 => u[k] \in Range(Append(u, c))
      <4>1. Len(u) = Len(u) - 0 /\ \A k \in DOMAIN u : k + 0 \in DOMAIN u /\ u[k] = u[k + 0]
        BY <1>1
      <4> QED BY <2>2, <4>1
    <3>3. \A d \in Range(u) : d \in Range(Append(u, c))
      BY <1>1, <3>2 DEF Range
    <3>4. Len(u) # MaxAttempts
      BY <1>4, <2>3
    <3> QED BY <3>1, <3>2, <3>3, <3>4
  <2>4. CASE ~(Len(u) < MaxAttempts)
    <3> DEFINE r == Append(Tail(u), c)
    <3>1. Remember(u, c) = r
      BY <1>3, <2>4 DEF Remember
    <3>2. Len(u) = MaxAttempts /\ 1 \in DOMAIN u
      <4>1. Len(u) = MaxAttempts
        BY <1>4, <2>4
      <4>2. 1 \in 1 .. Len(u)
        BY <1>4, <4>1
      <4> QED BY <1>1, <4>1, <4>2
    <3>3. /\ Increasing(r) /\ c \in Range(r) /\ r \in Seq(Cmd) /\ Len(r) = Len(u)
          /\ \A k \in DOMAIN u : k > 1 => u[k] \in Range(r)
          /\ \A x \in Range(r) : x = c \/ \E k \in DOMAIN u : k > 1 /\ x = u[k]
      <4>1. u # <<>>
        BY <1>1, <3>2
      <4>2. /\ Tail(u) \in Seq(Cmd) /\ Len(Tail(u)) = Len(u) - 1
            /\ \A k \in DOMAIN Tail(u) : k + 1 \in DOMAIN u /\ Tail(u)[k] = u[k + 1]
        BY <1>1, <4>1
      <4>3. Len(Append(Tail(u), c)) = Len(Tail(u)) + 1
        BY <4>2
      <4> HIDE DEF r
      <4>4. /\ Increasing(r) /\ c \in Range(r) /\ r \in Seq(Cmd)
            /\ \A k \in DOMAIN u : k > 1 => u[k] \in Range(r)
            /\ \A x \in Range(r) : x = c \/ \E k \in DOMAIN u : k > 1 /\ x = u[k]
        BY <2>2, <4>2 DEF r
      <4> QED BY <1>1, <4>2, <4>3, <4>4 DEF r
    <3> HIDE DEF r
    <3>4. \A x \in Range(r) : u[1].id < x.id
      <4> SUFFICES ASSUME NEW x \in Range(r) PROVE u[1].id < x.id
        OBVIOUS
      <4>1. CASE x = c
        BY <2>1, <3>2, <4>1
      <4>2. CASE \E k \in DOMAIN u : k > 1 /\ x = u[k]
        BY <3>2, <4>2 DEF Increasing
      <4> QED BY <3>3, <4>1, <4>2
    <3>5. ASSUME NEW d \in Range(u)
          PROVE  d \in Range(r) \/ (Len(r) = MaxAttempts /\ \A x \in Range(r) : d.id < x.id)
      <4>1. PICK k \in DOMAIN u : d = u[k]
        BY DEF Range
      <4>2. CASE k = 1
        BY <3>2, <3>3, <3>4, <4>1, <4>2
      <4>3. CASE k > 1
        BY <3>3, <4>1, <4>3
      <4> QED BY <1>1, <4>2, <4>3
    <3>6. ASSUME NEW i \in Int, \A x \in Range(u) : i < x.id
          PROVE  Len(r) = MaxAttempts /\ \A x \in Range(r) : i < x.id
      <4>1. i < u[1].id
        BY <3>2, <3>6 DEF Range
      <4>2. \A x \in Range(r) : x.id \in Nat
        BY <1>1, <3>3
      <4> QED BY <1>1, <3>2, <3>3, <3>4, <4>1, <4>2
    <3> QED BY <3>1, <3>3, <3>5, <3>6
  <2> QED BY <2>3, <2>4
<1> QED BY <1>2, <1>3

LEMMA OrderStep ==
  ASSUME IInv, IInv', OrderInv, Effect
  PROVE  OrderInv'
<1> SUFFICES ASSUME Clean'
             PROVE  /\ CallsOrdered' /\ PendingNewest' /\ UncertainOrdered'
                    /\ \A k \in DOMAIN calls' : Accounted(calls[k].cmd)'
  BY DEF OrderInv
<1>1. Clean /\ hist.settled \subseteq hist'.settled
  BY DEF Effect, Clean
<1>2. /\ CallsOrdered /\ PendingNewest /\ UncertainOrdered
      /\ \A k \in DOMAIN calls : Accounted(calls[k].cmd)
  BY <1>1 DEF OrderInv
<1>3. /\ ~NoCmd.sent /\ b.pending \in Cmd /\ b.uncertain \in Seq(Cmd)
      /\ Len(b.uncertain) <= MaxAttempts /\ nextId \in Nat /\ nextId > 0
      /\ \A c \in Cmd : c.id \in Nat
      /\ Len(calls) \in Nat /\ DOMAIN calls = 1 .. Len(calls)
      /\ \A k \in DOMAIN calls : calls[k].cmd \in Cmd
  <2>1. \A c \in Cmd : c.id \in Nat
    BY DEF Cmd
  <2>2. \A k \in DOMAIN calls : calls[k].cmd \in Cmd
    <3>1. calls \in Seq([cmd: Cmd, at: Nat])
      BY DEF IInv, TypeOK
    <3>2. \A k \in DOMAIN calls : calls[k] \in [cmd: Cmd, at: Nat]
      BY <3>1, Elements, Zenon
    <3> QED BY <3>2
  <2>3. b.pending \in Cmd /\ b.uncertain \in Seq(Cmd)
    BY DEF IInv, TypeOK, BrokerState
  <2>4. /\ Len(b.uncertain) <= MaxAttempts /\ nextId \in Nat /\ nextId > 0
        /\ calls \in Seq([cmd: Cmd, at: Nat])
    BY DEF IInv, TypeOK
  <2>5. Len(calls) \in Nat /\ DOMAIN calls = 1 .. Len(calls)
    BY <2>4
  <2>6. ~NoCmd.sent
    BY Bounds
  <2> QED BY <2>1, <2>2, <2>3, <2>4, <2>5, <2>6, Zenon
<1>4. \A d \in Range(b.uncertain) : d \in Cmd
  BY <1>3 DEF Range
<1>5. ASSUME NEW k \in DOMAIN calls, calls'[k] = calls[k],
             b'.uncertain = b.uncertain,
             calls[k].cmd = b.pending =>
               calls[k].cmd.id \in hist'.settled \/ calls[k].cmd = b'.pending
      PROVE  Accounted(calls[k].cmd)'
  BY <1>1, <1>2, <1>5 DEF Accounted
\* The pending command becomes uncertain.
<1>6. CASE calls' = calls /\ nextId' = nextId /\ (Loses \/ Doubts)
  <2>1. b.pending # NoCmd
    BY <1>3, <1>6 DEF Loses, Doubts
  <2>2. \A d \in Range(b.uncertain) : d.id < b.pending.id \/ d = b.pending
    BY <1>2, <2>1 DEF PendingNewest
  <2>3. b'.uncertain = Remember(b.uncertain, b.pending) /\ Increasing(b.uncertain)
    BY <1>2, <1>6 DEF Loses, Doubts, UncertainOrdered
  <2>4. /\ Increasing(b'.uncertain) /\ b.pending \in Range(b'.uncertain)
        /\ \A d \in Range(b.uncertain) :
             \/ d \in Range(b'.uncertain)
             \/ Len(b'.uncertain) = MaxAttempts /\ \A x \in Range(b'.uncertain) : d.id < x.id
        /\ \A i \in Int : Len(b.uncertain) = MaxAttempts /\ (\A x \in Range(b.uncertain) : i < x.id)
             => Len(b'.uncertain) = MaxAttempts /\ \A x \in Range(b'.uncertain) : i < x.id
    BY <1>3, <2>2, <2>3, RememberOrder
  <2>5. Range(b'.uncertain) \subseteq Range(b.uncertain) \union {b.pending}
    BY <1>3, <2>3, RememberRange
  <2>6. CallsOrdered'
    BY <1>2, <1>6 DEF CallsOrdered
  <2>7. \A d \in Range(b'.uncertain) : d.id < nextId
    BY <1>2, <1>3, <2>1, <2>5 DEF UncertainOrdered, PendingNewest
  <2>8. UncertainOrdered'
    BY <1>6, <2>4, <2>7 DEF UncertainOrdered, Increasing
  <2>9. PendingNewest'
    <3>1. CASE Loses
      BY <3>1 DEF Loses, PendingNewest
    <3>2. CASE Doubts
      <4>1. /\ b'.pending = b.pending /\ b.pending.sent
            /\ \A d \in Range(b'.uncertain) : d.id < b.pending.id \/ d = b.pending
        BY <2>2, <2>5, <3>2 DEF Doubts
      <4> QED BY <1>2, <1>6, <2>1, <4>1 DEF PendingNewest
    <3> QED BY <1>6, <3>1, <3>2
  <2>10. ASSUME NEW k \in DOMAIN calls PROVE Accounted(calls[k].cmd)'
    <3> DEFINE c == calls[k].cmd
    <3>1. c \in Cmd /\ c.id \in Int
      BY <1>3
    <3>2. Accounted(c)
      BY <1>2
    <3> HIDE DEF c
    <3>3. \/ c.id \in hist'.settled \/ c \in Range(b'.uncertain)
          \/ Len(b'.uncertain) = MaxAttempts /\ \A x \in Range(b'.uncertain) : c.id < x.id
      BY <1>1, <2>4, <3>1, <3>2 DEF Accounted
    <3>4. calls'[k].cmd = c
      BY <1>6 DEF c
    <3> QED BY <3>3, <3>4 DEF Accounted
  <2> QED BY <1>6, <2>6, <2>8, <2>9, <2>10
<1>7. CASE Stands /\ ~Loses /\ ~Doubts
  <2>1. calls' = calls /\ nextId' = nextId
    BY <1>7 DEF Stands
  <2>2. CallsOrdered'
    BY <1>2, <2>1 DEF CallsOrdered
  <2>3. CASE Keeps
    <3>1. b'.pending = b.pending /\ b'.uncertain = b.uncertain
      BY <2>3 DEF Keeps
    <3>2. PendingNewest' /\ UncertainOrdered'
      BY <1>2, <2>1, <3>1 DEF PendingNewest, UncertainOrdered, Increasing
    <3> QED BY <1>5, <2>1, <2>2, <3>1, <3>2
  <2>4. CASE Drops
    <3>1. b'.pending = NoCmd /\ b'.uncertain = b.uncertain
      BY <2>4 DEF Drops
    <3>2. PendingNewest' /\ UncertainOrdered'
      BY <1>2, <2>1, <3>1 DEF PendingNewest, UncertainOrdered, Increasing
    <3>3. ASSUME NEW k \in DOMAIN calls, calls[k].cmd = b.pending
          PROVE  calls[k].cmd.id \in hist'.settled
      <4>1. b.pending.sent
        BY <1>2, <3>3 DEF CallsOrdered
      <4>2. b.pending # NoCmd
        BY <1>3, <4>1
      <4>3. b.pending.id > 0
        BY <1>2, <4>2 DEF PendingNewest
      <4>4. b.pending.id \in hist'.settled \union {0}
        BY <2>4, <4>1 DEF Drops, Clean
      <4> QED BY <3>3, <4>3, <4>4
    <3> QED BY <1>5, <2>1, <2>2, <3>1, <3>2, <3>3
  <2>5. CASE Discards
    <3>1. b'.pending = NoCmd /\ b'.uncertain = <<>> /\ Range(<<>>) = {} /\ DOMAIN <<>> = {}
      BY <2>5 DEF Discards, Range
    <3>2. PendingNewest' /\ UncertainOrdered'
      BY <3>1 DEF PendingNewest, UncertainOrdered, Increasing
    <3>3. \A k \in DOMAIN calls : calls[k].cmd.id \in hist'.settled
      BY <2>5 DEF Discards, Called
    <3> QED BY <2>1, <2>2, <3>2, <3>3 DEF Accounted
  <2> QED BY <1>7, <2>3, <2>4, <2>5 DEF Stands
<1>8. CASE Opens
  <2>1. /\ calls' = calls /\ nextId' = nextId + 1 /\ b'.uncertain = b.uncertain
        /\ b'.pending.id = nextId /\ b.pending = NoCmd
    BY <1>8 DEF Opens, Clean
  <2>2. \A k \in DOMAIN calls : calls[k].cmd.id < nextId /\ calls[k].cmd # b.pending
    BY <1>2, <1>3, <2>1 DEF CallsOrdered
  <2>3. \A d \in Range(b.uncertain) : d.id < nextId
    BY <1>2 DEF UncertainOrdered
  <2>4. /\ \A k \in DOMAIN calls : calls[k].cmd.id < nextId + 1
        /\ \A d \in Range(b.uncertain) : d.id < nextId + 1
        /\ nextId = (nextId + 1) - 1
    BY <1>3, <1>4, <2>2, <2>3
  <2>5. CallsOrdered'
    BY <1>2, <2>1, <2>4 DEF CallsOrdered
  <2>6. PendingNewest'
    BY <1>3, <2>1, <2>2, <2>3, <2>4 DEF PendingNewest
  <2>7. UncertainOrdered'
    BY <1>2, <2>1, <2>4 DEF UncertainOrdered, Increasing
  <2> QED BY <1>5, <2>1, <2>2, <2>5, <2>6, <2>7
<1>9. CASE Sends
  <2>1. /\ nextId' = nextId /\ b'.uncertain = b.uncertain
        /\ b'.pending.sent /\ b'.pending # NoCmd /\ b'.pending.id = b.pending.id
        /\ Len(calls') = Len(calls) + 1 /\ calls'[Len(calls) + 1].cmd = b'.pending
        /\ \A k \in DOMAIN calls : calls'[k] = calls[k]
        /\ b.pending # NoCmd /\ ~b.pending.sent
    BY <1>9 DEF Sends, Clean, Unsent
  <2>2. /\ b.pending.id = nextId - 1 /\ b.pending.id > 0
        /\ \A d \in Range(b.uncertain) : d.id < b.pending.id
        /\ \A k \in DOMAIN calls : calls[k].cmd.id < b.pending.id
    BY <1>2, <2>1 DEF PendingNewest
  <2>3. DOMAIN calls' = 1 .. Len(calls) + 1
    BY <2>1 DEF IInv, TypeOK
  <2>4. CallsOrdered'
    <3>1. \A i, k \in DOMAIN calls' : i < k => i \in DOMAIN calls /\ (k \in DOMAIN calls \/ k = Len(calls) + 1)
      BY <1>3, <2>3
    <3>2. \A i, k \in DOMAIN calls' : i < k => calls'[i].cmd.id < calls'[k].cmd.id
      BY <1>2, <2>1, <2>2, <3>1 DEF CallsOrdered
    <3>3. \A k \in DOMAIN calls' : k \in DOMAIN calls \/ k = Len(calls) + 1
      BY <1>3, <2>3
    <3>4. nextId - 1 < nextId
      BY <1>3
    <3>5. \A k \in DOMAIN calls' : calls'[k].cmd.sent /\ calls'[k].cmd.id < nextId
      BY <1>2, <2>1, <2>2, <3>3, <3>4 DEF CallsOrdered
    <3> QED BY <2>1, <3>2, <3>5 DEF CallsOrdered
  <2>5. PendingNewest' /\ UncertainOrdered'
    BY <1>2, <2>1, <2>2 DEF PendingNewest, UncertainOrdered, Increasing
  <2>6. ASSUME NEW k \in DOMAIN calls' PROVE Accounted(calls[k].cmd)'
    <3>1. CASE k = Len(calls) + 1
      BY <2>1, <3>1 DEF Accounted
    <3>2. CASE k \in DOMAIN calls
      <4>1. calls[k].cmd # b.pending /\ calls'[k] = calls[k]
        BY <1>2, <2>1, <3>2 DEF CallsOrdered
      <4> QED BY <1>5, <2>1, <3>2, <4>1
    <3> QED BY <1>3, <2>3, <3>1, <3>2
  <2> QED BY <2>4, <2>5, <2>6
<1> QED BY <1>6, <1>7, <1>8, <1>9 DEF Effect, Stands

-----------------------------------------------------------------------------
(* The invariant of the commands, and what it says of calls and acknowledgements *)

CommandInv == CallSent /\ CallsKnown /\ UserInv /\ SpacingInv /\ OrderInv

LEMMA InitCommandInv == Init => CommandInv
<1> SUFFICES ASSUME Init PROVE CommandInv
  OBVIOUS
<1>1. /\ b.pending = NoCmd /\ b.completed = NoCmd /\ b.uncertain = <<>> /\ calls = <<>>
      /\ jobs = <<>> /\ hist.user = {} /\ \A t \in Task : task[t].pc = "idle"
  BY DEF Init, Idle
<1>2. /\ ~NoCmd.sent /\ Range(<<>>) = {} /\ DOMAIN <<>> = {}
  BY Bounds DEF Range
<1>3. CallSent /\ CallsKnown /\ SpacingInv
  BY <1>1, <1>2 DEF CallSent, CallsKnown, SpacingInv, Unsent
<1>4. UserInv
  BY <1>1, <1>2 DEF UserInv, FeedbackPast, Writing
<1>5. OrderInv
  BY <1>1, <1>2 DEF OrderInv, CallsOrdered, PendingNewest, UncertainOrdered, Increasing
<1> QED BY <1>3, <1>4, <1>5 DEF CommandInv

LEMMA NextCommandInv == IInv /\ DInv /\ CommandInv /\ [Next]_vars => CommandInv' /\ Outcome
<1> SUFFICES ASSUME IInv, DInv, CommandInv, [Next]_vars PROVE CommandInv' /\ Outcome
  OBVIOUS
<1>1. IInv' /\ CallSent /\ CallsKnown /\ UserInv /\ SpacingInv /\ OrderInv /\ FeedbackPast
  BY NextInv DEF CommandInv, UserInv
<1>2. Outcome
  BY <1>1, OutcomeOfStep
<1>3. Effect
  BY <1>2 DEF Outcome
<1>4. CallSent'
  BY <1>1, CallSentStep
<1>5. CallsKnown'
  BY <1>1, <1>3, CallsKnownStep
<1>6. UserInv'
  BY <1>1, <1>2, UserInvStep
<1>7. SpacingInv'
  BY <1>1, <1>3, SpacingStep
<1>8. OrderInv'
  BY <1>1, <1>3, OrderStep
<1> QED BY <1>2, <1>4, <1>5, <1>6, <1>7, <1>8 DEF CommandInv

LEMMA CommandInvariant == Spec => [](IInv /\ DInv /\ CommandInv)
<1>1. Init => IInv /\ DInv /\ CommandInv
  BY InitInv, InitDInv, InitCommandInv
<1>2. (IInv /\ DInv /\ CommandInv) /\ [Next]_vars => (IInv /\ DInv /\ CommandInv)'
  BY NextInv, NextDInv, NextCommandInv
<1> QED BY <1>1, <1>2, PTL DEF Spec

\* No feedback, however late or often it comes, acknowledges a value that was not sent
\* to the device under the ownership revision the feedback is judged under
\* (classify_acknowledgement, async_process_feedback, _async_handle_target_state); only
\* a recovery that finds the live target at its request needs no call.
THEOREM AcknowledgementsAreEarned == Spec => AcknowledgementsEarned
<1> DEFINE Acknowledgement ==
      b'.status = "acknowledged" /\ b.status # "acknowledged" =>
        \/ events' = events /\ jobs' = jobs /\ b'.acked = env.live
        \/ \E c \in Called : c.val = b'.acked /\ c.rev = JudgedRevision
<1>1. IInv /\ DInv /\ CommandInv /\ [Next]_vars => [Acknowledgement]_vars
  <2> SUFFICES ASSUME IInv, DInv, CommandInv, [Next]_vars PROVE Acknowledgement
    OBVIOUS
  <2>1. Earned
    BY NextCommandInv DEF Outcome
  <2>2. \A c \in Range(b.uncertain) \union {b.pending, b.completed} : c.sent => c \in Called
    BY DEF CommandInv, CallsKnown
  <2> QED BY <2>1, <2>2 DEF Earned
<1> QED BY <1>1, CommandInvariant, PTL DEF Spec, AcknowledgementsEarned

\* After feedback with a user context no call is made under the revision it was judged
\* under, although the transition to a manual override awaits a journal write in between
\* (async_process_feedback): the store serves that write before any that a dispatch
\* awaits, and the dispatch reads the revision again.  The exception is feedback that
\* comes before the pending command is sent.
THEOREM UserChangesAreRespected == Spec => UserChangesRespected
<1> DEFINE Respected ==
      CallIssued /\ ~hist.ignored
        => \A t \in Task : task'[t].pc = "call" /\ task[t].pc # "call"
                             => task[t].intent.rev \notin hist.user
<1>1. IInv /\ DInv /\ CommandInv /\ [Next]_vars => [Respected]_vars
  <2> SUFFICES ASSUME IInv, CommandInv, [Next]_vars, CallIssued, ~hist.ignored,
                      NEW t \in Task, task'[t].pc = "call", task[t].pc # "call"
               PROVE  task[t].intent.rev \notin hist.user
    OBVIOUS
  <2>1. /\ HeadAwaited /\ task[lock[1]].pc = "mark"
        /\ MayProceed(lock[1]) /\ CallService(lock[1])
    BY OnlyMarkCalls
  <2>2. Head(jobs).then = "mark" /\ jobs # <<>>
    BY <2>1, HeadJob DEF Stage, TaskContinuations, HeadAwaited
  <2>3. t = lock[1]
    BY <2>1 DEF CallService, IInv, TypeOK
  <2>4. task[t].intent.rev = env.rev
    BY <2>1, <2>3 DEF MayProceed, Permitted, PreflightPasses
  <2>5. ASSUME env.rev \in hist.user PROVE FALSE
    <3>1. PICK k \in DOMAIN jobs : \A l \in 1 .. k : jobs[l].then \notin {"persist", "mark"}
      BY <2>5 DEF CommandInv, UserInv
    <3>2. jobs \in Seq(Job)
      BY DEF IInv, TypeOK
    <3>3. 1 \in 1 .. k /\ jobs[1] = Head(jobs)
      BY <2>2, <3>2
    <3> QED BY <2>2, <3>1, <3>3
  <2> QED BY <2>4, <2>5
<1> QED BY <1>1, CommandInvariant, PTL DEF Spec, UserChangesRespected

\* Two recorded dispatch times of a target are at least the hard interval apart, after a
\* failure the ordinary one (_preflight_intervals of broker.py), although the time is
\* taken before the lock and the journal writes are awaited, as long as no dispatch goes
\* on without what it rests on and no failure is recorded behind its back.
THEOREM DispatchesAreSpaced == Spec => DispatchesSpaced
<1> DEFINE Spacing ==
      CallIssued /\ ~hist'.raced =>
        /\ b'.lastDispatch - b.lastDispatch >= HardInterval
        /\ b.failed /\ ~hist.overtaken
             => b'.lastDispatch - b.lastDispatch >= OrdinaryInterval
<1>1. IInv /\ DInv /\ CommandInv /\ [Next]_vars => [Spacing]_vars
  <2> SUFFICES ASSUME IInv, DInv, CommandInv, [Next]_vars, CallIssued, ~hist'.raced
               PROVE  /\ b'.lastDispatch - b.lastDispatch >= HardInterval
                      /\ b.failed /\ ~hist.overtaken
                           => b'.lastDispatch - b.lastDispatch >= OrdinaryInterval
    OBVIOUS
  <2>1. HeadAwaited /\ task[lock[1]].pc = "mark" /\ CallService(lock[1])
    BY OnlyMarkCalls
  <2>2. lock[1] \in Task /\ Writing(lock[1])
    BY <2>1, HeadJob DEF Writing
  <2>3. b'.lastDispatch = task[lock[1]].now
    BY <2>1 DEF CallService, IInv, TypeOK, BrokerState
  <2>4. Sends /\ (hist.raced => hist'.raced)
    <3>1. Effect
      BY NextCommandInv DEF Outcome
    <3>2. Len(calls') # Len(calls)
      BY DEF CallIssued, IInv, TypeOK
    <3> QED BY <3>1, <3>2 DEF Effect, Stands, Opens
  <2>5. Clean /\ Unsent(b.pending)
    BY <2>4 DEF Sends, Clean
  <2>6. Spaced(lock[1])
    BY <2>2, <2>5 DEF CommandInv, SpacingInv
  <2> QED BY <2>3, <2>6 DEF Spaced
<1> QED BY <1>1, CommandInvariant, PTL DEF Spec, DispatchesSpaced

\* A call with fewer than MaxAttempts calls after it is not newer than all that is kept,
\* when all that is kept was sent: there are not enough newer calls.
LEMMA NewerCalls ==
  ASSUME IInv, CallsKnown, CallsOrdered, UncertainOrdered, Len(b.uncertain) = MaxAttempts,
         NEW k \in DOMAIN calls, k > Len(calls) - MaxAttempts,
         \A d \in Range(b.uncertain) : d.sent /\ calls[k].cmd.id < d.id
  PROVE  FALSE
<1> DEFINE n == Len(calls)
           u == b.uncertain
           S == 1 .. MaxAttempts
           T == k + 1 .. n
           f == [i \in S |-> CHOOSE l \in DOMAIN calls : calls[l].cmd = u[i]]
<1>1. /\ MaxAttempts \in Nat /\ n \in Nat /\ k \in 1 .. n /\ DOMAIN calls = 1 .. n
      /\ DOMAIN u = S /\ n - k < MaxAttempts
  <2>1. MaxAttempts \in Nat
    BY Bounds
  <2>2. n \in Nat /\ DOMAIN calls = 1 .. n
    BY DEF IInv, TypeOK
  <2>3. DOMAIN u = S
    BY DEF IInv, TypeOK, BrokerState
  <2>4. k \in 1 .. n
    BY <2>2
  <2>5. n - k < MaxAttempts
    BY <2>1, <2>2, <2>4
  <2> QED BY <2>1, <2>2, <2>3, <2>4, <2>5
<1>2. \A l \in DOMAIN calls : calls[l].cmd.id \in Nat
  <2>1. calls \in Seq([cmd: Cmd, at: Nat])
    BY DEF IInv, TypeOK
  <2>2. \A l \in DOMAIN calls : calls[l] \in [cmd: Cmd, at: Nat]
    BY <2>1, Elements, Zenon
  <2> QED BY <2>2 DEF Cmd
<1>3. \A i \in S : f[i] \in DOMAIN calls /\ calls[f[i]].cmd = u[i]
  <2> SUFFICES ASSUME NEW i \in S PROVE \E l \in DOMAIN calls : calls[l].cmd = u[i]
    OBVIOUS
  <2>1. u[i] \in Range(u)
    BY <1>1 DEF Range
  <2> QED BY <2>1 DEF CallsKnown, Called
<1> HIDE DEF f
<1>4. f \in [S -> T]
  <2> SUFFICES ASSUME NEW i \in S PROVE f[i] \in T
    BY DEF f
  <2>1. calls[k].cmd.id < calls[f[i]].cmd.id
    BY <1>1, <1>3 DEF Range
  <2>2. f[i] \in 1 .. n /\ ~(f[i] < k) /\ f[i] # k
    BY <1>1, <1>2, <1>3, <2>1 DEF CallsOrdered
  <2> QED BY <1>1, <2>2
<1>5. ASSUME NEW i \in S, NEW j \in S, f[i] = f[j] PROVE i = j
  <2>1. u[i].id = u[j].id /\ u[i].id \in Nat
    BY <1>2, <1>3, <1>5
  <2>2. ~(i < j) /\ ~(j < i)
    BY <1>1, <2>1 DEF UncertainOrdered, Increasing
  <2> QED BY <2>2
<1>6. IsFiniteSet(S) /\ Cardinality(S) = MaxAttempts
  <2>1. IsFiniteSet(S) /\ Cardinality(S) = IF 1 > MaxAttempts THEN 0 ELSE MaxAttempts - 1 + 1
    BY <1>1, FS_Interval
  <2> QED BY <1>1, <2>1
<1>7. IsFiniteSet(T) /\ Cardinality(T) < MaxAttempts
  <2>1. k + 1 \in Int /\ n \in Int
    BY <1>1
  <2>2. IsFiniteSet(T) /\ Cardinality(T) = IF k + 1 > n THEN 0 ELSE n - (k + 1) + 1
    BY <2>1, FS_Interval
  <2>3. MaxAttempts > 0
    BY Bounds
  <2> QED BY <1>1, <2>2, <2>3
<1>8. \E i, j \in S : i # j /\ f[i] = f[j]
  <2> HIDE DEF S, T
  <2> QED BY <1>4, <1>6, <1>7, FS_PigeonHole
<1> QED BY <1>5, <1>8

\* The last MaxAttempts service calls are settled, pending or kept as uncertain, however
\* calls time out, fail, are discarded or answered (the uncertain commands of
\* adapters/broker.py and their eviction), unless a command that was never sent has taken
\* a place.
THEOREM CallsAreAccountedFor == Spec => []CallsAccountedFor
<1>1. IInv /\ CommandInv => CallsAccountedFor
  <2> SUFFICES ASSUME IInv, CommandInv, NEW k \in DOMAIN calls,
                      k > Len(calls) - MaxAttempts, ~hist.raced,
                      \A d \in Range(b.uncertain) : d.sent
               PROVE  \/ calls[k].cmd.id \in hist.settled \/ calls[k].cmd = b.pending
                      \/ calls[k].cmd \in Range(b.uncertain)
    BY DEF CallsAccountedFor
  <2>1. CallsKnown /\ CallsOrdered /\ UncertainOrdered /\ Accounted(calls[k].cmd)
    BY DEF CommandInv, OrderInv, Clean
  <2>2. CASE /\ Len(b.uncertain) = MaxAttempts
             /\ \A d \in Range(b.uncertain) : calls[k].cmd.id < d.id
    BY <2>1, <2>2, NewerCalls
  <2> QED BY <2>1, <2>2 DEF Accounted
<1> QED BY <1>1, CommandInvariant, PTL

=============================================================================
