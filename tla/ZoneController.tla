----------------------------- MODULE ZoneController -----------------------------
(* Calculations of the zones (controller.py) and what starts them               *)
(* (schedule_environmental_snapshot, async_request_snapshot): source events are *)
(* debounced, a zone runs one job at a time and keeps only the newest request   *)
(* beside it, and all zones share a semaphore.  A job runs in an executor       *)
(* thread, so that anything may happen before its result is looked at.          *)
EXTENDS Naturals, Sequences, FiniteSets, SequencesExt

CONSTANTS
  Zone,
  NoJob,                \* no request, no job
  Permits,              \* value of the shared semaphore
  Quiet, Longest,       \* the debounce: pause awaited, longest postponement
  MaxClock, MaxWorld, MaxRestarts   \* bounds: time, version of each zone, reloads

ASSUME ControllerAssumption ==
  /\ NoJob \notin Nat \union [gen : Nat, world : Nat]
  /\ Permits \in Nat \ {0}
  /\ {Quiet, Longest, MaxClock, MaxRestarts} \subseteq Nat /\ MaxWorld \in [Zone -> Nat]
  /\ Quiet <= Longest

VARIABLES
  clock,
  world,     \* version of what a zone's snapshots are taken from
  since,     \* debounce_started, or NoJob
  due,       \* time at which the debounce timer fires, or NoJob
  gen,       \* _generation
  job,       \* the request that _run works on, or NoJob
  at,        \* where _run is: "none", "created", "waiting", "running"
  latest,    \* _latest
  stopped,   \* _stopped
  line,      \* zones that wait for the semaphore
  shown,     \* version of the sources of the last published result
  restarts

jobVars == <<gen, job, at, latest>>
controllerVars == <<clock, world, since, due, jobVars, stopped, line, shown, restarts>>

Request == [gen : Nat, world : Nat]
Running == {z \in Zone : at[z] = "running"}
Queued(q, z) == IF z \in ToSet(q) THEN RemoveAt(q, CHOOSE i \in DOMAIN q : q[i] = z) ELSE q

ControllerInit ==
  /\ clock = 0
  /\ world = [z \in Zone |-> 1]
  /\ since = [z \in Zone |-> NoJob] /\ due = [z \in Zone |-> NoJob]
  /\ gen = [z \in Zone |-> 1]
  /\ job = [z \in Zone |-> [gen |-> 1, world |-> 1]]
  /\ at = [z \in Zone |-> "created"]
  /\ latest = [z \in Zone |-> NoJob]
  /\ stopped = [z \in Zone |-> FALSE]
  /\ line = << >> /\ shown = [z \in Zone |-> 0]
  /\ restarts = 0

\* ZoneController.request of a snapshot of version w, after `skip` invalidations.
RequestJob(z, w, skip) ==
  LET request == [gen |-> gen[z] + skip + 1, world |-> w]
      busy == at[z] # "none"
  IN IF stopped[z] THEN UNCHANGED jobVars
     ELSE /\ gen' = [gen EXCEPT ![z] = request.gen]
          /\ latest' = [latest EXCEPT ![z] = IF busy THEN request ELSE NoJob]
          /\ job' = [job EXCEPT ![z] = IF busy THEN @ ELSE request]
          /\ at' = [at EXCEPT ![z] = IF busy THEN @ ELSE "created"]

-----------------------------------------------------------------------------
(* What asks for a calculation *)

Changed(z) == world[z] < MaxWorld[z] /\ world' = [world EXCEPT ![z] = @ + 1]

Earlier(a, b) == IF a <= b THEN a ELSE b
Later(a, b) == IF a <= b THEN b ELSE a

\* A source of the zone reports: schedule_environmental_snapshot.  While a zone is
\* being unloaded its listeners outlive its controller, and so do its entities.
DueAfterUncapped(start) == clock + Quiet   \* with a bug
DueAfter(start) == Later(clock, Earlier(clock + Quiet, start + Longest))

SourceReported(z) ==
  LET start == IF since[z] = NoJob THEN clock ELSE since[z]
  IN /\ Changed(z) /\ clock + Quiet <= MaxClock
     /\ since' = [since EXCEPT ![z] = start]
     /\ due' = [due EXCEPT ![z] = DueAfter(start)]
     /\ UNCHANGED <<clock, jobVars, stopped, line, shown, restarts>>

\* The debounce timer fires and the snapshot is taken.
Fire(z) ==
  /\ due[z] # NoJob /\ due[z] <= clock
  /\ due' = [due EXCEPT ![z] = NoJob] /\ since' = [since EXCEPT ![z] = NoJob]
  /\ RequestJob(z, world[z], 0)
  /\ UNCHANGED <<clock, world, stopped, line, shown, restarts>>

\* Boost, Preheat, Resume, an expired timer and the like take a snapshot at once.
DirectRequest(z) ==
  /\ Changed(z)
  /\ RequestJob(z, world'[z], 0)
  /\ UNCHANGED <<clock, since, due, stopped, line, shown, restarts>>

\* async_set_strategy and async_set_eco_intensity: what is under way is void, a
\* debounced snapshot is superseded, and a new one is taken.
InvalidateAndRequest(z) ==
  /\ ~stopped[z] /\ Changed(z)
  /\ due' = [due EXCEPT ![z] = NoJob] /\ since' = [since EXCEPT ![z] = NoJob]
  /\ RequestJob(z, world'[z], 1)
  /\ UNCHANGED <<clock, stopped, line, shown, restarts>>

-----------------------------------------------------------------------------
(* _run *)

\* The permit of a job that has ended or was cancelled goes to the first in line.
PermitPassed(locs, q) == IF q = << >> THEN locs ELSE [locs EXCEPT ![Head(q)] = "running"]
Shorter(q) == IF q = << >> THEN q ELSE Tail(q)

\* `async with self._semaphore`, then the executor is given the job.
Begin(z) ==
  /\ at[z] = "created"
  /\ IF Cardinality(Running) < Permits
     THEN at' = [at EXCEPT ![z] = "running"] /\ UNCHANGED line
     ELSE at' = [at EXCEPT ![z] = "waiting"] /\ line' = Append(line, z)
  /\ UNCHANGED <<clock, world, since, due, gen, job, latest, stopped, shown, restarts>>

Current(z) == job[z].gen = gen[z]

\* The executor has returned: the permit is released, the result published if it
\* is current, and the newest request taken up.  If another zone waits, that
\* request gets in line behind it.
Finish(z) ==
  LET freed == [PermitPassed(at, line) EXCEPT ![z] = "none"]
      rest == Shorter(line)
      free == Cardinality({y \in Zone : freed[y] = "running"}) < Permits
      more == latest[z] # NoJob
  IN /\ at[z] = "running"
     /\ shown' = IF Current(z) THEN [shown EXCEPT ![z] = job[z].world] ELSE shown
     /\ job' = [job EXCEPT ![z] = latest[z]]
     /\ latest' = [latest EXCEPT ![z] = NoJob]
     /\ at' = [freed EXCEPT ![z] = IF ~more THEN "none" ELSE IF free THEN "running"
                                   ELSE "waiting"]
     /\ line' = IF more /\ ~free THEN Append(rest, z) ELSE rest
     /\ UNCHANGED <<clock, world, since, due, gen, stopped, restarts>>

\* async_unload: the timer of the debounce is cancelled, its start is not forgotten, and
\* async_stop cancels _run, wherever it is.  The thread of a calculation that is under
\* way runs to its end, without a permit and for nobody.
StopControllerUnreleased(z) ==   \* with a bug
  /\ ~stopped[z] /\ restarts < MaxRestarts
  /\ stopped' = [stopped EXCEPT ![z] = TRUE]
  /\ due' = [due EXCEPT ![z] = NoJob]
  /\ gen' = [gen EXCEPT ![z] = @ + 1]
  /\ latest' = [latest EXCEPT ![z] = NoJob] /\ job' = [job EXCEPT ![z] = NoJob]
  /\ at' = [at EXCEPT ![z] = "none"] /\ line' = Queued(line, z)
  /\ UNCHANGED <<clock, world, since, shown, restarts>>

StopController(z) ==
  /\ ~stopped[z] /\ restarts < MaxRestarts
  /\ stopped' = [stopped EXCEPT ![z] = TRUE]
  /\ due' = [due EXCEPT ![z] = NoJob]
  /\ gen' = [gen EXCEPT ![z] = @ + 1]
  /\ latest' = [latest EXCEPT ![z] = NoJob] /\ job' = [job EXCEPT ![z] = NoJob]
  /\ IF at[z] = "running"
     THEN /\ at' = [PermitPassed(at, line) EXCEPT ![z] = "none"] /\ line' = Shorter(line)
     ELSE /\ at' = [at EXCEPT ![z] = "none"] /\ line' = Queued(line, z)
  /\ UNCHANGED <<clock, world, since, shown, restarts>>

\* The zone is set up again with a new controller, which is asked for a first result.
Restart(z) ==
  /\ stopped[z] /\ restarts' = restarts + 1
  /\ stopped' = [stopped EXCEPT ![z] = FALSE]
  /\ gen' = [gen EXCEPT ![z] = 1]
  /\ job' = [job EXCEPT ![z] = [gen |-> 1, world |-> world[z]]]
  /\ at' = [at EXCEPT ![z] = "created"]
  /\ since' = [since EXCEPT ![z] = NoJob] /\ due' = [due EXCEPT ![z] = NoJob]
  /\ shown' = [shown EXCEPT ![z] = 0]
  /\ UNCHANGED <<clock, world, latest, line>>

\* Timers that are due fire before time passes.
Tick ==
  /\ clock < MaxClock /\ \A z \in Zone : due[z] # NoJob => due[z] > clock
  /\ clock' = clock + 1
  /\ UNCHANGED <<world, since, due, jobVars, stopped, line, shown, restarts>>

ControllerNext ==
  \/ \E z \in Zone :
       \/ SourceReported(z) \/ Fire(z) \/ DirectRequest(z) \/ InvalidateAndRequest(z)
       \/ Begin(z) \/ Finish(z) \/ StopController(z) \/ Restart(z)
  \/ Tick

ControllerSpec == ControllerInit /\ [][ControllerNext]_controllerVars

\* The event loop fires timers and runs tasks, the executor returns and time passes.
\* That an unloaded zone is set up again is not assumed.
ControllerFairness ==
  /\ \A z \in Zone : WF_controllerVars(Fire(z)) /\ WF_controllerVars(Begin(z)) /\ WF_controllerVars(Finish(z))
  /\ WF_controllerVars(Tick)
ControllerFairSpec == ControllerSpec /\ ControllerFairness

-----------------------------------------------------------------------------
ControllerTypeOK ==
  /\ clock \in Nat /\ restarts \in Nat
  /\ world \in [Zone -> Nat] /\ shown \in [Zone -> Nat] /\ gen \in [Zone -> Nat]
  /\ since \in [Zone -> Nat \union {NoJob}] /\ due \in [Zone -> Nat \union {NoJob}]
  /\ job \in [Zone -> Request \union {NoJob}]
  /\ latest \in [Zone -> Request \union {NoJob}]
  /\ at \in [Zone -> {"none", "created", "waiting", "running"}]
  /\ stopped \in [Zone -> BOOLEAN] /\ line \in Seq(Zone)

\* No more jobs are under way than the semaphore has permits, no permit is lost
\* while a zone waits, and the line holds exactly the zones that wait, once each:
\* requests, cancellations and reloads of several zones in any order.
PermitsKept ==
  /\ Cardinality(Running) <= Permits
  /\ line # << >> => Cardinality(Running) = Permits
  /\ \A z \in Zone : (at[z] = "waiting") = (z \in ToSet(line))
  /\ IsInjective(line)

\* A chatty source postpones the snapshot of a running zone for ten seconds at most.
PostponementBounded ==
  \A z \in Zone : ~stopped[z] /\ since[z] # NoJob => clock <= since[z] + Longest

\* What the zones show keeps the promise of AbstractZone: never out of order, never
\* after a stop, and in the end the latest.
ZonePromise == INSTANCE AbstractZone WITH open <- [z \in Zone |-> ~stopped[z]]
ZoneKeepsPromise == ZonePromise!Spec
=============================================================================
