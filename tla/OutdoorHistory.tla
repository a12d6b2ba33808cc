----------------------------- MODULE OutdoorHistory -----------------------------
(* The collector of one outdoor sensor (core/history.py, adapters/outdoor_history   *)
(* and adapters/recorder.py): reports are integrated, each until the next one or    *)
(* the end of its hold, into the covered time of local days; the running mean uses  *)
(* the well covered ones.  The state is saved now and then; after a crash it is     *)
(* restored and the Recorder's reports since are replayed.                          *)
EXTENDS Integers, FiniteSets

CONSTANTS
  Nothing,              \* no file, no save under way, no held value, no timer
  DayLen,               \* hours of a day
  Hold,                 \* the configured maximum hold of a report
  BootHold,             \* DEFAULT_MAX_HOLD, of the bootstrap
  Lookback,             \* days the bootstrap reads
  MaxHour, MaxOutdoorReports, MaxCollectorStarts, MaxSaveFaults   \* bounds

Day == 0..(MaxHour \div DayLen)
Integration == [cursor : Nat, covered : [Day -> Nat], hold : Nat \union {Nothing}]

ASSUME HistoryAssumption ==
  /\ Nothing \notin Nat \union Integration
  /\ {DayLen, Hold, BootHold, Lookback} \subseteq Nat \ {0}
  /\ {MaxHour, MaxOutdoorReports, MaxCollectorStarts, MaxSaveFaults} \subseteq Nat

VARIABLES
  hour,
  log,          \* history: the reports that were made, which the Recorder keeps
  phase,        \* of the collector: "down", "starting", "up", "closing"
  cursor,       \* up to when is integrated
  covered,      \* hours covered, of each day: summaries and current accumulator
  holdUntil,    \* end of the hold of the last valid report, or Nothing
  boundary,     \* when the boundary timer fires, or Nothing
  file,         \* what is stored: the integration as of a save, or Nothing
  saving,       \* what async_save is writing, or Nothing
  timer,        \* a save is scheduled
  dirty,        \* _dirty_generation # _saved_generation
  late,         \* _dirty_generation has moved since the save under way began
  anchors,      \* history: where the Recorder began a chunk with the state of then
  unheard,      \* history: an invalid report that reached neither listener nor replay
  startsUsed, faultsUsed

histVars == <<hour, log, phase, cursor, covered, holdUntil, boundary, file, saving, timer,
              dirty, late, anchors, unheard, startsUsed, faultsUsed>>
Today == hour \div DayLen

HistInit ==
  /\ hour = 0 /\ log = {} /\ phase = "down"
  /\ cursor = 0 /\ covered = [d \in Day |-> 0] /\ holdUntil = Nothing /\ boundary = Nothing
  /\ file = Nothing /\ saving = Nothing
  /\ timer = FALSE /\ dirty = FALSE /\ late = FALSE
  /\ anchors = {} /\ unheard = FALSE /\ startsUsed = 0 /\ faultsUsed = 0

-----------------------------------------------------------------------------
(* DailyHistoryIntegrator on [cursor, covered, hold] *)

\* _advance_segment: the hours until t are covered as far as the hold reaches.
AdvanceUnheld(i, t) ==   \* with a bug
  [i EXCEPT !.cursor = t,
            !.covered = [d \in Day |-> @[d] + Cardinality(
               {u \in i.cursor..(t - 1) : u \div DayLen = d /\ i.hold # Nothing})]]
Advance(i, t) ==
  [i EXCEPT !.cursor = t,
            !.covered = [d \in Day |-> @[d] + Cardinality(
               {u \in i.cursor..(t - 1) :
                  u \div DayLen = d /\ i.hold # Nothing /\ u < i.hold})]]

\* add_sample; a sample older than the cursor is refused.
AddSample(i, sample, hold) ==
  IF sample.at < i.cursor THEN i
  ELSE [Advance(i, sample.at) EXCEPT !.hold = IF sample.ok THEN sample.at + hold ELSE Nothing]

\* The samples are added in the order of their times, which differ.
AddAt(i, samples, hold, t) ==
  IF \E s \in samples : s.at = t THEN AddSample(i, CHOOSE s \in samples : s.at = t, hold) ELSE i

Replay(i, samples, hold) ==
  LET after[t \in (i.cursor - 1)..hour] ==
        IF t < i.cursor THEN i ELSE AddAt(after[t - 1], samples, hold, t)
  IN after[hour]

Now == [cursor |-> cursor, covered |-> covered, hold |-> holdUntil]
Becomes(i) == cursor' = i.cursor /\ covered' = i.covered /\ holdUntil' = i.hold

\* _schedule_boundary: the next midnight, or the end of the hold before it.
Boundary(i, t) ==
  LET midnight == (t \div DayLen + 1) * DayLen
  IN IF i.hold # Nothing /\ i.hold > t /\ i.hold < midnight THEN i.hold ELSE midnight

\* Something has been integrated: the change of a day is saved at once, unless a
\* save is under way, anything else within five minutes.
Touch(rolled) ==
  /\ dirty' = TRUE /\ late' = (saving # Nothing)
  /\ saving' = IF rolled /\ saving = Nothing
               THEN [cursor |-> cursor', covered |-> covered', hold |-> holdUntil']
               ELSE saving
  /\ timer' = IF rolled THEN timer /\ saving # Nothing ELSE TRUE

-----------------------------------------------------------------------------
(* The Recorder: its reports of a window, read a day at a time, each chunk beginning *)
(* with the state at its start.                                                      *)
LatestBy(t) == {r \in log : r.at <= t /\ \A s \in log : s.at <= t => s.at <= r.at}
ChunkStarts(from, to) == {from + k * DayLen : k \in {j \in 0..MaxHour : from + j * DayLen < to}}
Records(from, to) ==
  {r \in log : from < r.at /\ r.at <= to}
    \union {[at |-> p[1], ok |-> p[2].ok] :
              p \in {q \in ChunkStarts(from, to) \X log : q[2] \in LatestBy(q[1])}}

-----------------------------------------------------------------------------
(* The sensor *)
Reporting(ok) ==
  /\ Cardinality(log) < MaxOutdoorReports /\ (\A r \in log : r.at < hour)
  /\ log' = log \union {[at |-> hour, ok |-> ok]}

\* A report nobody listens to: the collector is down, or async_start has read the
\* Recorder but not yet installed its listener.
UnheardReport(ok) ==
  /\ phase \in {"down", "starting"} /\ Reporting(ok)
  /\ unheard' = (unheard \/ (phase = "starting" /\ ~ok))
  /\ UNCHANGED <<hour, phase, cursor, covered, holdUntil, boundary, file, saving, timer, dirty,
                 late, anchors, startsUsed, faultsUsed>>

\* The listener: the sample is integrated and everything up to now.
LiveReport(ok) ==
  /\ phase \in {"up", "closing"} /\ Reporting(ok)
  /\ Becomes(AddSample(Now, [at |-> hour, ok |-> ok], Hold))
  /\ Touch(cursor' \div DayLen # cursor \div DayLen)
  /\ boundary' = Boundary([hold |-> holdUntil'], hour)
  /\ UNCHANGED <<hour, phase, file, anchors, unheard, startsUsed, faultsUsed>>

BoundaryFires ==
  /\ phase \in {"up", "closing"} /\ boundary = hour
  /\ Becomes(Advance(Now, hour))
  /\ Touch(cursor' \div DayLen # cursor \div DayLen)
  /\ boundary' = Boundary([hold |-> holdUntil'], hour)
  /\ UNCHANGED <<hour, log, phase, file, anchors, unheard, startsUsed, faultsUsed>>

-----------------------------------------------------------------------------
(* async_start up to its save: load, read the Recorder (`answers`), restore or      *)
(* bootstrap, replay, and take up the state that the sensor is in.                   *)
Midnight == Today * DayLen
Origin == Midnight - Lookback * DayLen - BootHold
Bootstrapped(records) ==
  LET before == {r \in records : r.at <= Midnight}
      empty == [cursor |-> Origin, covered |-> [d \in Day |-> 0], hold |-> Nothing]
  IN [Advance(Replay(empty, before, BootHold), Midnight) EXCEPT !.hold = Nothing]

CollectorStart(answers) ==
  LET from == IF file = Nothing THEN Origin ELSE file.cursor
      records == IF answers THEN Records(from, hour) ELSE {}
      base == IF file = Nothing THEN Bootstrapped(records) ELSE file
      replayed == Replay(base, {r \in records : r.at >= base.cursor}, Hold)
      next == Advance(Replay(replayed, {r \in LatestBy(hour) : r.at > replayed.cursor}, Hold),
                      hour)
  IN /\ phase = "down" /\ (file # Nothing => file.cursor < hour)   \* a restart takes time
     /\ startsUsed < MaxCollectorStarts /\ startsUsed' = startsUsed + 1
     /\ phase' = "starting"
     /\ Becomes(next)
     /\ saving' = next /\ dirty' = FALSE /\ late' = FALSE /\ timer' = FALSE
     /\ anchors' = IF answers THEN anchors \union ChunkStarts(from, hour) ELSE anchors
     /\ unheard' = (unheard \/ (~answers /\ \E r \in log : r.at >= from /\ ~r.ok))
     /\ boundary' = Nothing
     /\ UNCHANGED <<hour, log, file, faultsUsed>>

\* async_save: what was written is stored or an exception raised; what came
\* meanwhile, and what failed, is scheduled again.
SaveEndsForgetful(ok) ==   \* with a bug
  /\ saving # Nothing /\ (ok \/ faultsUsed < MaxSaveFaults)
  /\ file' = (IF ok THEN saving ELSE file)
  /\ faultsUsed' = IF ok THEN faultsUsed ELSE faultsUsed + 1
  /\ saving' = Nothing /\ late' = FALSE
  /\ dirty' = (late \/ ~ok)
  /\ timer' = (~ok /\ phase # "closing")
  /\ phase' = (CASE phase = "starting" -> "up" [] phase = "closing" -> "down" [] OTHER -> phase)
  /\ boundary' = (IF phase = "starting" THEN Boundary(Now, cursor)
                  ELSE IF phase = "closing" THEN Nothing ELSE boundary)
  /\ UNCHANGED <<hour, log, cursor, covered, holdUntil, anchors, unheard, startsUsed>>
SaveEnds(ok) ==
  /\ saving # Nothing /\ (ok \/ faultsUsed < MaxSaveFaults)
  /\ file' = (IF ok THEN saving ELSE file)
  /\ faultsUsed' = IF ok THEN faultsUsed ELSE faultsUsed + 1
  /\ saving' = Nothing /\ late' = FALSE
  /\ dirty' = (late \/ ~ok)
  /\ timer' = ((late \/ ~ok \/ timer) /\ phase # "closing")
  /\ phase' = (CASE phase = "starting" -> "up" [] phase = "closing" -> "down" [] OTHER -> phase)
  /\ boundary' = (IF phase = "starting" THEN Boundary(Now, cursor)
                  ELSE IF phase = "closing" THEN Nothing ELSE boundary)
  /\ UNCHANGED <<hour, log, cursor, covered, holdUntil, anchors, unheard, startsUsed>>

SaveBegins ==
  /\ phase = "up" /\ timer /\ saving = Nothing
  /\ saving' = Now /\ timer' = FALSE /\ late' = FALSE
  /\ UNCHANGED <<hour, log, phase, cursor, covered, holdUntil, boundary, file, dirty, anchors,
                 unheard, startsUsed, faultsUsed>>

\* async_close: a last save, after the one under way.
Close ==
  /\ phase = "up" /\ saving = Nothing
  /\ phase' = "closing" /\ saving' = Now /\ timer' = FALSE /\ late' = FALSE
  /\ UNCHANGED <<hour, log, cursor, covered, holdUntil, boundary, file, dirty, anchors, unheard,
                 startsUsed, faultsUsed>>

CollectorCrash ==
  /\ phase # "down" /\ phase' = "down"
  /\ saving' = Nothing /\ timer' = FALSE /\ dirty' = FALSE /\ late' = FALSE
  /\ boundary' = Nothing
  /\ UNCHANGED <<hour, log, cursor, covered, holdUntil, file, anchors, unheard, startsUsed,
                 faultsUsed>>

HourPasses ==
  /\ hour < MaxHour /\ hour' = hour + 1
  /\ phase \in {"up", "closing"} => boundary # hour
  /\ UNCHANGED <<log, phase, cursor, covered, holdUntil, boundary, file, saving, timer, dirty,
                 late, anchors, unheard, startsUsed, faultsUsed>>

HistNext ==
  \/ \E ok \in BOOLEAN :
       UnheardReport(ok) \/ LiveReport(ok) \/ CollectorStart(ok) \/ SaveEnds(ok)
  \/ BoundaryFires \/ SaveBegins \/ Close \/ CollectorCrash \/ HourPasses
HistSpec == HistInit /\ [][HistNext]_histVars

-----------------------------------------------------------------------------
HistTypeOK ==
  /\ hour \in Nat /\ cursor \in Nat /\ covered \in [Day -> Nat]
  /\ log \subseteq [at : Nat, ok : BOOLEAN]
  /\ phase \in {"down", "starting", "up", "closing"}
  /\ {holdUntil, boundary} \subseteq Nat \union {Nothing}
  /\ {file, saving} \subseteq Integration \union {Nothing}
  /\ {timer, dirty, late, unheard} \subseteq BOOLEAN /\ anchors \subseteq Int

\* An hour is justified if the latest report of then was valid and within its hold,
\* counted from the report or, where the Recorder began a chunk later, from there.
Justified(u, starts) ==
  \E r \in LatestBy(u) : r.ok /\ \E a \in {r.at} \union {s \in starts : s >= r.at} :
    a <= u /\ u < a + (IF BootHold > Hold THEN BootHold ELSE Hold)
Earned(d, starts) == Cardinality({u \in d * DayLen..(d * DayLen + DayLen - 1) :
                                    u < hour /\ Justified(u, starts)})

\* No day is credited with time that no report justifies, or twice with the same,
\* whatever was saved, lost in a crash, restored and replayed.  An invalid report
\* that nobody heard is the exception.
CoverageEarned ==
  phase \in {"up", "closing"} /\ ~unheard => \A d \in Day : covered[d] <= Earned(d, anchors)

\* What has been integrated since the last save will be saved.
UnsavedAwaited == phase = "up" /\ dirty => timer \/ saving # Nothing

=============================================================================
