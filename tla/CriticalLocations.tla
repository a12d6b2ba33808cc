---------------------------- MODULE CriticalLocations ----------------------------
(* A critical location: a second thermometer whose difference to the room sensor is *)
(* filtered and, once it has warmed up, may move the command (core/locations.py,    *)
(* _update_critical_delta and _capture_critical_locations).  A report that matters  *)
(* advances the stored filter when it comes; each snapshot evaluates the current    *)
(* report against the stored filter and keeps nothing.                              *)
EXTENDS Integers, FiniteSets, FiniteSetsExt

CONSTANTS
  NoTime,                 \* no window, no report
  RawDelta,               \* differences the sensors can show
  Outlier, Bound,         \* RAW_DELTA_OUTLIER_C, MAX_EFFECTIVE_DELTA_C
  Warmup, MinReports,     \* ELIGIBILITY_WARMUP_SECONDS in units of 5 min, MINIMUM_WARMUP_REPORTS
  Modes,                  \* configured CriticalEligibilityMode
  MaxMinute               \* bound: time

ASSUME CriticalAssumption ==
  /\ NoTime \notin Nat /\ RawDelta \subseteq Int
  /\ {Outlier, Bound, Warmup, MinReports, MaxMinute} \subseteq Nat /\ Warmup > 0
  /\ Modes \subseteq {"monitoring", "heating", "cooling", "both"}

VARIABLES
  minute,
  mode,          \* mode of the location; does not change
  online,        \* both sensors are available
  delta,         \* their difference now
  reportedAt,    \* date of the local report
  filter,        \* critical_delta_states: the stored CriticalDeltaState
  outcome,       \* the location in the last snapshot
  counted        \* history: the reports the stored filter was advanced by since it was reset

critVars == <<minute, mode, online, delta, reportedAt, filter, outcome, counted>>

Blank == [start |-> NoTime, last |-> NoTime, value |-> 0, count |-> 0]
Size(d) == IF d < 0 THEN -d ELSE d
Between(a, b) == IF a <= b THEN a..b ELSE b..a
LimitedBelow(d) == IF d < -Bound THEN -Bound ELSE d   \* with a bug
Limited(d) == IF d > Bound THEN Bound ELSE IF d < -Bound THEN -Bound ELSE d

CritInit ==
  /\ minute = 0 /\ mode \in Modes
  /\ online = TRUE /\ delta \in RawDelta /\ reportedAt = 0
  /\ filter = Blank
  /\ outcome = [usable |-> FALSE, eligible |-> FALSE, effective |-> 0]
  /\ counted = {}

-----------------------------------------------------------------------------
(* update_critical_delta of a valid difference d reported at t: the next filter.   *)
(* The exponential filter gives a value between the last one and the difference.   *)
(* An outlier ends the window; a report that is not newer changes nothing.         *)
Filtered(d) == IF filter.start = NoTime THEN {d} ELSE Between(filter.value, d)

AdvancedPastOutlier(d, t, value) ==   \* with a bug
  IF Size(d) > Outlier THEN filter
  ELSE IF filter.start = NoTime THEN [start |-> t, last |-> t, value |-> d, count |-> 1]
  ELSE IF t <= filter.last THEN filter
  ELSE [start |-> filter.start, last |-> t, value |-> value, count |-> filter.count + 1]
Advanced(d, t, value) ==
  IF Size(d) > Outlier THEN Blank
  ELSE IF filter.start = NoTime THEN [start |-> t, last |-> t, value |-> d, count |-> 1]
  ELSE IF t <= filter.last THEN filter
  ELSE [start |-> filter.start, last |-> t, value |-> value, count |-> filter.count + 1]

\* The evaluation of the current report: usable with the filter it would give, and
\* eligible if that has warmed up and the report is newer than the stored ones.
Evaluated(value) ==
  LET next == Advanced(delta, reportedAt, value)
      newer == filter.start = NoTime \/ reportedAt > filter.last
  IN IF ~online \/ next.start = NoTime
     THEN [usable |-> FALSE, eligible |-> FALSE, effective |-> 0]
     ELSE [usable |-> TRUE,
           eligible |-> newer /\ reportedAt - next.start >= Warmup /\ next.count >= MinReports,
           effective |-> Limited(next.value)]

\* prepare_critical_location: only an eligible location of a controlling mode.
Controls == outcome.eligible /\ mode # "monitoring"

-----------------------------------------------------------------------------
\* A material local report, also the first one after an outage: the handler advances
\* the stored filter.
MaterialReport(d) ==
  /\ reportedAt # minute
  /\ online' = TRUE /\ reportedAt' = minute /\ delta' = d
  /\ \E value \in Filtered(d) : filter' = Advanced(d, minute, value)
  /\ counted' = IF Size(d) > Outlier THEN {} ELSE counted \union {minute}
  /\ UNCHANGED <<minute, mode, outcome>>

\* A report with no material change is seen by the next snapshot only.
SmallReport ==
  /\ online /\ reportedAt # minute
  /\ reportedAt' = minute
  /\ UNCHANGED <<minute, mode, online, delta, filter, outcome, counted>>

\* The local sensor becomes unavailable: a material event, of which
\* _update_critical_delta makes nothing.
Outage ==
  /\ online /\ online' = FALSE
  /\ UNCHANGED <<minute, mode, delta, reportedAt, filter, outcome, counted>>

\* The room sensor changes, which moves the difference but not the local report.
PrimaryMoves(d) ==
  /\ online /\ delta' = d
  /\ UNCHANGED <<minute, mode, online, reportedAt, filter, outcome, counted>>

\* A snapshot evaluates the location.
Capture ==
  /\ \E value \in Filtered(delta) : outcome' = Evaluated(value)
  /\ UNCHANGED <<minute, mode, online, delta, reportedAt, filter, counted>>

CritTick ==
  /\ minute < MaxMinute /\ minute' = minute + 1
  /\ UNCHANGED <<mode, online, delta, reportedAt, filter, outcome, counted>>

CritNext ==
  \/ \E d \in RawDelta : MaterialReport(d) \/ PrimaryMoves(d)
  \/ SmallReport \/ Outage \/ Capture \/ CritTick
CritSpec == CritInit /\ [][CritNext]_critVars

-----------------------------------------------------------------------------
CritTypeOK ==
  /\ minute \in Nat /\ mode \in Modes /\ online \in BOOLEAN
  /\ delta \in Int /\ reportedAt \in Nat
  /\ filter \in [start : Nat \union {NoTime}, last : Nat \union {NoTime}, value : Int,
                 count : Nat]
  /\ outcome \in [usable : BOOLEAN, eligible : BOOLEAN, effective : -Bound..Bound]
  /\ counted \subseteq Nat

\* A location moves the command only with a difference inside the bound, after three
\* reports over ten minutes none of which, nor any between them, was an outlier.
InfluenceEarned ==
  [][outcome' # outcome /\ Controls' =>
       /\ Size(delta) <= Outlier /\ outcome'.effective \in -Bound..Bound
       /\ Cardinality(counted \union {reportedAt}) >= MinReports
       /\ reportedAt - Min(counted) >= Warmup]_critVars

=============================================================================
