----------------------------- MODULE SourceFreshness -----------------------------
(* How a zone notices that its room sensor has fallen silent or reports again       *)
(* (the event handlers, freshness evidence and freshness timers of runtime.py):     *)
(* the sensor's own reports and those of a configured activity entity of its device *)
(* date the measurement, a timer awaits the end of that date's window, and what a   *)
(* report asks for depends on the kind of event it comes as.                        *)
EXTENDS Integers, FiniteSets, FiniteSetsExt

CONSTANTS
  Never,         \* no date
  Window,        \* configured_freshness
  MaxTick,       \* bound: time
  Humidity       \* the source is the measured humidity, which is no heating feedback

ASSUME FreshnessAssumption ==
  Never \notin Nat /\ Window \in Nat \ {0} /\ MaxTick \in Nat /\ Humidity \subseteq BOOLEAN

VARIABLES
  tick,
  rh,            \* whether the source is the humidity; does not change
  up,            \* the sensor is available and numeric
  own,           \* date of its latest report that counts as evidence, or Never
  activity,      \* date of the activity entity's report, Never while unavailable
  drift,         \* whether the reading is a little off last_meaningful_source_values
  effective,     \* freshness_reported_at
  expiry,        \* freshness timer: when it fires, or Never
  asked,         \* a debounced snapshot is due
  shown,         \* what the last snapshot found: "fresh" or "stale"
  dropped        \* history: since the last snapshot, a timer was cancelled for a date long past

freshVars == <<tick, rh, up, own, activity, drift, effective, expiry, asked, shown, dropped>>
Date == Nat \union {Never}

\* _freshness_evidence: the newest date of the sensor itself and of its device.
Evidence(avail, mine, act) ==
  LET dates == {d \in {IF avail THEN mine ELSE Never, act} : d # Never}
  IN IF dates = {} THEN Never ELSE Max(dates)
IsFresh(date) == date # Never /\ date + Window > tick
\* _schedule_freshness_expiries: only a date still to come is awaited.
Expiry(date) == IF IsFresh(date) THEN date + Window ELSE Never
\* _refresh_freshness_evidence: a stale source has become fresh.
Recovered(next) == effective # Never /\ ~IsFresh(effective) /\ IsFresh(next)

FreshInit ==
  /\ tick = 0 /\ rh \in Humidity
  /\ up = TRUE /\ own = 0 /\ activity \in {0, Never} /\ drift = FALSE
  /\ effective = 0 /\ expiry = Window /\ asked = FALSE /\ shown = "fresh" /\ dropped = FALSE

\* What an event leads to: a snapshot if it `matters`, new timers otherwise.
Heed(matters, next) ==
  /\ effective' = next
  /\ asked' = (asked \/ matters)
  /\ expiry' = IF matters THEN expiry ELSE Expiry(next)
  /\ dropped' = (dropped \/ (~matters /\ expiry # Never /\ ~IsFresh(next)))

-----------------------------------------------------------------------------
\* state_reported: the sensor repeats its value, or its climate acknowledges one of
\* our own commands (_record_primary_feedback), which is no measurement.
UnchangedReport(echo) ==
  LET mine == IF echo THEN own ELSE tick
      next == Evidence(up, mine, activity)
  IN /\ up /\ own # tick /\ (echo => ~rh)
     /\ own' = mine
     /\ Heed((~rh /\ ~echo) \/ Recovered(next), next)
     /\ UNCHANGED <<tick, rh, up, activity, drift, shown>>

\* state_changed by less than the threshold of _source_report_is_material: the date
\* is recorded and nothing else happens.
SmallChange ==
  /\ up /\ own # tick
  /\ own' = tick /\ drift' = ~drift
  /\ UNCHANGED <<tick, rh, up, activity, effective, expiry, asked, shown, dropped>>

\* A material change of the value or the availability.
MaterialChangeUnasked(avail) ==   \* with a bug
  /\ avail \/ up
  /\ up' = avail /\ own' = (IF avail THEN tick ELSE own) /\ drift' = FALSE
  /\ UNCHANGED <<tick, rh, activity, effective, expiry, asked, shown, dropped>>
MaterialChange(avail) ==
  /\ avail \/ up
  /\ up' = avail /\ own' = (IF avail THEN tick ELSE own) /\ drift' = FALSE
  /\ asked' = TRUE
  /\ UNCHANGED <<tick, rh, activity, effective, expiry, shown, dropped>>

\* The activity entity reports or becomes unavailable.
ActivityEvent(act) ==
  LET next == Evidence(up, own, act)
  IN /\ act # activity
     /\ activity' = act
     /\ Heed(Recovered(next), next)
     /\ UNCHANGED <<tick, rh, up, own, drift, shown>>

\* async_request_snapshot, by the debounce, by the freshness timer, or by any other
\* event of the zone.
Snapshot(cause) ==
  LET next == Evidence(up, own, activity)
  IN /\ CASE cause = "debounce" -> asked
          [] cause = "timer" -> expiry # Never /\ expiry <= tick
          [] cause = "other" -> TRUE
     /\ asked' = IF cause = "debounce" THEN FALSE ELSE asked
     /\ effective' = next /\ expiry' = Expiry(next)
     /\ shown' = IF up /\ IsFresh(next) THEN "fresh" ELSE "stale"
     /\ dropped' = FALSE
     /\ UNCHANGED <<tick, rh, up, own, activity, drift>>

\* The timers and the debounce come before the next unit of time.
FreshTick ==
  /\ tick < MaxTick /\ ~asked /\ (expiry # Never => expiry > tick)
  /\ tick' = tick + 1
  /\ UNCHANGED <<rh, up, own, activity, drift, effective, expiry, asked, shown, dropped>>

FreshNext ==
  \/ \E echo \in BOOLEAN : UnchangedReport(echo)
  \/ SmallChange \/ \E avail \in BOOLEAN : MaterialChange(avail)
  \/ \E act \in {tick, Never} : ActivityEvent(act)
  \/ \E cause \in {"debounce", "timer", "other"} : Snapshot(cause)
  \/ FreshTick
FreshSpec == FreshInit /\ [][FreshNext]_freshVars

-----------------------------------------------------------------------------
FreshTypeOK ==
  /\ tick \in Nat /\ rh \in BOOLEAN /\ up \in BOOLEAN /\ drift \in BOOLEAN
  /\ {own, activity, effective, expiry} \subseteq Date
  /\ asked \in BOOLEAN /\ shown \in {"fresh", "stale"} /\ dropped \in BOOLEAN

Alive == up /\ IsFresh(Evidence(up, own, activity))
Awaited == asked \/ (expiry # Never /\ expiry <= tick)

\* A silent or failed sensor is noticed when its window ends, whatever reports and
\* activity came before and however the timers were moved: a timer may be early but
\* not missing.  The exception is a timer that moving cancels because the date it
\* would await is past, when the activity entity fails after the sensor, or when an
\* echo comes in the instant in which the timer is due.
SilenceNoticed ==
  shown = "fresh" /\ ~dropped =>
    IF Alive THEN asked \/ (expiry # Never /\ expiry <= Evidence(up, own, activity) + Window)
    ELSE Awaited

=============================================================================
