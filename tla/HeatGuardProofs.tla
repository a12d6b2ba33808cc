--------------------------- MODULE HeatGuardProofs ---------------------------
(* The heat-demand feedback guard, for any temperatures, timeouts, times and      *)
(* number of crashes and overlapping tasks: what has been withdrawn stays         *)
(* withdrawn, across restarts too, and demand without reports comes down to the   *)
(* fallback in time.  The argument is that the guard in memory is never behind    *)
(* the one in force but for the end of a ramp (Kept), and that every command on   *)
(* its way fits the guard in force (Fits).                                        *)
EXTENDS HeatGuard, TLAPS

\* Whether c is one of the commands in s.
In(c, s) == \E i \in 1 .. Len(s) : c = s[i]

\* A guard whose times are past and fit its phase.
Timely(g, at) ==
  /\ g.started \in 0 .. at /\ g.report \in 0 .. at /\ g.ramp \in 0 .. at
  /\ g.evidence \in 0 .. at
  /\ g.phase \in {"monitoring", "stale_start"} => g.started # NoTime
  /\ g.phase = "ramp" => g.ramp # NoTime

TypeInv ==
  /\ up \in BOOLEAN /\ cold \in BOOLEAN
  /\ now \in 1 .. MaxClock
  /\ report \in 0 .. now /\ lastValid \in 0 .. now /\ since \in 0 .. now /\ trial \in Time
  /\ guard \in Guard /\ Timely(guard, now)
  /\ mem # NoGuard => mem \in Guard /\ Timely(mem, now)
  /\ disk # NoGuard => disk \in Guard /\ Timely(disk, now)
  /\ primary \in {"valid", "rejected", "lost"}
  /\ saving \in Seq(Command) /\ sending \in Seq(Command)
  /\ target \in Nat /\ settled \in Nat /\ crashes \in 0 .. MaxCrashes

\* The guard in force and the one in memory: the memory is not behind, but for
\* the end of a ramp; without any, the guard is what the start made of none.
Kept ==
  /\ up /\ mem # NoGuard => mem = guard \/ (Withdrawing(mem) /\ guard.phase = "exhausted")
  /\ up /\ mem = NoGuard =>
       /\ disk = NoGuard
       /\ guard = NewGuard \/ (guard.phase = "exhausted" /\ lastValid # NoTime)
  /\ ~up => saving = <<>> /\ sending = <<>>

\* Whether a report is newer than the evidence of a guard: it would start over.
Ahead(r, g) == g.evidence # NoTime /\ r > g.evidence

\* A withdrawal is not forgotten.
Withdrawn ==
  cold => /\ Withdrawing(Restored) /\ target <= settled
          /\ up => Withdrawing(guard) /\ (primary = "valid" => ~Ahead(report, guard))

\* A guard whose ramp begins in time for the demand that was there at t.
Due(g, t) ==
  /\ g.phase # "idle"
  /\ g.phase \in {"monitoring", "stale_start"} => g.started <= t /\ g.report <= t
  /\ g.phase = "ramp" => g.ramp <= t + Max2(Active, Trial)

\* Demand that lasts has a guard that runs, in force, in memory and after a restart.
InTime ==
  since # NoTime =>
    /\ Due(Restored, since)
    /\ up => /\ Due(guard, since) /\ ~Ahead(report, guard)
             /\ mem # NoGuard => Due(mem, since)
             /\ mem = NoGuard => guard.phase = "exhausted" /\ lastValid # NoTime

\* A command on its way fits the guard in force, and was calculated at this minute.
Fits(c) ==
  /\ c.current /\ Withdrawing(c.guard) => Withdrawing(guard)
  /\ c.current /\ (primary = "valid" \/ c.demand) => ~Ahead(report, guard)
  /\ c.demand =>
       /\ c.guard.phase # "idle"
       /\ c.guard.phase \in {"monitoring", "stale_start"} => now < Deadline(c.guard)
       /\ c.guard.phase = "exhausted" \/ (c.guard.phase = "ramp" /\ now >= c.guard.ramp + RampMax)
            => c.want <= Fallback * Scale
  /\ cold => c.want <= settled
OnTheWay == \A c \in Command : In(c, saving) \/ In(c, sending) => Fits(c)

IInv == TypeInv /\ Kept /\ Withdrawn /\ InTime /\ OnTheWay

-----------------------------------------------------------------------------
LEMMA NatTimes == \A a, b \in Nat : a * b \in Nat
  OBVIOUS

LEMMA ScalePositive == Scale \in Nat \ {0}
  <1>1. PerDegree \in Nat \ {0} /\ RampMax \in Nat \ {0}
    BY GuardAssumption
  <1>2. \A a, b \in Nat \ {0} : a * b \in Nat \ {0}
    OBVIOUS
  <1>3. QED
    BY <1>1, <1>2 DEF Scale

LEMMA Quotient ==
  ASSUME NEW a \in Int, NEW s \in Nat \ {0}, NEW x \in Int, x >= a * s
  PROVE  x \div s \in Int /\ x \div s >= a
  <1>1. x \div s \in Int /\ x < s * (x \div s) + s
    OBVIOUS
  <1>2. SUFFICES ASSUME x \div s < a PROVE FALSE
    BY <1>1
  <1> DEFINE q == x \div s
  <1>3. q + 1 <= a
    BY <1>1, <1>2
  <1>4. s * (q + 1) <= s * a
    BY <1>1, <1>3
  <1>5. QED
    BY <1>1, <1>4

\* A withdrawal that has used up its time asks for the fallback, and never for less.
LEMMA RampEnds ==
  ASSUME TypeInv, NEW g \in Guard, Timely(g, now)
  PROVE  /\ RampTarget(g) \in Nat
         /\ (g.phase = "exhausted" \/ g.ramp = NoTime \/ now >= g.ramp + RampMax)
              => RampTarget(g) = Fallback * Scale
  <1> DEFINE fallback == Scale * Fallback
             start == Max2(fallback, g.start)
             elapsed == Max2(0, now - g.ramp)
             rate == Max2(RampMax * Scale, (start - fallback) * PerDegree)
             fall == rate * elapsed
  <1>1. Scale \in Nat \ {0} /\ Fallback \in Nat /\ PerDegree \in Nat \ {0} /\ RampMax \in Nat \ {0}
    BY ScalePositive, GuardAssumption
  <1>2. fallback \in Nat /\ fallback = Fallback * Scale
    BY <1>1, NatTimes
  <1>3. start \in Nat /\ start >= fallback
    BY <1>2 DEF Max2, Guard
  <1>4. elapsed \in Nat /\ (now >= g.ramp + RampMax => elapsed >= RampMax)
    <2>1. now \in Nat /\ g.ramp \in Nat
      BY GuardAssumption DEF TypeInv, Timely
    <2>2. QED
      BY <1>1, <2>1 DEF Max2
  <1>5. rate \in Nat /\ rate >= (start - fallback) * PerDegree
    <2>1. (start - fallback) * PerDegree \in Nat
      BY <1>1, <1>2, <1>3, NatTimes
    <2>2. RampMax * Scale \in Nat
      BY <1>1, NatTimes
    <2>3. QED
      BY <2>1, <2>2 DEF Max2
  <1>6. fall \in Nat
    BY <1>4, <1>5, NatTimes
  <1>7. fall \div Scale \in Int
    BY <1>1, <1>6
  <1>8. RampTarget(g) = IF g.phase = "exhausted" \/ g.ramp = NoTime THEN fallback
                        ELSE Max2(fallback, start - fall \div Scale)
    BY DEF RampTarget
  <1>9. ASSUME now >= g.ramp + RampMax PROVE start - fall \div Scale <= fallback
    <2>1. elapsed >= RampMax
      BY <1>4, <1>9
    <2> DEFINE over == start - fallback
    <2>2. over \in Nat
      BY <1>2, <1>3
    <2> HIDE DEF fallback, start, elapsed
    <2>3. rate * elapsed >= (over * PerDegree) * elapsed
      <3>1. over * PerDegree \in Nat
        BY <1>1, <2>2, NatTimes
      <3>2. \A a, b, c \in Nat : a >= b => a * c >= b * c
        OBVIOUS
      <3> HIDE DEF rate
      <3>3. QED
        BY <1>4, <1>5, <3>1, <3>2 DEF over
    <2>4. (over * PerDegree) * elapsed >= (over * PerDegree) * RampMax
      <3>1. over * PerDegree \in Nat
        BY <1>1, <2>2, NatTimes
      <3>2. \A a, b, c \in Nat : b >= c => a * b >= a * c
        OBVIOUS
      <3>3. QED
        BY <1>1, <1>4, <2>1, <3>1, <3>2
    <2>5. (over * PerDegree) * RampMax = over * Scale
      BY <1>1, <2>2 DEF Scale
    <2>6. fall >= over * Scale
      <3>1. over * Scale \in Nat
        BY <1>1, <2>2, NatTimes
      <3>2. (over * PerDegree) * elapsed \in Nat
        BY <1>1, <1>4, <2>2, NatTimes
      <3> HIDE DEF rate
      <3>3. QED
        BY <1>6, <2>3, <2>4, <2>5, <3>1, <3>2
    <2> HIDE DEF fall
    <2>7. fall \div Scale >= over
      BY <1>1, <1>6, <2>2, <2>6, Quotient
    <2>8. QED
      BY <1>2, <1>3, <1>7, <2>7 DEF over
  <1> HIDE DEF fallback, start, fall
  <1>10. QED
    BY <1>2, <1>3, <1>7, <1>8, <1>9 DEF Max2

-----------------------------------------------------------------------------
(* What one calculation makes of a guard.                                    *)

LEMMA MaxMin ==
  \A a, b \in Int : /\ Max2(a, b) \in {a, b} /\ Max2(a, b) >= a /\ Max2(a, b) >= b
                    /\ Min2(a, b) \in {a, b} /\ Min2(a, b) <= a /\ Min2(a, b) <= b
  BY DEF Max2, Min2

LEMMA NewGuardTyped == NewGuard \in Guard /\ \A at \in Nat : Timely(NewGuard, at)
  BY GuardAssumption DEF NewGuard, Guard, Phases, Time, NoTime, Timely

\* The guards that a calculation builds from others.
LEMMA GuardExhausts ==
  ASSUME NEW g \in Guard, NEW p \in Phases
  PROVE  [g EXCEPT !.phase = p] \in Guard
  BY DEF Guard

LEMMA GuardRests ==
  ASSUME NEW g \in Guard, NEW p \in Phases, NEW a \in Time, NEW b \in Time
  PROVE  [g EXCEPT !.phase = p, !.started = a, !.evidence = b] \in Guard
  BY DEF Guard

LEMMA GuardBegins ==
  ASSUME NEW g \in Guard, NEW p \in Phases, NEW a \in Time, NEW b \in Time
  PROVE  [g EXCEPT !.phase = p, !.started = a, !.report = b, !.evidence = b] \in Guard
  BY DEF Guard

LEMMA GuardRestores ==
  ASSUME NEW g \in Guard, NEW p \in Phases, NEW b \in Time
  PROVE  [g EXCEPT !.phase = p, !.evidence = b] \in Guard
  BY DEF Guard

LEMMA GuardRamps ==
  ASSUME NEW g \in Guard, NEW p \in Phases, NEW a \in Time, NEW start \in Nat
  PROVE  [g EXCEPT !.phase = p, !.ramp = a, !.start = start] \in Guard
  BY DEF Guard

LEMMA PhaseNames == /\ {"idle", "monitoring", "stale_start", "ramp", "exhausted"} \subseteq Phases
                    /\ NoTime \in Time
  BY GuardAssumption DEF Phases, Time, NoTime

LEMMA RenewedFacts ==
  ASSUME TypeInv, NEW demand \in BOOLEAN, NEW g, g = Renewed(guard, demand)
  PROVE  /\ g \in Guard /\ Timely(g, now)
         /\ ~Ahead(report, g)
         /\ ~Ahead(report, guard) => g = guard
  <1>1. now \in Nat /\ 1 <= now /\ now \in Time /\ report \in 0 .. now /\ report \in Time
        /\ guard \in Guard /\ Timely(guard, now)
    BY GuardAssumption DEF TypeInv, Time
  <1>2. CASE Ahead(report, guard)
    <2> DEFINE h == [NewGuard EXCEPT !.phase = IF demand THEN "monitoring" ELSE "idle",
                          !.started = IF demand THEN now ELSE NoTime,
                          !.report = report, !.evidence = report]
    <2>1. g = h
      BY <1>1, <1>2 DEF Renewed, Ahead, NoTime, Guard, Time
    <2>2. h \in Guard
      <3> DEFINE p == IF demand THEN "monitoring" ELSE "idle"
                 a == IF demand THEN now ELSE NoTime
      <3>1. p \in Phases /\ a \in Time
        BY <1>1, PhaseNames
      <3>2. h = [NewGuard EXCEPT !.phase = p, !.started = a, !.report = report, !.evidence = report]
        OBVIOUS
      <3> HIDE DEF p, a, h
      <3>3. QED
        <4>1. report \in Time /\ NewGuard \in Guard
          BY <1>1, NewGuardTyped
        <4>2. [NewGuard EXCEPT !.phase = p, !.started = a, !.report = report, !.evidence = report]
                \in Guard
          BY <3>1, <4>1, GuardBegins, Zenon
        <4>3. QED
          BY <3>2, <4>2, Zenon
    <2>3. h.started = (IF demand THEN now ELSE NoTime) /\ h.report = report /\ h.evidence = report
          /\ h.ramp = NoTime /\ h.phase \in {"monitoring", "idle"}
          /\ (h.phase = "monitoring" => demand)
      BY DEF NewGuard
    <2>4. QED
      BY <1>1, <1>2, <2>1, <2>2, <2>3 DEF Timely, Ahead, NoTime
  <1>3. CASE ~Ahead(report, guard)
    <2>1. g = guard
      BY <1>1, <1>3 DEF Renewed, Ahead, NoTime
    <2>2. QED
      BY <1>1, <1>3, <2>1
  <1>4. QED
    BY <1>2, <1>3

LEMMA RestedFacts ==
  ASSUME TypeInv, report # NoTime, NEW g \in Guard, Timely(g, now), ~Ahead(report, g),
         NEW h, h = Rested(g)
  PROVE  /\ h \in Guard /\ Timely(h, now) /\ ~Ahead(report, h)
         /\ Withdrawing(g) => Withdrawing(h)
         /\ h.phase \in {"idle", "exhausted"}
  <1>1. now \in Nat /\ report \in 0 .. now /\ report \in Time
    BY GuardAssumption DEF TypeInv, Time
  <1>2. h = [g EXCEPT !.phase = IF Withdrawing(g) THEN "exhausted" ELSE "idle",
                      !.started = NoTime,
                      !.evidence = IF g.evidence = NoTime THEN report ELSE g.evidence]
    BY DEF Rested
  <1>3. h \in Guard
    <2> DEFINE p == IF Withdrawing(g) THEN "exhausted" ELSE "idle"
               b == IF g.evidence = NoTime THEN report ELSE g.evidence
    <2>1. p \in Phases /\ b \in Time
      <3>1. g.evidence \in Time
        BY DEF Guard
      <3>2. QED
        BY <1>1, <3>1, PhaseNames
    <2>2. h = [g EXCEPT !.phase = p, !.started = NoTime, !.evidence = b]
      BY <1>2
    <2> HIDE DEF p, b
    <2>3. QED
      <3>1. [g EXCEPT !.phase = p, !.started = NoTime, !.evidence = b] \in Guard
        BY <2>1, PhaseNames, GuardRests, Zenon
      <3>2. QED
        BY <2>2, <3>1, Zenon
  <1>4. /\ h.phase = (IF Withdrawing(g) THEN "exhausted" ELSE "idle")
        /\ h.started = NoTime /\ h.report = g.report /\ h.ramp = g.ramp
        /\ h.evidence = IF g.evidence = NoTime THEN report ELSE g.evidence
    BY <1>2 DEF Guard
  <1>5. QED
    BY <1>1, <1>3, <1>4 DEF Timely, Ahead, NoTime, Withdrawing

LEMMA BegunFacts ==
  ASSUME TypeInv, report # NoTime, NEW g \in Guard, Timely(g, now), ~Ahead(report, g),
         NEW stale \in BOOLEAN, NEW h, h = Begun(g, stale)
  PROVE  /\ h \in Guard /\ Timely(h, now) /\ ~Ahead(report, h)
         /\ h.phase # "idle" /\ (g.phase # "idle" => h = g)
  <1>1. now \in Nat /\ 1 <= now /\ now \in Time /\ report \in 0 .. now /\ report \in Time
    BY GuardAssumption DEF TypeInv, Time
  <1>2. CASE g.phase = "idle"
    <2>1. h = [g EXCEPT !.phase = IF stale THEN "stale_start" ELSE "monitoring",
                        !.started = now, !.report = report, !.evidence = report]
      BY <1>2 DEF Begun
    <2>2. h \in Guard
      <3> DEFINE p == IF stale THEN "stale_start" ELSE "monitoring"
      <3>1. p \in Phases
        BY PhaseNames
      <3>2. h = [g EXCEPT !.phase = p, !.started = now, !.report = report, !.evidence = report]
        BY <2>1
      <3> HIDE DEF p
      <3>3. QED
        <4>1. report \in Time /\ now \in Time
          BY <1>1
        <4>2. [g EXCEPT !.phase = p, !.started = now, !.report = report, !.evidence = report] \in Guard
          BY <3>1, <4>1, GuardBegins, Zenon
        <4>3. QED
          BY <3>2, <4>2, Zenon
    <2>3. /\ h.phase \in {"stale_start", "monitoring"}
          /\ h.started = now /\ h.report = report /\ h.ramp = g.ramp /\ h.evidence = report
      BY <2>1 DEF Guard
    <2>4. QED
      BY <1>1, <1>2, <2>2, <2>3 DEF Timely, Ahead, NoTime
  <1>3. CASE g.phase # "idle"
    BY <1>3 DEF Begun
  <1>4. QED
    BY <1>2, <1>3

\* The deadline of a guard that runs and the ramp that begins there.
LEMMA DeadlineFacts ==
  ASSUME NEW g \in Guard, Timely(g, now), now \in Nat,
         g.phase \in {"monitoring", "stale_start"}
  PROVE  /\ Deadline(g) \in Nat \ {0}
         /\ \A t \in Nat : g.started <= t /\ g.report <= t => Deadline(g) <= t + Max2(Active, Trial)
  <1>1. Active \in Nat \ {0} /\ Trial \in Nat \ {0}
    BY GuardAssumption
  <1>2. g.started \in Nat /\ g.report \in Nat /\ g.started # NoTime
    BY DEF Timely, NoTime
  <1>3. Deadline(g) = IF g.phase = "stale_start" THEN g.started + Trial
                      ELSE Active + Max2(g.started, g.report)
    BY <1>2 DEF Deadline
  <1>4. QED
    BY <1>1, <1>2, <1>3, MaxMin

LEMMA DemandedFacts ==
  ASSUME TypeInv, NEW g \in Guard, Timely(g, now), ~Ahead(report, g), g.phase # "idle",
         NEW ask \in Nat, NEW h, h = Demanded(g, ask)
  PROVE  /\ h \in Guard /\ Timely(h, now) /\ ~Ahead(report, h)
         /\ h.phase # "idle"
         /\ Withdrawing(g) => Withdrawing(h)
         /\ h.phase \in {"monitoring", "stale_start"} => h = g /\ now < Deadline(h)
         /\ h.phase = "ramp" => h = g \/ (~Withdrawing(g) /\ h.ramp = Deadline(g))
  <1>1. now \in Nat /\ now \in Time /\ g.phase \in Phases
    <2>1. now \in Nat /\ now \in Time
      BY GuardAssumption DEF TypeInv, Time
    <2>2. g.phase \in Phases
      BY DEF Guard
    <2>3. QED
      BY <2>1, <2>2
  <1>2. CASE g.phase = "ramp" /\ (g.ramp = NoTime \/ now >= g.ramp + RampMax)
    <2>1. h = [g EXCEPT !.phase = "exhausted"]
      BY <1>2 DEF Demanded, Withdrawing
    <2>2. h \in Guard
      BY <2>1, PhaseNames, GuardExhausts, Zenon
    <2>3. /\ h.phase = "exhausted" /\ h.started = g.started /\ h.report = g.report
          /\ h.ramp = g.ramp /\ h.evidence = g.evidence
      BY <2>1 DEF Guard
    <2>4. QED
      BY <2>2, <2>3 DEF Timely, Ahead, Withdrawing
  <1>3. CASE ~Withdrawing(g) /\ now >= Deadline(g)
    <2>0. g.phase \in {"monitoring", "stale_start"}
      BY <1>1, <1>3 DEF Withdrawing, Phases
    <2>1. Deadline(g) \in Nat \ {0} /\ Deadline(g) <= now
      BY <1>1, <1>3, <2>0, DeadlineFacts
    <2>2. h = [g EXCEPT !.phase = "ramp", !.ramp = Deadline(g), !.start = ask]
      BY <1>3, <2>0 DEF Demanded, RampBegin
    <2>3. Deadline(g) \in Time
      BY <1>1, <2>1, GuardAssumption DEF Time
    <2>4. h \in Guard
      <3>1. "ramp" \in Phases
        BY PhaseNames
      <3>2. [g EXCEPT !.phase = "ramp", !.ramp = Deadline(g), !.start = ask] \in Guard
        BY <2>3, <3>1, GuardRamps, Zenon
      <3>3. QED
        BY <2>2, <3>2, Zenon
    <2>5. /\ h.phase = "ramp" /\ h.started = g.started /\ h.report = g.report
          /\ h.ramp = Deadline(g) /\ h.evidence = g.evidence
      BY <2>2 DEF Guard
    <2>6. QED
      BY <1>1, <1>3, <2>1, <2>4, <2>5 DEF Timely, Ahead, Withdrawing, NoTime
  <1>4. CASE /\ ~(g.phase = "ramp" /\ (g.ramp = NoTime \/ now >= g.ramp + RampMax))
             /\ ~(~Withdrawing(g) /\ now >= Deadline(g))
    <2>1. h = g
      BY <1>4 DEF Demanded
    <2>2. g.phase \in {"monitoring", "stale_start"} => Deadline(g) \in Nat
      BY <1>1, DeadlineFacts
    <2>3. QED
      BY <1>1, <1>4, <2>1, <2>2 DEF Withdrawing
  <1>5. QED
    BY <1>2, <1>3, <1>4

\* What a calculation makes of the guard in force.
LEMMA AdvanceFacts ==
  ASSUME TypeInv, report # NoTime, NEW stale \in BOOLEAN, NEW demand \in BOOLEAN, NEW ask \in Nat,
         NEW g, g = Advance(guard, stale, demand, ask)
  PROVE  /\ g \in Guard /\ Timely(g, now) /\ ~Ahead(report, g)
         /\ ~Ahead(report, guard) /\ Withdrawing(guard) => Withdrawing(g)
         /\ demand => /\ g.phase # "idle"
                      /\ g.phase \in {"monitoring", "stale_start"} => now < Deadline(g)
         /\ demand /\ ~Ahead(report, guard) =>
              \A t \in Nat : Due(guard, t) => Due(g, t)
  <1> DEFINE r == Renewed(guard, demand)
             b == Begun(r, stale)
  <1>1. r \in Guard /\ Timely(r, now) /\ ~Ahead(report, r) /\ (~Ahead(report, guard) => r = guard)
    BY RenewedFacts
  <1>2. g = IF demand THEN Demanded(b, ask) ELSE Rested(r)
    BY DEF Advance
  <1> HIDE DEF r
  <1>3. b \in Guard /\ Timely(b, now) /\ ~Ahead(report, b) /\ b.phase # "idle"
        /\ (r.phase # "idle" => b = r)
    BY <1>1, BegunFacts
  <1> HIDE DEF b
  <1>4. CASE ~demand
    <2>1. g = Rested(r)
      BY <1>2, <1>4
    <2>2. /\ g \in Guard /\ Timely(g, now) /\ ~Ahead(report, g)
          /\ Withdrawing(r) => Withdrawing(g)
      BY <1>1, <2>1, RestedFacts
    <2>3. QED
      BY <1>1, <1>4, <2>2
  <1>5. CASE demand
    <2>1. g = Demanded(b, ask)
      BY <1>2, <1>5
    <2>2. /\ g \in Guard /\ Timely(g, now) /\ ~Ahead(report, g)
          /\ g.phase # "idle"
          /\ Withdrawing(b) => Withdrawing(g)
          /\ g.phase \in {"monitoring", "stale_start"} => g = b /\ now < Deadline(g)
          /\ g.phase = "ramp" => g = b \/ (~Withdrawing(b) /\ g.ramp = Deadline(b))
      BY <1>3, <2>1, DemandedFacts
    <2>3. ASSUME ~Ahead(report, guard), Withdrawing(guard) PROVE Withdrawing(g)
      <3>1. r = guard /\ guard.phase # "idle"
        BY <1>1, <2>3 DEF Withdrawing
      <3>2. QED
        BY <1>3, <2>2, <2>3, <3>1
    <2>4. ASSUME ~Ahead(report, guard), NEW t \in Nat, Due(guard, t) PROVE Due(g, t)
      <3>1. b = guard
        BY <1>1, <1>3, <2>4 DEF Due
      <3>2. CASE g.phase = "ramp" /\ ~Withdrawing(b) /\ g.ramp = Deadline(b)
        <4>1. b.phase \in Phases
          BY <1>3 DEF Guard
        <4>2. b.phase \in {"monitoring", "stale_start"}
          BY <1>3, <3>2, <4>1 DEF Withdrawing, Phases
        <4>3. now \in Nat
          BY DEF TypeInv
        <4>4. b.started <= t /\ b.report <= t
          BY <2>4, <3>1, <4>2 DEF Due
        <4>5. Deadline(b) <= t + Max2(Active, Trial)
          BY <1>3, <4>2, <4>3, <4>4, DeadlineFacts
        <4>6. QED
          BY <3>2, <4>5 DEF Due
      <3>3. CASE g.phase # "ramp" \/ g = b
        BY <2>2, <2>4, <3>1, <3>3 DEF Due
      <3>4. QED
        BY <2>2, <3>2, <3>3
    <2>5. QED
      BY <1>5, <2>2, <2>3, <2>4
  <1>6. QED
    BY <1>4, <1>5

-----------------------------------------------------------------------------
(* The tasks on their way.                                                   *)

CommandOf(g, want, demand) == [want |-> want, guard |-> g, demand |-> demand, current |-> TRUE]

LEMMA InAppend ==
  ASSUME NEW S, NEW s \in Seq(S), NEW e \in S, NEW c, In(c, Append(s, e))
  PROVE  In(c, s) \/ c = e
  <1>1. PICK i \in 1 .. Len(Append(s, e)) : c = Append(s, e)[i]
    BY DEF In
  <1>2. CASE i = Len(s) + 1
    BY <1>1, <1>2
  <1>3. CASE i # Len(s) + 1
    <2>1. i \in 1 .. Len(s) /\ c = s[i]
      BY <1>1, <1>3
    <2>2. QED
      BY <2>1 DEF In
  <1>4. QED
    BY <1>2, <1>3

LEMMA InHead ==
  ASSUME NEW S, NEW s \in Seq(S), s # <<>>
  PROVE  /\ Head(s) \in S /\ In(Head(s), s) /\ Tail(s) \in Seq(S) /\ Len(Tail(s)) = Len(s) - 1
         /\ \A c : In(c, Tail(s)) => In(c, s)
  <1>1. Head(s) = s[1] /\ Len(s) \in Nat /\ 1 \in 1 .. Len(s) /\ Head(s) \in S
        /\ Tail(s) \in Seq(S) /\ Len(Tail(s)) = Len(s) - 1
    OBVIOUS
  <1>2. ASSUME NEW c, In(c, Tail(s)) PROVE In(c, s)
    <2>1. PICK i \in 1 .. Len(Tail(s)) : c = Tail(s)[i]
      BY <1>2 DEF In
    <2>2. i + 1 \in 1 .. Len(s) /\ c = s[i + 1]
      BY <1>1, <2>1
    <2>3. QED
      BY <2>2 DEF In
  <1>3. QED
    BY <1>1, <1>2 DEF In

LEMMA InEmpty == \A c : ~In(c, <<>>)
  BY DEF In

LEMMA InOvertaken ==
  ASSUME NEW s \in Seq(Command)
  PROVE  /\ Overtaken(s) \in Seq(Command)
         /\ \A c : In(c, Overtaken(s)) =>
              \E d \in Command : In(d, s) /\ c = [d EXCEPT !.current = FALSE]
  <1> DEFINE o == Overtaken(s)
  <1>1. o = [i \in 1 .. Len(s) |-> [s[i] EXCEPT !.current = FALSE]]
    BY DEF Overtaken
  <1>2. \A d \in Command : [d EXCEPT !.current = FALSE] \in Command
    BY DEF Command
  <1>3. \A i \in 1 .. Len(s) : s[i] \in Command
    OBVIOUS
  <1>4. o \in Seq(Command) /\ Len(o) = Len(s)
    <2>1. \A i \in 1 .. Len(s) : [s[i] EXCEPT !.current = FALSE] \in Command
      BY <1>2, <1>3
    <2> HIDE DEF o
    <2>2. QED
      BY <1>1, <2>1
  <1> HIDE DEF o
  <1>5. ASSUME NEW c, In(c, o)
        PROVE  \E d \in Command : In(d, s) /\ c = [d EXCEPT !.current = FALSE]
    <2>1. PICK i \in 1 .. Len(o) : c = o[i]
      BY <1>5 DEF In
    <2>2. c = [s[i] EXCEPT !.current = FALSE] /\ i \in 1 .. Len(s)
      BY <1>1, <1>4, <2>1
    <2>3. QED
      BY <1>3, <2>2 DEF In
  <1>6. QED
    BY <1>4, <1>5 DEF o

\* A calculation hands one new command to the tasks.
LEMMA HandedFacts ==
  ASSUME TypeInv, NEW g \in Guard, NEW want \in Nat, NEW demand \in BOOLEAN,
         Handed(g, want, demand)
  PROVE  /\ guard' = g
         /\ mem' = g \/ (mem' = mem /\ g = guard)
         /\ saving' \in Seq(Command) /\ sending' \in Seq(Command)
         /\ CommandOf(g, want, demand) \in Command
         /\ \A c : In(c, saving') \/ In(c, sending') =>
              In(c, saving) \/ In(c, sending) \/ c = CommandOf(g, want, demand)
  <1> DEFINE e == CommandOf(g, want, demand)
  <1>1. e \in Command
    BY DEF CommandOf, Command
  <1>2. saving \in Seq(Command) /\ sending \in Seq(Command)
    BY DEF TypeInv
  <1>3. /\ guard' = g
        /\ \/ g # guard /\ mem' = g /\ saving' = Append(saving, e) /\ sending' = sending
           \/ g = guard /\ mem' = mem /\ saving' = saving /\ sending' = Append(sending, e)
    BY DEF Handed, CommandOf
  <1> HIDE DEF e
  <1>4. Append(saving, e) \in Seq(Command) /\ Append(sending, e) \in Seq(Command)
    BY <1>1, <1>2
  <1>5. \A c : (In(c, Append(saving, e)) => In(c, saving) \/ c = e)
            /\ (In(c, Append(sending, e)) => In(c, sending) \/ c = e)
    BY <1>1, <1>2, InAppend
  <1>6. QED
    BY <1>1, <1>2, <1>3, <1>4, <1>5 DEF e

-----------------------------------------------------------------------------
(* The steps.                                                                *)

\* The guard that a start makes of a stored one and of the last valid outputs.
StartGuard(d, at) == IF d # NoGuard THEN d
                     ELSE IF at # NoTime
                       THEN [NewGuard EXCEPT !.phase = "exhausted", !.evidence = at]
                     ELSE NewGuard

LEMMA StartGuardFacts ==
  ASSUME NEW at \in Nat, at <= MaxClock, NEW t \in Nat, at <= t
  PROVE  /\ \A d : d # NoGuard => StartGuard(d, at) = d
         /\ at # NoTime => /\ StartGuard(NoGuard, at) \in Guard
                           /\ StartGuard(NoGuard, at).phase = "exhausted"
                           /\ Timely(StartGuard(NoGuard, at), t)
         /\ at = NoTime => StartGuard(NoGuard, at) = NewGuard
         /\ StartGuard(NoGuard, at) \in Guard /\ Timely(StartGuard(NoGuard, at), t)
  <1> DEFINE h == [NewGuard EXCEPT !.phase = "exhausted", !.evidence = at]
  <1>1. at \in Time /\ "exhausted" \in Phases
    BY PhaseNames, GuardAssumption DEF Time
  <1>2. h \in Guard
    BY <1>1, NewGuardTyped, GuardRestores, Zenon
  <1>3. /\ h.phase = "exhausted" /\ h.started = 0 /\ h.report = 0 /\ h.ramp = 0 /\ h.evidence = at
    BY DEF NewGuard, NoTime
  <1>4. Timely(h, t)
    BY <1>3 DEF Timely
  <1>5. /\ \A d : d # NoGuard => StartGuard(d, at) = d
        /\ at # NoTime => StartGuard(NoGuard, at) = h
        /\ at = NoTime => StartGuard(NoGuard, at) = NewGuard
    BY DEF StartGuard
  <1> HIDE DEF h
  <1>6. QED
    BY <1>2, <1>3, <1>4, <1>5, NewGuardTyped

LEMMA RestoredIs ==
  /\ Restored = StartGuard(disk, lastValid)
  /\ Restored' = StartGuard(disk', lastValid')
  BY DEF Restored, StartGuard

\* What is in memory would be restored as a guard that withdraws, if the one in
\* force does, and in time.
LEMMA InMemory ==
  ASSUME TypeInv, Kept, up
  PROVE  /\ StartGuard(mem, lastValid) \in Guard
         /\ Withdrawing(guard) => Withdrawing(StartGuard(mem, lastValid))
         /\ \A t \in Nat : Due(guard, t) /\ (mem # NoGuard => Due(mem, t))
              => Due(StartGuard(mem, lastValid), t)
  <1>1. lastValid \in Nat /\ lastValid <= MaxClock /\ lastValid <= now /\ now \in Nat
    BY GuardAssumption DEF TypeInv
  <1>2. CASE mem # NoGuard
    <2>1. StartGuard(mem, lastValid) = mem /\ mem \in Guard
      BY <1>1, <1>2, StartGuardFacts DEF TypeInv
    <2>2. QED
      BY <1>2, <2>1 DEF Kept, Withdrawing
  <1>3. CASE mem = NoGuard
    <2>1. guard = NewGuard \/ (guard.phase = "exhausted" /\ lastValid # NoTime)
      BY <1>3 DEF Kept
    <2>2. StartGuard(mem, lastValid) \in Guard
          /\ (lastValid # NoTime => StartGuard(mem, lastValid).phase = "exhausted")
      BY <1>1, <1>3, StartGuardFacts
    <2>3. NewGuard.phase = "idle"
      BY DEF NewGuard
    <2>4. QED
      BY <2>1, <2>2, <2>3 DEF Withdrawing, Due
  <1>4. QED
    BY <1>2, <1>3

\* A command that was on its way before fits still.
Refits == \A c \in Command : (In(c, saving) \/ In(c, sending)) /\ Fits(c) => Fits(c)'

LEMMA HandedStep ==
  ASSUME IInv, NEW g \in Guard, NEW want \in Nat, NEW demand \in BOOLEAN,
         Handed(g, want, demand), Refits, Fits(CommandOf(g, want, demand))'
  PROVE  OnTheWay'
  <1>1. \A c : In(c, saving') \/ In(c, sending') =>
              In(c, saving) \/ In(c, sending) \/ c = CommandOf(g, want, demand)
    BY HandedFacts DEF IInv
  <1>2. \A c \in Command : In(c, saving) \/ In(c, sending) => Fits(c)
    BY DEF IInv, OnTheWay
  <1>3. ASSUME NEW c \in Command, In(c, saving') \/ In(c, sending') PROVE Fits(c)'
    BY <1>1, <1>2, <1>3 DEF Refits
  <1>4. QED
    BY <1>3 DEF OnTheWay

\* A calculation whose guard starts over only on a report: whatever it is of the
\* rest of the program that made g and want.
LEMMA CalculatedStep ==
  ASSUME IInv, NEW g \in Guard, NEW want \in Nat, NEW demand \in BOOLEAN,
         up, report # NoTime, primary = "valid", Handed(g, want, demand),
         since' = IF demand THEN since ELSE NoTime,
         UNCHANGED <<up, now, report, primary, disk, lastValid, settled, target, cold, trial,
                     crashes>>,
         Timely(g, now), ~Ahead(report, g),
         ~Ahead(report, guard) /\ Withdrawing(guard) => Withdrawing(g),
         demand => /\ g.phase # "idle"
                   /\ g.phase \in {"monitoring", "stale_start"} => now < Deadline(g),
         demand /\ ~Ahead(report, guard) => \A t \in Nat : Due(guard, t) => Due(g, t),
         g.phase = "exhausted" \/ (g.phase = "ramp" /\ now >= g.ramp + RampMax)
           => want <= Fallback * Scale,
         Withdrawing(g) => want <= target
  PROVE  IInv'
  <1> USE DEF IInv
  <1>1. /\ up' = up /\ now' = now /\ report' = report /\ primary' = primary /\ disk' = disk
        /\ lastValid' = lastValid /\ settled' = settled /\ target' = target /\ cold' = cold
        /\ trial' = trial /\ crashes' = crashes
    OBVIOUS
  <1>2. g # NoGuard
    BY DEF Guard, NoGuard, Phases
  <1>3. /\ guard' = g
        /\ mem' = g \/ (mem' = mem /\ g = guard)
        /\ saving' \in Seq(Command) /\ sending' \in Seq(Command)
    BY HandedFacts
  <1>4. TypeInv'
    BY <1>1, <1>3 DEF TypeInv, NoTime
  <1>5. Kept'
    BY <1>1, <1>2, <1>3 DEF Kept
  <1>6. Withdrawn'
    <2>1. Restored' = Restored
      BY <1>1 DEF Restored
    <2>2. ASSUME cold PROVE Withdrawing(g)
      BY <2>2 DEF Withdrawn
    <2>3. QED
      BY <1>1, <1>3, <2>1, <2>2 DEF Withdrawn
  <1>7. InTime'
    <2>1. Restored' = Restored
      BY <1>1 DEF Restored
    <2>2. ASSUME since' # NoTime
          PROVE  /\ since' = since /\ Due(Restored, since) /\ Due(g, since)
                 /\ mem' # NoGuard => Due(mem', since)
                 /\ mem' = NoGuard => g.phase = "exhausted" /\ lastValid # NoTime
      <3>1. demand /\ since' = since /\ since # NoTime /\ since \in Nat
        BY <2>2 DEF TypeInv
      <3>2. Due(g, since)
        BY <3>1 DEF InTime
      <3>3. QED
        BY <1>2, <1>3, <3>1, <3>2 DEF InTime
    <2>3. QED
      BY <1>1, <1>3, <2>1, <2>2 DEF InTime
  <1>8. Refits
    <2>1. ASSUME NEW c \in Command, Fits(c), In(c, saving) \/ In(c, sending)
          PROVE  Fits(c)'
      <3>1. c.current /\ Withdrawing(c.guard) => Withdrawing(g)
        BY <2>1 DEF Fits
      <3>2. Deadline(c.guard)' = Deadline(c.guard)
        BY <1>1 DEF Deadline
      <3>3. QED
        BY <1>1, <1>3, <2>1, <3>1, <3>2 DEF Fits
    <2>2. QED
      BY <2>1 DEF Refits
  <1>9. ASSUME NEW c \in Command, c = CommandOf(g, want, demand) PROVE Fits(c)'
    <2>1. c.want = want /\ c.guard = g /\ c.demand = demand /\ c.current = TRUE
      BY <1>9 DEF CommandOf
    <2>2. Deadline(g)' = Deadline(g)
      BY <1>1 DEF Deadline
    <2>3. cold => want <= settled
      <3>1. ASSUME cold PROVE Withdrawing(g) /\ target <= settled
        BY <3>1 DEF Withdrawn
      <3>2. target \in Nat /\ settled \in Nat
        BY DEF TypeInv
      <3>3. QED
        BY <3>1, <3>2
    <2>4. QED
      BY <1>1, <1>3, <2>1, <2>2, <2>3 DEF Fits
  <1>10. OnTheWay'
    <2>1. CommandOf(g, want, demand) \in Command
      BY HandedFacts
    <2>2. Fits(CommandOf(g, want, demand))'
      BY <1>9, <2>1
    <2>3. QED
      BY <1>8, <2>2, HandedStep
  <1>11. QED
    BY <1>4, <1>5, <1>6, <1>7, <1>10

LEMMA CalculateStep ==
  ASSUME IInv, Calculate
  PROVE  IInv'
  <1> USE DEF IInv
  <1>1. PICK heat \in Heats, stale \in BOOLEAN :
          LET ask == Scale * heat
              g == Advance(guard, stale, Demands(ask), ask)
          IN  /\ CanApply /\ primary = "valid"
              /\ stale => now - report >= Fresh
              /\ Handed(g, IF Withdrawing(g) THEN Min2(Min2(ask, RampTarget(g)), target) ELSE ask,
                        Demands(ask))
              /\ since' = IF Demands(ask) THEN since ELSE NoTime
              /\ UNCHANGED <<up, now, report, primary, disk, lastValid, settled, target, cold,
                             trial, crashes>>
    BY DEF Calculate
  <1> DEFINE ask == Scale * heat
             demand == Demands(ask)
             g == Advance(guard, stale, demand, ask)
             want == IF Withdrawing(g) THEN Min2(Min2(ask, RampTarget(g)), target) ELSE ask
  <1>2. ask \in Nat
    <2>1. heat \in Nat
      BY GuardAssumption
    <2>2. QED
      BY <2>1, ScalePositive, NatTimes
  <1>3. demand \in BOOLEAN
    BY DEF Demands
  <1>4. /\ up /\ report # NoTime /\ primary = "valid"
        /\ Handed(g, want, demand)
        /\ since' = IF demand THEN since ELSE NoTime
        /\ up' = up /\ now' = now /\ report' = report /\ primary' = primary /\ disk' = disk
        /\ lastValid' = lastValid /\ settled' = settled /\ target' = target /\ cold' = cold
        /\ trial' = trial /\ crashes' = crashes
    BY <1>1 DEF CanApply
  <1> HIDE DEF demand, ask
  <1>5. /\ g \in Guard /\ Timely(g, now) /\ ~Ahead(report, g)
        /\ ~Ahead(report, guard) /\ Withdrawing(guard) => Withdrawing(g)
        /\ demand => /\ g.phase # "idle"
                     /\ g.phase \in {"monitoring", "stale_start"} => now < Deadline(g)
        /\ demand /\ ~Ahead(report, guard) => \A t \in Nat : Due(guard, t) => Due(g, t)
    BY <1>2, <1>3, <1>4, AdvanceFacts
  <1> HIDE DEF g
  <1>6. /\ RampTarget(g) \in Nat
        /\ (g.phase = "exhausted" \/ g.ramp = NoTime \/ now >= g.ramp + RampMax)
             => RampTarget(g) = Fallback * Scale
    BY <1>5, RampEnds
  <1>7. /\ want \in Nat
        /\ Withdrawing(g) => want <= RampTarget(g) /\ want <= target
    <2>1. target \in Nat
      BY DEF TypeInv
    <2>2. QED
      BY <1>2, <1>6, <2>1 DEF Min2
  <1> HIDE DEF want
  <1>8. g.phase = "exhausted" \/ (g.phase = "ramp" /\ now >= g.ramp + RampMax)
          => want <= Fallback * Scale
    BY <1>6, <1>7 DEF Withdrawing
  <1>9. QED
    BY <1>3, <1>4, <1>5, <1>7, <1>8, CalculatedStep

\* The withdrawal on an invalid primary begins.
LEMMA InvalidBeginsStep ==
  ASSUME IInv, InvalidBegins
  PROVE  IInv'
  <1> USE DEF IInv
  <1>1. PICK g : g = [guard EXCEPT !.phase = "ramp", !.ramp = now, !.start = target]
    OBVIOUS
  <1>2. PICK want : want = Min2(target, RampTarget(g))
    OBVIOUS
  <1>3. /\ up /\ report # NoTime /\ primary # "valid" /\ ~Withdrawing(guard)
        /\ Handed(g, want, FALSE) /\ since' = NoTime
        /\ up' = up /\ now' = now /\ report' = report /\ primary' = primary /\ disk' = disk
        /\ lastValid' = lastValid /\ settled' = settled /\ target' = target /\ cold' = cold
        /\ trial' = trial /\ crashes' = crashes
    BY <1>1, <1>2 DEF InvalidBegins, CanApply
  <1>4. /\ guard \in Guard /\ Timely(guard, now) /\ now \in Time /\ now \in 1 .. MaxClock
        /\ target \in Nat /\ now \in Nat
    BY GuardAssumption DEF TypeInv, Time
  <1>5. g \in Guard
    <2>1. "ramp" \in Phases
      BY PhaseNames
    <2>2. [guard EXCEPT !.phase = "ramp", !.ramp = now, !.start = target] \in Guard
      BY <1>4, <2>1, GuardRamps, Zenon
    <2>3. QED
      BY <1>1, <2>2, Zenon
  <1>6. /\ g.phase = "ramp" /\ g.started = guard.started /\ g.report = guard.report
        /\ g.ramp = now /\ g.evidence = guard.evidence
    BY <1>1, <1>4 DEF Guard
  <1>7. Timely(g, now)
    BY <1>4, <1>6 DEF Timely, NoTime
  <1>8. want \in Nat
    <2>1. RampTarget(g) \in Nat
      BY <1>5, <1>7, RampEnds
    <2>2. QED
      BY <1>2, <1>4, <2>1 DEF Min2
  <1>9. g # NoGuard
    BY <1>5 DEF Guard, NoGuard, Phases
  <1>10. /\ guard' = g
         /\ mem' = g \/ (mem' = mem /\ g = guard)
         /\ saving' \in Seq(Command) /\ sending' \in Seq(Command)
         /\ CommandOf(g, want, FALSE) \in Command
    BY <1>3, <1>5, <1>8, HandedFacts
  <1>11. TypeInv'
    BY <1>3, <1>5, <1>7, <1>10 DEF TypeInv, NoTime
  <1>12. Kept'
    BY <1>3, <1>9, <1>10 DEF Kept
  <1>13. ~cold
    BY <1>3 DEF Withdrawn
  <1>14. Withdrawn' /\ InTime'
    BY <1>3, <1>13 DEF Withdrawn, InTime
  <1>15. ASSUME NEW c \in Command, Fits(c) PROVE Fits(c)'
    <2>1. Deadline(c.guard)' = Deadline(c.guard)
      BY <1>3 DEF Deadline
    <2>2. Withdrawing(g) /\ (Ahead(report, g) <=> Ahead(report, guard))
      BY <1>6 DEF Withdrawing, Ahead
    <2>3. QED
      BY <1>3, <1>10, <1>13, <1>15, <2>1, <2>2 DEF Fits
  <1>16. ASSUME NEW c \in Command, c = CommandOf(g, want, FALSE) PROVE Fits(c)'
    <2>1. c.guard = g /\ c.demand = FALSE /\ c.current = TRUE
      BY <1>16 DEF CommandOf
    <2>2. Withdrawing(g)
      BY <1>6 DEF Withdrawing
    <2>3. QED
      BY <1>3, <1>10, <1>13, <2>1, <2>2 DEF Fits
  <1>17. OnTheWay'
    <2>1. Refits
      BY <1>15 DEF Refits
    <2>2. Fits(CommandOf(g, want, FALSE))'
      BY <1>10, <1>16
    <2>3. FALSE \in BOOLEAN
      OBVIOUS
    <2>4. QED
      BY <1>3, <1>5, <1>8, <2>1, <2>2, <2>3, HandedStep
  <1>18. QED
    BY <1>11, <1>12, <1>14, <1>17

\* The withdrawal on an invalid primary goes on.
LEMMA InvalidContinuesStep ==
  ASSUME IInv, InvalidContinues
  PROVE  IInv'
  <1> USE DEF IInv
  <1>1. PICK g : g = IF guard.ramp # NoTime /\ now >= guard.ramp + RampMax
                       THEN [guard EXCEPT !.phase = "exhausted"] ELSE guard
    OBVIOUS
  <1>2. PICK want : want = Min2(target, RampTarget(g))
    OBVIOUS
  <1> DEFINE e == CommandOf(g, want, FALSE)
  <1>3. /\ up /\ report # NoTime /\ primary # "valid" /\ Withdrawing(guard)
        /\ guard' = g /\ sending' = Append(sending, e)
        /\ up' = up /\ now' = now /\ mem' = mem /\ report' = report /\ primary' = primary
        /\ disk' = disk /\ lastValid' = lastValid /\ saving' = saving /\ settled' = settled
        /\ target' = target /\ cold' = cold /\ since' = since
        /\ trial' = trial /\ crashes' = crashes
    BY <1>1, <1>2 DEF InvalidContinues, CanApply, CommandOf
  <1>4. guard \in Guard /\ Timely(guard, now) /\ target \in Nat /\ now \in Nat
    BY DEF TypeInv
  <1>5. g = guard \/ g = [guard EXCEPT !.phase = "exhausted"]
    BY <1>1
  <1>6. /\ g \in Guard /\ g.started = guard.started /\ g.report = guard.report
        /\ g.ramp = guard.ramp /\ g.evidence = guard.evidence
        /\ g = guard \/ g.phase = "exhausted"
    <2>1. "exhausted" \in Phases
      BY PhaseNames
    <2>2. [guard EXCEPT !.phase = "exhausted"] \in Guard
      BY <1>4, <2>1, GuardExhausts, Zenon
    <2>3. CASE g = guard
      BY <1>4, <2>3
    <2>4. CASE g = [guard EXCEPT !.phase = "exhausted"]
      BY <1>4, <2>2, <2>4 DEF Guard
    <2>5. QED
      BY <1>5, <2>3, <2>4
  <1>7. Timely(g, now) /\ Withdrawing(g) /\ ~(g.phase = "monitoring" \/ g.phase = "stale_start")
    BY <1>3, <1>4, <1>6 DEF Timely, Withdrawing
  <1>8. want \in Nat /\ want <= target
    <2>1. RampTarget(g) \in Nat
      BY <1>6, <1>7, RampEnds
    <2>2. QED
      BY <1>2, <1>4, <2>1 DEF Min2
  <1>9. e \in Command /\ e.guard = g /\ e.want = want /\ e.demand = FALSE /\ e.current = TRUE
    BY <1>6, <1>8 DEF CommandOf, Command
  <1> HIDE DEF e
  <1>10. /\ sending' \in Seq(Command)
         /\ \A c : In(c, sending') => In(c, sending) \/ c = e
    <2>1. sending \in Seq(Command)
      BY DEF TypeInv
    <2>2. QED
      BY <1>3, <1>9, <2>1, InAppend
  <1>11. TypeInv'
    BY <1>3, <1>6, <1>7, <1>10 DEF TypeInv
  <1>12. Kept'
    <2>1. NewGuard.phase = "idle"
      BY DEF NewGuard
    <2>2. mem = NoGuard => guard.phase = "exhausted" /\ lastValid # NoTime
      BY <1>3, <2>1 DEF Kept, Withdrawing
    <2>3. mem = NoGuard => g.phase = "exhausted"
      BY <1>6, <2>2
    <2>4. mem # NoGuard => mem = g \/ (Withdrawing(mem) /\ g.phase = "exhausted")
      BY <1>3, <1>6 DEF Kept
    <2>5. QED
      BY <1>3, <2>2, <2>3, <2>4 DEF Kept
  <1>13. Restored' = Restored
    BY <1>3 DEF Restored
  <1>14. Ahead(report, g) <=> Ahead(report, guard)
    BY <1>6 DEF Ahead
  <1>15. Withdrawn'
    BY <1>3, <1>7, <1>13, <1>14 DEF Withdrawn
  <1>16. InTime'
    <2>1. \A t \in Nat : Due(guard, t) => Due(g, t)
      BY <1>6 DEF Due
    <2>2. since \in Nat
      BY DEF TypeInv
    <2>3. mem = NoGuard /\ since # NoTime => g.phase = "exhausted" /\ lastValid # NoTime
      BY <1>3, <1>6 DEF InTime
    <2>4. QED
      BY <1>3, <1>13, <1>14, <2>1, <2>2, <2>3 DEF InTime
  <1>17. OnTheWay'
    <2>1. ASSUME NEW c \in Command, Fits(c) PROVE Fits(c)'
      <3>1. Deadline(c.guard)' = Deadline(c.guard)
        BY <1>3 DEF Deadline
      <3>2. QED
        BY <1>3, <1>7, <1>14, <2>1, <3>1 DEF Fits
    <2>2. ASSUME NEW c \in Command, c = e PROVE Fits(c)'
      <3>1. cold => c.want <= settled
        <4>1. settled \in Nat /\ (cold => target <= settled)
          BY DEF TypeInv, Withdrawn
        <4>2. QED
          BY <1>4, <1>8, <1>9, <2>2, <4>1
      <3>2. QED
        BY <1>3, <1>7, <1>9, <2>2, <3>1 DEF Fits
    <2>3. \A c \in Command : In(c, saving) \/ In(c, sending) => Fits(c)
      BY DEF OnTheWay
    <2>4. ASSUME NEW c \in Command, In(c, saving') \/ In(c, sending') PROVE Fits(c)'
      BY <1>3, <1>10, <2>1, <2>2, <2>3, <2>4
    <2>5. QED
      BY <2>4 DEF OnTheWay
  <1>18. QED
    BY <1>11, <1>12, <1>15, <1>16, <1>17

\* When tasks end and none begins, what remains fits if each of them does.
LEMMA FewerStep ==
  ASSUME OnTheWay,
         \A c \in Command : In(c, saving') \/ In(c, sending') => In(c, saving) \/ In(c, sending),
         saving' # <<>> \/ sending' # <<>> => \A c \in Command : Fits(c) => Fits(c)'
  PROVE  OnTheWay'
  <1>1. ASSUME NEW c \in Command, In(c, saving') \/ In(c, sending') PROVE Fits(c)'
    <2>1. saving' # <<>> \/ sending' # <<>>
      <3>1. ~In(c, <<>>)
        BY InEmpty
      <3>2. QED
        BY <1>1, <3>1
    <2>2. Fits(c)
      BY <1>1 DEF OnTheWay
    <2>3. QED
      BY <2>1, <2>2
  <1>2. QED
    BY <1>1 DEF OnTheWay

LEMMA SaveDoneStep ==
  ASSUME IInv, SaveDone
  PROVE  IInv'
  <1> USE DEF IInv
  <1>1. /\ saving # <<>> /\ saving' = Tail(saving)
        /\ disk' \in {disk, mem}
        /\ sending' = Append(sending, Head(saving)) \/ sending' = sending
        /\ up' = up /\ now' = now /\ guard' = guard /\ mem' = mem /\ report' = report
        /\ primary' = primary /\ lastValid' = lastValid /\ target' = target /\ cold' = cold
        /\ since' = since /\ trial' = trial /\ crashes' = crashes
        /\ settled' = IF saving' = <<>> /\ sending' = <<>> THEN target' ELSE settled
    BY DEF SaveDone, Settles, zone
  <1>2. up
    BY <1>1 DEF Kept, TypeInv
  <1>3. saving \in Seq(Command) /\ sending \in Seq(Command)
    BY DEF TypeInv
  <1>4. /\ Head(saving) \in Command /\ In(Head(saving), saving) /\ saving' \in Seq(Command)
        /\ \A c : In(c, saving') => In(c, saving)
    BY <1>1, <1>3, InHead
  <1>5. /\ sending' \in Seq(Command)
        /\ \A c : In(c, sending') => In(c, sending) \/ In(c, saving)
    <2>1. Append(sending, Head(saving)) \in Seq(Command)
      BY <1>3, <1>4
    <2>2. \A c : In(c, Append(sending, Head(saving))) => In(c, sending) \/ c = Head(saving)
      BY <1>3, <1>4, InAppend
    <2>3. QED
      BY <1>1, <1>3, <1>4, <2>1, <2>2
  <1>6. settled' \in {settled, target}
    BY <1>1
  <1>7. TypeInv'
    <2>1. disk' # NoGuard => disk' \in Guard /\ Timely(disk', now)
      BY <1>1 DEF TypeInv
    <2>2. settled' \in Nat
      BY <1>6 DEF TypeInv
    <2>3. QED
      BY <1>1, <1>4, <1>5, <2>1, <2>2 DEF TypeInv
  <1>8. Kept'
    BY <1>1, <1>2 DEF Kept
  <1>9. StartGuard(disk', lastValid) \in {Restored, StartGuard(mem, lastValid)}
    BY <1>1, RestoredIs
  <1>10. Restored' = StartGuard(disk', lastValid)
    BY <1>1, RestoredIs
  <1>11. Withdrawn'
    <2>1. cold => Withdrawing(Restored')
      BY <1>2, <1>9, <1>10, InMemory DEF Withdrawn
    <2>2. cold => target' <= settled'
      <3>1. target \in Nat
        BY DEF TypeInv
      <3>2. QED
        BY <1>1, <1>6, <3>1 DEF Withdrawn
    <2>3. QED
      BY <1>1, <2>1, <2>2 DEF Withdrawn
  <1>12. InTime'
    <2>1. since # NoTime => Due(Restored', since)
      <3>1. since \in Nat
        BY DEF TypeInv
      <3>2. QED
        BY <1>2, <1>9, <1>10, <3>1, InMemory DEF InTime
    <2>2. QED
      BY <1>1, <2>1 DEF InTime
  <1>13. OnTheWay'
    <2>1. ASSUME saving' # <<>> \/ sending' # <<>>, NEW c \in Command, Fits(c)
          PROVE  Fits(c)'
      <3>1. Deadline(c.guard)' = Deadline(c.guard)
        BY <1>1 DEF Deadline
      <3>2. settled' = settled
        BY <1>1, <2>1
      <3>3. QED
        BY <1>1, <2>1, <3>1, <3>2 DEF Fits
    <2>2. \A c \in Command : In(c, saving') \/ In(c, sending') => In(c, saving) \/ In(c, sending)
      BY <1>4, <1>5
    <2>3. QED
      BY <2>1, <2>2, FewerStep
  <1>14. QED
    BY <1>7, <1>8, <1>11, <1>12, <1>13

LEMMA SendStep ==
  ASSUME IInv, Send
  PROVE  IInv' /\ (cold => target' <= settled)
  <1> USE DEF IInv
  <1>1. PICK e : e = Head(sending)
    OBVIOUS
  <1>2. PICK sent \in BOOLEAN :
          /\ sending # <<>> /\ sending' = Tail(sending)
          /\ disk' = IF sent THEN mem ELSE disk
          /\ target' = IF sent THEN e.want ELSE target
          /\ LET counts == /\ e.current
                           /\ sent \/ (disk = mem /\ mem # NoGuard)
             IN  /\ cold' = (cold \/ (/\ counts /\ Withdrawing(e.guard)
                                       /\ saving = <<>> /\ Len(sending) = 1))
                 /\ since' = IF counts /\ e.demand /\ e.guard = guard /\ since = NoTime
                               THEN now ELSE since
                 /\ trial' = IF counts /\ e.guard.phase = "stale_start"
                               THEN e.guard.started ELSE trial
    BY <1>1 DEF Send
  <1>3. /\ up' = up /\ now' = now /\ guard' = guard /\ mem' = mem /\ report' = report
        /\ primary' = primary /\ lastValid' = lastValid /\ saving' = saving /\ crashes' = crashes
        /\ settled' = IF saving' = <<>> /\ sending' = <<>> THEN target' ELSE settled
    BY DEF Send, Settles, zone
  <1> DEFINE counts == e.current /\ (sent \/ (disk = mem /\ mem # NoGuard))
  <1>4. /\ cold' <=> (cold \/ (/\ counts /\ Withdrawing(e.guard)
                                /\ saving = <<>> /\ Len(sending) = 1))
        /\ since' = IF counts /\ e.demand /\ e.guard = guard /\ since = NoTime
                      THEN now ELSE since
        /\ trial' = IF counts /\ e.guard.phase = "stale_start" THEN e.guard.started ELSE trial
    BY <1>2
  <1>5. cold' \in BOOLEAN
    BY <1>2 DEF TypeInv
  <1>6. counts => e.current /\ (disk' = mem) /\ (mem = NoGuard => sent)
    BY <1>2
  <1> HIDE DEF counts
  <1>7. up /\ saving \in Seq(Command) /\ sending \in Seq(Command)
    BY <1>2 DEF Kept, TypeInv
  <1>8. /\ e \in Command /\ In(e, sending) /\ sending' \in Seq(Command)
        /\ Len(sending') = Len(sending) - 1
        /\ \A c : In(c, sending') => In(c, sending)
    BY <1>1, <1>2, <1>7, InHead
  <1>9. /\ e.want \in Nat /\ e.guard \in Guard
    BY <1>8 DEF Command
  <1>10. Fits(e)
    BY <1>8 DEF OnTheWay
  <1>11. target \in Nat /\ settled \in Nat /\ now \in 1 .. MaxClock /\ MaxClock \in Nat
         /\ since \in 0 .. now /\ now \in Nat
    BY GuardAssumption DEF TypeInv
  <1>12. target' \in Nat /\ settled' \in {settled, target'}
    BY <1>2, <1>3, <1>9, <1>11
  <1>13. TypeInv'
    <2>1. disk' # NoGuard => disk' \in Guard /\ Timely(disk', now)
      BY <1>2 DEF TypeInv
    <2>2. since' \in 0 .. now
      BY <1>4, <1>11
    <2>3. trial' \in Time
      <3>1. e.guard.started \in Time
        BY <1>9 DEF Guard
      <3>2. QED
        BY <1>4, <3>1 DEF TypeInv
    <2>4. settled' \in Nat
      BY <1>11, <1>12
    <2>5. QED
      BY <1>3, <1>5, <1>8, <1>12, <2>1, <2>2, <2>3, <2>4 DEF TypeInv
  <1>14. Kept'
    BY <1>2, <1>3, <1>7 DEF Kept
  <1>15. /\ Restored' = StartGuard(disk', lastValid)
         /\ StartGuard(disk', lastValid) \in {Restored, StartGuard(mem, lastValid)}
         /\ counts => Restored' = StartGuard(mem, lastValid)
    BY <1>2, <1>3, <1>6, RestoredIs
  <1>16. cold => target' <= settled
    BY <1>2, <1>10, <1>11 DEF Fits, Withdrawn
  <1>17. cold' => Withdrawing(guard) /\ Withdrawing(Restored')
                  /\ (primary = "valid" => ~Ahead(report, guard))
    <2>1. CASE cold
      BY <1>7, <1>15, <2>1, InMemory DEF Withdrawn
    <2>2. CASE counts /\ Withdrawing(e.guard)
      <3>1. Withdrawing(guard) /\ (primary = "valid" => ~Ahead(report, guard))
        BY <1>6, <1>10, <2>2 DEF Fits
      <3>2. QED
        BY <1>7, <1>15, <2>2, <3>1, InMemory
    <2>3. QED
      BY <1>4, <2>1, <2>2
  <1>18. cold' => target' <= settled'
    <2>1. CASE cold
      BY <1>11, <1>12, <1>16, <2>1
    <2>2. CASE cold' /\ ~cold
      <3>1. saving = <<>> /\ Len(sending) = 1
        BY <1>4, <2>2
      <3>2. sending' = <<>>
        BY <1>8, <3>1
      <3>3. QED
        BY <1>3, <1>12, <3>1, <3>2
    <2>3. QED
      BY <2>1, <2>2
  <1>19. Withdrawn'
    BY <1>3, <1>17, <1>18 DEF Withdrawn
  <1>20. InTime'
    <2>1. CASE since # NoTime
      <3>1. since' = since
        BY <1>4, <2>1
      <3>2. since \in Nat
        BY <1>11
      <3>3. Due(Restored', since)
        BY <1>7, <1>15, <2>1, <3>2, InMemory DEF InTime
      <3>4. QED
        BY <1>3, <2>1, <3>1, <3>3 DEF InTime
    <2>2. CASE counts /\ e.demand /\ e.guard = guard /\ since = NoTime
      <3>1. since' = now
        BY <1>4, <2>2
      <3>2. guard.phase # "idle" /\ ~Ahead(report, guard)
        BY <1>6, <1>10, <2>2 DEF Fits
      <3>3. \A a \in Nat : a <= now => a <= now + Max2(Active, Trial)
        <4>1. Active \in Nat /\ Trial \in Nat
          BY GuardAssumption
        <4>2. Max2(Active, Trial) \in Nat
          BY <4>1 DEF Max2
        <4>3. QED
          BY <1>11, <4>2
      <3>4. Due(guard, now)
        BY <3>2, <3>3 DEF Due, TypeInv, Timely
      <3>5. mem # NoGuard => Due(mem, now)
        BY <1>7, <3>3, <3>4 DEF Due, TypeInv, Timely, Kept, Withdrawing
      <3>6. mem = NoGuard => guard.phase = "exhausted" /\ lastValid # NoTime
        <4>1. NewGuard.phase = "idle"
          BY DEF NewGuard
        <4>2. QED
          BY <1>7, <3>2, <4>1 DEF Kept
      <3>7. Due(Restored', now)
        BY <1>7, <1>11, <1>15, <2>2, <3>4, <3>5, InMemory
      <3>8. QED
        BY <1>3, <3>1, <3>2, <3>4, <3>5, <3>6, <3>7 DEF InTime
    <2>3. CASE since' = NoTime
      BY <2>3 DEF InTime
    <2>4. QED
      BY <1>4, <2>1, <2>2, <2>3
  <1>21. OnTheWay'
    <2>1. ASSUME saving' # <<>> \/ sending' # <<>>, NEW c \in Command, Fits(c)
          PROVE  Fits(c)'
      <3>1. Deadline(c.guard)' = Deadline(c.guard)
        BY <1>3 DEF Deadline
      <3>2. settled' = settled
        BY <1>3, <2>1
      <3>3. cold' => cold
        <4>1. ASSUME saving = <<>>, Len(sending) = 1 PROVE FALSE
          <5>1. sending' = <<>>
            BY <1>8, <4>1
          <5>2. QED
            BY <1>3, <2>1, <4>1, <5>1
        <4>2. QED
          BY <1>4, <4>1
      <3>4. QED
        BY <1>3, <2>1, <3>1, <3>2, <3>3 DEF Fits
    <2>2. \A c \in Command : In(c, saving') \/ In(c, sending') => In(c, saving) \/ In(c, sending)
      BY <1>3, <1>8
    <2>3. QED
      BY <2>1, <2>2, FewerStep
  <1>22. QED
    BY <1>13, <1>14, <1>16, <1>19, <1>20, <1>21

\* A report, or one that has aged, overtakes the commands on their way.
LEMMA OvertakenStep ==
  ASSUME IInv, saving' = Overtaken(saving), sending' = Overtaken(sending),
         UNCHANGED <<now, guard, settled>>, cold' => cold,
         \A c \in Command : Fits(c) => Fits([c EXCEPT !.current = FALSE])'
  PROVE  /\ OnTheWay' /\ saving' \in Seq(Command) /\ sending' \in Seq(Command)
  <1> USE DEF IInv
  <1>1. saving \in Seq(Command) /\ sending \in Seq(Command)
    BY DEF TypeInv
  <1>2. /\ saving' \in Seq(Command) /\ sending' \in Seq(Command)
        /\ \A c : In(c, saving') \/ In(c, sending') =>
             \E d \in Command : (In(d, saving) \/ In(d, sending)) /\ c = [d EXCEPT !.current = FALSE]
    BY <1>1, InOvertaken
  <1>3. ASSUME NEW c \in Command, In(c, saving') \/ In(c, sending') PROVE Fits(c)'
    <2>1. PICK d \in Command : /\ In(d, saving) \/ In(d, sending)
                               /\ c = [d EXCEPT !.current = FALSE]
      BY <1>2, <1>3
    <2>2. Fits(d)
      BY <2>1 DEF OnTheWay
    <2>3. QED
      BY <2>1, <2>2
  <1>4. QED
    BY <1>2, <1>3 DEF OnTheWay

LEMMA OvertakenFits ==
  ASSUME IInv, UNCHANGED <<now, guard, settled>>, cold' => cold
  PROVE  \A c \in Command : Fits(c) => Fits([c EXCEPT !.current = FALSE])'
  <1>1. ASSUME NEW c \in Command, Fits(c), NEW d, d = [c EXCEPT !.current = FALSE]
        PROVE  Fits(d)'
    <2>1. d.current = FALSE /\ d.demand = c.demand /\ d.guard = c.guard /\ d.want = c.want
      BY <1>1 DEF Command
    <2>2. Deadline(c.guard)' = Deadline(c.guard)
      BY DEF Deadline
    <2>3. QED
      BY <1>1, <2>1, <2>2 DEF Fits
  <1>2. QED
    BY <1>1

LEMMA ReportStep ==
  ASSUME IInv, Report
  PROVE  IInv'
  <1> USE DEF IInv
  <1>1. /\ up /\ now > report /\ report' = now /\ primary' \in {"valid", "rejected"}
        /\ cold' = (cold /\ primary' # "valid")
        /\ since' = NoTime /\ trial' = NoTime
        /\ saving' = Overtaken(saving) /\ sending' = Overtaken(sending)
        /\ up' = up /\ now' = now /\ guard' = guard /\ mem' = mem /\ disk' = disk
        /\ lastValid' = lastValid /\ settled' = settled /\ target' = target /\ crashes' = crashes
    BY DEF Report
  <1>2. (cold' <=> (cold /\ primary' # "valid")) /\ cold' \in BOOLEAN
    BY <1>1
  <1>3. OnTheWay' /\ saving' \in Seq(Command) /\ sending' \in Seq(Command)
    BY <1>1, <1>2, OvertakenStep, OvertakenFits
  <1>4. TypeInv'
    <2>1. report' \in 0 .. now /\ since' \in 0 .. now /\ trial' \in Time
      BY <1>1, GuardAssumption DEF TypeInv, NoTime, Time
    <2>2. QED
      BY <1>1, <1>2, <1>3, <2>1 DEF TypeInv
  <1>5. Kept'
    BY <1>1 DEF Kept
  <1>6. Restored' = Restored
    BY <1>1 DEF Restored
  <1>7. Withdrawn'
    BY <1>1, <1>2, <1>6 DEF Withdrawn
  <1>8. InTime'
    BY <1>1 DEF InTime
  <1>9. QED
    BY <1>3, <1>4, <1>5, <1>7, <1>8

LEMMA AgeStep ==
  ASSUME IInv, Age
  PROVE  IInv'
  <1> USE DEF IInv
  <1>1. /\ up /\ primary' = "valid" /\ cold' = FALSE /\ since' = NoTime
        /\ saving' = Overtaken(saving) /\ sending' = Overtaken(sending)
        /\ up' = up /\ now' = now /\ guard' = guard /\ mem' = mem /\ report' = report
        /\ disk' = disk /\ lastValid' = lastValid /\ settled' = settled /\ target' = target
        /\ trial' = trial /\ crashes' = crashes
    BY DEF Age
  <1>2. OnTheWay' /\ saving' \in Seq(Command) /\ sending' \in Seq(Command)
    BY <1>1, OvertakenStep, OvertakenFits
  <1>3. TypeInv'
    <2>1. since' \in 0 .. now
      BY <1>1 DEF TypeInv, NoTime
    <2>2. QED
      BY <1>1, <1>2, <2>1 DEF TypeInv
  <1>4. Kept'
    BY <1>1 DEF Kept
  <1>5. Withdrawn' /\ InTime'
    BY <1>1 DEF Withdrawn, InTime
  <1>6. QED
    BY <1>2, <1>3, <1>4, <1>5

LEMMA LostStep ==
  ASSUME IInv, Lost
  PROVE  IInv'
  <1> USE DEF IInv
  <1>1. /\ primary' = "lost"
        /\ up' = up /\ now' = now /\ guard' = guard /\ mem' = mem /\ report' = report
        /\ disk' = disk /\ lastValid' = lastValid /\ settled' = settled /\ target' = target
        /\ saving' = saving /\ sending' = sending /\ cold' = cold /\ since' = since
        /\ trial' = trial /\ crashes' = crashes
    BY DEF Lost, tasks
  <1>2. Restored' = Restored
    BY <1>1 DEF Restored
  <1>3. TypeInv' /\ Kept' /\ Withdrawn' /\ InTime'
    BY <1>1, <1>2 DEF TypeInv, Kept, Withdrawn, InTime
  <1>4. ASSUME NEW c \in Command, Fits(c) PROVE Fits(c)'
    <2>1. Deadline(c.guard)' = Deadline(c.guard)
      BY <1>1 DEF Deadline
    <2>2. QED
      BY <1>1, <1>4, <2>1 DEF Fits
  <1>5. OnTheWay'
    BY <1>1, <1>4, FewerStep
  <1>6. QED
    BY <1>3, <1>5

LEMMA OtherWriteStep ==
  ASSUME IInv, OtherWrite
  PROVE  IInv'
  <1> USE DEF IInv
  <1>1. /\ up /\ disk' = mem
        /\ lastValid' = lastValid
             \/ (mem = NoGuard /\ lastValid' \in {at \in {report, now} : at > lastValid})
        /\ up' = up /\ now' = now /\ guard' = guard /\ mem' = mem /\ report' = report
        /\ primary' = primary /\ settled' = settled /\ target' = target
        /\ saving' = saving /\ sending' = sending /\ cold' = cold /\ since' = since
        /\ trial' = trial /\ crashes' = crashes
    BY DEF OtherWrite, tasks, zone
  <1>2. /\ lastValid' \in 0 .. now /\ (lastValid # NoTime => lastValid' # NoTime)
        /\ lastValid \in Nat /\ lastValid' \in Nat /\ lastValid' <= MaxClock /\ now \in Nat
        /\ lastValid' <= now
    BY <1>1, GuardAssumption DEF TypeInv, NoTime
  <1>3. TypeInv'
    BY <1>1, <1>2 DEF TypeInv
  <1>4. Kept'
    BY <1>1, <1>2 DEF Kept
  <1>5. Restored' = StartGuard(mem, lastValid')
    BY <1>1, RestoredIs
  <1>6. mem = NoGuard /\ lastValid # NoTime => Restored'.phase = "exhausted"
    BY <1>2, <1>5, StartGuardFacts
  <1>7. mem # NoGuard => Restored' = mem
    BY <1>2, <1>5, StartGuardFacts
  <1>8. Withdrawn'
    <2>1. ASSUME cold PROVE Withdrawing(Restored')
      <3>1. Withdrawing(guard)
        BY <1>1, <2>1 DEF Withdrawn
      <3>2. NewGuard.phase = "idle"
        BY DEF NewGuard
      <3>3. mem = NoGuard => lastValid # NoTime
        BY <1>1, <3>1, <3>2 DEF Kept, Withdrawing
      <3>4. mem # NoGuard => Withdrawing(mem)
        BY <1>1, <3>1 DEF Kept
      <3>5. QED
        BY <1>6, <1>7, <3>3, <3>4 DEF Withdrawing
    <2>2. QED
      BY <1>1, <2>1 DEF Withdrawn
  <1>9. InTime'
    <2>1. ASSUME since # NoTime PROVE Due(Restored', since)
      <3>1. mem = NoGuard => lastValid # NoTime
        BY <1>1, <2>1 DEF InTime
      <3>2. mem # NoGuard => Due(mem, since)
        BY <1>1, <2>1 DEF InTime
      <3>3. QED
        BY <1>6, <1>7, <3>1, <3>2 DEF Due
    <2>2. QED
      BY <1>1, <1>2, <2>1 DEF InTime
  <1>10. ASSUME NEW c \in Command, Fits(c) PROVE Fits(c)'
    <2>1. Deadline(c.guard)' = Deadline(c.guard)
      BY <1>1 DEF Deadline
    <2>2. QED
      BY <1>1, <1>10, <2>1 DEF Fits
  <1>11. OnTheWay'
    BY <1>1, <1>10, FewerStep
  <1>12. QED
    BY <1>3, <1>4, <1>8, <1>9, <1>11

LEMMA CrashStep ==
  ASSUME IInv, Crash
  PROVE  IInv' /\ target' = target
  <1> USE DEF IInv
  <1>1. /\ crashes < MaxCrashes /\ up' = FALSE /\ crashes' = crashes + 1
        /\ guard' = NewGuard /\ mem' = NoGuard /\ report' = NoTime /\ primary' = "lost"
        /\ saving' = <<>> /\ sending' = <<>>
        /\ now' = now /\ disk' = disk /\ lastValid' = lastValid /\ target' = target
        /\ cold' = cold /\ since' = since /\ trial' = trial
        /\ settled' = target'
    BY DEF Crash, Settles
  <1>2. TypeInv'
    <2>1. now \in Nat /\ NewGuard \in Guard /\ Timely(NewGuard, now)
      BY NewGuardTyped DEF TypeInv
    <2>2. crashes \in 0 .. MaxCrashes /\ MaxCrashes \in Nat
      BY GuardAssumption DEF TypeInv
    <2> HIDE DEF IInv
    <2>3. crashes' \in 0 .. MaxCrashes
      BY <1>1, <2>2
    <2>4. report' \in 0 .. now
      BY <1>1, <2>1 DEF NoTime
    <2>5. saving' \in Seq(Command) /\ sending' \in Seq(Command)
      BY <1>1
    <2>6. QED
      BY <1>1, <2>1, <2>3, <2>4, <2>5 DEF TypeInv, IInv
  <1>3. Restored' = Restored
    BY <1>1 DEF Restored
  <1>4. Kept' /\ InTime'
    BY <1>1, <1>3 DEF Kept, InTime
  <1>5. Withdrawn'
    <2>1. target' <= settled'
      BY <1>1 DEF TypeInv
    <2>2. QED
      BY <1>1, <1>3, <2>1 DEF Withdrawn
  <1>6. OnTheWay'
    BY <1>1, InEmpty DEF OnTheWay
  <1>7. QED
    BY <1>1, <1>2, <1>4, <1>5, <1>6

LEMMA StartStep ==
  ASSUME IInv, Start
  PROVE  IInv'
  <1> USE DEF IInv
  <1>1. /\ ~up /\ up' = TRUE /\ guard' = Restored /\ mem' = disk
        /\ \/ /\ \E observed \in 1 .. now : report' = RestoredReport(Restored, observed)
              /\ primary' \in {"valid", "lost"}
           \/ report' = NoTime /\ primary' = "lost"
        /\ now' = now /\ disk' = disk /\ lastValid' = lastValid /\ settled' = settled
        /\ target' = target /\ saving' = saving /\ sending' = sending
        /\ cold' = cold /\ since' = since /\ trial' = trial /\ crashes' = crashes
    BY DEF Start, tasks
  <1>2. saving = <<>> /\ sending = <<>>
    BY <1>1 DEF Kept
  <1>3. /\ lastValid \in Nat /\ lastValid <= MaxClock /\ lastValid <= now /\ now \in Nat
        /\ lastValid \in 0 .. now
    BY GuardAssumption DEF TypeInv
  <1>4. Restored \in Guard /\ Timely(Restored, now)
    <2>1. CASE disk # NoGuard
      BY <1>3, <2>1, RestoredIs, StartGuardFacts DEF TypeInv
    <2>2. CASE disk = NoGuard
      BY <1>3, <2>2, RestoredIs, StartGuardFacts
    <2>3. QED
      BY <2>1, <2>2
  <1>5. report' \in 0 .. now /\ ~Ahead(report', Restored) /\ primary' \in {"valid", "lost"}
    <2>1. CASE report' = NoTime /\ primary' = "lost"
      <3>1. Restored.evidence \in Nat
        BY <1>3, <1>4 DEF Timely
      <3>2. QED
        BY <1>3, <2>1, <3>1 DEF Ahead, NoTime
    <2>2. CASE /\ \E observed \in 1 .. now : report' = RestoredReport(Restored, observed)
               /\ primary' \in {"valid", "lost"}
      <3>1. PICK observed \in 1 .. now : report' = RestoredReport(Restored, observed)
        BY <2>2
      <3>2. CASE Restored.evidence # NoTime
        <4>1. report' = Restored.evidence /\ Restored.evidence \in 0 .. now
          BY <1>4, <3>1, <3>2 DEF RestoredReport, Timely
        <4>2. QED
          BY <1>3, <2>2, <4>1 DEF Ahead
      <3>3. CASE Restored.evidence = NoTime
        <4>1. report' \in {observed, lastValid}
          BY <3>1, <3>3 DEF RestoredReport, Min2
        <4>2. report' \in 0 .. now
          BY <1>3, <4>1
        <4>3. QED
          BY <2>2, <3>3, <4>2 DEF Ahead
      <3>4. QED
        BY <3>2, <3>3
    <2>3. QED
      BY <1>1, <2>1, <2>2
  <1>6. TypeInv'
    BY <1>1, <1>4, <1>5 DEF TypeInv
  <1>7. disk = NoGuard => Restored = NewGuard
                            \/ (Restored.phase = "exhausted" /\ lastValid # NoTime)
    BY <1>3, RestoredIs, StartGuardFacts
  <1>8. disk # NoGuard => Restored = disk
    BY DEF Restored
  <1>9. Kept'
    BY <1>1, <1>7, <1>8 DEF Kept
  <1>10. Restored' = Restored
    BY <1>1 DEF Restored
  <1>11. Withdrawn'
    BY <1>1, <1>5, <1>10 DEF Withdrawn
  <1>12. InTime'
    <2>1. NewGuard.phase = "idle"
      BY DEF NewGuard
    <2>2. since # NoTime /\ disk = NoGuard => Restored.phase = "exhausted" /\ lastValid # NoTime
      BY <1>7, <2>1 DEF InTime, Due
    <2>3. QED
      BY <1>1, <1>5, <1>8, <1>10, <2>2 DEF InTime
  <1>13. OnTheWay'
    BY <1>1, <1>2, InEmpty DEF OnTheWay
  <1>14. QED
    BY <1>6, <1>9, <1>11, <1>12, <1>13

LEMMA TickStep ==
  ASSUME IInv, Tick
  PROVE  IInv'
  <1> USE DEF IInv
  <1>1. /\ now < MaxClock /\ saving = <<>> /\ sending = <<>> /\ now' = now + 1
        /\ up' = up /\ guard' = guard /\ mem' = mem /\ report' = report /\ primary' = primary
        /\ disk' = disk /\ lastValid' = lastValid /\ settled' = settled /\ target' = target
        /\ saving' = saving /\ sending' = sending /\ cold' = cold /\ since' = since
        /\ trial' = trial /\ crashes' = crashes
    BY DEF Tick, tasks, zone
  <1>2. now \in 1 .. MaxClock /\ now' \in 1 .. MaxClock /\ now \in Nat /\ now < now'
    BY <1>1, GuardAssumption DEF TypeInv
  <1>3. \A n : n \in 0 .. now => n \in 0 .. now'
    BY <1>1, <1>2
  <1>4. \A g : Timely(g, now) => Timely(g, now')
    BY <1>3 DEF Timely
  <1>5. TypeInv'
    <2>1. report' \in 0 .. now' /\ lastValid' \in 0 .. now' /\ since' \in 0 .. now'
      BY <1>1, <1>3 DEF TypeInv
    <2>2. /\ guard' \in Guard /\ Timely(guard', now')
          /\ mem' # NoGuard => mem' \in Guard /\ Timely(mem', now')
          /\ disk' # NoGuard => disk' \in Guard /\ Timely(disk', now')
      BY <1>1, <1>4 DEF TypeInv
    <2>3. QED
      BY <1>1, <1>2, <2>1, <2>2 DEF TypeInv
  <1>6. Restored' = Restored
    BY <1>1 DEF Restored
  <1>7. Kept' /\ Withdrawn' /\ InTime'
    BY <1>1, <1>6 DEF Kept, Withdrawn, InTime
  <1>8. OnTheWay'
    BY <1>1, InEmpty DEF OnTheWay
  <1>9. QED
    BY <1>5, <1>7, <1>8

-----------------------------------------------------------------------------
(* The inductive invariant and what it shows.                                *)

LEMMA InvariantInit == Init => IInv
  <1> SUFFICES ASSUME Init PROVE IInv
    OBVIOUS
  <1>1. /\ up = FALSE /\ now = 1 /\ guard = NewGuard /\ mem = NoGuard /\ disk = NoGuard
        /\ lastValid = NoTime /\ report = NoTime /\ primary = "lost"
        /\ saving = <<>> /\ sending = <<>> /\ settled = target
        /\ cold = FALSE /\ since = NoTime /\ trial = NoTime /\ crashes = 0
    BY DEF Init
  <1>2. target \in Nat
    <2>1. PICK h \in Heats : target = Scale * h
      BY DEF Init
    <2>2. h \in Nat
      BY GuardAssumption
    <2>3. QED
      BY <2>1, <2>2, ScalePositive, NatTimes
  <1>3. NewGuard \in Guard /\ Timely(NewGuard, now)
    BY <1>1, NewGuardTyped
  <1>4. TypeInv
    <2>1. now \in 1 .. MaxClock /\ 0 \in 0 .. now /\ 0 \in Time /\ 0 \in 0 .. MaxCrashes
      BY <1>1, GuardAssumption DEF Time
    <2>2. saving \in Seq(Command) /\ sending \in Seq(Command)
      BY <1>1
    <2>3. QED
      BY <1>1, <1>2, <1>3, <2>1, <2>2 DEF TypeInv, NoTime
  <1>5. Kept /\ Withdrawn /\ InTime
    BY <1>1 DEF Kept, Withdrawn, InTime
  <1>6. OnTheWay
    BY <1>1, InEmpty DEF OnTheWay
  <1>7. QED
    BY <1>4, <1>5, <1>6 DEF IInv

LEMMA InvariantStep == IInv /\ [Next]_vars => IInv'
  <1> SUFFICES ASSUME IInv, [Next]_vars PROVE IInv'
    OBVIOUS
  <1>1. CASE Next
    BY <1>1, CalculateStep, InvalidBeginsStep, InvalidContinuesStep, SaveDoneStep, SendStep,
       ReportStep, LostStep, AgeStep, OtherWriteStep, CrashStep, StartStep, TickStep DEF Next
  <1>2. CASE UNCHANGED vars
    <2>1. /\ up' = up /\ now' = now /\ guard' = guard /\ mem' = mem /\ report' = report
          /\ primary' = primary /\ disk' = disk /\ lastValid' = lastValid /\ settled' = settled
          /\ target' = target /\ saving' = saving /\ sending' = sending /\ cold' = cold
          /\ since' = since /\ trial' = trial /\ crashes' = crashes
      BY <1>2 DEF vars, zone, tasks
    <2>2. Restored' = Restored
      BY <2>1 DEF Restored
    <2>3. TypeInv' /\ Kept' /\ Withdrawn' /\ InTime'
      BY <2>1, <2>2 DEF IInv, TypeInv, Kept, Withdrawn, InTime
    <2>4. ASSUME NEW c \in Command, Fits(c) PROVE Fits(c)'
      <3>1. Deadline(c.guard)' = Deadline(c.guard)
        BY <2>1 DEF Deadline
      <3>2. QED
        BY <2>1, <2>4, <3>1 DEF Fits
    <2>5. OnTheWay'
      BY <2>1, <2>4, FewerStep DEF IInv
    <2>6. QED
      BY <2>3, <2>5 DEF IInv
  <1>3. QED
    BY <1>1, <1>2

LEMMA Invariance == Spec => []IInv
  BY InvariantInit, InvariantStep, PTL DEF Spec

\* The variables hold what the code can put there (control store, stale_heating.py).
THEOREM Typed == Spec => []TypeOK
  <1>1. IInv => TypeOK
    <2> SUFFICES ASSUME TypeInv PROVE TypeOK
      BY DEF IInv
    <2>1. \A n : n \in 0 .. now => n \in Time
      BY GuardAssumption DEF TypeInv, Time
    <2>2. /\ {up, cold} \subseteq BOOLEAN /\ {now, lastValid, report, since, trial} \subseteq Time
      BY <2>1, GuardAssumption DEF TypeInv, Time
    <2>3. guard \in Guard /\ {mem, disk} \subseteq Guard \union {NoGuard}
      BY DEF TypeInv
    <2>4. \A g \in {guard, mem, disk} \ {NoGuard} : Timely(g, now)
      BY DEF TypeInv
    <2>5. \A g \in {guard, mem, disk} \ {NoGuard} :
            /\ {g.started, g.report, g.ramp, g.evidence} \subseteq 0 .. now
            /\ g.phase \in {"monitoring", "stale_start"} => g.started # NoTime
            /\ g.phase = "ramp" => g.ramp # NoTime
      BY <2>4 DEF Timely
    <2>6. QED
      BY <2>2, <2>3, <2>5 DEF TypeOK, TypeInv
  <1>2. QED
    BY <1>1, Invariance, PTL

\* A restart at any instant takes a withdrawal up that the broker has acted on,
\* whatever saves have failed (runtime.py:2862-2875, 260-298).
THEOREM RestartWithdraws == Spec => []WithdrawalSurvives
  <1>1. IInv => WithdrawalSurvives
    BY DEF IInv, Withdrawn, WithdrawalSurvives
  <1>2. QED
    BY <1>1, Invariance, PTL

\* A withdrawn heating setpoint is not raised above where it last settled, for any
\* number of overlapping tasks, crashes and failed saves (stale_heating.py:103).
THEOREM MonotoneWithdrawal == Spec => WithdrawalMonotone
  <1>1. IInv /\ [Next]_vars => [cold => target' <= settled]_vars
    <2> SUFFICES ASSUME IInv, Next, cold PROVE target' <= settled
      OBVIOUS
    <2>1. target <= settled /\ target \in Nat /\ settled \in Nat
      BY DEF IInv, Withdrawn, TypeInv
    <2>2. CASE Send
      BY <2>2, SendStep
    <2>3. CASE ~Send
      <3>1. target' = target
        BY <2>3 DEF Next, Calculate, InvalidBegins, InvalidContinues, SaveDone, Report, Lost,
           Age, OtherWrite, Crash, Start, Tick
      <3>2. QED
        BY <2>1, <3>1
    <2>4. QED
      BY <2>2, <2>3
  <1>2. QED
    BY <1>1, Invariance, PTL DEF Spec, WithdrawalMonotone

\* Demand for heat without a report comes down to the fallback in the time that the
\* timeouts and the ramp take (docs/configuration-reference.md:290-292).
THEOREM FallbackInTime == Spec => []FallbackReached
  <1>1. IInv => FallbackReached
    <2> SUFFICES ASSUME IInv, NEW i \in DOMAIN sending, NEW c, c = sending[i],
                        c.demand, c.current, c.guard = guard, since # NoTime,
                        now >= since + Max2(Active, Trial) + RampMax
                 PROVE  c.want <= Fallback * Scale
      BY DEF FallbackReached
    <2>1. c \in Command /\ In(c, sending)
      <3>1. sending \in Seq(Command)
        BY DEF IInv, TypeInv
      <3>2. i \in 1 .. Len(sending)
        BY <3>1
      <3>3. QED
        BY <3>1, <3>2 DEF In
    <2>2. Fits(c) /\ sending # <<>>
      BY <2>1, InEmpty DEF IInv, OnTheWay
    <2>3. up
      BY <2>2 DEF IInv, TypeInv, Kept
    <2>4. Due(guard, since)
      BY <2>3 DEF IInv, InTime
    <2>5. /\ guard \in Guard /\ Timely(guard, now) /\ now \in Nat /\ since \in Nat
      BY DEF IInv, TypeInv
    <2>6. Max2(Active, Trial) \in Nat /\ RampMax \in Nat
      BY GuardAssumption DEF Max2
    <2>7. guard.phase \in Phases
      BY <2>5 DEF Guard
    <2>8. CASE guard.phase \in {"monitoring", "stale_start"}
      <3>1. now < Deadline(guard)
        BY <2>2, <2>8 DEF Fits
      <3>2. Deadline(guard) \in Nat /\ Deadline(guard) <= since + Max2(Active, Trial)
        BY <2>4, <2>5, <2>8, DeadlineFacts DEF Due
      <3>3. QED
        BY <2>5, <2>6, <3>1, <3>2
    <2>9. CASE guard.phase = "ramp"
      <3>1. guard.ramp <= since + Max2(Active, Trial) /\ guard.ramp \in Nat
        BY <2>4, <2>5, <2>9 DEF Due, Timely
      <3>2. now >= guard.ramp + RampMax
        BY <2>5, <2>6, <3>1
      <3>3. QED
        BY <2>2, <2>9, <3>2 DEF Fits
    <2>10. CASE guard.phase = "exhausted"
      BY <2>2, <2>10 DEF Fits
    <2>11. guard.phase # "idle"
      BY <2>4 DEF Due
    <2>12. QED
      BY <2>7, <2>8, <2>9, <2>10, <2>11 DEF Phases
  <1>2. QED
    BY <1>1, Invariance, PTL

=============================================================================
