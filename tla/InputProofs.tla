------------------------------ MODULE InputProofs ------------------------------
(* What the inputs of a calculation promise, for all values of their constants: a  *)
(* jump and a recovery of a sensor are confirmed, silence is noticed, the cooling  *)
(* safety acts in silence only, a location influences a zone only when it has      *)
(* earned it, and no outdoor day is credited with time that no report justifies.   *)
EXTENDS MCInputs, ZoneTargetsProofs, TLAPS, SequenceTheorems, FiniteSetTheorems

-----------------------------------------------------------------------------
(* SourceValidation.                                                        *)

\* What a quarantine rests on: since its first report every judged one agreed with it;
\* and what a recovery rests on: its first report was accepted since the last failure.
Agrees(q, h) ==
  q # << >> => \E k \in DOMAIN h :
                 h[k] = q[1] /\ \A l \in k .. Len(h) : Apart(h[l].value, q[1].value) <= Consistency
Starts(r, g) == r # << >> => \E first \in g : first.at = r[1]
SInv ==
  /\ SourceTypeOK
  /\ recovering \/ quarantine # << >> => accepted # None
  /\ Agrees(quarantine, held) /\ Starts(recovery, good)

LEMMA SourceConstants ==
  /\ Reading \subseteq Int /\ NoReading \notin Reading /\ Consistency \in Nat
  /\ \A r \in Report : r.value \in Reading /\ r.value \in Int /\ r.at \in Nat
  /\ None \notin Report
<1>1. Reading \subseteq Int /\ NoReading \notin Int /\ Consistency \in Nat
  BY SourceAssumption
<1>2. \A r \in Report : r.value \in Reading /\ r.at \in Nat
  BY DEF Report
<1>3. None.value = NoReading
  BY DEF None
<1> QED BY <1>1, <1>2, <1>3

LEMMA UsableReport ==
  ASSUME SourceTypeOK, Usable
  PROVE  current \in Report /\ current # None
<1>1. current # None
  BY DEF Usable, None
<1>2. current \in [value : Reading \union {NoReading}, at : Nat] /\ current.value # NoReading
  BY <1>1 DEF SourceTypeOK, Usable
<1> QED BY <1>1, <1>2 DEF Report

LEMMA ApartSelf == \A x \in Int : Apart(x, x) <= Consistency
BY SourceConstants DEF Apart

\* The history ends with the current report and keeps what was judged before.
LEMMA JudgementsAre ==
  ASSUME SourceTypeOK, Usable
  PROVE  /\ Judgements \in Seq(Report) /\ Len(Judgements) \in DOMAIN Judgements
         /\ Judgements[Len(Judgements)] = current
         /\ quarantine # << >> =>
              \A k \in DOMAIN held :
                /\ k \in DOMAIN Judgements /\ Judgements[k] = held[k]
                /\ \A l \in k .. Len(Judgements) :
                     (l \in k .. Len(held) /\ Judgements[l] = held[l]) \/ Judgements[l] = current
<1> DEFINE before == IF quarantine = << >> THEN << >> ELSE held
<1>1. before \in Seq(Report) /\ current \in Report
  BY UsableReport DEF SourceTypeOK
<1>2. quarantine # << >> => before = held
  OBVIOUS
<1>3. Judgements = IF before # << >> /\ Last(before) = current THEN before
                   ELSE Append(before, current)
  BY DEF Judgements
<1> HIDE DEF before
<1>4. ASSUME NEW j, j = Judgements
      PROVE  /\ j \in Seq(Report) /\ Len(j) \in DOMAIN j /\ j[Len(j)] = current
             /\ \A k \in DOMAIN before :
                  /\ k \in DOMAIN j /\ j[k] = before[k]
                  /\ \A l \in k .. Len(j) : (l \in k .. Len(before) /\ j[l] = before[l]) \/ j[l] = current
  <2>1. CASE before # << >> /\ Last(before) = current
    <3>1. j = before /\ Len(before) \in DOMAIN before /\ before[Len(before)] = current
      BY <1>1, <1>3, <1>4, <2>1 DEF Last
    <3> QED BY <1>1, <3>1
  <2>2. CASE ~(before # << >> /\ Last(before) = current)
    <3>1. j = Append(before, current)
      BY <1>3, <1>4, <2>2
    <3>2. /\ j \in Seq(Report) /\ Len(j) = Len(before) + 1 /\ j[Len(j)] = current
          /\ \A k \in 1 .. Len(before) : j[k] = before[k]
          /\ DOMAIN before = 1 .. Len(before) /\ DOMAIN j = 1 .. Len(j) /\ Len(before) \in Nat
      BY <1>1, <3>1
    <3>3. \A l \in 1 .. Len(j) : l \in 1 .. Len(before) \/ l = Len(j)
      BY <3>2
    <3> QED BY <3>2, <3>3
  <2> QED BY <2>1, <2>2
<1> QED BY <1>2, <1>4

\* A report that agrees with the first of the quarantine, or begins it.
LEMMA Agreement ==
  ASSUME SInv, Usable, NEW q \in Seq(Report), q # << >>,
         \/ q[1] = current
         \/ /\ quarantine # << >> /\ q[1] = quarantine[1]
            /\ Apart(current.value, quarantine[1].value) <= Consistency
  PROVE  \E k \in DOMAIN Judgements :
           /\ Judgements[k] = q[1]
           /\ \A l \in k .. Len(Judgements) : Apart(Judgements[l].value, q[1].value) <= Consistency
<1> DEFINE j == Judgements
<1>1. j \in Seq(Report) /\ Len(j) \in DOMAIN j /\ j[Len(j)] = current /\ current \in Report
  BY JudgementsAre, UsableReport DEF SInv
<1>2. CASE q[1] = current
  <2>1. \A l \in Len(j) .. Len(j) : j[l] = current
    BY <1>1
  <2>2. Apart(current.value, current.value) <= Consistency
    BY <1>1, SourceConstants, ApartSelf
  <2> QED BY <1>1, <1>2, <2>1, <2>2
<1>3. CASE /\ quarantine # << >> /\ q[1] = quarantine[1]
           /\ Apart(current.value, quarantine[1].value) <= Consistency
  <2>1. PICK k \in DOMAIN held :
          /\ held[k] = quarantine[1]
          /\ \A l \in k .. Len(held) : Apart(held[l].value, quarantine[1].value) <= Consistency
    BY <1>3 DEF SInv, Agrees
  <2>2. /\ k \in DOMAIN j /\ j[k] = held[k]
        /\ \A l \in k .. Len(j) : (l \in k .. Len(held) /\ j[l] = held[l]) \/ j[l] = current
    BY <1>3, JudgementsAre DEF SInv
  <2> HIDE DEF j
  <2>3. \A l \in k .. Len(j) : Apart(j[l].value, q[1].value) <= Consistency
    BY <1>3, <2>1, <2>2
  <2> QED BY <1>3, <2>1, <2>2, <2>3 DEF j
<1> QED BY <1>2, <1>3

\* What a judgement of the current report makes of the quarantine.
LEMMA QuarantinedIs ==
  ASSUME SInv, Usable
  PROVE  /\ Quarantined \in Seq(Report)
         /\ Quarantined # << >> =>
              \/ Quarantined[1] = current
              \/ /\ quarantine # << >> /\ Quarantined[1] = quarantine[1]
                 /\ Apart(current.value, quarantine[1].value) <= Consistency
         /\ Quarantined = << >> =>
              \/ quarantine = << >> /\ ~Jump(accepted, current)
              \/ /\ quarantine # << >> /\ current.at - quarantine[1].at >= QuarantineSpan
                 /\ Apart(current.value, quarantine[1].value) <= Consistency
         /\ Quarantined # << >> => accepted # None
<1> DEFINE values == Append(quarantine, current)
<1>1. quarantine \in Seq(Report) /\ current \in Report
  BY UsableReport DEF SInv, SourceTypeOK
<1>2. /\ values \in Seq(Report) /\ Len(values) = Len(quarantine) + 1 /\ values[Len(values)] = current
      /\ quarantine # << >> => values[1] = quarantine[1] /\ Len(quarantine) > 0
      /\ quarantine = << >> => values[1] = current
      /\ DOMAIN values = 1 .. Len(values) /\ Len(values) \in Nat /\ values # << >>
  <2>1. /\ values \in Seq(Report) /\ Len(values) = Len(quarantine) + 1
        /\ values[Len(quarantine) + 1] = current /\ Len(quarantine) \in Nat
        /\ \A i \in 1 .. Len(quarantine) : values[i] = quarantine[i]
    BY <1>1
  <2>2. quarantine # << >> => Len(quarantine) > 0 /\ 1 \in 1 .. Len(quarantine)
    BY <1>1
  <2>3. quarantine = << >> => Len(quarantine) = 0
    OBVIOUS
  <2>4. DOMAIN values = 1 .. Len(values) /\ Len(values) \in Nat /\ values # << >>
    BY <2>1
  <2> QED BY <2>1, <2>2, <2>3, <2>4
<1>3. Quarantined =
        IF quarantine = << >> THEN IF Jump(accepted, current) THEN values ELSE << >>
        ELSE IF ~Consistent(ToSet(values)) THEN <<current>>
        ELSE IF Len(values) >= 3 /\ current.at - values[1].at >= QuarantineSpan THEN << >>
        ELSE IF Len(values) <= 3 THEN values
        ELSE <<values[1]>> \o SubSeq(values, Len(values) - 1, Len(values))
  BY DEF Quarantined
<1>10. quarantine # << >> => accepted # None
  BY DEF SInv
<1>4. ASSUME Consistent(ToSet(values)), quarantine # << >>
      PROVE  Apart(current.value, quarantine[1].value) <= Consistency
  <2>1. values[1] \in ToSet(values) /\ values[Len(values)] \in ToSet(values)
    BY <1>2 DEF ToSet
  <2> QED BY <1>2, <1>4, <2>1 DEF Consistent
<1> HIDE DEF values
<1>5. CASE quarantine = << >> /\ Jump(accepted, current)
  <2>1. Quarantined = values
    BY <1>3, <1>5
  <2>2. accepted # None
    BY <1>5 DEF Jump
  <2> QED BY <1>2, <1>5, <2>1, <2>2
<1>6. CASE quarantine = << >> /\ ~Jump(accepted, current)
  BY <1>3, <1>6
<1>7. CASE quarantine # << >> /\ ~Consistent(ToSet(values))
  <2>1. Quarantined = <<current>>
    BY <1>3, <1>7
  <2> QED BY <1>1, <1>7, <1>10, <2>1
<1>8. CASE /\ quarantine # << >> /\ Consistent(ToSet(values))
           /\ Len(values) >= 3 /\ current.at - values[1].at >= QuarantineSpan
  <2>1. Quarantined = << >>
    BY <1>3, <1>8
  <2> QED BY <1>2, <1>4, <1>8, <2>1
<1>9. CASE /\ quarantine # << >> /\ Consistent(ToSet(values))
           /\ ~(Len(values) >= 3 /\ current.at - values[1].at >= QuarantineSpan)
  <2> DEFINE tail == SubSeq(values, Len(values) - 1, Len(values))
  <2>1. CASE Len(values) <= 3
    <3>1. Quarantined = values
      BY <1>3, <1>9, <2>1
    <3> QED BY <1>2, <1>4, <1>9, <1>10, <3>1
  <2>2. CASE ~(Len(values) <= 3)
    <3>1. Quarantined = <<values[1]>> \o tail
      BY <1>3, <1>9, <2>2
    <3>2. values[1] \in Report /\ <<values[1]>> \in Seq(Report)
      BY <1>2
    <3>3. \A i \in (Len(values) - 1) .. Len(values) : values[i] \in Report
      BY <1>2, <2>2
    <3>4. tail \in Seq(Report)
      BY <1>2, <2>2, <3>3
    <3> HIDE DEF tail
    <3>5. <<values[1]>> \o tail \in Seq(Report) /\ (<<values[1]>> \o tail)[1] = values[1]
      BY <3>2, <3>4
    <3> QED BY <1>2, <1>4, <1>9, <1>10, <3>1, <3>5
  <2> QED BY <2>1, <2>2
<1> QED BY <1>5, <1>6, <1>7, <1>8, <1>9, <1>10

LEMMA SourceInitially == SourceInit => SInv
<1> SUFFICES ASSUME SourceInit PROVE SInv
  OBVIOUS
<1>1. << >> \in Seq(Report) /\ << >> \in Seq(Nat) /\ {} \subseteq Report
  OBVIOUS
<1>2. SourceTypeOK
  BY <1>1 DEF SourceInit, SourceTypeOK
<1>3. Agrees(quarantine, held) /\ Starts(recovery, good)
  BY DEF SourceInit, Agrees, Starts
<1> QED BY <1>2, <1>3 DEF SourceInit, SInv

\* What a recovery that goes on rests on.
LEMMA SourceSteps == SInv /\ [SourceNext]_sourceVars => SInv'
<1> SUFFICES ASSUME SInv, [SourceNext]_sourceVars PROVE SInv'
  OBVIOUS
<1> USE DEF sourceState
<1>1. CASE UNCHANGED sourceVars
  BY <1>1 DEF sourceVars, SInv, SourceTypeOK, Agrees, Starts
<1>2. CASE SourceReports \/ EvidenceLost \/ SourceTick
  <2>1. UNCHANGED <<accepted, quarantine, recovery, recovering, held, good>>
    BY <1>2 DEF SourceReports, EvidenceLost, SourceTick
  <2>2. now' \in Nat /\ made' \in Nat
    BY <1>2 DEF SourceReports, EvidenceLost, SourceTick, SInv, SourceTypeOK
  <2>3. current' \in [value : Reading \union {NoReading}, at : Nat] \union {None}
    <3>1. CASE SourceReports
      BY <3>1 DEF SourceReports, SInv, SourceTypeOK
    <3>2. CASE EvidenceLost
      <4>1. current \in Report /\ current.at - 1 \in Nat
        BY <3>2, UsableReport, SourceConstants DEF EvidenceLost, SInv
      <4> QED BY <3>2, <4>1 DEF EvidenceLost, Report
    <3>3. CASE SourceTick
      BY <3>3 DEF SourceTick, SInv, SourceTypeOK
    <3> QED BY <1>2, <3>1, <3>2, <3>3
  <2> QED BY <2>1, <2>2, <2>3 DEF SInv, SourceTypeOK, Agrees, Starts
<1>3. CASE \E protect \in BOOLEAN : Validate(protect)
  <2>1. PICK protect \in BOOLEAN : Validate(protect)
    BY <1>3
  <2>2. /\ UNCHANGED <<now, current, made>>
        /\ \/ RejectUnusable \/ AcceptStale \/ Repeat(protect) \/ RejectConflict
           \/ (protect /\ KeepInQuarantine) \/ Accept(protect)
    BY <2>1 DEF Validate
  <2>3. << >> \in Seq(Report) /\ << >> \in Seq(Nat) /\ {} \subseteq Report
    OBVIOUS
  <2>4. SInv /\ SourceTypeOK
    BY DEF SInv
  \* It is enough to look at what a validation changes.
  <2>5. ASSUME /\ accepted' \in Report \union {None} /\ quarantine' \in Seq(Report)
               /\ recovery' \in Seq(Nat) /\ recovering' \in BOOLEAN
               /\ held' \in Seq(Report) /\ good' \subseteq Report
               /\ recovering' \/ quarantine' # << >> => accepted' # None
               /\ Agrees(quarantine', held') /\ Starts(recovery', good')
        PROVE  SInv'
    BY <2>2, <2>4, <2>5 DEF SInv, SourceTypeOK
  <2>6. Agrees(<< >>, held') /\ Starts(<< >>, good')
    BY DEF Agrees, Starts
  <2>7. CASE RejectUnusable \/ AcceptStale \/ RejectConflict
    <3>1. /\ quarantine' = << >> /\ recovery' = << >> /\ held' = << >> /\ good' = {}
          /\ accepted' = accepted /\ recovering' \in BOOLEAN /\ (recovering' => accepted # None)
      BY <2>7 DEF RejectUnusable, AcceptStale, RejectConflict, Conflict
    <3> QED BY <2>3, <2>4, <2>5, <2>6, <3>1 DEF SourceTypeOK
  <2>8. CASE Repeat(protect)
    <3>1. UNCHANGED <<accepted, held, good>>
      BY <2>8 DEF Repeat
    <3>2. \/ UNCHANGED <<quarantine, recovery, recovering>>
          \/ quarantine' = << >> /\ recovery' = << >> /\ recovering' = FALSE
      BY <2>8 DEF Repeat
    <3>3. CASE UNCHANGED <<quarantine, recovery, recovering>>
      BY <2>4, <2>5, <3>1, <3>3 DEF SInv, SourceTypeOK
    <3>4. CASE quarantine' = << >> /\ recovery' = << >> /\ recovering' = FALSE
      BY <2>3, <2>4, <2>5, <2>6, <3>1, <3>4 DEF SourceTypeOK
    <3> QED BY <3>2, <3>3, <3>4
  <2>9. CASE KeepInQuarantine
    <3>1. /\ Usable /\ Quarantined # << >> /\ quarantine' = Quarantined /\ recovery' = << >>
          /\ recovering' = TRUE /\ good' = {} /\ held' = Judgements /\ accepted' = accepted
      BY <2>9 DEF KeepInQuarantine, Judged
    <3>2. /\ Quarantined \in Seq(Report)
          /\ \/ Quarantined[1] = current
             \/ /\ quarantine # << >> /\ Quarantined[1] = quarantine[1]
                /\ Apart(current.value, quarantine[1].value) <= Consistency
          /\ Judgements \in Seq(Report)
      BY <2>4, <3>1, QuarantinedIs, JudgementsAre
    <3>3. Agrees(Quarantined, Judgements)
      BY <2>4, <3>1, <3>2, Agreement DEF Agrees
    <3>4. accepted # None
      BY <2>4, <3>1, QuarantinedIs DEF SInv
    <3> QED BY <2>3, <2>4, <2>5, <2>6, <3>1, <3>2, <3>3, <3>4 DEF SourceTypeOK
  <2>10. CASE Accept(protect)
    <3>1. /\ Usable /\ accepted' = current /\ quarantine' = << >> /\ held' = Judgements
          /\ good' = good \union {current} /\ recovering' \in BOOLEAN
      BY <2>10 DEF Accept, Judged
    <3>2. \/ recovery' = << >> \/ recovery' = <<current.at>>
          \/ recovery # << >> /\ recovery' = <<recovery[1], current.at>>
      BY <2>10 DEF Accept
    <3>3. /\ current \in Report /\ current # None /\ current.at \in Nat
          /\ Judgements \in Seq(Report)
      BY <2>4, <3>1, UsableReport, JudgementsAre, SourceConstants
    <3>4. recovery # << >> => recovery[1] \in Nat
      <4>1. recovery \in Seq(Nat)
        BY <2>4 DEF SourceTypeOK
      <4> QED BY <4>1
    <3>5. recovery' \in Seq(Nat)
      <4>1. << >> \in Seq(Nat) /\ <<current.at>> \in Seq(Nat)
        BY <3>3
      <4>2. recovery # << >> => <<recovery[1], current.at>> \in Seq(Nat)
        BY <3>3, <3>4
      <4> QED BY <3>2, <4>1, <4>2
    <3>6. Starts(recovery', good')
      <4>1. CASE recovery' = << >>
        BY <4>1 DEF Starts
      <4>2. CASE recovery' = <<current.at>>
        BY <3>1, <4>2 DEF Starts
      <4>3. CASE recovery # << >> /\ recovery' = <<recovery[1], current.at>>
        BY <3>1, <4>3 DEF Starts, SInv
      <4> QED BY <3>2, <4>1, <4>2, <4>3
    <3>7. good \subseteq Report
      BY <2>4 DEF SourceTypeOK
    <3> QED BY <2>3, <2>5, <2>6, <3>1, <3>3, <3>5, <3>6, <3>7
  <2> QED BY <2>2, <2>7, <2>8, <2>9, <2>10
<1> QED BY <1>1, <1>2, <1>3 DEF SourceNext

\* A jumped reading is believed only after a minute of judgements that agree with the
\* first of them (the quarantine of validate_measured_source), however often snapshots
\* judged the same report.
THEOREM JumpsAreConfirmed == SourceSpec => JumpsConfirmed
<1> DEFINE JumpHeld ==
      verdict' = "valid" /\ accepted' # accepted /\ Jump(accepted, accepted') =>
        \E k \in DOMAIN held' :
          /\ accepted'.at - held'[k].at >= QuarantineSpan
          /\ \A l \in k .. Len(held') : Apart(held'[l].value, held'[k].value) <= Consistency
<1>1. SInv /\ [SourceNext]_sourceVars => [JumpHeld]_sourceVars
  <2> SUFFICES ASSUME SInv, [SourceNext]_sourceVars, verdict' = "valid", accepted' # accepted,
                      Jump(accepted, accepted')
               PROVE  \E k \in DOMAIN held' :
                        /\ accepted'.at - held'[k].at >= QuarantineSpan
                        /\ \A l \in k .. Len(held') :
                             Apart(held'[l].value, held'[k].value) <= Consistency
    OBVIOUS
  <2>1. PICK protect \in BOOLEAN : Accept(protect)
    <3>1. \E protect \in BOOLEAN : Validate(protect)
      BY DEF SourceNext, SourceReports, EvidenceLost, SourceTick, sourceVars, sourceState
    <3>2. PICK protect \in BOOLEAN : Validate(protect)
      BY <3>1
    <3>3. Accept(protect)
      BY <3>2 DEF Validate, RejectUnusable, AcceptStale, Repeat, RejectConflict, KeepInQuarantine
    <3> QED BY <3>3
  <2>2. /\ Usable /\ accepted' = current /\ held' = Judgements /\ Quarantined = << >>
    BY <2>1 DEF Accept, Judged
  <2>3. /\ quarantine # << >> /\ current.at - quarantine[1].at >= QuarantineSpan
        /\ Apart(current.value, quarantine[1].value) <= Consistency
        /\ quarantine \in Seq(Report)
    BY <2>2, QuarantinedIs DEF SInv, SourceTypeOK
  <2>4. PICK k \in DOMAIN Judgements :
          /\ Judgements[k] = quarantine[1]
          /\ \A l \in k .. Len(Judgements) :
               Apart(Judgements[l].value, quarantine[1].value) <= Consistency
    BY <2>2, <2>3, Agreement
  <2> QED BY <2>2, <2>3, <2>4
<1> QED BY <1>1, SourceInitially, SourceSteps, PTL DEF SourceSpec, JumpsConfirmed

\* A source that failed is trusted again only after two accepted reports with the
\* recovery span between them, unless its report is stale or the option is switched off
\* (recovery_reports of SourceState).
THEOREM RecoveryIsEarned == SourceSpec => RecoveryEarned
<1> DEFINE Earning ==
      recovering /\ ~recovering' =>
        \/ verdict' \in {"stale", "released"}
        \/ \E first, second \in good' : second.at - first.at >= RecoverySpan
<1>1. SInv /\ [SourceNext]_sourceVars => [Earning]_sourceVars
  <2> SUFFICES ASSUME SInv, [SourceNext]_sourceVars, recovering, ~recovering',
                      verdict' \notin {"stale", "released"}
               PROVE  \E first, second \in good' : second.at - first.at >= RecoverySpan
    OBVIOUS
  <2>1. accepted # None
    BY DEF SInv
  <2>2. PICK protect \in BOOLEAN : Accept(protect)
    <3>1. \E protect \in BOOLEAN : Validate(protect)
      BY DEF SourceNext, SourceReports, EvidenceLost, SourceTick, sourceVars, sourceState
    <3>2. PICK protect \in BOOLEAN : Validate(protect)
      BY <3>1
    <3>3. Accept(protect)
      BY <2>1, <3>2 DEF Validate, RejectUnusable, AcceptStale, Repeat, RejectConflict, KeepInQuarantine
    <3> QED BY <3>3
  <2>3. ~Freed(protect)
    BY <2>2 DEF Accept, Freed
  <2> DEFINE pair == IF recovery = << >> THEN <<current.at>> ELSE <<recovery[1], current.at>>
  <2>4. Len(pair) = 2 /\ pair[2] - pair[1] >= RecoverySpan /\ good' = good \union {current}
    BY <2>1, <2>2, <2>3, Zenon DEF Accept
  <2>6. recovery # << >> /\ pair = <<recovery[1], current.at>>
    <3>1. Len(<<current.at>>) = 1
      OBVIOUS
    <3> QED BY <2>4, <3>1
  <2>7. current.at - recovery[1] >= RecoverySpan
    <3>1. <<recovery[1], current.at>>[1] = recovery[1] /\ <<recovery[1], current.at>>[2] = current.at
      OBVIOUS
    <3> QED BY <2>4, <2>6, <3>1
  <2>5. PICK first \in good : first.at = recovery[1]
    BY <2>6 DEF SInv, Starts
  <2> QED BY <2>4, <2>5, <2>7
<1> QED BY <1>1, SourceInitially, SourceSteps, PTL DEF SourceSpec, RecoveryEarned

LEMMA SourceTypes == SourceSpec => []SourceTypeOK
<1>1. SInv => SourceTypeOK
  BY DEF SInv
<1> QED BY <1>1, SourceInitially, SourceSteps, PTL DEF SourceSpec

-----------------------------------------------------------------------------
(* SourceFreshness.                                                         *)

\* Dates lie in the past, and a failure of the sensor itself asks for a snapshot.
Past == (0 .. tick) \union {Never}
FInv ==
  /\ FreshTypeOK /\ own \in Past /\ activity \in Past
  /\ ~up => asked \/ shown = "stale"
  /\ SilenceNoticed

-----------------------------------------------------------------------------
LEMMA FreshConstants == Never \notin Nat /\ Window \in Nat \ {0}
BY FreshnessAssumption

LEMMA MaxIs ==
  ASSUME NEW S \in SUBSET Nat, NEW m \in S, \A y \in S : m >= y
  PROVE  Max(S) = m
<1>1. \A x \in S : (\A y \in S : x >= y) => x = m
  OBVIOUS
<1> QED BY <1>1 DEF Max

\* The evidence is the newer of the dates that there are.
LEMMA EvidenceIs ==
  ASSUME NEW avail \in BOOLEAN, NEW mine \in Date, NEW act \in Date
  PROVE  Evidence(avail, mine, act) =
           IF ~avail \/ mine = Never THEN act
           ELSE IF act = Never \/ act <= mine THEN mine ELSE act
<1> DEFINE one == IF avail THEN mine ELSE Never
           dates == {d \in {one, act} : d # Never}
<1>1. one \in Date /\ dates \in SUBSET Nat
  BY DEF Date
<1>2. Evidence(avail, mine, act) = IF dates = {} THEN Never ELSE Max(dates)
  BY DEF Evidence
<1>3. CASE one = Never /\ act = Never
  BY <1>2, <1>3
<1>4. CASE one = Never /\ act # Never
  <2>1. dates # {} /\ act \in dates /\ \A y \in dates : act >= y
    BY <1>4, <1>1 DEF Date
  <2> HIDE DEF dates
  <2>2. Max(dates) = act
    BY <1>1, <2>1, MaxIs
  <2> QED BY <1>2, <1>4, <2>1, <2>2
<1>5. CASE one # Never /\ (act = Never \/ act <= one)
  <2>1. one = mine /\ dates # {} /\ one \in dates /\ \A y \in dates : one >= y
    BY <1>5, <1>1 DEF Date
  <2> HIDE DEF dates
  <2>2. Max(dates) = one
    BY <1>1, <2>1, MaxIs
  <2> QED BY <1>2, <1>5, <2>1, <2>2
<1>6. CASE one # Never /\ act # Never /\ ~(act <= one)
  <2>1. one = mine /\ dates # {} /\ act \in dates /\ \A y \in dates : act >= y
    BY <1>6, <1>1 DEF Date
  <2> HIDE DEF dates
  <2>2. Max(dates) = act
    BY <1>1, <2>1, MaxIs
  <2> QED BY <1>2, <1>6, <2>1, <2>2
<1> QED BY <1>3, <1>4, <1>5, <1>6

LEMMA EvidenceDate ==
  ASSUME NEW avail \in BOOLEAN, NEW mine \in Date, NEW act \in Date
  PROVE  Evidence(avail, mine, act) \in Date
BY EvidenceIs

LEMMA ExpiryDate ==
  ASSUME NEW date \in Date, tick \in Nat
  PROVE  /\ Expiry(date) \in Date
         /\ IsFresh(date) => Expiry(date) = date + Window /\ date + Window \in Nat
         /\ ~IsFresh(date) => Expiry(date) = Never
<1>1. CASE IsFresh(date)
  <2>1. Expiry(date) = date + Window
    BY <1>1, Zenon DEF Expiry
  <2>2. date \in Nat
    BY <1>1 DEF IsFresh, Date
  <2>3. date + Window \in Nat
    BY <2>2, FreshConstants
  <2> QED BY <1>1, <2>1, <2>3 DEF Date
<1>2. CASE ~IsFresh(date)
  <2>1. Expiry(date) = Never
    BY <1>2, Zenon DEF Expiry
  <2> QED BY <1>2, <2>1 DEF Date
<1> QED BY <1>1, <1>2

LEMMA FreshInitially == FreshInit => FInv
<1> SUFFICES ASSUME FreshInit PROVE FInv
  OBVIOUS
<1>1. /\ tick = 0 /\ up = TRUE /\ own = 0 /\ activity \in {0, Never} /\ expiry = Window
      /\ shown = "fresh" /\ asked = FALSE
  BY DEF FreshInit
<1>2. Evidence(up, own, activity) = 0
  BY <1>1, EvidenceIs, FreshConstants DEF Date
<1>3. SilenceNoticed
  <2>1. 0 # Never /\ 0 + Window > tick
    BY <1>1, FreshConstants
  <2>2. Alive
    BY <1>1, <1>2, <2>1, Zenon DEF Alive, IsFresh
  <2>3. expiry # Never /\ expiry <= 0 + Window
    BY <1>1, FreshConstants
  <2> QED BY <1>2, <2>2, <2>3, Zenon DEF SilenceNoticed
<1>4. FreshTypeOK
  <2>1. rh \in BOOLEAN /\ drift \in BOOLEAN /\ dropped \in BOOLEAN
    BY FreshnessAssumption DEF FreshInit
  <2>2. effective = 0 /\ 0 \in Date /\ Window \in Date /\ Never \in Date
    BY FreshConstants DEF FreshInit, Date
  <2>3. {own, activity, effective, expiry} \subseteq Date
    BY <1>1, <2>2
  <2> QED BY <1>1, <2>1, <2>3 DEF FreshTypeOK
<1>5. own \in Past /\ activity \in Past
  BY <1>1 DEF Past
<1> QED BY <1>1, <1>3, <1>4, <1>5, Zenon DEF FInv

\* What was noticed stays noticed when the timer is moved to the date that counts now.
LEMMA Heeds ==
  ASSUME FInv, NEW matters \in BOOLEAN, Heed(matters, Evidence(up', own', activity')),
         up' = up, own' \in Date, activity' \in Date, tick' = tick, shown' = shown
  PROVE  /\ SilenceNoticed' /\ (~up' => asked' \/ shown' = "stale")
         /\ effective' \in Date /\ expiry' \in Date
         /\ asked' \in BOOLEAN /\ dropped' \in BOOLEAN
<1> DEFINE next == Evidence(up', own', activity')
<1>1. next \in Date /\ tick \in Nat /\ expiry \in Date /\ up \in BOOLEAN
  BY EvidenceDate DEF FInv, FreshTypeOK
<1>2. /\ effective' = next /\ asked' = (asked \/ matters)
      /\ expiry' = IF matters THEN expiry ELSE Expiry(next)
      /\ dropped' = (dropped \/ (~matters /\ expiry # Never /\ ~IsFresh(next)))
  BY DEF Heed
<1> HIDE DEF next
<1>3. asked' \in BOOLEAN /\ dropped' \in BOOLEAN
  BY <1>2, Zenon
<1>4. /\ Expiry(next) \in Date
      /\ IsFresh(next) => Expiry(next) = next + Window /\ next + Window \in Nat
      /\ ~IsFresh(next) => Expiry(next) = Never
  BY <1>1, ExpiryDate
<1>5. ~up' => asked' \/ shown' = "stale"
  BY <1>2 DEF FInv
<1>6. SilenceNoticed'
  <2> SUFFICES ASSUME shown' = "fresh", ~dropped', ~asked'
               PROVE  Alive' /\ expiry' # Never /\ expiry' <= next + Window
    BY <1>2, <1>5 DEF SilenceNoticed, Awaited, next
  <2>1. ~asked /\ ~matters /\ ~dropped /\ up /\ expiry' = Expiry(next)
    BY <1>2, <1>5
  <2>2. ~(expiry # Never /\ ~IsFresh(next))
    BY <1>2, <2>1
  <2>3. expiry # Never
    BY <2>1 DEF FInv, SilenceNoticed, Awaited
  <2>4. IsFresh(next) /\ expiry' = next + Window /\ next + Window \in Nat
    BY <1>4, <2>1, <2>2, <2>3
  <2>5. Alive'
    BY <2>1, <2>4 DEF Alive, IsFresh, next
  <2> QED BY <2>4, <2>5, FreshConstants
<1> QED BY <1>1, <1>2, <1>3, <1>4, <1>5, <1>6

LEMMA FreshReportSteps == ASSUME FInv, NEW echo \in BOOLEAN, UnchangedReport(echo) PROVE FInv'
<1> DEFINE next == Evidence(up, own', activity)
           matters == (~rh /\ ~echo) \/ Recovered(next)
<1>1. /\ own' = (IF echo THEN own ELSE tick)
      /\ Heed(matters, next)
      /\ UNCHANGED <<tick, rh, up, activity, drift, shown>>
  BY DEF UnchangedReport
<1>2. matters \in BOOLEAN
  BY Zenon
<1>3. own' \in Past' /\ activity' \in Past' /\ own' \in Date /\ activity' \in Date
  BY <1>1 DEF FInv, FreshTypeOK, Past, Date
<1>4. Heed(matters, Evidence(up', own', activity'))
  BY <1>1
<1> HIDE DEF next, matters
<1>5. /\ SilenceNoticed' /\ (~up' => asked' \/ shown' = "stale")
      /\ effective' \in Date /\ expiry' \in Date
      /\ asked' \in BOOLEAN /\ dropped' \in BOOLEAN
  BY <1>1, <1>2, <1>3, <1>4, Heeds
<1> QED BY <1>1, <1>3, <1>5 DEF FInv, FreshTypeOK

LEMMA FreshActivitySteps ==
  ASSUME FInv, NEW act \in {tick, Never}, ActivityEvent(act) PROVE FInv'
<1> DEFINE next == Evidence(up, own, act)
<1>1. /\ activity' = act /\ Heed(Recovered(next), next)
      /\ UNCHANGED <<tick, rh, up, own, drift, shown>>
  BY DEF ActivityEvent
<1>2. Recovered(next) \in BOOLEAN
  BY Zenon DEF Recovered
<1>3. own' \in Past' /\ activity' \in Past' /\ own' \in Date /\ activity' \in Date
  BY <1>1 DEF FInv, FreshTypeOK, Past, Date
<1>4. Heed(Recovered(next), Evidence(up', own', activity'))
  BY <1>1
<1> HIDE DEF next
<1>5. /\ SilenceNoticed' /\ (~up' => asked' \/ shown' = "stale")
      /\ effective' \in Date /\ expiry' \in Date
      /\ asked' \in BOOLEAN /\ dropped' \in BOOLEAN
  BY <1>1, <1>2, <1>3, <1>4, Heeds
<1> QED BY <1>1, <1>3, <1>5 DEF FInv, FreshTypeOK

LEMMA FreshChangeSteps ==
  ASSUME FInv, SmallChange \/ \E avail \in BOOLEAN : MaterialChange(avail) PROVE FInv'
<1>1. CASE SmallChange
  <2>1. /\ up /\ own' = tick /\ drift' = ~drift
        /\ UNCHANGED <<tick, rh, up, activity, effective, expiry, asked, shown, dropped>>
    BY <1>1 DEF SmallChange
  <2>2. /\ tick \in Nat /\ activity \in Past /\ own \in Past /\ expiry \in Date
        /\ own \in Date /\ activity \in Date /\ up \in BOOLEAN /\ tick \in Date
    BY DEF FInv, FreshTypeOK, Date
  <2>3. Evidence(up', own', activity') = tick
    <3>1. Evidence(TRUE, tick, activity) = tick
      <4>1. Evidence(TRUE, tick, activity) =
              IF ~TRUE \/ tick = Never THEN activity
              ELSE IF activity = Never \/ activity <= tick THEN tick ELSE activity
        BY <2>2, EvidenceIs
      <4>2. tick # Never /\ (activity = Never \/ activity <= tick)
        BY <2>2, FreshConstants DEF Past
      <4> QED BY <4>1, <4>2, Zenon
    <3>2. up' = TRUE /\ own' = tick /\ activity' = activity
      BY <2>1, <2>2
    <3> QED BY <3>1, <3>2
  <2>4. Evidence(up, own, activity) \in Date
        /\ (Evidence(up, own, activity) # Never => Evidence(up, own, activity) <= tick)
    BY <2>2, EvidenceIs DEF Past
  <2>5. Alive'
    <3>1. tick # Never /\ tick + Window > tick /\ tick' = tick /\ up'
      BY <2>1, <2>2, FreshConstants
    <3> QED BY <2>3, <3>1, Zenon DEF Alive, IsFresh
  <2>6. SilenceNoticed'
    <3>1. ASSUME shown = "fresh", ~dropped, ~asked
          PROVE  expiry # Never /\ expiry <= tick + Window
      <4>1. CASE Alive
        <5> DEFINE seen == Evidence(up, own, activity)
        <5>1. expiry # Never /\ expiry <= seen + Window
          BY <4>1, <3>1, Zenon DEF FInv, SilenceNoticed
        <5>2. seen # Never
          BY <4>1, Zenon DEF Alive, IsFresh
        <5>3. seen \in Nat /\ seen <= tick
          BY <5>2, <2>4 DEF Date
        <5> HIDE DEF seen
        <5> QED BY <5>1, <5>3, <2>2, FreshConstants DEF Date
      <4>2. CASE ~Alive
        BY <4>2, <3>1, <2>2, FreshConstants DEF FInv, SilenceNoticed, Awaited, Date
      <4> QED BY <4>1, <4>2
    <3> QED BY <3>1, <2>1, <2>3, <2>5 DEF SilenceNoticed
  <2>7. drift' \in BOOLEAN
    BY <2>1
  <2> QED BY <2>1, <2>2, <2>6, <2>7 DEF FInv, FreshTypeOK, Past
<1>2. ASSUME NEW avail \in BOOLEAN, MaterialChange(avail) PROVE FInv'
  <2>1. /\ up' = avail /\ own' \in {tick, own} /\ drift' = FALSE /\ asked' = TRUE
        /\ UNCHANGED <<tick, rh, activity, effective, expiry, shown, dropped>>
    BY <1>2 DEF MaterialChange
  <2>2. SilenceNoticed'
    BY <2>1, Zenon DEF SilenceNoticed, Awaited
  <2>3. FreshTypeOK' /\ own' \in Past' /\ activity' \in Past'
    <3>1. up' \in BOOLEAN /\ drift' \in BOOLEAN /\ asked' \in BOOLEAN
      BY <1>2, <2>1, Zenon
    <3>2. own' = tick \/ own' = own
      BY <2>1
    <3>3. tick \in Nat /\ own \in Past /\ activity \in Past
      BY DEF FInv, FreshTypeOK
    <3>4. own' \in Past' /\ activity' \in Past'
      BY <2>1, <3>2, <3>3 DEF Past
    <3>5. own' \in Date
      BY <3>4, <3>3, <2>1 DEF Past, Date
    <3>6. {own, activity, effective, expiry}' \subseteq Date
      BY <2>1, <3>5 DEF FInv, FreshTypeOK
    <3>7. tick' \in Nat /\ rh' \in BOOLEAN /\ shown' \in {"fresh", "stale"} /\ dropped' \in BOOLEAN
      BY <2>1 DEF FInv, FreshTypeOK
    <3> QED BY <3>1, <3>4, <3>6, <3>7, Zenon DEF FreshTypeOK
  <2> QED BY <2>1, <2>2, <2>3, Zenon DEF FInv
<1> QED BY <1>1, <1>2

LEMMA FreshSnapshotSteps ==
  ASSUME FInv, NEW cause, Snapshot(cause) PROVE FInv'
<1> DEFINE next == Evidence(up, own, activity)
<1>1. /\ asked' = (IF cause = "debounce" THEN FALSE ELSE asked)
      /\ effective' = next /\ expiry' = Expiry(next)
      /\ shown' = (IF up /\ IsFresh(next) THEN "fresh" ELSE "stale")
      /\ dropped' = FALSE
      /\ UNCHANGED <<tick, rh, up, own, activity, drift>>
  BY DEF Snapshot
<1>2. next \in Date /\ tick \in Nat /\ up \in BOOLEAN
  BY EvidenceDate DEF FInv, FreshTypeOK
<1>3. /\ Expiry(next) \in Date
      /\ IsFresh(next) => Expiry(next) = next + Window /\ next + Window \in Nat
  BY <1>2, ExpiryDate
<1>4. SilenceNoticed'
  <2> SUFFICES ASSUME shown' = "fresh"
               PROVE  Alive' /\ expiry' # Never /\ expiry' <= next + Window
    BY <1>1 DEF SilenceNoticed
  <2>1. up /\ IsFresh(next)
    BY <1>1
  <2>2. Alive'
    BY <2>1, <1>1, Zenon DEF Alive, IsFresh
  <2>3. expiry' = next + Window /\ next + Window \in Nat
    BY <2>1, <1>1, <1>3
  <2>4. expiry' # Never /\ expiry' <= next + Window
    <3> HIDE DEF next
    <3> QED BY <2>3, FreshConstants
  <2> QED BY <2>2, <2>4, Zenon
<1>5. asked' \in BOOLEAN /\ (~up' => shown' = "stale")
  BY <1>1 DEF FInv, FreshTypeOK
<1> QED BY <1>1, <1>2, <1>3, <1>4, <1>5 DEF FInv, FreshTypeOK, Past

LEMMA FreshTickSteps == FInv /\ FreshTick => FInv'
<1> SUFFICES ASSUME FInv, FreshTick PROVE FInv'
  OBVIOUS
<1>1. /\ ~asked /\ (expiry # Never => expiry > tick) /\ tick' = tick + 1
      /\ UNCHANGED <<rh, up, own, activity, drift, effective, expiry, asked, shown, dropped>>
  BY DEF FreshTick
<1>2. /\ tick \in Nat /\ expiry \in Date /\ Evidence(up, own, activity) \in Date
  BY EvidenceDate DEF FInv, FreshTypeOK
<1>3. SilenceNoticed'
  <2> SUFFICES ASSUME shown = "fresh", ~dropped PROVE SilenceNoticed'
    BY <1>1 DEF SilenceNoticed
  <2>1. Alive /\ expiry # Never /\ expiry <= Evidence(up, own, activity) + Window
    BY <1>1, <1>2 DEF FInv, SilenceNoticed, Awaited, Date
  <2>2. CASE Alive'
    BY <2>1, <2>2, <1>1 DEF SilenceNoticed
  <2>3. CASE ~Alive'
    <3>1. up' /\ ~IsFresh(Evidence(up, own, activity))'
      BY <2>1, <2>3, <1>1 DEF Alive
    <3>2. Evidence(up, own, activity) # Never
          /\ ~(Evidence(up, own, activity) + Window > tick + 1)
      BY <2>1, <3>1, <1>1 DEF Alive, IsFresh
    <3>3. expiry' <= tick'
      BY <2>1, <3>2, <1>1, <1>2, FreshConstants DEF Date
    <3> QED BY <2>1, <2>3, <3>3, <1>1 DEF SilenceNoticed, Awaited
  <2> QED BY <2>2, <2>3
<1> QED BY <1>1, <1>2, <1>3 DEF FInv, FreshTypeOK, Past

LEMMA FreshSteps == FInv /\ [FreshNext]_freshVars => FInv'
<1> SUFFICES ASSUME FInv, [FreshNext]_freshVars PROVE FInv'
  OBVIOUS
<1>1. CASE UNCHANGED freshVars
  BY <1>1 DEF freshVars, FInv, FreshTypeOK, Past, SilenceNoticed, Alive, Awaited, IsFresh
<1> QED BY <1>1, FreshReportSteps, FreshActivitySteps, FreshChangeSteps, FreshSnapshotSteps, FreshTickSteps DEF FreshNext

\* Dates, timers and what was shown keep their types.
THEOREM FreshnessTypes == FreshSpec => []FreshTypeOK
<1>1. FInv => FreshTypeOK
  BY DEF FInv
<1> QED BY FreshInitially, FreshSteps, <1>1, PTL DEF FreshSpec

\* A zone that shows fresh values has a timer or a snapshot on its way for the moment in
\* which they are no longer so, whatever reports, echoes, small changes, failures and
\* activity have moved its dates.
THEOREM SilenceIsNoticed == FreshSpec => []SilenceNoticed
<1>1. FInv => SilenceNoticed
  BY DEF FInv
<1> QED BY FreshInitially, FreshSteps, <1>1, PTL DEF FreshSpec

-----------------------------------------------------------------------------
(* StaleSafety.                                                             *)

\* A task is a record; which target it has come to is not needed here.
IsTask(r) ==
  /\ r = [at |-> r.at, target |-> r.target, generation |-> r.generation, overtaken |-> r.overtaken]
  /\ r.at \in {"none", "created", "submitting", "sent"} /\ r.overtaken \in BOOLEAN
  /\ r.at \in {"none", "created"} => ~r.overtaken
TasksInv ==
  /\ run = [k \in 1 .. MaxRuns |-> run[k]]
  /\ \A k \in 1 .. MaxRuns : IsTask(run[k])
TimesInv ==
  /\ moment \in Nat /\ heard \in Nat /\ heard <= moment
  /\ capture = "fresh" => ~Aged

\* Who has begun without being overtaken, and who has been answered, has seen the
\* silence; a target that has been sent its fallback has not answered or has stopped
\* demanding, and only a fresh result makes it demand again.
SilenceInv ==
  /\ \A k \in 1 .. MaxRuns :
       run[k].at \in {"submitting", "sent"} /\ ~run[k].overtaken => Silent
  /\ answered # {} => Silent
  /\ \A t \in answered : t \in unanswered \/ t \notin demanding

RInv == TasksInv /\ TimesInv /\ SilenceInv

-----------------------------------------------------------------------------
LEMMA SafetySpans == FreshSpan \in Nat /\ SafetyDelay \in Nat /\ FreshSpan < SafetyDelay
BY SafetyAssumption

\* No result is fresh in a silence.
LEMMA NoneFresh == ASSUME RInv, Silent PROVE capture # "fresh"
BY SafetySpans DEF RInv, TimesInv, Silent, Aged

LEMMA RestIsTask == IsTask(Rest) /\ Rest.at = "none"
BY DEF IsTask, Rest

LEMMA SafetyInitially == SafetyInit => RInv
<1> SUFFICES ASSUME SafetyInit PROVE RInv
  OBVIOUS
<1>1. run = [k \in 1 .. MaxRuns |-> Rest]
  BY DEF SafetyInit
<1>2. \A k \in 1 .. MaxRuns : run[k] = Rest
  BY <1>1
<1>3. run = [k \in 1 .. MaxRuns |-> run[k]]
  BY <1>1, <1>2
<1>4. TasksInv
  BY <1>2, <1>3, RestIsTask DEF TasksInv
<1>5. TimesInv
  BY SafetySpans DEF SafetyInit, TimesInv, Aged
<1>6. SilenceInv
  BY <1>2, RestIsTask DEF SafetyInit, SilenceInv
<1> QED BY <1>4, <1>5, <1>6 DEF RInv

\* A task that changes where it has come to is a task.
LEMMA MovedTask ==
  ASSUME NEW r, IsTask(r), r.at \in {"submitting", "sent"}
  PROVE  /\ IsTask([r EXCEPT !.at = "sent"])
         /\ [r EXCEPT !.at = "sent"].at = "sent"
         /\ [r EXCEPT !.at = "sent"].overtaken = r.overtaken
BY DEF IsTask

\* One task moves: it keeps its mark, or comes to rest.
LEMMA VisitTask ==
  ASSUME RInv, NEW k \in DOMAIN run, NEW first, Visits(k, first),
         ~run[k].overtaken => Silent,
         UNCHANGED <<moment, heard, capture, unanswered, answered, demanding>>
  PROVE  RInv'
<1>1. k \in 1 .. MaxRuns /\ DOMAIN run = 1 .. MaxRuns
  BY DEF RInv, TasksInv
<1>2. /\ run'[k] = Rest
         \/ \E t : run'[k] = [at |-> "submitting", generation |-> reports,
                              overtaken |-> run[k].overtaken, target |-> t]
      /\ \A j \in 1 .. MaxRuns : j # k => run'[j] = run[j]
      /\ run' = [j \in 1 .. MaxRuns |-> run'[j]]
  BY <1>1 DEF Visits, RInv, TasksInv
<1>3. IsTask(run'[k]) /\ (run'[k].at \in {"submitting", "sent"} => run'[k].overtaken = run[k].overtaken)
  <2>1. CASE run'[k] = Rest
    BY <2>1, RestIsTask
  <2>2. ASSUME NEW t, run'[k] = [at |-> "submitting", generation |-> reports,
                                 overtaken |-> run[k].overtaken, target |-> t]
        PROVE  IsTask(run'[k]) /\ run'[k].overtaken = run[k].overtaken
    <3>1. run[k].overtaken \in BOOLEAN
      BY <1>1 DEF RInv, TasksInv, IsTask
    <3> QED BY <2>2, <3>1 DEF IsTask
  <2> QED BY <1>2, <2>1, <2>2
<1>4. TasksInv'
  <2>1. ASSUME NEW j \in 1 .. MaxRuns PROVE IsTask(run'[j])
    BY <1>2, <1>3, <2>1 DEF TasksInv, RInv
  <2>2. run' = [j \in 1 .. MaxRuns |-> run'[j]]
    BY <1>2
  <2> QED BY <2>1, <2>2 DEF TasksInv
<1>5. TimesInv'
  BY DEF RInv, TimesInv, Aged
<1>6. SilenceInv'
  BY <1>1, <1>2, <1>3 DEF RInv, SilenceInv, Silent
<1> QED BY <1>4, <1>5, <1>6 DEF RInv

LEMMA SafetyTaskSteps ==
  ASSUME RInv, NEW k \in DOMAIN run, SafetyBegins(k) \/ SafetySent(k) \/ SafetyReturns(k)
  PROVE  RInv'
<1>1. k \in 1 .. MaxRuns /\ DOMAIN run = 1 .. MaxRuns
  BY DEF RInv, TasksInv
<1>2. CASE SafetyBegins(k)
  <2>1. CASE control /\ Silent
    BY <1>2, <2>1, VisitTask DEF SafetyBegins
  <2>2. CASE ~(control /\ Silent)
    <3>1. /\ run' = [run EXCEPT ![k] = Rest]
          /\ UNCHANGED <<moment, heard, capture, unanswered, answered, demanding>>
      BY <1>2, <2>2 DEF SafetyBegins
    <3>2. TasksInv' /\ TimesInv' /\ SilenceInv'
      BY <1>1, <3>1 DEF RInv, TasksInv, TimesInv, SilenceInv, IsTask, Rest, Silent, Aged
    <3> QED BY <3>2 DEF RInv
  <2> QED BY <2>1, <2>2
<1>3. CASE SafetySent(k)
  <2>1. /\ run[k].at = "submitting" /\ run' = [run EXCEPT ![k].at = "sent"]
        /\ unanswered' = unanswered \union {run[k].target}
        /\ answered' = IF run[k].overtaken THEN answered ELSE answered \union {run[k].target}
        /\ UNCHANGED <<moment, heard, capture, demanding>>
    BY <1>3 DEF SafetySent
  <2>2. TasksInv'
    <3>1. run'[k] = [run[k] EXCEPT !.at = "sent"] /\ \A j \in 1 .. MaxRuns : j # k => run'[j] = run[j]
      BY <1>1, <2>1
    <3>2. run' = [j \in 1 .. MaxRuns |-> run'[j]]
      BY <1>1, <2>1
    <3>3. IsTask(run'[k])
      BY <1>1, <2>1, <3>1, MovedTask DEF RInv, TasksInv
    <3>4. \A j \in 1 .. MaxRuns : IsTask(run'[j])
      BY <3>1, <3>3 DEF RInv, TasksInv
    <3> QED BY <3>2, <3>4 DEF TasksInv
  <2>3. TimesInv'
    BY <2>1 DEF RInv, TimesInv, Aged
  <2>4. ~run[k].overtaken => Silent
    BY <1>1, <2>1 DEF RInv, SilenceInv
  <2>5. \A j \in 1 .. MaxRuns :
          /\ run'[j].overtaken = run[j].overtaken
          /\ run'[j].at \in {"submitting", "sent"} => run[j].at \in {"submitting", "sent"}
    BY <1>1, <2>1 DEF RInv, TasksInv, IsTask
  <2>6. SilenceInv'
    BY <2>1, <2>4, <2>5 DEF RInv, SilenceInv, Silent
  <2> QED BY <2>2, <2>3, <2>6 DEF RInv
<1>4. CASE SafetyReturns(k)
  <2>1. /\ run[k].at \in {"submitting", "sent"} /\ Visits(k, run[k].target + 1)
        /\ UNCHANGED <<moment, heard, capture, unanswered, answered, demanding>>
    BY <1>4 DEF SafetyReturns
  <2>2. ~run[k].overtaken => Silent
    BY <1>1, <2>1 DEF RInv, SilenceInv
  <2> QED BY <2>1, <2>2, VisitTask
<1> QED BY <1>2, <1>3, <1>4

LEMMA SafetyReportSteps == RInv /\ RoomReports => RInv'
<1> SUFFICES ASSUME RInv, RoomReports PROVE RInv'
  OBVIOUS
<1> DEFINE mark(k) == run[k].at \in {"submitting", "sent"}
<1>1. /\ heard' = moment /\ answered' = {}
      /\ run' = [k \in DOMAIN run |-> [run[k] EXCEPT !.overtaken = mark(k)]]
      /\ UNCHANGED <<moment, capture, unanswered, demanding>>
  BY DEF RoomReports
<1>2. run' = [k \in 1 .. MaxRuns |-> [run[k] EXCEPT !.overtaken = mark(k)]]
  BY <1>1 DEF RInv, TasksInv
<1>3. ASSUME NEW k \in 1 .. MaxRuns
      PROVE  /\ IsTask(run'[k])
             /\ run'[k].at \in {"submitting", "sent"} => run'[k].overtaken
  <2>1. run'[k] = [run[k] EXCEPT !.overtaken = mark(k)] /\ mark(k) \in BOOLEAN
    BY <1>2
  <2>2. IsTask(run[k])
    BY DEF RInv, TasksInv
  <2> QED BY <2>1, <2>2 DEF IsTask
<1>4. run' = [k \in 1 .. MaxRuns |-> run'[k]]
  BY <1>2
<1>5. TasksInv'
  BY <1>3, <1>4 DEF TasksInv
<1>6. TimesInv'
  BY <1>1, SafetySpans DEF RInv, TimesInv, Aged
<1>7. SilenceInv'
  BY <1>1, <1>3 DEF SilenceInv
<1> QED BY <1>5, <1>6, <1>7 DEF RInv

LEMMA SafetyFireSteps == RInv /\ SafetyFires => RInv'
<1> SUFFICES ASSUME RInv, SafetyFires PROVE RInv'
  OBVIOUS
<1>1. DOMAIN run = 1 .. MaxRuns
  BY DEF RInv, TasksInv
<1>2. PICK k \in 1 .. MaxRuns : run[k].at = "none" /\ run' = [run EXCEPT ![k].at = "created"]
  BY <1>1 DEF SafetyFires
<1>3. UNCHANGED <<moment, heard, capture, unanswered, answered, demanding>>
  BY DEF SafetyFires
<1>4. /\ run'[k] = [run[k] EXCEPT !.at = "created"]
      /\ \A j \in 1 .. MaxRuns : j # k => run'[j] = run[j]
      /\ run' = [j \in 1 .. MaxRuns |-> run'[j]]
  BY <1>1, <1>2
<1>5. IsTask(run'[k]) /\ run'[k].at = "created"
  <2>1. IsTask(run[k])
    BY DEF RInv, TasksInv
  <2> QED BY <1>2, <1>4, <2>1 DEF IsTask
<1>6. \A j \in 1 .. MaxRuns : IsTask(run'[j])
  BY <1>4, <1>5 DEF RInv, TasksInv
<1>7. TasksInv'
  BY <1>4, <1>6 DEF TasksInv
<1>8. TimesInv'
  BY <1>3 DEF RInv, TimesInv, Aged
<1>9. SilenceInv'
  BY <1>3, <1>4, <1>5 DEF RInv, SilenceInv, Silent
<1> QED BY <1>7, <1>8, <1>9 DEF RInv

\* Steps that leave the tasks alone.
LEMMA SafetyOtherSteps ==
  ASSUME RInv, Captured \/ Published \/ SwitchControl \/ MomentPasses
               \/ (\E t \in Cooler : Confirmed(t) \/ Unconfirmed(t)) \/ UNCHANGED safetyVars
  PROVE  RInv'
<1>1. /\ UNCHANGED <<run, heard>>
      /\ \/ moment' = moment
         \/ moment' = moment + 1 /\ capture = "none" /\ capture' = "none"
  BY DEF Captured, Published, SwitchControl, MomentPasses, Confirmed, Unconfirmed, safetyVars
<1>2. TasksInv'
  BY <1>1 DEF RInv, TasksInv
<1>3. capture' = "fresh" => ~Aged'
  <2>1. CASE Captured
    BY <2>1 DEF Captured, Aged
  <2>2. CASE Published \/ MomentPasses
    BY <2>2 DEF Published, MomentPasses
  <2>3. CASE UNCHANGED <<moment, heard, capture>>
    BY <2>3 DEF RInv, TimesInv, Aged
  <2> QED BY <2>1, <2>2, <2>3 DEF SwitchControl, Confirmed, Unconfirmed, safetyVars
<1>4. TimesInv'
  BY <1>1, <1>3 DEF RInv, TimesInv
<1>5. Silent => Silent'
  BY <1>1, SafetySpans DEF Silent, RInv, TimesInv
<1>6. /\ answered' \subseteq answered
      /\ \A t \in answered' : t \in unanswered' \/ t \notin demanding'
  <2>1. CASE Published
    <3>1. CASE answered = {}
      BY <2>1, <3>1 DEF Published
    <3>2. CASE answered # {}
      <4>1. capture # "fresh"
        BY <3>2, NoneFresh DEF RInv, SilenceInv
      <4>2. UNCHANGED <<demanding, unanswered, answered>>
        BY <2>1, <4>1 DEF Published
      <4> QED BY <4>2 DEF RInv, SilenceInv
    <3> QED BY <3>1, <3>2
  <2>2. CASE Captured \/ SwitchControl \/ MomentPasses \/ UNCHANGED safetyVars
    BY <2>2 DEF Captured, SwitchControl, MomentPasses, safetyVars, RInv, SilenceInv
  <2>3. ASSUME NEW t \in Cooler, Confirmed(t) \/ Unconfirmed(t)
        PROVE  /\ answered' \subseteq answered
               /\ \A u \in answered' : u \in unanswered' \/ u \notin demanding'
    BY <2>3 DEF Confirmed, Unconfirmed, RInv, SilenceInv
  <2> QED BY <2>1, <2>2, <2>3
<1>7. SilenceInv'
  BY <1>1, <1>5, <1>6 DEF RInv, SilenceInv
<1> QED BY <1>2, <1>4, <1>7 DEF RInv

LEMMA SafetySteps == RInv /\ [SafetyNext]_safetyVars => RInv'
BY SafetyReportSteps, SafetyFireSteps, SafetyOtherSteps, SafetyTaskSteps DEF SafetyNext

\* A fallback is sent by a step of SafetySent, and by no other.
LEMMA OnlySent ==
  ASSUME RInv, SafetyNext, NEW k \in DOMAIN run, run[k].at = "submitting", run'[k].at = "sent"
  PROVE  SafetySent(k)
<1>1. k \in 1 .. MaxRuns /\ DOMAIN run = 1 .. MaxRuns /\ IsTask(run[k])
  BY DEF RInv, TasksInv
<1>2. CASE RoomReports
  <2>1. run'[k] = [run[k] EXCEPT !.overtaken = run[k].at \in {"submitting", "sent"}]
    BY <1>2 DEF RoomReports
  <2>2. run'[k].at = run[k].at
    BY <2>1, <1>1 DEF IsTask
  <2> QED BY <2>2
<1>3. CASE \/ Captured \/ Published \/ SwitchControl \/ MomentPasses
          \/ (\E t \in Cooler : Confirmed(t) \/ Unconfirmed(t))
  BY <1>3 DEF Captured, Published, SwitchControl, MomentPasses, Confirmed, Unconfirmed
<1>4. CASE SafetyFires
  <2>1. PICK j \in DOMAIN run : run[j].at = "none" /\ run' = [run EXCEPT ![j].at = "created"]
    BY <1>4 DEF SafetyFires
  <2> QED BY <2>1, <1>1
<1>5. ASSUME NEW j \in DOMAIN run, SafetyBegins(j) \/ SafetySent(j) \/ SafetyReturns(j)
      PROVE  SafetySent(k)
  <2>1. CASE j # k
    <3>1. run'[k] = run[k]
      BY <1>5, <2>1, <1>1 DEF SafetyBegins, SafetySent, SafetyReturns, Visits
    <3> QED BY <3>1
  <2>2. CASE j = k
    <3>1. CASE SafetySent(j)
      BY <2>2, <3>1
    <3>2. CASE SafetyBegins(j) \/ SafetyReturns(j)
      <4>1. run'[k] = Rest \/ run'[k].at = "submitting"
        <5>1. run' = [run EXCEPT ![k] = Rest] \/ \E first : Visits(k, first)
          BY <2>2, <3>2 DEF SafetyBegins, SafetyReturns
        <5>2. ASSUME NEW first, Visits(k, first)
              PROVE  run'[k] = Rest \/ run'[k].at = "submitting"
          BY <5>2, <1>1 DEF Visits
        <5> QED BY <5>1, <5>2, <1>1
      <4> QED BY <4>1, RestIsTask
    <3> QED BY <1>5, <3>1, <3>2
  <2> QED BY <2>1, <2>2
<1> QED BY <1>2, <1>3, <1>4, <1>5 DEF SafetyNext

\* A task that no report has overtaken sends a fallback only in silence, and once: the
\* silence it saw when it began has lasted, and a target that has been sent its fallback
\* either waits for the answer, demands no more, or has failed.
THEOREM SafetyIsSilent == SafetySpec => SafetyOnlyInSilence
<1>1. ASSUME RInv, SafetyNext, NEW k \in DOMAIN run,
             run[k].at = "submitting", run'[k].at = "sent", ~run[k].overtaken
      PROVE  Silent /\ run[k].target \notin answered
  <2>1. SafetySent(k)
    BY <1>1, OnlySent
  <2>2. run[k].target \notin unanswered /\ run[k].target \in demanding
    BY <2>1 DEF SafetySent
  <2> QED BY <1>1, <2>2 DEF RInv, TasksInv, SilenceInv
<1>2. RInv /\ [SafetyNext]_safetyVars =>
        [\A k \in DOMAIN run :
           run[k].at = "submitting" /\ run'[k].at = "sent" /\ ~run[k].overtaken
             => Silent /\ run[k].target \notin answered]_safetyVars
  BY <1>1
<1> QED BY SafetyInitially, SafetySteps, <1>2, PTL DEF SafetySpec, SafetyOnlyInSilence

-----------------------------------------------------------------------------
(* The types of the cooling safety. *)

Task == [at : {"none", "created", "submitting", "sent"}, target : 0 .. Coolers,
         generation : Nat, overtaken : BOOLEAN]
SafeTypes ==
  /\ SafetyTypeOK
  /\ \A k \in 1 .. MaxRuns : run[k].at \in {"submitting", "sent"} => run[k].target \in Cooler

LEMMA VisitTypes ==
  ASSUME SafeTypes, NEW k \in DOMAIN run, NEW first \in Nat \ {0}, Visits(k, first),
         demanding' \subseteq Cooler
  PROVE  /\ run' \in [1 .. MaxRuns -> Task]
         /\ \A j \in 1 .. MaxRuns : run'[j].at \in {"submitting", "sent"} => run'[j].target \in Cooler
<1> DEFINE t == CHOOSE x \in Needed(first) : \A u \in Needed(first) : x <= u
           next == IF Needed(first) = {} THEN Rest
                   ELSE [at |-> "submitting", generation |-> reports, overtaken |-> run[k].overtaken,
                         target |-> t]
<1>1. run \in [1 .. MaxRuns -> Task] /\ k \in 1 .. MaxRuns /\ reports \in Nat /\ Coolers \in Nat
  BY SafetyAssumption DEF SafeTypes, SafetyTypeOK, Task
<1>2. run' = [run EXCEPT ![k] = next]
  BY DEF Visits
<1>3. ASSUME Needed(first) # {} PROVE t \in Cooler
  <2>1. Needed(first) \in SUBSET Nat /\ Needed(first) \subseteq Cooler
    BY <1>1 DEF Needed, Cooler
  <2>2. \E x \in Needed(first) : \A u \in Needed(first) : x <= u
    <3> DEFINE S == Needed(first)
    <3>1. S \in SUBSET Nat /\ S # {}
      BY <1>3, <2>1
    <3> HIDE DEF S
    <3>2. \E x \in S : \A u \in S : x <= u
      BY <3>1, LeastNumber
    <3> QED BY <3>2 DEF S
  <2>3. t \in Needed(first)
    BY <2>2
  <2> QED BY <2>1, <2>3
<1> HIDE DEF t
<1>4. next \in Task /\ (next.at \in {"submitting", "sent"} => next.target \in Cooler)
  <2>1. run[k].overtaken \in BOOLEAN
    BY <1>1 DEF Task
  <2>2. CASE Needed(first) = {}
    BY <1>1, <2>2 DEF Rest, Task
  <2>3. CASE Needed(first) # {}
    BY <1>1, <1>3, <2>1, <2>3 DEF Task, Cooler
  <2> QED BY <2>2, <2>3
<1> HIDE DEF next
<1>5. run' \in [1 .. MaxRuns -> Task]
  BY <1>1, <1>2, <1>4
<1>6. \A j \in 1 .. MaxRuns : run'[j] = IF j = k THEN next ELSE run[j]
  BY <1>1, <1>2
<1> QED BY <1>4, <1>5, <1>6 DEF SafeTypes

LEMMA SafeTypesInit == SafetyInit => SafeTypes
<1> SUFFICES ASSUME SafetyInit PROVE SafeTypes
  OBVIOUS
<1>1. Coolers \in Nat
  BY SafetyAssumption
<1>2. Rest \in Task /\ Rest.at = "none"
  BY <1>1 DEF Rest, Task
<1>3. run \in [1 .. MaxRuns -> Task] /\ \A k \in 1 .. MaxRuns : run[k].at = "none"
  BY <1>2 DEF SafetyInit
<1> QED BY <1>1, <1>3 DEF SafetyInit, SafeTypes, SafetyTypeOK, Task

LEMMA SafeTypesStep ==
  ASSUME SafeTypes, [SafetyNext]_safetyVars
  PROVE  SafeTypes'
<1>0. /\ moment \in Nat /\ heard \in 0 .. moment /\ reports \in Nat
      /\ capture \in {"none", "fresh", "stale"} /\ control \in BOOLEAN
      /\ armed \in Nat \union {NoTimer} /\ applied \subseteq Cooler
      /\ run \in [1 .. MaxRuns -> Task]
      /\ demanding \subseteq Cooler /\ unanswered \subseteq Cooler /\ answered \subseteq Cooler
      /\ switches \in Nat /\ DOMAIN run = 1 .. MaxRuns
      /\ \A k \in 1 .. MaxRuns : run[k].at \in {"submitting", "sent"} => run[k].target \in Cooler
  BY DEF SafeTypes, SafetyTypeOK, Task
<1>t. /\ \A k \in 1 .. MaxRuns : run[k] \in Task
      /\ \A k \in 1 .. MaxRuns : run[k].target \in 0 .. Coolers /\ run[k].generation \in Nat /\ run[k].overtaken \in BOOLEAN
  BY <1>0 DEF Task
<1>n. FreshSpan \in Nat /\ SafetyDelay \in Nat /\ Coolers \in Nat
  BY SafetyAssumption
<1> DEFINE Runs(r) == /\ r \in [1 .. MaxRuns -> Task]
                      /\ \A k \in 1 .. MaxRuns : r[k].at \in {"submitting", "sent"} => r[k].target \in Cooler
<1>r. ASSUME NEW k \in 1 .. MaxRuns, NEW at \in {"created", "sent"},
             at = "sent" => run[k].target \in Cooler
      PROVE  Runs([run EXCEPT ![k].at = at])
  <2> DEFINE next == [run[k] EXCEPT !.at = at]
  <2>1. next \in Task /\ next.at = at /\ next.target = run[k].target
    BY <1>t DEF Task
  <2>2. [run EXCEPT ![k].at = at] = [run EXCEPT ![k] = next]
    BY <1>0
  <2> HIDE DEF next
  <2>3. \A j \in 1 .. MaxRuns : [run EXCEPT ![k] = next][j] = IF j = k THEN next ELSE run[j]
    BY <1>0
  <2>4. [run EXCEPT ![k] = next] \in [1 .. MaxRuns -> Task]
    BY <1>0, <2>1
  <2> QED BY <1>0, <1>r, <2>1, <2>2, <2>3, <2>4
<1>e. ASSUME NEW k \in 1 .. MaxRuns
      PROVE  Runs([run EXCEPT ![k] = Rest])
  <2>1. Rest \in Task /\ Rest.at = "none"
    BY <1>n DEF Rest, Task
  <2> HIDE DEF Runs
  <2>3. \A j \in 1 .. MaxRuns : [run EXCEPT ![k] = Rest][j] = IF j = k THEN Rest ELSE run[j]
    BY <1>0
  <2>4. [run EXCEPT ![k] = Rest] \in [1 .. MaxRuns -> Task]
    BY <1>0, <2>1
  <2> QED BY <1>0, <2>1, <2>3, <2>4 DEF Runs
<1>v. \A k \in 1 .. MaxRuns, first \in Nat \ {0} :
        Visits(k, first) /\ demanding' \subseteq Cooler => Runs(run')
  BY <1>0, VisitTypes
<1>k. Runs(run)
  BY <1>0
<1>1. CASE RoomReports
  <2> DEFINE after(k) == [run[k] EXCEPT !.overtaken = run[k].at \in {"submitting", "sent"}]
  <2>1. run' = [k \in 1 .. MaxRuns |-> after(k)]
    BY <1>0, <1>1 DEF RoomReports
  <2>5. \A r \in Task, b \in BOOLEAN :
          LET a == [r EXCEPT !.overtaken = b] IN a \in Task /\ a.at = r.at /\ a.target = r.target
    BY DEF Task
  <2>6. \A k \in 1 .. MaxRuns : (run[k].at \in {"submitting", "sent"}) \in BOOLEAN
    OBVIOUS
  <2>2. \A k \in 1 .. MaxRuns : after(k) \in Task /\ after(k).at = run[k].at /\ after(k).target = run[k].target
    BY <1>t, <2>5, <2>6, Zenon
  <2> HIDE DEF after
  <2>3. run' \in [1 .. MaxRuns -> Task]
    BY <2>1, <2>2
  <2>4. \A k \in 1 .. MaxRuns : run'[k].at \in {"submitting", "sent"} => run'[k].target \in Cooler
    BY <1>0, <2>1, <2>2
  <2> QED BY <1>0, <1>1, <2>3, <2>4 DEF RoomReports, SafeTypes, SafetyTypeOK, Task
<1>2. CASE Captured \/ SwitchControl
  <2>1. CASE Captured
    <3>1. capture' \in {"none", "fresh", "stale"}
      BY <2>1 DEF Captured
    <3> QED BY <1>0, <2>1, <3>1 DEF Captured, SafeTypes, SafetyTypeOK, Task
  <2>2. CASE SwitchControl
    <3>1. control' \in BOOLEAN /\ switches' \in Nat
      BY <1>0, <2>2 DEF SwitchControl
    <3> QED BY <1>0, <2>2, <3>1 DEF SwitchControl, SafeTypes, SafetyTypeOK, Task
  <2> QED BY <1>2, <2>1, <2>2
<1>3. CASE Published
  <2>1. PICK complete \in BOOLEAN :
          /\ Scheduled(capture = "stale", complete)
          /\ IF capture = "fresh" /\ complete /\ control
             THEN \E more \in SUBSET (Cooler \ unanswered) : demanding' = demanding \union more
             ELSE UNCHANGED demanding
    BY <1>3 DEF Published
  <2>2. demanding' \subseteq Cooler
    BY <1>0, <2>1
  <2>3. armed' \in Nat \union {NoTimer} /\ applied' \subseteq Cooler
    <3>1. Later(moment, heard + SafetyDelay) \in Nat
      BY <1>0, <1>n DEF Later
    <3> QED BY <1>0, <2>1, <3>1 DEF Scheduled
  <2>4. capture' = "none" /\ UNCHANGED <<moment, heard, reports, control, run, unanswered, answered, switches>>
    BY <1>3 DEF Published
  <2> QED BY <1>0, <2>2, <2>3, <2>4 DEF SafeTypes, SafetyTypeOK, Task
<1>4. CASE SafetyFires
  <2>1. PICK k \in 1 .. MaxRuns : run' = [run EXCEPT ![k].at = "created"]
    BY <1>0, <1>4 DEF SafetyFires
  <2>2. Runs(run')
    BY <1>r, <2>1
  <2>3. armed' = NoTimer /\ UNCHANGED <<moment, heard, reports, capture, control, applied, demanding, unanswered,
                                        answered, switches>>
    BY <1>4 DEF SafetyFires
  <2> QED BY <1>0, <2>2, <2>3 DEF SafeTypes, SafetyTypeOK, Task
<1>5. CASE MomentPasses
  BY <1>0, <1>5, <1>k DEF MomentPasses, SafeTypes, SafetyTypeOK, Task
<1>6. ASSUME NEW k \in 1 .. MaxRuns, SafetyBegins(k) PROVE SafeTypes'
  <2>1. Runs(run')
    <3>1. demanding' = demanding /\ (Visits(k, 1) \/ run' = [run EXCEPT ![k] = Rest])
      BY <1>6 DEF SafetyBegins
    <3> HIDE DEF Runs
    <3>2. 1 \in Nat \ {0}
      OBVIOUS
    <3> QED BY <1>0, <1>v, <1>e, <3>1, <3>2
  <2>2. UNCHANGED <<moment, heard, reports, capture, control, armed, unanswered, answered, switches, applied, demanding>>
    BY <1>6 DEF SafetyBegins
  <2> QED BY <1>0, <2>1, <2>2 DEF SafeTypes, SafetyTypeOK, Task
<1>7. ASSUME NEW k \in 1 .. MaxRuns, SafetySent(k) PROVE SafeTypes'
  <2>1. run[k].target \in Cooler /\ run' = [run EXCEPT ![k].at = "sent"]
    BY <1>0, <1>7 DEF SafetySent
  <2>2. Runs(run')
    BY <1>r, <2>1
  <2>3. unanswered' \subseteq Cooler /\ answered' \subseteq Cooler
    BY <1>0, <1>7, <2>1 DEF SafetySent
  <2>4. UNCHANGED <<moment, heard, reports, capture, control, armed, applied, demanding, switches>>
    BY <1>7 DEF SafetySent
  <2> QED BY <1>0, <2>2, <2>3, <2>4 DEF SafeTypes, SafetyTypeOK, Task
<1>8. ASSUME NEW k \in 1 .. MaxRuns, SafetyReturns(k) PROVE SafeTypes'
  <2>1. run[k].target \in Cooler /\ run[k].target + 1 \in Nat \ {0}
    BY <1>0, <1>n, <1>8 DEF SafetyReturns, Cooler
  <2>2. Runs(run')
    <3>1. demanding' = demanding /\ Visits(k, run[k].target + 1)
      BY <1>8 DEF SafetyReturns
    <3> HIDE DEF Runs
    <3> QED BY <1>0, <1>v, <2>1, <3>1
  <2>3. applied' \subseteq Cooler
    BY <1>0, <1>8, <2>1 DEF SafetyReturns
  <2>4. UNCHANGED <<moment, heard, reports, capture, control, armed, unanswered, answered, switches, demanding>>
    BY <1>8 DEF SafetyReturns
  <2> QED BY <1>0, <2>2, <2>3, <2>4 DEF SafeTypes, SafetyTypeOK, Task
<1>9. ASSUME NEW t \in Cooler, Confirmed(t) \/ Unconfirmed(t) PROVE SafeTypes'
  BY <1>0, <1>9, <1>k DEF Confirmed, Unconfirmed, SafeTypes, SafetyTypeOK, Task
<1>10. CASE UNCHANGED safetyVars
  BY <1>0, <1>10, <1>k DEF safetyVars, SafeTypes, SafetyTypeOK, Task
<1> QED BY <1>0, <1>1, <1>2, <1>3, <1>4, <1>5, <1>6, <1>7, <1>8, <1>9, <1>10 DEF SafetyNext

LEMMA SafetyTypes == SafetySpec => []SafetyTypeOK
<1>1. SafeTypes => SafetyTypeOK
  BY DEF SafeTypes
<1> QED BY <1>1, SafeTypesInit, SafeTypesStep, PTL DEF SafetySpec

-----------------------------------------------------------------------------
(* CriticalLocations.                                                       *)

\* The stored filter knows of the used that advanced it: its window began with the
\* first of them, it counts them, and none is newer than the last.
Counts(f, used) ==
  /\ f.start = NoTime => used = {}
  /\ f.start # NoTime =>
       /\ IsFiniteSet(used) /\ Cardinality(used) = f.count
       /\ f.start \in used /\ f.last \in Nat
       /\ \A t \in used : f.start <= t /\ t <= f.last
LocInv ==
  /\ CritTypeOK /\ reportedAt <= minute
  /\ Counts(filter, counted) /\ (filter.start # NoTime => filter.last <= reportedAt)

Filter == [start : Nat \union {NoTime}, last : Nat \union {NoTime}, value : Int, count : Nat]

LEMMA CriticalConstants ==
  /\ NoTime \notin Nat /\ RawDelta \subseteq Int /\ Outlier \in Nat /\ Bound \in Nat
  /\ Warmup \in Nat /\ Warmup > 0 /\ MinReports \in Nat
BY CriticalAssumption

LEMMA SmallestIs ==
  ASSUME NEW S \in SUBSET Nat, NEW m \in S, \A t \in S : m <= t
  PROVE  Min(S) = m
<1>1. \A x \in S : (\A y \in S : x <= y) => x = m
  OBVIOUS
<1> QED BY <1>1 DEF Min

LEMMA FilteredInt ==
  ASSUME CritTypeOK, NEW d \in Int, NEW v \in Filtered(d)
  PROVE  v \in Int
<1>1. filter.value \in Int
  BY DEF CritTypeOK
<1> QED BY <1>1 DEF Filtered, Between

\* The filter after a report at t that is newer than its last.
LEMMA AdvancedIs ==
  ASSUME CritTypeOK, Counts(filter, counted), NEW d \in Int, NEW t \in Nat, NEW v \in Int,
         filter.start # NoTime => filter.last < t
  PROVE  /\ Advanced(d, t, v) \in Filter
         /\ Size(d) > Outlier => Advanced(d, t, v).start = NoTime /\ Counts(Advanced(d, t, v), {})
         /\ ~(Size(d) > Outlier) =>
              /\ Advanced(d, t, v).start # NoTime /\ Advanced(d, t, v).last = t
              /\ Counts(Advanced(d, t, v), counted \union {t})
<1>1. filter \in Filter /\ NoTime \notin Nat /\ counted \subseteq Nat
  BY CriticalConstants DEF CritTypeOK, Filter
<1>2. CASE Size(d) > Outlier
  <2>1. Advanced(d, t, v) = Blank
    BY <1>2 DEF Advanced
  <2> QED BY <1>2, <2>1 DEF Blank, Filter, Counts
<1>3. CASE ~(Size(d) > Outlier) /\ filter.start = NoTime
  <2>1. Advanced(d, t, v) = [start |-> t, last |-> t, value |-> d, count |-> 1]
    BY <1>3 DEF Advanced
  <2>2. counted = {}
    BY <1>3 DEF Counts
  <2>3. IsFiniteSet({t}) /\ Cardinality({t}) = 1
    BY FS_Singleton
  <2>4. counted \union {t} = {t}
    BY <2>2
  <2> QED BY <1>1, <1>3, <2>1, <2>3, <2>4 DEF Filter, Counts
<1>4. CASE ~(Size(d) > Outlier) /\ filter.start # NoTime
  <2>1. filter.last \in Nat /\ filter.start \in Nat /\ filter.count \in Nat /\ ~(t <= filter.last)
    BY <1>1, <1>4 DEF Counts, Filter
  <2> DEFINE next == [start |-> filter.start, last |-> t, value |-> v, count |-> filter.count + 1]
  <2>2. Advanced(d, t, v) = next
    BY <1>4, <2>1 DEF Advanced
  <2>3. next \in Filter /\ next.start = filter.start /\ next.last = t /\ next.count = filter.count + 1
    BY <2>1 DEF Filter
  <2> HIDE DEF next
  <2>4. t \notin counted
    BY <1>4, <2>1 DEF Counts
  <2>5. /\ IsFiniteSet(counted \union {t})
        /\ Cardinality(counted \union {t}) = filter.count + 1
    BY <1>4, <2>4, FS_AddElement DEF Counts
  <2>6. filter.start \in counted \union {t}
    BY <1>4 DEF Counts
  <2>7. \A x \in counted \union {t} : filter.start <= x /\ x <= t
    <3>1. \A x \in counted : filter.start <= x /\ x <= filter.last /\ x \in Nat
      BY <1>1, <1>4 DEF Counts
    <3>2. filter.start <= filter.last
      BY <1>4 DEF Counts
    <3> QED BY <2>1, <3>1, <3>2
  <2> QED BY <1>4, <2>2, <2>3, <2>5, <2>6, <2>7 DEF Counts
<1> QED BY <1>2, <1>3, <1>4

LEMMA LimitedIs == \A v \in Int : Limited(v) \in -Bound .. Bound
BY CriticalConstants DEF Limited

\* What a snapshot finds: an influence that was earned, in its bounds.
LEMMA EvaluatedIs ==
  ASSUME LocInv, NEW v \in Filtered(delta)
  PROVE  /\ Evaluated(v) \in [usable : BOOLEAN, eligible : BOOLEAN, effective : -Bound .. Bound]
         /\ Evaluated(v).eligible =>
              /\ Size(delta) <= Outlier
              /\ Cardinality(counted \union {reportedAt}) >= MinReports
              /\ reportedAt - Min(counted) >= Warmup
<1> DEFINE next == Advanced(delta, reportedAt, v)
           newer == filter.start = NoTime \/ reportedAt > filter.last
           found == [usable |-> TRUE,
                     eligible |-> newer /\ reportedAt - next.start >= Warmup /\ next.count >= MinReports,
                     effective |-> Limited(next.value)]
           nothing == [usable |-> FALSE, eligible |-> FALSE, effective |-> 0]
<1>1. /\ CritTypeOK /\ Counts(filter, counted) /\ delta \in Int /\ reportedAt \in Nat /\ v \in Int
      /\ filter \in Filter
  <2>1. CritTypeOK /\ Counts(filter, counted) /\ delta \in Int /\ reportedAt \in Nat /\ filter \in Filter
    BY DEF LocInv, CritTypeOK, Filter
  <2> QED BY <2>1, FilteredInt
<1>2. Evaluated(v) = IF ~online \/ next.start = NoTime THEN nothing ELSE found
  BY DEF Evaluated
<1>3. nothing \in [usable : BOOLEAN, eligible : BOOLEAN, effective : -Bound .. Bound]
  BY CriticalConstants
<1>4. CASE ~newer
  <2>1. filter.start # NoTime /\ reportedAt <= filter.last
    BY <1>1, <1>4 DEF Counts
  <2>2. next \in Filter
    BY <1>1, <2>1 DEF Advanced, Blank, Filter
  <2>3. Limited(next.value) \in -Bound .. Bound
    BY <2>2, LimitedIs DEF Filter
  <2>4. found \in [usable : BOOLEAN, eligible : BOOLEAN, effective : -Bound .. Bound] /\ ~found.eligible
    BY <1>4, <2>3
  <2> QED BY <1>2, <1>3, <2>4
<1>5. CASE newer
  <2>1. filter.start # NoTime => filter.last < reportedAt
    BY <1>1, <1>5 DEF Counts
  <2>2. /\ next \in Filter
        /\ Size(delta) > Outlier => next.start = NoTime
        /\ ~(Size(delta) > Outlier) => next.last = reportedAt /\ Counts(next, counted \union {reportedAt})
    BY <1>1, <2>1, AdvancedIs
  <2> HIDE DEF next
  <2>3. Limited(next.value) \in -Bound .. Bound /\ next.count \in Nat
    BY <2>2, LimitedIs DEF Filter
  <2>4. found \in [usable : BOOLEAN, eligible : BOOLEAN, effective : -Bound .. Bound]
    BY <2>3
  <2>5. ASSUME next.start # NoTime, reportedAt - next.start >= Warmup, next.count >= MinReports
        PROVE  /\ Size(delta) <= Outlier
               /\ Cardinality(counted \union {reportedAt}) >= MinReports
               /\ reportedAt - Min(counted) >= Warmup
    <3>1. ~(Size(delta) > Outlier) /\ Size(delta) \in Int
      BY <1>1, <2>2, <2>5 DEF Size
    <3>2. /\ Cardinality(counted \union {reportedAt}) = next.count
          /\ next.start \in counted \union {reportedAt} /\ next.start \in Nat
          /\ \A t \in counted \union {reportedAt} : next.start <= t
      BY <2>2, <2>5, <3>1 DEF Counts, Filter
    <3>3. next.start # reportedAt
      BY <1>1, <2>5, CriticalConstants
    <3>4. next.start \in counted /\ counted \in SUBSET Nat
      BY <1>1, <3>2, <3>3 DEF CritTypeOK
    <3>5. Min(counted) = next.start
      BY <3>2, <3>4, SmallestIs
    <3> QED BY <2>5, <3>1, <3>2, <3>5, CriticalConstants
  <2>6. found.eligible <=> newer /\ reportedAt - next.start >= Warmup /\ next.count >= MinReports
    OBVIOUS
  <2> QED BY <1>2, <1>3, <2>4, <2>5, <2>6
<1> QED BY <1>4, <1>5

LEMMA CritInitially == CritInit => LocInv
<1> SUFFICES ASSUME CritInit PROVE LocInv
  OBVIOUS
<1>1. delta \in Int /\ 0 \in -Bound .. Bound /\ filter = Blank
  BY CriticalConstants DEF CritInit
<1>2. CritTypeOK
  BY <1>1 DEF CritInit, CritTypeOK, Blank
<1>3. Counts(filter, counted) /\ filter.start = NoTime
  BY <1>1 DEF CritInit, Counts, Blank
<1> QED BY <1>2, <1>3 DEF CritInit, LocInv

LEMMA CritSteps == LocInv /\ [CritNext]_critVars => LocInv'
<1> SUFFICES ASSUME LocInv, [CritNext]_critVars PROVE LocInv'
  OBVIOUS
<1>0. CritTypeOK /\ Counts(filter, counted) /\ minute \in Nat /\ reportedAt \in Nat /\ reportedAt <= minute
  BY DEF LocInv, CritTypeOK
<1>1. CASE \E d \in RawDelta : MaterialReport(d)
  <2>1. PICK d \in RawDelta : MaterialReport(d)
    BY <1>1
  <2>2. PICK v \in Filtered(d) : filter' = Advanced(d, minute, v)
    BY <2>1 DEF MaterialReport
  <2>3. d \in Int /\ v \in Int /\ (filter.start # NoTime => filter.last < minute)
    <3>1. d \in Int
      BY CriticalConstants
    <3>2. v \in Int
      BY <1>0, <3>1, FilteredInt
    <3>3. reportedAt < minute
      BY <1>0, <2>1 DEF MaterialReport
    <3>4. ASSUME filter.start # NoTime PROVE filter.last < minute
      BY <1>0, <3>3, <3>4 DEF LocInv, Counts
    <3> QED BY <3>1, <3>2, <3>4
  <2>4. /\ filter' \in Filter
        /\ Size(d) > Outlier => filter'.start = NoTime /\ Counts(filter', {})
        /\ ~(Size(d) > Outlier) => filter'.last = minute /\ Counts(filter', counted \union {minute})
    BY <1>0, <2>2, <2>3, AdvancedIs
  <2>5. /\ counted' = IF Size(d) > Outlier THEN {} ELSE counted \union {minute}
        /\ UNCHANGED <<minute, mode, outcome>>
        /\ online' = TRUE /\ reportedAt' = minute /\ delta' = d
    BY <2>1 DEF MaterialReport
  <2>6. Counts(filter', counted') /\ (filter'.start # NoTime => filter'.last = minute)
    BY <2>4, <2>5
  <2>7. CritTypeOK'
    BY <1>0, <2>3, <2>4, <2>5 DEF CritTypeOK, Filter
  <2>8. reportedAt' <= minute' /\ (filter'.start # NoTime => filter'.last <= reportedAt')
    BY <1>0, <2>5, <2>6
  <2> QED BY <2>6, <2>7, <2>8 DEF LocInv
<1>2. CASE \/ \E d \in RawDelta : PrimaryMoves(d)
           \/ SmallReport \/ Outage \/ CritTick \/ UNCHANGED critVars
  <2>1. /\ filter' = filter /\ counted' = counted /\ mode' = mode /\ outcome' = outcome
        /\ minute' \in Nat /\ reportedAt' \in Nat
        /\ reportedAt' <= minute' /\ reportedAt <= reportedAt' /\ online' \in BOOLEAN /\ delta' \in Int
    <3>1. online \in BOOLEAN /\ delta \in Int
      BY <1>0 DEF CritTypeOK
    <3>2. CASE \E d \in RawDelta : PrimaryMoves(d)
      <4>1. PICK d \in RawDelta : PrimaryMoves(d)
        BY <3>2
      <4>2. d \in Int
        BY CriticalConstants
      <4> QED BY <1>0, <3>1, <4>1, <4>2 DEF PrimaryMoves
    <3>3. CASE SmallReport
      BY <1>0, <3>1, <3>3 DEF SmallReport
    <3>4. CASE Outage
      <4>1. online' = FALSE /\ UNCHANGED <<minute, mode, delta, reportedAt, filter, outcome, counted>>
        BY <3>4 DEF Outage
      <4>2. online' \in BOOLEAN
        BY <4>1
      <4> QED BY <1>0, <3>1, <4>1, <4>2
    <3>5. CASE CritTick
      BY <1>0, <3>1, <3>5 DEF CritTick
    <3>6. CASE UNCHANGED critVars
      BY <1>0, <3>1, <3>6 DEF critVars
    <3> QED BY <1>2, <3>2, <3>3, <3>4, <3>5, <3>6
  <2>2. CritTypeOK'
    BY <1>0, <2>1 DEF CritTypeOK
  <2>3. ASSUME filter.start # NoTime PROVE filter.last <= reportedAt'
    BY <1>0, <2>1, <2>3 DEF LocInv, Counts
  <2> QED BY <1>0, <2>1, <2>2, <2>3 DEF LocInv, Counts
<1>3. CASE Capture
  <2>1. PICK v \in Filtered(delta) : outcome' = Evaluated(v)
    BY <1>3 DEF Capture
  <2>2. outcome' \in [usable : BOOLEAN, eligible : BOOLEAN, effective : -Bound .. Bound]
    BY <2>1, EvaluatedIs
  <2>3. UNCHANGED <<minute, mode, online, delta, reportedAt, filter, counted>>
    BY <1>3 DEF Capture
  <2> QED BY <2>2, <2>3 DEF LocInv, CritTypeOK, Counts
<1> QED BY <1>1, <1>2, <1>3 DEF CritNext

\* A location moves a command only after enough reports over the whole warm-up with no
\* outlier among them (update_critical_delta, prepare_critical_location), although a
\* snapshot judges a report that the stored filter has not seen yet.
THEOREM InfluenceIsEarned == CritSpec => InfluenceEarned
<1> DEFINE Earning ==
      outcome' # outcome /\ Controls' =>
        /\ Size(delta) <= Outlier /\ outcome'.effective \in -Bound .. Bound
        /\ Cardinality(counted \union {reportedAt}) >= MinReports
        /\ reportedAt - Min(counted) >= Warmup
<1>1. LocInv /\ [CritNext]_critVars => [Earning]_critVars
  <2> SUFFICES ASSUME LocInv, [CritNext]_critVars, outcome' # outcome, Controls'
               PROVE  /\ Size(delta) <= Outlier /\ outcome'.effective \in -Bound .. Bound
                      /\ Cardinality(counted \union {reportedAt}) >= MinReports
                      /\ reportedAt - Min(counted) >= Warmup
    OBVIOUS
  <2>1. Capture
    BY DEF CritNext, MaterialReport, PrimaryMoves, SmallReport, Outage, CritTick, critVars
  <2>2. PICK v \in Filtered(delta) : outcome' = Evaluated(v)
    BY <2>1 DEF Capture
  <2>3. outcome'.eligible
    BY DEF Controls
  <2> QED BY <2>2, <2>3, EvaluatedIs
<1> QED BY <1>1, CritInitially, CritSteps, PTL DEF CritSpec, InfluenceEarned

LEMMA CritTypes == CritSpec => []CritTypeOK
<1>1. LocInv => CritTypeOK
  BY DEF LocInv
<1> QED BY <1>1, CritInitially, CritSteps, PTL DEF CritSpec

-----------------------------------------------------------------------------
(* OutdoorHistory.                                                          *)

\* The longest hold of a report.
Longest == IF BootHold > Hold THEN BootHold ELSE Hold

\* LatestBy, Justified and the hours that count, of any reports.
LatestOf(l, t) == {r \in l : r.at <= t /\ \A s \in l : s.at <= t => s.at <= r.at}
Due(l, starts, u) ==
  \E r \in LatestOf(l, u) : r.ok /\ \E a \in {r.at} \union {s \in starts : s >= r.at} :
    a <= u /\ u < a + Longest
DueHours(l, starts, t, d) ==
  {u \in d * DayLen..(d * DayLen + DayLen - 1) : u < t /\ Due(l, starts, u)}

\* The hold of an integration is that of a valid report, counted from the report or from
\* where a chunk began with it; the reports that it has passed since were valid.
HoldDue(l, starts, i) ==
  i.hold # Nothing =>
    \E r \in l : \E a \in {r.at} \union starts :
      /\ r.ok /\ r.at <= a /\ a <= i.cursor /\ i.hold <= a + Longest
      /\ \A s \in l : s.at <= a => s.at <= r.at
      /\ \A s \in l : a < s.at /\ s.at < i.cursor => s.ok

\* An integration counts no hour that is not due.
Sound(l, starts, i) ==
  /\ \A d \in Day : i.covered[d] <= Cardinality(DueHours(l, starts, i.cursor, d))
  /\ HoldDue(l, starts, i)

\* An integration may go on without the reports up to t.
Heard(l, i, t) ==
  \A s \in l : i.cursor <= s.at /\ s.at <= t => s.ok \/ (s.at = i.cursor /\ i.hold = Nothing)

HistTypes ==
  /\ HistTypeOK /\ {startsUsed, faultsUsed} \subseteq Nat
  /\ cursor <= hour /\ (file # Nothing => file.cursor <= hour)
  /\ saving # Nothing => saving.cursor <= hour
  /\ \A r \in log : r.at <= hour /\ \A s \in log : r.at = s.at => r = s
  /\ \A a \in anchors : a < hour
SoundInv ==
  ~unheard =>
    /\ phase # "down" => Sound(log, anchors, Now) /\ Heard(log, Now, hour)
    /\ file # Nothing => Sound(log, anchors, file)
    /\ saving # Nothing => Sound(log, anchors, saving)

-----------------------------------------------------------------------------
(* Replaying the samples. *)

\* What holds at lo and is handed on from each number to the next holds up to hi.
LEMMA IntervalInduction ==
  ASSUME NEW lo \in Int, NEW hi \in Int, NEW G, lo \in G,
         \A t \in lo .. hi - 1 : t \in G => t + 1 \in G
  PROVE  \A t \in lo .. hi : t \in G
<1> DEFINE S == {n \in Nat : lo + n <= hi /\ lo + n \notin G}
<1>1. ASSUME S # {} PROVE FALSE
  <2>1. S \in SUBSET Nat
    OBVIOUS
  <2> HIDE DEF S
  <2>2. PICK n \in S : \A m \in S : n <= m
    BY <1>1, <2>1, LeastNumber
  <2> USE DEF S
  <2>3. n \in Nat /\ lo + n <= hi /\ lo + n \notin G /\ n # 0
    BY <2>2
  <2>4. n - 1 \in Nat /\ n - 1 \notin S
    BY <2>2, <2>3
  <2>5. lo + (n - 1) \in G /\ lo + (n - 1) \in lo .. hi - 1
    BY <2>3, <2>4
  <2>6. lo + (n - 1) + 1 \in G
    BY <2>5
  <2> QED BY <2>3, <2>6
<1>2. ASSUME NEW t \in lo .. hi, t \notin G PROVE t - lo \in S
  <2>1. t - lo \in Nat /\ lo + (t - lo) = t /\ t <= hi
    OBVIOUS
  <2> QED BY <1>2, <2>1
<1> QED BY <1>1, <1>2

LEMMA ReplayIs ==
  ASSUME NEW i, i.cursor \in Int, hour \in Int, i.cursor - 1 <= hour, NEW samples, NEW span
  PROVE  \E f : /\ f[i.cursor - 1] = i /\ Replay(i, samples, span) = f[hour]
                /\ \A t \in i.cursor .. hour : f[t] = AddAt(f[t - 1], samples, span, t)
<1> DEFINE c == i.cursor
           lo == c - 1
           Is(g, t) == g = [x \in lo .. t |-> IF x < c THEN i ELSE AddAt(g[x - 1], samples, span, x)]
           G == {t \in Int : \E g : Is(g, t)}
           f == CHOOSE g : Is(g, hour)
<1>0. c \in Int /\ lo \in Int /\ c = lo + 1 /\ lo <= hour
  OBVIOUS
<1>1. Replay(i, samples, span) = f[hour]
  BY Zenon DEF Replay
<1> HIDE DEF c, lo
<1>2. lo \in G
  <2> DEFINE g == [x \in lo .. lo |-> i]
  <2>1. \A x \in lo .. lo : x < c
    BY <1>0
  <2>2. Is(g, lo)
    BY <2>1
  <2> QED BY <1>0, <2>2
<1>3. ASSUME NEW t \in lo .. hour - 1, t \in G PROVE t + 1 \in G
  <2>1. PICK g : Is(g, t)
    BY <1>3
  <2> DEFINE h == [x \in lo .. t + 1 |-> IF x < c THEN i ELSE AddAt(g[x - 1], samples, span, x)]
  <2>2. t \in Int /\ t + 1 \in Int /\ \A x \in lo .. t + 1 : ~(x < c) => x - 1 \in lo .. t /\ x - 1 \in lo .. t + 1
    BY <1>0
  <2>3. \A x \in lo .. t : x \in lo .. t + 1
    BY <1>0
  <2>4. \A x \in lo .. t : h[x] = g[x]
    <3>1. \A x \in lo .. t : g[x] = IF x < c THEN i ELSE AddAt(g[x - 1], samples, span, x)
      BY <2>1
    <3> QED BY <2>3, <3>1
  <2>5. \A x \in lo .. t + 1 : ~(x < c) => h[x - 1] = g[x - 1]
    BY <2>2, <2>4
  <2>6. h = [x \in lo .. t + 1 |-> IF x < c THEN i ELSE AddAt(h[x - 1], samples, span, x)]
    <3>1. \A x \in lo .. t + 1 : (IF x < c THEN i ELSE AddAt(g[x - 1], samples, span, x))
                               = (IF x < c THEN i ELSE AddAt(h[x - 1], samples, span, x))
      BY <2>5
    <3> QED BY <3>1
  <2>7. Is(h, t + 1)
    BY <2>6
  <2> QED BY <2>2, <2>7
<1>4. hour \in G
  <2>1. \A t \in lo .. hour - 1 : t \in G => t + 1 \in G
    BY <1>3
  <2> HIDE DEF G
  <2>2. \A t \in lo .. hour : t \in G
    BY <1>0, <1>2, <2>1, IntervalInduction
  <2> QED BY <1>0, <2>2
<1>5. Is(f, hour)
  BY <1>4
<1> HIDE DEF f
<1>6. f[lo] = i
  BY <1>0, <1>5
<1>7. \A t \in c .. hour : f[t] = AddAt(f[t - 1], samples, span, t)
  <2>1. \A t \in c .. hour : t \in lo .. hour /\ ~(t < c)
    BY <1>0
  <2> QED BY <1>5, <2>1
<1> QED BY <1>1, <1>6, <1>7 DEF c, lo

-----------------------------------------------------------------------------
(* Hours that are due. *)

\* Reports: no two at one time.
Reports(l) ==
  /\ l \subseteq [at : Nat, ok : BOOLEAN]
  /\ \A r, s \in l : r.at = s.at => r = s
IsIntegration(i) == i \in [cursor : Int, covered : [Day -> Nat], hold : Nat \union {Nothing}]

LEMMA HistoryConstants ==
  /\ Nothing \notin Nat /\ Nothing \notin Integration
  /\ DayLen \in Nat \ {0} /\ Hold \in Nat /\ BootHold \in Nat /\ Lookback \in Nat
  /\ MaxHour \in Nat /\ Longest \in Nat /\ Hold <= Longest /\ BootHold <= Longest
BY HistoryAssumption DEF Longest

LEMMA DaysAre == Day \subseteq Int /\ \A d \in Day : d * DayLen \in Int
<1>1. Day \subseteq Int
  BY DEF Day
<1>2. \A d \in Int : \A n \in Int : d * n \in Int
  OBVIOUS
<1> QED BY <1>1, <1>2, HistoryConstants

LEMMA DayOf ==
  \A u \in Int : \A n \in Nat \ {0} : (u \div n) * n <= u /\ u <= (u \div n) * n + n - 1
OBVIOUS

LEMMA LatestExists ==
  ASSUME NEW l, Reports(l), NEW r \in l, NEW u \in Int, r.at <= u
  PROVE  \E q \in LatestOf(l, u) : r.at <= q.at
<1> DEFINE past == {s \in l : s.at <= u}
           ages == {u - s.at : s \in past}
<1>1. \A s \in l : s.at \in Nat
  BY DEF Reports
<1>2. ages \in SUBSET Nat /\ u - r.at \in ages
  BY <1>1
<1> HIDE DEF ages
<1>3. PICK n \in ages : \A m \in ages : n <= m
  BY <1>2, LeastNumber
<1> USE DEF ages
<1>4. PICK q \in past : n = u - q.at
  BY <1>3
<1>5. \A s \in past : s.at <= q.at
  <2>1. \A s \in past : u - q.at <= u - s.at
    BY <1>3, <1>4
  <2> QED BY <1>1, <1>4, <2>1
<1> QED BY <1>4, <1>5 DEF LatestOf

LEMMA HeldIsDue ==
  ASSUME NEW l, Reports(l), NEW starts \in SUBSET Int, NEW i, IsIntegration(i), HoldDue(l, starts, i),
         i.hold # Nothing, NEW u \in Int, i.cursor <= u, u < i.hold,
         \A s \in l : i.cursor <= s.at /\ s.at <= u => s.ok
  PROVE  Due(l, starts, u)
<1>1. \A s \in l : s.at \in Nat
  BY DEF Reports
<1>2. i.cursor \in Int /\ i.hold \in Nat /\ Longest \in Nat
  BY HistoryConstants DEF IsIntegration
<1>9. PICK r \in l : \E a \in {r.at} \union starts :
        /\ r.ok /\ r.at <= a /\ a <= i.cursor /\ i.hold <= a + Longest
        /\ \A s \in l : s.at <= a => s.at <= r.at
        /\ \A s \in l : a < s.at /\ s.at < i.cursor => s.ok
  BY DEF HoldDue
<1>3. PICK a \in {r.at} \union starts :
        /\ r.ok /\ r.at <= a /\ a <= i.cursor /\ i.hold <= a + Longest
        /\ \A s \in l : s.at <= a => s.at <= r.at
        /\ \A s \in l : a < s.at /\ s.at < i.cursor => s.ok
  BY <1>9
<1>10. r.at \in Nat /\ a \in Int
  <2>1. r.at \in Nat
    BY <1>1, <1>9
  <2>2. a = r.at \/ a \in starts
    BY <1>3
  <2>3. a \in starts => a \in Int
    OBVIOUS
  <2>4. a = r.at => a \in Int
    BY <2>1
  <2> QED BY <2>1, <2>2, <2>3, <2>4, Zenon
<1>4. a \in Int /\ r.at \in Nat /\ r.at <= u /\ a <= u
  BY <1>2, <1>3, <1>10
<1>5. PICK q \in LatestOf(l, u) : r.at <= q.at
  BY <1>4, LatestExists
<1>6. q \in l /\ q.at <= u /\ q.at \in Nat
  BY <1>1, <1>5 DEF LatestOf
<1>7. CASE q.at <= a
  <2>1. q = r
    BY <1>3, <1>4, <1>5, <1>6, <1>7 DEF Reports
  <2>2. a \in {q.at} \union {s \in starts : s >= q.at}
    BY <1>3, <2>1
  <2>3. q.ok /\ a <= u /\ u < a + Longest
    BY <1>2, <1>3, <1>4, <2>1
  <2> QED BY <1>5, <2>2, <2>3 DEF Due
<1>8. CASE ~(q.at <= a)
  <2>1. q.ok
    BY <1>2, <1>3, <1>4, <1>6, <1>8
  <2>2. q.at <= u /\ u < q.at + Longest
    BY <1>2, <1>3, <1>4, <1>6, <1>8
  <2> QED BY <1>5, <2>1, <2>2 DEF Due
<1> QED BY <1>7, <1>8

LEMMA DueFinite ==
  ASSUME NEW l, NEW starts, NEW t, NEW d \in Day
  PROVE  IsFiniteSet(DueHours(l, starts, t, d)) /\ Cardinality(DueHours(l, starts, t, d)) \in Nat
<1>1. d * DayLen \in Int /\ d * DayLen + DayLen - 1 \in Int
  BY DaysAre, HistoryConstants
<1>2. IsFiniteSet(d * DayLen .. (d * DayLen + DayLen - 1))
  BY <1>1, FS_Interval
<1>3. DueHours(l, starts, t, d) \subseteq d * DayLen .. (d * DayLen + DayLen - 1)
  BY DEF DueHours
<1>4. IsFiniteSet(DueHours(l, starts, t, d))
  BY <1>2, <1>3, FS_Subset
<1> QED BY <1>4, FS_CardinalityType

-----------------------------------------------------------------------------
(* Integrating. *)

HoldHours(i, t, d) ==
  {u \in i.cursor..(t - 1) : u \div DayLen = d /\ i.hold # Nothing /\ u < i.hold}

LEMMA HoldFinite ==
  ASSUME NEW i, IsIntegration(i), NEW t \in Int, NEW d
  PROVE  IsFiniteSet(HoldHours(i, t, d)) /\ Cardinality(HoldHours(i, t, d)) \in Nat
<1>1. i.cursor \in Int /\ t - 1 \in Int
  BY DEF IsIntegration
<1>2. IsFiniteSet(i.cursor .. (t - 1))
  BY <1>1, FS_Interval
<1>3. IsFiniteSet(HoldHours(i, t, d))
  BY <1>2, FS_Subset DEF HoldHours
<1> QED BY <1>3, FS_CardinalityType

LEMMA AdvanceIs ==
  ASSUME NEW i, IsIntegration(i), NEW t \in Int
  PROVE  /\ IsIntegration(Advance(i, t)) /\ Advance(i, t).cursor = t /\ Advance(i, t).hold = i.hold
         /\ \A d \in Day : Advance(i, t).covered[d] = i.covered[d] + Cardinality(HoldHours(i, t, d))
<1> DEFINE sums == [d \in Day |-> i.covered[d] + Cardinality(HoldHours(i, t, d))]
<1>1. Advance(i, t) = [i EXCEPT !.cursor = t, !.covered = sums]
  BY DEF Advance, HoldHours, IsIntegration
<1>2. sums \in [Day -> Nat]
  <2>1. \A d \in Day : i.covered[d] \in Nat /\ Cardinality(HoldHours(i, t, d)) \in Nat
    BY HoldFinite DEF IsIntegration
  <2> QED BY <2>1
<1>3. \A d \in Day : sums[d] = i.covered[d] + Cardinality(HoldHours(i, t, d))
  OBVIOUS
<1> HIDE DEF sums
<1>4. /\ Advance(i, t).cursor = t /\ Advance(i, t).hold = i.hold /\ Advance(i, t).covered = sums
      /\ IsIntegration(Advance(i, t))
  BY <1>1, <1>2 DEF IsIntegration
<1> QED BY <1>3, <1>4

\* The reports that an integration passes on its way to t were valid, if it holds one.
Passes(l, i, t) == i.hold # Nothing => \A s \in l : i.cursor <= s.at /\ s.at < t => s.ok

LEMMA AdvanceSound ==
  ASSUME NEW l, Reports(l), NEW starts \in SUBSET Int, NEW i, IsIntegration(i), Sound(l, starts, i),
         NEW t \in Int, i.cursor <= t, Passes(l, i, t)
  PROVE  Sound(l, starts, Advance(i, t))
<1> DEFINE j == Advance(i, t)
<1>0. /\ j.cursor = t /\ j.hold = i.hold
      /\ \A d \in Day : j.covered[d] = i.covered[d] + Cardinality(HoldHours(i, t, d))
  BY AdvanceIs
<1> HIDE DEF j
<1>1. i.cursor \in Int /\ (i.hold # Nothing => i.hold \in Nat)
  BY DEF IsIntegration
<1>2. ASSUME NEW d \in Day
      PROVE  j.covered[d] <= Cardinality(DueHours(l, starts, t, d))
  <2> DEFINE new == HoldHours(i, t, d)
             old == DueHours(l, starts, i.cursor, d)
             all == DueHours(l, starts, t, d)
  <2>1. new \subseteq all
    <3>1. ASSUME NEW u \in new PROVE u \in all
      <4>1. u \in Int /\ i.cursor <= u /\ u < t /\ u \div DayLen = d /\ i.hold # Nothing /\ u < i.hold
        BY <1>1 DEF HoldHours
      <4>2. u \in d * DayLen .. (d * DayLen + DayLen - 1)
        <5>1. d * DayLen \in Int /\ DayLen \in Nat \ {0}
          BY DaysAre, HistoryConstants
        <5>2. d * DayLen <= u /\ u <= d * DayLen + DayLen - 1
          BY <4>1, <5>1, DayOf
        <5> QED BY <4>1, <5>1, <5>2
      <4>3. \A s \in l : i.cursor <= s.at /\ s.at <= u => s.ok
        BY <1>1, <4>1 DEF Passes, Reports
      <4>4. Due(l, starts, u)
        BY <4>1, <4>3, HeldIsDue DEF Sound
      <4> QED BY <4>1, <4>2, <4>4 DEF DueHours
    <3> QED BY <3>1
  <2>2. old \subseteq all
    <3>1. \A u \in old : u \in Int /\ u < i.cursor
      BY DaysAre, HistoryConstants DEF DueHours
    <3> QED BY <1>1, <3>1 DEF DueHours
  <2>3. new \cap old = {}
    BY <1>1 DEF HoldHours, DueHours
  <2>4. IsFiniteSet(new) /\ IsFiniteSet(old) /\ IsFiniteSet(all)
    BY HoldFinite, DueFinite
  <2>5. Cardinality(new) \in Nat /\ Cardinality(old) \in Nat /\ Cardinality(all) \in Nat
    BY HoldFinite, DueFinite
  <2>6. i.covered[d] <= Cardinality(old) /\ i.covered[d] \in Nat
    BY DEF Sound, IsIntegration
  <2>7. j.covered[d] = i.covered[d] + Cardinality(new)
    BY <1>0
  <2> HIDE DEF new, old, all
  <2>8. Cardinality(new \union old) = Cardinality(new) + Cardinality(old)
    <3>1. Cardinality(new \union old) = Cardinality(new) + Cardinality(old) - Cardinality(new \cap old)
      BY <2>4, FS_Union
    <3>2. Cardinality(new \cap old) = 0
      BY <2>3, FS_EmptySet
    <3> QED BY <2>5, <3>1, <3>2
  <2>9. Cardinality(new \union old) <= Cardinality(all)
    <3>1. new \union old \subseteq all
      BY <2>1, <2>2
    <3> QED BY <2>4, <3>1, FS_Subset
  <2>10. j.covered[d] <= Cardinality(all)
    BY <2>5, <2>6, <2>7, <2>8, <2>9
  <2> QED BY <2>10 DEF all
<1>3. HoldDue(l, starts, j)
  <2> SUFFICES ASSUME j.hold # Nothing
               PROVE  \E r \in l : \E a \in {r.at} \union starts :
                        /\ r.ok /\ r.at <= a /\ a <= j.cursor /\ j.hold <= a + Longest
                        /\ \A s \in l : s.at <= a => s.at <= r.at
                        /\ \A s \in l : a < s.at /\ s.at < j.cursor => s.ok
    BY DEF HoldDue
  <2>5. PICK r \in l : \E a \in {r.at} \union starts :
          /\ r.ok /\ r.at <= a /\ a <= i.cursor /\ i.hold <= a + Longest
          /\ \A s \in l : s.at <= a => s.at <= r.at
          /\ \A s \in l : a < s.at /\ s.at < i.cursor => s.ok
    BY <1>0 DEF Sound, HoldDue
  <2>1. PICK a \in {r.at} \union starts :
          /\ r.ok /\ r.at <= a /\ a <= i.cursor /\ i.hold <= a + Longest
          /\ \A s \in l : s.at <= a => s.at <= r.at
          /\ \A s \in l : a < s.at /\ s.at < i.cursor => s.ok
    BY <2>5
  <2>2. \A s \in l : s.at \in Nat
    BY DEF Reports
  <2>6. a \in Int
    <3>1. r.at \in Int
      BY <2>2, <2>5
    <3> QED BY <2>1, <3>1
  <2>3. a \in Int /\ a <= t
    BY <1>1, <2>1, <2>6
  <2>4. \A s \in l : a < s.at /\ s.at < t => s.ok
    BY <1>0, <1>1, <2>1, <2>2 DEF Passes
  <2> QED BY <1>0, <2>1, <2>3, <2>4
<1>4. \A d \in Day : j.covered[d] <= Cardinality(DueHours(l, starts, j.cursor, d))
  BY <1>0, <1>2
<1> QED BY <1>3, <1>4 DEF Sound, j

IsSample(s) == s \in [at : Nat, ok : BOOLEAN]

LEMMA SampleIs ==
  ASSUME NEW i, IsIntegration(i), NEW s, IsSample(s), NEW span \in Nat, i.cursor <= s.at
  PROVE  /\ IsIntegration(AddSample(i, s, span)) /\ AddSample(i, s, span).cursor = s.at
         /\ AddSample(i, s, span).hold = (IF s.ok THEN s.at + span ELSE Nothing)
         /\ AddSample(i, s, span).covered = Advance(i, s.at).covered
<1> DEFINE j == Advance(i, s.at)
           until == IF s.ok THEN s.at + span ELSE Nothing
<1>1. s.at \in Nat /\ i.cursor \in Int
  BY DEF IsSample, IsIntegration
<1>2. IsIntegration(j) /\ j.cursor = s.at
  BY <1>1, AdvanceIs
<1>3. AddSample(i, s, span) = [j EXCEPT !.hold = until]
  BY <1>1 DEF AddSample
<1>4. until \in Nat \union {Nothing}
  BY <1>1
<1> HIDE DEF j, until
<1>5. /\ AddSample(i, s, span).cursor = s.at /\ AddSample(i, s, span).hold = until
      /\ AddSample(i, s, span).covered = j.covered /\ IsIntegration(AddSample(i, s, span))
  BY <1>2, <1>3, <1>4 DEF IsIntegration
<1> QED BY <1>5 DEF j, until

\* A sample that says what the latest report of its time said, and is that report or the
\* beginning of a chunk.
Tells(l, starts, s) ==
  \E r \in LatestOf(l, s.at) : (r.ok <=> s.ok) /\ (s.at = r.at \/ s.at \in starts)

LEMMA SampleSound ==
  ASSUME NEW l, Reports(l), NEW starts \in SUBSET Int, NEW i, IsIntegration(i), Sound(l, starts, i),
         NEW s, IsSample(s), NEW span \in Nat, span <= Longest, i.cursor <= s.at,
         Passes(l, i, s.at), Tells(l, starts, s)
  PROVE  Sound(l, starts, AddSample(i, s, span))
<1> DEFINE j == AddSample(i, s, span)
<1>1. s.at \in Nat
  BY DEF IsSample
<1>2. /\ j.cursor = s.at /\ j.hold = (IF s.ok THEN s.at + span ELSE Nothing)
      /\ j.covered = Advance(i, s.at).covered
  BY SampleIs
<1> HIDE DEF j
<1>3. \A d \in Day : j.covered[d] <= Cardinality(DueHours(l, starts, j.cursor, d))
  <2>1. Sound(l, starts, Advance(i, s.at)) /\ Advance(i, s.at).cursor = s.at
    BY <1>1, AdvanceSound, AdvanceIs
  <2> QED BY <1>2, <2>1 DEF Sound
<1>4. HoldDue(l, starts, j)
  <2> SUFFICES ASSUME j.hold # Nothing
               PROVE  \E r \in l : \E a \in {r.at} \union starts :
                        /\ r.ok /\ r.at <= a /\ a <= j.cursor /\ j.hold <= a + Longest
                        /\ \A q \in l : q.at <= a => q.at <= r.at
                        /\ \A q \in l : a < q.at /\ q.at < j.cursor => q.ok
    BY DEF HoldDue
  <2>1. s.ok /\ j.hold = s.at + span
    BY <1>2
  <2>2. PICK r \in LatestOf(l, s.at) : (r.ok <=> s.ok) /\ (s.at = r.at \/ s.at \in starts)
    BY DEF Tells
  <2>3. r \in l /\ r.at <= s.at /\ \A q \in l : q.at <= s.at => q.at <= r.at
    BY <2>2 DEF LatestOf
  <2>4. s.at \in {r.at} \union starts
    BY <2>2
  <2>5. r.ok /\ r.at <= s.at /\ s.at <= j.cursor /\ j.hold <= s.at + Longest
    BY <1>1, <1>2, <2>1, <2>2, <2>3, HistoryConstants
  <2>6. \A q \in l : ~(s.at < q.at /\ q.at < j.cursor)
    BY <1>1, <1>2 DEF Reports
  <2> QED BY <2>3, <2>4, <2>5, <2>6
<1> QED BY <1>3, <1>4 DEF Sound, j

\* The samples of a replay up to T.
Samples(samples, T) == \A s \in samples : IsSample(s) /\ s.at <= T

LEMMA ReplayTypes ==
  ASSUME NEW i, IsIntegration(i), NEW T \in Int, hour \in Int, i.cursor <= T, T <= hour,
         NEW samples, Samples(samples, T), NEW span \in Nat
  PROVE  LET j == Replay(i, samples, span)
         IN IsIntegration(j) /\ i.cursor <= j.cursor /\ j.cursor <= T
<1> DEFINE c == i.cursor
           Good(j, t) == IsIntegration(j) /\ c <= j.cursor /\ j.cursor <= T /\ (j.cursor <= t \/ j = i)
<1>1. c \in Int /\ c - 1 <= hour
  BY DEF IsIntegration
<1>2. PICK f : /\ f[c - 1] = i /\ Replay(i, samples, span) = f[hour]
               /\ \A t \in c .. hour : f[t] = AddAt(f[t - 1], samples, span, t)
  BY <1>1, ReplayIs
<1> DEFINE G == {t \in Int : Good(f[t], t)}
<1>3. c - 1 \in G
  BY <1>1, <1>2
<1>4. \A t \in c - 1 .. hour - 1 : t \in G => t + 1 \in G
  <2> SUFFICES ASSUME NEW t \in c - 1 .. hour - 1, t \in G PROVE Good(f[t + 1], t + 1)
    BY <1>1
  <2> DEFINE u == t + 1
  <2>1. t \in Int /\ u \in c .. hour /\ u - 1 = t
    BY <1>1
  <2>2. f[u] = AddAt(f[t], samples, span, u)
    BY <1>2, <2>1
  <2>3. Good(f[t], t)
    OBVIOUS
  <2> HIDE DEF u
  <2>4. f[t].cursor <= u /\ f[t].cursor \in Int
    BY <1>1, <2>1, <2>3 DEF IsIntegration
  <2>5. CASE \E s \in samples : s.at = u
    <3> DEFINE s == CHOOSE x \in samples : x.at = u
    <3>1. s \in samples /\ s.at = u
      BY <2>5
    <3>2. f[u] = AddSample(f[t], s, span)
      BY <2>2, <2>5 DEF AddAt
    <3> HIDE DEF s
    <3>3. IsSample(s) /\ u <= T /\ s.at = u
      BY <3>1 DEF Samples
    <3>4. IsIntegration(f[u]) /\ f[u].cursor = u
      BY <2>3, <2>4, <3>2, <3>3, SampleIs
    <3> QED BY <1>1, <2>1, <3>3, <3>4 DEF u
  <2>6. CASE ~\E s \in samples : s.at = u
    <3>1. f[u] = f[t]
      BY <2>2, <2>6 DEF AddAt
    <3> QED BY <1>1, <2>1, <2>3, <2>4, <3>1 DEF u
  <2> QED BY <2>5, <2>6
<1> HIDE DEF G
<1>5. hour \in G
  <2>1. c - 1 \in Int /\ hour \in c - 1 .. hour
    BY <1>1
  <2> QED BY <1>3, <1>4, <2>1, IntervalInduction
<1> QED BY <1>2, <1>5 DEF G

\* The samples tell of the reports that an integration has not taken, or those were valid.
Complete(l, samples, i, T) ==
  \A r \in l : i.cursor <= r.at /\ r.at <= T =>
    r.ok \/ (\E s \in samples : s.at = r.at) \/ (r.at = i.cursor /\ i.hold = Nothing)

\* Heard up to a time, of the reports up to T.
HeardBy(l, j, T, t) ==
  \A r \in l : j.cursor <= r.at /\ r.at <= T /\ r.at <= t =>
    r.ok \/ (r.at = j.cursor /\ j.hold = Nothing)

LEMMA ReplaySound ==
  ASSUME NEW l, Reports(l), NEW starts \in SUBSET Int, NEW i, IsIntegration(i), Sound(l, starts, i),
         NEW T \in Int, hour \in Int, i.cursor <= T, T <= hour,
         NEW samples, Samples(samples, T), \A s \in samples : Tells(l, starts, s),
         NEW span \in Nat, span <= Longest, Complete(l, samples, i, T)
  PROVE  LET j == Replay(i, samples, span) IN Sound(l, starts, j) /\ Heard(l, j, T)
<1> DEFINE c == i.cursor
           Good(j, t) == /\ IsIntegration(j) /\ c <= j.cursor /\ j.cursor <= T
                         /\ j.cursor <= t \/ j = i
                         /\ Sound(l, starts, j) /\ HeardBy(l, j, T, t)
<1>1. c \in Int /\ c - 1 <= hour
  BY DEF IsIntegration
<1>2. PICK f : /\ f[c - 1] = i /\ Replay(i, samples, span) = f[hour]
               /\ \A t \in c .. hour : f[t] = AddAt(f[t - 1], samples, span, t)
  BY <1>1, ReplayIs
<1>0. \A r \in l : r.at \in Nat
  BY DEF Reports
<1> DEFINE G == {t \in Int : Good(f[t], t)}
<1>3. c - 1 \in G
  <2>1. HeardBy(l, i, T, c - 1)
    BY <1>0, <1>1 DEF HeardBy
  <2> QED BY <1>1, <1>2, <2>1
<1>4. \A t \in c - 1 .. hour - 1 : t \in G => t + 1 \in G
  <2> SUFFICES ASSUME NEW t \in c - 1 .. hour - 1, t \in G PROVE Good(f[t + 1], t + 1)
    BY <1>1
  <2> DEFINE u == t + 1
  <2>1. t \in Int /\ u \in c .. hour /\ u - 1 = t
    BY <1>1
  <2>2. f[u] = AddAt(f[t], samples, span, u)
    BY <1>2, <2>1
  <2>3. Good(f[t], t)
    OBVIOUS
  <2> HIDE DEF u
  <2>4. f[t].cursor <= u /\ f[t].cursor \in Int /\ u \in Int
    BY <1>1, <2>1, <2>3 DEF IsIntegration
  <2>5. CASE \E s \in samples : s.at = u
    <3> DEFINE s == CHOOSE x \in samples : x.at = u
    <3>1. s \in samples /\ s.at = u
      BY <2>5
    <3>2. f[u] = AddSample(f[t], s, span)
      BY <2>2, <2>5 DEF AddAt
    <3> HIDE DEF s
    <3>3. IsSample(s) /\ u <= T /\ s.at = u /\ Tells(l, starts, s)
      BY <3>1 DEF Samples
    <3>4. /\ IsIntegration(f[u]) /\ f[u].cursor = u
          /\ f[u].hold = (IF s.ok THEN s.at + span ELSE Nothing)
      BY <2>3, <2>4, <3>2, <3>3, SampleIs
    <3>5. Passes(l, f[t], u)
      <4>1. HeardBy(l, f[t], T, t)
        BY <2>3
      <4> QED BY <1>0, <2>1, <3>3, <4>1 DEF Passes, HeardBy
    <3>6. Sound(l, starts, f[u])
      BY <2>3, <2>4, <3>2, <3>3, <3>5, SampleSound
    <3>7. HeardBy(l, f[u], T, u)
      <4> SUFFICES ASSUME NEW r \in l, u <= r.at, r.at <= u
                   PROVE  r.ok \/ (r.at = u /\ f[u].hold = Nothing)
        BY <3>4 DEF HeardBy
      <4>1. r.at = u
        BY <1>0, <2>4
      <4>2. PICK q \in LatestOf(l, u) : q.ok <=> s.ok
        BY <3>3 DEF Tells
      <4>3. q \in l /\ q.at <= u /\ r.at <= q.at
        BY <4>1, <4>2, <2>4 DEF LatestOf
      <4>4. q = r
        <5>1. q.at = r.at
          BY <1>0, <4>1, <4>3
        <5> QED BY <4>3, <5>1 DEF Reports
      <4> QED BY <3>4, <4>1, <4>2, <4>4
    <3> QED BY <1>1, <2>1, <3>3, <3>4, <3>6, <3>7 DEF u
  <2>6. CASE ~\E s \in samples : s.at = u
    <3>1. f[u] = f[t]
      BY <2>2, <2>6 DEF AddAt
    <3>2. HeardBy(l, f[t], T, u)
      <4> SUFFICES ASSUME NEW r \in l, f[t].cursor <= r.at, r.at <= T, r.at <= u
                   PROVE  r.ok \/ (r.at = f[t].cursor /\ f[t].hold = Nothing)
        BY DEF HeardBy
      <4>1. CASE r.at <= t
        BY <2>3, <4>1 DEF HeardBy
      <4>2. CASE ~(r.at <= t)
        <5>1. r.at = u
          BY <1>0, <2>1, <2>4, <4>2
        <5>2. r.ok \/ (r.at = c /\ i.hold = Nothing)
          BY <1>0, <1>1, <2>1, <2>6, <5>1 DEF Complete
        <5>3. r.at = c => f[t] = i
          BY <1>1, <1>2, <2>1, <5>1
        <5> QED BY <5>2, <5>3
      <4> QED BY <4>1, <4>2
    <3> QED BY <1>1, <2>1, <2>3, <2>4, <3>1, <3>2 DEF u
  <2> QED BY <2>5, <2>6
<1> HIDE DEF G
<1>5. hour \in G
  <2>1. c - 1 \in Int /\ hour \in c - 1 .. hour
    BY <1>1
  <2> QED BY <1>3, <1>4, <2>1, IntervalInduction
<1>6. Good(f[hour], hour)
  BY <1>5 DEF G
<1>7. Heard(l, f[hour], T)
  BY <1>0, <1>6 DEF HeardBy, Heard
<1> QED BY <1>2, <1>6, <1>7

-----------------------------------------------------------------------------
(* A start. *)

LEMMA TimesAre ==
  ASSUME hour \in Nat
  PROVE  /\ Midnight \in Nat /\ Midnight <= hour
         /\ Origin \in Int /\ Origin < Midnight
<1>1. \A a, b \in Nat : a * b \in Nat
  OBVIOUS
<1>2. \A a, b \in Nat \ {0} : a * b > 0 /\ a * b \in Nat
  OBVIOUS
<1>3. hour \div DayLen \in Nat
  <2>1. \A a \in Nat, b \in Nat \ {0} : a \div b \in Nat
    OBVIOUS
  <2> QED BY <2>1, HistoryConstants
<1>4. Midnight \in Nat
  BY <1>1, <1>3, HistoryConstants DEF Midnight, Today
<1>5. Midnight <= hour
  BY DayOf, HistoryConstants DEF Midnight, Today
<1>6. Lookback * DayLen > 0 /\ Lookback * DayLen \in Nat
  <2>1. Lookback \in Nat \ {0} /\ DayLen \in Nat \ {0}
    BY HistoryAssumption
  <2> QED BY <1>2, <2>1
<1>7. Origin \in Int /\ Origin < Midnight
  BY <1>4, <1>6, HistoryConstants DEF Origin
<1> QED BY <1>4, <1>5, <1>7

LEMMA LatestIs == \A t : LatestBy(t) = LatestOf(log, t)
BY DEF LatestBy, LatestOf

LEMMA ChunksAre ==
  ASSUME NEW from \in Int, NEW to \in Int
  PROVE  /\ \A t \in ChunkStarts(from, to) : t \in Int /\ t < to
         /\ from < to => from \in ChunkStarts(from, to)
<1> DEFINE ks == {j \in 0 .. MaxHour : from + j * DayLen < to}
<1>1. \A t \in ChunkStarts(from, to) : t \in Int /\ t < to
  <2>1. \A j \in Int : from + j * DayLen \in Int
    BY HistoryConstants
  <2> QED BY <2>1, HistoryConstants DEF ChunkStarts
<1>2. ASSUME from < to PROVE from \in ChunkStarts(from, to)
  <2>1. 0 * DayLen = 0 /\ 0 \in 0 .. MaxHour
    BY HistoryConstants
  <2>2. 0 \in ks /\ from = from + 0 * DayLen
    BY <1>2, <2>1
  <2>3. ChunkStarts(from, to) = {from + k * DayLen : k \in ks}
    BY DEF ChunkStarts
  <2> HIDE DEF ks
  <2> QED BY <2>2, <2>3
<1> QED BY <1>1, <1>2

LEMMA RecordsAre ==
  ASSUME Reports(log), NEW from \in Int, NEW to \in Int,
         NEW s \in Records(from, to)
  PROVE  /\ IsSample(s) /\ s.at <= to
         /\ Tells(log, ChunkStarts(from, to), s)
<1>1. \A r \in log : IsSample(r) /\ r.at \in Nat
  BY DEF Reports, IsSample
<1>2. CASE s \in log /\ from < s.at /\ s.at <= to
  <2>1. s \in LatestOf(log, s.at)
    BY <1>1, <1>2 DEF LatestOf
  <2> QED BY <1>1, <1>2, <2>1 DEF Tells
<1>3. CASE \E p \in {q \in ChunkStarts(from, to) \X log : q[2] \in LatestBy(q[1])} :
             s = [at |-> p[1], ok |-> p[2].ok]
  <2>1. PICK p \in ChunkStarts(from, to) \X log :
               p[2] \in LatestBy(p[1]) /\ s = [at |-> p[1], ok |-> p[2].ok]
    BY <1>3
  <2> DEFINE t == p[1]
             r == p[2]
  <2>2. t \in ChunkStarts(from, to) /\ r \in log /\ r \in LatestOf(log, t)
    BY <2>1, LatestIs
  <2>3. s.at = t /\ s.ok = r.ok /\ s = [at |-> t, ok |-> r.ok]
    BY <2>1
  <2> HIDE DEF t, r
  <2>4. t \in Int /\ t < to /\ r.at <= t /\ r.at \in Nat /\ r.ok \in BOOLEAN
    BY <1>1, <2>2, ChunksAre DEF LatestOf, Reports
  <2>5. IsSample(s) /\ s.at <= to
    BY <2>3, <2>4 DEF IsSample
  <2> QED BY <2>2, <2>3, <2>5 DEF Tells
<1> QED BY <1>2, <1>3 DEF Records

LEMMA RecordsTell ==
  ASSUME Reports(log), NEW from \in Int, NEW to \in Int, from < to,
         NEW r \in log, from <= r.at, r.at <= to
  PROVE  \E s \in Records(from, to) : s.at = r.at
<1>0. r.at \in Nat /\ \A s \in log : s.at \in Nat
  BY DEF Reports
<1>1. CASE from < r.at
  BY <1>1 DEF Records
<1>2. CASE r.at = from
  <2> DEFINE p == <<from, r>>
             s == [at |-> p[1], ok |-> p[2].ok]
  <2>1. r \in LatestBy(from)
    BY <1>0, <1>2 DEF LatestBy
  <2>2. p \in {q \in ChunkStarts(from, to) \X log : q[2] \in LatestBy(q[1])}
    BY <2>1, ChunksAre
  <2>3. s \in Records(from, to)
    <3> HIDE DEF p
    <3> QED BY <2>2 DEF Records
  <2>4. s.at = r.at
    BY <1>2
  <2> QED BY <2>3, <2>4
<1> QED BY <1>0, <1>1, <1>2

Unread == [cursor |-> Origin, covered |-> [d \in Day |-> 0], hold |-> Nothing]

LEMMA UnreadIs == ASSUME hour \in Nat PROVE IsIntegration(Unread) /\ \A l, starts : Sound(l, starts, Unread)
<1>1. IsIntegration(Unread)
  BY TimesAre DEF Unread, IsIntegration
<1>2. \A l, starts : \A d \in Day : Unread.covered[d] <= Cardinality(DueHours(l, starts, Unread.cursor, d))
  BY DueFinite DEF Unread
<1> QED BY <1>1, <1>2 DEF Sound, HoldDue, Unread

\* The reports from a time on that were not valid are told of.
AllTold(records, from) ==
  \A r \in log : from <= r.at => r.ok \/ \E s \in records : s.at = r.at

LEMMA BootTypes ==
  ASSUME hour \in Nat, NEW records, Samples(records, hour)
  PROVE  IsIntegration(Bootstrapped(records)) /\ Bootstrapped(records).cursor = Midnight
<1> DEFINE before == {r \in records : r.at <= Midnight}
           j == Replay(Unread, before, BootHold)
           k == Advance(j, Midnight)
<1>1. IsIntegration(Unread) /\ Unread.cursor <= Midnight
  BY UnreadIs, TimesAre DEF Unread
<1>2. Samples(before, Midnight)
  BY DEF Samples
<1>3. Bootstrapped(records) = [k EXCEPT !.hold = Nothing]
  BY DEF Bootstrapped, Unread
<1> HIDE DEF before
<1>4. IsIntegration(j)
  BY <1>1, <1>2, TimesAre, ReplayTypes, HistoryConstants
<1> HIDE DEF j
<1>6. Midnight \in Int
  BY TimesAre
<1>5. IsIntegration(k) /\ k.cursor = Midnight
  BY <1>4, <1>6, AdvanceIs
<1> HIDE DEF k
<1> QED BY <1>3, <1>5 DEF IsIntegration

LEMMA BootSound ==
  ASSUME hour \in Nat, Reports(log), NEW starts \in SUBSET Int, NEW records, Samples(records, hour),
         \A s \in records : Tells(log, starts, s), AllTold(records, Origin)
  PROVE  Sound(log, starts, Bootstrapped(records))
<1> DEFINE before == {r \in records : r.at <= Midnight}
           j == Replay(Unread, before, BootHold)
           k == Advance(j, Midnight)
           b == Bootstrapped(records)
<1>1. IsIntegration(Unread) /\ Unread.cursor <= Midnight /\ Sound(log, starts, Unread)
  BY UnreadIs, TimesAre DEF Unread
<1>2. Samples(before, Midnight) /\ \A s \in before : Tells(log, starts, s)
  BY DEF Samples
<1>3. b = [k EXCEPT !.hold = Nothing]
  BY DEF Bootstrapped, Unread
<1>4. Complete(log, before, Unread, Midnight)
  BY DEF Complete, AllTold, Unread
<1> HIDE DEF before
<1>5. IsIntegration(j) /\ j.cursor <= Midnight
  BY <1>1, <1>2, TimesAre, ReplayTypes, HistoryConstants
<1>6. Sound(log, starts, j) /\ Heard(log, j, Midnight)
  BY <1>1, <1>2, <1>4, TimesAre, ReplaySound, HistoryConstants
<1> HIDE DEF j
<1>7. Passes(log, j, Midnight)
  BY <1>6, TimesAre DEF Passes, Heard, Reports
<1>11. Midnight \in Int
  BY TimesAre
<1>12. IsIntegration(k)
  BY <1>5, <1>11, AdvanceIs
<1>8. IsIntegration(k) /\ Sound(log, starts, k)
  BY <1>5, <1>6, <1>7, <1>11, <1>12, AdvanceSound
<1> HIDE DEF k, b
<1>9. b.covered = k.covered /\ b.cursor = k.cursor /\ b.hold = Nothing
  BY <1>3, <1>8 DEF IsIntegration
<1>10. Sound(log, starts, b)
  BY <1>8, <1>9 DEF Sound, HoldDue
<1> QED BY <1>10 DEF b

-----------------------------------------------------------------------------
(* More chunks, and a further report. *)

LEMMA MoreChunks ==
  ASSUME NEW l, NEW few, NEW starts, few \subseteq starts, NEW i, IsIntegration(i)
  PROVE  /\ Sound(l, few, i) => Sound(l, starts, i)
         /\ \A s : Tells(l, few, s) => Tells(l, starts, s)
<1>1. ASSUME Sound(l, few, i) PROVE Sound(l, starts, i)
  <2>1. \A u : Due(l, few, u) => Due(l, starts, u)
    BY DEF Due
  <2>2. ASSUME NEW d \in Day PROVE i.covered[d] <= Cardinality(DueHours(l, starts, i.cursor, d))
    <3> DEFINE old == DueHours(l, few, i.cursor, d)
               all == DueHours(l, starts, i.cursor, d)
    <3>1. old \subseteq all
      BY <2>1 DEF DueHours
    <3>2. IsFiniteSet(all) /\ Cardinality(all) \in Nat /\ Cardinality(old) \in Nat
      BY DueFinite
    <3>3. i.covered[d] <= Cardinality(old) /\ i.covered[d] \in Nat
      BY <1>1 DEF Sound, IsIntegration
    <3> HIDE DEF old, all
    <3>4. Cardinality(old) <= Cardinality(all)
      BY <3>1, <3>2, FS_Subset
    <3>5. i.covered[d] <= Cardinality(all)
      BY <3>2, <3>3, <3>4
    <3> QED BY <3>5 DEF all
  <2>3. HoldDue(l, starts, i)
    <3> SUFFICES ASSUME i.hold # Nothing
                 PROVE  \E r \in l : \E a \in {r.at} \union starts :
                          /\ r.ok /\ r.at <= a /\ a <= i.cursor /\ i.hold <= a + Longest
                          /\ \A s \in l : s.at <= a => s.at <= r.at
                          /\ \A s \in l : a < s.at /\ s.at < i.cursor => s.ok
      BY DEF HoldDue
    <3>1. \E r \in l : \E a \in {r.at} \union few :
            /\ r.ok /\ r.at <= a /\ a <= i.cursor /\ i.hold <= a + Longest
            /\ \A s \in l : s.at <= a => s.at <= r.at
            /\ \A s \in l : a < s.at /\ s.at < i.cursor => s.ok
      BY <1>1 DEF Sound, HoldDue
    <3>2. \A r \in l : {r.at} \union few \subseteq {r.at} \union starts
      OBVIOUS
    <3> QED BY <3>1, <3>2, Zenon
  <2> QED BY <2>2, <2>3 DEF Sound
<1>2. \A s : Tells(l, few, s) => Tells(l, starts, s)
  BY DEF Tells
<1> QED BY <1>1, <1>2

LEMMA OneMoreReport ==
  ASSUME NEW l, Reports(l), NEW s, IsSample(s), \A r \in l : r.at < s.at
  PROVE  /\ Reports(l \union {s})
         /\ \A u \in Int : u < s.at => LatestOf(l \union {s}, u) = LatestOf(l, u)
         /\ s \in LatestOf(l \union {s}, s.at)
<1>1. s.at \in Nat /\ \A r \in l : r.at \in Nat
  BY DEF Reports, IsSample
<1>2. Reports(l \union {s})
  <2>1. \A p, q \in l \union {s} : p.at = q.at => p = q
    BY <1>1 DEF Reports
  <2> QED BY <2>1 DEF Reports, IsSample
<1>3. ASSUME NEW u \in Int, u < s.at PROVE LatestOf(l \union {s}, u) = LatestOf(l, u)
  <2>1. ~(s.at <= u)
    BY <1>1, <1>3
  <2> QED BY <2>1 DEF LatestOf
<1>4. s \in LatestOf(l \union {s}, s.at)
  BY <1>1 DEF LatestOf
<1> QED BY <1>2, <1>3, <1>4

LEMMA ReportSound ==
  ASSUME NEW l, Reports(l), NEW starts \in SUBSET Int, NEW i, IsIntegration(i), Sound(l, starts, i),
         NEW s, IsSample(s), \A r \in l : r.at < s.at, \A a \in starts : a < s.at, i.cursor <= s.at
  PROVE  Sound(l \union {s}, starts, i)
<1> DEFINE all == l \union {s}
<1>0. s.at \in Nat /\ i.cursor \in Int /\ \A r \in l : r.at \in Nat
  BY DEF Reports, IsSample, IsIntegration
<1>1. \A u \in Int : u < s.at => LatestOf(all, u) = LatestOf(l, u)
  BY OneMoreReport
<1> HIDE DEF all
<1>2. ASSUME NEW d \in Day PROVE DueHours(all, starts, i.cursor, d) = DueHours(l, starts, i.cursor, d)
  <2>1. \A u \in d * DayLen .. (d * DayLen + DayLen - 1) : u \in Int
    BY DaysAre, HistoryConstants
  <2>2. \A u \in Int : u < i.cursor => (Due(all, starts, u) <=> Due(l, starts, u))
    <3>1. ASSUME NEW u \in Int, u < i.cursor PROVE Due(all, starts, u) <=> Due(l, starts, u)
      <4>1. LatestOf(all, u) = LatestOf(l, u)
        BY <1>0, <1>1, <3>1
      <4> QED BY <4>1, Zenon DEF Due
    <3> QED BY <3>1
  <2> QED BY <2>1, <2>2 DEF DueHours
<1>3. HoldDue(all, starts, i)
  <2> SUFFICES ASSUME i.hold # Nothing
               PROVE  \E r \in all : \E a \in {r.at} \union starts :
                        /\ r.ok /\ r.at <= a /\ a <= i.cursor /\ i.hold <= a + Longest
                        /\ \A q \in all : q.at <= a => q.at <= r.at
                        /\ \A q \in all : a < q.at /\ q.at < i.cursor => q.ok
    BY DEF HoldDue
  <2>1. PICK r \in l : \E a \in {r.at} \union starts :
          /\ r.ok /\ r.at <= a /\ a <= i.cursor /\ i.hold <= a + Longest
          /\ \A q \in l : q.at <= a => q.at <= r.at
          /\ \A q \in l : a < q.at /\ q.at < i.cursor => q.ok
    BY DEF Sound, HoldDue
  <2>2. PICK a \in {r.at} \union starts :
          /\ r.ok /\ r.at <= a /\ a <= i.cursor /\ i.hold <= a + Longest
          /\ \A q \in l : q.at <= a => q.at <= r.at
          /\ \A q \in l : a < q.at /\ q.at < i.cursor => q.ok
    BY <2>1
  <2>3. a < s.at /\ a \in Int
    <3>1. a = r.at \/ a \in starts
      BY <2>2
    <3>2. a = r.at => a < s.at /\ a \in Int
      BY <1>0, <2>1
    <3>3. a \in starts => a < s.at /\ a \in Int
      OBVIOUS
    <3> QED BY <3>1, <3>2, <3>3, Zenon
  <2>4. ~(s.at <= a) /\ ~(s.at < i.cursor)
    BY <1>0, <2>3
  <2>5. \A q \in all : q.at <= a => q.at <= r.at
    BY <2>2, <2>4 DEF all
  <2>6. \A q \in all : a < q.at /\ q.at < i.cursor => q.ok
    BY <2>2, <2>4 DEF all
  <2>7. r \in all
    BY DEF all
  <2> QED BY <2>2, <2>5, <2>6, <2>7
<1>4. \A d \in Day : i.covered[d] <= Cardinality(DueHours(all, starts, i.cursor, d))
  BY <1>2 DEF Sound
<1> QED BY <1>3, <1>4 DEF Sound, all

\* A report that the listener takes.
LEMMA TakenSound ==
  ASSUME NEW l, Reports(l), NEW starts \in SUBSET Int, NEW i, IsIntegration(i), Sound(l, starts, i),
         NEW s, IsSample(s), \A r \in l : r.at < s.at, \A a \in starts : a < s.at, i.cursor <= s.at,
         Heard(l, i, s.at)
  PROVE  /\ Sound(l \union {s}, starts, AddSample(i, s, Hold))
         /\ Heard(l \union {s}, AddSample(i, s, Hold), s.at)
<1>0. s.at \in Nat /\ i.cursor \in Int /\ (\A r \in l : r.at \in Nat) /\ Hold \in Nat /\ Hold <= Longest
  BY HistoryConstants DEF Reports, IsSample, IsIntegration
<1>1. Reports(l \union {s}) /\ s \in LatestOf(l \union {s}, s.at)
  BY OneMoreReport
<1>2. Sound(l \union {s}, starts, i)
  BY ReportSound
<1>3. Passes(l \union {s}, i, s.at)
  BY <1>0 DEF Passes, Heard
<1>4. Tells(l \union {s}, starts, s)
  BY <1>1 DEF Tells
<1>5. Sound(l \union {s}, starts, AddSample(i, s, Hold))
  <2> DEFINE all == l \union {s}
  <2>1. Reports(all) /\ Sound(all, starts, i) /\ Passes(all, i, s.at) /\ Tells(all, starts, s)
    BY <1>1, <1>2, <1>3, <1>4
  <2> HIDE DEF all
  <2>2. Sound(all, starts, AddSample(i, s, Hold))
    BY <1>0, <2>1, SampleSound
  <2> QED BY <2>2 DEF all
<1>6. Heard(l \union {s}, AddSample(i, s, Hold), s.at)
  <2>1. /\ AddSample(i, s, Hold).cursor = s.at
        /\ AddSample(i, s, Hold).hold = (IF s.ok THEN s.at + Hold ELSE Nothing)
    BY <1>0, SampleIs
  <2>2. \A r \in l : ~(s.at <= r.at)
    BY <1>0
  <2> QED BY <2>1, <2>2 DEF Heard
<1> QED BY <1>5, <1>6

\* Integrating up to now.
LEMMA AdvanceHeard ==
  ASSUME NEW l, Reports(l), NEW starts \in SUBSET Int, NEW i, IsIntegration(i), Sound(l, starts, i),
         NEW t \in Int, i.cursor <= t, Heard(l, i, t)
  PROVE  Sound(l, starts, Advance(i, t)) /\ Heard(l, Advance(i, t), t)
<1>0. i.cursor \in Int /\ \A r \in l : r.at \in Nat
  BY DEF Reports, IsIntegration
<1>1. Passes(l, i, t)
  BY <1>0 DEF Passes, Heard
<1>2. Sound(l, starts, Advance(i, t))
  BY <1>1, AdvanceSound
<1>3. Advance(i, t).cursor = t /\ Advance(i, t).hold = i.hold
  BY AdvanceIs
<1>4. Heard(l, Advance(i, t), t)
  BY <1>0, <1>3 DEF Heard
<1> QED BY <1>2, <1>4

-----------------------------------------------------------------------------
(* What CollectorStart takes up, in its stages. *)

From == IF file = Nothing THEN Origin ELSE file.cursor
Got(answers) == IF answers THEN Records(From, hour) ELSE {}
Base(answers) == IF file = Nothing THEN Bootstrapped(Got(answers)) ELSE file
Fresh(answers) == {r \in Got(answers) : r.at >= Base(answers).cursor}
Replayed(answers) == Replay(Base(answers), Fresh(answers), Hold)
Newest(answers) == {r \in LatestBy(hour) : r.at > Replayed(answers).cursor}
Taken(answers) == Replay(Replayed(answers), Newest(answers), Hold)
Upto(answers) == Advance(Taken(answers), hour)

LEMMA StartIs ==
  ASSUME NEW answers, CollectorStart(answers)
  PROVE  /\ phase = "down" /\ (file # Nothing => file.cursor < hour)
         /\ startsUsed' = startsUsed + 1 /\ phase' = "starting"
         /\ cursor' = Upto(answers).cursor /\ covered' = Upto(answers).covered
         /\ holdUntil' = Upto(answers).hold /\ saving' = Upto(answers)
         /\ dirty' = FALSE /\ late' = FALSE /\ timer' = FALSE /\ boundary' = Nothing
         /\ anchors' = (IF answers THEN anchors \union ChunkStarts(From, hour) ELSE anchors)
         /\ unheard' = (unheard \/ (~answers /\ \E r \in log : r.at >= From /\ ~r.ok))
         /\ UNCHANGED <<hour, log, file, faultsUsed>>
BY Zenon DEF CollectorStart, From, Got, Base, Fresh, Replayed, Newest, Taken, Upto, Becomes

LEMMA TypesTell ==
  ASSUME HistTypes
  PROVE  /\ hour \in Nat /\ Reports(log) /\ anchors \in SUBSET Int /\ IsIntegration(Now)
         /\ Now.cursor <= hour /\ (\A a \in anchors : a < hour) /\ (\A r \in log : r.at <= hour)
         /\ file # Nothing => IsIntegration(file) /\ file.cursor \in Nat
         /\ saving # Nothing => IsIntegration(saving) /\ saving.cursor \in Nat /\ saving.cursor <= hour
<1>1. hour \in Nat /\ Reports(log) /\ anchors \in SUBSET Int
  BY DEF HistTypes, HistTypeOK, Reports
<1>2. IsIntegration(Now) /\ Now.cursor <= hour
  BY DEF HistTypes, HistTypeOK, IsIntegration, Now
<1>3. \A i \in Integration : IsIntegration(i) /\ i.cursor \in Nat
  BY DEF Integration, IsIntegration
<1>4. file \in Integration \union {Nothing} /\ saving \in Integration \union {Nothing}
  BY DEF HistTypes, HistTypeOK
<1> QED BY <1>1, <1>2, <1>3, <1>4 DEF HistTypes

LEMMA StartSamples ==
  ASSUME HistTypes, NEW answers \in BOOLEAN, CollectorStart(answers)
  PROVE  /\ From \in Int /\ From < hour
         /\ Samples(Got(answers), hour) /\ \A s \in Got(answers) : Tells(log, anchors', s)
         /\ anchors' \in SUBSET Int /\ anchors \subseteq anchors' /\ \A a \in anchors' : a < hour
<1>0. hour \in Nat /\ Midnight \in Nat /\ Midnight <= hour /\ Origin \in Int /\ Origin < Midnight
  BY TypesTell, TimesAre
<1>7. file # Nothing => file.cursor \in Nat /\ file.cursor < hour
  <2>1. file # Nothing => file.cursor \in Nat
    BY TypesTell
  <2>2. file # Nothing => file.cursor < hour
    BY StartIs
  <2> QED BY <2>1, <2>2
<1>1. From \in Int /\ From < hour
  BY <1>0, <1>7 DEF From
<1>2. \A s \in Got(answers) : answers /\ s \in Records(From, hour)
  BY DEF Got
<1>3. \A s \in Records(From, hour) :
        IsSample(s) /\ s.at <= hour /\ Tells(log, ChunkStarts(From, hour), s)
  BY <1>1, TypesTell, RecordsAre
<1>4. /\ answers => ChunkStarts(From, hour) \subseteq anchors'
      /\ anchors \subseteq anchors'
  BY StartIs
<1>5. ASSUME NEW s \in Got(answers) PROVE Tells(log, anchors', s)
  <2>1. Tells(log, ChunkStarts(From, hour), s) /\ ChunkStarts(From, hour) \subseteq anchors'
    BY <1>2, <1>3, <1>4
  <2> QED BY <2>1 DEF Tells
<1>6. \A a \in anchors' : a \in Int /\ a < hour
  <2>1. \A a \in ChunkStarts(From, hour) : a \in Int /\ a < hour
    BY <1>0, <1>1, ChunksAre
  <2>2. \A a \in anchors : a \in Int /\ a < hour
    BY TypesTell
  <2>3. anchors' = (IF answers THEN anchors \union ChunkStarts(From, hour) ELSE anchors)
    BY StartIs
  <2> QED BY <2>1, <2>2, <2>3, Zenon
<1> QED BY <1>1, <1>2, <1>3, <1>4, <1>5, <1>6 DEF Samples

LEMMA StartTypes ==
  ASSUME HistTypes, NEW answers \in BOOLEAN, CollectorStart(answers)
  PROVE  /\ IsIntegration(Base(answers)) /\ Base(answers).cursor \in Nat
         /\ Base(answers).cursor <= hour /\ From <= Base(answers).cursor
         /\ Samples(Fresh(answers), hour) /\ Samples(Newest(answers), hour)
         /\ IsIntegration(Replayed(answers)) /\ Base(answers).cursor <= Replayed(answers).cursor
         /\ Replayed(answers).cursor <= hour
         /\ IsIntegration(Taken(answers)) /\ Taken(answers).cursor <= hour
         /\ IsIntegration(Upto(answers)) /\ Upto(answers).cursor = hour
<1> DEFINE b == Base(answers)
           p == Replayed(answers)
           q == Taken(answers)
<1>0. hour \in Int /\ hour \in Nat /\ hour <= hour /\ Hold \in Nat
  BY TypesTell, HistoryConstants
<1>1. IsIntegration(b) /\ b.cursor \in Nat /\ b.cursor <= hour /\ From <= b.cursor
  <2>1. CASE file = Nothing
    <3>1. b = Bootstrapped(Got(answers)) /\ From = Origin
      BY <2>1 DEF Base, From
    <3>2. IsIntegration(b) /\ b.cursor = Midnight
      BY <1>0, <3>1, StartSamples, BootTypes
    <3> QED BY <1>0, <3>1, <3>2, TimesAre
  <2>2. CASE file # Nothing
    <3>1. IsIntegration(file) /\ file.cursor \in Nat
      BY <2>2, TypesTell
    <3>2. file.cursor < hour
      BY <2>2, StartIs
    <3>3. b = file /\ From = file.cursor
      BY <2>2 DEF Base, From
    <3> HIDE DEF b
    <3> QED BY <1>0, <3>1, <3>2, <3>3
  <2> QED BY <2>1, <2>2
<1>2. Samples(Fresh(answers), hour)
  BY StartSamples DEF Samples, Fresh
<1>3. Samples(Newest(answers), hour)
  BY TypesTell DEF Samples, Newest, LatestBy, Reports, IsSample
<1>4. IsIntegration(p) /\ b.cursor <= p.cursor /\ p.cursor <= hour
  BY <1>0, <1>1, <1>2, ReplayTypes DEF Replayed
<1>5. IsIntegration(q) /\ q.cursor <= hour
  BY <1>0, <1>3, <1>4, ReplayTypes DEF Taken
<1>6. IsIntegration(Upto(answers)) /\ Upto(answers).cursor = hour
  BY <1>0, <1>5, AdvanceIs DEF Upto
<1> QED BY <1>1, <1>2, <1>3, <1>4, <1>5, <1>6

LEMMA StartSound ==
  ASSUME HistTypes, SoundInv, NEW answers \in BOOLEAN, CollectorStart(answers), ~unheard'
  PROVE  /\ Sound(log, anchors', Upto(answers)) /\ Heard(log, Upto(answers), hour)
         /\ file # Nothing => Sound(log, anchors', file)
<1> DEFINE b == Base(answers)
           p == Replayed(answers)
           q == Taken(answers)
           starts == anchors'
<1>0. /\ hour \in Int /\ hour \in Nat /\ hour <= hour /\ Hold \in Nat /\ Hold <= Longest
      /\ Reports(log) /\ starts \in SUBSET Int
  BY TypesTell, StartSamples, HistoryConstants
<1>1. ~unheard /\ (answers \/ ~\E r \in log : r.at >= From /\ ~r.ok)
  BY StartIs
<1>2. AllTold(Got(answers), From)
  <2> SUFFICES ASSUME NEW r \in log, From <= r.at
               PROVE  r.ok \/ \E s \in Got(answers) : s.at = r.at
    BY DEF AllTold
  <2>1. r.at \in Nat /\ r.at <= hour /\ From \in Int /\ From < hour
    BY TypesTell, StartSamples DEF Reports
  <2>2. CASE answers
    <3>1. \E s \in Records(From, hour) : s.at = r.at
      BY <1>0, <2>1, RecordsTell
    <3> QED BY <2>2, <3>1 DEF Got
  <2>3. CASE ~answers
    BY <1>1, <2>1, <2>3
  <2> QED BY <2>2, <2>3
<1>3. file # Nothing => Sound(log, starts, file)
  <2> SUFFICES ASSUME file # Nothing PROVE Sound(log, starts, file)
    OBVIOUS
  <2>1. Sound(log, anchors, file) /\ IsIntegration(file) /\ anchors \subseteq starts
    BY <1>1, TypesTell, StartSamples DEF SoundInv
  <2> HIDE DEF starts
  <2> QED BY <2>1, MoreChunks
<1>4. Sound(log, starts, b)
  <2>1. CASE file = Nothing
    <3>1. b = Bootstrapped(Got(answers)) /\ From = Origin
      BY <2>1 DEF Base, From
    <3>2. Samples(Got(answers), hour) /\ \A s \in Got(answers) : Tells(log, starts, s)
      BY StartSamples
    <3> HIDE DEF starts
    <3> QED BY <1>0, <1>2, <3>1, <3>2, BootSound
  <2>2. CASE file # Nothing
    BY <1>3, <2>2 DEF Base
  <2> QED BY <2>1, <2>2
<1>5. /\ IsIntegration(b) /\ b.cursor <= hour /\ From <= b.cursor /\ b.cursor \in Nat /\ From \in Int
      /\ IsIntegration(p) /\ p.cursor <= hour /\ IsIntegration(q) /\ q.cursor <= hour
      /\ Samples(Fresh(answers), hour) /\ Samples(Newest(answers), hour)
  BY StartTypes, StartSamples
<1>6. Sound(log, starts, p) /\ Heard(log, p, hour)
  <2>1. Complete(log, Fresh(answers), b, hour)
    <3> SUFFICES ASSUME NEW r \in log, b.cursor <= r.at, ~r.ok
                 PROVE  \E s \in Fresh(answers) : s.at = r.at
      BY DEF Complete
    <3>1. r.at \in Nat /\ From <= r.at
      BY <1>0, <1>5 DEF Reports
    <3>2. PICK s \in Got(answers) : s.at = r.at
      BY <1>2, <3>1 DEF AllTold
    <3> QED BY <3>1, <3>2, <1>5 DEF Fresh
  <2>2. \A s \in Fresh(answers) : Tells(log, starts, s)
    BY StartSamples DEF Fresh
  <2>3. p = Replay(b, Fresh(answers), Hold)
    BY DEF Replayed
  <2> HIDE DEF b, p, starts
  <2> QED BY <1>0, <1>4, <1>5, <2>1, <2>2, <2>3, ReplaySound
<1>7. Sound(log, starts, q) /\ Heard(log, q, hour)
  <2>1. Complete(log, Newest(answers), p, hour)
    BY <1>6 DEF Complete, Heard
  <2>2. \A s \in Newest(answers) : Tells(log, starts, s)
    <3>1. ASSUME NEW s \in LatestBy(hour) PROVE s \in LatestOf(log, s.at)
      BY <1>0, <3>1 DEF LatestBy, LatestOf, Reports
    <3> QED BY <3>1 DEF Newest, Tells
  <2>3. q = Replay(p, Newest(answers), Hold)
    BY DEF Taken
  <2> HIDE DEF p, q, starts
  <2> QED BY <1>0, <1>5, <1>6, <2>1, <2>2, <2>3, ReplaySound
<1>8. Sound(log, starts, Upto(answers)) /\ Heard(log, Upto(answers), hour)
  <2>1. Upto(answers) = Advance(q, hour)
    BY DEF Upto
  <2> HIDE DEF q, starts
  <2> QED BY <1>0, <1>5, <1>7, <2>1, AdvanceHeard
<1> QED BY <1>3, <1>8

-----------------------------------------------------------------------------
(* Types *)

LEMMA NowTypes ==
  ASSUME NEW i, IsIntegration(i), i.cursor \in Nat
  PROVE  i \in Integration /\ i # Nothing /\ i.covered \in [Day -> Nat] /\ i.hold \in Nat \union {Nothing}
<1>1. i \in Integration
  BY DEF IsIntegration, Integration
<1> QED BY <1>1, HistoryConstants DEF IsIntegration

LEMMA BoundaryIs ==
  ASSUME NEW i, i.hold \in Nat \union {Nothing}, NEW t \in Nat
  PROVE  Boundary(i, t) \in Nat
<1>1. \A a \in Nat, b \in Nat \ {0} : a \div b \in Nat
  OBVIOUS
<1>2. \A a, b \in Nat : (a + 1) * b \in Nat
  OBVIOUS
<1>3. (t \div DayLen + 1) * DayLen \in Nat
  BY <1>1, <1>2, HistoryConstants
<1> QED BY <1>3 DEF Boundary

LEMMA TouchIs ==
  ASSUME NEW rolled \in BOOLEAN, Touch(rolled), HistTypes,
         cursor' \in Nat, covered' \in [Day -> Nat], holdUntil' \in Nat \union {Nothing}
  PROVE  /\ dirty' = TRUE /\ late' \in BOOLEAN /\ timer' \in BOOLEAN
         /\ (timer' \/ saving' # Nothing)
         /\ saving' = saving \/ (saving' = Now' /\ rolled)
         /\ Now' \in Integration /\ Now' # Nothing
<1>1. timer \in BOOLEAN
  BY DEF HistTypes, HistTypeOK
<1>2. Now' \in Integration
  BY DEF Now, Integration
<1>3. Now' # Nothing
  BY <1>2, HistoryConstants
<1>4. dirty' = TRUE /\ late' \in BOOLEAN /\ timer' \in BOOLEAN
  BY <1>1 DEF Touch
<1>5. saving' = (IF rolled /\ saving = Nothing THEN Now' ELSE saving)
  BY DEF Touch, Now
<1>6. timer' = IF rolled THEN timer /\ saving # Nothing ELSE TRUE
  BY DEF Touch
<1>7. timer' \/ saving' # Nothing
  BY <1>3, <1>5, <1>6
<1> QED BY <1>2, <1>3, <1>4, <1>5, <1>7

\* The operations that integrate, on the record of what is integrated.
LEMMA TakesIs ==
  ASSUME HistTypes, NEW ok \in BOOLEAN, LiveReport(ok)
  PROVE  LET s == [at |-> hour, ok |-> ok]
         IN /\ IsSample(s) /\ log' = log \union {s} /\ (\A r \in log : r.at < hour)
            /\ Now' = AddSample(Now, s, Hold)
            /\ IsIntegration(Now') /\ Now'.cursor = hour
            /\ cursor' = hour /\ covered' \in [Day -> Nat] /\ holdUntil' \in Nat \union {Nothing}
            /\ boundary' \in Nat
<1> DEFINE s == [at |-> hour, ok |-> ok]
           j == AddSample(Now, s, Hold)
<1>0. IsIntegration(Now) /\ Now.cursor <= hour /\ hour \in Nat /\ Hold \in Nat
  BY TypesTell, HistoryConstants
<1>1. IsSample(s) /\ s.at = hour
  BY <1>0 DEF IsSample
<1>2. cursor' = j.cursor /\ covered' = j.covered /\ holdUntil' = j.hold
  BY Zenon DEF LiveReport, Becomes
<1>3. log' = log \union {s} /\ (\A r \in log : r.at < hour)
  BY DEF LiveReport, Reporting
<1> HIDE DEF s
<1>4. IsIntegration(j) /\ j.cursor = hour
  BY <1>0, <1>1, SampleIs
<1> HIDE DEF j
<1>5. Now' = [cursor |-> j.cursor, covered |-> j.covered, hold |-> j.hold]
  BY <1>2 DEF Now
<1>6. Now' = j
  BY <1>4, <1>5 DEF IsIntegration
<1>7. cursor' = hour /\ covered' \in [Day -> Nat] /\ holdUntil' \in Nat \union {Nothing}
  BY <1>2, <1>4 DEF IsIntegration
<1>8. boundary' = Boundary([hold |-> holdUntil'], hour)
  BY DEF LiveReport
<1>9. boundary' \in Nat
  <2>1. [hold |-> holdUntil'].hold \in Nat \union {Nothing}
    BY <1>7
  <2> QED BY <1>0, <1>8, <2>1, BoundaryIs
<1> QED BY <1>1, <1>3, <1>4, <1>6, <1>7, <1>9 DEF j, s

LEMMA FiresIs ==
  ASSUME HistTypes, BoundaryFires
  PROVE  /\ Now' = Advance(Now, hour) /\ IsIntegration(Now') /\ Now'.cursor = hour
         /\ cursor' = hour /\ covered' \in [Day -> Nat] /\ holdUntil' \in Nat \union {Nothing}
         /\ boundary' \in Nat
<1> DEFINE j == Advance(Now, hour)
<1>0. IsIntegration(Now) /\ Now.cursor <= hour /\ hour \in Nat /\ hour \in Int
  BY TypesTell
<1>2. cursor' = j.cursor /\ covered' = j.covered /\ holdUntil' = j.hold
  BY Zenon DEF BoundaryFires, Becomes
<1>4. IsIntegration(j) /\ j.cursor = hour
  BY <1>0, AdvanceIs
<1> HIDE DEF j
<1>5. Now' = [cursor |-> j.cursor, covered |-> j.covered, hold |-> j.hold]
  BY <1>2 DEF Now
<1>6. Now' = j
  BY <1>4, <1>5 DEF IsIntegration
<1>7. cursor' = hour /\ covered' \in [Day -> Nat] /\ holdUntil' \in Nat \union {Nothing}
  BY <1>2, <1>4 DEF IsIntegration
<1>8. boundary' = Boundary([hold |-> holdUntil'], hour)
  BY DEF BoundaryFires
<1>9. boundary' \in Nat
  <2>1. [hold |-> holdUntil'].hold \in Nat \union {Nothing}
    BY <1>7
  <2> QED BY <1>0, <1>8, <2>1, BoundaryIs
<1> QED BY <1>4, <1>6, <1>7, <1>9 DEF j

LEMMA HistTypesInit == HistInit => HistTypes /\ SoundInv
<1> SUFFICES ASSUME HistInit PROVE HistTypes /\ SoundInv
  OBVIOUS
<1>1. HistTypes
  <2>1. covered \in [Day -> Nat] /\ cursor = 0 /\ hour = 0 /\ log = {} /\ anchors = {}
        /\ file = Nothing /\ saving = Nothing /\ holdUntil = Nothing /\ boundary = Nothing
        /\ phase = "down" /\ timer = FALSE /\ dirty = FALSE /\ late = FALSE /\ unheard = FALSE
        /\ startsUsed = 0 /\ faultsUsed = 0
    BY DEF HistInit
  <2>2. {timer, dirty, late, unheard} \subseteq BOOLEAN /\ {holdUntil, boundary} \subseteq Nat \union {Nothing}
        /\ {file, saving} \subseteq Integration \union {Nothing}
        /\ log \subseteq [at : Nat, ok : BOOLEAN] /\ anchors \subseteq Int
    BY <2>1, Zenon
  <2>3. hour \in Nat /\ cursor \in Nat /\ {startsUsed, faultsUsed} \subseteq Nat /\ cursor <= hour
    BY <2>1
  <2>4. HistTypeOK
    BY <2>1, <2>2, <2>3, Zenon DEF HistTypeOK
  <2> QED BY <2>1, <2>3, <2>4, Zenon DEF HistTypes
<1> QED BY <1>1 DEF SoundInv, HistInit

\* The saved and the saving integration.
LEMMA SavingTypes ==
  ASSUME NEW h \in Nat, NEW i \in Integration \union {Nothing}, i # Nothing => i.cursor <= h
  PROVE  i \in Integration \union {Nothing} /\ (i # Nothing => i.cursor <= h + 1)
<1>1. i # Nothing => i.cursor \in Nat
  BY DEF Integration
<1> QED BY <1>1

LEMMA TypesStep ==
  ASSUME HistTypes, [HistNext]_histVars
  PROVE  HistTypes'
<1>0. /\ hour \in Nat /\ cursor \in Nat /\ covered \in [Day -> Nat] /\ cursor <= hour
      /\ log \subseteq [at : Nat, ok : BOOLEAN] /\ anchors \subseteq Int
      /\ file \in Integration \union {Nothing} /\ saving \in Integration \union {Nothing}
      /\ holdUntil \in Nat \union {Nothing}
  BY DEF HistTypes, HistTypeOK
<1>1. ASSUME NEW ok \in BOOLEAN, UnheardReport(ok) PROVE HistTypes'
  <2>1. log' = log \union {[at |-> hour, ok |-> ok]} /\ \A r \in log : r.at < hour
    BY <1>1 DEF UnheardReport, Reporting
  <2>2. log' \subseteq [at : Nat, ok : BOOLEAN] /\ \A r \in log' : r.at <= hour /\ \A s \in log' : r.at = s.at => r = s
    BY <1>0, <2>1 DEF HistTypes
  <2>3. unheard' \in BOOLEAN
    BY <1>1 DEF UnheardReport, HistTypes, HistTypeOK
  <2> QED BY <1>1, <2>2, <2>3 DEF UnheardReport, HistTypes, HistTypeOK
<1>2. ASSUME NEW ok \in BOOLEAN, LiveReport(ok) PROVE HistTypes'
  <2>0. Touch(cursor' \div DayLen # cursor \div DayLen)
    BY <1>2 DEF LiveReport
  <2>1. /\ log' = log \union {[at |-> hour, ok |-> ok]} /\ (\A r \in log : r.at < hour)
        /\ cursor' = hour /\ covered' \in [Day -> Nat] /\ holdUntil' \in Nat \union {Nothing}
        /\ boundary' \in Nat /\ Now'.cursor = hour
    BY <1>2, TakesIs
  <2>2. log' \subseteq [at : Nat, ok : BOOLEAN] /\ \A r \in log' : r.at <= hour /\ \A s \in log' : r.at = s.at => r = s
    BY <1>0, <2>1 DEF HistTypes
  <2>3. dirty' \in BOOLEAN /\ late' \in BOOLEAN /\ timer' \in BOOLEAN
        /\ (saving' = saving \/ saving' = Now') /\ Now' \in Integration
    BY <1>0, <2>0, <2>1, TouchIs
  <2>4. saving' \in Integration \union {Nothing} /\ (saving' # Nothing => saving'.cursor <= hour)
    BY <1>0, <2>1, <2>3 DEF HistTypes
  <2>5. UNCHANGED <<hour, phase, file, anchors, unheard, startsUsed, faultsUsed>>
    BY <1>2 DEF LiveReport
  <2> QED BY <1>0, <2>1, <2>2, <2>3, <2>4, <2>5 DEF HistTypes, HistTypeOK
<1>3. ASSUME NEW ok \in BOOLEAN, CollectorStart(ok) PROVE HistTypes'
  <2>1. IsIntegration(Upto(ok)) /\ Upto(ok).cursor = hour
    BY <1>3, StartTypes
  <2>2. \A a \in anchors' : a \in Int /\ a < hour
    BY <1>3, StartSamples
  <2>3. /\ cursor' = Upto(ok).cursor /\ covered' = Upto(ok).covered
        /\ holdUntil' = Upto(ok).hold /\ saving' = Upto(ok)
        /\ dirty' = FALSE /\ late' = FALSE /\ timer' = FALSE /\ boundary' = Nothing /\ phase' = "starting"
        /\ startsUsed' = startsUsed + 1 /\ UNCHANGED <<hour, log, file, faultsUsed>>
    BY <1>3, StartIs
  <2>4. unheard' \in BOOLEAN
    BY <1>3 DEF CollectorStart, HistTypes, HistTypeOK
  <2>5. Upto(ok) \in Integration /\ Upto(ok).covered \in [Day -> Nat] /\ Upto(ok).hold \in Nat \union {Nothing}
    BY <1>0, <2>1, NowTypes
  <2>6. /\ cursor' \in Nat /\ cursor' = hour /\ covered' \in [Day -> Nat] /\ holdUntil' \in Nat \union {Nothing}
        /\ saving' \in Integration /\ saving'.cursor = hour
    BY <1>0, <2>1, <2>3, <2>5
  <2>7. /\ startsUsed' \in Nat /\ faultsUsed' \in Nat
        /\ file' \in Integration \union {Nothing} /\ (file' # Nothing => file'.cursor <= hour')
        /\ \A r \in log' : r.at <= hour' /\ \A s \in log' : r.at = s.at => r = s
    BY <1>0, <2>3 DEF HistTypes
  <2>8. hour' \in Nat /\ log' \subseteq [at : Nat, ok : BOOLEAN] /\ anchors' \subseteq Int
        /\ \A a \in anchors' : a < hour'
    BY <1>0, <2>2, <2>3
  <2>9. saving' \in Integration \union {Nothing} /\ saving'.cursor <= hour' /\ cursor' <= hour'
    BY <1>0, <2>3, <2>6
  <2>10. timer' \in BOOLEAN /\ dirty' \in BOOLEAN /\ late' \in BOOLEAN /\ boundary' = Nothing
         /\ phase' = "starting"
    BY <2>3
  <2> QED BY <2>4, <2>6, <2>7, <2>8, <2>9, <2>10 DEF HistTypes, HistTypeOK
<1>4. ASSUME NEW ok \in BOOLEAN, SaveEnds(ok) PROVE HistTypes'
  <2>1. phase' \in {"down", "starting", "up", "closing"}
    BY <1>4 DEF SaveEnds, HistTypes, HistTypeOK
  <2>2. boundary' \in Nat \union {Nothing}
    <3>1. Boundary(Now, cursor) \in Nat
      BY <1>0, BoundaryIs DEF Now
    <3> QED BY <1>4, <3>1 DEF SaveEnds, HistTypes, HistTypeOK
  <2>3. file' \in Integration \union {Nothing} /\ (file' # Nothing => file'.cursor <= hour) /\ saving' = Nothing
    BY <1>0, <1>4 DEF SaveEnds, HistTypes
  <2>4. dirty' \in BOOLEAN /\ late' \in BOOLEAN /\ timer' \in BOOLEAN
    BY <1>4 DEF SaveEnds, HistTypes, HistTypeOK
  <2>5. faultsUsed' \in Nat
    BY <1>4 DEF SaveEnds, HistTypes
  <2>6. UNCHANGED <<hour, log, cursor, covered, holdUntil, anchors, unheard, startsUsed>>
    BY <1>4 DEF SaveEnds
  <2> QED BY <1>0, <2>1, <2>2, <2>3, <2>4, <2>5, <2>6 DEF HistTypes, HistTypeOK
<1>5. CASE BoundaryFires
  <2>0. Touch(cursor' \div DayLen # cursor \div DayLen)
    BY <1>5 DEF BoundaryFires
  <2>1. /\ cursor' = hour /\ covered' \in [Day -> Nat] /\ holdUntil' \in Nat \union {Nothing}
        /\ boundary' \in Nat /\ Now'.cursor = hour
    BY <1>5, FiresIs
  <2>3. dirty' \in BOOLEAN /\ late' \in BOOLEAN /\ timer' \in BOOLEAN
        /\ (saving' = saving \/ saving' = Now') /\ Now' \in Integration
    BY <1>0, <2>0, <2>1, TouchIs
  <2>4. saving' \in Integration \union {Nothing} /\ (saving' # Nothing => saving'.cursor <= hour)
    BY <1>0, <2>1, <2>3 DEF HistTypes
  <2>5. UNCHANGED <<hour, log, phase, file, anchors, unheard, startsUsed, faultsUsed>>
    BY <1>5 DEF BoundaryFires
  <2> QED BY <1>0, <2>1, <2>3, <2>4, <2>5 DEF HistTypes, HistTypeOK
<1>6. CASE SaveBegins \/ Close
  <2>1. Now \in Integration /\ Now.cursor <= hour
    BY <1>0, TypesTell, NowTypes DEF Now
  <2>2. saving' = Now /\ timer' = FALSE /\ late' = FALSE
        /\ phase' \in {"down", "starting", "up", "closing"}
        /\ UNCHANGED <<hour, log, cursor, covered, holdUntil, boundary, file, dirty, anchors, unheard,
                       startsUsed, faultsUsed>>
    BY <1>6 DEF SaveBegins, Close, HistTypes, HistTypeOK
  <2>3. saving' \in Integration \union {Nothing} /\ (saving' # Nothing => saving'.cursor <= hour)
    BY <2>1, <2>2
  <2> QED BY <1>0, <2>2, <2>3 DEF HistTypes, HistTypeOK
<1>7. CASE CollectorCrash
  BY <1>7 DEF CollectorCrash, HistTypes, HistTypeOK
<1>8. CASE HourPasses
  <2>1. hour' = hour + 1 /\ UNCHANGED <<log, phase, cursor, covered, holdUntil, boundary, file, saving, timer,
                                        dirty, late, anchors, unheard, startsUsed, faultsUsed>>
    BY <1>8 DEF HourPasses
  <2>2. (file # Nothing => file.cursor <= hour + 1) /\ (saving # Nothing => saving.cursor <= hour + 1)
    BY <1>0, SavingTypes DEF HistTypes
  <2>3. (\A r \in log : r.at <= hour + 1 /\ \A s \in log : r.at = s.at => r = s) /\ \A a \in anchors : a < hour + 1
    BY <1>0 DEF HistTypes
  <2> QED BY <1>0, <2>1, <2>2, <2>3 DEF HistTypes, HistTypeOK
<1>9. CASE UNCHANGED histVars
  BY <1>9 DEF histVars, HistTypes, HistTypeOK
<1> QED BY <1>1, <1>2, <1>3, <1>4, <1>5, <1>6, <1>7, <1>8, <1>9 DEF HistNext

LEMMA HistTypesInv == HistSpec => []HistTypes
<1>1. HistInit => HistTypes
  BY HistTypesInit
<1>2. HistTypes /\ [HistNext]_histVars => HistTypes'
  BY TypesStep
<1> QED BY <1>1, <1>2, PTL DEF HistSpec

\* Every variable of the collector has its type, whatever is saved, lost, restored and
\* replayed (core/history.py, adapters/outdoor_history.py).
THEOREM HistoryTypes == HistSpec => []HistTypeOK
<1>1. HistTypes => HistTypeOK
  BY DEF HistTypes
<1> QED BY <1>1, HistTypesInv, PTL

-----------------------------------------------------------------------------
(* Soundness is kept. *)

\* What a stored or saving integration is, stays sound with a further report.
LEMMA SavedSound ==
  ASSUME HistTypes, NEW s, IsSample(s), s.at = hour, \A r \in log : r.at < hour,
         NEW i, IsIntegration(i), i.cursor <= hour, Sound(log, anchors, i)
  PROVE  Sound(log \union {s}, anchors, i)
<1>1. Reports(log) /\ anchors \in SUBSET Int /\ (\A r \in log : r.at < s.at) /\ \A a \in anchors : a < s.at
  BY TypesTell
<1> QED BY <1>1, ReportSound

LEMMA SoundStep ==
  ASSUME HistTypes, SoundInv, [HistNext]_histVars
  PROVE  SoundInv'
<1> SUFFICES ASSUME ~unheard'
             PROVE  /\ phase' # "down" => Sound(log', anchors', Now') /\ Heard(log', Now', hour')
                    /\ file' # Nothing => Sound(log', anchors', file')
                    /\ saving' # Nothing => Sound(log', anchors', saving')
  BY DEF SoundInv
<1>t. /\ hour \in Nat /\ Reports(log) /\ anchors \in SUBSET Int /\ IsIntegration(Now)
      /\ Now.cursor <= hour /\ (\A a \in anchors : a < hour) /\ (\A r \in log : r.at <= hour)
      /\ (file # Nothing => IsIntegration(file) /\ file.cursor <= hour)
      /\ (saving # Nothing => IsIntegration(saving) /\ saving.cursor <= hour)
  BY TypesTell DEF HistTypes
<1>s. ~unheard => /\ phase # "down" => Sound(log, anchors, Now) /\ Heard(log, Now, hour)
                  /\ file # Nothing => Sound(log, anchors, file)
                  /\ saving # Nothing => Sound(log, anchors, saving)
  BY DEF SoundInv
<1>1. ASSUME NEW ok \in BOOLEAN, UnheardReport(ok)
      PROVE  /\ phase' # "down" => Sound(log', anchors', Now') /\ Heard(log', Now', hour')
             /\ file' # Nothing => Sound(log', anchors', file')
             /\ saving' # Nothing => Sound(log', anchors', saving')
  <2> DEFINE s == [at |-> hour, ok |-> ok]
  <2>1. IsSample(s) /\ s.at = hour /\ (s.ok <=> ok)
    BY <1>t DEF IsSample
  <2>2. log' = log \union {s} /\ \A r \in log : r.at < hour
    BY <1>1 DEF UnheardReport, Reporting
  <2>3. /\ hour' = hour /\ phase' = phase /\ anchors' = anchors /\ file' = file /\ saving' = saving
        /\ ~unheard /\ (phase = "starting" => ok) /\ phase \in {"down", "starting"} /\ Now' = Now
    BY <1>1 DEF UnheardReport, Now
  <2> HIDE DEF s
  <2>4. file # Nothing => Sound(log \union {s}, anchors, file)
    BY <1>t, <1>s, <2>1, <2>2, <2>3, SavedSound
  <2>5. saving # Nothing => Sound(log \union {s}, anchors, saving)
    BY <1>t, <1>s, <2>1, <2>2, <2>3, SavedSound
  <2>6. phase # "down" => Sound(log \union {s}, anchors, Now)
    BY <1>t, <1>s, <2>1, <2>2, <2>3, SavedSound
  <2>7. phase # "down" => Heard(log \union {s}, Now, hour)
    BY <1>s, <2>1, <2>3 DEF Heard
  <2> QED BY <2>2, <2>3, <2>4, <2>5, <2>6, <2>7
<1>2. ASSUME NEW ok \in BOOLEAN, LiveReport(ok)
      PROVE  /\ phase' # "down" => Sound(log', anchors', Now') /\ Heard(log', Now', hour')
             /\ file' # Nothing => Sound(log', anchors', file')
             /\ saving' # Nothing => Sound(log', anchors', saving')
  <2> DEFINE s == [at |-> hour, ok |-> ok]
  <2>1. /\ IsSample(s) /\ log' = log \union {s} /\ (\A r \in log : r.at < hour)
        /\ Now' = AddSample(Now, s, Hold)
        /\ cursor' = hour /\ covered' \in [Day -> Nat] /\ holdUntil' \in Nat \union {Nothing}
    BY <1>2, TakesIs
  <2>8. s.at = hour
    OBVIOUS
  <2>2. /\ hour' = hour /\ phase' = phase /\ anchors' = anchors /\ file' = file
        /\ ~unheard /\ phase # "down"
    BY <1>2 DEF LiveReport
  <2>3. saving' = saving \/ saving' = Now'
    <3>1. Touch(cursor' \div DayLen # cursor \div DayLen)
      BY <1>2 DEF LiveReport
    <3>2. cursor' \in Nat
      BY <1>t, <2>1
    <3> QED BY <2>1, <3>1, <3>2, TouchIs
  <2> HIDE DEF s
  <2>4. /\ Sound(log \union {s}, anchors, AddSample(Now, s, Hold))
        /\ Heard(log \union {s}, AddSample(Now, s, Hold), s.at)
    <3>1. (\A r \in log : r.at < s.at) /\ (\A a \in anchors : a < s.at) /\ Now.cursor <= s.at
          /\ Sound(log, anchors, Now) /\ Heard(log, Now, s.at)
      BY <1>t, <1>s, <2>1, <2>2, <2>8
    <3> QED BY <1>t, <2>1, <3>1, TakenSound
  <2>5. file # Nothing => Sound(log \union {s}, anchors, file)
    BY <1>t, <1>s, <2>1, <2>2, <2>8, SavedSound
  <2>6. saving # Nothing => Sound(log \union {s}, anchors, saving)
    BY <1>t, <1>s, <2>1, <2>2, <2>8, SavedSound
  <2>7. Sound(log', anchors', Now') /\ Heard(log', Now', hour')
    BY <2>1, <2>2, <2>4, <2>8
  <2>9. file' # Nothing => Sound(log', anchors', file')
    BY <2>1, <2>2, <2>5
  <2>10. saving' # Nothing => Sound(log', anchors', saving')
    BY <2>1, <2>2, <2>3, <2>6, <2>7
  <2> QED BY <2>7, <2>9, <2>10
<1>3. ASSUME NEW ok \in BOOLEAN, CollectorStart(ok)
      PROVE  /\ phase' # "down" => Sound(log', anchors', Now') /\ Heard(log', Now', hour')
             /\ file' # Nothing => Sound(log', anchors', file')
             /\ saving' # Nothing => Sound(log', anchors', saving')
  <2> DEFINE j == Upto(ok)
  <2>1. /\ Sound(log, anchors', j) /\ Heard(log, j, hour)
        /\ file # Nothing => Sound(log, anchors', file)
    BY <1>3, StartSound
  <2>2. /\ cursor' = j.cursor /\ covered' = j.covered /\ holdUntil' = j.hold /\ saving' = j
        /\ UNCHANGED <<hour, log, file>>
    BY <1>3, StartIs
  <2>3. IsIntegration(j)
    BY <1>3, StartTypes
  <2> HIDE DEF j
  <2>4. Now' = [cursor |-> j.cursor, covered |-> j.covered, hold |-> j.hold]
    BY <2>2 DEF Now
  <2>5. Now' = j
    BY <2>3, <2>4 DEF IsIntegration
  <2> QED BY <2>1, <2>2, <2>5
<1>4. ASSUME NEW ok \in BOOLEAN, SaveEnds(ok)
      PROVE  /\ phase' # "down" => Sound(log', anchors', Now') /\ Heard(log', Now', hour')
             /\ file' # Nothing => Sound(log', anchors', file')
             /\ saving' # Nothing => Sound(log', anchors', saving')
  <2>1. /\ hour' = hour /\ log' = log /\ anchors' = anchors /\ ~unheard /\ Now' = Now
        /\ saving # Nothing /\ saving' = Nothing /\ (file' = saving \/ file' = file)
    BY <1>4 DEF SaveEnds, Now
  <2>2. phase' # "down" => phase # "down"
    BY <1>4 DEF SaveEnds
  <2> QED BY <1>s, <2>1, <2>2
<1>5. ASSUME BoundaryFires
      PROVE  /\ phase' # "down" => Sound(log', anchors', Now') /\ Heard(log', Now', hour')
             /\ file' # Nothing => Sound(log', anchors', file')
             /\ saving' # Nothing => Sound(log', anchors', saving')
  <2>1. Now' = Advance(Now, hour)
        /\ cursor' = hour /\ covered' \in [Day -> Nat] /\ holdUntil' \in Nat \union {Nothing}
    BY <1>5, FiresIs
  <2>2. /\ hour' = hour /\ log' = log /\ phase' = phase /\ anchors' = anchors /\ file' = file
        /\ ~unheard /\ phase # "down"
    BY <1>5 DEF BoundaryFires
  <2>3. saving' = saving \/ saving' = Now'
    <3>1. Touch(cursor' \div DayLen # cursor \div DayLen)
      BY <1>5 DEF BoundaryFires
    <3>2. cursor' \in Nat
      BY <1>t, <2>1
    <3> QED BY <2>1, <3>1, <3>2, TouchIs
  <2>4. Sound(log, anchors, Advance(Now, hour)) /\ Heard(log, Advance(Now, hour), hour)
    <3>1. hour \in Int
      BY <1>t
    <3> QED BY <1>t, <1>s, <2>2, <3>1, AdvanceHeard
  <2> QED BY <1>s, <2>1, <2>2, <2>3, <2>4
<1>6. ASSUME SaveBegins \/ Close
      PROVE  /\ phase' # "down" => Sound(log', anchors', Now') /\ Heard(log', Now', hour')
             /\ file' # Nothing => Sound(log', anchors', file')
             /\ saving' # Nothing => Sound(log', anchors', saving')
  <2>1. /\ hour' = hour /\ log' = log /\ anchors' = anchors /\ ~unheard /\ Now' = Now
        /\ saving' = Now /\ file' = file /\ phase # "down"
    BY <1>6 DEF SaveBegins, Close, Now
  <2> QED BY <1>s, <2>1
<1>7. ASSUME CollectorCrash
      PROVE  /\ phase' # "down" => Sound(log', anchors', Now') /\ Heard(log', Now', hour')
             /\ file' # Nothing => Sound(log', anchors', file')
             /\ saving' # Nothing => Sound(log', anchors', saving')
  <2>1. log' = log /\ anchors' = anchors /\ ~unheard /\ saving' = Nothing /\ file' = file /\ phase' = "down"
    BY <1>7 DEF CollectorCrash
  <2> QED BY <1>s, <2>1
<1>8. ASSUME HourPasses
      PROVE  /\ phase' # "down" => Sound(log', anchors', Now') /\ Heard(log', Now', hour')
             /\ file' # Nothing => Sound(log', anchors', file')
             /\ saving' # Nothing => Sound(log', anchors', saving')
  <2>1. /\ log' = log /\ anchors' = anchors /\ ~unheard /\ Now' = Now /\ saving' = saving /\ file' = file
        /\ phase' = phase
    BY <1>8 DEF HourPasses, Now
  <2>2. Heard(log, Now, hour) => \A t : Heard(log, Now, t)
    BY <1>t DEF Heard
  <2> QED BY <1>s, <2>1, <2>2
<1>9. ASSUME UNCHANGED histVars
      PROVE  /\ phase' # "down" => Sound(log', anchors', Now') /\ Heard(log', Now', hour')
             /\ file' # Nothing => Sound(log', anchors', file')
             /\ saving' # Nothing => Sound(log', anchors', saving')
  <2>1. /\ hour' = hour /\ log' = log /\ anchors' = anchors /\ ~unheard /\ Now' = Now /\ saving' = saving
        /\ file' = file /\ phase' = phase
    BY <1>9 DEF histVars, Now
  <2> QED BY <1>s, <2>1
<1> QED BY <1>1, <1>2, <1>3, <1>4, <1>5, <1>6, <1>7, <1>8, <1>9 DEF HistNext

LEMMA HistInvariant == HistSpec => [](HistTypes /\ SoundInv)
<1>1. HistInit => HistTypes /\ SoundInv
  BY HistTypesInit
<1>2. HistTypes /\ SoundInv /\ [HistNext]_histVars => (HistTypes /\ SoundInv)'
  BY TypesStep, SoundStep
<1> QED BY <1>1, <1>2, PTL DEF HistSpec

LEMMA SoundIsEarned == HistTypes /\ SoundInv => CoverageEarned
<1> SUFFICES ASSUME HistTypes, SoundInv, phase \in {"up", "closing"}, ~unheard, NEW d \in Day
             PROVE  covered[d] <= Earned(d, anchors)
  BY DEF CoverageEarned
<1> DEFINE hours == d * DayLen .. (d * DayLen + DayLen - 1)
           due == DueHours(log, anchors, cursor, d)
           earned == {u \in hours : u < hour /\ Justified(u, anchors)}
<1>1. covered[d] <= Cardinality(due) /\ covered[d] \in Nat
  BY DEF SoundInv, Sound, Now, HistTypes, HistTypeOK
<1>2. due \subseteq earned
  <2>1. \A u \in hours : u \in Int
    BY DaysAre, HistoryConstants
  <2>2. \A u \in Int : u < cursor => u < hour
    BY DEF HistTypes, HistTypeOK
  <2>3. \A u : Due(log, anchors, u) => Justified(u, anchors)
    BY LatestIs, Zenon DEF Due, Justified, Longest
  <2> QED BY <2>1, <2>2, <2>3 DEF DueHours
<1>3. IsFiniteSet(earned) /\ Cardinality(earned) \in Nat
  <2>1. IsFiniteSet(hours)
    BY DaysAre, HistoryConstants, FS_Interval
  <2>2. IsFiniteSet(earned)
    BY <2>1, FS_Subset
  <2> QED BY <2>2, FS_CardinalityType
<1>4. Cardinality(due) \in Nat
  BY DueFinite
<1>5. Earned(d, anchors) = Cardinality(earned)
  BY DEF Earned
<1> HIDE DEF due, earned
<1>6. Cardinality(due) <= Cardinality(earned)
  BY <1>2, <1>3, FS_Subset
<1> QED BY <1>1, <1>3, <1>4, <1>5, <1>6

\* No day is credited with time that no report justifies, or twice with the same, whatever
\* was saved, lost in a crash, restored and replayed from the Recorder (core/history.py:
\* add_sample, advance; adapters/outdoor_history.py: async_start).
THEOREM CreditIsEarned == HistSpec => []CoverageEarned
BY HistInvariant, SoundIsEarned, PTL

-----------------------------------------------------------------------------
(* What is not saved is going to be. *)

LEMMA AwaitedStep ==
  ASSUME HistTypes, UnsavedAwaited, [HistNext]_histVars
  PROVE  UnsavedAwaited'
<1>1. ASSUME NEW ok \in BOOLEAN, UnheardReport(ok) PROVE UnsavedAwaited'
  BY <1>1 DEF UnheardReport, UnsavedAwaited
<1>2. ASSUME NEW ok \in BOOLEAN, LiveReport(ok) PROVE UnsavedAwaited'
  <2>1. /\ cursor' = hour /\ covered' \in [Day -> Nat] /\ holdUntil' \in Nat \union {Nothing}
    BY <1>2, TakesIs
  <2>2. Touch(cursor' \div DayLen # cursor \div DayLen) /\ cursor' \in Nat
    BY <1>2, <2>1 DEF LiveReport, HistTypes, HistTypeOK
  <2>3. timer' \/ saving' # Nothing
    BY <2>1, <2>2, TouchIs
  <2> QED BY <2>3 DEF UnsavedAwaited
<1>3. ASSUME NEW ok \in BOOLEAN, CollectorStart(ok) PROVE UnsavedAwaited'
  BY <1>3 DEF CollectorStart, UnsavedAwaited
<1>4. ASSUME NEW ok \in BOOLEAN, SaveEnds(ok) PROVE UnsavedAwaited'
  <2>1. timer' = ((late \/ ~ok \/ timer) /\ phase # "closing") /\ dirty' = (late \/ ~ok)
    BY <1>4 DEF SaveEnds
  <2>2. phase' = "up" => phase # "closing"
    BY <1>4 DEF SaveEnds
  <2> QED BY <2>1, <2>2 DEF UnsavedAwaited
<1>5. CASE BoundaryFires
  <2>1. /\ cursor' = hour /\ covered' \in [Day -> Nat] /\ holdUntil' \in Nat \union {Nothing}
    BY <1>5, FiresIs
  <2>2. Touch(cursor' \div DayLen # cursor \div DayLen) /\ cursor' \in Nat
    BY <1>5, <2>1 DEF BoundaryFires, HistTypes, HistTypeOK
  <2>3. timer' \/ saving' # Nothing
    BY <2>1, <2>2, TouchIs
  <2> QED BY <2>3 DEF UnsavedAwaited
<1>6. CASE SaveBegins \/ Close
  <2>1. Now \in Integration
    BY DEF HistTypes, HistTypeOK, Now, Integration
  <2>2. saving' = Now /\ Now # Nothing
    BY <1>6, <2>1, HistoryConstants DEF SaveBegins, Close
  <2> QED BY <2>2 DEF UnsavedAwaited
<1>7. CASE CollectorCrash
  BY <1>7 DEF CollectorCrash, UnsavedAwaited
<1>8. CASE HourPasses
  BY <1>8 DEF HourPasses, UnsavedAwaited
<1>9. CASE UNCHANGED histVars
  BY <1>9 DEF histVars, UnsavedAwaited
<1> QED BY <1>1, <1>2, <1>3, <1>4, <1>5, <1>6, <1>7, <1>8, <1>9 DEF HistNext

\* While the collector runs, what it integrated since its last save is written or scheduled
\* to be, whatever saves failed or were overtaken (adapters/outdoor_history.py: async_save).
THEOREM UnsavedIsAwaited == HistSpec => []UnsavedAwaited
<1>1. HistInit => UnsavedAwaited
  BY DEF HistInit, UnsavedAwaited
<1> QED BY <1>1, AwaitedStep, HistTypesInv, PTL DEF HistSpec

-----------------------------------------------------------------------------
(* The parts side by side (MCInputs): one moves, the others stand still.     *)

LEMMA PartsInit ==
  InputsInit => SourceInit /\ FreshInit /\ SafetyInit /\ CritInit /\ HistInit /\ ZoneInit
BY DEF InputsInit

LEMMA PartsMove ==
  [InputsNext]_inputVars =>
    /\ [SourceNext]_sourceVars /\ [FreshNext]_freshVars /\ [SafetyNext]_safetyVars
    /\ [CritNext]_critVars /\ [HistNext]_histVars /\ [ZoneNext]_zoneVars
<1>1. ASSUME UNCHANGED inputVars
      PROVE  UNCHANGED <<sourceVars, freshVars, safetyVars, critVars, histVars, zoneVars>>
  BY <1>1 DEF inputVars
<1>2. ASSUME InputsNext
      PROVE  /\ SourceNext \/ UNCHANGED sourceVars
             /\ FreshNext \/ UNCHANGED freshVars
             /\ SafetyNext \/ UNCHANGED safetyVars
             /\ CritNext \/ UNCHANGED critVars
             /\ HistNext \/ UNCHANGED histVars
             /\ ZoneNext \/ UNCHANGED zoneVars
  BY <1>2 DEF InputsNext
<1> QED BY <1>1, <1>2

LEMMA PartsSpec ==
  InputsSpec => SourceSpec /\ FreshSpec /\ SafetySpec /\ CritSpec /\ HistSpec /\ ZoneSpec
BY PartsInit, PartsMove, PTL
   DEF InputsSpec, SourceSpec, FreshSpec, SafetySpec, CritSpec, HistSpec, ZoneSpec

\* What validation, freshness, the cooling safety, locations, history and the calculation
\* keep is always what the code can put there.
THEOREM InputsTypes == InputsSpec => []InputsTypeOK
BY PartsSpec, SourceTypes, FreshnessTypes, SafetyTypes, CritTypes, HistoryTypes, ZoneTypes, PTL
   DEF InputsTypeOK

=============================================================================
