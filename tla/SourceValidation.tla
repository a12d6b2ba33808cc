---------------------------- MODULE SourceValidation ----------------------------
(* What becomes of the reports of one measured source (core/sources.py and       *)
(* adapters/sources.py).  The source reports when it likes; a snapshot, which any *)
(* event of the zone can trigger, validates whatever report is current then, so   *)
(* that a report may be validated several times or never.                         *)
EXTENDS Integers, Sequences, FiniteSets, SequencesExt

CONSTANTS
  Reading,              \* values the source can report, inside its limits
  NoReading,            \* an unavailable or unusable state
  JumpLimit, JumpWindow, Consistency,   \* SOURCE_POLICIES, in units of Reading and of 30 s
  Freshness, QuarantineSpan, RecoverySpan,
  SourceClock, MaxReports               \* bounds: time, reports

ASSUME SourceAssumption ==
  /\ Reading \subseteq Int /\ NoReading \notin Int
  /\ {JumpLimit, JumpWindow, Consistency, Freshness, QuarantineSpan, RecoverySpan,
      SourceClock, MaxReports} \subseteq Nat
  /\ Freshness > 0

VARIABLES
  now,
  current,      \* the state of the entity: value and time of the report
  accepted,     \* SourceState.last_accepted, or None
  quarantine,   \* SourceState.quarantine.values, << >> for none
  recovery,     \* SourceState.recovery_reports
  recovering,   \* SourceState.recovering
  verdict,      \* what the last snapshot found
  held,         \* history: the reports judged since a quarantine began, in order
  good,         \* history: the distinct reports accepted since recovery became necessary
  made          \* reports made

sourceState == <<accepted, quarantine, recovery, recovering>>
sourceVars == <<now, current, sourceState, verdict, held, good, made>>

None == [value |-> NoReading, at |-> -1]
Report == [value : Reading, at : Nat]
Apart(x, y) == IF x < y THEN y - x ELSE x - y
Consistent(rs) == \A r, s \in rs : Apart(r.value, s.value) <= Consistency

SourceInit ==
  /\ now = 0 /\ made = 0
  /\ current = None /\ accepted = None
  /\ quarantine = << >> /\ recovery = << >> /\ recovering = FALSE
  /\ verdict = "none" /\ held = << >> /\ good = {}

Usable == current.value # NoReading

\* The source reports, or becomes unavailable or unusable; one report in 30 s.
SourceReports ==
  /\ made < MaxReports /\ made' = made + 1
  /\ current.at < now \/ current = None
  /\ \E v \in Reading \union {NoReading} :
       /\ v = NoReading => current.value # NoReading
       /\ current' = [value |-> v, at |-> now]
  /\ UNCHANGED <<now, sourceState, verdict, held, good>>

\* A report is dated by the newest evidence of its device (_freshness_evidence):
\* the date falls back when that evidence becomes unavailable.
EvidenceLost ==
  /\ Usable /\ current.at > 0 /\ made < MaxReports /\ made' = made + 1
  /\ current' = [current EXCEPT !.at = @ - 1]
  /\ UNCHANGED <<now, sourceState, verdict, held, good>>

SourceTick ==
  /\ now < SourceClock /\ now' = now + 1
  /\ UNCHANGED <<current, sourceState, verdict, held, good, made>>

-----------------------------------------------------------------------------
(* validate_measured_source: its cases, in the order of the code.  `protect` is  *)
(* the option of jump protection; switching it off ends a quarantine, and with   *)
(* the quarantine the recovery it asked for.                                     *)

Stale == now - current.at > Freshness
Freed(protect) == ~protect /\ quarantine # << >>
Same == current = accepted
Conflict == accepted # None /\ current.at <= accepted.at
Jump(from, to) == /\ from # None
                  /\ to.at - from.at <= JumpWindow
                  /\ Apart(from.value, to.value) > JumpLimit

\* An unusable state discards what was gathered and asks for recovery, once
\* there has been a report to recover.
RejectForgiving ==   \* with a bug
  /\ ~Usable
  /\ quarantine' = << >> /\ recovering' = (accepted # None)
  /\ verdict' = "invalid" /\ held' = << >> /\ good' = {}
  /\ UNCHANGED <<accepted, recovery>>
RejectUnusable ==
  /\ ~Usable
  /\ quarantine' = << >> /\ recovery' = << >> /\ recovering' = (accepted # None)
  /\ verdict' = "invalid" /\ held' = << >> /\ good' = {}
  /\ UNCHANGED accepted

AcceptStale ==
  /\ Usable /\ Stale
  /\ quarantine' = << >> /\ recovery' = << >> /\ recovering' = FALSE
  /\ verdict' = "stale" /\ held' = << >> /\ good' = {}
  /\ UNCHANGED accepted

\* The report that was accepted before: the observation of then, state unchanged.
Repeat(protect) ==
  /\ Usable /\ ~Stale /\ Same
  /\ verdict' = IF Freed(protect) THEN "released" ELSE "same"
  /\ IF Freed(protect) THEN quarantine' = << >> /\ recovery' = << >> /\ recovering' = FALSE
     ELSE UNCHANGED <<quarantine, recovery, recovering>>
  /\ UNCHANGED <<accepted, held, good>>

RejectConflict ==
  /\ Usable /\ ~Stale /\ ~Same /\ Conflict
  /\ quarantine' = << >> /\ recovery' = << >> /\ recovering' = TRUE
  /\ verdict' = "invalid" /\ held' = << >> /\ good' = {}
  /\ UNCHANGED accepted

\* The quarantine after the current report: the values so far, the first and the
\* last two of them, or the new one alone when it disagrees; << >> releases it.
QuarantinedHasty ==   \* with a bug
  LET values == Append(quarantine, current)
  IN IF quarantine = << >> THEN IF Jump(accepted, current) THEN values ELSE << >>
     ELSE IF ~Consistent(ToSet(values)) THEN <<current>>
     ELSE IF Len(values) >= 3 THEN << >>
     ELSE values
Quarantined ==
  LET values == Append(quarantine, current)
  IN IF quarantine = << >> THEN IF Jump(accepted, current) THEN values ELSE << >>
     ELSE IF ~Consistent(ToSet(values)) THEN <<current>>
     ELSE IF Len(values) >= 3 /\ current.at - values[1].at >= QuarantineSpan THEN << >>
     ELSE IF Len(values) <= 3 THEN values
     ELSE <<values[1]>> \o SubSeq(values, Len(values) - 1, Len(values))

Judged == Usable /\ ~Stale /\ ~Same /\ ~Conflict

\* The history after the current report, which may have been judged before.
Judgements ==
  LET before == IF quarantine = << >> THEN << >> ELSE held
  IN IF before # << >> /\ Last(before) = current THEN before ELSE Append(before, current)

KeepInQuarantine ==
  /\ Judged /\ Quarantined # << >>
  /\ quarantine' = Quarantined /\ recovery' = << >> /\ recovering' = TRUE
  /\ verdict' = "quarantine" /\ good' = {}
  /\ held' = Judgements
  /\ UNCHANGED accepted

\* The report is valid; two accepted reports 30 s apart end a recovery.
Accept(protect) ==
  LET freed == Freed(protect)
      still == recovering /\ ~freed /\ accepted # None
      heard == IF ~still THEN << >>
               ELSE IF freed \/ recovery = << >> THEN <<current.at>>
               ELSE <<recovery[1], current.at>>
      ready == Len(heard) = 2 /\ heard[2] - heard[1] >= RecoverySpan
  IN /\ Judged /\ (protect => Quarantined = << >>)
     /\ accepted' = current /\ quarantine' = << >>
     /\ recovery' = heard /\ recovering' = (still /\ ~ready)
     /\ verdict' = IF ~protect THEN IF freed THEN "released" ELSE "unchecked" ELSE "valid"
     /\ held' = Judgements
     /\ good' = good \union {current}

Validate(protect) ==
  /\ \/ RejectUnusable \/ AcceptStale \/ Repeat(protect) \/ RejectConflict
     \/ (protect /\ KeepInQuarantine) \/ Accept(protect)
  /\ UNCHANGED <<now, current, made>>

SourceNext ==
  \/ SourceReports \/ EvidenceLost \/ SourceTick
  \/ \E protect \in BOOLEAN : Validate(protect)
SourceSpec == SourceInit /\ [][SourceNext]_sourceVars

-----------------------------------------------------------------------------
SourceTypeOK ==
  /\ now \in Nat /\ made \in Nat
  /\ current \in [value : Reading \union {NoReading}, at : Nat] \union {None}
  /\ accepted \in Report \union {None} /\ quarantine \in Seq(Report)
  /\ recovery \in Seq(Nat) /\ recovering \in BOOLEAN
  /\ held \in Seq(Report) /\ good \subseteq Report

\* A reading that jumped within the window is believed only after a whole minute in which
\* every report that was judged agreed with the first of that minute, with nothing
\* unusable, stale or contradictory among them, however often snapshots looked at each.
\* The values of the minute need not all agree with each other: the middle ones are
\* dropped from the quarantine.
JumpsConfirmed ==
  [][verdict' = "valid" /\ accepted' # accepted /\ Jump(accepted, accepted') =>
       \E k \in DOMAIN held' :
         /\ accepted'.at - held'[k].at >= QuarantineSpan
         /\ \A l \in k .. Len(held') :
              Apart(held'[l].value, held'[k].value) <= Consistency]_sourceVars

\* A source that failed is trusted again only after two accepted reports 30 s apart
\* since its last failure, unless its report is stale or an option releases it.
RecoveryEarned ==
  [][recovering /\ ~recovering' =>
       \/ verdict' \in {"stale", "released"}
       \/ \E first, second \in good' : second.at - first.at >= RecoverySpan]_sourceVars

=============================================================================
