------------------------ MODULE TargetOwnershipProofs ------------------------
(***************************************************************************)
(* Proofs about TargetOwnership, for any finite set of targets and any     *)
(* bounds: its types; that a target is owned only when it may be; that the *)
(* stored records settle; and, when nothing stops the zone or fails a      *)
(* write among the writes of one start, that the gate of a corrupt store   *)
(* holds and that overrides are kept.                                      *)
(***************************************************************************)
EXTENDS TargetOwnership, FiniteSetTheorems, SequenceTheorems, TLAPS

\* Between loading the store and acquiring the leases every target is in its
\* initial state; only an override has an expiry.
OwnInv ==
  /\ phase = "loaded" => \A t \in Target : own[t] = InitialOwnership
  /\ \A t \in Target : own[t].expiry # NoTime => own[t].ownership = "manual_override"

IInv == TypeOK /\ OwnInv /\ OwnedIsAllowed

\* What a state must satisfy for a transition of t to lead to it.
Sound(t, o) ==
  /\ o \in OwnershipState
  /\ o.expiry # NoTime => o.ownership = "manual_override"
  /\ o.ownership = "owned" => enabled' /\ ~o.resume /\ t \notin baseline'

-----------------------------------------------------------------------------
LEMMA ReconcilingType == ASSUME NEW b \in BOOLEAN PROVE
  /\ Reconciling(b) \in OwnershipState /\ Reconciling(b).ownership = "reconciling"
  /\ Reconciling(b).expiry = NoTime
BY BoundAssumption DEF Reconciling, OwnershipState, Ownership, Time, NoTime

LEMMA OverrideType == ASSUME NEW e \in Time PROVE
  /\ Override(e) \in OwnershipState /\ Override(e).ownership = "manual_override"
  /\ Override(e).expiry = e
BY DEF Override, OwnershipState, Ownership

LEMMA InitialType ==
  /\ InitialOwnership \in OwnershipState /\ InitialOwnership.ownership = "disabled"
  /\ InitialOwnership.expiry = NoTime
BY BoundAssumption DEF InitialOwnership, OwnershipState, Ownership, Time, NoTime

\* What the updates of an ownership state that the events make lead to.
LEMMA UpdateOwnership ==
  ASSUME NEW o \in OwnershipState, NEW w \in Ownership
  PROVE  LET u == [o EXCEPT !.ownership = w]
         IN  /\ u \in OwnershipState /\ u.ownership = w
             /\ u.expiry = o.expiry /\ u.resume = o.resume
BY DEF OwnershipState

LEMMA UpdateExpiry ==
  ASSUME NEW o \in OwnershipState
  PROVE  LET u == [o EXCEPT !.ownership = "reconciling", !.expiry = NoTime]
         IN  u \in OwnershipState /\ u.ownership = "reconciling" /\ u.expiry = NoTime
<1>1. "reconciling" \in Ownership /\ NoTime \in Time
  BY BoundAssumption DEF Ownership, Time, NoTime
<1>2. QED
  BY <1>1 DEF OwnershipState

LEMMA UpdateResume ==
  ASSUME NEW o \in OwnershipState
  PROVE  LET u == [o EXCEPT !.ownership = "reconciling", !.resume = TRUE]
         IN  u \in OwnershipState /\ u.ownership = "reconciling" /\ u.expiry = o.expiry
<1>1. "reconciling" \in Ownership
  BY DEF Ownership
<1>2. QED
  BY <1>1 DEF OwnershipState

LEMMA OverrideExpiredType ==
  ASSUME NEW o \in OwnershipState
  PROVE  /\ OverrideExpired(o) \in OwnershipState
         /\ \/ OverrideExpired(o) = o
            \/ /\ OverrideExpired(o).ownership = "reconciling"
               /\ OverrideExpired(o).expiry = NoTime
<1>1. CASE o.ownership = "manual_override" /\ now >= o.expiry
  BY <1>1, UpdateExpiry DEF OverrideExpired
<1>2. CASE ~(o.ownership = "manual_override" /\ now >= o.expiry)
  BY <1>2 DEF OverrideExpired
<1>3. QED
  BY <1>1, <1>2

\* The writes of one pass over some targets are writes.
LEMMA RecordsType ==
  ASSUME NEW S \in SUBSET Target, NEW order \in SetToSeqs(S), NEW f,
         \A t \in S : f[t] \in OwnershipState
  PROVE  Records(order, f) \in Seq(Write)
<1>1. Cardinality(S) \in Nat
  BY TargetAssumption, FS_Subset, FS_CardinalityType
<1>2. order \in [1 .. Cardinality(S) -> S]
  BY DEF SetToSeqs
<1>3. ASSUME NEW i \in 1 .. Cardinality(S)
      PROVE  [t \in {order[i]} |-> f[t]] \in Write
  <2>1. {order[i]} \in SUBSET Target /\ order[i] \in S
    BY <1>2
  <2>2. [t \in {order[i]} |-> f[t]] \in [{order[i]} -> OwnershipState]
    BY <2>1
  <2>3. QED
    BY <2>1, <2>2 DEF Write
<1>4. Records(order, f) = [i \in 1 .. Cardinality(S) |-> [t \in {order[i]} |-> f[t]]]
  BY <1>2 DEF Records
<1>5. Records(order, f) \in [1 .. Cardinality(S) -> Write]
  BY <1>3, <1>4
<1>6. QED
  BY <1>1, <1>5

LEMMA NoRecordType == NoRecord \in Write
<1>1. NoRecord \in [{} -> OwnershipState]
  BY DEF NoRecord
<1>2. QED
  BY <1>1 DEF Write

LEMMA MergedType ==
  ASSUME NEW w \in Write, NEW records \in [Target -> OwnershipState]
  PROVE  Merged(w, records) \in [Target -> OwnershipState]
<1>1. PICK S \in SUBSET Target : w \in [S -> OwnershipState]
  BY DEF Write
<1>2. QED
  BY <1>1 DEF Merged

\* A transition to states that are sound keeps the invariant.
LEMMA TransitionSound ==
  ASSUME TypeOK, OwnInv, OwnedIsAllowed, phase # "loaded", phase' = phase,
         NEW S \in SUBSET Target, NEW f, NEW further \in Seq(Write),
         Transition(S, f, further),
         \A t \in S : Sound(t, f[t]),
         enabled' = enabled \/ S = Target, baseline' \subseteq baseline
  PROVE  /\ own' \in [Target -> OwnershipState] /\ timer' \in [Target -> Time]
         /\ writes' \in Seq(Write)
         /\ OwnInv' /\ OwnedIsAllowed'
<1>1. own' = [t \in Target |-> IF t \in S THEN f[t] ELSE own[t]]
  BY DEF Transition
<1>2. \A t \in S : f[t] \in OwnershipState
  BY DEF Sound
<1>3. own' \in [Target -> OwnershipState]
  BY <1>1, <1>2 DEF TypeOK
<1>4. timer' \in [Target -> Time]
  <2>1. \A t \in S : TimerFor(f[t]) \in Time
    BY <1>2, BoundAssumption DEF TimerFor, OwnershipState, Time, NoTime
  <2>2. QED
    BY <2>1 DEF Transition, TypeOK
<1>5. writes' \in Seq(Write)
  <2>1. PICK order \in SetToSeqs(S) : writes' = writes \o Records(order, f) \o further
    BY DEF Transition
  <2>2. Records(order, f) \in Seq(Write)
    BY <1>2, RecordsType
  <2>3. QED
    BY <2>1, <2>2 DEF TypeOK
<1>6. OwnInv'
  <2>1. ASSUME NEW t \in Target, own'[t].expiry # NoTime
        PROVE  own'[t].ownership = "manual_override"
    BY <1>1, <2>1 DEF Sound, OwnInv
  <2>2. QED
    BY <2>1 DEF OwnInv
<1>7. OwnedIsAllowed'
  <2>1. ASSUME NEW t \in Target, own'[t].ownership = "owned"
        PROVE  enabled' /\ ~own'[t].resume /\ own'[t].expiry = NoTime /\ t \notin baseline'
    <3>1. CASE t \in S
      BY <1>1, <2>1, <3>1 DEF Sound
    <3>2. CASE t \notin S
      BY <1>1, <2>1, <3>2 DEF OwnedIsAllowed
    <3>3. QED
      BY <3>1, <3>2
  <2>2. QED
    BY <2>1 DEF OwnedIsAllowed
<1>8. QED
  BY <1>3, <1>4, <1>5, <1>6, <1>7

LEMMA PlainTransitionSound ==
  ASSUME TypeOK, OwnInv, OwnedIsAllowed, phase # "loaded", phase' = phase,
         NEW S \in SUBSET Target, NEW f, Transition(S, f, <<>>),
         \A t \in S : Sound(t, f[t]),
         enabled' = enabled, baseline' \subseteq baseline
  PROVE  /\ own' \in [Target -> OwnershipState] /\ timer' \in [Target -> Time]
         /\ writes' \in Seq(Write)
         /\ OwnInv' /\ OwnedIsAllowed'
<1>1. <<>> \in Seq(Write)
  OBVIOUS
<1>2. QED
  BY <1>1, TransitionSound

\* Steps that leave ownership alone.
LEMMA OwnKept ==
  ASSUME OwnInv, OwnedIsAllowed, own' = own, enabled' = enabled,
         baseline' \subseteq baseline, phase' = "loaded" => phase = "loaded"
  PROVE  OwnInv' /\ OwnedIsAllowed'
BY DEF OwnInv, OwnedIsAllowed

-----------------------------------------------------------------------------
LEMMA InitInv == Init => IInv
<1> SUFFICES ASSUME Init PROVE IInv
  OBVIOUS
<1>1. StoredState \subseteq OwnershipState
  BY ReconcilingType, OverrideType DEF StoredState
<1>2. mem \in [Target -> OwnershipState]
  BY <1>1 DEF Init
<1>3. own \in [Target -> OwnershipState]
  BY InitialType DEF Init
<1>4. /\ promise \in [Target -> Time] /\ timer \in [Target -> Time]
      /\ now \in Time /\ changes \in 0 .. MaxChanges /\ restarts \in 0 .. MaxRestarts
  BY <1>2, BoundAssumption DEF Init, OwnershipState, Time, NoTime
<1>5. disk \in [state : {"missing", "good", "corrupt"}, records : [Target -> OwnershipState]]
  <2>1. disk = [state |-> "good", records |-> mem] \/ disk = [state |-> "missing", records |-> mem]
    BY DEF Init
  <2>2. QED
    BY <1>2, <2>1
<1>6. TypeOK
  <2>1. gate \in [Target -> {"none", "set", "overridden"}] /\ live \in [Target -> Readiness]
    BY DEF Init, Readiness
  <2>2. writes \in Seq(Write) /\ starting \in Nat /\ kept \subseteq Target
    BY DEF Init
  <2>3. /\ phase \in {"down", "loaded", "running", "unloading"} /\ enabled \in BOOLEAN
        /\ baseline \subseteq Target /\ resuming \subseteq Target /\ requires \in BOOLEAN
    BY DEF Init
  <2>4. QED
    BY <1>2, <1>3, <1>4, <1>5, <2>1, <2>2, <2>3 DEF TypeOK
<1>7. OwnInv /\ OwnedIsAllowed
  BY InitialType DEF Init, OwnInv, OwnedIsAllowed
<1>8. QED
  BY <1>6, <1>7 DEF IInv

\* What the recovery makes of a file is well typed and owned by nobody.
LEMMA RecoveredType ==
  ASSUME TypeOK, NEW corrupt \in BOOLEAN
  PROVE  Recovered(corrupt) \in [Target -> OwnershipState]
<1> DEFINE ask == corrupt \/ StoredGate
<1>1. disk.records \in [Target -> OwnershipState]
  BY DEF TypeOK
<1>2. ask \in BOOLEAN
  BY DEF StoredGate
<1>3. ASSUME NEW t \in Target
      PROVE  /\ [ownership |-> "reconciling", resume |-> ask,
                 expiry |-> IF corrupt THEN NoTime ELSE disk.records[t].expiry] \in OwnershipState
             /\ [disk.records[t] EXCEPT !.resume = FALSE] \in OwnershipState
  <2>1. disk.records[t] \in OwnershipState
    BY <1>1
  <2>2. (IF corrupt THEN NoTime ELSE disk.records[t].expiry) \in Time
    BY <2>1, BoundAssumption DEF OwnershipState, Time, NoTime
  <2>3. [disk.records[t] EXCEPT !.resume = FALSE] \in OwnershipState
    BY <2>1 DEF OwnershipState
  <2>4. QED
    BY <1>2, <2>2, <2>3 DEF OwnershipState, Ownership
<1>4. QED
  BY <1>3 DEF Recovered

LEMMA LoadInv == ASSUME IInv, NEW saved \in BOOLEAN, Load(saved) PROVE IInv'
<1> DEFINE corrupt == disk.state = "corrupt"
           recovered == IF disk.state = "missing"
                          THEN [t \in Target |-> Reconciling(FALSE)]
                          ELSE Recovered(corrupt)
<1> USE DEF IInv
<1>1. recovered \in [Target -> OwnershipState]
  BY RecoveredType, ReconcilingType
<1>2. mem' = recovered /\ disk' = IF saved THEN [state |-> "good", records |-> recovered] ELSE disk
  BY DEF Load
<1>3. mem' \in [Target -> OwnershipState]
  BY <1>1, <1>2
<1>4. disk' \in [state : {"missing", "good", "corrupt"}, records : [Target -> OwnershipState]]
  BY <1>1, <1>2 DEF TypeOK
<1>5. own' = [t \in Target |-> InitialOwnership] /\ own' \in [Target -> OwnershipState]
  BY InitialType DEF Load
<1>6. requires' \in BOOLEAN
  BY DEF Load, StoredGate
<1>7. changes' \in 0 .. MaxChanges /\ restarts' \in 0 .. MaxRestarts
  BY BoundAssumption DEF Load, TypeOK
<1>8. promise' \in [Target -> Time] /\ kept' \subseteq Target
  BY BoundAssumption DEF Load, TypeOK, Time, NoTime
<1>9. gate' \in [Target -> {"none", "set", "overridden"}]
  BY DEF Load, TypeOK
<1>10. TypeOK'
  BY <1>3, <1>4, <1>5, <1>6, <1>7, <1>8, <1>9 DEF Load, TypeOK
<1>11. OwnInv' /\ OwnedIsAllowed'
  BY <1>5, InitialType DEF OwnInv, OwnedIsAllowed
<1>12. QED
  BY <1>10, <1>11

\* Every target that a start has enabled is reconciling or overridden.
LEMMA StartedType ==
  ASSUME TypeOK, NEW t \in Target
  PROVE  /\ Started(t) \in OwnershipState /\ AfterOverrides(t) \in OwnershipState
         /\ Enable(own[t]) \in OwnershipState
         /\ Started(t).ownership # "owned"
         /\ Started(t).expiry # NoTime => Started(t).ownership = "manual_override"
<1>1. Enable(own[t]) \in OwnershipState /\ Enable(own[t]) = Reconciling(FALSE)
  BY ReconcilingType DEF Enable
<1>2. mem[t] \in OwnershipState
  BY DEF TypeOK
<1>3. /\ AfterOverrides(t) \in OwnershipState
      /\ AfterOverrides(t).ownership \in {"manual_override", "reconciling"}
      /\ AfterOverrides(t).expiry # NoTime => AfterOverrides(t).ownership = "manual_override"
  <2>1. CASE RestoredOverride(t)
    <3>1. /\ OverrideExpired(mem[t]) \in OwnershipState
          /\ \/ OverrideExpired(mem[t]) = mem[t]
             \/ /\ OverrideExpired(mem[t]).ownership = "reconciling"
                /\ OverrideExpired(mem[t]).expiry = NoTime
      BY <1>2, OverrideExpiredType
    <3>2. QED
      BY <2>1, <3>1 DEF AfterOverrides, RestoredOverride
  <2>2. CASE ~RestoredOverride(t)
    BY <1>1, <2>2, ReconcilingType DEF AfterOverrides
  <2>3. QED
    BY <2>1, <2>2
<1>4. CASE Gated(t)
  <2>1. Started(t) = [AfterOverrides(t) EXCEPT !.ownership = "reconciling", !.resume = TRUE]
    BY <1>4 DEF Started, UncleanRestart
  <2>2. AfterOverrides(t).expiry = NoTime
    BY <1>3, <1>4 DEF Gated
  <2>3. /\ Started(t) \in OwnershipState
        /\ Started(t).ownership = "reconciling" /\ Started(t).expiry = NoTime
    BY <1>3, <2>1, <2>2, UpdateResume
  <2>4. QED
    BY <1>1, <1>3, <2>3
<1>5. CASE ~Gated(t)
  BY <1>1, <1>3, <1>5 DEF Started
<1>6. QED
  BY <1>4, <1>5

LEMMA AcquireInv == ASSUME IInv, Acquire PROVE IInv'
<1> USE DEF IInv
<1>1. CASE ~enabled
  <2>1. OwnInv' /\ OwnedIsAllowed'
    BY <1>1, InitialType DEF Acquire, OwnInv, OwnedIsAllowed
  <2>2. TypeOK'
    BY <1>1 DEF Acquire, TypeOK, boundVars, history
  <2>3. QED
    BY <2>1, <2>2
<1>2. CASE enabled
  <2>1. /\ own' = [t \in Target |-> Started(t)]
        /\ timer' = [t \in Target |-> TimerFor(Started(t))]
    BY <1>2 DEF Acquire, StartControl
  <2>2. own' \in [Target -> OwnershipState] /\ timer' \in [Target -> Time]
    BY <2>1, StartedType, BoundAssumption DEF TimerFor, OwnershipState, Time, NoTime
  <2>3. writes' \in Seq(Write)
    <3>1. PICK enable \in SetToSeqs(Target),
               restore \in SetToSeqs({t \in Target : RestoredOverride(t)}),
               recover \in SetToSeqs({t \in Target : Gated(t)}) :
            writes' = Records(enable, [t \in Target |-> Enable(own[t])])
                        \o Records(restore, [t \in Target |-> AfterOverrides(t)])
                        \o Records(recover, [t \in Target |-> Started(t)])
      BY <1>2 DEF Acquire, StartControl
    <3>2. Records(enable, [t \in Target |-> Enable(own[t])]) \in Seq(Write)
      BY StartedType, RecordsType
    <3>3. Records(restore, [t \in Target |-> AfterOverrides(t)]) \in Seq(Write)
      <4> DEFINE S == {t \in Target : RestoredOverride(t)}
                 f == [t \in Target |-> AfterOverrides(t)]
      <4>1. \A t \in S : f[t] \in OwnershipState
        BY StartedType
      <4>2. S \in SUBSET Target
        OBVIOUS
      <4> HIDE DEF S, f
      <4>3. ASSUME NEW order \in SetToSeqs(S) PROVE Records(order, f) \in Seq(Write)
        BY <4>1, <4>2, RecordsType
      <4>4. QED
        BY <4>3 DEF S, f
    <3>4. Records(recover, [t \in Target |-> Started(t)]) \in Seq(Write)
      <4> DEFINE S == {t \in Target : Gated(t)}
                 f == [t \in Target |-> Started(t)]
      <4>1. \A t \in S : f[t] \in OwnershipState
        BY StartedType
      <4>2. S \in SUBSET Target
        OBVIOUS
      <4> HIDE DEF S, f
      <4>3. ASSUME NEW order \in SetToSeqs(S) PROVE Records(order, f) \in Seq(Write)
        BY <4>1, <4>2, RecordsType
      <4>4. QED
        BY <4>3 DEF S, f
    <3>5. QED
      BY <3>1, <3>2, <3>3, <3>4
  <2>4. starting' \in Nat
    BY <1>2, <2>3, LenProperties DEF Acquire, StartControl
  <2>5. OwnInv' /\ OwnedIsAllowed'
    BY <2>1, StartedType DEF Acquire, OwnInv, OwnedIsAllowed
  <2>6. TypeOK'
    BY <2>2, <2>3, <2>4 DEF Acquire, TypeOK, boundVars, history
  <2>7. QED
    BY <2>5, <2>6
<1>3. QED
  BY <1>1, <1>2

LEMMA DisturbType == ASSUME TypeOK, Disturb PROVE changes' \in 0 .. MaxChanges
BY BoundAssumption DEF TypeOK, Disturb

\* The states that the single events lead to are sound.
LEMMA ReconcilingSound ==
  ASSUME NEW t \in Target PROVE Sound(t, Reconciling(FALSE)) /\ Sound(t, InitialOwnership)
BY ReconcilingType, InitialType DEF Sound

LEMMA OverrideSound ==
  ASSUME NEW t \in Target, NEW e \in Time PROVE Sound(t, Override(e))
BY OverrideType DEF Sound

LEMMA KeptSound ==
  ASSUME IInv, NEW t \in Target, enabled' = enabled, baseline' \subseteq baseline
  PROVE  /\ Sound(t, own[t])
         /\ Sound(t, OverrideExpired(own[t]))
         /\ own[t].ownership = "owned" =>
              Sound(t, [own[t] EXCEPT !.ownership = "reconciling"])
<1>1. own[t] \in OwnershipState
  BY DEF IInv, TypeOK
<1>2. Sound(t, own[t])
  BY <1>1 DEF IInv, OwnInv, OwnedIsAllowed, Sound
<1>3. Sound(t, OverrideExpired(own[t]))
  BY <1>1, <1>2, OverrideExpiredType DEF Sound
<1>4. ASSUME own[t].ownership = "owned"
      PROVE  Sound(t, [own[t] EXCEPT !.ownership = "reconciling"])
  <2>1. own[t].expiry = NoTime
    BY <1>4 DEF IInv, OwnedIsAllowed
  <2>2. "reconciling" \in Ownership
    BY DEF Ownership
  <2>3. QED
    BY <1>1, <2>1, <2>2, UpdateOwnership DEF Sound
<1>5. QED
  BY <1>2, <1>3, <1>4

LEMMA ExternalTargetInv == ASSUME IInv, NEW t \in Target, ExternalTarget(t) PROVE IInv'
<1> USE DEF IInv
<1> DEFINE f == [u \in {t} |-> ExternalTargetSet(own[u])]
<1>1. now + Duration \in Time
  BY BoundAssumption DEF ExternalTarget, TypeOK, Time
<1>2. \A u \in {t} : Sound(u, f[u])
  BY <1>1, OverrideSound DEF ExternalTargetSet
<1>3. Transition({t}, f, <<>>) /\ {t} \in SUBSET Target
  BY DEF ExternalTarget
<1> HIDE DEF f
<1>4. /\ own' \in [Target -> OwnershipState] /\ timer' \in [Target -> Time]
      /\ writes' \in Seq(Write) /\ OwnInv' /\ OwnedIsAllowed'
  BY <1>2, <1>3, PlainTransitionSound DEF ExternalTarget
<1>5. /\ promise' \in [Target -> Time] /\ kept' \subseteq Target
      /\ gate' \in [Target -> {"none", "set", "overridden"}] /\ baseline' \subseteq Target
  BY <1>1 DEF ExternalTarget, TypeOK
<1>6. changes' \in 0 .. MaxChanges
  BY DisturbType DEF ExternalTarget
<1>7. QED
  BY <1>4, <1>5, <1>6 DEF ExternalTarget, TypeOK

LEMMA FirstObservationInv == ASSUME IInv, NEW t \in Target, FirstObservation(t) PROVE IInv'
<1> USE DEF IInv, FirstObservation, storeVars, boundVars, history
<1>1. OwnInv' /\ OwnedIsAllowed'
  BY OwnKept
<1>2. TypeOK'
  BY DEF TypeOK
<1>3. QED
  BY <1>1, <1>2

LEMMA ClimateChangeInv ==
  ASSUME IInv, NEW t \in Target, NEW ready \in Readiness, ClimateChange(t, ready)
  PROVE  IInv'
<1> USE DEF IInv
<1>1. live' \in [Target -> Readiness] /\ changes' \in 0 .. MaxChanges
  BY DisturbType DEF ClimateChange, TypeOK
<1>2. CASE phase = "running"
  <2> DEFINE f == [u \in {t} |-> Seen(u, ready)]
  <2>1. \A u \in {t} : Sound(u, f[u])
    BY KeptSound DEF ClimateChange, Seen, Unavailable, Returned, HvacMode
  <2>2. Transition({t}, f, <<>>) /\ {t} \in SUBSET Target
    BY <1>2 DEF ClimateChange
  <2> HIDE DEF f
  <2>3. /\ own' \in [Target -> OwnershipState] /\ timer' \in [Target -> Time]
        /\ writes' \in Seq(Write) /\ OwnInv' /\ OwnedIsAllowed'
    BY <1>2, <2>1, <2>2, PlainTransitionSound DEF ClimateChange
  <2>4. QED
    BY <1>1, <2>3 DEF ClimateChange, TypeOK, history
<1>3. CASE phase # "running"
  <2>1. OwnInv' /\ OwnedIsAllowed'
    BY <1>3, OwnKept DEF ClimateChange
  <2>2. QED
    BY <1>1, <1>3, <2>1 DEF ClimateChange, TypeOK, history
<1>4. QED
  BY <1>2, <1>3

LEMMA CalculationInv ==
  ASSUME IInv, NEW verdict \in [Target -> {"ready", "held", "unusable"}], Calculation(verdict)
  PROVE  IInv'
<1> USE DEF IInv
<1> DEFINE S == Reconcilable(verdict)
           f == [t \in S |-> Reconciled(own[t], verdict[t] = "ready")]
<1>1. \A t \in S : Sound(t, f[t])
  <2> SUFFICES ASSUME NEW t \in S PROVE Sound(t, f[t])
    OBVIOUS
  <2>1. /\ t \in Target /\ enabled /\ own[t].ownership = "reconciling" /\ ~own[t].resume
        /\ t \notin baseline
    BY DEF Reconcilable
  <2>2. own[t] \in OwnershipState /\ own[t].expiry = NoTime
    BY <2>1 DEF TypeOK, OwnInv
  <2>3. enabled' /\ t \notin baseline'
    BY <2>1 DEF Calculation
  <2>4. "owned" \in Ownership
    BY DEF Ownership
  <2>5. Sound(t, [own[t] EXCEPT !.ownership = "owned"])
    BY <2>1, <2>2, <2>3, <2>4, UpdateOwnership DEF Sound
  <2>6. Sound(t, own[t])
    BY <2>1, <2>2 DEF Sound
  <2>7. QED
    BY <2>5, <2>6 DEF Reconciled
<1>2. Transition(S, f, <<>>) /\ S \in SUBSET Target
  BY DEF Calculation, Reconcilable
<1>3. changes' \in 0 .. MaxChanges
  BY DisturbType DEF Calculation, TypeOK
<1> HIDE DEF S, f
<1>4. /\ own' \in [Target -> OwnershipState] /\ timer' \in [Target -> Time]
      /\ writes' \in Seq(Write) /\ OwnInv' /\ OwnedIsAllowed'
  BY <1>1, <1>2, PlainTransitionSound DEF Calculation
<1>5. QED
  BY <1>3, <1>4 DEF Calculation, TypeOK, history

LEMMA ExpiryTimerInv == ASSUME IInv, NEW t \in Target, ExpiryTimer(t) PROVE IInv'
<1> USE DEF IInv
<1> DEFINE f == [u \in {t} |-> OverrideExpired(own[u])]
<1>1. \A u \in {t} : Sound(u, f[u])
  BY KeptSound DEF ExpiryTimer
<1>2. Transition({t}, f, <<>>) /\ {t} \in SUBSET Target
  BY DEF ExpiryTimer
<1> HIDE DEF f
<1>3. /\ own' \in [Target -> OwnershipState] /\ timer' \in [Target -> Time]
      /\ writes' \in Seq(Write) /\ OwnInv' /\ OwnedIsAllowed'
  BY <1>1, <1>2, PlainTransitionSound DEF ExpiryTimer
<1>4. QED
  BY <1>3 DEF ExpiryTimer, TypeOK, boundVars, history

LEMMA ResumeTargetInv == ASSUME IInv, NEW t \in Target, ResumeTarget(t) PROVE IInv'
<1> USE DEF IInv
<1> DEFINE f == [u \in {t} |-> Resume(own[u])]
           further == IF resuming = {t} THEN <<NoRecord>> ELSE <<>>
<1>1. \A u \in {t} : Sound(u, f[u])
  BY ReconcilingSound DEF Resume
<1>2. Transition({t}, f, further) /\ further \in Seq(Write)
  BY NoRecordType DEF ResumeTarget
<1>3. phase # "loaded"
  BY DEF ResumeTarget
<1> HIDE DEF f, further
<1>4. /\ own' \in [Target -> OwnershipState] /\ timer' \in [Target -> Time]
      /\ writes' \in Seq(Write) /\ OwnInv' /\ OwnedIsAllowed'
  BY <1>1, <1>2, <1>3, TransitionSound DEF ResumeTarget
<1>5. promise' \in [Target -> Time] /\ gate' \in [Target -> {"none", "set", "overridden"}]
  BY BoundAssumption DEF ResumeTarget, TypeOK, Time, NoTime
<1>6. QED
  BY <1>4, <1>5 DEF ResumeTarget, TypeOK, boundVars

LEMMA SetControlEnabledInv == ASSUME IInv, SetControlEnabled PROVE IInv'
<1> USE DEF IInv
<1> DEFINE f == [t \in Target |-> IF enabled THEN Disable(own[t]) ELSE Enable(own[t])]
<1>1. \A t \in Target : Sound(t, f[t])
  BY ReconcilingSound DEF Disable, Enable
<1>2. Transition(Target, f, <<NoRecord>>) /\ <<NoRecord>> \in Seq(Write)
  BY NoRecordType DEF SetControlEnabled
<1> HIDE DEF f
<1>3. /\ own' \in [Target -> OwnershipState] /\ timer' \in [Target -> Time]
      /\ writes' \in Seq(Write) /\ OwnInv' /\ OwnedIsAllowed'
  BY <1>1, <1>2, TransitionSound DEF SetControlEnabled
<1>4. /\ promise' \in [Target -> Time] /\ kept' \subseteq Target
      /\ gate' \in [Target -> {"none", "set", "overridden"}]
  BY BoundAssumption DEF SetControlEnabled, Time, NoTime
<1>5. changes' \in 0 .. MaxChanges /\ enabled' \in BOOLEAN
  BY DisturbType DEF SetControlEnabled
<1>6. QED
  BY <1>3, <1>4, <1>5 DEF SetControlEnabled, TypeOK

-----------------------------------------------------------------------------
LEMMA SaveType ==
  ASSUME TypeOK, NEW records \in [Target -> OwnershipState], Save(records)
  PROVE  /\ disk' \in [state : {"missing", "good", "corrupt"},
                        records : [Target -> OwnershipState]]
         /\ kept' \subseteq Target
<1>1. disk' = [state |-> "good", records |-> records]
  BY DEF Save
<1>2. kept' \subseteq Target
  BY DEF Save, OverrideOn, TypeOK
<1>3. QED
  BY <1>1, <1>2

LEMMA TailType == ASSUME NEW s \in Seq(Write), s # <<>>
                  PROVE  Head(s) \in Write /\ Tail(s) \in Seq(Write)
BY HeadTailProperties

LEMMA WriteDoneInv == ASSUME IInv, NEW saved \in BOOLEAN, WriteDone(saved) PROVE IInv'
<1> USE DEF IInv
<1>1. mem' \in [Target -> OwnershipState] /\ writes' \in Seq(Write)
  BY TailType, MergedType DEF WriteDone, TypeOK
<1>2. /\ disk' \in [state : {"missing", "good", "corrupt"}, records : [Target -> OwnershipState]]
      /\ kept' \subseteq Target /\ changes' \in 0 .. MaxChanges
  <2>1. CASE saved
    BY <1>1, <2>1, SaveType DEF WriteDone, TypeOK
  <2>2. CASE ~saved
    BY <2>2, DisturbType DEF WriteDone, TypeOK
  <2>3. QED
    BY <2>1, <2>2
<1>3. starting' \in Nat
  BY DEF WriteDone, TypeOK
<1>4. OwnInv' /\ OwnedIsAllowed'
  BY OwnKept DEF WriteDone, runtimeVars
<1>5. QED
  BY <1>1, <1>2, <1>3, <1>4 DEF WriteDone, TypeOK, runtimeVars

LEMMA DownType ==
  ASSUME TypeOK, Down, NEW overrides
  PROVE  /\ phase' = "down" /\ resuming' \subseteq Target /\ baseline' = {}
         /\ writes' \in Seq(Write) /\ starting' \in Nat
         /\ timer' \in [Target -> Time]
         /\ Remaining(overrides) \in [Target -> Time]
<1>1. NoTime \in Time
  BY BoundAssumption DEF NoTime, Time
<1>2. timer' \in [Target -> Time] /\ Remaining(overrides) \in [Target -> Time]
  BY <1>1 DEF Down, Remaining, TypeOK
<1>3. writes' \in Seq(Write) /\ starting' \in Nat
  BY DEF Down
<1>4. QED
  BY <1>2, <1>3 DEF Down

LEMMA MarkCleanInv == ASSUME IInv, NEW saved \in BOOLEAN, MarkClean(saved) PROVE IInv'
<1> USE DEF IInv
<1>1. Down
  BY DEF MarkClean
<1>2. /\ disk' \in [state : {"missing", "good", "corrupt"}, records : [Target -> OwnershipState]]
      /\ kept' \subseteq Target
  <2>1. mem \in [Target -> OwnershipState]
    BY DEF TypeOK
  <2>2. CASE saved
    BY <2>1, <2>2, SaveType DEF MarkClean
  <2>3. CASE ~saved
    BY <2>3 DEF MarkClean, TypeOK
  <2>4. QED
    BY <2>2, <2>3
<1>3. promise' \in [Target -> Time]
  BY <1>1, DownType DEF MarkClean
<1>4. OwnInv' /\ OwnedIsAllowed'
  BY <1>1, DownType, OwnKept DEF MarkClean
<1>5. TypeOK'
  BY <1>1, <1>2, <1>3, DownType DEF MarkClean, TypeOK, boundVars
<1>6. QED
  BY <1>4, <1>5

LEMMA CrashInv == ASSUME IInv, Crash PROVE IInv'
<1> USE DEF IInv
<1>1. Down /\ changes' \in 0 .. MaxChanges
  BY DisturbType DEF Crash
<1>2. promise' \in [Target -> Time]
  BY <1>1, DownType DEF Crash
<1>3. OwnInv' /\ OwnedIsAllowed'
  BY <1>1, DownType, OwnKept DEF Crash
<1>4. TypeOK'
  BY <1>1, <1>2, DownType DEF Crash, TypeOK
<1>5. QED
  BY <1>3, <1>4

\* Steps of the store, the user and the clock that touch no ownership state.
LEMMA StoreInv ==
  ASSUME IInv, OtherWrite \/ Unload \/ CancelWrites \/ Corrupt \/ PressResume \/ Tick
  PROVE  IInv'
<1> USE DEF IInv
<1>1. /\ own' = own /\ enabled' = enabled /\ baseline' = baseline
      /\ phase' = "loaded" => phase = "loaded"
  BY DEF OtherWrite, Unload, CancelWrites, Corrupt, PressResume, Tick, runtimeVars
<1>2. OwnInv' /\ OwnedIsAllowed'
  BY <1>1, OwnKept
<1>3. CASE OtherWrite
  <2>1. writes' \in Seq(Write)
    BY <1>3, NoRecordType DEF OtherWrite, TypeOK
  <2>2. QED
    BY <1>2, <1>3, <2>1, DisturbType DEF OtherWrite, TypeOK, runtimeVars, history
<1>4. CASE Unload
  <2>1. timer' \in [Target -> Time]
    BY <1>4, BoundAssumption DEF Unload, NoTime, Time
  <2>2. QED
    BY <1>2, <1>4, <2>1, DisturbType DEF Unload, TypeOK, storeVars, history
<1>5. CASE CancelWrites
  <2>1. mem' \in [Target -> OwnershipState]
    BY <1>5, TailType, MergedType DEF CancelWrites, TypeOK
  <2>2. writes' \in Seq(Write) /\ starting' \in Nat
    BY <1>5 DEF CancelWrites
  <2>3. QED
    BY <1>2, <1>5, <2>1, <2>2, DisturbType DEF CancelWrites, TypeOK, runtimeVars, history
<1>6. CASE Corrupt
  <2>1. disk' \in [state : {"missing", "good", "corrupt"}, records : [Target -> OwnershipState]]
    BY <1>6 DEF Corrupt, TypeOK
  <2>2. QED
    BY <1>2, <1>6, <2>1, DisturbType DEF Corrupt, TypeOK, runtimeVars, history
<1>7. CASE PressResume
  BY <1>2, <1>7, DisturbType DEF PressResume, TypeOK, storeVars, history
<1>8. CASE Tick
  <2>1. now' \in Time
    BY <1>8, BoundAssumption DEF Tick, TypeOK, Time
  <2>2. QED
    BY <1>2, <1>8, <2>1 DEF Tick, TypeOK, runtimeVars, storeVars, history
<1>9. QED
  BY <1>3, <1>4, <1>5, <1>6, <1>7, <1>8

LEMMA NextInv == IInv /\ [Next]_vars => IInv'
<1> SUFFICES ASSUME IInv, [Next]_vars PROVE IInv'
  OBVIOUS
<1>1. ASSUME NEW saved \in BOOLEAN, Load(saved) \/ WriteDone(saved) \/ MarkClean(saved)
      PROVE  IInv'
  BY <1>1, LoadInv, WriteDoneInv, MarkCleanInv
<1>2. ASSUME NEW t \in Target,
             ExternalTarget(t) \/ FirstObservation(t) \/ ExpiryTimer(t) \/ ResumeTarget(t)
      PROVE  IInv'
  BY <1>2, ExternalTargetInv, FirstObservationInv, ExpiryTimerInv, ResumeTargetInv
<1>3. ASSUME NEW t \in Target, NEW ready \in Readiness, ClimateChange(t, ready)
      PROVE  IInv'
  BY <1>3, ClimateChangeInv
<1>4. ASSUME NEW verdict \in [Target -> {"ready", "held", "unusable"}], Calculation(verdict)
      PROVE  IInv'
  BY <1>4, CalculationInv
<1>5. CASE Acquire
  BY <1>5, AcquireInv
<1>6. CASE SetControlEnabled
  BY <1>6, SetControlEnabledInv
<1>7. CASE OtherWrite \/ Unload \/ CancelWrites \/ Corrupt \/ PressResume \/ Tick
  BY <1>7, StoreInv
<1>8. CASE Crash
  BY <1>8, CrashInv
<1>9. CASE UNCHANGED vars
  BY <1>9 DEF vars, runtimeVars, storeVars, boundVars, history, IInv, TypeOK, OwnInv, OwnedIsAllowed
<1>10. QED
  BY <1>1, <1>2, <1>3, <1>4, <1>5, <1>6, <1>7, <1>8, <1>9 DEF Next

\* Every reachable state satisfies the inductive invariant.
THEOREM InvariantHolds == Spec => []IInv
BY InitInv, NextInv, PTL DEF Spec

\* The variables keep their types, the queue of store writes included.
THEOREM TypeCorrect == Spec => []TypeOK
<1>1. IInv => TypeOK
  BY DEF IInv
<1>2. QED
  BY <1>1, InvariantHolds, PTL

\* A target is owned only with control enabled, no gate, no override left in
\* its state and its first setpoint observed, through every order of user
\* actions, transitions, failed writes, crashes and restarts.
THEOREM OwnedOnlyWhenAllowed == Spec => []OwnedIsAllowed
<1>1. IInv => OwnedIsAllowed
  BY DEF IInv
<1>2. QED
  BY <1>1, InvariantHolds, PTL

-----------------------------------------------------------------------------
(* Which record a target has once the first n of the writes q are done.        *)
Leaves(t, V, q, n, records) ==
  \/ \E i \in 1 .. n : /\ t \in DOMAIN q[i] /\ q[i][t] \in V
                       /\ \A k \in 1 .. n : k > i => t \notin DOMAIN q[k]
  \/ (\A k \in 1 .. n : t \notin DOMAIN q[k]) /\ records[t] \in V

\* Writes are queued only while the zone runs or unloads; those of the start come first.
PhaseInv ==
  /\ phase \in {"down", "loaded"} => writes = <<>> /\ starting = 0
  /\ starting <= Len(writes)

\* Once the queue is empty, the record of a target that is not disabled is its state.
RecInv ==
  phase = "running" => \A t \in Target :
    own[t].ownership = "disabled" \/ Leaves(t, {own[t]}, writes, Len(writes), mem)

\* Whatever stops the zone, the next start finds a record of t in V: the writes that follow
\* those of the start, the last of the start, and the file all have it.
Secured(t, V) ==
  /\ \A k \in DOMAIN writes : k > starting /\ t \in DOMAIN writes[k] => writes[k][t] \in V
  /\ phase # "down" => Leaves(t, V, writes, starting, mem)
  /\ \/ disk.state = "corrupt"
     \/ disk.state = "good" /\ disk.records[t] \in V
     \/ \E k \in 1 .. starting : t \in DOMAIN writes[k]

\* The records that make a start set the gate, and those that bring back an override.
Asking == {o \in OwnershipState : o.ownership = "reconciling" /\ o.resume}
Overriding(until) ==
  {o \in OwnershipState : o.ownership = "manual_override" /\ o.expiry = until}

\* While the gate of a target is set every record it may start from asks for Resume.
GateInv ==
  \A t \in Target : gate[t] = "set" =>
    /\ own[t].ownership # "owned"
    /\ enabled => /\ Secured(t, Asking)
                  /\ phase = "running" => own[t] \in Asking
                  /\ phase = "loaded" => requires

\* While an override is to hold it is the state of a running zone, and once it has been
\* saved every record the target may start from has it.
PromiseInv ==
  \A t \in Target, v \in Time : v = promise[t] /\ enabled /\ now < v =>
    /\ t \in kept => Secured(t, Overriding(v))
    /\ phase = "running" => own[t] \in Overriding(v)
    /\ phase \in {"down", "loaded"} => t \in kept

-----------------------------------------------------------------------------
LEMMA LeavesNone ==
  ASSUME NEW t, NEW V, NEW q, NEW records
  PROVE  Leaves(t, V, q, 0, records) <=> records[t] \in V
BY DEF Leaves

\* The first write is done.
LEMMA LeavesStep ==
  ASSUME NEW t \in Target, NEW V, NEW q \in Seq(Write), q # <<>>, NEW n \in 1 .. Len(q),
         NEW records, Leaves(t, V, q, n, records)
  PROVE  Leaves(t, V, Tail(q), n - 1, Merged(Head(q), records))
<1> DEFINE r == Tail(q)
           m == Merged(Head(q), records)
<1>1. /\ Head(q) = q[1] /\ Len(q) \in Nat /\ n \in Nat /\ 1 \in 1 .. n
      /\ \A k \in 1 .. n - 1 : r[k] = q[k + 1] /\ k + 1 \in 1 .. n
      /\ \A k \in 1 .. n : k # 1 => k - 1 \in 1 .. n - 1
  <2>1. Head(q) = q[1] /\ Len(q) \in Nat /\ n \in Nat /\ 1 \in 1 .. n
    OBVIOUS
  <2>2. \A k \in 1 .. Len(q) - 1 : Tail(q)[k] = q[k + 1]
    OBVIOUS
  <2>3. \A k \in 1 .. n - 1 : k \in 1 .. Len(q) - 1 /\ k + 1 \in 1 .. n
    OBVIOUS
  <2> QED BY <2>1, <2>2, <2>3
<1>2. m[t] = IF t \in DOMAIN q[1] THEN q[1][t] ELSE records[t]
  BY <1>1 DEF Merged
<1> HIDE DEF r, m
<1> SUFFICES Leaves(t, V, r, n - 1, m)
  BY DEF r, m
<1>3. CASE \A k \in 1 .. n : t \notin DOMAIN q[k]
  BY <1>1, <1>2, <1>3 DEF Leaves
<1>4. ASSUME NEW i \in 1 .. n, t \in DOMAIN q[i], q[i][t] \in V,
             \A k \in 1 .. n : k > i => t \notin DOMAIN q[k]
      PROVE  Leaves(t, V, r, n - 1, m)
  <2>1. CASE i = 1
    <3>1. \A k \in 1 .. n - 1 : t \notin DOMAIN r[k]
      BY <1>1, <1>4, <2>1
    <3> QED BY <1>2, <1>4, <2>1, <3>1 DEF Leaves
  <2>2. CASE i # 1
    <3>1. i - 1 \in 1 .. n - 1 /\ r[i - 1] = q[i]
      BY <1>1, <2>2
    <3>2. \A k \in 1 .. n - 1 : k > i - 1 => t \notin DOMAIN r[k]
      BY <1>1, <1>4
    <3> QED BY <1>4, <3>1, <3>2 DEF Leaves
  <2> QED BY <2>1, <2>2
<1> QED BY <1>3, <1>4 DEF Leaves

\* Writes that follow the first n do not matter to them.
LEMMA LeavesPrefix ==
  ASSUME NEW t, NEW V, NEW q \in Seq(Write), NEW r \in Seq(Write), NEW n \in 0 .. Len(q),
         NEW records
  PROVE  Leaves(t, V, q \o r, n, records) <=> Leaves(t, V, q, n, records)
<1>1. \A k \in 1 .. n : (q \o r)[k] = q[k]
  OBVIOUS
<1> QED BY <1>1 DEF Leaves

\* Writes that do not touch the target leave its record alone; others decide it.
LEMMA LeavesAppended ==
  ASSUME NEW t, NEW V, NEW q \in Seq(Write), NEW r \in Seq(Write), NEW records, NEW old,
         \/ Leaves(t, V, q, Len(q), records) /\ \A k \in 1 .. Len(r) : t \notin DOMAIN r[k]
         \/ /\ Leaves(t, V, r, Len(r), old)
            /\ \E k \in 1 .. Len(r) : t \in DOMAIN r[k]
  PROVE  Leaves(t, V, q \o r, Len(q \o r), records)
<1> DEFINE s == q \o r
<1>1. /\ Len(s) = Len(q) + Len(r) /\ Len(q) \in Nat /\ Len(r) \in Nat
      /\ \A k \in 1 .. Len(q) : s[k] = q[k]
      /\ \A k \in 1 .. Len(r) : s[Len(q) + k] = r[k]
  BY ConcatProperties
<1> HIDE DEF s
<1> SUFFICES Leaves(t, V, s, Len(s), records)
  BY DEF s
<1>2. ASSUME NEW k \in 1 .. Len(s)
      PROVE  \/ k \in 1 .. Len(q) /\ s[k] = q[k]
             \/ k > Len(q) /\ \E l \in 1 .. Len(r) : k = Len(q) + l /\ s[k] = r[l]
  <2>1. CASE k <= Len(q)
    BY <1>1, <2>1
  <2>2. CASE ~(k <= Len(q))
    <3>1. k - Len(q) \in 1 .. Len(r) /\ k = Len(q) + (k - Len(q)) /\ k > Len(q)
      BY <1>1, <2>2
    <3>2. s[k] = r[k - Len(q)]
      BY <1>1, <3>1
    <3> QED BY <3>1, <3>2
  <2> QED BY <2>1, <2>2
<1>3. CASE Leaves(t, V, q, Len(q), records) /\ \A k \in 1 .. Len(r) : t \notin DOMAIN r[k]
  <2>1. ASSUME NEW k \in 1 .. Len(s), k > Len(q) PROVE t \notin DOMAIN s[k]
    <3>1. k \notin 1 .. Len(q)
      BY <1>1, <2>1
    <3>2. PICK l \in 1 .. Len(r) : s[k] = r[l]
      BY <1>2, <3>1
    <3> QED BY <1>3, <3>2
  <2>2. CASE (\A k \in 1 .. Len(q) : t \notin DOMAIN q[k]) /\ records[t] \in V
    BY <1>1, <1>2, <2>1, <2>2 DEF Leaves
  <2>3. ASSUME NEW i \in 1 .. Len(q), t \in DOMAIN q[i], q[i][t] \in V,
               \A k \in 1 .. Len(q) : k > i => t \notin DOMAIN q[k]
        PROVE  Leaves(t, V, s, Len(s), records)
    <3>1. i \in 1 .. Len(s) /\ s[i] = q[i]
      BY <1>1
    <3>2. ASSUME NEW k \in 1 .. Len(s), k > i PROVE t \notin DOMAIN s[k]
      <4>1. CASE k \in 1 .. Len(q) /\ s[k] = q[k]
        BY <2>3, <3>2, <4>1
      <4>2. CASE k > Len(q)
        BY <2>1, <4>2
      <4> QED BY <1>2, <4>1, <4>2
    <3> QED BY <2>3, <3>1, <3>2 DEF Leaves
  <2> QED BY <1>3, <2>2, <2>3 DEF Leaves
<1>4. CASE Leaves(t, V, r, Len(r), old) /\ \E k \in 1 .. Len(r) : t \in DOMAIN r[k]
  <2>1. PICK i \in 1 .. Len(r) : /\ t \in DOMAIN r[i] /\ r[i][t] \in V
                                 /\ \A k \in 1 .. Len(r) : k > i => t \notin DOMAIN r[k]
    BY <1>4 DEF Leaves
  <2>2. Len(q) + i \in 1 .. Len(s) /\ s[Len(q) + i] = r[i]
    BY <1>1
  <2>3. ASSUME NEW k \in 1 .. Len(s), k > Len(q) + i PROVE t \notin DOMAIN s[k]
    <3>1. k \notin 1 .. Len(q)
      BY <1>1, <2>3
    <3>2. PICK l \in 1 .. Len(r) : k = Len(q) + l /\ s[k] = r[l]
      BY <1>2, <3>1
    <3>3. l > i
      BY <1>1, <2>3, <3>2
    <3> QED BY <2>1, <3>2, <3>3
  <2> QED BY <2>1, <2>2, <2>3 DEF Leaves
<1> QED BY <1>3, <1>4

\* One pass over the targets S writes the record of each of them once.
LEMMA PassWrites ==
  ASSUME NEW S \in SUBSET Target, NEW order \in SetToSeqs(S), NEW f, NEW t \in Target
  PROVE  LET r == Records(order, f)
         IN  /\ \A k \in 1 .. Len(r) : t \in DOMAIN r[k] => t \in S /\ r[k][t] = f[t]
             /\ t \in S => \E k \in 1 .. Len(r) : t \in DOMAIN r[k]
             /\ t \in S => \A old : Leaves(t, {f[t]}, r, Len(r), old)
<1> DEFINE n == Cardinality(S)
           r == Records(order, f)
<1>1. IsFiniteSet(S) /\ n \in Nat
  BY TargetAssumption, FS_Subset, FS_CardinalityType
<1>2. order \in [1 .. n -> S] /\ \A i, j \in 1 .. n : i # j => order[i] # order[j]
  BY DEF SetToSeqs
<1>3. \A u \in S : \E i \in 1 .. n : order[i] = u
  <2>1. order \in Injection(1 .. n, S)
    BY <1>2 DEF Injection, IsInjective
  <2>2. IsFiniteSet(1 .. n) /\ Cardinality(1 .. n) = n
    BY <1>1, FS_Interval
  <2>3. order \in Surjection(1 .. n, S)
    BY <1>1, <2>1, <2>2, FS_Injection
  <2> QED BY <2>3 DEF Surjection
<1>4. /\ r = [i \in 1 .. n |-> [u \in {order[i]} |-> f[u]]]
      /\ Len(r) = n
  <2>1. DOMAIN order = 1 .. n
    BY <1>2
  <2>2. r = [i \in 1 .. n |-> [u \in {order[i]} |-> f[u]]]
    BY <2>1 DEF Records
  <2> QED BY <1>1, <2>2, LenProperties
<1> HIDE DEF n, r
<1>5. \A k \in 1 .. n : DOMAIN r[k] = {order[k]} /\ r[k][order[k]] = f[order[k]]
  BY <1>4
<1>6. \A k \in 1 .. n : t \in DOMAIN r[k] => t \in S /\ r[k][t] = f[t]
  BY <1>2, <1>5
<1>7. ASSUME t \in S
      PROVE  /\ \E k \in 1 .. n : t \in DOMAIN r[k]
             /\ \A old : Leaves(t, {f[t]}, r, n, old)
  <2>1. PICK i \in 1 .. n : order[i] = t
    BY <1>3, <1>7
  <2>2. t \in DOMAIN r[i] /\ r[i][t] = f[t]
    BY <1>5, <2>1
  <2>3. \A k \in 1 .. n : k # i => t \notin DOMAIN r[k]
    BY <1>2, <1>5, <2>1
  <2>4. \A k \in 1 .. n : k > i => t \notin DOMAIN r[k]
    BY <1>1, <2>3
  <2> QED BY <2>2, <2>4 DEF Leaves
<1> QED BY <1>4, <1>6, <1>7 DEF r

-----------------------------------------------------------------------------
(* Steps that queue writes                                                     *)

\* What a transition queues.
LEMMA TransitionWrites ==
  ASSUME TypeOK, NEW S \in SUBSET Target, NEW f, \A u \in S : f[u] \in OwnershipState,
         NEW further \in Seq(Write), \A k \in 1 .. Len(further) : DOMAIN further[k] = {},
         Transition(S, f, further)
  PROVE  \E r \in Seq(Write) :
           /\ writes' = writes \o r
           /\ \A t \in Target :
                /\ \A k \in 1 .. Len(r) : t \in DOMAIN r[k] => t \in S /\ r[k][t] = f[t]
                /\ t \in S => \E k \in 1 .. Len(r) : t \in DOMAIN r[k]
                /\ t \in S => \A old : Leaves(t, {f[t]}, r, Len(r), old)
<1>1. PICK order \in SetToSeqs(S) : writes' = writes \o Records(order, f) \o further
  BY DEF Transition
<1> DEFINE q == Records(order, f)
           r == q \o further
<1>2. q \in Seq(Write)
  BY RecordsType
<1>3. ASSUME NEW t \in Target
      PROVE  /\ \A k \in 1 .. Len(q) : t \in DOMAIN q[k] => t \in S /\ q[k][t] = f[t]
             /\ t \in S => \E k \in 1 .. Len(q) : t \in DOMAIN q[k]
             /\ t \in S => \A old : Leaves(t, {f[t]}, q, Len(q), old)
  BY PassWrites
<1> HIDE DEF q
<1>5. /\ r \in Seq(Write) /\ Len(r) = Len(q) + Len(further)
      /\ Len(q) \in Nat /\ Len(further) \in Nat
      /\ \A k \in 1 .. Len(q) : r[k] = q[k]
      /\ \A k \in 1 .. Len(further) : r[Len(q) + k] = further[k]
  BY <1>2, ConcatProperties
<1>6. writes' = writes \o r
  BY <1>1, <1>2, ConcatAssociative DEF TypeOK, q
<1>7. ASSUME NEW t \in Target
      PROVE  /\ \A k \in 1 .. Len(r) : t \in DOMAIN r[k] => t \in S /\ r[k][t] = f[t]
             /\ t \in S => \E k \in 1 .. Len(r) : t \in DOMAIN r[k]
             /\ t \in S => \A old : Leaves(t, {f[t]}, r, Len(r), old)
  <2>1. ASSUME NEW k \in 1 .. Len(r), t \in DOMAIN r[k] PROVE t \in S /\ r[k][t] = f[t]
    <3>1. CASE k \in 1 .. Len(q)
      BY <1>3, <1>5, <2>1, <3>1
    <3>2. CASE k \notin 1 .. Len(q)
      <4>1. k - Len(q) \in 1 .. Len(further) /\ k = Len(q) + (k - Len(q))
        BY <1>5, <3>2
      <4>2. r[k] = further[k - Len(q)]
        BY <1>5, <4>1
      <4> QED BY <2>1, <4>1, <4>2
    <3> QED BY <3>1, <3>2
  <2>2. t \in S => \E k \in 1 .. Len(r) : t \in DOMAIN r[k]
    <3> SUFFICES ASSUME t \in S PROVE \E k \in 1 .. Len(r) : t \in DOMAIN r[k]
      OBVIOUS
    <3>1. PICK k \in 1 .. Len(q) : t \in DOMAIN q[k]
      BY <1>3
    <3>2. k \in 1 .. Len(r) /\ r[k] = q[k]
      BY <1>5
    <3> QED BY <3>1, <3>2
  <2>3. ASSUME t \in S, NEW old PROVE Leaves(t, {f[t]}, r, Len(r), old)
    <3>1. Leaves(t, {f[t]}, q, Len(q), old)
      BY <1>3, <2>3
    <3>2. \A k \in 1 .. Len(further) : t \notin DOMAIN further[k]
      OBVIOUS
    <3> QED BY <1>2, <3>1, <3>2, LeavesAppended
  <2> QED BY <2>1, <2>2, <2>3
<1> QED BY <1>5, <1>6, <1>7

LEMMA TransitionRecords ==
  ASSUME IInv, RecInv, phase = "running", mem' = mem,
         NEW S \in SUBSET Target, NEW f, \A u \in S : f[u] \in OwnershipState,
         NEW further \in Seq(Write), \A k \in 1 .. Len(further) : DOMAIN further[k] = {},
         Transition(S, f, further)
  PROVE  RecInv'
<1>1. PICK r \in Seq(Write) :
        /\ writes' = writes \o r
        /\ \A t \in Target :
             /\ \A k \in 1 .. Len(r) : t \in DOMAIN r[k] => t \in S /\ r[k][t] = f[t]
             /\ t \in S => \E k \in 1 .. Len(r) : t \in DOMAIN r[k]
             /\ t \in S => \A old : Leaves(t, {f[t]}, r, Len(r), old)
  <2>1. TypeOK
    BY DEF IInv
  <2> QED BY <2>1, TransitionWrites
<1>2. writes \in Seq(Write) /\ \A t \in Target : own'[t] = IF t \in S THEN f[t] ELSE own[t]
  <2>1. own' = [t \in Target |-> IF t \in S THEN f[t] ELSE own[t]]
    BY DEF Transition
  <2>2. writes \in Seq(Write)
    BY DEF IInv, TypeOK
  <2> QED BY <2>1, <2>2
<1>3. ASSUME NEW t \in Target, own'[t].ownership # "disabled"
      PROVE  Leaves(t, {own'[t]}, writes', Len(writes'), mem')
  <2>1. CASE t \in S
    <3>1. Leaves(t, {f[t]}, r, Len(r), mem) /\ \E k \in 1 .. Len(r) : t \in DOMAIN r[k]
      BY <1>1, <2>1
    <3>2. Leaves(t, {f[t]}, writes \o r, Len(writes \o r), mem)
      BY <1>2, <3>1, LeavesAppended
    <3> QED BY <1>1, <1>2, <2>1, <3>2
  <2>2. CASE t \notin S
    <3>1. own'[t] = own[t] /\ Leaves(t, {own[t]}, writes, Len(writes), mem)
      BY <1>2, <1>3, <2>2 DEF RecInv
    <3>2. \A k \in 1 .. Len(r) : t \notin DOMAIN r[k]
      BY <1>1, <2>2
    <3>3. Leaves(t, {own[t]}, writes \o r, Len(writes \o r), mem)
      BY <1>2, <3>1, <3>2, LeavesAppended
    <3> QED BY <1>1, <3>1, <3>3
  <2> QED BY <2>1, <2>2
<1> QED BY <1>3 DEF RecInv

LEMMA GrowSecured ==
  ASSUME TypeOK, PhaseInv, NEW t, NEW V, Secured(t, V), NEW r \in Seq(Write),
         writes' = writes \o r,
         \A k \in 1 .. Len(r) : t \in DOMAIN r[k] => r[k][t] \in V,
         UNCHANGED <<starting, mem, disk, phase>>
  PROVE  Secured(t, V)'
<1>1. /\ writes \in Seq(Write) /\ starting \in 0 .. Len(writes)
      /\ Len(writes') = Len(writes) + Len(r) /\ Len(writes) \in Nat /\ Len(r) \in Nat
      /\ DOMAIN writes' = 1 .. Len(writes') /\ DOMAIN writes = 1 .. Len(writes)
      /\ \A k \in 1 .. Len(writes) : writes'[k] = writes[k]
      /\ \A k \in 1 .. Len(r) : writes'[Len(writes) + k] = r[k]
  <2>1. writes \in Seq(Write) /\ starting \in Nat /\ starting <= Len(writes)
    BY DEF TypeOK, PhaseInv
  <2> QED BY <2>1, ConcatProperties
<1>2. ASSUME NEW k \in DOMAIN writes', k > starting', t \in DOMAIN writes'[k]
      PROVE  writes'[k][t] \in V
  <2>1. CASE k \in 1 .. Len(writes)
    BY <1>1, <1>2, <2>1 DEF Secured
  <2>2. CASE k \notin 1 .. Len(writes)
    <3>1. k - Len(writes) \in 1 .. Len(r) /\ k = Len(writes) + (k - Len(writes))
      BY <1>1, <2>2
    <3>2. writes'[k] = r[k - Len(writes)]
      BY <1>1, <3>1
    <3> QED BY <1>2, <3>1, <3>2
  <2> QED BY <2>1, <2>2
<1>3. phase' # "down" => Leaves(t, V, writes', starting', mem')
  BY <1>1, LeavesPrefix DEF Secured
<1>4. \/ disk'.state = "corrupt"
      \/ disk'.state = "good" /\ disk'.records[t] \in V
      \/ \E k \in 1 .. starting' : t \in DOMAIN writes'[k]
  <2>1. CASE \E k \in 1 .. starting : t \in DOMAIN writes[k]
    <3>1. PICK k \in 1 .. starting : t \in DOMAIN writes[k]
      BY <2>1
    <3>2. k \in 1 .. starting' /\ writes'[k] = writes[k]
      BY <1>1
    <3> QED BY <3>1, <3>2
  <2> QED BY <2>1 DEF Secured
<1> QED BY <1>2, <1>3, <1>4 DEF Secured

-----------------------------------------------------------------------------
(* The records settle                                                          *)

\* No write is left without a running zone, and the last write of a target that is queued,
\* or else its record in memory, is its state.
KInv == IInv /\ PhaseInv /\ RecInv

\* A transition of a running zone.
LEMMA TransitionK ==
  ASSUME KInv, phase = "running", phase' = "running", mem' = mem, starting' = starting,
         NEW S \in SUBSET Target, NEW f, \A u \in S : f[u] \in OwnershipState,
         NEW further \in Seq(Write), \A k \in 1 .. Len(further) : DOMAIN further[k] = {},
         Transition(S, f, further)
  PROVE  PhaseInv' /\ RecInv'
<1>1. RecInv'
  BY TransitionRecords DEF KInv
<1>2. PICK r \in Seq(Write) : writes' = writes \o r
  <2>1. TypeOK
    BY DEF KInv, IInv
  <2> QED BY <2>1, TransitionWrites
<1>3. Len(writes') = Len(writes) + Len(r) /\ Len(writes) \in Nat /\ Len(r) \in Nat
      /\ starting \in Nat
  <2>1. writes \in Seq(Write) /\ starting \in Nat
    BY DEF KInv, IInv, TypeOK
  <2> QED BY <1>2, <2>1, ConcatProperties
<1>4. PhaseInv'
  BY <1>3 DEF KInv, PhaseInv
<1> QED BY <1>1, <1>4

\* Steps that leave the queue and the states of a running zone alone.
LEMMA QuietK ==
  ASSUME KInv, UNCHANGED <<writes, starting, mem, own>>,
         \/ phase' = phase
         \/ phase' = "unloading"
  PROVE  PhaseInv' /\ RecInv'
BY DEF KInv, PhaseInv, RecInv

LEMMA StoppedK ==
  ASSUME writes' = <<>>, starting' = 0, phase' # "running"
  PROVE  PhaseInv' /\ RecInv'
BY DEF PhaseInv, RecInv

LEMMA WriteDoneK == ASSUME KInv, NEW saved \in BOOLEAN, WriteDone(saved) PROVE PhaseInv' /\ RecInv'
<1>1. writes \in Seq(Write) /\ writes # <<>> /\ starting \in Nat /\ starting <= Len(writes)
  BY DEF KInv, IInv, TypeOK, PhaseInv, WriteDone
<1>2. /\ writes' = Tail(writes) /\ Len(writes') = Len(writes) - 1 /\ Len(writes) \in Nat
      /\ Len(writes) \in 1 .. Len(writes)
  <2>1. writes' = Tail(writes)
    BY DEF WriteDone
  <2>2. Len(Tail(writes)) = Len(writes) - 1 /\ Len(writes) \in Nat /\ Len(writes) # 0
    BY <1>1
  <2> QED BY <2>1, <2>2
<1>3. PhaseInv'
  <2>1. phase' \in {"running", "unloading"}
        /\ starting' = (IF starting = 0 THEN 0 ELSE starting - 1)
    BY DEF WriteDone
  <2> QED BY <1>1, <1>2, <2>1 DEF PhaseInv
<1>4. RecInv'
  <2> SUFFICES ASSUME phase' = "running", NEW t \in Target, own'[t].ownership # "disabled"
               PROVE  Leaves(t, {own'[t]}, writes', Len(writes'), mem')
    BY DEF RecInv
  <2>1. own' = own /\ phase = "running" /\ mem' = Merged(Head(writes), mem)
    BY DEF WriteDone, runtimeVars
  <2>2. Leaves(t, {own[t]}, writes, Len(writes), mem)
    BY <2>1 DEF KInv, RecInv
  <2>3. Leaves(t, {own[t]}, Tail(writes), Len(writes) - 1, Merged(Head(writes), mem))
    BY <1>1, <1>2, <2>2, LeavesStep
  <2> QED BY <1>2, <2>1, <2>3
<1> QED BY <1>3, <1>4

LEMMA OtherWriteK == ASSUME KInv, OtherWrite PROVE PhaseInv' /\ RecInv'
<1>1. writes \in Seq(Write) /\ starting \in Nat /\ starting <= Len(writes)
  BY DEF KInv, IInv, TypeOK, PhaseInv
<1>2. /\ writes' = writes \o <<NoRecord>> /\ <<NoRecord>> \in Seq(Write)
      /\ Len(writes') = Len(writes) + 1 /\ Len(writes) \in Nat
  BY <1>1, NoRecordType DEF OtherWrite
<1>3. PhaseInv'
  BY <1>1, <1>2 DEF PhaseInv, OtherWrite
<1>4. RecInv'
  <2> SUFFICES ASSUME NEW t \in Target, own'[t].ownership # "disabled"
               PROVE  Leaves(t, {own'[t]}, writes', Len(writes'), mem')
    BY DEF RecInv
  <2>1. own' = own /\ phase = "running" /\ mem' = mem
    BY DEF OtherWrite, runtimeVars
  <2>2. Leaves(t, {own[t]}, writes, Len(writes), mem)
    BY <2>1 DEF KInv, RecInv
  <2>3. \A k \in 1 .. Len(<<NoRecord>>) : t \notin DOMAIN <<NoRecord>>[k]
    BY DEF NoRecord
  <2>4. Leaves(t, {own[t]}, writes \o <<NoRecord>>, Len(writes \o <<NoRecord>>), mem)
    BY <1>1, <1>2, <2>2, <2>3, LeavesAppended
  <2> QED BY <1>2, <2>1, <2>4
<1> QED BY <1>3, <1>4

\* The writes of a start: whatever passes a target is part of, the last write of it is of
\* the state that the start has led to.
LEMMA StartWrites ==
  ASSUME TypeOK, StartControl
  PROVE  /\ writes' \in Seq(Write) /\ starting' = Len(writes') /\ starting' \in Nat
         /\ \A t \in Target : /\ own'[t] = Started(t)
                              /\ \A old : Leaves(t, {Started(t)}, writes', Len(writes'), old)
                              /\ \E k \in 1 .. Len(writes') : t \in DOMAIN writes'[k]
<1> DEFINE SR == {t \in Target : RestoredOverride(t)}
           SG == {t \in Target : Gated(t)}
           fe == [t \in Target |-> Enable(own[t])]
           fr == [t \in Target |-> AfterOverrides(t)]
           fs == [t \in Target |-> Started(t)]
<1>1. PICK enable \in SetToSeqs(Target), restore \in SetToSeqs(SR), recover \in SetToSeqs(SG) :
        writes' = Records(enable, fe) \o Records(restore, fr) \o Records(recover, fs)
  BY DEF StartControl
<1>2. /\ SR \in SUBSET Target /\ SG \in SUBSET Target /\ Target \in SUBSET Target
      /\ \A t \in Target : /\ fe[t] \in OwnershipState /\ fr[t] \in OwnershipState
                           /\ fs[t] \in OwnershipState
  BY StartedType
<1>3. \A t \in Target : /\ t \in SG => fs[t] = Started(t)
                        /\ t \notin SG /\ t \in SR => fr[t] = Started(t)
                        /\ t \notin SG /\ t \notin SR => fe[t] = Started(t)
  BY DEF Started, AfterOverrides
<1>4. starting' = Len(writes') /\ \A t \in Target : own'[t] = Started(t)
  BY DEF StartControl
<1> HIDE DEF SR, SG, fe, fr, fs
<1> DEFINE e == Records(enable, fe)
           r == Records(restore, fr)
           g == Records(recover, fs)
<1>5. e \in Seq(Write) /\ r \in Seq(Write) /\ g \in Seq(Write)
  BY <1>1, <1>2, RecordsType
<1>6. ASSUME NEW t \in Target
      PROVE  /\ \A k \in 1 .. Len(r) : t \in DOMAIN r[k] => t \in SR
             /\ \A k \in 1 .. Len(g) : t \in DOMAIN g[k] => t \in SG
             /\ \E k \in 1 .. Len(e) : t \in DOMAIN e[k]
             /\ t \in SR => \E k \in 1 .. Len(r) : t \in DOMAIN r[k]
             /\ t \in SG => \E k \in 1 .. Len(g) : t \in DOMAIN g[k]
             /\ \A old : Leaves(t, {fe[t]}, e, Len(e), old)
             /\ t \in SR => \A old : Leaves(t, {fr[t]}, r, Len(r), old)
             /\ t \in SG => \A old : Leaves(t, {fs[t]}, g, Len(g), old)
  <2>1. ASSUME NEW S \in SUBSET Target, NEW order \in SetToSeqs(S), NEW f, NEW q,
               q = Records(order, f)
        PROVE  /\ \A k \in 1 .. Len(q) : t \in DOMAIN q[k] => t \in S
               /\ t \in S => \E k \in 1 .. Len(q) : t \in DOMAIN q[k]
               /\ t \in S => \A old : Leaves(t, {f[t]}, q, Len(q), old)
    <3> HIDE DEF e, r, g
    <3>1. /\ \A k \in 1 .. Len(Records(order, f)) :
               t \in DOMAIN Records(order, f)[k] => t \in S /\ Records(order, f)[k][t] = f[t]
          /\ t \in S => \E k \in 1 .. Len(Records(order, f)) : t \in DOMAIN Records(order, f)[k]
          /\ t \in S => \A old : Leaves(t, {f[t]}, Records(order, f), Len(Records(order, f)), old)
      BY PassWrites
    <3> QED BY <2>1, <3>1
  <2>2. /\ \E k \in 1 .. Len(e) : t \in DOMAIN e[k]
        /\ \A old : Leaves(t, {fe[t]}, e, Len(e), old)
    <3>1. e = Records(enable, fe) /\ Target \in SUBSET Target
      OBVIOUS
    <3> HIDE DEF e, r, g
    <3> QED BY <2>1, <3>1
  <2>3. /\ \A k \in 1 .. Len(r) : t \in DOMAIN r[k] => t \in SR
        /\ t \in SR => \E k \in 1 .. Len(r) : t \in DOMAIN r[k]
        /\ t \in SR => \A old : Leaves(t, {fr[t]}, r, Len(r), old)
    <3>1. r = Records(restore, fr) /\ SR \in SUBSET Target
      BY <1>2
    <3> HIDE DEF e, r, g
    <3> QED BY <2>1, <3>1
  <2>4. /\ \A k \in 1 .. Len(g) : t \in DOMAIN g[k] => t \in SG
        /\ t \in SG => \E k \in 1 .. Len(g) : t \in DOMAIN g[k]
        /\ t \in SG => \A old : Leaves(t, {fs[t]}, g, Len(g), old)
    <3>1. g = Records(recover, fs) /\ SG \in SUBSET Target
      BY <1>2
    <3> HIDE DEF e, r, g
    <3> QED BY <2>1, <3>1
  <2> QED BY <2>2, <2>3, <2>4
<1> HIDE DEF e, r, g
<1>7. writes' = (e \o r) \o g /\ e \o r \in Seq(Write) /\ (e \o r) \o g \in Seq(Write)
  BY <1>1, <1>5 DEF e, r, g
<1>8. ASSUME NEW t \in Target, NEW old
      PROVE  Leaves(t, {Started(t)}, writes', Len(writes'), old)
  <2>1. CASE t \in SG
    <3>1. Leaves(t, {Started(t)}, g, Len(g), old) /\ \E k \in 1 .. Len(g) : t \in DOMAIN g[k]
      BY <1>3, <1>6, <2>1
    <3> QED BY <1>5, <1>7, <3>1, LeavesAppended
  <2>2. CASE t \notin SG
    <3>1. \A k \in 1 .. Len(g) : t \notin DOMAIN g[k]
      BY <1>6, <2>2
    <3>2. Leaves(t, {Started(t)}, e \o r, Len(e \o r), old)
      <4>1. CASE t \in SR
        <5>1. /\ Leaves(t, {Started(t)}, r, Len(r), old)
              /\ \E k \in 1 .. Len(r) : t \in DOMAIN r[k]
          BY <1>3, <1>6, <2>2, <4>1
        <5> QED BY <1>5, <5>1, LeavesAppended
      <4>2. CASE t \notin SR
        <5>1. /\ Leaves(t, {Started(t)}, e, Len(e), old)
              /\ \A k \in 1 .. Len(r) : t \notin DOMAIN r[k]
          BY <1>3, <1>6, <2>2, <4>2
        <5> QED BY <1>5, <5>1, LeavesAppended
      <4> QED BY <4>1, <4>2
    <3> QED BY <1>5, <1>7, <3>1, <3>2, LeavesAppended
  <2> QED BY <2>1, <2>2
<1>9. ASSUME NEW t \in Target PROVE \E k \in 1 .. Len(writes') : t \in DOMAIN writes'[k]
  <2>1. PICK k \in 1 .. Len(e) : t \in DOMAIN e[k]
    BY <1>6
  <2>2. k \in 1 .. Len(e \o r) /\ (e \o r)[k] = e[k]
    BY <1>5, ConcatProperties
  <2>3. k \in 1 .. Len((e \o r) \o g) /\ ((e \o r) \o g)[k] = (e \o r)[k]
    BY <1>5, <1>7, <2>2, ConcatProperties
  <2> QED BY <1>7, <2>1, <2>2, <2>3
<1>10. writes' \in Seq(Write) /\ Len(writes') \in Nat
  BY <1>7, LenProperties
<1> QED BY <1>4, <1>8, <1>9, <1>10

LEMMA AcquireK == ASSUME KInv, Acquire PROVE PhaseInv' /\ RecInv'
<1>1. phase' = "running" /\ phase = "loaded" /\ mem' = mem
  BY DEF Acquire
<1>2. CASE enabled
  <2>1. TypeOK /\ StartControl
    BY <1>2 DEF Acquire, KInv, IInv
  <2>2. /\ writes' \in Seq(Write) /\ starting' = Len(writes') /\ starting' \in Nat
        /\ \A t \in Target : /\ own'[t] = Started(t)
                             /\ \A old : Leaves(t, {Started(t)}, writes', Len(writes'), old)
    BY <2>1, StartWrites
  <2>3. PhaseInv'
    BY <1>1, <2>2 DEF PhaseInv
  <2>4. ASSUME NEW t \in Target PROVE Leaves(t, {own'[t]}, writes', Len(writes'), mem')
    <3>1. Leaves(t, {Started(t)}, writes', Len(writes'), mem') /\ own'[t] = Started(t)
      BY <2>2
    <3> QED BY <3>1
  <2> QED BY <2>3, <2>4 DEF RecInv
<1>3. CASE ~enabled
  <2>1. UNCHANGED <<own, writes, starting>>
    BY <1>3 DEF Acquire
  <2>2. \A t \in Target : own'[t].ownership = "disabled"
    BY <1>1, <2>1, InitialType DEF KInv, IInv, OwnInv
  <2> QED BY <1>1, <2>1, <2>2 DEF KInv, PhaseInv, RecInv
<1> QED BY <1>2, <1>3

LEMMA ZoneK ==
  ASSUME KInv, NEW t \in Target,
         \/ ExternalTarget(t) \/ ExpiryTimer(t) \/ ResumeTarget(t)
         \/ \E ready \in Readiness : ClimateChange(t, ready)
  PROVE  PhaseInv' /\ RecInv'
<1> USE DEF KInv
<1>1. <<>> \in Seq(Write) /\ \A k \in 1 .. Len(<<>>) : DOMAIN <<>>[k] = {}
  OBVIOUS
<1>2. CASE ExternalTarget(t)
  <2> DEFINE f == [u \in {t} |-> ExternalTargetSet(own[u])]
  <2>1. now + Duration \in Time
    BY <1>2, BoundAssumption DEF ExternalTarget, IInv, TypeOK, Time
  <2>2. \A u \in {t} : f[u] \in OwnershipState
    BY <2>1, OverrideType DEF ExternalTargetSet
  <2>3. Transition({t}, f, <<>>) /\ UNCHANGED <<phase, mem, starting>> /\ phase = "running"
    BY <1>2 DEF ExternalTarget
  <2> HIDE DEF f
  <2> QED BY <1>1, <2>2, <2>3, TransitionK
<1>3. CASE ExpiryTimer(t)
  <2> DEFINE f == [u \in {t} |-> OverrideExpired(own[u])]
  <2>1. own[t] \in OwnershipState
    BY DEF IInv, TypeOK
  <2>2. \A u \in {t} : f[u] \in OwnershipState
    BY <2>1, OverrideExpiredType
  <2>3. Transition({t}, f, <<>>) /\ UNCHANGED <<phase, mem, starting>> /\ phase = "running"
    BY <1>3 DEF ExpiryTimer
  <2> HIDE DEF f
  <2> QED BY <1>1, <2>2, <2>3, TransitionK
<1>4. CASE ResumeTarget(t)
  <2> DEFINE f == [u \in {t} |-> Resume(own[u])]
             further == IF resuming = {t} THEN <<NoRecord>> ELSE <<>>
  <2>1. \A u \in {t} : f[u] \in OwnershipState
    BY ReconcilingType DEF Resume
  <2>2. further \in Seq(Write) /\ \A k \in 1 .. Len(further) : DOMAIN further[k] = {}
    BY NoRecordType DEF NoRecord
  <2>3. Transition({t}, f, further) /\ UNCHANGED <<phase, mem, starting>> /\ phase = "running"
    BY <1>4 DEF ResumeTarget
  <2> HIDE DEF f, further
  <2> QED BY <2>1, <2>2, <2>3, TransitionK
<1>5. ASSUME NEW ready \in Readiness, ClimateChange(t, ready) PROVE PhaseInv' /\ RecInv'
  <2>1. CASE phase = "running"
    <3> DEFINE f == [u \in {t} |-> Seen(u, ready)]
    <3>1. enabled' = enabled /\ baseline' \subseteq baseline
      BY <1>5 DEF ClimateChange
    <3>2. \A u \in {t} : Sound(u, f[u])
      BY <3>1, KeptSound DEF Seen, Unavailable, Returned, HvacMode
    <3>3. \A u \in {t} : f[u] \in OwnershipState
      BY <3>2 DEF Sound
    <3>4. Transition({t}, f, <<>>) /\ UNCHANGED <<phase, mem, starting>>
      BY <1>5, <2>1 DEF ClimateChange
    <3> HIDE DEF f
    <3> QED BY <1>1, <2>1, <3>3, <3>4, TransitionK
  <2>2. CASE phase # "running"
    BY <1>5, <2>2, QuietK DEF ClimateChange
  <2> QED BY <2>1, <2>2
<1> QED BY <1>2, <1>3, <1>4, <1>5

LEMMA CalculationK ==
  ASSUME KInv, NEW verdict \in [Target -> {"ready", "held", "unusable"}], Calculation(verdict)
  PROVE  PhaseInv' /\ RecInv'
<1> DEFINE S == Reconcilable(verdict)
           f == [t \in S |-> Reconciled(own[t], verdict[t] = "ready")]
<1>1. \A t \in S : f[t] \in OwnershipState
  <2> SUFFICES ASSUME NEW t \in S PROVE f[t] \in OwnershipState
    OBVIOUS
  <2>1. own[t] \in OwnershipState /\ "owned" \in Ownership
    BY DEF KInv, IInv, TypeOK, Reconcilable, Ownership
  <2>2. [own[t] EXCEPT !.ownership = "owned"] \in OwnershipState
    BY <2>1, UpdateOwnership
  <2> QED BY <2>1, <2>2 DEF Reconciled
<1>2. /\ Transition(S, f, <<>>) /\ S \in SUBSET Target /\ phase = "running"
      /\ UNCHANGED <<phase, mem, starting>>
  BY DEF Calculation, Reconcilable
<1>3. <<>> \in Seq(Write) /\ \A k \in 1 .. Len(<<>>) : DOMAIN <<>>[k] = {}
  OBVIOUS
<1> HIDE DEF S, f
<1> QED BY <1>1, <1>2, <1>3, TransitionK

LEMMA SetControlEnabledK == ASSUME KInv, SetControlEnabled PROVE PhaseInv' /\ RecInv'
<1> DEFINE f == [t \in Target |-> IF enabled THEN Disable(own[t]) ELSE Enable(own[t])]
<1>1. \A t \in Target : f[t] \in OwnershipState
  BY ReconcilingType, InitialType DEF Disable, Enable
<1>2. /\ Transition(Target, f, <<NoRecord>>) /\ phase = "running"
      /\ UNCHANGED <<phase, mem, starting>>
  BY DEF SetControlEnabled
<1>3. <<NoRecord>> \in Seq(Write) /\ \A k \in 1 .. Len(<<NoRecord>>) : DOMAIN <<NoRecord>>[k] = {}
  BY NoRecordType DEF NoRecord
<1> HIDE DEF f
<1> QED BY <1>1, <1>2, <1>3, TransitionK

LEMMA NextK == KInv /\ [Next]_vars => KInv'
<1> SUFFICES ASSUME KInv, [Next]_vars PROVE PhaseInv' /\ RecInv'
  BY NextInv DEF KInv
<1>1. ASSUME NEW saved \in BOOLEAN, Load(saved) PROVE PhaseInv' /\ RecInv'
  BY <1>1 DEF Load, KInv, PhaseInv, RecInv
<1>2. ASSUME NEW saved \in BOOLEAN, WriteDone(saved) PROVE PhaseInv' /\ RecInv'
  BY <1>2, WriteDoneK
<1>3. ASSUME (\E saved \in BOOLEAN : MarkClean(saved)) \/ Crash \/ CancelWrites
      PROVE  PhaseInv' /\ RecInv'
  BY <1>3, StoppedK DEF MarkClean, Crash, Down, CancelWrites
<1>4. ASSUME NEW t \in Target,
             \/ ExternalTarget(t) \/ ExpiryTimer(t) \/ ResumeTarget(t)
             \/ \E ready \in Readiness : ClimateChange(t, ready)
      PROVE  PhaseInv' /\ RecInv'
  BY <1>4, ZoneK
<1>5. ASSUME NEW verdict \in [Target -> {"ready", "held", "unusable"}], Calculation(verdict)
      PROVE  PhaseInv' /\ RecInv'
  BY <1>5, CalculationK
<1>6. CASE Acquire \/ SetControlEnabled \/ OtherWrite
  BY <1>6, AcquireK, SetControlEnabledK, OtherWriteK
<1>7. CASE PressResume \/ Unload \/ Corrupt \/ Tick \/ UNCHANGED vars
           \/ \E t \in Target : FirstObservation(t)
  BY <1>7, QuietK DEF PressResume, Unload, Corrupt, Tick, FirstObservation, vars, runtimeVars,
                      storeVars, history
<1> QED BY <1>1, <1>2, <1>3, <1>4, <1>5, <1>6, <1>7 DEF Next

LEMMA InitK == Init => KInv
<1> SUFFICES ASSUME Init PROVE KInv
  OBVIOUS
<1>1. IInv
  BY InitInv
<1>2. PhaseInv /\ RecInv
  BY DEF Init, PhaseInv, RecInv
<1> QED BY <1>1, <1>2 DEF KInv

\* When no write is left, the record of a target in memory is its state, in whatever order
\* transitions and writes met.
THEOREM RecordsSettled == Spec => []RecordsSettle
<1>1. KInv => RecordsSettle
  <2> SUFFICES ASSUME KInv, phase = "running", writes = <<>>, NEW t \in Target,
                      own[t].ownership # "disabled"
               PROVE  mem[t] = own[t]
    BY DEF RecordsSettle
  <2>1. Leaves(t, {own[t]}, writes, 0, mem)
    BY DEF KInv, RecInv
  <2> QED BY <2>1, LeavesNone
<1> QED BY <1>1, InitK, NextK, PTL DEF Spec

-----------------------------------------------------------------------------
(* The gate holds and overrides are kept                                       *)

\* A record that asks for Resume, and an override that was saved, are secured: every write
\* that is left, and the file, would bring them back.
JInv == KInv /\ GateInv /\ PromiseInv

LEMMA LeavesMore ==
  ASSUME NEW t, NEW V, NEW W, NEW q, NEW n, NEW records, V \subseteq W, Leaves(t, V, q, n, records)
  PROVE  Leaves(t, W, q, n, records)
BY DEF Leaves

\* No write is left: the record in memory and the file decide.
LEMMA SecuredPlain ==
  ASSUME NEW t, NEW V, writes = <<>>, starting = 0
  PROVE  Secured(t, V) <=> /\ phase # "down" => mem[t] \in V
                           /\ \/ disk.state = "corrupt"
                              \/ disk.state = "good" /\ disk.records[t] \in V
<1>1. \A k \in 1 .. 0 : FALSE
  OBVIOUS
<1>2. DOMAIN writes = {}
  OBVIOUS
<1> QED BY <1>1, <1>2, LeavesNone DEF Secured

LEMMA DoneSecured ==
  ASSUME ~StartupFaults, KInv, NEW saved \in BOOLEAN, WriteDone(saved),
         NEW t \in Target, NEW V, Secured(t, V)
  PROVE  Secured(t, V)'
<1>1. /\ writes \in Seq(Write) /\ writes # <<>> /\ starting \in Nat /\ starting <= Len(writes)
      /\ writes' = Tail(writes) /\ mem' = Merged(Head(writes), mem)
      /\ phase' = phase /\ phase # "down" /\ starting' = IF starting = 0 THEN 0 ELSE starting - 1
  BY DEF KInv, IInv, TypeOK, PhaseInv, WriteDone
<1>2. /\ Head(writes) = writes[1] /\ Len(writes) \in Nat /\ Len(writes') = Len(writes) - 1
      /\ DOMAIN writes' = 1 .. Len(writes) - 1 /\ DOMAIN writes = 1 .. Len(writes)
      /\ 1 \in 1 .. Len(writes)
      /\ \A k \in 1 .. Len(writes) - 1 : writes'[k] = writes[k + 1] /\ k + 1 \in 1 .. Len(writes)
  <2>1. /\ Head(writes) = writes[1] /\ Len(writes) \in Nat /\ Len(writes) # 0
        /\ Tail(writes) \in Seq(Write) /\ Len(Tail(writes)) = Len(writes) - 1
    BY <1>1, HeadTailProperties
  <2>2. \A k \in 1 .. Len(writes) - 1 : Tail(writes)[k] = writes[k + 1]
    BY <1>1
  <2>3. DOMAIN Tail(writes) = 1 .. Len(writes) - 1 /\ DOMAIN writes = 1 .. Len(writes)
    BY <1>1, <2>1
  <2> QED BY <1>1, <2>1, <2>2, <2>3
<1>3. ASSUME NEW k \in DOMAIN writes', k > starting', t \in DOMAIN writes'[k]
      PROVE  writes'[k][t] \in V
  BY <1>1, <1>2, <1>3 DEF Secured
<1>4. Leaves(t, V, writes', starting', mem')
  <2>1. CASE starting = 0
    <3>1. mem[t] \in V
      BY <1>1, <2>1, LeavesNone DEF Secured
    <3>2. t \in DOMAIN writes[1] => writes[1][t] \in V
      BY <1>2, <2>1 DEF Secured
    <3>3. mem'[t] \in V
      BY <1>1, <1>2, <3>1, <3>2 DEF Merged
    <3> QED BY <1>1, <2>1, <3>3, LeavesNone
  <2>2. CASE starting # 0
    <3>1. Leaves(t, V, writes, starting, mem) /\ starting \in 1 .. Len(writes)
      BY <1>1, <1>2, <2>2 DEF Secured
    <3>2. Leaves(t, V, Tail(writes), starting - 1, Merged(Head(writes), mem))
      BY <1>1, <3>1, LeavesStep
    <3> QED BY <1>1, <2>2, <3>2
  <2> QED BY <2>1, <2>2
<1>5. \/ disk'.state = "corrupt"
      \/ disk'.state = "good" /\ disk'.records[t] \in V
      \/ \E k \in 1 .. starting' : t \in DOMAIN writes'[k]
  <2>1. CASE saved
    <3>1. disk'.state = "good" /\ disk'.records = mem'
      BY <2>1 DEF WriteDone, Save
    <3> QED BY <1>4, <3>1 DEF Leaves
  <2>2. CASE ~saved
    <3>1. starting = 0 /\ disk' = disk
      BY <1>1, <2>2 DEF WriteDone, Interrupted
    <3> QED BY <1>1, <3>1 DEF Secured
  <2> QED BY <2>1, <2>2
<1> QED BY <1>3, <1>4, <1>5 DEF Secured

\* The zone stops when no write of a start is left.
LEMMA DownSecured ==
  ASSUME NEW t, NEW V, Secured(t, V), phase # "down", starting = 0,
         phase' = "down", writes' = <<>>, starting' = 0,
         disk' = disk \/ disk' = [state |-> "good", records |-> mem]
  PROVE  Secured(t, V)'
<1>1. mem[t] \in V
  BY LeavesNone DEF Secured
<1>2. \A k \in 1 .. 0 : FALSE
  OBVIOUS
<1>3. disk.state = "corrupt" \/ (disk.state = "good" /\ disk.records[t] \in V)
  BY <1>2 DEF Secured
<1>4. disk'.state = "corrupt" \/ (disk'.state = "good" /\ disk'.records[t] \in V)
  BY <1>1, <1>3
<1>5. DOMAIN writes' = {}
  OBVIOUS
<1> QED BY <1>4, <1>5 DEF Secured

LEMMA CancelSecured ==
  ASSUME ~StartupFaults, KInv, CancelWrites, NEW t \in Target, NEW V, Secured(t, V)
  PROVE  Secured(t, V)'
<1>1. /\ starting = 0 /\ writes # <<>> /\ mem' = Merged(Head(writes), mem) /\ disk' = disk
      /\ writes' = <<>> /\ starting' = 0 /\ phase # "down" /\ writes \in Seq(Write)
  BY DEF CancelWrites, Interrupted, KInv, IInv, TypeOK
<1>2. mem[t] \in V
  BY <1>1, LeavesNone DEF Secured
<1>3. Head(writes) = writes[1] /\ 1 \in DOMAIN writes
  BY <1>1
<1>4. mem'[t] \in V
  BY <1>1, <1>2, <1>3 DEF Merged, Secured
<1>5. Leaves(t, V, writes', starting', mem')
  BY <1>1, <1>4, LeavesNone
<1>6. \A k \in 1 .. 0 : FALSE
  OBVIOUS
<1>7. disk'.state = "corrupt" \/ (disk'.state = "good" /\ disk'.records[t] \in V)
  BY <1>1, <1>6 DEF Secured
<1>8. DOMAIN writes' = {}
  BY <1>1
<1> QED BY <1>5, <1>7, <1>8 DEF Secured

\* The store and the phase are as they were, up to an orderly unloading.
LEMMA QuietSecured ==
  ASSUME NEW t, NEW V, Secured(t, V), UNCHANGED <<writes, starting, mem, disk>>,
         phase' = phase \/ (phase' = "unloading" /\ phase = "running")
  PROVE  Secured(t, V)'
BY DEF Secured

-----------------------------------------------------------------------------
LEMMA AskingReconciles == \A o \in Asking : o.ownership = "reconciling" /\ o.resume
BY DEF Asking

\* What a transition of a running zone must leave of the gate and the promises.
LEMMA RunningKeeps ==
  ASSUME JInv, OwnedIsAllowed', phase = "running",
         UNCHANGED <<phase, mem, starting, disk, enabled, now>>,
         NEW S \in SUBSET Target, NEW f, \A u \in S : f[u] \in OwnershipState,
         NEW further \in Seq(Write), \A k \in 1 .. Len(further) : DOMAIN further[k] = {},
         Transition(S, f, further),
         \A t \in Target : gate'[t] = "set" =>
           gate[t] = "set" /\ (t \in S /\ own[t] \in Asking => f[t] \in Asking),
         \A t \in Target, v \in Time : v = promise'[t] /\ now < v =>
           \/ /\ promise[t] = v /\ (t \in kept' => t \in kept)
              /\ t \in S /\ own[t] \in Overriding(v) => f[t] \in Overriding(v)
           \/ t \in S /\ t \notin kept' /\ f[t] \in Overriding(v)
  PROVE  GateInv' /\ PromiseInv'
<1>1. TypeOK /\ PhaseInv
  BY DEF JInv, KInv, IInv
<1>2. PICK r \in Seq(Write) :
        /\ writes' = writes \o r
        /\ \A t \in Target :
             /\ \A k \in 1 .. Len(r) : t \in DOMAIN r[k] => t \in S /\ r[k][t] = f[t]
             /\ t \in S => \E k \in 1 .. Len(r) : t \in DOMAIN r[k]
             /\ t \in S => \A old : Leaves(t, {f[t]}, r, Len(r), old)
  BY <1>1, TransitionWrites
<1>3. \A t \in Target : own'[t] = IF t \in S THEN f[t] ELSE own[t]
  BY DEF Transition
<1>4. ASSUME NEW t \in Target, NEW V, Secured(t, V), t \in S => f[t] \in V
      PROVE  Secured(t, V)'
  <2>1. \A k \in 1 .. Len(r) : t \in DOMAIN r[k] => r[k][t] \in V
    BY <1>2, <1>4
  <2> QED BY <1>1, <1>2, <1>4, <2>1, GrowSecured
<1>5. GateInv'
  <2> SUFFICES ASSUME NEW t \in Target, gate'[t] = "set"
               PROVE  /\ own'[t].ownership # "owned"
                      /\ enabled' => /\ Secured(t, Asking)'
                                     /\ phase' = "running" => own'[t] \in Asking
                                     /\ phase' = "loaded" => requires'
    BY DEF GateInv
  <2>1. CASE enabled
    <3>1. Secured(t, Asking) /\ own[t] \in Asking
      BY <2>1 DEF JInv, GateInv
    <3>2. t \in S => f[t] \in Asking
      BY <3>1
    <3>3. Secured(t, Asking)'
      BY <1>4, <3>1, <3>2
    <3>4. own'[t] \in Asking
      BY <1>3, <3>1, <3>2
    <3> QED BY <3>3, <3>4, AskingReconciles
  <2>2. CASE ~enabled
    BY <2>2 DEF OwnedIsAllowed
  <2> QED BY <2>1, <2>2
<1>6. PromiseInv'
  <2> SUFFICES ASSUME NEW t \in Target, NEW v \in Time, v = promise'[t], enabled', now' < v
               PROVE  /\ t \in kept' => Secured(t, Overriding(v))'
                      /\ phase' = "running" => own'[t] \in Overriding(v)
                      /\ phase' \in {"down", "loaded"} => t \in kept'
    BY DEF PromiseInv
  <2>1. CASE /\ promise[t] = v /\ (t \in kept' => t \in kept)
             /\ t \in S /\ own[t] \in Overriding(v) => f[t] \in Overriding(v)
    <3>1. own[t] \in Overriding(v) /\ (t \in kept => Secured(t, Overriding(v)))
      BY <2>1 DEF JInv, PromiseInv
    <3>2. t \in S => f[t] \in Overriding(v)
      BY <2>1, <3>1
    <3>3. t \in kept => Secured(t, Overriding(v))'
      BY <1>4, <3>1, <3>2
    <3>4. own'[t] \in Overriding(v)
      BY <1>3, <3>1, <3>2
    <3> QED BY <2>1, <3>3, <3>4
  <2>2. CASE t \in S /\ t \notin kept' /\ f[t] \in Overriding(v)
    BY <1>3, <2>2
  <2> QED BY <2>1, <2>2
<1> QED BY <1>5, <1>6

\* Steps that leave all of it alone.
LEMMA QuietJ ==
  ASSUME JInv, UNCHANGED <<writes, starting, mem, disk, own, enabled, gate, promise, kept>>,
         \/ phase' = phase
         \/ phase' = "unloading" /\ phase = "running",
         phase = "loaded" => requires' = requires,
         now' = now \/ now' = now + 1
  PROVE  GateInv' /\ PromiseInv'
<1>1. ASSUME NEW t \in Target, NEW V, Secured(t, V) PROVE Secured(t, V)'
  BY <1>1, QuietSecured
<1>2. GateInv'
  BY <1>1 DEF JInv, GateInv
<1>3. PromiseInv'
  <2> SUFFICES ASSUME NEW t \in Target, NEW v \in Time, v = promise'[t], enabled', now' < v
               PROVE  /\ t \in kept' => Secured(t, Overriding(v))'
                      /\ phase' = "running" => own'[t] \in Overriding(v)
                      /\ phase' \in {"down", "loaded"} => t \in kept'
    BY DEF PromiseInv
  <2>1. now < v
    BY DEF JInv, KInv, IInv, TypeOK, Time
  <2>2. /\ t \in kept => Secured(t, Overriding(v))
        /\ phase = "running" => own[t] \in Overriding(v)
        /\ phase \in {"down", "loaded"} => t \in kept
    BY <2>1 DEF JInv, PromiseInv
  <2>3. t \in kept => Secured(t, Overriding(v))'
    BY <1>1, <2>2
  <2> QED BY <2>2, <2>3
<1> QED BY <1>2, <1>3

-----------------------------------------------------------------------------
LEMMA ZoneJ ==
  ASSUME JInv, IInv', NEW t \in Target,
         \/ ExternalTarget(t) \/ ExpiryTimer(t) \/ ResumeTarget(t)
         \/ \E ready \in Readiness : ClimateChange(t, ready)
  PROVE  GateInv' /\ PromiseInv'
<1>1. /\ <<>> \in Seq(Write) /\ \A k \in 1 .. Len(<<>>) : DOMAIN <<>>[k] = {}
      /\ {t} \in SUBSET Target /\ OwnedIsAllowed' /\ own[t] \in OwnershipState
      /\ now \in Time /\ promise \in [Target -> Time] /\ kept \subseteq Target
      /\ gate \in [Target -> {"none", "set", "overridden"}]
  BY DEF IInv, JInv, KInv, TypeOK
<1>2. CASE ExternalTarget(t)
  <2> DEFINE f == [u \in {t} |-> ExternalTargetSet(own[u])]
  <2>1. now + Duration \in Time
    BY <1>1, <1>2, BoundAssumption DEF ExternalTarget, Time
  <2>2. /\ \A u \in {t} : f[u] \in OwnershipState
        /\ f[t] \in Overriding(now + Duration)
    BY <2>1, OverrideType DEF ExternalTargetSet, Overriding
  <2>3. /\ Transition({t}, f, <<>>) /\ phase = "running"
        /\ UNCHANGED <<phase, mem, starting, disk, enabled, now>>
        /\ promise' = [promise EXCEPT ![t] = now + Duration] /\ kept' = kept \ {t}
        /\ gate' = [gate EXCEPT ![t] = IF @ = "set" THEN "overridden" ELSE @]
    BY <1>2 DEF ExternalTarget
  <2> HIDE DEF f
  <2>4. ASSUME NEW u \in Target, gate'[u] = "set"
        PROVE  gate[u] = "set" /\ u \notin {t}
    BY <1>1, <2>3, <2>4
  <2>5. ASSUME NEW u \in Target, NEW v \in Time, v = promise'[u], now < v, u # t
        PROVE  promise[u] = v
    BY <1>1, <2>3, <2>5
  <2>6. \A u \in Target, v \in Time : v = promise'[u] /\ now < v =>
           \/ /\ promise[u] = v /\ (u \in kept' => u \in kept)
              /\ u \in {t} /\ own[u] \in Overriding(v) => f[u] \in Overriding(v)
           \/ u \in {t} /\ u \notin kept' /\ f[u] \in Overriding(v)
    BY <1>1, <2>2, <2>3, <2>5
  <2> QED BY <1>1, <2>2, <2>3, <2>4, <2>6, RunningKeeps
<1>3. CASE ExpiryTimer(t)
  <2> DEFINE f == [u \in {t} |-> OverrideExpired(own[u])]
  <2>1. \A u \in {t} : f[u] \in OwnershipState
    BY <1>1, OverrideExpiredType
  <2>2. /\ Transition({t}, f, <<>>) /\ phase = "running"
        /\ UNCHANGED <<phase, mem, starting, disk, enabled, now, promise, kept, gate>>
    BY <1>3 DEF ExpiryTimer, boundVars, history
  <2>3. own[t] \in Asking => f[t] \in Asking
    BY DEF OverrideExpired, Asking
  <2>4. ASSUME NEW v \in Time, now < v, own[t] \in Overriding(v)
        PROVE  f[t] \in Overriding(v)
    <3>1. ~(now >= own[t].expiry)
      BY <1>1, <2>4 DEF Overriding, Time
    <3>2. OverrideExpired(own[t]) = own[t]
      BY <3>1 DEF OverrideExpired
    <3> QED BY <2>4, <3>2
  <2> HIDE DEF f
  <2> QED BY <1>1, <2>1, <2>2, <2>3, <2>4, RunningKeeps
<1>4. CASE ResumeTarget(t)
  <2> DEFINE f == [u \in {t} |-> Resume(own[u])]
             further == IF resuming = {t} THEN <<NoRecord>> ELSE <<>>
  <2>1. \A u \in {t} : f[u] \in OwnershipState
    BY ReconcilingType DEF Resume
  <2>2. further \in Seq(Write) /\ \A k \in 1 .. Len(further) : DOMAIN further[k] = {}
    BY NoRecordType DEF NoRecord
  <2>3. /\ Transition({t}, f, further) /\ phase = "running"
        /\ UNCHANGED <<phase, mem, starting, disk, enabled, now>>
        /\ promise' = [promise EXCEPT ![t] = NoTime] /\ kept' = kept \ {t}
        /\ gate' = [gate EXCEPT ![t] = "none"]
    BY <1>4 DEF ResumeTarget, boundVars
  <2> HIDE DEF f, further
  <2>4. \A u \in Target : gate'[u] = "set" => gate[u] = "set" /\ u \notin {t}
    BY <1>1, <2>3
  <2>5. \A u \in Target, v \in Time : v = promise'[u] /\ now < v =>
          promise[u] = v /\ u \notin {t} /\ (u \in kept' => u \in kept)
    BY <1>1, <2>3 DEF NoTime, Time
  <2> QED BY <1>1, <2>1, <2>2, <2>3, <2>4, <2>5, RunningKeeps
<1>5. ASSUME NEW ready \in Readiness, ClimateChange(t, ready) PROVE GateInv' /\ PromiseInv'
  <2>1. CASE phase = "running"
    <3> DEFINE f == [u \in {t} |-> Seen(u, ready)]
    <3>1. enabled' = enabled /\ baseline' \subseteq baseline /\ IInv
      BY <1>5 DEF ClimateChange, JInv, KInv
    <3>2. \A u \in {t} : Sound(u, f[u])
      BY <3>1, KeptSound DEF Seen, Unavailable, Returned, HvacMode
    <3>3. \A u \in {t} : f[u] \in OwnershipState
      BY <3>2 DEF Sound
    <3>4. /\ Transition({t}, f, <<>>)
          /\ UNCHANGED <<phase, mem, starting, disk, enabled, now, promise, kept, gate>>
      BY <1>5, <2>1 DEF ClimateChange, history
    <3>5. own[t].ownership # "owned" => f[t] = own[t]
      BY DEF Seen, Unavailable, Returned, HvacMode
    <3>6. own[t] \in Asking => f[t] \in Asking
      BY <3>5 DEF Asking
    <3>7. \A v \in Time : own[t] \in Overriding(v) => f[t] \in Overriding(v)
      BY <3>5 DEF Overriding
    <3> HIDE DEF f
    <3> QED BY <1>1, <2>1, <3>3, <3>4, <3>6, <3>7, RunningKeeps
  <2>2. CASE phase # "running"
    BY <1>5, <2>2, QuietJ DEF ClimateChange, history
  <2> QED BY <2>1, <2>2
<1> QED BY <1>2, <1>3, <1>4, <1>5

LEMMA CalculationJ ==
  ASSUME JInv, IInv', NEW verdict \in [Target -> {"ready", "held", "unusable"}],
         Calculation(verdict)
  PROVE  GateInv' /\ PromiseInv'
<1> DEFINE S == Reconcilable(verdict)
           f == [t \in S |-> Reconciled(own[t], verdict[t] = "ready")]
<1>1. /\ Transition(S, f, <<>>) /\ S \in SUBSET Target /\ phase = "running"
      /\ UNCHANGED <<phase, mem, starting, disk, enabled, now, promise, kept, gate>>
  BY DEF Calculation, Reconcilable, history
<1>2. \A t \in S : f[t] \in OwnershipState
  <2> SUFFICES ASSUME NEW t \in S PROVE f[t] \in OwnershipState
    OBVIOUS
  <2>1. own[t] \in OwnershipState /\ "owned" \in Ownership
    BY DEF JInv, KInv, IInv, TypeOK, Reconcilable, Ownership
  <2>2. [own[t] EXCEPT !.ownership = "owned"] \in OwnershipState
    BY <2>1, UpdateOwnership
  <2> QED BY <2>1, <2>2 DEF Reconciled
<1>3. \A t \in S : own[t] \notin Asking /\ \A v \in Time : own[t] \notin Overriding(v)
  BY DEF Reconcilable, Asking, Overriding
<1>4. /\ <<>> \in Seq(Write) /\ \A k \in 1 .. Len(<<>>) : DOMAIN <<>>[k] = {}
      /\ OwnedIsAllowed'
  BY DEF IInv
<1> HIDE DEF S, f
<1> QED BY <1>1, <1>2, <1>3, <1>4, RunningKeeps

LEMMA SetControlEnabledJ == ASSUME JInv, IInv', SetControlEnabled PROVE GateInv' /\ PromiseInv'
<1>1. /\ \A t \in Target : promise'[t] = NoTime /\ gate'[t] # "set"
      /\ now' \in Nat
  BY DEF SetControlEnabled, IInv, TypeOK, Time
<1>2. \A v \in Time : v = NoTime => ~(now' < v)
  BY <1>1 DEF NoTime
<1> QED BY <1>1, <1>2 DEF GateInv, PromiseInv

LEMMA OtherWriteJ == ASSUME JInv, OtherWrite PROVE GateInv' /\ PromiseInv'
<1>1. TypeOK /\ PhaseInv
  BY DEF JInv, KInv, IInv
<1>2. /\ writes' = writes \o <<NoRecord>> /\ <<NoRecord>> \in Seq(Write)
      /\ \A k \in 1 .. Len(<<NoRecord>>) : DOMAIN <<NoRecord>>[k] = {}
      /\ UNCHANGED <<phase, mem, starting, disk, enabled, now, promise, kept, gate, own>>
      /\ phase = "running"
  BY <1>1, NoRecordType DEF OtherWrite, TypeOK, NoRecord, history, runtimeVars
<1>3. ASSUME NEW t \in Target, NEW V, Secured(t, V) PROVE Secured(t, V)'
  BY <1>1, <1>2, <1>3, GrowSecured
<1>4. GateInv'
  BY <1>2, <1>3 DEF JInv, GateInv
<1>5. PromiseInv'
  BY <1>2, <1>3 DEF JInv, PromiseInv
<1> QED BY <1>4, <1>5

\* An override that a save takes to the disk with no older write of the target left.
LEMMA OverrideOnType ==
  ASSUME NEW records \in [Target -> OwnershipState], NEW t \in OverrideOn(records)
  PROVE  /\ records[t] \in Overriding(promise[t])
         /\ \A k \in DOMAIN writes' : t \notin DOMAIN writes'[k]
BY DEF OverrideOn, Overriding

LEMMA WriteDoneJ ==
  ASSUME ~StartupFaults, JInv, KInv', NEW saved \in BOOLEAN, WriteDone(saved)
  PROVE  GateInv' /\ PromiseInv'
<1>1. /\ UNCHANGED <<phase, own, enabled, requires, now, promise, gate>>
      /\ phase \in {"running", "unloading"}
  BY DEF WriteDone, runtimeVars
<1>2. ASSUME NEW t \in Target, NEW V, Secured(t, V) PROVE Secured(t, V)'
  BY <1>2, DoneSecured DEF JInv
<1>3. GateInv'
  BY <1>1, <1>2 DEF JInv, GateInv
<1>4. PromiseInv'
  <2> SUFFICES ASSUME NEW t \in Target, NEW v \in Time, v = promise'[t], enabled', now' < v
               PROVE  /\ t \in kept' => Secured(t, Overriding(v))'
                      /\ phase' = "running" => own'[t] \in Overriding(v)
    BY <1>1 DEF PromiseInv
  <2>1. /\ t \in kept => Secured(t, Overriding(v))
        /\ phase = "running" => own[t] \in Overriding(v)
    BY <1>1 DEF JInv, PromiseInv
  <2>2. ASSUME t \in kept', t \notin kept PROVE Secured(t, Overriding(v))'
    <3>1. saved /\ t \in OverrideOn(mem') /\ disk' = [state |-> "good", records |-> mem']
      BY <2>2 DEF WriteDone, Save
    <3>2. /\ mem' \in [Target -> OwnershipState] /\ writes' \in Seq(Write)
          /\ starting' \in Nat /\ starting' <= Len(writes')
      BY DEF KInv, IInv, TypeOK, PhaseInv
    <3>3. mem'[t] \in Overriding(v) /\ \A k \in DOMAIN writes' : t \notin DOMAIN writes'[k]
      <4>1. v = promise[t]
        BY <1>1
      <4>2. \A records \in [Target -> OwnershipState] : t \in OverrideOn(records) =>
               /\ records[t] \in Overriding(promise[t])
               /\ \A k \in DOMAIN writes' : t \notin DOMAIN writes'[k]
        BY OverrideOnType
      <4> QED BY <3>1, <3>2, <4>1, <4>2
    <3>4. DOMAIN writes' = 1 .. Len(writes') /\ \A k \in 1 .. starting' : k \in 1 .. Len(writes')
      BY <3>2
    <3>5. Leaves(t, Overriding(v), writes', starting', mem')
      BY <3>3, <3>4 DEF Leaves
    <3> HIDE DEF Overriding
    <3> QED BY <3>1, <3>3, <3>5 DEF Secured
  <2>3. t \in kept => Secured(t, Overriding(v))'
    BY <1>2, <2>1
  <2> QED BY <1>1, <2>1, <2>2, <2>3
<1> QED BY <1>3, <1>4

-----------------------------------------------------------------------------
LEMMA RemainingPromise ==
  ASSUME NEW overrides, NEW t \in Target, NEW v \in Time, v = Remaining(overrides)[t], now < v,
         now \in Time
  PROVE  t \in overrides /\ promise[t] = v
BY DEF Remaining, NoTime, Time

LEMMA StopJ ==
  ASSUME JInv, IInv', phase # "down", starting = 0, Down,
         disk' = disk \/ disk' = [state |-> "good", records |-> mem],
         promise' = Remaining(kept'), UNCHANGED <<own, enabled, now, gate>>,
         \A t \in kept' : \/ t \in kept
                          \/ /\ mem[t] \in Overriding(promise[t])
                             /\ disk' = [state |-> "good", records |-> mem]
  PROVE  GateInv' /\ PromiseInv'
<1>1. phase' = "down" /\ writes' = <<>> /\ starting' = 0 /\ DOMAIN writes' = {}
  BY DEF Down
<1>2. ASSUME NEW t, NEW V, Secured(t, V) PROVE Secured(t, V)'
  BY <1>1, <1>2, DownSecured
<1>3. GateInv'
  BY <1>1, <1>2 DEF JInv, GateInv
<1>4. PromiseInv'
  <2> SUFFICES ASSUME NEW t \in Target, NEW v \in Time, v = promise'[t], enabled', now' < v
               PROVE  t \in kept' /\ Secured(t, Overriding(v))'
    BY <1>1 DEF PromiseInv
  <2>1. now \in Time
    BY DEF JInv, KInv, IInv, TypeOK
  <2>2. t \in kept' /\ promise[t] = v
    BY <2>1, RemainingPromise
  <2>3. CASE t \in kept
    <3>1. Secured(t, Overriding(v))
      BY <2>2, <2>3 DEF JInv, PromiseInv
    <3> QED BY <1>2, <2>2, <3>1
  <2>4. CASE t \notin kept
    <3>1. mem[t] \in Overriding(v) /\ disk' = [state |-> "good", records |-> mem]
      BY <2>2, <2>4
    <3> HIDE DEF Overriding
    <3> QED BY <1>1, <2>2, <3>1 DEF Secured
  <2> QED BY <2>3, <2>4
<1> QED BY <1>3, <1>4

LEMMA CrashJ == ASSUME ~StartupFaults, JInv, IInv', Crash PROVE GateInv' /\ PromiseInv'
<1>1. /\ phase # "down" /\ starting = 0 /\ Down /\ disk' = disk
      /\ promise' = Remaining(kept') /\ UNCHANGED <<own, enabled, now, gate, kept>>
  BY DEF Crash, Interrupted, JInv, KInv, IInv, TypeOK
<1> QED BY <1>1, StopJ

LEMMA MarkCleanJ ==
  ASSUME JInv, IInv', NEW saved \in BOOLEAN, MarkClean(saved) PROVE GateInv' /\ PromiseInv'
<1>1. /\ phase # "down" /\ Down /\ promise' = Remaining(kept')
      /\ UNCHANGED <<own, enabled, now, gate>> /\ writes = <<>>
  BY DEF MarkClean, boundVars
<1>2. starting = 0
  BY <1>1 DEF JInv, KInv, PhaseInv, IInv, TypeOK
<1>3. mem \in [Target -> OwnershipState]
  BY DEF JInv, KInv, IInv, TypeOK
<1>4. \/ disk' = disk /\ kept' = kept
      \/ /\ disk' = [state |-> "good", records |-> mem]
         /\ kept' = kept \cup OverrideOn(mem)
  BY DEF MarkClean, Save
<1>5. \A t \in OverrideOn(mem) : mem[t] \in Overriding(promise[t])
  BY <1>3, OverrideOnType
<1> QED BY <1>1, <1>2, <1>4, <1>5, StopJ

LEMMA CancelWritesJ ==
  ASSUME ~StartupFaults, JInv, CancelWrites PROVE GateInv' /\ PromiseInv'
<1>1. /\ UNCHANGED <<phase, own, enabled, requires, now, promise, kept, gate>>
      /\ phase = "unloading"
  BY DEF CancelWrites, runtimeVars, history
<1>2. ASSUME NEW t \in Target, NEW V, Secured(t, V) PROVE Secured(t, V)'
  BY <1>2, CancelSecured DEF JInv
<1>3. GateInv'
  BY <1>1, <1>2 DEF JInv, GateInv
<1>4. PromiseInv'
  BY <1>1, <1>2 DEF JInv, PromiseInv
<1> QED BY <1>3, <1>4

LEMMA CorruptJ == ASSUME JInv, Corrupt PROVE GateInv' /\ PromiseInv'
<1>1. /\ UNCHANGED <<phase, own, enabled, requires, now, promise, kept, gate, writes, mem, starting>>
      /\ phase = "down"
  BY DEF Corrupt, runtimeVars, history
<1>2. disk'.state = "corrupt"
  BY DEF Corrupt, JInv, KInv, IInv, TypeOK
<1>3. ASSUME NEW t \in Target, NEW V, Secured(t, V) PROVE Secured(t, V)'
  BY <1>1, <1>2, <1>3 DEF Secured
<1>4. GateInv'
  BY <1>1, <1>3 DEF JInv, GateInv
<1>5. PromiseInv'
  BY <1>1, <1>3 DEF JInv, PromiseInv
<1> QED BY <1>4, <1>5

LEMMA LoadJ == ASSUME JInv, NEW saved \in BOOLEAN, Load(saved) PROVE GateInv' /\ PromiseInv'
<1>1. /\ phase = "down" /\ phase' = "loaded" /\ writes = <<>> /\ writes' = <<>>
      /\ starting = 0 /\ starting' = 0 /\ UNCHANGED <<enabled, now>>
      /\ own' = [t \in Target |-> InitialOwnership]
  BY DEF Load, JInv, KInv, PhaseInv
<1>2. /\ disk.records \in [Target -> OwnershipState]
      /\ disk.state \in {"missing", "good", "corrupt"} /\ now \in Nat
      /\ gate \in [Target -> {"none", "set", "overridden"}]
  BY DEF JInv, KInv, IInv, TypeOK, Time
<1>3. ASSUME NEW t, NEW V, mem'[t] \in V,
             disk' = [state |-> "good", records |-> mem'] \/ disk'.state = "corrupt"
             \/ (disk'.state = "good" /\ disk'.records[t] \in V)
      PROVE  Secured(t, V)'
  <2>1. Leaves(t, V, writes', starting', mem')
    BY <1>1, <1>3, LeavesNone
  <2>2. DOMAIN writes' = {}
    BY <1>1
  <2> QED BY <1>3, <2>1, <2>2 DEF Secured
<1>4. ASSUME NEW t, NEW V, Secured(t, V)
      PROVE  disk.state = "corrupt" \/ (disk.state = "good" /\ disk.records[t] \in V)
  BY <1>1, <1>4, SecuredPlain
<1>5. \A t \in Target : own'[t].ownership = "disabled"
  BY <1>1, InitialType
<1>6. CASE disk.state = "corrupt"
  <2>1. /\ mem' = Recovered(TRUE) /\ requires' = TRUE
        /\ disk' = (IF saved THEN [state |-> "good", records |-> mem'] ELSE disk)
        /\ promise' = [t \in Target |-> NoTime]
    BY <1>6 DEF Load
  <2>2. \A t \in Target : mem'[t] \in Asking
    <3>1. \A t \in Target : mem'[t] = [ownership |-> "reconciling", resume |-> TRUE, expiry |-> NoTime]
      BY <2>1 DEF Recovered
    <3>2. [ownership |-> "reconciling", resume |-> TRUE, expiry |-> NoTime] \in Asking
      BY BoundAssumption DEF Asking, OwnershipState, Ownership, Time, NoTime
    <3> QED BY <3>1, <3>2
  <2>3. GateInv'
    <3>1. \A t \in Target : Secured(t, Asking)'
      <4> HIDE DEF Asking
      <4> QED BY <1>3, <1>6, <2>1, <2>2
    <3> QED BY <1>1, <1>5, <2>1, <3>1 DEF GateInv
  <2>4. PromiseInv'
    <3>1. \A t \in Target, v \in Time : v = promise'[t] => ~(now' < v)
      BY <1>1, <1>2, <2>1 DEF NoTime
    <3> QED BY <3>1 DEF PromiseInv
  <2> QED BY <2>3, <2>4
<1>7. CASE disk.state = "missing"
  <2>1. gate' = gate /\ promise' = promise /\ kept' = kept
    BY <1>2, <1>7 DEF Load
  <2>2. \A t \in Target : gate[t] = "set" => ~enabled
    BY <1>4, <1>7 DEF JInv, GateInv
  <2>3. \A t \in Target, v \in Time : v = promise[t] /\ now < v => ~enabled
    <3> SUFFICES ASSUME NEW t \in Target, NEW v \in Time, v = promise[t], now < v, enabled
                 PROVE  FALSE
      OBVIOUS
    <3>1. Secured(t, Overriding(v))
      BY <1>1 DEF JInv, PromiseInv
    <3> QED BY <1>4, <1>7, <3>1
  <2>4. GateInv'
    BY <1>1, <1>5, <2>1, <2>2 DEF GateInv
  <2>5. PromiseInv'
    BY <1>1, <2>1, <2>3 DEF PromiseInv
  <2> QED BY <2>4, <2>5
<1>8. CASE disk.state = "good"
  <2>1. /\ gate' = gate /\ promise' = promise /\ kept' = kept
        /\ mem' = Recovered(FALSE) /\ (StoredGate => requires')
        /\ disk' = (IF saved THEN [state |-> "good", records |-> mem'] ELSE disk)
    <3>1. gate' = gate /\ promise' = promise /\ kept' = kept
      BY <1>2, <1>8 DEF Load
    <3>2. (disk.state = "corrupt") = FALSE /\ disk.state # "missing"
      BY <1>8
    <3>3. mem' = Recovered(FALSE)
      BY <3>2 DEF Load
    <3>4. StoredGate => requires'
      BY <1>8, <3>2 DEF Load
    <3>5. disk' = (IF saved THEN [state |-> "good", records |-> mem'] ELSE disk)
      BY DEF Load
    <3> QED BY <3>1, <3>3, <3>4, <3>5
  <2>2. ASSUME NEW t \in Target, NEW V, disk.records[t] \in V, mem'[t] \in V
        PROVE  Secured(t, V)'
    BY <1>3, <1>8, <2>1, <2>2
  <2>3. GateInv'
    <3> SUFFICES ASSUME NEW t \in Target, gate'[t] = "set", enabled
                 PROVE  Secured(t, Asking)' /\ requires'
      BY <1>1, <1>5 DEF GateInv
    <3>1. disk.records[t] \in Asking
      BY <1>4, <1>8, <2>1 DEF JInv, GateInv
    <3>2. StoredGate
      BY <3>1 DEF StoredGate, Asking
    <3>3. mem'[t] = [ownership |-> "reconciling", resume |-> TRUE, expiry |-> disk.records[t].expiry]
      <4>1. disk.records[t].ownership # "manual_override"
        BY <3>1 DEF Asking
      <4>2. (FALSE \/ StoredGate) = TRUE
        BY <3>2
      <4>3. mem' = [u \in Target |->
                      IF FALSE \/ disk.records[u].ownership # "manual_override"
                        THEN [ownership |-> "reconciling", resume |-> TRUE,
                              expiry |-> IF FALSE THEN NoTime ELSE disk.records[u].expiry]
                        ELSE [disk.records[u] EXCEPT !.resume = FALSE]]
        BY <2>1, <4>2 DEF Recovered
      <4> QED BY <4>1, <4>3
    <3>4. mem'[t] \in Asking
      <4>1. disk.records[t].expiry \in Time
        BY <1>2 DEF OwnershipState
      <4> QED BY <3>3, <4>1 DEF Asking, OwnershipState, Ownership
    <3> HIDE DEF Asking
    <3> QED BY <2>1, <2>2, <3>1, <3>2, <3>4
  <2>4. PromiseInv'
    <3> SUFFICES ASSUME NEW t \in Target, NEW v \in Time, v = promise[t], enabled, now < v
                 PROVE  t \in kept /\ Secured(t, Overriding(v))'
      BY <1>1, <2>1 DEF PromiseInv
    <3>1. t \in kept /\ disk.records[t] \in Overriding(v)
      BY <1>1, <1>4, <1>8 DEF JInv, PromiseInv
    <3>2. mem'[t] = [disk.records[t] EXCEPT !.resume = FALSE]
      BY <2>1, <3>1 DEF Recovered, Overriding
    <3>3. mem'[t] \in Overriding(v)
      <4>1. disk.records[t] \in OwnershipState /\ disk.records[t].ownership = "manual_override"
            /\ disk.records[t].expiry = v
        BY <3>1 DEF Overriding
      <4> QED BY <3>2, <4>1 DEF Overriding, OwnershipState
    <3> HIDE DEF Overriding
    <3> QED BY <2>2, <3>1, <3>3
  <2> QED BY <2>3, <2>4
<1> QED BY <1>2, <1>6, <1>7, <1>8

-----------------------------------------------------------------------------
\* What a start makes of a record that asks for Resume, and of an override that is not over.
LEMMA StartedKeeps ==
  ASSUME TypeOK, NEW t \in Target
  PROVE  /\ requires /\ mem[t] \in Asking => Started(t) \in Asking
         /\ \A v \in Time : now < v /\ mem[t] \in Overriding(v) => Started(t) \in Overriding(v)
<1>1. mem[t] \in OwnershipState /\ now \in Time
  BY DEF TypeOK
<1>2. ASSUME requires, mem[t] \in Asking PROVE Started(t) \in Asking
  <2>1. AfterOverrides(t) = Reconciling(FALSE)
    BY <1>2 DEF Asking, AfterOverrides, RestoredOverride, Enable
  <2>2. Gated(t)
    BY <1>2, <2>1, ReconcilingType DEF Gated
  <2>3. Started(t) = [Reconciling(FALSE) EXCEPT !.ownership = "reconciling", !.resume = TRUE]
    BY <2>1, <2>2 DEF Started, UncleanRestart
  <2>4. Started(t) = [ownership |-> "reconciling", expiry |-> NoTime, resume |-> TRUE]
    BY <2>3 DEF Reconciling
  <2>5. NoTime \in Time
    BY BoundAssumption DEF NoTime, Time
  <2> QED BY <2>4, <2>5 DEF Asking, OwnershipState, Ownership
<1>3. ASSUME NEW v \in Time, now < v, mem[t] \in Overriding(v) PROVE Started(t) \in Overriding(v)
  <2>1. mem[t].ownership = "manual_override" /\ mem[t].expiry = v
    BY <1>3 DEF Overriding
  <2>2. ~(now >= mem[t].expiry)
    BY <1>1, <1>3, <2>1 DEF Time
  <2>3. AfterOverrides(t) = mem[t]
    BY <2>1, <2>2 DEF AfterOverrides, RestoredOverride, OverrideExpired
  <2>4. Started(t) = mem[t]
    BY <2>1, <2>3 DEF Started, Gated
  <2> QED BY <1>3, <2>4
<1> QED BY <1>2, <1>3

LEMMA AcquireJ == ASSUME JInv, IInv', Acquire PROVE GateInv' /\ PromiseInv'
<1>1. /\ phase = "loaded" /\ phase' = "running" /\ writes = <<>> /\ starting = 0
      /\ UNCHANGED <<enabled, mem, disk, now, promise, kept, gate>>
  BY DEF Acquire, JInv, KInv, PhaseInv, boundVars, history
<1>2. TypeOK
  BY DEF JInv, KInv, IInv
<1>3. CASE enabled
  <2>1. /\ writes' \in Seq(Write) /\ starting' = Len(writes') /\ starting' \in Nat
        /\ \A t \in Target : /\ own'[t] = Started(t)
                             /\ \A old : Leaves(t, {Started(t)}, writes', Len(writes'), old)
                             /\ \E k \in 1 .. Len(writes') : t \in DOMAIN writes'[k]
    BY <1>2, <1>3, StartWrites DEF Acquire
  <2>2. ASSUME NEW t \in Target, NEW V, Started(t) \in V
        PROVE  Secured(t, V)' /\ own'[t] \in V
    <3>1. Leaves(t, V, writes', starting', mem')
      <4>1. Leaves(t, {Started(t)}, writes', starting', mem')
        BY <2>1
      <4>2. {Started(t)} \subseteq V
        BY <2>2
      <4> QED BY <4>1, <4>2, LeavesMore
    <3>2. \A k \in DOMAIN writes' : ~(k > starting')
      BY <2>1
    <3>3. \E k \in 1 .. starting' : t \in DOMAIN writes'[k]
      BY <2>1
    <3> QED BY <2>1, <2>2, <3>1, <3>2, <3>3 DEF Secured
  <2>3. ASSUME NEW t \in Target, NEW V, Secured(t, V) PROVE mem[t] \in V
    BY <1>1, <2>3, SecuredPlain
  <2>4. GateInv'
    <3> SUFFICES ASSUME NEW t \in Target, gate[t] = "set"
                 PROVE  Secured(t, Asking)' /\ own'[t] \in Asking
      BY <1>1, <1>3, AskingReconciles DEF GateInv
    <3>1. requires /\ mem[t] \in Asking
      BY <1>1, <1>3, <2>3 DEF JInv, GateInv
    <3>2. Started(t) \in Asking
      BY <1>2, <3>1, StartedKeeps
    <3> QED BY <2>2, <3>2
  <2>5. PromiseInv'
    <3> SUFFICES ASSUME NEW t \in Target, NEW v \in Time, v = promise[t], now < v
                 PROVE  Secured(t, Overriding(v))' /\ own'[t] \in Overriding(v)
      BY <1>1 DEF PromiseInv
    <3>1. mem[t] \in Overriding(v)
      BY <1>1, <1>3, <2>3 DEF JInv, PromiseInv
    <3>2. Started(t) \in Overriding(v)
      BY <1>2, <3>1, StartedKeeps
    <3> QED BY <2>2, <3>2
  <2> QED BY <2>4, <2>5
<1>4. CASE ~enabled
  <2>1. \A t \in Target : own'[t].ownership = "disabled"
    BY <1>1, <1>4, InitialType DEF Acquire, JInv, KInv, IInv, OwnInv
  <2> QED BY <1>1, <1>4, <2>1 DEF GateInv, PromiseInv
<1> QED BY <1>3, <1>4

LEMMA InitJ == Init => JInv
<1> SUFFICES ASSUME Init PROVE GateInv /\ PromiseInv
  BY InitK DEF JInv
<1>1. /\ phase = "down" /\ writes = <<>> /\ starting = 0 /\ now = 0
      /\ own = [t \in Target |-> InitialOwnership] /\ mem \in [Target -> StoredState]
      /\ promise = [t \in Target |-> mem[t].expiry]
      /\ kept = {t \in Target : mem[t].expiry # NoTime}
      /\ gate = [t \in Target |-> IF mem[t].resume THEN "set" ELSE "none"]
  BY DEF Init
<1>2. \/ disk = [state |-> "good", records |-> mem]
      \/ mem = [t \in Target |-> Reconciling(FALSE)]
  BY DEF Init
<1>3. ASSUME NEW t \in Target PROVE mem[t] \in StoredState /\ mem[t] \in OwnershipState
  <2>1. StoredState \subseteq OwnershipState
    BY ReconcilingType, OverrideType DEF StoredState
  <2> QED BY <1>1, <2>1
<1>4. ASSUME NEW t \in Target, NEW V, mem[t] \in V, mem[t] # Reconciling(FALSE)
      PROVE  Secured(t, V)
  <2>1. mem # [u \in Target |-> Reconciling(FALSE)]
    BY <1>4
  <2>2. disk = [state |-> "good", records |-> mem]
    BY <1>2, <2>1
  <2>3. disk.state = "good" /\ disk.records[t] \in V
    BY <1>4, <2>2
  <2> QED BY <1>1, <2>3, SecuredPlain
<1>5. GateInv
  <2> SUFFICES ASSUME NEW t \in Target, gate[t] = "set"
               PROVE  own[t].ownership # "owned" /\ Secured(t, Asking)
    BY <1>1 DEF GateInv
  <2>1. mem[t].resume
    BY <1>1
  <2>2. mem[t] # Reconciling(FALSE) /\ \A e \in Time : mem[t] # Override(e)
    BY <2>1 DEF Reconciling, Override
  <2>3. mem[t] = Reconciling(TRUE)
    BY <1>3, <2>2 DEF StoredState
  <2>4. mem[t] \in Asking
    BY <1>3, <2>3 DEF Asking, Reconciling
  <2>5. own[t].ownership # "owned"
    BY <1>1, InitialType
  <2> QED BY <1>4, <2>2, <2>4, <2>5
<1>6. PromiseInv
  <2> SUFFICES ASSUME NEW t \in Target, NEW v \in Time, v = promise[t], now < v
               PROVE  t \in kept /\ Secured(t, Overriding(v))
    BY <1>1 DEF PromiseInv
  <2>1. mem[t].expiry = v /\ v # NoTime
    BY <1>1 DEF NoTime
  <2>2. mem[t] # Reconciling(FALSE) /\ mem[t] # Reconciling(TRUE)
    BY <2>1 DEF Reconciling
  <2>3. mem[t].ownership = "manual_override"
    BY <1>3, <2>2, OverrideType DEF StoredState
  <2>4. mem[t] \in Overriding(v)
    BY <1>3, <2>1, <2>3 DEF Overriding
  <2> QED BY <1>1, <1>4, <2>1, <2>2, <2>4
<1> QED BY <1>5, <1>6

LEMMA NextJ == ASSUME ~StartupFaults PROVE JInv /\ [Next]_vars => JInv'
<1> SUFFICES ASSUME JInv, [Next]_vars PROVE GateInv' /\ PromiseInv'
  BY NextK DEF JInv
<1>0. KInv' /\ IInv'
  BY NextK DEF JInv, KInv
<1>1. ASSUME NEW saved \in BOOLEAN, Load(saved) \/ WriteDone(saved) \/ MarkClean(saved)
      PROVE  GateInv' /\ PromiseInv'
  BY <1>0, <1>1, LoadJ, WriteDoneJ, MarkCleanJ
<1>2. ASSUME NEW t \in Target,
             \/ ExternalTarget(t) \/ ExpiryTimer(t) \/ ResumeTarget(t)
             \/ \E ready \in Readiness : ClimateChange(t, ready)
      PROVE  GateInv' /\ PromiseInv'
  BY <1>0, <1>2, ZoneJ
<1>3. ASSUME NEW verdict \in [Target -> {"ready", "held", "unusable"}], Calculation(verdict)
      PROVE  GateInv' /\ PromiseInv'
  BY <1>0, <1>3, CalculationJ
<1>4. CASE Acquire \/ SetControlEnabled \/ OtherWrite
  BY <1>0, <1>4, AcquireJ, SetControlEnabledJ, OtherWriteJ
<1>5. CASE Crash \/ CancelWrites \/ Corrupt
  BY <1>0, <1>5, CrashJ, CancelWritesJ, CorruptJ
<1>6. CASE PressResume \/ Unload \/ Tick \/ UNCHANGED vars
           \/ \E t \in Target : FirstObservation(t)
  BY <1>6, QuietJ DEF PressResume, Unload, Tick, FirstObservation, vars, runtimeVars,
                      storeVars, boundVars, history
<1> QED BY <1>1, <1>2, <1>3, <1>4, <1>5, <1>6 DEF Next

\* Once set, the gate of a corrupt store holds through later runs, provided that nothing
\* stops the zone or fails a write among the writes of one start.
THEOREM GateKept == ASSUME ~StartupFaults PROVE Spec => []GateHolds
<1>1. JInv => GateHolds
  BY DEF JInv, GateInv, GateHolds
<1>2. JInv /\ [Next]_vars => JInv'
  BY NextJ
<1> QED BY <1>1, <1>2, InitJ, PTL DEF Spec

\* An override of the user is in force, with its expiry, until it is over, across every
\* restart once it has been saved, under the same assumption.
THEOREM OverridesKept == ASSUME ~StartupFaults PROVE Spec => []OverrideKept
<1>1. JInv => OverrideKept
  <2> SUFFICES ASSUME JInv, phase = "running", enabled, NEW t \in Target, now < promise[t]
               PROVE  own[t].ownership = "manual_override" /\ own[t].expiry = promise[t]
    BY DEF OverrideKept
  <2>1. promise[t] \in Time
    BY DEF JInv, KInv, IInv, TypeOK
  <2>2. own[t] \in Overriding(promise[t])
    BY <2>1 DEF JInv, PromiseInv
  <2> QED BY <2>2 DEF Overriding
<1>2. JInv /\ [Next]_vars => JInv'
  BY NextJ
<1> QED BY <1>1, <1>2, InitJ, PTL DEF Spec
=============================================================================
