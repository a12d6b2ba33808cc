----------------------------- MODULE LifecycleProofs -----------------------------
(* Leases and timed modes, and the types of all that MCLifecycle puts side by side. *)
(* A zone that runs with its control enabled may command its targets, for any       *)
(* number of zones and climate entities; Boost and Preheat are never without an end *)
(* that the user gave them, and a rapid Boost that has come near its goal stays     *)
(* there, for any durations and any number of selections, failed saves, reloads and *)
(* crashes.                                                                         *)
EXTENDS MCLifecycle, ZoneControllerProofs, ControlStoreProofs

-----------------------------------------------------------------------------
(* Target leases                                                             *)

\* The two invariants that prove each other: a zone that has started, enabled, holds
\* the lease of each of its targets and has enabled it.
Holds(z) == \A t \in configured[z] : owner[t] = z /\ t \in owned[z]
Alive(z) == life[z] \in {"starting", "up"}
LInv ==
  /\ LeaseTypeOK
  /\ \A z \in Household : Alive(z) => gateOpen[z]
  /\ \A z \in Household : (Alive(z) /\ enabled[z]) => Holds(z)

\* A zone gives back only what it holds.
LEMMA ReleasedSpares ==
  ASSUME NEW z \in Household, NEW y \in Household \ {z}, NEW targets \in SUBSET Climate,
         NEW t \in Climate
  PROVE  owner[t] = y => Released(z, targets)[t] = y
BY DEF Released

\* The registry stays a function into the zones, whoever acquires or releases.
LEMMA RegistryTypes ==
  ASSUME LeaseTypeOK, NEW z \in Household, NEW targets \in SUBSET Climate
  PROVE  /\ Acquired(z, targets) \in [Climate -> Household \cup {Unleased}]
         /\ Released(z, targets) \in [Climate -> Household \cup {Unleased}]
BY DEF LeaseTypeOK, Acquired, Released

LEMMA LeaseInitially == LeaseInit => LInv
BY LeaseAssumption DEF LeaseInit, LInv, LeaseTypeOK, Stages, Alive

LEMMA LeaseSteps == LInv /\ [LeaseNext]_leaseVars => LInv'
<1> SUFFICES ASSUME LInv, [LeaseNext]_leaseVars PROVE LInv'
  OBVIOUS
<1> USE LeaseAssumption
<1>1. CASE UNCHANGED leaseVars
  BY <1>1 DEF LInv, LeaseTypeOK, Alive, Holds, leaseVars
<1>2. ASSUME NEW z \in Household, StartZone(z) PROVE LInv'
  <2> USE <1>2 DEF StartZone, LInv, Alive, Holds
  <2>1. LeaseTypeOK'
    <3>1. Acquired(z, configured[z]) \in [Climate -> Household \cup {Unleased}]
      BY RegistryTypes DEF LeaseTypeOK
    <3> QED BY <3>1 DEF LeaseTypeOK, Stages, UserStep
  <2>2. \A y \in Household : Alive(y)' => gateOpen'[y]
    BY DEF LeaseTypeOK
  <2>3. \A y \in Household : (Alive(y)' /\ enabled'[y]) => Holds(y)'
    BY DEF LeaseTypeOK, Acquired, Taken
  <2> QED BY <2>1, <2>2, <2>3
<1>3. ASSUME NEW z \in Household, StartRefused(z) PROVE LInv'
  <2> USE <1>3 DEF StartRefused, LInv, Alive, Holds
  <2>1. PICK before \in SUBSET Climate : owner' = Released(z, before)
    BY DEF LeaseTypeOK
  <2>2. LeaseTypeOK'
    BY <2>1, RegistryTypes DEF LeaseTypeOK, UserStep
  <2>3. \A y \in Household : (Alive(y)' /\ enabled'[y]) => Holds(y)'
    BY <2>1, ReleasedSpares DEF LeaseTypeOK
  <2> QED BY <2>2, <2>3
<1>4. ASSUME NEW z \in Household, StartEnds(z) PROVE LInv'
  <2> USE <1>4 DEF StartEnds, LInv, Alive, Holds
  <2>1. LeaseTypeOK'
    BY DEF LeaseTypeOK, Stages
  <2>2. \A y \in Household : Alive(y)' => gateOpen'[y]
    BY DEF LeaseTypeOK
  <2>3. \A y \in Household : (Alive(y)' /\ enabled'[y]) => Holds(y)'
    BY DEF LeaseTypeOK
  <2> QED BY <2>1, <2>2, <2>3
<1>5. ASSUME NEW z \in Household, StartFails(z) PROVE LInv'
  <2> USE <1>5 DEF StartFails, LInv, Alive, Holds
  <2>1. LeaseTypeOK'
    BY DEF LeaseTypeOK, Stages, UserStep
  <2>2. \A y \in Household : Alive(y)' => gateOpen'[y]
    BY DEF LeaseTypeOK
  <2>3. \A y \in Household : (Alive(y)' /\ enabled'[y]) => Holds(y)'
    BY DEF LeaseTypeOK
  <2> QED BY <2>1, <2>2, <2>3
<1>6. ASSUME NEW z \in Household, ReconfigureIdle(z) PROVE LInv'
  <2> USE <1>6 DEF ReconfigureIdle, LInv, Alive, Holds
  <2>1. LeaseTypeOK'
    BY DEF LeaseTypeOK, UserStep
  <2>2. \A y \in Household : (Alive(y)' /\ enabled'[y]) => Holds(y)'
    BY DEF LeaseTypeOK
  <2> QED BY <2>1, <2>2
<1>7. ASSUME NEW z \in Household, Reconfigure(z) PROVE LInv'
  <2> USE <1>7 DEF Reconfigure, LInv, Alive, Holds
  <2>1. LeaseTypeOK'
    BY DEF LeaseTypeOK, Stages, UserStep
  <2>2. \A y \in Household : Alive(y)' => gateOpen'[y]
    BY DEF LeaseTypeOK
  <2>3. \A y \in Household : (Alive(y)' /\ enabled'[y]) => Holds(y)'
    BY DEF LeaseTypeOK
  <2> QED BY <2>1, <2>2, <2>3
<1>8. ASSUME NEW z \in Household, UnloadBegins(z) PROVE LInv'
  <2> USE <1>8 DEF UnloadBegins, LInv, Alive, Holds
  <2>1. LeaseTypeOK'
    BY DEF LeaseTypeOK, Stages, UserStep
  <2>2. \A y \in Household : Alive(y)' => gateOpen'[y]
    BY DEF LeaseTypeOK
  <2>3. \A y \in Household : (Alive(y)' /\ enabled'[y]) => Holds(y)'
    BY DEF LeaseTypeOK
  <2> QED BY <2>1, <2>2, <2>3
<1>9. ASSUME NEW z \in Household, PlatformsGone(z) PROVE LInv'
  <2> USE <1>9 DEF PlatformsGone, LInv, Alive, Holds
  <2>1. LeaseTypeOK'
    BY DEF LeaseTypeOK, Stages
  <2>2. \A y \in Household : Alive(y)' => gateOpen'[y]
    BY DEF LeaseTypeOK
  <2>3. \A y \in Household : (Alive(y)' /\ enabled'[y]) => Holds(y)'
    BY DEF LeaseTypeOK
  <2> QED BY <2>1, <2>2, <2>3
<1>10. ASSUME NEW z \in Household, UnloadEnds(z) PROVE LInv'
  <2> USE <1>10 DEF UnloadEnds, LInv, Alive, Holds
  <2>1. LeaseTypeOK'
    BY RegistryTypes DEF LeaseTypeOK, Stages
  <2>2. \A y \in Household : (Alive(y)' /\ enabled'[y]) => Holds(y)'
    BY ReleasedSpares DEF LeaseTypeOK
  <2> QED BY <2>1, <2>2 DEF LeaseTypeOK
<1>11. ASSUME NEW z \in Household, TurnOn(z) PROVE LInv'
  <2> USE <1>11 DEF TurnOn, LInv, Alive, Holds
  <2>1. LeaseTypeOK'
    <3>1. Acquired(z, configured[z]) \in [Climate -> Household \cup {Unleased}]
      BY RegistryTypes DEF LeaseTypeOK
    <3> QED BY <3>1 DEF LeaseTypeOK, UserStep
  <2>2. \A y \in Household : (Alive(y)' /\ enabled'[y]) => Holds(y)'
    BY DEF LeaseTypeOK, Acquired, Taken
  <2> QED BY <2>1, <2>2
<1>12. ASSUME NEW z \in Household, TurnOnRefused(z) PROVE LInv'
  <2> USE <1>12 DEF TurnOnRefused, LInv, Alive, Holds
  <2>1. PICK before \in SUBSET Climate : owner' = Released(z, before)
    BY DEF LeaseTypeOK
  <2>2. LeaseTypeOK'
    BY <2>1, RegistryTypes DEF LeaseTypeOK, UserStep
  <2>3. \A y \in Household : (Alive(y)' /\ enabled'[y]) => Holds(y)'
    BY <2>1, ReleasedSpares DEF LeaseTypeOK
  <2> QED BY <2>2, <2>3
<1>13. ASSUME NEW z \in Household, TurnOff(z) PROVE LInv'
  <2> USE <1>13 DEF TurnOff, LInv, Alive, Holds
  <2>1. LeaseTypeOK'
    BY RegistryTypes DEF LeaseTypeOK, UserStep
  <2>2. \A y \in Household : (Alive(y)' /\ enabled'[y]) => Holds(y)'
    BY ReleasedSpares DEF LeaseTypeOK
  <2> QED BY <2>1, <2>2
<1> QED
  BY <1>1, <1>2, <1>3, <1>4, <1>5, <1>6, <1>7, <1>8, <1>9, <1>10, <1>11, <1>12, <1>13 DEF LeaseNext

\* The registry, the life of the zones and their switches keep their types in every
\* order of starts, refusals, reconfigurations, unloads and switches.
THEOREM LeaseTypes == LeaseSpec => []LeaseTypeOK
<1>1. LInv => LeaseTypeOK
  BY DEF LInv
<1> QED BY LeaseInitially, LeaseSteps, <1>1, PTL DEF LeaseSpec

\* No start, refusal, unload or switch of another zone takes a target away from a zone
\* that runs with its control enabled.
THEOREM LeasesAreKept == LeaseSpec => []LeaseKept
<1>1. LInv => LeaseKept
  BY DEF LInv, LeaseTypeOK, LeaseKept, Drives, Alive, Holds
<1> QED BY LeaseInitially, LeaseSteps, <1>1, PTL DEF LeaseSpec

-----------------------------------------------------------------------------
(* Timed modes                                                               *)

EndTimes == Nat \cup {NoTime}
RuntimeStates == [reached : BOOLEAN, boost : EndTimes, preheat : EndTimes]

TypesInv ==
  /\ ModesTypeOK
  /\ granted \in [boost : Nat, preheat : Nat]
  /\ saves \in Seq(RuntimeStates) /\ store \in RuntimeStates /\ held \in RuntimeStates
  /\ snapshot # NoTime => snapshot.phase \in BoostModes \cup {"approach"}

\* No record, saved or waiting, has an end that the user did not give.
EndsWithin(record, ends) ==
  /\ record.boost # NoTime => record.boost <= ends.boost
  /\ record.preheat # NoTime => record.preheat <= ends.preheat
EndsInv ==
  /\ BoundedModes /\ EndsWithin(store, granted) /\ EndsWithin(held, granted)
  /\ \A i \in 1 .. Len(saves) : EndsWithin(saves[i], granted)

\* What the store, in memory and on disk, will hold when every save has been done.
Final(record) == IF saves = << >> THEN record ELSE saves[Len(saves)]

\* A latch without an approach of the selection that is in force was brought back by a
\* restart: then no other value is left anywhere.
LatchInv ==
  /\ snapshot # NoTime /\ snapshot.phase \in {"rapid", "approach"} => mode = "rapid"
  /\ (reached /\ ~approached) =>
       store.reached /\ held.reached /\ \A i \in 1 .. Len(saves) : saves[i].reached
  /\ (approached /\ ~lost) =>
       /\ mode = "rapid" /\ reached /\ Final(store).reached /\ Final(held).reached
       /\ snapshot # NoTime => snapshot.phase # "rapid"
       /\ output # "rapid"

MInv == TypesInv /\ EndsInv /\ LatchInv

-----------------------------------------------------------------------------
LEMMA Joined ==
  ASSUME NEW S, NEW q \in Seq(S), NEW e \in S
  PROVE  /\ Append(q, e) \in Seq(S) /\ Len(q) \in Nat /\ Len(Append(q, e)) = Len(q) + 1
         /\ \A i \in 1 .. Len(q) : Append(q, e)[i] = q[i]
         /\ Append(q, e)[Len(q) + 1] = e /\ Append(q, e) # << >>
OBVIOUS

LEMMA Left ==
  ASSUME NEW S, NEW q \in Seq(S), q # << >>
  PROVE  /\ Tail(q) \in Seq(S) /\ Len(q) \in Nat \ {0} /\ Len(Tail(q)) = Len(q) - 1
         /\ \A i \in 1 .. Len(Tail(q)) : i + 1 \in 1 .. Len(q) /\ Tail(q)[i] = q[i + 1]
         /\ Head(q) = q[1] /\ Head(q) \in S
         /\ Tail(q) # << >> => Len(Tail(q)) > 0
         /\ Tail(q) = << >> => Len(q) = 1
<1>1. /\ Tail(q) \in Seq(S) /\ Len(q) \in Nat \ {0} /\ Len(Tail(q)) = Len(q) - 1
      /\ \A i \in 1 .. Len(Tail(q)) : i + 1 \in 1 .. Len(q) /\ Tail(q)[i] = q[i + 1]
      /\ Head(q) = q[1] /\ Head(q) \in S
  OBVIOUS
<1>2. Tail(q) # << >> => Len(Tail(q)) > 0
  BY <1>1
<1>3. Len(<< >>) = 0
  OBVIOUS
<1>4. ASSUME Tail(q) = << >> PROVE Len(q) = 1
  <2>1. Len(Tail(q)) = 0
    BY <1>3, <1>4
  <2> QED BY <2>1, <1>1
<1> QED BY <1>1, <1>2, <1>4

LEMMA ModeSpans == BoostSpan \in Nat \ {0} /\ PreheatSpan \in Nat \ {0} /\ NoTime \notin Nat
BY ModesAssumption

\* A record of the present values joins the waiting saves.
LEMMA Appends ==
  ASSUME MInv, NEW r \in RuntimeStates, saves' = Append(saves, r)
  PROVE  /\ saves' \in Seq(RuntimeStates)
         /\ Final(store)' = r /\ Final(held)' = r
         /\ (r.reached /\ \A i \in 1 .. Len(saves) : saves[i].reached) =>
              \A i \in 1 .. Len(saves') : saves'[i].reached
<1>1. saves \in Seq(RuntimeStates)
  BY DEF MInv, TypesInv
<1>2. /\ saves' \in Seq(RuntimeStates) /\ Len(saves) \in Nat /\ Len(saves') = Len(saves) + 1
      /\ \A i \in 1 .. Len(saves) : saves'[i] = saves[i]
      /\ saves'[Len(saves) + 1] = r /\ saves' # << >>
  BY <1>1, Joined
<1>3. Final(store)' = r /\ Final(held)' = r
  BY <1>2 DEF Final
<1>4. ASSUME r.reached, \A i \in 1 .. Len(saves) : saves[i].reached, NEW i \in 1 .. Len(saves')
      PROVE  saves'[i].reached
  <2>1. i \in 1 .. Len(saves) \/ i = Len(saves) + 1
    BY <1>2
  <2> QED BY <2>1, <1>2, <1>4
<1> QED BY <1>2, <1>3, <1>4

\* The user gives no end back: what was within the old ends is within the new ones.
LEMMA Grows ==
  ASSUME NEW a \in [boost : Nat, preheat : Nat], NEW b \in [boost : Nat, preheat : Nat],
         a.boost <= b.boost, a.preheat <= b.preheat,
         NEW x \in RuntimeStates, EndsWithin(x, a)
  PROVE  EndsWithin(x, b)
BY ModeSpans DEF EndsWithin, RuntimeStates, EndTimes

LEMMA AppendsWithin ==
  ASSUME MInv, NEW r \in RuntimeStates, saves' = Append(saves, r),
         granted' \in [boost : Nat, preheat : Nat],
         granted.boost <= granted'.boost, granted.preheat <= granted'.preheat,
         EndsWithin(r, granted')
  PROVE  /\ EndsWithin(store, granted') /\ EndsWithin(held, granted')
         /\ \A i \in 1 .. Len(saves') : EndsWithin(saves'[i], granted')
<1>1. /\ saves \in Seq(RuntimeStates) /\ store \in RuntimeStates /\ held \in RuntimeStates
      /\ granted \in [boost : Nat, preheat : Nat]
      /\ EndsWithin(store, granted) /\ EndsWithin(held, granted)
      /\ \A i \in 1 .. Len(saves) : EndsWithin(saves[i], granted)
  BY DEF MInv, TypesInv, EndsInv
<1>2. /\ Len(saves) \in Nat /\ Len(saves') = Len(saves) + 1
      /\ \A i \in 1 .. Len(saves) : saves'[i] = saves[i]
      /\ saves'[Len(saves) + 1] = r
  BY <1>1, Joined
<1>3. EndsWithin(store, granted') /\ EndsWithin(held, granted')
  BY <1>1, Grows
<1>4. ASSUME NEW i \in 1 .. Len(saves') PROVE EndsWithin(saves'[i], granted')
  <2>1. CASE i \in 1 .. Len(saves)
    <3>1. saves[i] \in RuntimeStates /\ EndsWithin(saves[i], granted) /\ saves'[i] = saves[i]
      BY <2>1, <1>1, <1>2
    <3> QED BY <3>1, <1>1, Grows
  <2>2. CASE i = Len(saves) + 1
    BY <2>2, <1>2
  <2> QED BY <2>1, <2>2, <1>2
<1> QED BY <1>3, <1>4

-----------------------------------------------------------------------------
(* The user and the timers *)

LEMMA CaptureFacts ==
  ASSUME NEW marked \in BOOLEAN, NEW preheating \in BOOLEAN, mode' \in BoostModes,
         explicit \in BOOLEAN, Captures(marked, preheating)
  PROVE  /\ explicit' \in BOOLEAN
         /\ snapshot'.phase \in BoostModes \cup {"approach"}
         /\ snapshot'.phase \in {"rapid", "approach"} => mode' = "rapid"
         /\ snapshot'.phase = "rapid" => ~reached'
<1>1. explicit' = (explicit \/ (marked \/ ProfileMoves(Resolved(preheating))))
  BY DEF Captures
<1>2. explicit' \in BOOLEAN
  BY <1>1, Zenon
<1>3. PICK near \in BOOLEAN : snapshot' = [phase |-> Phase(mode', reached', near)]
  BY DEF Captures
<1>4. snapshot'.phase = Phase(mode', reached', near)
  BY <1>3
<1> QED BY <1>2, <1>4 DEF Phase, BoostModes

\* A step that writes the modes, asks for a snapshot and saves: a new selection or the
\* end of one, or a step that leaves the Boost alone.
LEMMA Requests ==
  ASSUME MInv, NEW marked \in BOOLEAN, NEW preheating \in BOOLEAN,
         Captures(marked, preheating), Persist,
         when' = when, mode' \in BoostModes, reached' \in BOOLEAN,
         boostUntil' \in EndTimes, preheatUntil' \in EndTimes, BoundedModes',
         granted' \in [boost : Nat, preheat : Nat],
         granted.boost <= granted'.boost, granted.preheat <= granted'.preheat,
         UNCHANGED <<output, held, store, disk>>,
         \/ reached' = FALSE /\ approached' = FALSE /\ lost' = FALSE
         \/ UNCHANGED <<mode, reached, approached, lost>>
  PROVE  MInv'
<1> DEFINE r == RuntimeState(reached', boostUntil', preheatUntil')
<1>1. /\ r \in RuntimeStates /\ r.reached = reached'
      /\ r.boost = boostUntil' /\ r.preheat = preheatUntil'
  BY DEF RuntimeState, RuntimeStates
<1>2. saves' = Append(saves, r)
  BY DEF Persist
<1>3. EndsWithin(r, granted')
  BY <1>1 DEF EndsWithin, BoundedModes
<1> HIDE DEF r
<1>4. /\ saves' \in Seq(RuntimeStates) /\ Final(store)' = r /\ Final(held)' = r
      /\ (r.reached /\ \A i \in 1 .. Len(saves) : saves[i].reached) =>
           \A i \in 1 .. Len(saves') : saves'[i].reached
  BY <1>1, <1>2, Appends
<1>5. /\ EndsWithin(store, granted') /\ EndsWithin(held, granted')
      /\ \A i \in 1 .. Len(saves') : EndsWithin(saves'[i], granted')
  BY <1>1, <1>2, <1>3, AppendsWithin
<1>6. /\ explicit' \in BOOLEAN /\ snapshot'.phase \in BoostModes \cup {"approach"}
      /\ snapshot'.phase \in {"rapid", "approach"} => mode' = "rapid"
      /\ snapshot'.phase = "rapid" => ~reached'
  BY CaptureFacts DEF MInv, TypesInv, ModesTypeOK
<1>7. TypesInv'
  BY <1>4, <1>6 DEF MInv, TypesInv, ModesTypeOK, EndTimes
<1>8. EndsInv'
  BY <1>5 DEF EndsInv
<1>9. LatchInv'
  <2>1. CASE reached' = FALSE /\ approached' = FALSE /\ lost' = FALSE
    BY <2>1, <1>6 DEF LatchInv
  <2>2. CASE UNCHANGED <<mode, reached, approached, lost>>
    <3>1. ASSUME reached', ~approached'
          PROVE  store'.reached /\ held'.reached
                 /\ \A i \in 1 .. Len(saves') : saves'[i].reached
      BY <3>1, <2>2, <1>1, <1>4 DEF MInv, LatchInv
    <3>2. ASSUME approached', ~lost'
          PROVE  /\ mode' = "rapid" /\ reached' /\ Final(store)'.reached /\ Final(held)'.reached
                 /\ snapshot'.phase # "rapid" /\ output' # "rapid"
      BY <3>2, <2>2, <1>1, <1>4, <1>6 DEF MInv, LatchInv
    <3> QED BY <3>1, <3>2, <1>6 DEF LatchInv
  <2> QED BY <2>1, <2>2
<1> QED BY <1>7, <1>8, <1>9 DEF MInv

LEMMA UntilIsBoolean == ASSUME NEW e PROVE Until(e) \in BOOLEAN
BY Zenon DEF Until

LEMMA BoostSteps ==
  ASSUME MInv, BoostExpires \/ \E m \in BoostModes : SelectBoost(m)
  PROVE  MInv'
<1>1. ASSUME NEW m \in BoostModes, SelectBoost(m) PROVE MInv'
  <2>1. /\ when' = when /\ mode' = m /\ reached' = FALSE
        /\ approached' = FALSE /\ lost' = FALSE /\ preheatUntil' = preheatUntil
        /\ Captures(TRUE, Until(preheatUntil)) /\ Persist
        /\ UNCHANGED <<output, held, store, disk>>
        /\ boostUntil' = IF m = "off" THEN NoTime ELSE when + BoostSpan
        /\ granted' = IF m = "off" THEN granted
                      ELSE [granted EXCEPT !.boost = MaxTime(@, when + BoostSpan)]
    BY <1>1 DEF SelectBoost
  <2>2. /\ when \in Nat /\ granted \in [boost : Nat, preheat : Nat]
        /\ preheatUntil \in EndTimes
    BY DEF MInv, TypesInv, ModesTypeOK, EndTimes
  <2>3. /\ granted' \in [boost : Nat, preheat : Nat]
        /\ granted.boost <= granted'.boost /\ granted'.preheat = granted.preheat
        /\ boostUntil' \in EndTimes
        /\ m # "off" => when + BoostSpan <= granted'.boost
    BY <2>1, <2>2, ModeSpans DEF MaxTime, EndTimes
  <2>4. BoundedModes'
    BY <2>1, <2>2, <2>3, ModeSpans DEF BoundedModes, MInv, EndsInv
  <2>5. granted.preheat <= granted'.preheat
    BY <2>2, <2>3
  <2>6. mode' \in BoostModes /\ reached' \in BOOLEAN /\ preheatUntil' \in EndTimes
    BY <2>1, <2>2, Zenon
  <2>7. Until(preheatUntil) \in BOOLEAN
    BY UntilIsBoolean
  <2> QED BY <2>1, <2>3, <2>4, <2>5, <2>6, <2>7, Requests
<1>2. ASSUME BoostExpires PROVE MInv'
  <2>1. /\ when' = when /\ mode' = "off" /\ reached' = FALSE /\ boostUntil' = NoTime
        /\ approached' = FALSE /\ lost' = FALSE /\ preheatUntil' = preheatUntil
        /\ Captures(TRUE, Until(preheatUntil)) /\ Persist
        /\ UNCHANGED <<output, held, store, disk, granted>>
    BY <1>2 DEF BoostExpires, clockVars
  <2>2. /\ granted \in [boost : Nat, preheat : Nat] /\ preheatUntil \in EndTimes
        /\ NoTime \in EndTimes /\ "off" \in BoostModes
    BY DEF MInv, TypesInv, ModesTypeOK, EndTimes, BoostModes
  <2>3. BoundedModes'
    BY <2>1 DEF BoundedModes, MInv, EndsInv
  <2>4. granted.preheat <= granted.preheat /\ granted.boost <= granted.boost
    BY <2>2
  <2>5. /\ mode' \in BoostModes /\ reached' \in BOOLEAN
        /\ preheatUntil' \in EndTimes /\ boostUntil' \in EndTimes
        /\ granted' \in [boost : Nat, preheat : Nat]
    BY <2>1, <2>2, Zenon
  <2>6. Until(preheatUntil) \in BOOLEAN
    BY UntilIsBoolean
  <2> QED BY <2>1, <2>3, <2>4, <2>5, <2>6, Requests
<1> QED BY <1>1, <1>2

LEMMA PreheatSteps ==
  ASSUME MInv, StartPreheat \/ StopPreheat \/ PreheatExpires \/ OtherTransition
  PROVE  MInv'
<1>1. /\ when \in Nat /\ granted \in [boost : Nat, preheat : Nat]
      /\ mode \in BoostModes /\ reached \in BOOLEAN
      /\ boostUntil \in EndTimes /\ preheatUntil \in EndTimes /\ NoTime \in EndTimes
  BY DEF MInv, TypesInv, ModesTypeOK, EndTimes
<1>2. granted.boost <= granted.boost /\ granted.preheat <= granted.preheat
  BY <1>1
<1>3. Until(preheatUntil) \in BOOLEAN
  BY UntilIsBoolean
<1>4. CASE StartPreheat
  <2>1. /\ when' = when /\ preheatUntil' = when + PreheatSpan
        /\ granted' = [granted EXCEPT !.preheat = MaxTime(@, when + PreheatSpan)]
        /\ UNCHANGED <<mode, reached, boostUntil, approached, lost, output, held, store, disk>>
        /\ Captures(FALSE, TRUE) /\ Persist
    BY <1>4 DEF StartPreheat
  <2>2. /\ granted' \in [boost : Nat, preheat : Nat]
        /\ granted'.boost = granted.boost /\ granted.preheat <= granted'.preheat
        /\ preheatUntil' \in EndTimes /\ when + PreheatSpan <= granted'.preheat
    BY <2>1, <1>1, ModeSpans DEF MaxTime, EndTimes
  <2>3. BoundedModes'
    BY <2>1, <2>2, <1>1, ModeSpans DEF BoundedModes, MInv, EndsInv
  <2>4. granted.boost <= granted'.boost /\ mode' \in BoostModes /\ reached' \in BOOLEAN
        /\ boostUntil' \in EndTimes
    BY <2>1, <2>2, <1>1
  <2> QED BY <2>1, <2>2, <2>3, <2>4, Requests
<1>5. CASE StopPreheat \/ PreheatExpires
  <2>1. /\ when' = when /\ preheatUntil' = NoTime
        /\ UNCHANGED <<mode, reached, boostUntil, granted, approached, lost>>
        /\ UNCHANGED <<output, held, store, disk>>
        /\ Captures(FALSE, FALSE) /\ Persist
    BY <1>5 DEF StopPreheat, PreheatExpires, PreheatStopped, historyVars
  <2>2. BoundedModes'
    BY <2>1 DEF BoundedModes, MInv, EndsInv
  <2> QED BY <2>1, <2>2, <1>1, <1>2, Requests
<1>6. CASE OtherTransition
  <2>1. /\ when' = when
        /\ UNCHANGED <<mode, reached, boostUntil, preheatUntil, granted, approached, lost>>
        /\ UNCHANGED <<output, held, store, disk>>
        /\ Captures(TRUE, Until(preheatUntil)) /\ Persist
    BY <1>6 DEF OtherTransition, modeVars, historyVars
  <2>2. BoundedModes'
    BY <2>1 DEF BoundedModes, MInv, EndsInv
  <2> QED BY <2>1, <2>2, <1>1, <1>2, <1>3, Requests
<1> QED BY <1>4, <1>5, <1>6

-----------------------------------------------------------------------------
(* Snapshots and results *)

\* Steps that touch neither the modes nor the records.
LEMMA QuietSteps ==
  ASSUME MInv, SourceEvent \/ Debounced \/ PublishHeld \/ MinutePasses
               \/ OptionsWritten \/ UNCHANGED modesVars
  PROVE  MInv'
<1>1. /\ UNCHANGED <<mode, reached, boostUntil, preheatUntil, saves, held, store, granted, approached,
                     lost>>
      /\ disk' \in BoostModes
      /\ output' = output \/ output' = "held"
      /\ when' = when \/ (when' = when + 1 /\ when \notin {boostUntil, preheatUntil})
  BY DEF SourceEvent, Debounced, PublishHeld, MinutePasses, OptionsWritten, modesVars, clockVars,
         modeVars, recordVars, historyVars, MInv, TypesInv, ModesTypeOK
<1>2. \/ UNCHANGED <<snapshot, explicit>>
      \/ snapshot' = NoTime /\ explicit' = TRUE
      \/ Captures(FALSE, Until(preheatUntil))
  BY DEF SourceEvent, Debounced, PublishHeld, MinutePasses, OptionsWritten, modesVars
<1>3. mode \in BoostModes /\ explicit \in BOOLEAN
  BY DEF MInv, TypesInv, ModesTypeOK
<1>4. \/ UNCHANGED snapshot \/ snapshot' = NoTime
      \/ /\ snapshot'.phase \in BoostModes \cup {"approach"}
         /\ snapshot'.phase \in {"rapid", "approach"} => mode' = "rapid"
         /\ snapshot'.phase = "rapid" => ~reached'
  BY <1>1, <1>2, <1>3, CaptureFacts, UntilIsBoolean
<1>5. explicit' \in BOOLEAN
  BY <1>1, <1>2, <1>3, CaptureFacts, UntilIsBoolean
<1>6. TypesInv'
  BY <1>1, <1>4, <1>5 DEF MInv, TypesInv, ModesTypeOK
<1>7. EndsInv'
  <2>1. BoundedModes'
    BY <1>1 DEF MInv, TypesInv, ModesTypeOK, EndsInv, BoundedModes
  <2> QED BY <2>1, <1>1 DEF MInv, EndsInv
<1>8. LatchInv'
  BY <1>1, <1>4 DEF MInv, LatchInv, Final
<1> QED BY <1>6, <1>7, <1>8 DEF MInv

LEMMA PublishSteps == MInv /\ Publish => MInv'
<1> SUFFICES ASSUME MInv, Publish PROVE MInv'
  OBVIOUS
<1> DEFINE latch == mode = "rapid" /\ snapshot.phase = "approach" /\ ~reached
           r == RuntimeState(TRUE, boostUntil, preheatUntil)
<1>1. /\ UNCHANGED <<when, mode, boostUntil, preheatUntil, held, store, disk, granted, lost>>
      /\ snapshot # NoTime /\ snapshot' = NoTime /\ output' = snapshot.phase
      /\ reached' = (reached \/ latch) /\ explicit' = FALSE
      /\ approached' = (approached \/ snapshot.phase = "approach")
      /\ latch => saves' = Append(saves, r)
      /\ ~latch => saves' = saves
  BY DEF Publish, clockVars
<1>2. /\ boostUntil \in EndTimes /\ preheatUntil \in EndTimes
      /\ granted \in [boost : Nat, preheat : Nat]
      /\ saves \in Seq(RuntimeStates) /\ store \in RuntimeStates
  BY DEF MInv, TypesInv, ModesTypeOK, EndTimes
<1>3. /\ r \in RuntimeStates /\ r.reached = TRUE
      /\ r.boost = boostUntil /\ r.preheat = preheatUntil
  BY <1>2 DEF RuntimeState, RuntimeStates
<1>4. EndsWithin(r, granted)
  BY <1>3 DEF EndsWithin, MInv, EndsInv, BoundedModes
<1>5. granted.boost <= granted.boost /\ granted.preheat <= granted.preheat
  BY <1>2
<1> HIDE DEF r
<1>6. ASSUME latch
      PROVE  /\ saves' \in Seq(RuntimeStates) /\ Final(store)' = r /\ Final(held)' = r
             /\ \A i \in 1 .. Len(saves') : EndsWithin(saves'[i], granted')
  <2>1. saves' = Append(saves, r) /\ store' = store /\ granted' = granted
    BY <1>1, <1>6
  <2> HIDE DEF latch
  <2>2. saves' \in Seq(RuntimeStates) /\ Final(store)' = r /\ Final(held)' = r
    BY <2>1, <1>3, Appends
  <2>3. \A i \in 1 .. Len(saves') : EndsWithin(saves'[i], granted')
    BY <2>1, <1>2, <1>3, <1>4, <1>5, AppendsWithin
  <2> QED BY <2>2, <2>3
<1>7. saves' \in Seq(RuntimeStates)
  BY <1>1, <1>2, <1>6
<1>8. /\ reached' \in BOOLEAN /\ approached' \in BOOLEAN /\ explicit' \in BOOLEAN
  BY <1>1, Zenon
<1>9. EndsInv'
  <2>1. BoundedModes'
    BY <1>1 DEF BoundedModes, MInv, EndsInv
  <2>2. EndsWithin(store', granted') /\ EndsWithin(held', granted')
    BY <1>1 DEF MInv, EndsInv
  <2>3. \A i \in 1 .. Len(saves') : EndsWithin(saves'[i], granted')
    BY <1>1, <1>6 DEF MInv, EndsInv
  <2> QED BY <2>1, <2>2, <2>3 DEF EndsInv
<1>10. TypesInv'
  <2>1. output' \in BoostModes \cup {"approach", "held"}
    BY <1>1 DEF MInv, TypesInv
  <2> QED BY <1>1, <1>7, <1>8, <2>1 DEF MInv, TypesInv, ModesTypeOK
<1>11. LatchInv'
  <2>1. approached /\ ~lost => mode = "rapid" /\ reached /\ Final(store).reached
                                 /\ Final(held).reached /\ snapshot.phase # "rapid"
    BY <1>1 DEF MInv, LatchInv
  <2>2. snapshot.phase = "approach" => mode = "rapid"
    BY <1>1 DEF MInv, LatchInv
  <2>3. reached /\ ~approached => store.reached /\ held.reached
                                 /\ \A i \in 1 .. Len(saves) : saves[i].reached
    BY DEF MInv, LatchInv
  <2>4. ASSUME reached', ~approached'
        PROVE  store'.reached /\ held'.reached
               /\ \A i \in 1 .. Len(saves') : saves'[i].reached
    <3>1. ~approached /\ ~latch /\ reached
      BY <1>1, <2>4
    <3> QED BY <3>1, <2>3, <1>1
  <2>5. ASSUME approached', ~lost'
        PROVE  mode' = "rapid" /\ reached' /\ output' # "rapid"
               /\ Final(store)'.reached /\ Final(held)'.reached
    <3>1. mode' = "rapid" /\ output' # "rapid"
      BY <1>1, <2>1, <2>2, <2>5
    <3>2. CASE latch
      BY <3>1, <3>2, <1>1, <1>3, <1>6
    <3>3. CASE ~latch
      <4>1. saves' = saves /\ store' = store /\ held' = held /\ reached /\ reached'
        BY <3>3, <1>1, <2>1, <2>2, <2>5
      <4>2. Final(store)' = Final(store) /\ Final(held)' = Final(held)
        BY <4>1 DEF Final
      <4>3. CASE approached
        BY <4>1, <4>2, <4>3, <3>1, <2>1, <2>5, <1>1
      <4>4. CASE ~approached
        <5>1. store.reached /\ held.reached /\ \A i \in 1 .. Len(saves) : saves[i].reached
          BY <4>1, <4>4, <2>3
        <5>2. saves # << >> => Len(saves) \in 1 .. Len(saves)
          BY <1>2, Left
        <5>3. Final(store).reached /\ Final(held).reached
          BY <5>1, <5>2 DEF Final
        <5> QED BY <5>3, <4>1, <4>2, <3>1
      <4> QED BY <4>3, <4>4
    <3> QED BY <3>2, <3>3
  <2> QED BY <2>4, <2>5, <1>1 DEF LatchInv
<1> QED BY <1>9, <1>10, <1>11 DEF MInv

-----------------------------------------------------------------------------
(* Saves, reloads and crashes *)

LEMMA RuntimeSaveSteps == MInv /\ (SaveRuntime \/ SaveFails) => MInv'
<1> SUFFICES ASSUME MInv, SaveRuntime \/ SaveFails PROVE MInv'
  OBVIOUS
<1>1. /\ UNCHANGED <<when, mode, reached, boostUntil, preheatUntil, explicit, snapshot, output,
                     disk, granted>>
      /\ approached' = approached
      /\ saves # << >> /\ saves' = Tail(saves)
      /\ held' = Head(saves) /\ store' \in {store, Head(saves)}
      /\ \/ store' = Head(saves) /\ lost' = lost
         \/ lost' = (lost \/ approached)
  BY DEF SaveRuntime, SaveFails, clockVars, modeVars, historyVars
<1>2. saves \in Seq(RuntimeStates) /\ store \in RuntimeStates /\ held \in RuntimeStates
  BY DEF MInv, TypesInv
<1>3. /\ Tail(saves) \in Seq(RuntimeStates) /\ Len(saves) \in Nat \ {0}
      /\ Len(Tail(saves)) = Len(saves) - 1
      /\ \A i \in 1 .. Len(Tail(saves)) : i + 1 \in 1 .. Len(saves) /\ Tail(saves)[i] = saves[i + 1]
      /\ Head(saves) = saves[1] /\ Head(saves) \in RuntimeStates
      /\ Tail(saves) # << >> => Len(Tail(saves)) > 0
      /\ Tail(saves) = << >> => Len(saves) = 1
  BY <1>1, <1>2, Left
<1>4. lost' \in BOOLEAN
  <2>1. lost \in BOOLEAN
    BY DEF MInv, TypesInv, ModesTypeOK
  <2> QED BY <1>1, <2>1, Zenon
<1>5. TypesInv'
  BY <1>1, <1>2, <1>3, <1>4 DEF MInv, TypesInv, ModesTypeOK
<1>6. EndsInv'
  <2>1. 1 \in 1 .. Len(saves)
    BY <1>3
  <2>2. EndsWithin(store', granted') /\ EndsWithin(held', granted')
    BY <1>1, <1>3, <2>1 DEF MInv, EndsInv
  <2>3. \A i \in 1 .. Len(saves') : EndsWithin(saves'[i], granted')
    BY <1>1, <1>3 DEF MInv, EndsInv
  <2>4. BoundedModes'
    BY <1>1 DEF MInv, EndsInv, BoundedModes
  <2> QED BY <2>2, <2>3, <2>4 DEF EndsInv
<1>7. LatchInv'
  <2>1. ASSUME reached', ~approached'
        PROVE  store'.reached /\ held'.reached
               /\ \A i \in 1 .. Len(saves') : saves'[i].reached
    <3>1. store.reached /\ held.reached /\ \A i \in 1 .. Len(saves) : saves[i].reached
      BY <2>1, <1>1 DEF MInv, LatchInv
    <3>2. 1 \in 1 .. Len(saves)
      BY <1>3
    <3> QED BY <3>1, <3>2, <1>1, <1>3
  <2>2. ASSUME approached', ~lost'
        PROVE  /\ mode' = "rapid" /\ reached' /\ Final(store)'.reached /\ Final(held)'.reached
               /\ snapshot' # NoTime => snapshot'.phase # "rapid"
               /\ output' # "rapid"
    <3>1. approached /\ ~lost /\ store' = Head(saves)
      <4>1. /\ approached' <=> approached
            /\ \/ store' = Head(saves) /\ (lost' <=> lost)
               \/ (lost' <=> (lost \/ approached))
        BY <1>1, <1>4, <1>5 DEF TypesInv, ModesTypeOK, MInv
      <4> QED BY <2>2, <4>1, Zenon
    <3>2. Final(store)' = Final(store) /\ Final(held)' = Final(held)
      <4>1. CASE Tail(saves) = << >>
        <5>1. /\ saves' = << >> /\ store' = saves[1] /\ held' = saves[1]
              /\ Len(saves) = 1 /\ saves # << >>
          BY <4>1, <3>1, <1>1, <1>3
        <5>2. /\ Final(store)' = saves[1] /\ Final(store) = saves[1]
              /\ Final(held)' = saves[1] /\ Final(held) = saves[1]
          BY ONLY <5>1 DEF Final
        <5> QED BY <5>2
      <4>2. CASE Tail(saves) # << >>
        <5>1. Len(Tail(saves)) \in 1 .. Len(Tail(saves)) /\ Len(Tail(saves)) + 1 = Len(saves)
          BY <4>2, <1>3
        <5> QED BY <5>1, <4>2, <1>1, <1>3 DEF Final
      <4> QED BY <4>1, <4>2
    <3> QED BY <3>1, <3>2, <1>1 DEF MInv, LatchInv
  <2> QED BY <2>1, <2>2, <1>1 DEF MInv, LatchInv
<1> QED BY <1>5, <1>6, <1>7 DEF MInv

\* A save of another field takes along what the store has in memory.
LEMMA OtherSaveSteps == MInv /\ OtherSave => MInv'
<1> SUFFICES ASSUME MInv, OtherSave PROVE MInv'
  OBVIOUS
<1>1. /\ UNCHANGED <<when, mode, reached, boostUntil, preheatUntil, explicit, snapshot, output,
                     saves, held, disk, granted, approached, lost>>
      /\ store' = held
  BY DEF OtherSave, clockVars, modeVars, historyVars
<1>2. TypesInv'
  BY <1>1 DEF MInv, TypesInv, ModesTypeOK
<1>3. EndsInv'
  BY <1>1 DEF MInv, EndsInv, BoundedModes
<1>4. LatchInv'
  BY <1>1 DEF MInv, LatchInv, Final
<1> QED BY <1>2, <1>3, <1>4 DEF MInv

LEMMA RestoreSteps ==
  ASSUME MInv, NEW boost \in BoostModes, Restored(boost), disk' = disk,
         \/ lost' = lost /\ saves = << >> /\ boost = mode
         \/ lost' = (lost \/ (approached /\ (saves # << >> \/ disk # mode))) /\ boost = disk
  PROVE  MInv'
<1> DEFINE goesOn == boost # "off" /\ Until(store.boost)
<1>1. /\ mode' = IF goesOn THEN boost ELSE "off"
      /\ boostUntil' = IF goesOn THEN store.boost ELSE NoTime
      /\ reached' = (goesOn /\ store.reached)
      /\ preheatUntil' = IF Until(store.preheat) THEN store.preheat ELSE NoTime
      /\ snapshot' = NoTime /\ saves' = << >> /\ held' = store /\ explicit' = TRUE
      /\ approached' = (approached /\ goesOn)
      /\ UNCHANGED <<when, output, store, granted>>
  BY DEF Restored
<1>2. /\ store \in RuntimeStates /\ when \in Nat /\ mode \in BoostModes /\ disk \in BoostModes
      /\ granted \in [boost : Nat, preheat : Nat] /\ EndsWithin(store, granted)
  BY DEF MInv, TypesInv, ModesTypeOK, EndsInv
<1>3. goesOn => store.boost # NoTime /\ when < store.boost
  BY DEF Until
<1>4. Until(store.preheat) => store.preheat # NoTime /\ when < store.preheat
  BY DEF Until
<1> HIDE DEF goesOn
<1>5. /\ reached' \in BOOLEAN /\ approached' \in BOOLEAN /\ lost' \in BOOLEAN
  <2>1. lost \in BOOLEAN
    BY DEF MInv, TypesInv, ModesTypeOK
  <2> QED BY <1>1, <2>1, Zenon
<1>6. boostUntil' \in EndTimes /\ preheatUntil' \in EndTimes
  BY <1>1, <1>2 DEF RuntimeStates, EndTimes
<1>7. mode' \in BoostModes
  BY <1>1 DEF BoostModes
<1>8. << >> \in Seq(RuntimeStates) /\ Len(<< >>) = 0
  OBVIOUS
<1>9. TypesInv'
  BY <1>1, <1>5, <1>6, <1>7, <1>8 DEF MInv, TypesInv, ModesTypeOK, EndTimes
<1>10. EndsInv'
  <2>1. mode' # "off" => boostUntil' # NoTime /\ when <= boostUntil'
    BY <1>1, <1>2, <1>3 DEF RuntimeStates, EndTimes
  <2>2. boostUntil' # NoTime => boostUntil' <= granted.boost
    BY <1>1, <1>2, <1>3 DEF EndsWithin
  <2>3. preheatUntil' # NoTime => when <= preheatUntil' /\ preheatUntil' <= granted.preheat
    BY <1>1, <1>2, <1>4 DEF EndsWithin, RuntimeStates, EndTimes
  <2>4. BoundedModes'
    BY <2>1, <2>2, <2>3, <1>1 DEF BoundedModes
  <2> QED BY <2>4, <1>1, <1>2, <1>8 DEF EndsInv
<1>11. LatchInv'
  <2>1. ASSUME reached' PROVE store'.reached
    BY <2>1, <1>1
  <2>2. ASSUME approached', ~lost'
        PROVE  mode' = "rapid" /\ reached' /\ output' # "rapid"
               /\ Final(store)'.reached /\ Final(held)'.reached
    <3>1. approached /\ goesOn /\ ~lost /\ saves = << >> /\ boost = mode
      <4>1. approached' <=> (approached /\ goesOn)
        BY <1>1, <1>5
      <4>2. {lost, approached, lost'} \subseteq BOOLEAN
        BY <1>5 DEF TypesInv, ModesTypeOK, MInv
      <4>3. \/ (lost' <=> lost) /\ saves = << >> /\ boost = mode
            \/ /\ lost' <=> (lost \/ (approached /\ (saves # << >> \/ disk # mode)))
               /\ boost = disk
        BY <4>2
      <4> QED BY <2>2, <4>1, <4>3, Zenon
    <3>2. mode = "rapid" /\ Final(store).reached /\ output # "rapid"
      BY <3>1 DEF MInv, LatchInv
    <3>3. store.reached /\ Final(store)' = store /\ Final(held)' = store
      BY <3>1, <3>2, <1>1 DEF Final
    <3> QED BY <3>1, <3>2, <3>3, <1>1
  <2> QED BY <2>1, <2>2, <1>1, <1>8 DEF LatchInv
<1> QED BY <1>9, <1>10, <1>11 DEF MInv

LEMMA ModesInitially == ModesInit => MInv
<1> SUFFICES ASSUME ModesInit PROVE MInv
  OBVIOUS
<1>1. << >> \in Seq(RuntimeStates) /\ Len(<< >>) = 0
  OBVIOUS
<1>2. TypesInv
  BY <1>1 DEF ModesInit, TypesInv, ModesTypeOK, RuntimeStates, RuntimeState, EndTimes, BoostModes
<1>3. EndsInv
  BY <1>1 DEF ModesInit, EndsInv, BoundedModes, EndsWithin, RuntimeState
<1>4. LatchInv
  BY DEF ModesInit, LatchInv
<1> QED BY <1>2, <1>3, <1>4 DEF MInv

LEMMA ModesSteps == MInv /\ [ModesNext]_modesVars => MInv'
<1> SUFFICES ASSUME MInv, [ModesNext]_modesVars PROVE MInv'
  OBVIOUS
<1>1. CASE BoostExpires \/ \E m \in BoostModes : SelectBoost(m)
  BY <1>1, BoostSteps
<1>2. CASE StartPreheat \/ StopPreheat \/ PreheatExpires \/ OtherTransition
  BY <1>2, PreheatSteps
<1>3. CASE SourceEvent \/ Debounced \/ PublishHeld \/ MinutePasses \/ OptionsWritten
          \/ UNCHANGED modesVars
  BY <1>3, QuietSteps
<1>4. CASE Publish
  BY <1>4, PublishSteps
<1>5. CASE SaveRuntime \/ SaveFails
  BY <1>5, RuntimeSaveSteps
<1>7. CASE OtherSave
  BY <1>7, OtherSaveSteps
<1>6. CASE ReloadZone \/ CrashZone
  <2>1. mode \in BoostModes /\ disk \in BoostModes
    BY DEF MInv, TypesInv, ModesTypeOK
  <2> QED BY <1>6, <2>1, RestoreSteps DEF ReloadZone, CrashZone
<1> QED BY <1>1, <1>2, <1>3, <1>4, <1>5, <1>6, <1>7 DEF ModesNext

\* Boost and Preheat end when the user was told that they would, at the latest: no
\* failed save, reload or crash lengthens them or leaves them without an end.
THEOREM ModesAreBounded == ModesSpec => []BoundedModes
<1>1. MInv => BoundedModes
  BY DEF MInv, EndsInv
<1> QED BY ModesInitially, ModesSteps, <1>1, PTL DEF ModesSpec

\* A rapid Boost that has published its approach publishes no maximum again, unless a
\* save of its latch was lost.
THEOREM RapidIsOnce == ModesSpec => []RapidOnce
<1>1. MInv => RapidOnce
  BY DEF MInv, LatchInv, RapidOnce
<1> QED BY ModesInitially, ModesSteps, <1>1, PTL DEF ModesSpec

LEMMA ModesTypes == ModesSpec => []ModesTypeOK
<1>1. MInv => ModesTypeOK
  BY DEF MInv, TypesInv
<1> QED BY ModesInitially, ModesSteps, <1>1, PTL DEF ModesSpec

-----------------------------------------------------------------------------
(* Side by side                                                              *)

\* Controllers, store, leases and timed modes hold what the code can put there, for any
\* number of zones, commands, climate entities and faults.
THEOREM LifeTypes == LifeSpec => []LifeTypeOK
<1>1. LifeInit => ControllerInit /\ StoreInit /\ LeaseInit /\ ModesInit
  BY DEF LifeInit
<1>2. [LifeNext]_lifeVars => /\ [ControllerNext]_controllerVars /\ [StoreNext]_storeVars
                             /\ [LeaseNext]_leaseVars /\ [ModesNext]_modesVars
  BY DEF LifeNext, lifeVars
<1>3. ControllerTypeOK /\ StoreTypeOK /\ LeaseTypeOK /\ ModesTypeOK => LifeTypeOK
  BY DEF LifeTypeOK
<1> QED BY <1>1, <1>2, <1>3, ControllerTypes, StoreTypes, LeaseTypes, ModesTypes, PTL
        DEF LifeSpec, ControllerSpec, StoreSpec, LeaseSpec, ModesSpec
=============================================================================
