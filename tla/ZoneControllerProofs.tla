-------------------------- MODULE ZoneControllerProofs --------------------------
(* The controllers of the zones show nothing out of order and nothing after a    *)
(* stop, postpone no snapshot beyond the limit, and lose no permit, for any       *)
(* number of zones, permits and reloads.                                          *)
EXTENDS ZoneController, FiniteSetTheorems, SequenceTheorems, TLAPS

\* A timer fires in the future, and has its start; that of a zone that has not been
\* stopped fires not later than permitted, and no start is without it.
DebounceInv ==
  \A z \in Zone :
    /\ due[z] # NoJob => since[z] # NoJob /\ clock <= due[z]
    /\ (~stopped[z] /\ since[z] # NoJob) => due[z] # NoJob /\ due[z] <= since[z] + Longest

\* What a zone shows, works on, and has waiting comes from ever newer versions, and a
\* stopped zone has nothing under way.
JobOrder(z) ==
  /\ shown[z] <= world[z]
  /\ at[z] # "none" => job[z] # NoJob /\ ~stopped[z]
  /\ latest[z] # NoJob => at[z] # "none"
  /\ job[z] # NoJob => shown[z] <= job[z].world /\ job[z].world <= world[z]
  /\ (job[z] # NoJob /\ latest[z] # NoJob) => job[z].world <= latest[z].world
  /\ latest[z] # NoJob => latest[z].world <= world[z]
JobInv == \A z \in Zone : JobOrder(z)

\* The line q holds the zones that wait according to a, once each.
States == {"none", "created", "waiting", "running"}
InLine(q, a) ==
  /\ \A i \in 1 .. Len(q) : a[q[i]] = "waiting"
  /\ \A i, j \in 1 .. Len(q) : q[i] = q[j] => i = j
  /\ \A z \in Zone : a[z] = "waiting" => \E i \in 1 .. Len(q) : q[i] = z
LineInv == InLine(line, at)

CInv == ControllerTypeOK /\ DebounceInv /\ JobInv /\ LineInv

-----------------------------------------------------------------------------
(* The line *)

LEMMA ElementOf ==
  ASSUME NEW S, NEW q \in Seq(S), NEW i \in 1 .. Len(q)
  PROVE  q[i] \in S
OBVIOUS

LEMMA HeadAndTail ==
  ASSUME NEW S, NEW q \in Seq(S), q # << >>
  PROVE  /\ Tail(q) \in Seq(S) /\ Len(q) \in Nat \ {0} /\ Len(Tail(q)) = Len(q) - 1
         /\ \A i \in 1 .. Len(Tail(q)) : Tail(q)[i] = q[i + 1]
         /\ Head(q) = q[1] /\ Head(q) \in S
OBVIOUS

LEMMA Appended ==
  ASSUME NEW S, NEW q \in Seq(S), NEW e \in S
  PROVE  /\ Append(q, e) \in Seq(S) /\ Len(q) \in Nat /\ Len(Append(q, e)) = Len(q) + 1
         /\ \A i \in 1 .. Len(q) : Append(q, e)[i] = q[i]
         /\ Append(q, e)[Len(q) + 1] = e
OBVIOUS

LEMMA Removed ==
  ASSUME NEW S, NEW q \in Seq(S), NEW p \in 1 .. Len(q)
  PROVE  /\ RemoveAt(q, p) \in Seq(S) /\ Len(RemoveAt(q, p)) = Len(q) - 1
         /\ \A i \in 1 .. Len(q) - 1 : RemoveAt(q, p)[i] = IF i < p THEN q[i] ELSE q[i + 1]
<1> DEFINE a == SubSeq(q, 1, p - 1)
           b == SubSeq(q, p + 1, Len(q))
<1>1. /\ a \in Seq(S) /\ Len(a) = p - 1
      /\ \A i \in 1 .. p - 1 : a[i] = q[i]
  OBVIOUS
<1>2. /\ b \in Seq(S) /\ Len(b) = Len(q) - p
      /\ \A i \in 1 .. Len(q) - p : b[i] = q[p + i]
  OBVIOUS
<1> HIDE DEF a, b
<1>3. /\ a \o b \in Seq(S) /\ Len(a \o b) = Len(q) - 1
      /\ \A i \in 1 .. Len(q) - 1 : (a \o b)[i] = IF i < p THEN a[i] ELSE b[i - (p - 1)]
  <2>1. /\ a \o b \in Seq(S) /\ Len(a \o b) = Len(a) + Len(b)
        /\ \A i \in 1 .. Len(a) + Len(b) :
             (a \o b)[i] = IF i <= Len(a) THEN a[i] ELSE b[i - Len(a)]
    BY <1>1, <1>2, ConcatProperties
  <2>2. Len(q) \in Nat /\ p \in Nat /\ Len(a) + Len(b) = Len(q) - 1
    BY <1>1, <1>2, LenProperties
  <2> QED BY <2>1, <2>2, <1>1
<1>4. ASSUME NEW i \in 1 .. Len(q) - 1
      PROVE  (a \o b)[i] = IF i < p THEN q[i] ELSE q[i + 1]
  BY <1>1, <1>2, <1>3
<1> QED BY <1>3, <1>4 DEF RemoveAt, a, b

\* A zone that leaves the line leaves the others in it, in their order.
LEMMA LeavesLine ==
  ASSUME NEW q \in Seq(Zone), NEW z,
         \A i, j \in 1 .. Len(q) : q[i] = q[j] => i = j
  PROVE  /\ Queued(q, z) \in Seq(Zone)
         /\ \A i \in 1 .. Len(Queued(q, z)) :
              \E j \in 1 .. Len(q) : Queued(q, z)[i] = q[j] /\ q[j] # z
         /\ \A i, j \in 1 .. Len(Queued(q, z)) : Queued(q, z)[i] = Queued(q, z)[j] => i = j
         /\ \A j \in 1 .. Len(q) : q[j] # z => \E i \in 1 .. Len(Queued(q, z)) : Queued(q, z)[i] = q[j]
<1>1. CASE z \notin ToSet(q)
  BY <1>1 DEF Queued, ToSet
<1>2. CASE z \in ToSet(q)
  <2> DEFINE p == CHOOSE i \in DOMAIN q : q[i] = z
             r == RemoveAt(q, p)
  <2>1. p \in 1 .. Len(q) /\ q[p] = z /\ Queued(q, z) = r
    BY <1>2 DEF Queued, ToSet
  <2> HIDE DEF p
  <2>2. /\ r \in Seq(Zone) /\ Len(r) = Len(q) - 1 /\ Len(q) \in Nat
        /\ \A i \in 1 .. Len(q) - 1 : r[i] = IF i < p THEN q[i] ELSE q[i + 1]
    BY <2>1, Removed, LenProperties
  <2> HIDE DEF r
  <2>3. ASSUME NEW i \in 1 .. Len(r)
        PROVE  \E j \in 1 .. Len(q) : r[i] = q[j] /\ q[j] # z
    <3>1. CASE i < p
      <4>1. i \in 1 .. Len(q) /\ r[i] = q[i] /\ i # p
        BY <3>1, <2>1, <2>2
      <4> QED BY <4>1, <2>1
    <3>2. CASE i >= p
      <4>1. i + 1 \in 1 .. Len(q) /\ r[i] = q[i + 1] /\ i + 1 # p
        BY <3>2, <2>1, <2>2
      <4> QED BY <4>1, <2>1
    <3> QED BY <3>1, <3>2, <2>1, <2>2
  <2>4. ASSUME NEW i \in 1 .. Len(r), NEW j \in 1 .. Len(r), r[i] = r[j]
        PROVE  i = j
    <3> DEFINE at_(k) == IF k < p THEN k ELSE k + 1
    <3>1. at_(i) \in 1 .. Len(q) /\ at_(j) \in 1 .. Len(q) /\ r[i] = q[at_(i)] /\ r[j] = q[at_(j)]
      BY <2>1, <2>2
    <3>2. at_(i) = at_(j)
      BY <3>1, <2>4
    <3> QED BY <3>2, <2>1, <2>2
  <2>5. ASSUME NEW j \in 1 .. Len(q), q[j] # z
        PROVE  \E i \in 1 .. Len(r) : r[i] = q[j]
    <3>1. CASE j < p
      BY <3>1, <2>1, <2>2
    <3>2. CASE j > p
      <4>1. j - 1 \in 1 .. Len(r) /\ ~(j - 1 < p) /\ (j - 1) + 1 = j
        BY <3>2, <2>1, <2>2
      <4> QED BY <4>1, <2>2
    <3> QED BY <3>1, <3>2, <2>1, <2>5
  <2> QED BY <2>1, <2>2, <2>3, <2>4, <2>5
<1> QED BY <1>1, <1>2
\* A zone outside the line stays outside.
LEMMA OutOfLine ==
  ASSUME NEW q \in Seq(Zone), NEW a \in [Zone -> States], InLine(q, a), NEW z \in Zone,
         a[z] # "waiting", NEW s \in States, s # "waiting"
  PROVE  InLine(q, [a EXCEPT ![z] = s])
<1>1. \A i \in 1 .. Len(q) : q[i] \in Zone /\ q[i] # z
  BY ElementOf DEF InLine
<1> QED BY <1>1 DEF InLine

\* It gets in line at the end.
LEMMA JoinsLine ==
  ASSUME NEW q \in Seq(Zone), NEW a \in [Zone -> States], InLine(q, a), NEW z \in Zone,
         a[z] # "waiting"
  PROVE  Append(q, z) \in Seq(Zone) /\ InLine(Append(q, z), [a EXCEPT ![z] = "waiting"])
<1> DEFINE r == Append(q, z)
           b == [a EXCEPT ![z] = "waiting"]
<1>1. /\ r \in Seq(Zone) /\ Len(q) \in Nat /\ Len(r) = Len(q) + 1
      /\ \A i \in 1 .. Len(q) : r[i] = q[i]
      /\ r[Len(q) + 1] = z
  BY Appended
<1>2. \A i \in 1 .. Len(q) : q[i] \in Zone /\ q[i] # z
  BY ElementOf DEF InLine
<1>3. b[z] = "waiting" /\ \A y \in Zone \ {z} : b[y] = a[y]
  OBVIOUS
<1> HIDE DEF r, b
<1>4. \A i \in 1 .. Len(r) : i \in 1 .. Len(q) \/ i = Len(q) + 1
  BY <1>1
<1>5. \A i \in 1 .. Len(r) : b[r[i]] = "waiting"
  BY <1>1, <1>2, <1>3, <1>4 DEF InLine
<1>6. \A i, j \in 1 .. Len(r) : r[i] = r[j] => i = j
  BY <1>1, <1>2, <1>4 DEF InLine
<1>7. \A y \in Zone : b[y] = "waiting" => \E i \in 1 .. Len(r) : r[i] = y
  <2> SUFFICES ASSUME NEW y \in Zone, b[y] = "waiting" PROVE \E i \in 1 .. Len(r) : r[i] = y
    OBVIOUS
  <2>1. CASE y = z
    BY <2>1, <1>1
  <2>2. CASE y # z
    <3>1. PICK i \in 1 .. Len(q) : q[i] = y
      BY <2>2, <1>3 DEF InLine
    <3> QED BY <3>1, <1>1
  <2> QED BY <2>1, <2>2
<1>8. r \in Seq(Zone) /\ InLine(r, b)
  BY <1>1, <1>5, <1>6, <1>7 DEF InLine
<1> QED BY <1>8 DEF r, b

\* It leaves the line, wherever it is.
LEMMA QuitsLine ==
  ASSUME NEW q \in Seq(Zone), NEW a \in [Zone -> States], InLine(q, a), NEW z \in Zone
  PROVE  Queued(q, z) \in Seq(Zone) /\ InLine(Queued(q, z), [a EXCEPT ![z] = "none"])
<1> DEFINE r == Queued(q, z)
           b == [a EXCEPT ![z] = "none"]
<1>1. /\ r \in Seq(Zone)
      /\ \A i \in 1 .. Len(r) : \E j \in 1 .. Len(q) : r[i] = q[j] /\ q[j] # z
      /\ \A i, j \in 1 .. Len(r) : r[i] = r[j] => i = j
      /\ \A j \in 1 .. Len(q) : q[j] # z => \E i \in 1 .. Len(r) : r[i] = q[j]
  BY LeavesLine DEF InLine
<1>2. b[z] = "none" /\ \A y \in Zone \ {z} : b[y] = a[y]
  OBVIOUS
<1> HIDE DEF r, b
<1>3. \A i \in 1 .. Len(r) : b[r[i]] = "waiting"
  BY <1>1, <1>2, ElementOf DEF InLine
<1>4. ASSUME NEW y \in Zone, b[y] = "waiting"
      PROVE  \E i \in 1 .. Len(r) : r[i] = y
  <2>1. PICK j \in 1 .. Len(q) : q[j] = y
    BY <1>2, <1>4 DEF InLine
  <2> QED BY <2>1, <1>1, <1>2, <1>4
<1>5. r \in Seq(Zone) /\ InLine(r, b)
  BY <1>1, <1>3, <1>4 DEF InLine
<1> QED BY <1>5 DEF r, b

\* A permit goes to the first in line, which leaves it, or to nobody.
LEMMA PermitPasses ==
  ASSUME NEW q \in Seq(Zone), NEW a \in [Zone -> States], InLine(q, a)
  PROVE  /\ Shorter(q) \in Seq(Zone) /\ PermitPassed(a, q) \in [Zone -> States]
         /\ InLine(Shorter(q), PermitPassed(a, q))
         /\ \A y \in Zone : \/ PermitPassed(a, q)[y] = a[y]
                            \/ a[y] = "waiting" /\ PermitPassed(a, q)[y] = "running"
<1>1. CASE q = << >>
  BY <1>1 DEF Shorter, PermitPassed
<1>2. CASE q # << >>
  <2> DEFINE t == Tail(q)
             h == Head(q)
             b == [a EXCEPT ![h] = "running"]
  <2>1. /\ t \in Seq(Zone) /\ Len(q) \in Nat \ {0} /\ Len(t) = Len(q) - 1
        /\ \A i \in 1 .. Len(t) : t[i] = q[i + 1] /\ i + 1 \in 1 .. Len(q) /\ i + 1 # 1
        /\ h = q[1] /\ h \in Zone /\ a[h] = "waiting"
    BY <1>2, HeadAndTail DEF InLine
  <2>2. b[h] = "running" /\ b \in [Zone -> States] /\ \A y \in Zone \ {h} : b[y] = a[y]
    BY <2>1 DEF States
  <2> HIDE DEF t, h, b
  <2>3. \A i \in 1 .. Len(t) : t[i] # h /\ t[i] \in Zone
    BY <2>1, ElementOf DEF InLine
  <2>4. \A i \in 1 .. Len(t) : b[t[i]] = "waiting"
    BY <2>1, <2>2, <2>3 DEF InLine
  <2>5. ASSUME NEW i \in 1 .. Len(t), NEW j \in 1 .. Len(t), t[i] = t[j]
        PROVE  i = j
    <3>1. q[i + 1] = q[j + 1] /\ i + 1 \in 1 .. Len(q) /\ j + 1 \in 1 .. Len(q)
      BY <2>1, <2>5
    <3>2. i + 1 = j + 1
      BY <3>1 DEF InLine
    <3> QED BY <3>2, <2>1
  <2>6. ASSUME NEW y \in Zone, b[y] = "waiting"
        PROVE  \E i \in 1 .. Len(t) : t[i] = y
    <3>1. PICK k \in 1 .. Len(q) : q[k] = y
      BY <2>2, <2>6 DEF InLine
    <3>2. k - 1 \in 1 .. Len(t) /\ (k - 1) + 1 = k
      BY <3>1, <2>1, <2>2, <2>6
    <3> QED BY <3>1, <3>2, <2>1
  <2>7. InLine(t, b)
    BY <2>4, <2>5, <2>6 DEF InLine
  <2> QED BY <1>2, <2>1, <2>2, <2>7 DEF Shorter, PermitPassed, t, h, b
<1> QED BY <1>1, <1>2

-----------------------------------------------------------------------------
(* The parts of the invariant that an action leaves alone *)

LEMMA ControllerInitially == ControllerInit => CInv
<1> SUFFICES ASSUME ControllerInit PROVE CInv
  OBVIOUS
<1>1. [gen |-> 1, world |-> 1] \in Request /\ NoJob \notin Request /\ NoJob \notin Nat
  BY ControllerAssumption DEF Request
<1>2. ControllerTypeOK
  BY <1>1 DEF ControllerInit, ControllerTypeOK, Request
<1>3. DebounceInv /\ JobInv /\ LineInv
  BY <1>1 DEF ControllerInit, DebounceInv, JobInv, JobOrder, LineInv, InLine
<1> QED BY <1>2, <1>3 DEF CInv

LEMMA VersionsAt ==
  ASSUME ControllerTypeOK, NEW y \in Zone
  PROVE  /\ world[y] \in Nat /\ shown[y] \in Nat
         /\ job[y] # NoJob => job[y].world \in Nat
         /\ latest[y] # NoJob => latest[y].world \in Nat
<1>1. job[y] \in Request \union {NoJob} /\ latest[y] \in Request \union {NoJob}
  BY DEF ControllerTypeOK
<1> QED BY <1>1 DEF ControllerTypeOK, Request

\* The sources move on, and nothing else of a zone does.
LEMMA OrderKept ==
  ASSUME CInv, NEW y \in Zone, world'[y] \in Nat, world[y] <= world'[y], shown'[y] = shown[y],
         job'[y] = job[y], latest'[y] = latest[y], at'[y] = at[y], stopped'[y] = stopped[y]
  PROVE  JobOrder(y)'
<1>1. JobOrder(y) /\ ControllerTypeOK
  BY DEF CInv, JobInv
<1> QED BY <1>1, VersionsAt DEF JobOrder

\* What is asked for joins the jobs of its zone; where no job is under way, one begins.
LEMMA RequestSteps ==
  ASSUME CInv, NEW z \in Zone, NEW w \in Nat, NEW skip \in Nat, RequestJob(z, w, skip),
         world' \in [Zone -> Nat], \A y \in Zone : world[y] <= world'[y], world'[z] = w,
         UNCHANGED <<stopped, line, shown>>
  PROVE  /\ gen' \in [Zone -> Nat] /\ job' \in [Zone -> Request \union {NoJob}]
         /\ latest' \in [Zone -> Request \union {NoJob}]
         /\ at' \in [Zone -> {"none", "created", "waiting", "running"}]
         /\ JobInv' /\ LineInv'
<1> DEFINE r == [gen |-> gen[z] + skip + 1, world |-> w]
<1>1. r \in Request /\ r # NoJob /\ r.world = w /\ r.gen \in Nat
  BY ControllerAssumption DEF CInv, ControllerTypeOK, Request
<1>2. CASE stopped[z]
  <2>1. UNCHANGED <<gen, job, latest, at>>
    BY <1>2 DEF RequestJob, jobVars
  <2>2. JobInv'
    BY <2>1, OrderKept DEF JobInv
  <2> QED BY <2>1, <2>2 DEF CInv, ControllerTypeOK, LineInv
<1>3. CASE ~stopped[z] /\ at[z] # "none"
  <2>1. /\ gen' = [gen EXCEPT ![z] = r.gen] /\ latest' = [latest EXCEPT ![z] = r]
        /\ job' = [job EXCEPT ![z] = @] /\ at' = [at EXCEPT ![z] = @]
    BY <1>3 DEF RequestJob
  <2> HIDE DEF r
  <2>2. /\ gen' \in [Zone -> Nat] /\ latest' \in [Zone -> Request \union {NoJob}]
        /\ job' = job /\ at' = at
        /\ latest'[z] = r /\ \A y \in Zone \ {z} : latest'[y] = latest[y]
    BY <1>1, <2>1 DEF CInv, ControllerTypeOK
  <2>3. JobInv'
    <3> SUFFICES ASSUME NEW y \in Zone PROVE JobOrder(y)'
      BY DEF JobInv
    <3>1. CASE y # z
      BY <3>1, <2>2, OrderKept
    <3>2. CASE y = z
      <4>1. JobOrder(z) /\ ControllerTypeOK /\ w \in Nat /\ shown'[z] = shown[z] /\ ~stopped'[z]
        BY <1>3 DEF CInv, JobInv
      <4> QED BY <3>2, <4>1, <1>1, <1>3, <2>2, VersionsAt DEF JobOrder
    <3> QED BY <3>1, <3>2
  <2> QED BY <2>2, <2>3 DEF CInv, LineInv, ControllerTypeOK
<1>4. CASE ~stopped[z] /\ at[z] = "none"
  <2>1. /\ gen' = [gen EXCEPT ![z] = r.gen] /\ latest' = [latest EXCEPT ![z] = NoJob]
        /\ job' = [job EXCEPT ![z] = r] /\ at' = [at EXCEPT ![z] = "created"]
    BY <1>4 DEF RequestJob
  <2> HIDE DEF r
  <2>2. /\ gen' \in [Zone -> Nat] /\ latest' \in [Zone -> Request \union {NoJob}]
        /\ job' \in [Zone -> Request \union {NoJob}]
        /\ at' \in [Zone -> {"none", "created", "waiting", "running"}]
        /\ latest'[z] = NoJob /\ job'[z] = r /\ at'[z] = "created"
        /\ \A y \in Zone \ {z} : latest'[y] = latest[y] /\ job'[y] = job[y] /\ at'[y] = at[y]
    BY <1>1, <2>1 DEF CInv, ControllerTypeOK
  <2>3. JobInv'
    <3> SUFFICES ASSUME NEW y \in Zone PROVE JobOrder(y)'
      BY DEF JobInv
    <3>1. CASE y # z
      BY <3>1, <2>2, OrderKept
    <3>2. CASE y = z
      <4>1. JobOrder(z) /\ ControllerTypeOK /\ w \in Nat /\ shown'[z] = shown[z] /\ ~stopped'[z]
        BY <1>4 DEF CInv, JobInv
      <4> QED BY <3>2, <4>1, <1>1, <1>4, <2>2, VersionsAt DEF JobOrder
    <3> QED BY <3>1, <3>2
  <2>4. LineInv'
    BY <1>4, <2>1, OutOfLine DEF CInv, LineInv, ControllerTypeOK, States
  <2> QED BY <2>2, <2>3, <2>4
<1> QED BY <1>2, <1>3, <1>4

-----------------------------------------------------------------------------
(* The actions *)

Promised == [ZonePromise!Next]_(ZonePromise!vars)

\* Nothing that the readers of the sensors see.
LEMMA Unseen ==
  ASSUME UNCHANGED <<world, shown, stopped>>
  PROVE  Promised
BY DEF Promised, ZonePromise!vars

\* A version more, and nothing else that they see.
LEMMA Moved ==
  ASSUME CInv, NEW z \in Zone, Changed(z), UNCHANGED <<shown, stopped>>
  PROVE  /\ Promised
         /\ world' \in [Zone -> Nat] /\ world'[z] \in Nat /\ \A y \in Zone : world[y] <= world'[y]
<1>1. ZonePromise!Change(z)
  BY DEF Changed, ZonePromise!Change
<1>2. Promised
  BY <1>1 DEF Promised, ZonePromise!Next
<1> QED BY <1>2 DEF Changed, CInv, ControllerTypeOK

LEMMA SourceReportedSteps ==
  ASSUME CInv, NEW z \in Zone, SourceReported(z)
  PROVE  CInv' /\ Promised
<1>1. Promised /\ world' \in [Zone -> Nat] /\ \A y \in Zone : world[y] <= world'[y]
  BY Moved DEF SourceReported
<1> DEFINE start == IF since[z] = NoJob THEN clock ELSE since[z]
<1>2. start \in Nat /\ (~stopped[z] => clock <= start + Longest) /\ start # NoJob
      /\ clock \in Nat /\ Quiet \in Nat /\ Longest \in Nat
  <2>1. /\ clock \in Nat /\ Quiet \in Nat /\ Longest \in Nat /\ NoJob \notin Nat
        /\ since[z] \in Nat \union {NoJob} /\ due[z] \in Nat \union {NoJob}
    BY ControllerAssumption DEF CInv, ControllerTypeOK
  <2>2. CASE since[z] = NoJob
    BY <2>1, <2>2
  <2>3. CASE since[z] # NoJob
    <3>1. ASSUME ~stopped[z] PROVE clock <= due[z] /\ due[z] <= since[z] + Longest /\ due[z] \in Nat
      BY <2>1, <2>3, <3>1 DEF CInv, DebounceInv
    <3> QED BY <2>1, <2>3, <3>1
  <2> QED BY <2>2, <2>3
<1>3. /\ DueAfter(start) \in Nat /\ DueAfter(start) # NoJob
      /\ clock <= DueAfter(start) /\ (~stopped[z] => DueAfter(start) <= start + Longest)
  BY <1>2, ControllerAssumption DEF DueAfter, Earlier, Later
<1>4. since' = [since EXCEPT ![z] = start] /\ due' = [due EXCEPT ![z] = DueAfter(start)]
      /\ UNCHANGED <<clock, gen, job, at, latest, stopped, line, shown, restarts>>
  BY DEF SourceReported, jobVars
<1> HIDE DEF start
<1>5. ControllerTypeOK'
  BY <1>1, <1>2, <1>3, <1>4 DEF CInv, ControllerTypeOK, Request
<1>6. DebounceInv'
  BY <1>2, <1>3, <1>4 DEF CInv, ControllerTypeOK, DebounceInv
<1>7. JobInv'
  BY <1>1, <1>4, OrderKept DEF JobInv
<1> QED BY <1>1, <1>4, <1>5, <1>6, <1>7 DEF CInv, LineInv, InLine

\* The snapshots that are taken: RequestSteps has the jobs.
LEMMA SnapshotSteps ==
  ASSUME CInv, NEW z \in Zone, Fire(z) \/ DirectRequest(z) \/ InvalidateAndRequest(z)
  PROVE  CInv' /\ Promised
<1>1. UNCHANGED <<clock, stopped, line, shown, restarts>>
  BY DEF Fire, DirectRequest, InvalidateAndRequest
<1>2. /\ since' \in [Zone -> Nat \union {NoJob}] /\ due' \in [Zone -> Nat \union {NoJob}]
      /\ DebounceInv'
  <2>1. /\ since \in [Zone -> Nat \union {NoJob}] /\ due \in [Zone -> Nat \union {NoJob}]
        /\ DebounceInv
    BY DEF CInv, ControllerTypeOK
  <2>2. CASE UNCHANGED <<since, due>>
    BY <1>1, <2>1, <2>2 DEF DebounceInv
  <2>3. CASE since' = [since EXCEPT ![z] = NoJob] /\ due' = [due EXCEPT ![z] = NoJob]
    <3>1. /\ since' \in [Zone -> Nat \union {NoJob}] /\ due' \in [Zone -> Nat \union {NoJob}]
          /\ since'[z] = NoJob /\ due'[z] = NoJob
          /\ \A y \in Zone \ {z} : since'[y] = since[y] /\ due'[y] = due[y]
      BY <2>1, <2>3
    <3> QED BY <1>1, <2>1, <3>1 DEF DebounceInv
  <2> QED BY <2>2, <2>3 DEF Fire, DirectRequest, InvalidateAndRequest
<1>3. /\ Promised /\ world' \in [Zone -> Nat] /\ world'[z] \in Nat
      /\ \A y \in Zone : world[y] <= world'[y]
  <2>1. CASE Fire(z)
    BY <2>1, Unseen DEF Fire, CInv, ControllerTypeOK
  <2>2. CASE DirectRequest(z) \/ InvalidateAndRequest(z)
    BY <2>2, <1>1, Moved DEF DirectRequest, InvalidateAndRequest
  <2> QED BY <2>1, <2>2
<1>4. \E skip \in {0, 1} : RequestJob(z, world'[z], skip)
  BY DEF Fire, DirectRequest, InvalidateAndRequest
<1>5. /\ gen' \in [Zone -> Nat] /\ job' \in [Zone -> Request \union {NoJob}]
      /\ latest' \in [Zone -> Request \union {NoJob}]
      /\ at' \in [Zone -> {"none", "created", "waiting", "running"}]
      /\ JobInv' /\ LineInv'
  BY <1>1, <1>3, <1>4, RequestSteps
<1> QED BY <1>1, <1>2, <1>3, <1>5 DEF CInv, ControllerTypeOK, Request

LEMMA BeginSteps ==
  ASSUME CInv, NEW z \in Zone, Begin(z)
  PROVE  CInv' /\ Promised
<1>1. /\ at[z] = "created" /\ UNCHANGED <<clock, world, since, due, gen, job, latest, stopped, shown, restarts>>
      /\ at \in [Zone -> States] /\ line \in Seq(Zone) /\ InLine(line, at)
  BY DEF Begin, CInv, ControllerTypeOK, LineInv, States
<1>2. /\ line' \in Seq(Zone) /\ at' \in [Zone -> States] /\ InLine(line', at')
      /\ \E s \in {"running", "waiting"} : at' = [at EXCEPT ![z] = s]
  <2>1. CASE Cardinality(Running) < Permits
    BY <2>1, <1>1, OutOfLine DEF Begin, States
  <2>2. CASE ~(Cardinality(Running) < Permits)
    BY <2>2, <1>1, JoinsLine DEF Begin, States
  <2> QED BY <2>1, <2>2
<1>3. JobInv'
  BY <1>1, <1>2 DEF CInv, JobInv, JobOrder, States
<1>4. ControllerTypeOK'
  BY <1>1, <1>2 DEF CInv, ControllerTypeOK, States, Request
<1> QED BY <1>1, <1>2, <1>3, <1>4, Unseen DEF CInv, LineInv, DebounceInv

\* The permit of z goes on, its result is published if it is current, and its next job
\* runs at once or gets in line.
LEMMA FinishSteps ==
  ASSUME CInv, NEW z \in Zone, Finish(z)
  PROVE  CInv' /\ Promised
<1> DEFINE passed == PermitPassed(at, line)
           rest == Shorter(line)
           freed == [passed EXCEPT ![z] = "none"]
           free == Cardinality({y \in Zone : freed[y] = "running"}) < Permits
           more == latest[z] # NoJob
<1>1. /\ at[z] = "running" /\ at \in [Zone -> States] /\ line \in Seq(Zone) /\ InLine(line, at)
      /\ UNCHANGED <<clock, world, since, due, gen, stopped, restarts>>
  BY DEF Finish, CInv, ControllerTypeOK, LineInv, States
<1>2. /\ rest \in Seq(Zone) /\ passed \in [Zone -> States] /\ InLine(rest, passed)
      /\ passed[z] = "running"
      /\ \A y \in Zone : passed[y] = at[y] \/ (at[y] = "waiting" /\ passed[y] = "running")
  BY <1>1, PermitPasses
<1>3. /\ shown' = IF Current(z) THEN [shown EXCEPT ![z] = job[z].world] ELSE shown
      /\ job' = [job EXCEPT ![z] = latest[z]] /\ latest' = [latest EXCEPT ![z] = NoJob]
      /\ at' = [freed EXCEPT ![z] = IF ~more THEN "none" ELSE IF free THEN "running"
                                    ELSE "waiting"]
      /\ line' = IF more /\ ~free THEN Append(rest, z) ELSE rest
  BY DEF Finish
<1>4. PICK s \in {"none", "running", "waiting"} :
        /\ at' = [passed EXCEPT ![z] = s]
        /\ line' = IF s = "waiting" THEN Append(rest, z) ELSE rest
        /\ s = "none" <=> ~more
  <2>1. \A s : [freed EXCEPT ![z] = s] = [passed EXCEPT ![z] = s]
    BY <1>2
  <2> HIDE DEF freed, passed, rest, free, more
  <2> QED BY <1>3, <2>1
<1> HIDE DEF passed, rest
<1>5. line' \in Seq(Zone) /\ at' \in [Zone -> States] /\ InLine(line', at')
  <2>1. CASE s = "waiting"
    BY <2>1, <1>2, <1>4, JoinsLine DEF States
  <2>2. CASE s # "waiting"
    BY <2>2, <1>2, <1>4, OutOfLine DEF States
  <2> QED BY <2>1, <2>2
<1>6. /\ JobOrder(z) /\ world[z] \in Nat /\ shown[z] \in Nat /\ job[z] # NoJob
      /\ job[z].world \in Nat /\ shown[z] <= job[z].world /\ job[z].world <= world[z]
      /\ ~stopped[z] /\ (more => latest[z].world \in Nat)
  BY <1>1, VersionsAt DEF CInv, JobInv, JobOrder
<1>7. /\ shown' \in [Zone -> Nat] /\ job' \in [Zone -> Request \union {NoJob}]
      /\ latest' \in [Zone -> Request \union {NoJob}]
      /\ shown'[z] \in {shown[z], job[z].world} /\ job'[z] = latest[z] /\ latest'[z] = NoJob
      /\ at'[z] = s
  BY <1>1, <1>2, <1>3, <1>4, <1>6 DEF CInv, ControllerTypeOK
<1>8. ASSUME NEW y \in Zone, y # z
       PROVE  /\ shown'[y] = shown[y] /\ job'[y] = job[y] /\ latest'[y] = latest[y]
              /\ (at'[y] = "none") <=> (at[y] = "none")
  <2>1. /\ shown'[y] = shown[y] /\ job'[y] = job[y] /\ latest'[y] = latest[y] /\ at'[y] = passed[y]
    BY <1>2, <1>3, <1>4, <1>8 DEF CInv, ControllerTypeOK
  <2> QED BY <2>1, <1>2
<1>9. ControllerTypeOK'
  BY <1>1, <1>5, <1>7 DEF CInv, ControllerTypeOK, States, Request
<1>10. JobInv'
  <2> SUFFICES ASSUME NEW y \in Zone PROVE JobOrder(y)'
    BY DEF JobInv
  <2>1. CASE y = z
    BY <2>1, <1>1, <1>4, <1>6, <1>7 DEF JobOrder
  <2>2. CASE y # z
    <3>1. JobOrder(y) /\ y \in Zone \ {z}
      BY <2>2 DEF CInv, JobInv
    <3>2. /\ shown'[y] = shown[y] /\ job'[y] = job[y] /\ latest'[y] = latest[y]
          /\ world'[y] = world[y] /\ stopped'[y] = stopped[y]
          /\ at'[y] # "none" => at[y] # "none"
          /\ at[y] # "none" => at'[y] # "none"
      BY <3>1, <1>1, <1>8
    <3> QED BY <3>1, <3>2 DEF JobOrder
  <2> QED BY <2>1, <2>2
<1>11. Promised
  <2>1. CASE Current(z)
    <3>1. shown' = [shown EXCEPT ![z] = job[z].world] /\ job[z].world \in shown[z] .. world[z]
      BY <2>1, <1>3, <1>6
    <3>2. ZonePromise!Show(z)
      BY <3>1, <1>1, <1>6 DEF ZonePromise!Show
    <3> QED BY <3>2 DEF Promised, ZonePromise!Next
  <2>2. CASE ~Current(z)
    BY <2>2, <1>1, <1>3, Unseen
  <2> QED BY <2>1, <2>2
<1> QED BY <1>1, <1>5, <1>9, <1>10, <1>11 DEF CInv, LineInv, DebounceInv

LEMMA StopControllerSteps ==
  ASSUME CInv, NEW z \in Zone, StopController(z)
  PROVE  CInv' /\ Promised
<1>1. /\ ~stopped[z] /\ stopped' = [stopped EXCEPT ![z] = TRUE]
      /\ due' = [due EXCEPT ![z] = NoJob]
      /\ gen' = [gen EXCEPT ![z] = @ + 1]
      /\ latest' = [latest EXCEPT ![z] = NoJob] /\ job' = [job EXCEPT ![z] = NoJob]
      /\ UNCHANGED <<clock, world, since, shown, restarts>>
      /\ at \in [Zone -> States] /\ line \in Seq(Zone) /\ InLine(line, at)
  BY DEF StopController, CInv, ControllerTypeOK, LineInv, States
<1>2. /\ line' \in Seq(Zone) /\ at' \in [Zone -> States] /\ InLine(line', at')
      /\ at'[z] = "none" /\ \A y \in Zone \ {z} : at'[y] = "none" <=> at[y] = "none"
  <2>1. CASE at[z] = "running"
    <3> DEFINE passed == PermitPassed(at, line)
               rest == Shorter(line)
    <3>1. /\ rest \in Seq(Zone) /\ passed \in [Zone -> States] /\ InLine(rest, passed)
          /\ passed[z] = "running"
          /\ \A y \in Zone : passed[y] = at[y] \/ (at[y] = "waiting" /\ passed[y] = "running")
      BY <1>1, <2>1, PermitPasses
    <3>2. at' = [passed EXCEPT ![z] = "none"] /\ line' = rest
      BY <2>1 DEF StopController
    <3> HIDE DEF passed, rest
    <3>3. InLine(rest, [passed EXCEPT ![z] = "none"])
      BY <3>1, OutOfLine DEF States
    <3>4. at'[z] = "none" /\ at' \in [Zone -> States] /\ \A y \in Zone \ {z} : at'[y] = passed[y]
      BY <3>1, <3>2 DEF States
    <3>5. \A y \in Zone \ {z} : at'[y] = "none" <=> at[y] = "none"
      BY <3>1, <3>4
    <3> QED BY <3>1, <3>2, <3>3, <3>4, <3>5
  <2>2. CASE at[z] # "running"
    <3>1. at' = [at EXCEPT ![z] = "none"] /\ line' = Queued(line, z)
      BY <2>2 DEF StopController
    <3> QED BY <3>1, <1>1, QuitsLine DEF States
  <2> QED BY <2>1, <2>2
<1>3. ControllerTypeOK'
  <2>1. /\ since' \in [Zone -> Nat \union {NoJob}] /\ due' \in [Zone -> Nat \union {NoJob}]
        /\ gen' \in [Zone -> Nat] /\ stopped' \in [Zone -> BOOLEAN]
    BY <1>1 DEF CInv, ControllerTypeOK
  <2>2. job' \in [Zone -> Request \union {NoJob}] /\ latest' \in [Zone -> Request \union {NoJob}]
    BY <1>1 DEF CInv, ControllerTypeOK
  <2> QED BY <2>1, <2>2, <1>1, <1>2 DEF CInv, ControllerTypeOK, States, Request
<1>4. DebounceInv'
  BY <1>1 DEF CInv, ControllerTypeOK, DebounceInv
<1>5. JobInv'
  <2> SUFFICES ASSUME NEW y \in Zone PROVE JobOrder(y)'
    BY DEF JobInv
  <2>1. JobOrder(y)
    BY DEF CInv, JobInv
  <2> QED BY <2>1, <1>1, <1>2 DEF JobOrder, CInv, ControllerTypeOK
<1>6. ZonePromise!Close(z)
  BY <1>1 DEF ZonePromise!Close, CInv, ControllerTypeOK
<1>7. Promised
  BY <1>6 DEF Promised, ZonePromise!Next
<1> QED BY <1>2, <1>3, <1>4, <1>5, <1>7 DEF CInv, LineInv

LEMMA RestartSteps ==
  ASSUME CInv, NEW z \in Zone, Restart(z)
  PROVE  CInv' /\ Promised
<1> DEFINE r == [gen |-> 1, world |-> world[z]]
<1>1. /\ stopped[z] /\ stopped' = [stopped EXCEPT ![z] = FALSE] /\ restarts' = restarts + 1
      /\ gen' = [gen EXCEPT ![z] = 1] /\ job' = [job EXCEPT ![z] = r]
      /\ at' = [at EXCEPT ![z] = "created"]
      /\ since' = [since EXCEPT ![z] = NoJob] /\ due' = [due EXCEPT ![z] = NoJob]
      /\ shown' = [shown EXCEPT ![z] = 0]
      /\ UNCHANGED <<clock, world, latest, line>>
      /\ at \in [Zone -> States] /\ line \in Seq(Zone) /\ InLine(line, at)
  BY DEF Restart, CInv, ControllerTypeOK, LineInv, States
<1>2. r \in Request /\ r # NoJob /\ r.world = world[z] /\ world[z] \in Nat
  BY ControllerAssumption DEF CInv, ControllerTypeOK, Request
<1> HIDE DEF r
<1>3. JobOrder(z) /\ at[z] = "none" /\ latest[z] = NoJob
  BY <1>1 DEF CInv, JobInv, JobOrder
<1>4. at' \in [Zone -> States] /\ InLine(line', at')
  BY <1>1, <1>3, OutOfLine DEF States
<1>5. ControllerTypeOK'
  BY <1>1, <1>2, <1>4 DEF CInv, ControllerTypeOK, States
<1>6. DebounceInv'
  BY <1>1 DEF CInv, ControllerTypeOK, DebounceInv
<1>7. JobInv'
  <2> SUFFICES ASSUME NEW y \in Zone PROVE JobOrder(y)'
    BY DEF JobInv
  <2>1. JobOrder(y)
    BY DEF CInv, JobInv
  <2>2. CASE y = z
    BY <2>2, <1>1, <1>2, <1>3 DEF JobOrder, CInv, ControllerTypeOK
  <2>3. CASE y # z
    BY <2>1, <2>3, <1>1 DEF JobOrder, CInv, ControllerTypeOK
  <2> QED BY <2>2, <2>3
<1>8. ZonePromise!Reopen(z)
  BY <1>1 DEF ZonePromise!Reopen, CInv, ControllerTypeOK
<1>9. Promised
  BY <1>8 DEF Promised, ZonePromise!Next
<1> QED BY <1>4, <1>5, <1>6, <1>7, <1>9 DEF CInv, LineInv

LEMMA TickSteps ==
  ASSUME CInv, Tick
  PROVE  CInv' /\ Promised
<1>1. clock' = clock + 1 /\ clock \in Nat
      /\ UNCHANGED <<world, since, due, gen, job, at, latest, stopped, line, shown, restarts>>
      /\ \A z \in Zone : due[z] # NoJob => due[z] \in Nat /\ clock + 1 <= due[z]
  BY DEF Tick, jobVars, CInv, ControllerTypeOK
<1>2. DebounceInv'
  BY <1>1 DEF CInv, DebounceInv
<1>3. ControllerTypeOK' /\ JobInv' /\ LineInv'
  BY <1>1 DEF CInv, ControllerTypeOK, Request, JobInv, JobOrder, LineInv, InLine
<1> QED BY <1>1, <1>2, <1>3, Unseen DEF CInv

LEMMA ControllerSteps == CInv /\ [ControllerNext]_controllerVars => CInv' /\ Promised
<1> SUFFICES ASSUME CInv, [ControllerNext]_controllerVars PROVE CInv' /\ Promised
  OBVIOUS
<1>1. CASE UNCHANGED controllerVars
  BY <1>1, Unseen DEF controllerVars, jobVars, CInv, ControllerTypeOK, Request, DebounceInv, JobInv,
     JobOrder, LineInv, InLine
<1>2. CASE ControllerNext
  BY <1>2, SourceReportedSteps, SnapshotSteps, BeginSteps, FinishSteps, StopControllerSteps,
     RestartSteps, TickSteps DEF ControllerNext
<1> QED BY <1>1, <1>2

LEMMA ControllerInvariant == ControllerSpec => []CInv
<1>1. CInv /\ [ControllerNext]_controllerVars => CInv'
  BY ControllerSteps
<1> QED BY <1>1, ControllerInitially, PTL DEF ControllerSpec

-----------------------------------------------------------------------------
(* The permits *)

\* As many zones run as have a permit, and none waits for a permit that is free.
PermitInv ==
  /\ IsFiniteSet(Running) /\ Cardinality(Running) <= Permits
  /\ line # << >> => Cardinality(Running) = Permits

Runners(a) == {z \in Zone : a[z] = "running"}

\* A permit that z gives back goes to the first in line, if there is one.
LEMMA PermitGiven ==
  ASSUME CInv, PermitInv, NEW z \in Zone, at[z] = "running",
         NEW freed, freed = [PermitPassed(at, line) EXCEPT ![z] = "none"]
  PROVE  /\ IsFiniteSet(Runners(freed)) /\ Cardinality(Runners(freed)) \in Nat
         /\ line = << >> => Cardinality(Runners(freed)) < Permits
         /\ line # << >> => Cardinality(Runners(freed)) = Permits
<1>1. /\ at \in [Zone -> States] /\ line \in Seq(Zone) /\ InLine(line, at)
      /\ Permits \in Nat
  BY ControllerAssumption DEF CInv, ControllerTypeOK, LineInv, States
<1> DEFINE left == Running \ {z}
           n == Cardinality(Running)
<1>2. IsFiniteSet(left) /\ Cardinality(left) = n - 1 /\ n \in Nat /\ n <= Permits
  <2>1. z \in Running /\ IsFiniteSet(Running)
    BY DEF Running, PermitInv
  <2> QED BY <2>1, FS_RemoveElement, FS_CardinalityType DEF PermitInv
<1>3. line # << >> => n = Permits
  BY DEF PermitInv
<1>4. CASE line = << >>
  <2>1. Runners(freed) = left
    BY <1>1, <1>4 DEF Runners, Running, PermitPassed
  <2>2. IsFiniteSet(left) /\ Cardinality(left) \in Nat
    BY <1>2, FS_CardinalityType
  <2> HIDE DEF left, n
  <2> QED BY <2>1, <2>2, <1>1, <1>2, <1>4
<1>5. CASE line # << >>
  <2> DEFINE h == Head(line)
             now == left \union {h}
  <2>1. h \in Zone /\ at[h] = "waiting"
    BY <1>1, <1>5, HeadAndTail DEF InLine
  <2>2. Runners(freed) = now /\ h \notin left
    BY <2>1, <1>1, <1>5 DEF Runners, Running, PermitPassed
  <2> HIDE DEF left, n, h
  <2>3. IsFiniteSet(now) /\ Cardinality(now) = Cardinality(left) + 1
    BY <2>2, <1>2, FS_AddElement
  <2> HIDE DEF now
  <2>4. IsFiniteSet(Runners(freed)) /\ Cardinality(Runners(freed)) = n
    BY <2>2, <2>3, <1>2
  <2> QED BY <2>4, <1>1, <1>2, <1>3, <1>5
<1> QED BY <1>4, <1>5

\* The zone z goes on with or without a permit.
LEMMA RunnersAfter ==
  ASSUME NEW a \in [Zone -> States], NEW z \in Zone, a[z] # "running",
         IsFiniteSet(Runners(a)), NEW s \in States, NEW b, b = [a EXCEPT ![z] = s]
  PROVE  /\ IsFiniteSet(Runners(b)) /\ Cardinality(Runners(a)) \in Nat
         /\ s = "running" => Cardinality(Runners(b)) = Cardinality(Runners(a)) + 1
         /\ s # "running" => Cardinality(Runners(b)) = Cardinality(Runners(a))
<1>1. Cardinality(Runners(a)) \in Nat
  BY FS_CardinalityType
<1>2. CASE s = "running"
  <2> DEFINE old == Runners(a)
  <2>1. Runners(b) = old \union {z} /\ z \notin old
    BY <1>2 DEF Runners
  <2> HIDE DEF old
  <2>2. IsFiniteSet(old) => IsFiniteSet(old \union {z}) /\ Cardinality(old \union {z}) = Cardinality(old) + 1
    BY <2>1, FS_AddElement
  <2>3. IsFiniteSet(Runners(b)) /\ Cardinality(Runners(b)) = Cardinality(Runners(a)) + 1
    BY <2>1, <2>2 DEF old
  <2> QED BY <1>1, <1>2, <2>3
<1>3. CASE s # "running"
  <2>1. Runners(b) = Runners(a)
    BY <1>3 DEF Runners
  <2> QED BY <1>1, <1>3, <2>1
<1> QED BY <1>2, <1>3

LEMMA PermitUntouched ==
  ASSUME PermitInv, Running' = Running, line' # << >> => line # << >>
  PROVE  PermitInv'
BY DEF PermitInv

LEMMA PermitSteps ==
  ASSUME CInv, PermitInv, [ControllerNext]_controllerVars
  PROVE  PermitInv'
<1>1. /\ at \in [Zone -> States] /\ line \in Seq(Zone) /\ Permits \in Nat
      /\ Running = Runners(at) /\ Running' = Runners(at')
  BY ControllerAssumption DEF CInv, ControllerTypeOK, States, Running, Runners
<1> USE DEF States
<1>2. CASE UNCHANGED controllerVars \/ Tick \/ \E z \in Zone : SourceReported(z)
  <2>1. UNCHANGED <<at, line>>
    BY <1>2 DEF controllerVars, jobVars, Tick, SourceReported
  <2> QED BY <2>1, <1>1, PermitUntouched
<1>3. ASSUME NEW z \in Zone, Fire(z) \/ DirectRequest(z) \/ InvalidateAndRequest(z)
      PROVE  PermitInv'
  <2>1. \/ at' = at
        \/ at[z] = "none" /\ at' = [at EXCEPT ![z] = "created"]
    BY <1>1, <1>3 DEF Fire, DirectRequest, InvalidateAndRequest, RequestJob, jobVars
  <2>2. line' = line /\ Running' = Running
    BY <1>1, <1>3, <2>1 DEF Fire, DirectRequest, InvalidateAndRequest, Runners
  <2> QED BY <2>2, PermitUntouched
<1>4. ASSUME NEW z \in Zone, Restart(z) PROVE PermitInv'
  <2>1. at[z] = "none" /\ at' = [at EXCEPT ![z] = "created"] /\ line' = line
    BY <1>4 DEF Restart, CInv, JobInv, JobOrder
  <2>2. Running' = Running
    BY <1>1, <2>1 DEF Runners
  <2> QED BY <2>1, <2>2, PermitUntouched
<1>5. ASSUME NEW z \in Zone, Begin(z) PROVE PermitInv'
  <2>1. at[z] = "created" /\ IsFiniteSet(Runners(at)) /\ Cardinality(Runners(at)) \in Nat
    BY <1>1, <1>5, FS_CardinalityType DEF Begin, PermitInv
  <2>2. CASE Cardinality(Running) < Permits
    <3>1. at' = [at EXCEPT ![z] = "running"] /\ line' = line /\ line = << >>
      BY <2>2, <1>1, <1>5, <2>1 DEF Begin, PermitInv
    <3>2. /\ IsFiniteSet(Runners(at')) /\ Cardinality(Runners(at')) = Cardinality(Runners(at)) + 1
      BY <3>1, <2>1, <1>1, RunnersAfter
    <3> QED BY <3>1, <3>2, <2>1, <2>2, <1>1 DEF PermitInv
  <2>3. CASE ~(Cardinality(Running) < Permits)
    <3>1. at' = [at EXCEPT ![z] = "waiting"] /\ Cardinality(Runners(at)) = Permits
      BY <2>3, <1>1, <1>5, <2>1 DEF Begin, PermitInv
    <3>2. /\ IsFiniteSet(Runners(at')) /\ Cardinality(Runners(at')) = Cardinality(Runners(at))
      BY <3>1, <2>1, <1>1, RunnersAfter
    <3> QED BY <3>1, <3>2, <1>1 DEF PermitInv
  <2> QED BY <2>2, <2>3
<1>6. ASSUME NEW z \in Zone, Finish(z) PROVE PermitInv'
  <2> DEFINE freed == [PermitPassed(at, line) EXCEPT ![z] = "none"]
             free == Cardinality(Runners(freed)) < Permits
             more == latest[z] # NoJob
             s == IF ~more THEN "none" ELSE IF free THEN "running" ELSE "waiting"
  <2>1. /\ at[z] = "running" /\ at' = [freed EXCEPT ![z] = s]
        /\ line' = IF more /\ ~free THEN Append(Shorter(line), z) ELSE Shorter(line)
    BY <1>6 DEF Finish, Runners
  <2>2. /\ IsFiniteSet(Runners(freed)) /\ Cardinality(Runners(freed)) \in Nat
        /\ line = << >> => Cardinality(Runners(freed)) < Permits
        /\ line # << >> => Cardinality(Runners(freed)) = Permits
    BY <2>1, PermitGiven
  <2>3. freed \in [Zone -> States] /\ freed[z] # "running" /\ s \in States
    BY <1>1, PermitPasses DEF CInv, LineInv
  <2> HIDE DEF freed
  <2> HIDE DEF s
  <2>4. /\ IsFiniteSet(Runners(at'))
        /\ s = "running" => Cardinality(Runners(at')) = Cardinality(Runners(freed)) + 1
        /\ s # "running" => Cardinality(Runners(at')) = Cardinality(Runners(freed))
    BY <2>1, <2>2, <2>3, RunnersAfter
  <2> USE DEF s
  <2>5. CASE line = << >>
    <3>1. free /\ line' = << >>
      BY <2>5, <2>1, <2>2 DEF Shorter
    <3> QED BY <3>1, <2>2, <2>4, <1>1 DEF PermitInv
  <2>6. CASE line # << >>
    <3>1. ~free
      BY <2>6, <2>2, <1>1
    <3> QED BY <3>1, <2>6, <2>2, <2>4, <1>1 DEF PermitInv
  <2> QED BY <2>5, <2>6
<1>7. ASSUME NEW z \in Zone, StopController(z) PROVE PermitInv'
  <2>1. CASE at[z] = "running"
    <3>1. at' = [PermitPassed(at, line) EXCEPT ![z] = "none"] /\ line' = Shorter(line)
      BY <2>1, <1>7 DEF StopController
    <3>2. /\ IsFiniteSet(Runners(at')) /\ Cardinality(Runners(at')) \in Nat
          /\ line = << >> => Cardinality(Runners(at')) < Permits
          /\ line # << >> => Cardinality(Runners(at')) = Permits
      BY <2>1, <3>1, PermitGiven
    <3>3. line = << >> => line' = << >>
      BY <3>1 DEF Shorter
    <3> QED BY <3>2, <3>3, <1>1 DEF PermitInv
  <2>2. CASE at[z] # "running"
    <3>1. at' = [at EXCEPT ![z] = "none"] /\ line' = Queued(line, z)
      BY <2>2, <1>7 DEF StopController
    <3>2. line = << >> => line' = << >>
      BY <3>1 DEF Queued, ToSet
    <3>3. Running' = Running
      BY <3>1, <2>2, <1>1 DEF Runners
    <3> QED BY <3>2, <3>3, PermitUntouched
  <2> QED BY <2>1, <2>2
<1> QED BY <1>2, <1>3, <1>4, <1>5, <1>6, <1>7 DEF ControllerNext

-----------------------------------------------------------------------------
(* Theorems *)

\* The requests, jobs, timers and the line of the semaphore keep their types.
THEOREM ControllerTypes == ControllerSpec => []ControllerTypeOK
BY ControllerInvariant, PTL DEF CInv

\* schedule_environmental_snapshot: reports may come as fast as they like, the
\* snapshot of the first is not postponed beyond the limit.
THEOREM PostponementsBounded == ControllerSpec => []PostponementBounded
<1>1. CInv => PostponementBounded
  BY ControllerAssumption DEF CInv, ControllerTypeOK, DebounceInv, PostponementBounded
<1> QED BY <1>1, ControllerInvariant, PTL

\* ZoneController implements the safety of AbstractZone: a result comes from a version
\* at least as new as the one shown, and a stopped zone shows nothing.
THEOREM ControllerImplementsPromise == ControllerSpec => ZonePromise!SafeSpec
<1>1. ControllerInit => ZonePromise!Init
  BY DEF ControllerInit, ZonePromise!Init
<1>2. CInv /\ [ControllerNext]_controllerVars => [ZonePromise!Next]_(ZonePromise!vars)
  BY ControllerSteps DEF Promised
<1> QED BY <1>1, <1>2, ControllerInvariant, PTL DEF ControllerSpec, ZonePromise!SafeSpec

\* asyncio.Semaphore as the zones use it: no more jobs than permits, no permit lost
\* while a zone waits, and the line is exactly those that wait.
THEOREM PermitsAreKept == ControllerSpec => []PermitsKept
<1>1. ControllerInit => PermitInv
  <2>1. ControllerInit => Running = {} /\ line = << >>
    BY DEF ControllerInit, Running
  <2>2. IsFiniteSet({}) /\ Cardinality({}) = 0 /\ Permits \in Nat
    BY FS_EmptySet, ControllerAssumption
  <2>3. ASSUME ControllerInit PROVE IsFiniteSet(Running) /\ Cardinality(Running) = 0
    BY <2>1, <2>2, <2>3, Zenon
  <2> QED BY <2>1, <2>2, <2>3 DEF PermitInv
<1>2. CInv /\ PermitInv /\ [ControllerNext]_controllerVars => PermitInv'
  BY PermitSteps
<1>3. CInv /\ PermitInv => PermitsKept
  <2> SUFFICES ASSUME CInv, PermitInv PROVE PermitsKept
    OBVIOUS
  <2>1. line \in Seq(Zone) /\ InLine(line, at) /\ DOMAIN line = 1 .. Len(line)
    BY DEF CInv, ControllerTypeOK, LineInv
  <2>2. \A z \in Zone : (at[z] = "waiting") = (z \in ToSet(line))
    BY <2>1 DEF InLine, ToSet
  <2>3. IsInjective(line)
    BY <2>1 DEF InLine, IsInjective
  <2> QED BY <2>2, <2>3 DEF PermitInv, PermitsKept
<1> QED BY <1>1, <1>2, <1>3, ControllerInvariant, PTL DEF ControllerSpec
=============================================================================
