--------------------------- MODULE ControlStoreProofs ---------------------------
(* The control store keeps its promise (AbstractStore) for any number of          *)
(* operations, waiters, faults and starts.                                        *)
EXTENDS ControlStore, TLAPS

\* The display snapshot has no lower bound: one that was dropped may be acknowledged.
Within(low, x, high) == \A f \in Field : x[f] <= high[f] /\ (f # Late => low[f] <= x[f])

\* Operations that set a field whose values are numbered by their requests.
Sets(op) == op.kind \in {"persist", "resolve", "update", "candidate"}

\* Waiters carry what was asked for; those that set one field come in the order of
\* their values, none behind what is already safe.
QueueInv ==
  \A i \in 1 .. Len(queue) :
    /\ queue[i].value <= wanted[queue[i].field]
    /\ (queue[i].kind = "display") <=> (queue[i].field = Late)
    /\ Sets(queue[i]) =>
         /\ kept[queue[i].field] <= queue[i].value
         /\ \A j \in 1 .. Len(queue) :
              (i < j /\ Sets(queue[j]) /\ queue[j].field = queue[i].field)
                => queue[i].value <= queue[j].value

\* What is being written carries the value of its operation, and nothing older than
\* what is safe; only the demand latch is not yet in the memory.
WriteInv ==
  phase # "idle" =>
    /\ Within(kept, image.val, wanted)
    /\ queue[1].kind \notin {"start", "clean"} => image.val[queue[1].field] = queue[1].value
    /\ queue[1].kind # "candidate" => mem = image

\* The memory is as new as what is safe, unless the zone is down.
Awake == up # "down" \/ queue # << >>
MemoryInv == Awake => Within(kept, mem.val, wanted)

\* The snapshot in the memory is no older than that in the file, and what is serialised
\* has the same.  Between two operations the memory is ahead of the file only if the
\* write of its snapshot has failed; a start has yet to write.
LateInv ==
  /\ failed <= wanted[Late]
  /\ Awake => file.val[Late] <= mem.val[Late]
  /\ phase # "idle" => image.val[Late] = mem.val[Late]
  /\ (Awake /\ phase = "idle" /\ (queue # << >> => queue[1].kind # "start"))
       => mem.val[Late] <= file.val[Late] \/ mem.val[Late] <= failed

SInv ==
  /\ StoreTypeOK /\ QueueInv /\ WriteInv /\ MemoryInv /\ LateInv
  /\ Within(kept, file.val, wanted)
  /\ \A f \in Field : kept[f] <= wanted[f]

-----------------------------------------------------------------------------
LEMMA TailFacts ==
  ASSUME NEW S, NEW q \in Seq(S), q # << >>
  PROVE  /\ Tail(q) \in Seq(S) /\ Len(Tail(q)) = Len(q) - 1 /\ Len(q) \in Nat \ {0}
         /\ \A i \in 1 .. Len(Tail(q)) : i + 1 \in 1 .. Len(q) /\ Tail(q)[i] = q[i + 1]
         /\ Head(q) = q[1] /\ Head(q) \in S
OBVIOUS

LEMMA AppendFacts ==
  ASSUME NEW S, NEW q \in Seq(S), NEW e \in S
  PROVE  /\ Append(q, e) \in Seq(S) /\ Len(Append(q, e)) = Len(q) + 1 /\ Len(q) \in Nat
         /\ \A i \in 1 .. Len(q) : Append(q, e)[i] = q[i]
         /\ Append(q, e)[Len(q) + 1] = e /\ Append(q, e) # << >>
OBVIOUS

LEMMA OperationFacts ==
  ASSUME NEW op \in Operation
  PROVE  op.field \in Field /\ op.value \in Nat
BY DEF Operation

LEMMA ElementFacts ==
  ASSUME NEW S, NEW q \in Seq(S), NEW i \in 1 .. Len(q)
  PROVE  q[i] \in S
OBVIOUS

LEMMA WithinGrows ==
  ASSUME NEW low \in [Field -> Nat], NEW x \in [Field -> Nat], NEW high \in [Field -> Nat],
         NEW top \in [Field -> Nat], Within(low, x, high), \A f \in Field : high[f] <= top[f]
  PROVE  Within(low, x, top)
BY DEF Within

LEMMA StoreInitially == StoreInit => SInv
BY StoreAssumption DEF StoreInit, SInv, StoreTypeOK, StoreState, NewState, Zero, QueueInv,
   WriteInv, MemoryInv, Awake, LateInv, Within, Field, Late

\* A request joins the queue: what is wanted grows, and a value of a numbered field is
\* newer than all that went before.
LEMMA AskSteps ==
  ASSUME SInv, NEW op \in Operation, Ask(op), open' \in Nat \union {NoCommand},
         (op.kind = "display") <=> (op.field = Late),
         Sets(op) => op.value = Newer(op.field)
  PROVE  SInv' /\ StorePromise!Ask
<1> DEFINE q == queue'
<1>1. wanted' \in [Field -> Nat] /\ (\A f \in Field : wanted[f] <= wanted'[f])
      /\ op.value <= wanted'[op.field] /\ kept' = kept
  BY DEF Ask, SInv, StoreTypeOK, Operation
<1>2. /\ q \in Seq(Operation) /\ Len(q) = Len(queue) + 1 /\ Len(queue) \in Nat
      /\ \A i \in 1 .. Len(queue) : q[i] = queue[i]
      /\ q[Len(queue) + 1] = op /\ q # << >>
  BY AppendFacts DEF Ask, SInv, StoreTypeOK
<1>3. StoreTypeOK'
  BY <1>1, <1>2 DEF Ask, SInv, StoreTypeOK
<1>4. \A i \in 1 .. Len(queue) : queue[i] \in Operation /\ queue[i].field \in Field
      /\ queue[i].value \in Nat
  BY ElementFacts, OperationFacts DEF SInv, StoreTypeOK
<1>5. \A f \in Field : kept[f] \in Nat /\ wanted[f] \in Nat /\ wanted'[f] \in Nat
      /\ kept[f] <= wanted[f]
  BY <1>1 DEF SInv, StoreTypeOK, Within, StoreState
<1>6. QueueInv'
  <2> SUFFICES ASSUME NEW i \in 1 .. Len(q)
               PROVE  /\ q[i].value <= wanted'[q[i].field]
                      /\ (q[i].kind = "display") <=> (q[i].field = Late)
                      /\ Sets(q[i]) =>
                           /\ kept[q[i].field] <= q[i].value
                           /\ \A j \in 1 .. Len(q) :
                                (i < j /\ Sets(q[j]) /\ q[j].field = q[i].field)
                                  => q[i].value <= q[j].value
    BY <1>1 DEF QueueInv, Sets
  <2>1. CASE i = Len(queue) + 1
    BY <2>1, <1>1, <1>2, <1>5 DEF Newer, Operation
  <2>2. CASE i \in 1 .. Len(queue)
    <3>1. queue[i].value <= wanted[queue[i].field] /\ q[i] = queue[i]
      BY <2>2, <1>2 DEF SInv, QueueInv
    <3>2. q[i].value <= wanted'[q[i].field]
      BY <3>1, <2>2, <1>4, <1>5, <1>1
    <3>3. ASSUME NEW j \in 1 .. Len(q), Sets(q[i]), i < j, Sets(q[j]), q[j].field = q[i].field
          PROVE  q[i].value <= q[j].value
      <4>1. CASE j \in 1 .. Len(queue)
        BY <4>1, <3>3, <2>2, <1>2 DEF SInv, QueueInv
      <4>2. CASE j = Len(queue) + 1
        BY <4>2, <3>3, <3>1, <2>2, <1>2, <1>4, <1>5 DEF Newer
      <4> QED BY <4>1, <4>2, <1>2
    <3>4. /\ (q[i].kind = "display") <=> (q[i].field = Late)
          /\ Sets(q[i]) => kept[q[i].field] <= q[i].value
      BY <3>1, <2>2 DEF SInv, QueueInv
    <3> QED BY <3>2, <3>3, <3>4
  <2> QED BY <2>1, <2>2, <1>2
<1>7. /\ mem' = mem /\ image' = image /\ file' = file /\ phase' = phase
      /\ up = "running" /\ up' = up /\ kept' = kept /\ failed' = failed
      /\ mem.val \in [Field -> Nat] /\ image.val \in [Field -> Nat] /\ file.val \in [Field -> Nat]
      /\ kept \in [Field -> Nat] /\ wanted \in [Field -> Nat]
  BY DEF Ask, SInv, StoreTypeOK, StoreState
<1>8. WriteInv'
  <2> SUFFICES ASSUME phase # "idle" PROVE WriteInv'
    BY <1>7 DEF WriteInv
  <2>1. q[1] = queue[1]
    BY <1>2 DEF SInv, StoreTypeOK
  <2>2. Within(kept, image.val, wanted')
    BY <1>1, <1>7, WithinGrows DEF SInv, WriteInv
  <2> QED BY <2>1, <2>2, <1>7 DEF SInv, WriteInv, Within
<1>10. MemoryInv' /\ Within(kept', file'.val, wanted')
  <2>1. Within(kept, mem.val, wanted') /\ Within(kept, file.val, wanted')
    BY <1>1, <1>7, WithinGrows DEF SInv, MemoryInv, Awake
  <2> QED BY <2>1, <1>7 DEF MemoryInv, Within
<1>11. LateInv' /\ \A f \in Field : kept'[f] <= wanted'[f]
  <2>1. \A f \in Field : kept'[f] <= wanted'[f]
    BY <1>1, <1>5
  <2>2. failed <= wanted[Late] /\ wanted[Late] \in Nat /\ failed \in Nat /\ Late \in Field
    BY <1>7 DEF SInv, LateInv, StoreTypeOK, Late, Field
  <2>3. failed' <= wanted'[Late]
    BY <2>2, <1>1, <1>5, <1>7
  <2>4. queue # << >> => queue'[1] = queue[1] /\ queue' # << >>
    <3>1. queue # << >> => Len(queue) # 0
      BY DEF SInv, StoreTypeOK
    <3> QED BY <3>1, <1>2
  <2> QED BY <2>1, <2>3, <2>4, <1>7 DEF SInv, LateInv, Awake
<1>9. StorePromise!Ask
  BY <1>1, <1>7 DEF Ask, StorePromise!Ask, SInv, StoreTypeOK
<1> QED BY <1>3, <1>6, <1>7, <1>8, <1>9, <1>10, <1>11 DEF SInv

\* The requests of the callers, one by one.
LEMMA StoreRequestSteps ==
  ASSUME SInv,
         PersistPending \/ ResolveCommand \/ UpdateRuntime \/ UpdateMarker
           \/ UpdateHeatGuards \/ UpdateActuator \/ UpdateDemand \/ UpdateLastValid
  PROVE  SInv' /\ StorePromise!Ask
<1> USE DEF Op, Field, Late, Sets, Operation
<1>1. open \in Nat \union {NoCommand} /\ wanted \in [Field -> Nat]
  BY DEF SInv, StoreTypeOK
<1>2. \A f \in Field : Newer(f) \in Nat
  BY <1>1 DEF Newer
<1>3. CASE PersistPending
  BY <1>1, <1>2, <1>3, AskSteps DEF PersistPending
<1>4. CASE ResolveCommand
  BY <1>1, <1>2, <1>4, AskSteps DEF ResolveCommand
<1>5. CASE UpdateRuntime
  BY <1>1, <1>2, <1>5, AskSteps DEF UpdateRuntime
<1>6. CASE UpdateMarker
  BY <1>1, <1>2, <1>6, AskSteps DEF UpdateMarker
<1>7. CASE UpdateHeatGuards
  BY <1>1, <1>2, <1>7, AskSteps DEF UpdateHeatGuards
<1>8. CASE UpdateActuator
  BY <1>1, <1>2, <1>8, AskSteps DEF UpdateActuator
<1>9. CASE UpdateDemand
  BY <1>1, <1>2, <1>9, AskSteps DEF UpdateDemand
<1>10. CASE UpdateLastValid
  <2>1. PICK v \in mem.blank + 1 .. wanted[Late] + 2 : Ask(Op("display", Late, v, NoCommand))
    BY <1>10 DEF UpdateLastValid
  <2>2. v \in Nat
    <3>1. mem.blank \in Nat /\ wanted[Late] \in Nat
      BY <1>1 DEF SInv, StoreTypeOK, StoreState
    <3> QED BY <3>1
  <2> QED BY <1>1, <1>10, <2>1, <2>2, AskSteps DEF UpdateLastValid
<1> QED BY <1>3, <1>4, <1>5, <1>6, <1>7, <1>8, <1>9, <1>10

-----------------------------------------------------------------------------
(* The end of an operation: the others move up.  What is safe may have grown to   *)
(* the value of the operation.                                                    *)

LEMMA QueueMovesUp ==
  ASSUME SInv, queue # << >>, queue' = Tail(queue), wanted' = wanted,
         \A f \in Field : kept'[f] = kept[f] \/ (f = queue[1].field /\ queue[1].kind # "start"
                              /\ queue[1].kind # "clean" /\ kept'[f] = queue[1].value)
  PROVE  QueueInv' /\ queue' \in Seq(Operation)
<1>1. /\ queue' \in Seq(Operation) /\ Len(queue') = Len(queue) - 1 /\ Len(queue) \in Nat \ {0}
      /\ \A i \in 1 .. Len(queue') : i + 1 \in 1 .. Len(queue) /\ queue'[i] = queue[i + 1]
  BY TailFacts DEF SInv, StoreTypeOK
<1>2. \A i \in 1 .. Len(queue) : queue[i] \in Operation /\ queue[i].field \in Field
  BY ElementFacts, OperationFacts DEF SInv, StoreTypeOK
<1>3. 1 \in 1 .. Len(queue)
  BY <1>1
<1>4. ASSUME NEW i \in 1 .. Len(queue')
      PROVE  /\ queue'[i].value <= wanted'[queue'[i].field]
             /\ (queue'[i].kind = "display") <=> (queue'[i].field = Late)
             /\ Sets(queue'[i]) =>
                  /\ kept'[queue'[i].field] <= queue'[i].value
                  /\ \A j \in 1 .. Len(queue') :
                       (i < j /\ Sets(queue'[j]) /\ queue'[j].field = queue'[i].field)
                         => queue'[i].value <= queue'[j].value
  <2>1. i + 1 \in 1 .. Len(queue) /\ queue'[i] = queue[i + 1]
    BY <1>1
  <2>2. /\ queue'[i].value <= wanted'[queue'[i].field]
        /\ (queue'[i].kind = "display") <=> (queue'[i].field = Late)
    BY <2>1 DEF SInv, QueueInv
  <2>3. ASSUME Sets(queue'[i]) PROVE kept'[queue'[i].field] <= queue'[i].value
    <3> DEFINE f == queue[i + 1].field
    <3>1. f \in Field /\ kept[f] <= queue[i + 1].value
      BY <2>1, <2>3, <1>2 DEF SInv, QueueInv
    <3>2. CASE kept'[f] = kept[f]
      BY <2>1, <3>1, <3>2
    <3>3. CASE f = queue[1].field /\ queue[1].kind # "start" /\ queue[1].kind # "clean"
               /\ kept'[f] = queue[1].value
      <4>1. queue[1].kind # "display"
        BY <3>3, <2>1, <2>3, <1>3 DEF SInv, QueueInv, Sets
      <4>2. Sets(queue[1])
        BY <4>1, <3>3, <1>2, <1>3 DEF Sets, Operation
      <4>3. 1 < i + 1
        BY <1>1
      <4> QED BY <4>2, <4>3, <3>3, <2>1, <2>3, <1>3 DEF SInv, QueueInv
    <3> QED BY <3>1, <3>2, <3>3
  <2>4. ASSUME Sets(queue'[i]), NEW j \in 1 .. Len(queue'), i < j, Sets(queue'[j]),
               queue'[j].field = queue'[i].field
        PROVE  queue'[i].value <= queue'[j].value
    <3>1. j + 1 \in 1 .. Len(queue) /\ queue'[j] = queue[j + 1] /\ i + 1 < j + 1
      BY <1>1, <2>4
    <3> QED BY <3>1, <2>1, <2>4 DEF SInv, QueueInv
  <2> QED BY <2>2, <2>3, <2>4
<1> QED BY <1>1, <1>4 DEF QueueInv, Sets

\* ... with the lock released, the state of the zone moved on, and nothing written.
LEMMA EndsTypes ==
  ASSUME StoreTypeOK, queue # << >>, Ends(Head(queue))
  PROVE  /\ queue' = Tail(queue) /\ phase' = "idle" /\ image' \in StoreState
         /\ up' \in {"down", "starting", "running", "stopping"}
BY DEF Ends, StoreTypeOK, StoreState, NewState, Zero

\* What is safe has grown by the value of an operation, that is no newer than what was
\* asked for.
LEMMA AcknowledgedFacts ==
  ASSUME SInv, queue # << >>, NEW op, op = queue[1]
  PROVE  /\ Acknowledged(op) \in [Field -> Nat]
         /\ op \in Operation /\ op.field \in Field /\ op.value \in Nat
         /\ op.value <= wanted[op.field] /\ op = Head(queue)
         /\ \A f \in Field :
              /\ kept[f] <= Acknowledged(op)[f] /\ Acknowledged(op)[f] <= wanted[f]
              /\ Acknowledged(op)[f] = kept[f]
                   \/ (f = op.field /\ Acknowledged(op)[f] = op.value)
<1>1. Len(queue) \in Nat \ {0} /\ op \in Operation /\ op = Head(queue)
  BY TailFacts DEF SInv, StoreTypeOK
<1>2. op.field \in Field /\ op.value \in Nat
  BY <1>1, OperationFacts
<1>3. op.value <= wanted[op.field]
  BY <1>1 DEF SInv, QueueInv
<1>4. kept \in [Field -> Nat] /\ wanted \in [Field -> Nat] /\ \A f \in Field : kept[f] <= wanted[f]
  BY DEF SInv, StoreTypeOK
<1> QED BY <1>1, <1>2, <1>3, <1>4 DEF Acknowledged

\* A dropped snapshot is acknowledged: it is older than that of the memory, which is in
\* the file or was in a write that failed.
LEMMA DropSteps == SInv /\ DropSnapshot => SInv' /\ StorePromise!Acknowledge
<1> SUFFICES ASSUME SInv, DropSnapshot PROVE SInv' /\ StorePromise!Acknowledge
  OBVIOUS
<1> DEFINE op == queue[1]
<1>1. queue # << >> /\ phase = "idle"
  BY DEF DropSnapshot
<1>2. /\ Acknowledged(op) \in [Field -> Nat]
      /\ op \in Operation /\ op.field \in Field /\ op.value \in Nat
      /\ op.value <= wanted[op.field] /\ op = Head(queue)
      /\ \A f \in Field :
           /\ kept[f] <= Acknowledged(op)[f] /\ Acknowledged(op)[f] <= wanted[f]
           /\ Acknowledged(op)[f] = kept[f] \/ (f = op.field /\ Acknowledged(op)[f] = op.value)
  BY <1>1, AcknowledgedFacts
<1>3. /\ Ends(Head(queue)) /\ OlderSnapshot(op) /\ kept' = Acknowledged(op)
      /\ UNCHANGED <<mem, file, wanted, failed, open, counters>>
  BY <1>2 DEF DropSnapshot
<1>4. /\ queue' = Tail(queue) /\ phase' = "idle" /\ image' \in StoreState
      /\ up' \in {"down", "starting", "running", "stopping"}
  BY <1>1, <1>3, EndsTypes DEF SInv
<1>5. op.kind = "display" /\ op.field = Late /\ op.value < mem.val[Late]
  BY <1>1, <1>2, <1>3, TailFacts DEF OlderSnapshot, SInv, QueueInv, StoreTypeOK
<1>6. QueueInv' /\ queue' \in Seq(Operation)
  <2>1. \A f \in Field : kept'[f] = kept[f] \/ (f = queue[1].field /\ queue[1].kind # "start"
                           /\ queue[1].kind # "clean" /\ kept'[f] = queue[1].value)
    BY <1>2, <1>3, <1>5
  <2> QED BY <2>1, <1>1, <1>3, <1>4, QueueMovesUp
<1>7. StoreTypeOK'
  BY <1>2, <1>3, <1>4, <1>6 DEF SInv, StoreTypeOK, counters
<1>8. /\ mem.val \in [Field -> Nat] /\ file.val \in [Field -> Nat] /\ failed \in Nat
      /\ kept \in [Field -> Nat] /\ Late \in Field
  BY DEF SInv, StoreTypeOK, StoreState, Late, Field
<1>9. \A f \in Field : f # Late => kept'[f] = kept[f]
  BY <1>2, <1>3, <1>5
<1>10. WriteInv' /\ MemoryInv' /\ Within(kept', file'.val, wanted')
       /\ \A f \in Field : kept'[f] <= wanted'[f]
  BY <1>1, <1>2, <1>3, <1>4, <1>9 DEF SInv, WriteInv, MemoryInv, Awake, Within
<1>11. mem.val[Late] <= file.val[Late] \/ mem.val[Late] <= failed
  BY <1>1, <1>5 DEF SInv, LateInv, Awake
<1>12. LateInv'
  BY <1>1, <1>3, <1>4, <1>11 DEF SInv, LateInv, Awake
<1>13. StorePromise!Acknowledge
  <2>1. kept'[Late] = kept[Late] \/ kept'[Late] \in 0 .. file.val[Late] \/ kept'[Late] < failed
    BY <1>2, <1>3, <1>5, <1>8, <1>11
  <2>2. \A f \in Field : \/ kept'[f] \in {kept[f]} \union 0 .. file.val[f]
                           \/ (f = Late /\ kept'[f] < failed)
    BY <2>1, <1>9
  <2> QED BY <2>2, <1>2, <1>3 DEF StorePromise!Acknowledge
<1> QED BY <1>6, <1>7, <1>10, <1>12, <1>13 DEF SInv

LEMMA RefuseSteps == SInv /\ RefuseMark => SInv' /\ UNCHANGED StorePromise!vars
<1> SUFFICES ASSUME SInv, RefuseMark PROVE SInv' /\ UNCHANGED StorePromise!vars
  OBVIOUS
<1>1. /\ queue # << >> /\ Ends(Head(queue)) /\ phase = "idle" /\ Head(queue).kind = "clean"
      /\ UNCHANGED <<mem, file, wanted, kept, failed, open, counters>>
  BY DEF RefuseMark, Refused
<1>2. /\ queue' = Tail(queue) /\ phase' = "idle" /\ image' \in StoreState
      /\ up' \in {"down", "starting", "running", "stopping"} /\ queue[1].kind = "clean"
  BY <1>1, EndsTypes, TailFacts DEF SInv, StoreTypeOK
<1>3. QueueInv' /\ queue' \in Seq(Operation)
  BY <1>1, <1>2, QueueMovesUp
<1>4. StoreTypeOK'
  BY <1>1, <1>2, <1>3 DEF SInv, StoreTypeOK, counters
<1>5. WriteInv' /\ MemoryInv' /\ LateInv' /\ Within(kept', file'.val, wanted')
      /\ \A f \in Field : kept'[f] <= wanted'[f]
  BY <1>1, <1>2 DEF SInv, WriteInv, MemoryInv, LateInv, Awake, Within
<1>6. UNCHANGED StorePromise!vars
  BY <1>1 DEF StorePromise!vars
<1> QED BY <1>3, <1>4, <1>5, <1>6 DEF SInv

\* A write comes to nothing: the snapshot in it is that of the memory.
LEMMA LostFacts ==
  ASSUME SInv, phase # "idle", WriteLost
  PROVE  /\ failed' \in Nat /\ failed <= failed' /\ failed' <= wanted[Late]
         /\ mem.val[Late] <= failed' /\ failed \in Nat
<1>1. Late \in Field /\ image.val[Late] \in Nat /\ wanted[Late] \in Nat /\ failed \in Nat
  BY DEF SInv, StoreTypeOK, StoreState, Late, Field
<1>2. /\ image.val[Late] <= wanted[Late] /\ failed <= wanted[Late]
      /\ image.val[Late] = mem.val[Late]
  BY <1>1 DEF SInv, WriteInv, Within, LateInv
<1> QED BY <1>1, <1>2 DEF WriteLost

LEMMA FailSteps == SInv /\ FailWrite => SInv' /\ StorePromise!Fail
<1> SUFFICES ASSUME SInv, FailWrite PROVE SInv' /\ StorePromise!Fail
  OBVIOUS
<1>1. /\ phase # "idle" /\ Ends(Head(queue)) /\ faults' \in Nat /\ WriteLost
      /\ UNCHANGED <<mem, file, wanted, kept, open, ops, starts>>
  BY DEF FailWrite, Fault, SInv, StoreTypeOK
<1>2. queue # << >>
  BY <1>1 DEF SInv, StoreTypeOK
<1>3. /\ queue' = Tail(queue) /\ phase' = "idle" /\ image' \in StoreState
      /\ up' \in {"down", "starting", "running", "stopping"}
  BY <1>1, <1>2, EndsTypes DEF SInv
<1>4. QueueInv' /\ queue' \in Seq(Operation)
  BY <1>1, <1>2, <1>3, QueueMovesUp
<1>5. /\ failed' \in Nat /\ failed <= failed' /\ failed' <= wanted[Late]
      /\ mem.val[Late] <= failed' /\ failed \in Nat
  BY <1>1, LostFacts
<1>6. StoreTypeOK'
  BY <1>1, <1>3, <1>4, <1>5 DEF SInv, StoreTypeOK
<1>7. WriteInv' /\ MemoryInv' /\ LateInv' /\ Within(kept', file'.val, wanted')
      /\ \A f \in Field : kept'[f] <= wanted'[f]
  BY <1>1, <1>2, <1>3, <1>5 DEF SInv, WriteInv, MemoryInv, LateInv, Awake, Within
<1>8. StorePromise!Fail
  BY <1>1, <1>5 DEF StorePromise!Fail, SInv, StoreTypeOK, Late, Field
<1> QED BY <1>4, <1>6, <1>7, <1>8 DEF SInv

\* What is serialised is between what is safe and what was asked for.
LEMMA StoreBeginSteps == SInv /\ BeginWrite => SInv' /\ UNCHANGED StorePromise!vars
<1> SUFFICES ASSUME SInv, BeginWrite PROVE SInv' /\ UNCHANGED StorePromise!vars
  OBVIOUS
<1> DEFINE op == queue[1]
<1>1. /\ queue # << >> /\ phase = "idle" /\ phase' = "saving" /\ ~OlderSnapshot(op)
      /\ image' = CASE op.kind = "clean" -> CleanMark(mem)
                    [] op.kind = "start" -> mem
                    [] OTHER -> Applied(mem, op)
      /\ mem' = IF op.kind = "candidate" THEN mem ELSE image'
      /\ UNCHANGED <<file, up, queue, wanted, kept, failed, open, counters>>
  <2>1. queue # << >> /\ Head(queue) = queue[1]
    BY TailFacts DEF BeginWrite, SInv, StoreTypeOK
  <2> QED BY <2>1 DEF BeginWrite
<1>2. /\ 1 \in 1 .. Len(queue) /\ op \in Operation /\ op.field \in Field /\ op.value \in Nat
      /\ op.pending \in Nat \union {NoCommand}
  <2>1. Len(queue) \in Nat \ {0} /\ op \in Operation
    BY <1>1, TailFacts DEF SInv, StoreTypeOK
  <2> QED BY <2>1 DEF Operation
<1>3. mem \in StoreState /\ Within(kept, mem.val, wanted)
  BY <1>1 DEF SInv, MemoryInv, Awake, StoreTypeOK
<1>4. image' \in StoreState
  <2>1. mem.val \in [Field -> Nat] /\ mem.gen + 1 \in Nat
    BY <1>3 DEF StoreState
  <2>2. [mem.val EXCEPT ![op.field] = op.value] \in [Field -> Nat]
    BY <2>1, <1>2
  <2>3. CASE op.kind = "clean"
    BY <2>3, <2>1, <1>1, <1>3 DEF CleanMark, StoreState
  <2>4. CASE op.kind = "start"
    BY <2>4, <1>1, <1>3
  <2>5. CASE op.kind \notin {"clean", "start"}
    <3>1. image' = Applied(mem, op)
      BY <2>5, <1>1
    <3> QED BY <3>1, <2>1, <2>2, <1>2, <1>3 DEF Applied, StoreState
  <2> QED BY <2>3, <2>4, <2>5
<1>5. op.kind \notin {"start", "clean"} => image'.val = [mem.val EXCEPT ![op.field] = op.value]
  BY <1>1, <1>3 DEF Applied, StoreState
<1>6. op.kind \in {"start", "clean"} => image'.val = mem.val
  BY <1>1, <1>3 DEF CleanMark, StoreState
<1>7. /\ op.value <= wanted[op.field]
      /\ op.kind = "display" => op.field = Late /\ mem.val[Late] <= op.value
      /\ (op.kind \notin {"start", "clean"} /\ op.kind # "display")
           => kept[op.field] <= op.value /\ op.field # Late
  <2>1. op.value <= wanted[op.field] /\ ((op.kind = "display") <=> (op.field = Late))
    BY <1>2 DEF SInv, QueueInv
  <2>2. CASE op.kind = "display"
    BY <2>1, <2>2, <1>1, <1>2, <1>3 DEF OlderSnapshot, StoreState
  <2>3. CASE Sets(op)
    BY <2>1, <2>3, <1>2 DEF SInv, QueueInv, Sets
  <2>4. op.kind \in {"start", "clean", "display"} \/ Sets(op)
    BY <1>2 DEF Operation, Sets
  <2> QED BY <2>1, <2>2, <2>3, <2>4
<1>8. Within(kept, image'.val, wanted)
  BY <1>2, <1>3, <1>5, <1>6, <1>7 DEF Within, StoreState
<1>9. op.kind \notin {"start", "clean"} => image'.val[op.field] = op.value
  BY <1>5, <1>2, <1>3 DEF StoreState
<1>10. StoreTypeOK'
  BY <1>1, <1>3, <1>4 DEF SInv, StoreTypeOK, counters
<1>11. WriteInv' /\ MemoryInv' /\ Within(kept', file'.val, wanted')
  BY <1>1, <1>3, <1>8, <1>9 DEF SInv, WriteInv, MemoryInv, Awake, Within
<1>13. LateInv' /\ \A f \in Field : kept'[f] <= wanted'[f]
  <2>1. /\ Late \in Field /\ mem.val \in [Field -> Nat] /\ file.val[Late] \in Nat
        /\ file.val[Late] <= mem.val[Late]
    BY <1>1, <1>3 DEF SInv, StoreTypeOK, StoreState, LateInv, Awake, Late, Field
  <2>2. mem.val[Late] <= image'.val[Late]
    BY <2>1, <1>2, <1>3, <1>5, <1>6, <1>7
  <2>3. mem'.val[Late] = image'.val[Late]
    BY <2>1, <1>1, <1>2, <1>3, <1>5, <1>7
  <2>4. file'.val[Late] <= mem'.val[Late]
    BY <2>1, <2>2, <2>3, <1>1, <1>4 DEF StoreState
  <2> QED BY <2>3, <2>4, <1>1 DEF SInv, LateInv, Awake
<1>12. QueueInv' /\ UNCHANGED StorePromise!vars
  BY <1>1 DEF SInv, QueueInv, Sets, StorePromise!vars
<1> QED BY <1>10, <1>11, <1>12, <1>13 DEF SInv

LEMMA SaveSteps == SInv /\ Save => SInv' /\ [StorePromise!Write]_(StorePromise!vars)
<1> SUFFICES ASSUME SInv, Save PROVE SInv' /\ [StorePromise!Write]_(StorePromise!vars)
  OBVIOUS
<1>1. /\ phase = "saving" /\ phase' = "reading"
      /\ (file' = image /\ faults' = faults) \/ (file' = file /\ faults' \in Nat)
      /\ UNCHANGED <<mem, up, queue, image, wanted, kept, failed, open, ops, starts>>
  BY DEF Save, Fault, SInv, StoreTypeOK
<1>2. StoreTypeOK'
  BY <1>1 DEF SInv, StoreTypeOK
<1>3. QueueInv' /\ WriteInv' /\ MemoryInv'
  BY <1>1 DEF SInv, QueueInv, Sets, WriteInv, MemoryInv, Awake, Within
<1>4. Within(kept', file'.val, wanted')
  BY <1>1 DEF SInv, WriteInv, Within
<1>6. /\ file.val[Late] \in Nat /\ mem.val[Late] \in Nat /\ image.val[Late] = mem.val[Late]
      /\ file.val[Late] <= mem.val[Late]
  BY <1>1 DEF SInv, StoreTypeOK, StoreState, LateInv, Awake, Late, Field
<1>7. LateInv' /\ file.val[Late] <= file'.val[Late]
  BY <1>1, <1>6 DEF SInv, LateInv, Awake
<1>5. [StorePromise!Write]_(StorePromise!vars)
  BY <1>1, <1>2, <1>4, <1>7 DEF StorePromise!Write, StorePromise!vars, Within,
     StoreTypeOK, StoreState
<1> QED BY <1>1, <1>2, <1>3, <1>4, <1>5, <1>7 DEF SInv

LEMMA CompareSteps ==
  SInv /\ Compare
    => SInv' /\ (StorePromise!Acknowledge \/ StorePromise!Fail \/ UNCHANGED StorePromise!vars)
<1> SUFFICES ASSUME SInv, Compare
             PROVE  SInv' /\ (\/ StorePromise!Acknowledge \/ StorePromise!Fail
                              \/ UNCHANGED StorePromise!vars)
  OBVIOUS
<1> DEFINE op == queue[1]
<1>1. queue # << >> /\ phase = "reading"
  BY DEF Compare, SInv, StoreTypeOK
<1>2. /\ Acknowledged(op) \in [Field -> Nat]
      /\ op \in Operation /\ op.field \in Field /\ op.value \in Nat
      /\ op.value <= wanted[op.field] /\ op = Head(queue)
      /\ \A f \in Field :
           /\ kept[f] <= Acknowledged(op)[f] /\ Acknowledged(op)[f] <= wanted[f]
           /\ Acknowledged(op)[f] = kept[f] \/ (f = op.field /\ Acknowledged(op)[f] = op.value)
  BY <1>1, AcknowledgedFacts
<1>3. /\ Ends(Head(queue)) /\ UNCHANGED <<file, wanted, counters>>
      /\ mem' = IF Verified /\ op.kind = "candidate" THEN image ELSE mem
      /\ kept' = IF Verified /\ op.kind \notin {"start", "clean"} THEN Acknowledged(op) ELSE kept
      /\ open' = open \/ open' = op.pending
      /\ IF Verified THEN failed' = failed ELSE WriteLost
  BY <1>2 DEF Compare
<1>4. op.pending \in Nat \union {NoCommand}
  BY <1>2 DEF Operation
<1>5. /\ queue' = Tail(queue) /\ phase' = "idle" /\ image' \in StoreState
      /\ up' \in {"down", "starting", "running", "stopping"}
  BY <1>1, <1>3, EndsTypes DEF SInv
<1>6. /\ kept \in [Field -> Nat] /\ wanted \in [Field -> Nat] /\ file \in StoreState
      /\ mem \in StoreState /\ image \in StoreState /\ failed \in Nat
      /\ \A f \in Field : kept[f] <= wanted[f]
  BY DEF SInv, StoreTypeOK
<1>7. kept' \in [Field -> Nat] /\ \A f \in Field : kept[f] <= kept'[f] /\ kept'[f] <= wanted'[f]
  BY <1>2, <1>3, <1>6
<1>8. QueueInv' /\ queue' \in Seq(Operation)
  <2>1. \A f \in Field : kept'[f] = kept[f] \/ (f = queue[1].field /\ queue[1].kind # "start"
                           /\ queue[1].kind # "clean" /\ kept'[f] = queue[1].value)
    BY <1>2, <1>3
  <2> QED BY <2>1, <1>1, <1>3, <1>5, QueueMovesUp
<1>9. /\ Within(kept, image.val, wanted) /\ image.val[Late] = mem.val[Late]
      /\ op.kind \notin {"start", "clean"} => image.val[op.field] = op.value
      /\ op.kind # "candidate" => mem = image
  BY <1>1 DEF SInv, WriteInv, LateInv
<1>10. CASE Verified
  <2>1. file = image /\ mem' = image /\ failed' = failed
    BY <1>3, <1>9, <1>10 DEF Verified
  <2>2. Within(kept', image.val, wanted)
    BY <1>2, <1>3, <1>6, <1>9 DEF Within, StoreState
  <2>3. MemoryInv' /\ Within(kept', file'.val, wanted')
    BY <2>1, <2>2, <1>3 DEF MemoryInv, Within
  <2>4. StoreTypeOK' /\ WriteInv'
    BY <2>1, <1>3, <1>4, <1>5, <1>6, <1>7, <1>8 DEF SInv, StoreTypeOK, WriteInv, counters
  <2>5. image.val[Late] \in Nat
    BY <1>6 DEF StoreState, Late, Field
  <2>6. LateInv'
    BY <2>1, <2>5, <1>1, <1>3, <1>5 DEF SInv, LateInv
  <2>7. StorePromise!Acknowledge \/ UNCHANGED StorePromise!vars
    <3>1. CASE kept' = kept
      BY <3>1, <2>1, <1>3 DEF StorePromise!vars
    <3>2. CASE kept' = Acknowledged(op) /\ op.kind \notin {"start", "clean"}
      <4>1. \A f \in Field : kept'[f] \in {kept[f]} \union 0 .. file.val[f]
        BY <3>2, <2>1, <1>2, <1>6, <1>9 DEF StoreState
      <4> QED BY <4>1, <2>1, <1>3, <1>7 DEF StorePromise!Acknowledge
    <3> QED BY <3>1, <3>2, <1>3
  <2> QED BY <2>3, <2>4, <2>6, <2>7, <1>7, <1>8 DEF SInv
<1>11. CASE ~Verified
  <2>1. kept' = kept /\ mem' = mem /\ WriteLost
    BY <1>3, <1>11
  <2>2. /\ failed' \in Nat /\ failed <= failed' /\ failed' <= wanted[Late]
        /\ mem.val[Late] <= failed' /\ failed \in Nat
    BY <2>1, <1>1, LostFacts
  <2>3. MemoryInv' /\ Within(kept', file'.val, wanted')
    BY <2>1, <1>1, <1>3 DEF SInv, MemoryInv, Awake, Within
  <2>4. StoreTypeOK' /\ WriteInv'
    BY <2>1, <2>2, <1>3, <1>4, <1>5, <1>6, <1>8 DEF SInv, StoreTypeOK, WriteInv, counters
  <2>5. LateInv'
    BY <2>1, <2>2, <1>1, <1>3, <1>5 DEF SInv, LateInv, Awake
  <2>6. StorePromise!Fail
    BY <2>1, <2>2, <1>3, <1>6 DEF StorePromise!Fail, Late, Field
  <2> QED BY <2>3, <2>4, <2>5, <2>6, <1>7, <1>8 DEF SInv
<1> QED BY <1>10, <1>11

-----------------------------------------------------------------------------
(* Starts, stops and the theorems *)

LEMMA StartSteps == SInv /\ Start => SInv' /\ StorePromise!Ask
<1> SUFFICES ASSUME SInv, Start PROVE SInv' /\ StorePromise!Ask
  OBVIOUS
<1>1. PICK changed \in BOOLEAN :
        /\ mem' = Recovered(file, changed)
        /\ wanted' = [f \in Field |-> IF mem'.val[f] > wanted[f] THEN mem'.val[f] ELSE wanted[f]]
  BY DEF Start
<1>2. /\ up' = "starting" /\ phase' = "idle" /\ open' = NoCommand /\ starts' \in Nat
      /\ queue' = <<Op("start", "actuator", 0, NoCommand)>>
      /\ UNCHANGED <<file, image, kept, failed, ops, faults>>
  BY DEF Start, SInv, StoreTypeOK
<1>3. /\ kept \in [Field -> Nat] /\ wanted \in [Field -> Nat] /\ file \in StoreState
      /\ file.val \in [Field -> Nat] /\ file.gen + 1 \in Nat /\ file.blank \in Nat
      /\ Within(kept, file.val, wanted) /\ \A f \in Field : kept[f] <= wanted[f]
  BY DEF SInv, StoreTypeOK, StoreState
<1>4. mem' \in StoreState
      /\ \A f \in Field : mem'.val[f] \in Nat /\ file.val[f] <= mem'.val[f]
                             /\ (f # Late => kept[f] <= mem'.val[f])
  <2>1. /\ mem'.gen = file.gen + 1 /\ mem'.clean = FALSE /\ mem'.pending = NoCommand
        /\ mem'.blank \in Nat
    BY <1>1, <1>3 DEF Recovered, Late, Field
  <2>2. \A f \in Field : mem'.val[f] = wanted[f] + 1 \/ mem'.val[f] = file.val[f]
    BY <1>1 DEF Recovered
  <2>3. \A f \in Field : mem'.val[f] \in Nat /\ file.val[f] <= mem'.val[f]
                           /\ (f # Late => kept[f] <= mem'.val[f])
    BY <2>2, <1>3 DEF Within
  <2>4. mem'.val \in [Field -> Nat]
    BY <2>3, <1>1 DEF Recovered
  <2>5. mem' = [gen |-> mem'.gen, clean |-> mem'.clean, pending |-> mem'.pending,
                val |-> mem'.val, blank |-> mem'.blank]
    BY <1>1 DEF Recovered
  <2> QED BY <2>1, <2>3, <2>4, <2>5, <1>3 DEF StoreState
<1>5. wanted' \in [Field -> Nat] /\ \A f \in Field : wanted[f] <= wanted'[f] /\ mem'.val[f] <= wanted'[f]
  BY <1>1, <1>3, <1>4
<1>6. queue' \in Seq(Operation) /\ Len(queue') = 1 /\ queue'[1] = Op("start", "actuator", 0, NoCommand)
  BY <1>2 DEF Op, Operation, Field
<1>7. QueueInv'
  <2>1. wanted'["actuator"] \in Nat
    BY <1>5 DEF Field
  <2> QED BY <2>1, <1>6 DEF QueueInv, Op, Sets, Late
<1>8. StoreTypeOK' /\ WriteInv'
  BY <1>2, <1>4, <1>5, <1>6 DEF SInv, StoreTypeOK, WriteInv
<1>9. MemoryInv' /\ Within(kept', file'.val, wanted')
  BY <1>2, <1>3, <1>4, <1>5, WithinGrows DEF MemoryInv, Within
<1>11. LateInv' /\ \A f \in Field : kept'[f] <= wanted'[f]
  <2>1. failed \in Nat /\ Late \in Field /\ failed <= wanted[Late]
    BY DEF SInv, StoreTypeOK, LateInv, Late, Field
  <2>2. queue' # << >> /\ queue'[1].kind = "start"
    BY <1>2, <1>6 DEF Op
  <2>3. failed' <= wanted'[Late] /\ file'.val[Late] <= mem'.val[Late]
    BY <2>1, <1>2, <1>3, <1>4, <1>5
  <2>4. \A f \in Field : kept'[f] <= wanted'[f]
    BY <1>2, <1>3, <1>5
  <2> QED BY <2>2, <2>3, <2>4, <1>2 DEF LateInv
<1>10. StorePromise!Ask
  BY <1>2, <1>3, <1>5 DEF StorePromise!Ask
<1> QED BY <1>7, <1>8, <1>9, <1>10, <1>11 DEF SInv

LEMMA StopSteps == SInv /\ (Unload \/ Crash) => SInv' /\ UNCHANGED StorePromise!vars
<1>1. ASSUME SInv, Unload PROVE SInv' /\ UNCHANGED StorePromise!vars
  <2>1. queue' \in Seq(Operation) /\ Len(queue') = 1 /\ queue'[1] = Op("clean", "actuator", 0, NoCommand)
        /\ phase = "idle" /\ up # "down" /\ queue'[1].kind = "clean"
    BY <1>1 DEF Unload, Op, Operation, Field, SInv, StoreTypeOK
  <2>2. wanted["actuator"] \in Nat
    BY <1>1 DEF SInv, StoreTypeOK, Field
  <2>3. QueueInv'
    BY <1>1, <2>1, <2>2 DEF Unload, QueueInv, Op, Sets, Late
  <2>4. StoreTypeOK'
    BY <1>1, <2>1 DEF Unload, SInv, StoreTypeOK, counters
  <2> QED BY <1>1, <2>1, <2>3, <2>4
       DEF Unload, SInv, WriteInv, MemoryInv, LateInv, Awake, Within, StorePromise!vars
<1>2. ASSUME SInv, Crash PROVE SInv' /\ UNCHANGED StorePromise!vars
  <2>1. queue' = << >> /\ Len(queue') = 0 /\ queue' \in Seq(Operation)
    BY <1>2 DEF Crash
  <2>2. NewState \in StoreState
    BY DEF NewState, StoreState, Zero
  <2>3. StoreTypeOK'
    BY <1>2, <2>1, <2>2 DEF Crash, SInv, StoreTypeOK, counters
  <2>4. QueueInv' /\ WriteInv' /\ MemoryInv' /\ LateInv'
    BY <1>2, <2>1 DEF Crash, SInv, QueueInv, WriteInv, MemoryInv, LateInv, Awake
  <2> QED BY <1>2, <2>3, <2>4 DEF Crash, SInv, Within, StorePromise!vars
<1> QED BY <1>1, <1>2

LEMMA StoreSteps ==
  SInv /\ [StoreNext]_storeVars => SInv' /\ [StorePromise!Next]_(StorePromise!vars)
<1> SUFFICES ASSUME SInv, [StoreNext]_storeVars
             PROVE  SInv' /\ [StorePromise!Next]_(StorePromise!vars)
  OBVIOUS
<1> USE DEF StorePromise!Next
<1>1. CASE UNCHANGED storeVars
  BY <1>1 DEF storeVars, counters, SInv, StoreTypeOK, QueueInv, Sets, WriteInv, MemoryInv, LateInv,
     Awake, Within, StorePromise!vars
<1>2. CASE PersistPending \/ ResolveCommand \/ UpdateRuntime \/ UpdateMarker \/ UpdateHeatGuards
             \/ UpdateActuator \/ UpdateDemand \/ UpdateLastValid
  BY <1>2, StoreRequestSteps
<1>3. CASE DropSnapshot \/ RefuseMark \/ BeginWrite \/ FailWrite
  BY <1>3, DropSteps, RefuseSteps, StoreBeginSteps, FailSteps
<1>4. CASE Save
  BY <1>4, SaveSteps
<1>5. CASE Compare
  BY <1>5, CompareSteps
<1>6. CASE Start
  BY <1>6, StartSteps
<1>7. CASE Unload \/ Crash
  BY <1>7, StopSteps
<1> QED BY <1>1, <1>2, <1>3, <1>4, <1>5, <1>6, <1>7 DEF StoreNext

\* Memory, file, waiters and counters keep their types through faults and restarts.
THEOREM StoreTypes == StoreSpec => []StoreTypeOK
<1>1. SInv => StoreTypeOK
  BY DEF SInv
<1>2. SInv /\ [StoreNext]_storeVars => SInv'
  BY StoreSteps
<1> QED BY StoreInitially, <1>1, <1>2, PTL DEF StoreSpec

\* The control store implements its abstract specification: a value whose write was
\* acknowledged, or a later one, is in the file for ever; the display snapshot in the
\* file is never replaced by an older one, and one that was acknowledged is missing
\* there only if it is older than one whose write has failed.
THEOREM StoreImplementsPromise == StoreSpec => StoreKeepsPromise
<1>1. StoreInit => StorePromise!Init
  BY DEF StoreInit, StorePromise!Init, StorePromise!Zero, Zero, NewState
<1>2. SInv /\ [StoreNext]_storeVars => SInv' /\ [StorePromise!Next]_(StorePromise!vars)
  BY StoreSteps
<1> QED BY StoreInitially, <1>1, <1>2, PTL DEF StoreSpec, StoreKeepsPromise, StorePromise!Spec

-----------------------------------------------------------------------------
(* The open command.  Starts and clean marks have the queue for themselves; the    *)
(* memory of a running zone bears no clean mark; and while a command is open no    *)
(* withdrawal waits, and memory, image and file all have a pending command.        *)

KindsInv ==
  /\ up = "down" => queue = << >>
  /\ up # "running" => Len(queue) <= 1
  /\ \A i \in 1 .. Len(queue) :
       /\ queue[i].kind = "start" => up = "starting"
       /\ queue[i].kind = "clean" => up = "stopping"
       /\ queue[i].kind \notin {"start", "clean"} => up = "running"
       /\ queue[i].kind = "persist" => queue[i].pending # NoCommand

MarkInv ==
  /\ up \in {"starting", "running"} =>
       ~mem.clean /\ (phase # "idle" => ~image.clean)
  /\ (phase # "idle" /\ queue[1].kind = "persist") => image.pending # NoCommand

OpenInv ==
  open # NoCommand =>
    /\ up # "starting" /\ file.pending # NoCommand /\ ~file.clean
    /\ \A i \in 1 .. Len(queue) : queue[i].kind # "resolve"
    /\ up # "down" => mem.pending # NoCommand
    /\ phase # "idle" => up = "running" /\ image.pending # NoCommand

OInv == SInv /\ KindsInv /\ MarkInv /\ OpenInv

LEMMA OpenInitially == StoreInit => OInv
<1> SUFFICES ASSUME StoreInit PROVE OInv
  OBVIOUS
<1>1. SInv
  BY StoreInitially
<1>2. queue = << >> /\ up = "down" /\ phase = "idle" /\ open = NoCommand /\ Len(queue) = 0
  BY DEF StoreInit
<1> QED BY <1>1, <1>2 DEF OInv, KindsInv, MarkInv, OpenInv

\* A request of a running zone; a withdrawal closes the command.
LEMMA OpenAsks ==
  ASSUME OInv, NEW op \in Operation, Ask(op),
         op.kind \notin {"start", "clean"}, op.kind = "persist" => op.pending # NoCommand,
         open' = NoCommand \/ (open' = open /\ op.kind # "resolve")
  PROVE  KindsInv' /\ MarkInv' /\ OpenInv'
<1>1. /\ queue' \in Seq(Operation) /\ Len(queue') = Len(queue) + 1 /\ Len(queue) \in Nat
      /\ \A i \in 1 .. Len(queue) : queue'[i] = queue[i]
      /\ queue'[Len(queue) + 1] = op
  BY AppendFacts DEF Ask, OInv, SInv, StoreTypeOK
<1>2. /\ up = "running" /\ UNCHANGED <<mem, file, up, phase, image>>
      /\ phase # "idle" => queue # << >>
  BY DEF Ask, OInv, SInv, StoreTypeOK
<1>3. ASSUME NEW i \in 1 .. Len(queue')
      PROVE  \/ i \in 1 .. Len(queue) /\ queue'[i] = queue[i]
             \/ queue'[i] = op
  <2>1. i \in 1 .. Len(queue) \/ i = Len(queue) + 1
    BY <1>1
  <2> QED BY <2>1, <1>1
<1>4. KindsInv'
  BY <1>2, <1>3 DEF OInv, KindsInv
<1>5. MarkInv'
  <2>1. ASSUME phase # "idle" PROVE queue'[1] = queue[1]
    BY <2>1, <1>1, <1>2
  <2> QED BY <2>1, <1>2 DEF OInv, MarkInv
<1>6. OpenInv'
  BY <1>2, <1>3 DEF OInv, OpenInv
<1> QED BY <1>4, <1>5, <1>6

LEMMA OpenRequests ==
  ASSUME OInv,
         PersistPending \/ ResolveCommand \/ UpdateRuntime \/ UpdateMarker
           \/ UpdateHeatGuards \/ UpdateActuator \/ UpdateDemand \/ UpdateLastValid
  PROVE  KindsInv' /\ MarkInv' /\ OpenInv'
<1> USE DEF Op, Field, Late, Operation
<1>1. wanted \in [Field -> Nat]
  BY DEF OInv, SInv, StoreTypeOK
<1>2. /\ \A f \in Field : Newer(f) \in Nat
      /\ Newer("command") # NoCommand
  BY <1>1, StoreAssumption DEF Newer
<1>3. CASE PersistPending
  BY <1>2, <1>3, OpenAsks DEF PersistPending
<1>4. CASE ResolveCommand
  BY <1>2, <1>4, OpenAsks DEF ResolveCommand
<1>5. CASE UpdateRuntime
  BY <1>2, <1>5, OpenAsks DEF UpdateRuntime
<1>6. CASE UpdateMarker
  BY <1>2, <1>6, OpenAsks DEF UpdateMarker
<1>7. CASE UpdateHeatGuards
  BY <1>2, <1>7, OpenAsks DEF UpdateHeatGuards
<1>8. CASE UpdateActuator
  BY <1>2, <1>8, OpenAsks DEF UpdateActuator
<1>9. CASE UpdateDemand
  BY <1>2, <1>9, OpenAsks DEF UpdateDemand
<1>10. CASE UpdateLastValid
  <2>1. PICK v \in mem.blank + 1 .. wanted[Late] + 2 : Ask(Op("display", Late, v, NoCommand))
    BY <1>10 DEF UpdateLastValid
  <2>2. v \in Nat
    <3>1. mem.blank \in Nat /\ wanted[Late] \in Nat
      BY <1>1 DEF OInv, SInv, StoreTypeOK, StoreState
    <3> QED BY <3>1
  <2> QED BY <1>10, <2>1, <2>2, OpenAsks DEF UpdateLastValid
<1> QED BY <1>3, <1>4, <1>5, <1>6, <1>7, <1>8, <1>9, <1>10

\* The end of an operation: a start or a clean mark leaves no waiter behind.
LEMMA KindsMoveUp ==
  ASSUME OInv, queue # << >>, Ends(Head(queue))
  PROVE  /\ KindsInv' /\ phase' = "idle"
         /\ up' \in {"starting", "running"} => up \in {"starting", "running"}
         /\ open # NoCommand => up' # "starting" /\ (up' # "down" => up # "down")
         /\ \A i \in 1 .. Len(queue') : i + 1 \in 1 .. Len(queue) /\ queue'[i] = queue[i + 1]
<1>1. /\ queue' = Tail(queue) /\ phase' = "idle"
      /\ up' = CASE queue[1].kind = "start" -> "running"
                 [] queue[1].kind = "clean" -> "down" [] OTHER -> up
      /\ Len(queue') = Len(queue) - 1 /\ Len(queue) \in Nat \ {0} /\ queue' \in Seq(Operation)
      /\ \A i \in 1 .. Len(queue') : i + 1 \in 1 .. Len(queue) /\ queue'[i] = queue[i + 1]
  BY TailFacts DEF Ends, OInv, SInv, StoreTypeOK
<1>2. 1 \in 1 .. Len(queue)
  BY <1>1
<1>3. CASE queue[1].kind \in {"start", "clean"}
  <2>1. Len(queue') = 0 /\ queue' = << >> /\ up \in {"starting", "stopping"}
    BY <1>1, <1>2, <1>3 DEF OInv, KindsInv
  <2> QED BY <2>1, <1>1, <1>2, <1>3 DEF OInv, KindsInv, OpenInv
<1>4. CASE queue[1].kind \notin {"start", "clean"}
  <2>1. up = "running" /\ up' = "running"
    BY <1>1, <1>2, <1>4 DEF OInv, KindsInv
  <2>2. KindsInv'
    BY <2>1, <1>1 DEF OInv, KindsInv
  <2> QED BY <2>1, <2>2, <1>1
<1> QED BY <1>3, <1>4

LEMMA OpenEnds ==
  ASSUME OInv, queue # << >>, Ends(Head(queue)), UNCHANGED <<mem, file, open>>
  PROVE  KindsInv' /\ MarkInv' /\ OpenInv'
<1>1. /\ KindsInv' /\ phase' = "idle"
      /\ up' \in {"starting", "running"} => up \in {"starting", "running"}
      /\ open # NoCommand => up' # "starting" /\ (up' # "down" => up # "down")
      /\ \A i \in 1 .. Len(queue') : i + 1 \in 1 .. Len(queue) /\ queue'[i] = queue[i + 1]
  BY KindsMoveUp
<1>2. MarkInv'
  BY <1>1 DEF OInv, MarkInv
<1>3. OpenInv'
  BY <1>1 DEF OInv, OpenInv
<1> QED BY <1>1, <1>2, <1>3

LEMMA OpenBegins == OInv /\ BeginWrite => KindsInv' /\ MarkInv' /\ OpenInv'
<1> SUFFICES ASSUME OInv, BeginWrite PROVE KindsInv' /\ MarkInv' /\ OpenInv'
  OBVIOUS
<1> DEFINE op == queue[1]
<1>1. /\ queue # << >> /\ phase = "idle" /\ phase' = "saving" /\ ~Refused(op)
      /\ image' = CASE op.kind = "clean" -> CleanMark(mem)
                    [] op.kind = "start" -> mem
                    [] OTHER -> Applied(mem, op)
      /\ mem' = IF op.kind = "candidate" THEN mem ELSE image'
      /\ UNCHANGED <<file, up, queue, open>>
  <2>1. queue # << >> /\ Head(queue) = queue[1]
    BY TailFacts DEF BeginWrite, OInv, SInv, StoreTypeOK
  <2> QED BY <2>1 DEF BeginWrite
<1>2. 1 \in 1 .. Len(queue) /\ op \in Operation
  BY <1>1, TailFacts DEF OInv, SInv, StoreTypeOK
<1>3. mem \in StoreState
  BY DEF OInv, SInv, StoreTypeOK
<1>4. CASE op.kind = "clean"
  <2>1. up = "stopping" /\ mem.pending = NoCommand
    BY <1>1, <1>2, <1>4 DEF OInv, KindsInv, Refused, CleanMarkRefused
  <2>2. open = NoCommand
    BY <2>1 DEF OInv, OpenInv
  <2> QED BY <2>1, <2>2, <1>1, <1>4 DEF OInv, KindsInv, MarkInv, OpenInv
<1>5. CASE op.kind = "start"
  <2>1. up = "starting" /\ image' = mem /\ mem' = mem
    BY <1>1, <1>2, <1>5 DEF OInv, KindsInv
  <2> QED BY <2>1, <1>1, <1>5 DEF OInv, KindsInv, MarkInv, OpenInv
<1>6. CASE op.kind \notin {"start", "clean"}
  <2>1. up = "running" /\ image' = Applied(mem, op)
    BY <1>1, <1>2, <1>6 DEF OInv, KindsInv
  <2>2. /\ image'.clean = mem.clean
        /\ image'.pending = IF op.kind \in {"persist", "resolve"} THEN op.pending ELSE mem.pending
    BY <2>1, <1>3 DEF Applied, StoreState
  <2>3. op.kind = "persist" => op.pending # NoCommand
    BY <1>2 DEF OInv, KindsInv
  <2>4. open # NoCommand => op.kind # "resolve"
    BY <1>2 DEF OInv, OpenInv
  <2>5. KindsInv'
    BY <1>1 DEF OInv, KindsInv
  <2>6. MarkInv'
    BY <2>1, <2>2, <2>3, <1>1 DEF OInv, MarkInv
  <2>7. OpenInv'
    BY <2>1, <2>2, <2>3, <2>4, <1>1 DEF OInv, OpenInv
  <2> QED BY <2>5, <2>6, <2>7
<1> QED BY <1>4, <1>5, <1>6

LEMMA OpenSaves == OInv /\ Save => KindsInv' /\ MarkInv' /\ OpenInv'
<1> SUFFICES ASSUME OInv, Save PROVE KindsInv' /\ MarkInv' /\ OpenInv'
  OBVIOUS
<1>1. /\ phase # "idle" /\ phase' # "idle" /\ UNCHANGED <<mem, up, queue, image, open>>
      /\ file' \in {file, image}
  BY DEF Save, Fault
<1>2. KindsInv' /\ MarkInv'
  BY <1>1 DEF OInv, KindsInv, MarkInv
<1>3. OpenInv'
  BY <1>1 DEF OInv, OpenInv, MarkInv
<1> QED BY <1>2, <1>3

LEMMA OpenCompares == OInv /\ Compare => KindsInv' /\ MarkInv' /\ OpenInv'
<1> SUFFICES ASSUME OInv, Compare PROVE KindsInv' /\ MarkInv' /\ OpenInv'
  OBVIOUS
<1> DEFINE op == queue[1]
<1>1. /\ queue # << >> /\ phase = "reading" /\ Len(queue) \in Nat \ {0} /\ 1 \in 1 .. Len(queue)
      /\ Head(queue) = op
  <2>1. phase = "reading" /\ queue # << >>
    BY DEF Compare, OInv, SInv, StoreTypeOK
  <2> QED BY <2>1, TailFacts DEF OInv, SInv, StoreTypeOK
<1>2. /\ Ends(Head(queue)) /\ file' = file
      /\ mem' = IF Verified /\ op.kind = "candidate" THEN image ELSE mem
      /\ open' = IF Verified /\ op.kind = "persist"
                    /\ \A i \in 2 .. Len(queue) : queue[i].kind # "resolve"
                 THEN op.pending ELSE open
  BY <1>1 DEF Compare
<1>3. /\ KindsInv' /\ phase' = "idle"
      /\ up' \in {"starting", "running"} => up \in {"starting", "running"}
      /\ open # NoCommand => up' # "starting" /\ (up' # "down" => up # "down")
      /\ \A i \in 1 .. Len(queue') : i + 1 \in 1 .. Len(queue) /\ queue'[i] = queue[i + 1]
  BY <1>1, <1>2, KindsMoveUp
<1>4. MarkInv'
  BY <1>1, <1>2, <1>3 DEF OInv, MarkInv
<1>5. CASE open' = open
  <2>1. ASSUME open # NoCommand
        PROVE  /\ up' # "starting" /\ file'.pending # NoCommand /\ ~file'.clean
               /\ \A i \in 1 .. Len(queue') : queue'[i].kind # "resolve"
    BY <2>1, <1>2, <1>3 DEF OInv, OpenInv
  <2>2. ASSUME open # NoCommand, up' # "down" PROVE mem'.pending # NoCommand
    <3>1. mem.pending # NoCommand /\ image.pending # NoCommand
      BY <2>2, <1>1, <1>3 DEF OInv, OpenInv
    <3> QED BY <3>1, <1>2
  <2> QED BY <2>1, <2>2, <1>3, <1>4, <1>5 DEF OpenInv
<1>6. CASE open' # open
  <2>1. /\ Verified /\ op.kind = "persist" /\ mem' = mem
        /\ \A i \in 2 .. Len(queue) : queue[i].kind # "resolve"
    BY <1>2, <1>6
  <2>2. up = "running"
    BY <2>1, <1>1 DEF OInv, KindsInv
  <2>3. up' = "running"
    BY <2>1, <2>2, <1>1, <1>2 DEF Ends
  <2>4. mem = image /\ file = image /\ image.pending # NoCommand /\ ~image.clean
    BY <2>1, <2>2, <1>1 DEF Verified, OInv, SInv, WriteInv, MarkInv
  <2>5. ASSUME NEW i \in 1 .. Len(queue') PROVE queue'[i].kind # "resolve"
    <3>1. i + 1 \in 2 .. Len(queue)
      BY <1>1, <1>3
    <3> QED BY <3>1, <2>1, <1>3
  <2> QED BY <2>1, <2>3, <2>4, <2>5, <1>2, <1>3, <1>4 DEF OpenInv
<1> QED BY <1>3, <1>4, <1>5, <1>6

LEMMA OpenRestarts == OInv /\ (Start \/ Unload \/ Crash) => KindsInv' /\ MarkInv' /\ OpenInv'
<1>1. ASSUME OInv, Start PROVE KindsInv' /\ MarkInv' /\ OpenInv'
  <2>1. /\ up' = "starting" /\ phase' = "idle" /\ open' = NoCommand
        /\ queue' = <<Op("start", "actuator", 0, NoCommand)>>
        /\ mem'.clean = FALSE
    BY <1>1 DEF Start, Recovered
  <2>2. Len(queue') = 1 /\ queue'[1].kind = "start"
    BY <2>1 DEF Op
  <2>3. \A i \in 1 .. Len(queue') : queue'[i].kind = "start"
    BY <2>2
  <2> QED BY <2>1, <2>2, <2>3 DEF KindsInv, MarkInv, OpenInv
<1>2. ASSUME OInv, Unload PROVE KindsInv' /\ MarkInv' /\ OpenInv'
  <2>1. /\ up = "running" /\ up' = "stopping" /\ queue = << >> /\ phase' = "idle" /\ open' = open
        /\ queue' = <<Op("clean", "actuator", 0, NoCommand)>> /\ mem' = mem /\ file' = file
    BY <1>2 DEF Unload, OInv, SInv, StoreTypeOK
  <2>2. Len(queue') = 1 /\ queue'[1].kind = "clean"
    BY <2>1 DEF Op
  <2>3. \A i \in 1 .. Len(queue') : queue'[i].kind = "clean"
    BY <2>2
  <2> QED BY <2>1, <2>2, <2>3, <1>2 DEF KindsInv, MarkInv, OpenInv, OInv
<1>3. ASSUME OInv, Crash PROVE KindsInv' /\ MarkInv' /\ OpenInv'
  <2>1. /\ up' = "down" /\ queue' = << >> /\ Len(queue') = 0 /\ phase' = "idle"
        /\ open' = open /\ file' = file
    BY <1>3 DEF Crash
  <2> QED BY <2>1, <1>3 DEF KindsInv, MarkInv, OpenInv, OInv
<1> QED BY <1>1, <1>2, <1>3

LEMMA OpenSteps == OInv /\ [StoreNext]_storeVars => OInv'
<1> SUFFICES ASSUME OInv, [StoreNext]_storeVars PROVE OInv'
  OBVIOUS
<1>1. SInv'
  BY StoreSteps DEF OInv
<1>2. CASE UNCHANGED storeVars
  BY <1>2, <1>1 DEF storeVars, OInv, KindsInv, MarkInv, OpenInv
<1>3. CASE PersistPending \/ ResolveCommand \/ UpdateRuntime \/ UpdateMarker \/ UpdateHeatGuards
             \/ UpdateActuator \/ UpdateDemand \/ UpdateLastValid
  BY <1>1, <1>3, OpenRequests DEF OInv
<1>4. CASE DropSnapshot \/ RefuseMark
  BY <1>1, <1>4, OpenEnds DEF OInv, DropSnapshot, RefuseMark
<1>5. CASE FailWrite
  <2>1. queue # << >> /\ Ends(Head(queue)) /\ UNCHANGED <<mem, file, open>>
    BY <1>5 DEF OInv, SInv, StoreTypeOK, FailWrite
  <2> QED BY <2>1, <1>1, OpenEnds DEF OInv
<1>6. CASE BeginWrite \/ Save \/ Compare
  BY <1>1, <1>6, OpenBegins, OpenSaves, OpenCompares DEF OInv
<1>7. CASE Start \/ Unload \/ Crash
  BY <1>1, <1>7, OpenRestarts DEF OInv
<1> QED BY <1>2, <1>3, <1>4, <1>5, <1>6, <1>7 DEF StoreNext

\* While a command is open whose journal entry was acknowledged, the file holds a
\* command and no clean mark: whatever else is written, lost or refused, and however
\* the run ends, the next start knows that a command may be under way.
THEOREM OpenCommandIsFound == StoreSpec => []OpenCommandFound
<1>1. OInv => OpenCommandFound
  BY DEF OInv, OpenInv, OpenCommandFound
<1> QED BY OpenInitially, OpenSteps, <1>1, PTL DEF StoreSpec
=============================================================================
