--------------------------- MODULE MetricsProofs ---------------------------
(***************************************************************************)
(* Proofs about Metrics: its types, that ticks come in order, that the     *)
(* counters cover the ticks, and that the rates add up to what was         *)
(* counted, for any number of handlers, reports, drops and reconnections.  *)
(***************************************************************************)
EXTENDS Metrics, FiniteSetTheorems, SequenceTheorems, TLAPS

Phases == {"assign", "deliver", "fail"}

\* What a handler may have still to do.
Tick(phase) == <<PushTick(phase)>>
Batch    == <<Add("batches", 1), PushTick("deliver")>>
Transfer == <<Add("transfers", 1), Add("batches", 1), PushTick("deliver")>>
Failure  == <<Add("failures", 1), PushTick("fail")>>
Steps    == {<<>>, Transfer, Batch, Failure, Tick("assign"), Tick("deliver"), Tick("fail")}

LEMMA FieldNames == Fields = {"transfers", "batches", "failures"}
<1>1. DOMAIN Loads = {1, 2, 3} /\ Loads[1] = "transfers" /\ Loads[2] = "batches"
      /\ Loads[3] = "failures"
  BY DEF Loads
<1> QED BY <1>1 DEF Fields, Range

LEMMA StepsDiffer ==
    /\ Tick("deliver") # Tick("fail") /\ Tick("deliver") # Tick("assign")
    /\ Tick("fail") # Tick("assign")
    /\ \A p \in Phases : Tick(p) \notin {<<>>, Batch, Transfer, Failure}
    /\ Batch \notin {<<>>, Transfer, Failure} /\ Transfer \notin {<<>>, Failure}
    /\ Failure # <<>>
<1>1. \A p \in Phases : Len(Tick(p)) = 1 /\ Tick(p)[1].phase = p
  BY DEF Tick, PushTick
<1>2. Len(Batch) = 2 /\ Batch[1].field = "batches"
  BY DEF Batch, Add
<1>3. Len(Transfer) = 3
  BY DEF Transfer
<1>4. Len(Failure) = 2 /\ Failure[1].field = "failures"
  BY DEF Failure, Add
<1>5. Len(<<>>) = 0
  OBVIOUS
<1>6. /\ Tick("deliver") # Tick("fail") /\ Tick("deliver") # Tick("assign")
      /\ Tick("fail") # Tick("assign")
  <2>1. Tick("deliver")[1].phase = "deliver" /\ Tick("fail")[1].phase = "fail"
        /\ Tick("assign")[1].phase = "assign"
    BY <1>1 DEF Phases
  <2> QED BY <2>1
<1>7. ASSUME NEW p \in Phases PROVE Tick(p) \notin {<<>>, Batch, Transfer, Failure}
  <2>1. Len(Tick(p)) = 1
    BY <1>1
  <2>2. Len(Tick(p)) \notin {Len(<<>>), Len(Batch), Len(Transfer), Len(Failure)}
    BY <2>1, <1>2, <1>3, <1>4, <1>5
  <2> QED BY <2>2, Zenon
<1>8. Batch # Failure
  BY <1>2, <1>4
<1>9. Batch \notin {<<>>, Transfer} /\ Transfer \notin {<<>>, Failure} /\ Failure # <<>>
  <2>1. /\ Len(Batch) \notin {Len(<<>>), Len(Transfer)} /\ Len(Failure) # Len(<<>>)
        /\ Len(Transfer) \notin {Len(<<>>), Len(Failure)}
    BY <1>2, <1>3, <1>4, <1>5
  <2> QED BY <2>1, Zenon
<1> QED BY <1>6, <1>7, <1>8, <1>9

\* What the steps are and what is left when one is done.
LEMMA StepsAre ==
    /\ \A p \in Phases : Head(Tick(p)) = PushTick(p) /\ Tail(Tick(p)) = <<>>
    /\ Head(Batch) = Add("batches", 1) /\ Tail(Batch) = Tick("deliver")
    /\ Head(Transfer) = Add("transfers", 1) /\ Tail(Transfer) = Batch
    /\ Head(Failure) = Add("failures", 1) /\ Tail(Failure) = Tick("fail")
  BY DEF Tick, Batch, Transfer, Failure

LEMMA ReportSteps ==
    ASSUME NEW ok \in BOOLEAN, NEW n \in 0..1
    PROVE  record_transfer_tick(ok, n) \in {<<>>, Transfer, Failure}
<1>1. n = 0 \/ n = 1
  OBVIOUS
<1>2. n = 1 /\ ok => record_transfer_tick(ok, n) = Transfer
  BY DEF record_transfer_tick, Transfer
<1>3. ~ok => record_transfer_tick(ok, n) = Failure
  BY DEF record_transfer_tick, Failure
<1>4. n = 0 /\ ok => record_transfer_tick(ok, n) = <<>>
  BY DEF record_transfer_tick
<1> QED BY <1>1, <1>2, <1>3, <1>4

-----------------------------------------------------------------------------
(* What a step of Next is to the counters and the ticks.                   *)

RecordOK ==
    /\ total \in [Fields -> Nat] /\ pushed \in [Phases -> Nat]
    /\ todo \in [Handlers -> Steps]

\* Handler h goes on to `steps`.
Goes(h, steps) == todo' = [todo EXCEPT ![h] = steps]

Counted(field) ==
    /\ total' = [total EXCEPT ![field] = @ + 1]
    /\ UNCHANGED <<ticks, pushed, evicted>>

LEMMA RecordCases ==
    ASSUME RecordOK, NEW h \in Handlers, Record(h)
    PROVE  \/ todo[h] = Transfer /\ Goes(h, Batch) /\ Counted("transfers")
           \/ todo[h] = Batch /\ Goes(h, Tick("deliver")) /\ Counted("batches")
           \/ todo[h] = Failure /\ Goes(h, Tick("fail")) /\ Counted("failures")
           \/ \E p \in Phases : /\ todo[h] = Tick(p) /\ Goes(h, <<>>) /\ push(p)
                                /\ UNCHANGED total
<1>1. PICK s : s = todo[h] /\ s \in Steps /\ s # <<>>
  BY DEF RecordOK, Record
<1>2. Goes(h, Tail(s))
  BY <1>1 DEF Record, Goes, RecordOK
<1>3. PICK step : step = Head(s)
  OBVIOUS
<1>4. \/ /\ step.do = "add" /\ total' = [total EXCEPT ![step.field] = @ + step.n]
         /\ UNCHANGED <<ticks, pushed, evicted>>
      \/ step.do = "tick" /\ push(step.phase) /\ UNCHANGED total
  BY <1>1, <1>3 DEF Record
<1>5. CASE s = Transfer
  <2>1. step = Add("transfers", 1) /\ Tail(s) = Batch
    BY <1>3, <1>5, StepsAre
  <2>2. step.do = "add" /\ step.field = "transfers" /\ step.n = 1 /\ step.do # "tick"
    BY <2>1 DEF Add
  <2>3. Counted("transfers")
    BY <1>4, <2>2 DEF Counted
  <2>4. Goes(h, Batch)
    BY <1>2, <2>1 DEF Goes
  <2> QED BY <1>1, <1>5, <2>3, <2>4
<1>6. CASE s = Batch
  <2>1. step = Add("batches", 1) /\ Tail(s) = Tick("deliver")
    BY <1>3, <1>6, StepsAre
  <2>2. step.do = "add" /\ step.field = "batches" /\ step.n = 1 /\ step.do # "tick"
    BY <2>1 DEF Add
  <2>3. Counted("batches")
    BY <1>4, <2>2 DEF Counted
  <2>4. Goes(h, Tick("deliver"))
    BY <1>2, <2>1 DEF Goes
  <2> QED BY <1>1, <1>6, <2>3, <2>4
<1>7. CASE s = Failure
  <2>1. step = Add("failures", 1) /\ Tail(s) = Tick("fail")
    BY <1>3, <1>7, StepsAre
  <2>2. step.do = "add" /\ step.field = "failures" /\ step.n = 1 /\ step.do # "tick"
    BY <2>1 DEF Add
  <2>3. Counted("failures")
    BY <1>4, <2>2 DEF Counted
  <2>4. Goes(h, Tick("fail"))
    BY <1>2, <2>1 DEF Goes
  <2> QED BY <1>1, <1>7, <2>3, <2>4
<1>8. ASSUME NEW p \in Phases, s = Tick(p)
      PROVE  todo[h] = Tick(p) /\ Goes(h, <<>>) /\ push(p) /\ UNCHANGED total
  <2>1. step = PushTick(p) /\ Tail(s) = <<>>
    BY <1>3, <1>8, StepsAre
  <2>2. step.do = "tick" /\ step.phase = p /\ step.do # "add"
    BY <2>1 DEF PushTick
  <2>3. push(p) /\ UNCHANGED total
    BY <1>4, <2>2
  <2> QED BY <1>1, <1>2, <1>8, <2>1, <2>3
<1> QED BY <1>1, <1>5, <1>6, <1>7, <1>8 DEF Steps, Phases

-----------------------------------------------------------------------------
(* TotalsCoverTicks.                                                       *)

\* The handlers with `steps` still to do.
At(steps) == {h \in Handlers : todo[h] = steps}

\* The counters are ahead of the ticks by the handlers that are between the
\* two, and transfers are ahead of batches likewise.
CountInv ==
    /\ RecordOK
    /\ total["batches"] = pushed["deliver"] + Cardinality(At(Tick("deliver")))
    /\ total["failures"] = pushed["fail"] + Cardinality(At(Tick("fail")))
    /\ total["batches"] + Cardinality(At(Batch)) <= total["transfers"]

LEMMA AtCount ==
    ASSUME NEW steps
    PROVE  IsFiniteSet(At(steps)) /\ Cardinality(At(steps)) \in Nat
<1>1. At(steps) \subseteq Handlers /\ IsFiniteSet(Handlers)
  BY MetricsAssumption DEF At
<1> QED BY <1>1, FS_Subset, FS_CardinalityType

\* One handler goes on.
LEMMA AtGoes ==
    ASSUME RecordOK, NEW h \in Handlers, NEW new, Goes(h, new), NEW steps
    PROVE  Cardinality(At(steps)') =
              Cardinality(At(steps)) + (IF new = steps THEN 1 ELSE 0)
                                     - (IF todo[h] = steps THEN 1 ELSE 0)
<1>1. todo \in [Handlers -> Steps] /\ todo' = [todo EXCEPT ![h] = new]
  BY DEF RecordOK, Goes
<1>2. At(steps)' = {i \in Handlers : todo'[i] = steps}
  BY DEF At
<1>3. IsFiniteSet(At(steps)) /\ Cardinality(At(steps)) \in Nat
  BY AtCount
<1>4. CASE new = steps
  <2>1. At(steps)' = At(steps) \cup {h}
    BY <1>1, <1>2, <1>4 DEF At
  <2>2. h \in At(steps) <=> todo[h] = steps
    BY DEF At
  <2>3. Cardinality(At(steps) \cup {h}) =
           IF h \in At(steps) THEN Cardinality(At(steps)) ELSE Cardinality(At(steps)) + 1
    BY <1>3, FS_AddElement
  <2> QED BY <1>3, <1>4, <2>1, <2>2, <2>3
<1>5. CASE new # steps
  <2>1. At(steps)' = At(steps) \ {h}
    BY <1>1, <1>2, <1>5 DEF At
  <2>2. h \in At(steps) <=> todo[h] = steps
    BY DEF At
  <2>3. Cardinality(At(steps) \ {h}) =
           IF h \in At(steps) THEN Cardinality(At(steps)) - 1 ELSE Cardinality(At(steps))
    BY <1>3, FS_RemoveElement
  <2> QED BY <1>3, <1>5, <2>1, <2>2, <2>3
<1> QED BY <1>4, <1>5

LEMMA CountInit == Init => CountInv
<1> SUFFICES ASSUME Init PROVE CountInv
  OBVIOUS
<1>1. RecordOK
  BY FieldNames DEF Init, RecordOK, Zero, Steps, Phases
<1>2. At(Tick("deliver")) = {} /\ At(Tick("fail")) = {} /\ At(Batch) = {}
  BY StepsDiffer DEF Init, At, Phases
<1>3. Cardinality({}) = 0
  BY FS_EmptySet
<1>4. total["batches"] = 0 /\ total["failures"] = 0 /\ total["transfers"] = 0
      /\ pushed["deliver"] = 0 /\ pushed["fail"] = 0
  BY FieldNames DEF Init, Zero
<1> QED BY <1>1, <1>2, <1>3, <1>4 DEF CountInv

LEMMA CountKept ==
    ASSUME CountInv, UNCHANGED <<total, pushed, todo>>
    PROVE  CountInv'
  BY DEF CountInv, RecordOK, At

LEMMA CountBegin ==
    ASSUME CountInv, NEW h \in Handlers,
           NEW steps \in {<<>>, Transfer, Failure, Tick("assign")}, Begin(h, steps)
    PROVE  CountInv'
<1>1. RecordOK /\ todo[h] = <<>> /\ Goes(h, steps) /\ UNCHANGED <<total, pushed>>
  BY DEF CountInv, Begin, Goes
<1>2. RecordOK'
  BY <1>1 DEF RecordOK, Goes, Steps
<1>3. ASSUME NEW x \in {Tick("deliver"), Tick("fail"), Batch}
      PROVE  Cardinality(At(x)') = Cardinality(At(x))
  <2>1. steps # x /\ todo[h] # x
    BY <1>1, StepsDiffer DEF Phases
  <2>2. Cardinality(At(x)) \in Nat
    BY AtCount
  <2> QED BY <1>1, <2>1, <2>2, AtGoes
<1> QED BY <1>1, <1>2, <1>3 DEF CountInv

LEMMA CountRecord ==
    ASSUME CountInv, NEW h \in Handlers, Record(h)
    PROVE  CountInv'
<1>1. RecordOK
  BY DEF CountInv
<1> DEFINE D == Cardinality(At(Tick("deliver")))
           F == Cardinality(At(Tick("fail")))
           B == Cardinality(At(Batch))
<1>2. D \in Nat /\ F \in Nat /\ B \in Nat
  BY AtCount
<1>3. /\ total["batches"] \in Nat /\ total["failures"] \in Nat /\ total["transfers"] \in Nat
      /\ pushed["deliver"] \in Nat /\ pushed["fail"] \in Nat
  BY <1>1, FieldNames DEF RecordOK, Phases
<1>4. /\ total["batches"] = pushed["deliver"] + D
      /\ total["failures"] = pushed["fail"] + F
      /\ total["batches"] + B <= total["transfers"]
  BY DEF CountInv
<1>5. CASE todo[h] = Transfer /\ Goes(h, Batch) /\ Counted("transfers")
  <2>1. RecordOK'
    BY <1>1, <1>3, <1>5, FieldNames DEF RecordOK, Goes, Steps, Counted
  <2>2. D' = D /\ F' = F /\ B' = B + 1
    BY <1>1, <1>2, <1>5, AtGoes, StepsDiffer DEF Phases
  <2>3. /\ total'["transfers"] = total["transfers"] + 1 /\ pushed' = pushed
        /\ total'["batches"] = total["batches"] /\ total'["failures"] = total["failures"]
    BY <1>1, <1>5, FieldNames DEF RecordOK, Counted
  <2> QED BY <1>2, <1>3, <1>4, <2>1, <2>2, <2>3 DEF CountInv
<1>6. CASE todo[h] = Batch /\ Goes(h, Tick("deliver")) /\ Counted("batches")
  <2>1. RecordOK'
    BY <1>1, <1>3, <1>6, FieldNames DEF RecordOK, Goes, Steps, Counted
  <2>2. D' = D + 1 /\ F' = F /\ B' = B - 1
    BY <1>1, <1>2, <1>6, AtGoes, StepsDiffer DEF Phases
  <2>3. /\ total'["batches"] = total["batches"] + 1 /\ pushed' = pushed
        /\ total'["transfers"] = total["transfers"] /\ total'["failures"] = total["failures"]
    BY <1>1, <1>6, FieldNames DEF RecordOK, Counted
  <2> QED BY <1>2, <1>3, <1>4, <2>1, <2>2, <2>3 DEF CountInv
<1>7. CASE todo[h] = Failure /\ Goes(h, Tick("fail")) /\ Counted("failures")
  <2>1. RecordOK'
    BY <1>1, <1>3, <1>7, FieldNames DEF RecordOK, Goes, Steps, Counted
  <2>2. D' = D /\ F' = F + 1 /\ B' = B
    BY <1>1, <1>2, <1>7, AtGoes, StepsDiffer DEF Phases
  <2>3. /\ total'["failures"] = total["failures"] + 1 /\ pushed' = pushed
        /\ total'["transfers"] = total["transfers"] /\ total'["batches"] = total["batches"]
    BY <1>1, <1>7, FieldNames DEF RecordOK, Counted
  <2> QED BY <1>2, <1>3, <1>4, <2>1, <2>2, <2>3 DEF CountInv
<1>8. ASSUME NEW p \in Phases, todo[h] = Tick(p), Goes(h, <<>>), push(p), UNCHANGED total
      PROVE  CountInv'
  <2>1. pushed' = [pushed EXCEPT ![p] = @ + 1]
    BY <1>8 DEF push
  <2>2. RecordOK'
    BY <1>1, <1>8, <2>1 DEF RecordOK, Goes, Steps
  <2>3. /\ D' = D - (IF p = "deliver" THEN 1 ELSE 0)
        /\ F' = F - (IF p = "fail" THEN 1 ELSE 0) /\ B' = B
    <3>1. <<>> \notin {Tick("deliver"), Tick("fail"), Batch} /\ Tick(p) # Batch
      BY StepsDiffer DEF Phases
    <3>2. (Tick(p) = Tick("deliver") <=> p = "deliver") /\ (Tick(p) = Tick("fail") <=> p = "fail")
      BY StepsDiffer DEF Phases
    <3> QED BY <1>1, <1>2, <1>8, <3>1, <3>2, AtGoes
  <2>4. /\ pushed'["deliver"] = pushed["deliver"] + (IF p = "deliver" THEN 1 ELSE 0)
        /\ pushed'["fail"] = pushed["fail"] + (IF p = "fail" THEN 1 ELSE 0)
    BY <1>1, <1>3, <2>1 DEF RecordOK, Phases
  <2>5. total' = total
    BY <1>8
  <2> QED BY <1>2, <1>3, <1>4, <2>2, <2>3, <2>4, <2>5 DEF CountInv
<1> QED BY <1>1, <1>5, <1>6, <1>7, <1>8, RecordCases

LEMMA CountNext == CountInv /\ [Next]_vars => CountInv'
<1> SUFFICES ASSUME CountInv, [Next]_vars PROVE CountInv'
  OBVIOUS
<1>1. ASSUME NEW h \in Handlers, NEW ok \in BOOLEAN, NEW n \in 0..1, Report(h, ok, n)
      PROVE  CountInv'
  BY <1>1, ReportSteps, CountBegin DEF Report
<1>2. ASSUME NEW h \in Handlers, Assigned(h) PROVE CountInv'
  BY <1>2, CountBegin DEF Assigned, Tick
<1>3. CASE DrainTicks \/ ProducerDrops \/ Disconnect \/ Heartbeat
  BY <1>3, CountKept DEF DrainTicks, ProducerDrops, Disconnect, Heartbeat, recordVars
<1>4. CASE SamplerStep
  BY <1>4, CountKept DEF SamplerStep, Start, Load, Store, RecordRates, recordVars
<1>5. CASE UNCHANGED vars
  BY <1>5, CountKept DEF vars, recordVars
<1> QED BY <1>1, <1>2, <1>3, <1>4, <1>5, CountRecord DEF Next

\* A tick of record_transfer_tick is never ahead of the counters it announces,
\* however the handlers are interleaved, and when they are done each tick is
\* one batch or one failure, and no batch is empty.
THEOREM CountersCoverTicks == Spec => []TotalsCoverTicks
<1>1. ASSUME CountInv PROVE TotalsCoverTicks
  <2>1. \A x \in {Tick("deliver"), Tick("fail"), Batch} : Cardinality(At(x)) \in Nat
    BY AtCount
  <2>2. /\ total["batches"] \in Nat /\ total["failures"] \in Nat /\ total["transfers"] \in Nat
        /\ pushed["deliver"] \in Nat /\ pushed["fail"] \in Nat
    BY <1>1, FieldNames DEF CountInv, RecordOK, Phases
  <2>3. pushed["deliver"] <= total["batches"] /\ pushed["fail"] <= total["failures"]
        /\ total["batches"] <= total["transfers"]
    BY <1>1, <2>1, <2>2 DEF CountInv
  <2>4. ASSUME \A h \in Handlers : todo[h] = <<>>
        PROVE  pushed["deliver"] = total["batches"] /\ pushed["fail"] = total["failures"]
    <3>1. At(Tick("deliver")) = {} /\ At(Tick("fail")) = {}
      BY <2>4, StepsDiffer DEF At, Phases
    <3>2. Cardinality({}) = 0
      BY FS_EmptySet
    <3>3. Cardinality(At(Tick("deliver"))) = 0 /\ Cardinality(At(Tick("fail"))) = 0
      BY <3>1, <3>2
    <3> QED BY <1>1, <2>2, <3>3 DEF CountInv
  <2> QED BY <2>3, <2>4 DEF TotalsCoverTicks
<1> QED BY <1>1, CountInit, CountNext, PTL DEF Spec

-----------------------------------------------------------------------------
(* TicksInOrder.                                                           *)

Ticks == Seq([id : 1..Pushed, phase : Phases])

\* The numbers of the ticks that were returned and of those that wait grow,
\* and there are as many as were pushed and not evicted.
TickInv ==
    /\ RecordOK /\ drained \in Seq(Nat) /\ evicted \in Nat
    /\ ticks \in Ticks /\ Len(ticks) <= TickCap
    /\ \A i \in 1..Len(drained) : drained[i] <= Pushed
    /\ \A i, j \in 1..Len(drained) : i < j => drained[i] < drained[j]
    /\ \A i, j \in 1..Len(ticks) : i < j => ticks[i].id < ticks[j].id
    /\ \A i \in 1..Len(drained), j \in 1..Len(ticks) : drained[i] < ticks[j].id
    /\ Len(drained) + Len(ticks) + evicted = Pushed
    /\ ticks # <<>> => ticks[Len(ticks)].id = Pushed

LEMMA PushedNat == RecordOK => Pushed \in Nat
  BY DEF RecordOK, Pushed, Phases

LEMMA TicksAre ==
    ASSUME NEW n \in Nat, NEW s \in Seq([id : 1..n, phase : Phases])
    PROVE  /\ DOMAIN s = 1..Len(s)
           /\ \A i \in 1..Len(s) : s[i] \in [id : 1..n, phase : Phases] /\ s[i].id \in 1..n
<1>1. PICK S : S = [id : 1..n, phase : Phases]
  OBVIOUS
<1>2. DOMAIN s = 1..Len(s) /\ \A i \in 1..Len(s) : s[i] \in S
  <2>1. s \in Seq(S)
    BY <1>1
  <2> QED BY <2>1
<1>3. \A r \in [id : 1..n, phase : Phases] : r.id \in 1..n
  OBVIOUS
<1> QED BY <1>1, <1>2, <1>3

LEMMA TickInit == Init => TickInv
<1> SUFFICES ASSUME Init PROVE TickInv
  OBVIOUS
<1>1. RecordOK
  BY CountInit DEF CountInv
<1>2. Pushed = 0
  BY DEF Init, Zero, Pushed
<1>3. TickCap \in Nat
  BY MetricsAssumption
<1> QED BY <1>1, <1>2, <1>3 DEF TickInv, Init, Ticks

LEMMA TickKept ==
    ASSUME TickInv, RecordOK', UNCHANGED <<pushed, ticks, drained, evicted>>
    PROVE  TickInv'
<1>1. Pushed' = Pushed
  BY DEF Pushed
<1>2. Ticks' = Ticks
  BY <1>1 DEF Ticks
<1> QED BY <1>1, <1>2 DEF TickInv

LEMMA TickPush ==
    ASSUME TickInv, RecordOK', NEW p \in Phases, push(p), UNCHANGED drained
    PROVE  TickInv'
<1>1. PICK n \in Nat : n = Pushed
  BY PushedNat DEF TickInv
<1>2. Pushed' = n + 1
  <2>1. pushed' = [pushed EXCEPT ![p] = @ + 1] /\ pushed \in [Phases -> Nat]
    BY DEF push, TickInv, RecordOK
  <2> QED BY <1>1, <2>1 DEF Pushed, Phases
<1>3. PICK new : new = [id |-> n + 1, phase |-> p]
  OBVIOUS
<1>4. ticks \in Ticks /\ Len(ticks) \in Nat /\ Len(ticks) <= TickCap /\ TickCap \in Nat \ {0}
  BY MetricsAssumption DEF TickInv, Ticks
<1>5. PICK kept \in Ticks, o \in {0, 1} :
         /\ kept \in Ticks /\ Len(kept) = Len(ticks) - o /\ Len(kept) < TickCap
         /\ \A i \in 1..Len(kept) : kept[i] = ticks[i + o]
         /\ ticks' = Append(kept, new) /\ evicted' = evicted + o
  <2>1. CASE Len(ticks) >= TickCap
    <3>1. /\ Tail(ticks) \in Ticks /\ Len(Tail(ticks)) = Len(ticks) - 1
          /\ \A i \in 1..Len(Tail(ticks)) : Tail(ticks)[i] = ticks[i + 1]
      BY <1>4, <2>1 DEF Ticks
    <3>2. ticks' = Append(Tail(ticks), new) /\ evicted' = evicted + 1
      BY <1>1, <1>3, <2>1 DEF push
    <3>3. Len(ticks) - 1 < TickCap
      BY <1>4
    <3> QED BY <3>1, <3>2, <3>3
  <2>2. CASE ~(Len(ticks) >= TickCap)
    <3>1. ticks' = Append(ticks, new) /\ evicted' = evicted
      BY <1>1, <1>3, <2>2 DEF push
    <3>2. evicted' = evicted + 0 /\ Len(ticks) = Len(ticks) - 0 /\ Len(ticks) < TickCap
      BY <1>4, <2>2, <3>1 DEF TickInv
    <3>3. \A i \in 1..Len(ticks) : ticks[i] = ticks[i + 0]
      BY <1>4
    <3> QED BY <1>4, <3>1, <3>2, <3>3
  <2> QED BY <2>1, <2>2
<1>6. PICK m \in Nat : m = Len(kept)
  <2>1. kept \in Seq([id : 1..Pushed, phase : Phases])
    BY <1>5 DEF Ticks
  <2>2. Len(kept) \in Nat
    BY <2>1, LenProperties
  <2> QED BY <2>2
<1>7. PICK T : T = [id : 1..n + 1, phase : Phases]
  OBVIOUS
<1>8. Ticks' = Seq(T) /\ new \in T
  BY <1>1, <1>2, <1>3, <1>7 DEF Ticks
<1>9. kept \in Seq(T) /\ \A i \in 1..m : kept[i].id \in 1..n
  <2>1. kept \in Seq([id : 1..n, phase : Phases])
    BY <1>1, <1>5 DEF Ticks
  <2>2. [id : 1..n, phase : Phases] \subseteq T
    BY <1>1, <1>7
  <2>3. DOMAIN kept = 1..m /\ \A i \in 1..m : kept[i] \in [id : 1..n, phase : Phases]
    BY <1>6, <2>1, TicksAre
  <2>4. kept \in [1..m -> T]
    BY <2>1, <2>2, <2>3
  <2>5. kept \in Seq(T)
    BY <2>4
  <2> QED BY <1>6, <2>1, <2>5, TicksAre
<1>10. /\ ticks' \in Seq(T) /\ Len(ticks') = m + 1 /\ ticks'[m + 1] = new
       /\ \A i \in 1..m : ticks'[i] = kept[i]
  BY <1>5, <1>6, <1>8, <1>9
<1>11. new.id = n + 1
  BY <1>3
<1>12. Len(ticks') <= TickCap
  BY <1>4, <1>5, <1>6, <1>10
<1>13. ASSUME NEW i \in 1..m, NEW j \in 1..m, i < j PROVE kept[i].id < kept[j].id
  <2>1. i + o \in 1..Len(ticks) /\ j + o \in 1..Len(ticks) /\ i + o < j + o
    BY <1>4, <1>5, <1>6, <1>13
  <2> QED BY <1>5, <1>6, <2>1 DEF TickInv
<1>14. ASSUME NEW i \in 1..Len(drained), NEW j \in 1..m PROVE drained[i] < kept[j].id
  <2>1. j + o \in 1..Len(ticks)
    BY <1>4, <1>5, <1>6
  <2> QED BY <1>5, <1>6, <2>1 DEF TickInv
<1>15. ASSUME NEW i \in 1..m + 1, NEW j \in 1..m + 1, i < j
       PROVE  ticks'[i].id < ticks'[j].id
  <2>1. i \in 1..m /\ (j \in 1..m \/ j = m + 1)
    BY <1>15
  <2>2. kept[i].id < n + 1
    BY <1>9, <2>1
  <2> QED BY <1>10, <1>11, <1>13, <1>15, <2>1, <2>2
<1>16. /\ drained \in Seq(Nat) /\ Len(drained) \in Nat /\ evicted \in Nat
       /\ \A i \in 1..Len(drained) : drained[i] \in Nat /\ drained[i] <= n
  BY <1>1 DEF TickInv
<1>17. ASSUME NEW i \in 1..Len(drained), NEW j \in 1..m + 1
       PROVE  drained[i] < ticks'[j].id
  <2>1. j \in 1..m \/ j = m + 1
    OBVIOUS
  <2>2. drained[i] < n + 1
    BY <1>16
  <2> QED BY <1>10, <1>11, <1>14, <2>1, <2>2
<1>18. \A i \in 1..Len(drained) : drained[i] <= n + 1
  BY <1>16
<1>19. Len(drained) + (m + 1) + evicted' = n + 1
  BY <1>1, <1>4, <1>5, <1>6, <1>16 DEF TickInv
<1>20. evicted' \in Nat
  BY <1>5, <1>16
<1>21. \A i, j \in 1..Len(drained) : i < j => drained[i] < drained[j]
  BY DEF TickInv
<1> QED BY <1>2, <1>8, <1>10, <1>11, <1>12, <1>15, <1>16, <1>17, <1>18, <1>19, <1>20, <1>21
        DEF TickInv

\* What was returned and what waits, as TicksInOrder puts it together.
Seen == drained \o [i \in DOMAIN ticks |-> ticks[i].id]

LEMMA SeenGrows ==
    ASSUME TickInv
    PROVE  /\ Seen \in Seq(Nat) /\ Len(Seen) + evicted = Pushed
           /\ \A i \in 1..Len(Seen) : Seen[i] <= Pushed
           /\ \A i, j \in 1..Len(Seen) : i < j => Seen[i] < Seen[j]
<1>1. PICK n \in Nat : n = Pushed
  BY PushedNat DEF TickInv
<1>2. PICK k \in Nat, m \in Nat : k = Len(drained) /\ m = Len(ticks)
  BY DEF TickInv, Ticks
<1>3. PICK ids : ids = [i \in DOMAIN ticks |-> ticks[i].id]
  OBVIOUS
<1>4. DOMAIN ticks = 1..m /\ \A i \in 1..m : ticks[i].id \in 1..n
  <2>1. ticks \in Seq([id : 1..n, phase : Phases])
    BY <1>1 DEF TickInv, Ticks
  <2> QED BY <1>2, <2>1, TicksAre
<1>5. ids \in [1..m -> Nat]
  BY <1>3, <1>4
<1>6. ids \in Seq(Nat) /\ Len(ids) = m /\ \A i \in 1..m : ids[i] = ticks[i].id
  <2>1. ids \in Seq(Nat) /\ Len(ids) = m
    BY <1>5
  <2> QED BY <1>3, <1>4, <2>1
<1>7. PICK seen : seen = drained \o ids
  OBVIOUS
<1>8. drained \in Seq(Nat) /\ evicted \in Nat
  BY DEF TickInv
<1>9. /\ seen \in Seq(Nat) /\ Len(seen) = k + m
      /\ \A i \in 1..k + m : seen[i] = IF i <= k THEN drained[i] ELSE ids[i - k]
  <2>1. seen \in Seq(Nat)
    BY <1>6, <1>7, <1>8
  <2>2. Len(seen) = Len(drained) + Len(ids)
    BY <1>6, <1>7, <1>8, ConcatProperties
  <2>3. \A i \in 1..Len(drained) + Len(ids) :
           seen[i] = IF i <= Len(drained) THEN drained[i] ELSE ids[i - Len(drained)]
    BY <1>6, <1>7, <1>8, ConcatProperties
  <2> QED BY <1>2, <1>6, <2>1, <2>2, <2>3
<1>10. ASSUME NEW i \in 1..k + m
       PROVE  \/ i \in 1..k /\ seen[i] = drained[i]
              \/ i > k /\ i - k \in 1..m /\ seen[i] = ticks[i - k].id
  <2>1. CASE i <= k
    <3>1. i \in 1..k
      BY <2>1
    <3> QED BY <1>9, <2>1, <3>1
  <2>2. CASE i > k
    <3>1. i - k \in 1..m /\ ~(i <= k)
      BY <2>2
    <3>2. seen[i] = ids[i - k]
      BY <1>9, <3>1
    <3> QED BY <1>6, <2>2, <3>1, <3>2
  <2> QED BY <2>1, <2>2
<1>11. /\ \A i \in 1..k : drained[i] <= n
       /\ \A i, j \in 1..k : i < j => drained[i] < drained[j]
       /\ \A i, j \in 1..m : i < j => ticks[i].id < ticks[j].id
       /\ \A i \in 1..k, j \in 1..m : drained[i] < ticks[j].id
  BY <1>1, <1>2 DEF TickInv
<1>12. ASSUME NEW i \in 1..k + m PROVE seen[i] <= n
  BY <1>4, <1>10, <1>11
<1>13. ASSUME NEW i \in 1..k + m, NEW j \in 1..k + m, i < j PROVE seen[i] < seen[j]
  <2>1. CASE i > k
    <3>1. i - k \in 1..m /\ j - k \in 1..m /\ i - k < j - k
      BY <1>13, <2>1
    <3>2. seen[i] = ticks[i - k].id /\ seen[j] = ticks[j - k].id
      BY <1>10, <1>13, <2>1
    <3> QED BY <1>11, <3>1, <3>2
  <2>2. CASE i \in 1..k
    <3>1. ~(i > k)
      BY <2>2
    <3>2. seen[i] = drained[i]
      BY <1>10, <3>1
    <3> QED BY <1>10, <1>11, <1>13, <2>2, <3>2
  <2>3. i > k \/ i \in 1..k
    OBVIOUS
  <2> QED BY <2>1, <2>2, <2>3
<1>14. k + m + evicted = n
  BY <1>1, <1>2 DEF TickInv
<1>15. Seen = seen
  BY <1>3, <1>7 DEF Seen
<1> QED BY <1>1, <1>9, <1>12, <1>13, <1>14, <1>15

LEMMA TickDrain == TickInv /\ RecordOK' /\ DrainTicks => TickInv'
<1> SUFFICES ASSUME TickInv, RecordOK', DrainTicks PROVE TickInv'
  OBVIOUS
<1>1. Pushed' = Pushed
  BY DEF Pushed, DrainTicks
<1>2. drained' = Seen /\ ticks' = <<>> /\ UNCHANGED evicted
  BY DEF DrainTicks, Seen
<1>3. ticks' \in Ticks' /\ Len(ticks') = 0 /\ 0 <= TickCap
  BY <1>2, MetricsAssumption DEF Ticks
<1>4. evicted \in Nat
  BY DEF TickInv
<1>5. Len(drained') + Len(ticks') + evicted' = Pushed'
  <2>1. Len(Seen) \in Nat /\ Len(Seen) + evicted = Pushed
    BY SeenGrows
  <2> QED BY <1>1, <1>2, <1>3, <1>4, <2>1
<1> QED BY <1>1, <1>2, <1>3, <1>4, <1>5, SeenGrows DEF TickInv

LEMMA TickNext == CountInv /\ TickInv /\ [Next]_vars => TickInv'
<1> SUFFICES ASSUME CountInv, TickInv, [Next]_vars PROVE TickInv'
  OBVIOUS
<1>1. RecordOK /\ RecordOK'
  BY CountNext DEF CountInv
<1>2. ASSUME NEW h \in Handlers, Record(h) PROVE TickInv'
  <2>1. UNCHANGED drained
    BY <1>2 DEF Record
  <2>2. \/ UNCHANGED <<ticks, pushed, evicted>>
        \/ \E p \in Phases : push(p)
    BY <1>1, <1>2, RecordCases DEF Counted
  <2>3. CASE UNCHANGED <<ticks, pushed, evicted>>
    BY <1>1, <2>1, <2>3, TickKept
  <2>4. ASSUME NEW p \in Phases, push(p) PROVE TickInv'
    BY <1>1, <2>1, <2>4, TickPush
  <2> QED BY <2>2, <2>3, <2>4
<1>3. ASSUME NEW h \in Handlers, NEW steps, Begin(h, steps) PROVE TickInv'
  BY <1>1, <1>3, TickKept DEF Begin
<1>4. CASE ProducerDrops \/ Disconnect \/ Heartbeat
  BY <1>1, <1>4, TickKept DEF ProducerDrops, Disconnect, Heartbeat, recordVars
<1>5. CASE SamplerStep
  BY <1>1, <1>5, TickKept DEF SamplerStep, Start, Load, Store, RecordRates, recordVars
<1>6. CASE UNCHANGED vars
  BY <1>1, <1>6, TickKept DEF vars, recordVars
<1> QED BY <1>1, <1>2, <1>3, <1>4, <1>5, <1>6, TickDrain DEF Next, Report, Assigned

LEMMA TickOrder == TickInv => TicksInOrder
<1> SUFFICES ASSUME TickInv PROVE TicksInOrder
  OBVIOUS
<1>1. DOMAIN Seen = 1..Len(Seen)
  BY SeenGrows
<1>2. ticks # <<>> => ticks[Len(ticks)].id = Pushed
  BY DEF TickInv
<1>3. Len(Seen) + evicted = Pushed /\ \A i, j \in DOMAIN Seen : i < j => Seen[i] < Seen[j]
  BY <1>1, SeenGrows
<1> QED BY <1>2, <1>3 DEF TicksInOrder, Seen

\* What GET /metrics/ticks returned and what waits for the next one are ticks
\* in the order in which the handlers pushed them, none twice; the newest is
\* never the one a full TickBuffer loses, and only a full one loses any.
THEOREM TicksKeepOrder == Spec => []TicksInOrder
<1>1. Init => CountInv /\ TickInv
  BY CountInit, TickInit
<1>2. CountInv /\ TickInv /\ [Next]_vars => (CountInv /\ TickInv)'
  BY CountNext, TickNext
<1> QED BY <1>1, <1>2, TickOrder, PTL DEF Spec

-----------------------------------------------------------------------------
(* RatesHonest.                                                            *)

\* What a snapshot holds while its counters are being loaded.
Prefixes == {{"drops"}, {"drops", "transfers"}, {"drops", "transfers", "batches"}}

SamplerOK ==
    \/ sampler = [at |-> "idle"]
    \/ /\ sampler = [at |-> sampler.at, snap |-> sampler.snap]
       /\ \/ sampler.at = "load" /\ DOMAIN sampler.snap \in Prefixes
          \/ sampler.at \in {"done", "record"} /\ DOMAIN sampler.snap = Rated
       /\ sampler.snap \in [DOMAIN sampler.snap -> Nat]

RateTypes ==
    /\ SamplerOK
    /\ shown \in [Rated -> Nat] /\ still \in BOOLEAN
    /\ last = None \/ last \in [Rated -> Nat]
    /\ cache = None \/ cache \in [Rated -> Nat]
    /\ producer \in [up : BOOLEAN, hb_drops : Nat]
    /\ drops \in Nat /\ losses \in Nat

\* The counters that the last record saw, none before the first.
Last(f) == IF last = None THEN 0 ELSE last[f]

\* The snapshot that is under way has loaded f.
Loaded(f) == sampler.at # "idle" /\ f \in DOMAIN sampler.snap

\* A counter grows from the last record to the snapshot under way and on to
\* what it is now, and shows no more than the last record saw.
Rises(f) ==
    /\ shown[f] <= Last(f) /\ Last(f) <= total[f]
    /\ ~still => shown[f] = Last(f)
    /\ Loaded(f) => Last(f) <= sampler.snap[f] /\ sampler.snap[f] <= total[f]

\* Drops are seen to fall when the producer's entry goes, and to rise again
\* when it is back: what is shown has risen to `drops` once for every time it
\* came back, and to what the last record, or the snapshot under way, saw
\* since.
Falls(hb, s, l) ==
    /\ hb <= drops /\ s <= drops /\ l <= drops
    /\ producer.up =>
          /\ l <= hb /\ s <= hb
          /\ shown["drops"] <= drops * losses + l
          /\ s < l /\ Loaded("drops") => shown["drops"] <= drops * losses + s
          /\ losses = 0 => /\ Loaded("drops") => l <= s
                           /\ ~still => shown["drops"] = l
    /\ ~producer.up =>
          /\ hb = 0
          /\ shown["drops"] <= drops * (losses + 1)
          /\ Loaded("drops") => shown["drops"] + saturating_sub(s, l) <= drops * (losses + 1)

Taken == IF Loaded("drops") THEN sampler.snap["drops"] ELSE 0

DropsFall == Falls(producer.hb_drops, Taken, Last("drops"))

RateInv ==
    /\ RecordOK /\ RateTypes
    /\ last = None => \A f \in Rated : shown[f] = 0
    /\ \A f \in Fields : Rises(f)
    /\ DropsFall

LEMMA RatedAre == Rated = Fields \cup {"drops"} /\ "drops" \notin Fields
  BY FieldNames DEF Rated

LEMMA NotNone == \A x \in [Rated -> Nat] : x # None
<1> SUFFICES ASSUME NEW x \in [Rated -> Nat], x = None PROVE FALSE
  OBVIOUS
<1>1. DOMAIN x = Rated /\ DOMAIN None = {"none"}
  BY DEF None
<1>2. "drops" \in Rated /\ "drops" \notin {"none"}
  BY DEF Rated
<1> QED BY <1>1, <1>2

LEMMA LastNat ==
    ASSUME RateTypes, NEW f \in Rated
    PROVE  Last(f) \in Nat
  BY DEF RateTypes, Last

\* What Next is to the rates: counters grow, or the producer or the sampler
\* takes a step.
LEMMA RateCases ==
    ASSUME RecordOK, RecordOK', [Next]_vars
    PROVE  \/ /\ \A f \in Fields : total[f] <= total'[f]
              /\ UNCHANGED <<prodVars, sampler, cache, pointVars>>
           \/ ProducerDrops \/ Heartbeat \/ Disconnect \/ SamplerStep
<1>1. \A f \in Fields : total[f] \in Nat
  BY DEF RecordOK
<1>2. ASSUME NEW h \in Handlers, Record(h)
      PROVE  /\ \A f \in Fields : total[f] <= total'[f]
             /\ UNCHANGED <<prodVars, sampler, cache, pointVars>>
  <2>1. UNCHANGED <<prodVars, sampler, cache, pointVars>>
    BY <1>2 DEF Record
  <2>2. \/ UNCHANGED total
        \/ \E g \in Fields : total' = [total EXCEPT ![g] = @ + 1]
    BY <1>2, RecordCases, FieldNames DEF Counted
  <2>3. ASSUME NEW g \in Fields, total' = [total EXCEPT ![g] = @ + 1], NEW f \in Fields
        PROVE  total[f] <= total'[f]
    <3>1. total'[f] = total[f] \/ total'[f] = total[f] + 1
      BY <2>3 DEF RecordOK
    <3> QED BY <1>1, <3>1
  <2> QED BY <1>1, <2>1, <2>2, <2>3
<1>3. ASSUME UNCHANGED <<total, prodVars, sampler, cache, pointVars>>
      PROVE  /\ \A f \in Fields : total[f] <= total'[f]
             /\ UNCHANGED <<prodVars, sampler, cache, pointVars>>
  BY <1>1, <1>3
<1>4. ASSUME NEW h \in Handlers, NEW steps, Begin(h, steps)
      PROVE  UNCHANGED <<total, prodVars, sampler, cache, pointVars>>
  BY <1>4 DEF Begin
<1>5. DrainTicks => UNCHANGED <<total, prodVars, sampler, cache, pointVars>>
  BY DEF DrainTicks
<1>6. UNCHANGED vars => UNCHANGED <<total, prodVars, sampler, cache, pointVars>>
  BY DEF vars, recordVars
<1> QED BY <1>2, <1>3, <1>4, <1>5, <1>6 DEF Next, Report, Assigned

LEMMA StartStep ==
    ASSUME RateTypes, Start
    PROVE  /\ SamplerOK' /\ sampler.at = "idle" /\ Loaded("drops")'
           /\ sampler'.snap["drops"] = producer.hb_drops
           /\ \A f \in Fields : ~Loaded(f)'
<1>1. PICK s : s = [drops |-> producer.hb_drops]
  OBVIOUS
<1>2. DOMAIN s = {"drops"} /\ s["drops"] = producer.hb_drops
  BY <1>1
<1>3. s \in [{"drops"} -> Nat]
  BY <1>1 DEF RateTypes
<1>4. sampler' = [at |-> "load", snap |-> s] /\ sampler.at = "idle"
  BY <1>1 DEF Start
<1>5. sampler'.at = "load" /\ sampler'.snap = s
  BY <1>4
<1>6. SamplerOK'
  BY <1>2, <1>3, <1>4, <1>5 DEF SamplerOK, Prefixes
<1> QED BY <1>2, <1>4, <1>5, <1>6, RatedAre DEF Loaded

LEMMA LoadStep ==
    ASSUME RateTypes, RecordOK, Load
    PROVE  \E f \in Fields :
              /\ SamplerOK' /\ sampler.at # "idle" /\ sampler'.at # "idle"
              /\ DOMAIN sampler'.snap = DOMAIN sampler.snap \cup {f}
              /\ f \notin DOMAIN sampler.snap
              /\ sampler'.snap[f] = total[f]
              /\ \A g \in DOMAIN sampler.snap : sampler'.snap[g] = sampler.snap[g]
<1>1. DOMAIN Loads = {1, 2, 3} /\ Loads[1] = "transfers" /\ Loads[2] = "batches"
      /\ Loads[3] = "failures" /\ Len(Loads) = 3
  BY DEF Loads
<1>2. PICK k \in DOMAIN Loads :
          /\ Loads[k] \notin DOMAIN sampler.snap
          /\ \A j \in 1..k - 1 : Loads[j] \in DOMAIN sampler.snap
          /\ sampler' = [at   |-> IF k = Len(Loads) THEN "done" ELSE "load",
                         snap |-> [f \in DOMAIN sampler.snap \cup {Loads[k]} |->
                                     IF f = Loads[k] THEN total[f]
                                     ELSE sampler.snap[f]]]
  BY DEF Load
<1>3. PICK f : f = Loads[k]
  OBVIOUS
<1>4. PICK D : D = DOMAIN sampler.snap
  OBVIOUS
<1>5. sampler.at = "load" /\ D \in Prefixes /\ sampler.snap \in [D -> Nat]
  BY <1>4 DEF RateTypes, SamplerOK, Load
<1>6. f \in Fields /\ f \notin D /\ total[f] \in Nat
  BY <1>1, <1>2, <1>3, <1>4, FieldNames DEF RecordOK
<1>7. PICK s : s = [g \in D \cup {f} |-> IF g = f THEN total[g] ELSE sampler.snap[g]]
  OBVIOUS
<1>8. /\ DOMAIN s = D \cup {f} /\ s \in [D \cup {f} -> Nat] /\ s[f] = total[f]
      /\ \A g \in D : s[g] = sampler.snap[g]
  BY <1>5, <1>6, <1>7
<1>9. PICK at : at = IF k = Len(Loads) THEN "done" ELSE "load"
  OBVIOUS
<1>10. sampler' = [at |-> at, snap |-> s]
  BY <1>2, <1>3, <1>4, <1>7, <1>9
<1>11. sampler'.at = at /\ sampler'.snap = s
  BY <1>10
<1>12. \/ at = "load" /\ D \cup {f} \in Prefixes
       \/ at = "done" /\ D \cup {f} = Rated
  <2>1. CASE k = 1
    BY <1>1, <1>3, <1>5, <1>6, <1>9, <2>1 DEF Prefixes
  <2>2. CASE k = 2
    <3>1. Loads[1] \in D
      BY <1>2, <1>4, <2>2
    <3> QED BY <1>1, <1>3, <1>5, <1>6, <1>9, <2>2, <3>1 DEF Prefixes
  <2>3. CASE k = 3
    <3>1. Loads[1] \in D /\ Loads[2] \in D
      BY <1>2, <1>4, <2>3
    <3> QED BY <1>1, <1>3, <1>5, <1>6, <1>9, <2>3, <3>1 DEF Prefixes, Rated
  <2> QED BY <1>1, <2>1, <2>2, <2>3
<1>13. SamplerOK'
  <2>1. DOMAIN sampler'.snap = D \cup {f} /\ sampler'.snap \in [DOMAIN sampler'.snap -> Nat]
    BY <1>8, <1>11
  <2> QED BY <1>10, <1>11, <1>12, <2>1 DEF SamplerOK
<1> QED BY <1>4, <1>5, <1>6, <1>8, <1>11, <1>12, <1>13

LEMMA StoreStep ==
    ASSUME RateTypes, Store
    PROVE  /\ SamplerOK' /\ cache' \in [Rated -> Nat] /\ sampler'.snap = sampler.snap
           /\ sampler.at # "idle" /\ sampler'.at # "idle"
<1>1. /\ sampler = [at |-> "done", snap |-> sampler.snap] /\ sampler.at = "done"
      /\ sampler.snap \in [Rated -> Nat] /\ DOMAIN sampler.snap = Rated
  BY DEF RateTypes, SamplerOK, Store
<1>2. sampler' = [at |-> "record", snap |-> sampler.snap]
  BY <1>1 DEF Store
<1>3. sampler'.at = "record" /\ sampler'.snap = sampler.snap
  BY <1>2
<1> QED BY <1>1, <1>2, <1>3 DEF SamplerOK, Store

LEMMA RecordStep ==
    ASSUME RateTypes, NEW advanced \in BOOLEAN, RecordRates(advanced),
           last = None => \A f \in Rated : shown[f] = 0
    PROVE  /\ SamplerOK' /\ sampler'.at = "idle" /\ last' \in [Rated -> Nat]
           /\ \A f \in Rated : Loaded(f) /\ sampler.snap[f] \in Nat
           /\ \A f \in Rated : Last(f)' = sampler.snap[f]
           /\ \E skip \in BOOLEAN :
                 /\ still' = (still \/ skip)
                 /\ shown' = [f \in Rated |-> shown[f] +
                       IF skip THEN 0 ELSE saturating_sub(sampler.snap[f], Last(f))]
<1>1. /\ sampler.at = "record" /\ sampler.snap \in [Rated -> Nat]
      /\ DOMAIN sampler.snap = Rated
  BY DEF RateTypes, SamplerOK, RecordRates
<1>2. sampler' = [at |-> "idle"] /\ last' = sampler.snap
  BY DEF RecordRates
<1>3. SamplerOK' /\ sampler'.at = "idle"
  BY <1>2 DEF SamplerOK
<1>4. last' # None
  BY <1>1, <1>2, NotNone
<1>5. \A f \in Rated : Last(f)' = sampler.snap[f]
  BY <1>2, <1>4 DEF Last
<1>6. \A f \in Rated : Loaded(f) /\ sampler.snap[f] \in Nat
  BY <1>1 DEF Loaded
<1>7. PICK skip \in BOOLEAN : skip = (last # None /\ ~advanced)
  OBVIOUS
<1>8. still' = (still \/ skip)
  BY <1>7 DEF RecordRates
<1>9. shown' = [f \in Rated |-> shown[f] +
                  IF skip THEN 0 ELSE saturating_sub(sampler.snap[f], Last(f))]
  <2>1. CASE last = None
    <3>1. shown' = sampler.snap /\ ~skip
      BY <1>7, <2>1 DEF RecordRates
    <3>2. \A f \in Rated : shown[f] + saturating_sub(sampler.snap[f], Last(f)) = sampler.snap[f]
      BY <1>1, <2>1 DEF Last, saturating_sub
    <3> QED BY <1>1, <3>1, <3>2
  <2>2. CASE last # None
    <3>1. shown' = [f \in Rated |-> shown[f] + rates(advanced)[f]]
      BY <2>2 DEF RecordRates
    <3>2. \A f \in Rated : rates(advanced)[f] =
             IF skip THEN 0 ELSE saturating_sub(sampler.snap[f], Last(f))
      BY <1>7, <2>2 DEF rates, Zero, Last
    <3> QED BY <3>1, <3>2
  <2> QED BY <2>1, <2>2
<1> QED BY <1>1, <1>2, <1>3, <1>5, <1>6, <1>7, <1>8, <1>9

LEMMA RateTypesNext ==
    ASSUME RateTypes, RecordOK, RecordOK', [Next]_vars,
           last = None => \A f \in Rated : shown[f] = 0
    PROVE  RateTypes'
<1>1. CASE UNCHANGED <<prodVars, sampler, cache, pointVars>>
  BY <1>1 DEF RateTypes, SamplerOK, prodVars, pointVars
<1>2. CASE ProducerDrops \/ Heartbeat \/ Disconnect
  <2>1. UNCHANGED <<sampler, cache, pointVars>>
    BY <1>2 DEF ProducerDrops, Heartbeat, Disconnect
  <2>2. SamplerOK'
    BY <2>1 DEF RateTypes, SamplerOK
  <2>3. producer' \in [up : BOOLEAN, hb_drops : Nat] /\ drops' \in Nat /\ losses' \in Nat
    <3>1. drops \in Nat /\ losses \in Nat /\ producer \in [up : BOOLEAN, hb_drops : Nat]
      BY DEF RateTypes
    <3>2. CASE ProducerDrops
      BY <3>1, <3>2 DEF ProducerDrops
    <3>3. CASE Heartbeat
      BY <3>1, <3>3 DEF Heartbeat
    <3>4. CASE Disconnect
      BY <3>1, <3>4 DEF Disconnect
    <3> QED BY <1>2, <3>2, <3>3, <3>4
  <2> QED BY <2>1, <2>2, <2>3 DEF RateTypes, pointVars
<1>3. CASE Start \/ Load \/ Store
  <2>1. SamplerOK' /\ (cache' = cache \/ cache' \in [Rated -> Nat])
    BY <1>3, StartStep, LoadStep, StoreStep DEF Start, Load
  <2>2. UNCHANGED <<prodVars, pointVars>>
    BY <1>3 DEF Start, Load, Store
  <2> QED BY <2>1, <2>2 DEF RateTypes, prodVars, pointVars
<1>4. ASSUME NEW advanced \in BOOLEAN, RecordRates(advanced) PROVE RateTypes'
  <2>1. UNCHANGED <<prodVars, cache>>
    BY <1>4 DEF RecordRates
  <2>2. SamplerOK' /\ last' \in [Rated -> Nat]
    BY <1>4, RecordStep
  <2>3. PICK skip \in BOOLEAN :
           /\ still' = (still \/ skip)
           /\ shown' = [f \in Rated |-> shown[f] +
                 IF skip THEN 0 ELSE saturating_sub(sampler.snap[f], Last(f))]
    BY <1>4, RecordStep
  <2>4. \A f \in Rated : saturating_sub(sampler.snap[f], Last(f)) \in Nat
    <3>1. \A f \in Rated : sampler.snap[f] \in Nat
      BY <1>4, RecordStep
    <3> QED BY <3>1, LastNat DEF saturating_sub
  <2>5. shown' \in [Rated -> Nat] /\ still' \in BOOLEAN
    BY <2>3, <2>4 DEF RateTypes
  <2> QED BY <2>1, <2>2, <2>5 DEF RateTypes, prodVars
<1> QED BY <1>1, <1>2, <1>3, <1>4, RateCases DEF SamplerStep

LEMMA RisesNext ==
    ASSUME RateTypes, RecordOK, RecordOK', [Next]_vars, NEW f \in Fields, Rises(f),
           last = None => \A g \in Rated : shown[g] = 0
    PROVE  Rises(f)'
<1>1. f \in Rated /\ f # "drops" /\ total[f] \in Nat /\ total'[f] \in Nat
      /\ Last(f) \in Nat /\ shown[f] \in Nat
  BY RatedAre, LastNat DEF RecordOK, RateTypes
<1>2. Loaded(f) => sampler.snap[f] \in Nat
  BY DEF RateTypes, SamplerOK, Loaded
<1>3. ASSUME UNCHANGED <<sampler, pointVars>>, total[f] <= total'[f]
      PROVE  Rises(f)'
  <2>1. Last(f)' = Last(f) /\ Loaded(f)' = Loaded(f) /\ sampler' = sampler
        /\ shown' = shown /\ still' = still
    BY <1>3 DEF Last, Loaded, pointVars
  <2>2. Last(f) <= total'[f] /\ (Loaded(f) => sampler.snap[f] <= total'[f])
    BY <1>1, <1>2, <1>3 DEF Rises
  <2> QED BY <2>1, <2>2 DEF Rises
<1>4. ASSUME Start \/ Load \/ Store PROVE Rises(f)'
  <2>1. UNCHANGED <<total, pointVars>>
    BY <1>4 DEF Start, Load, Store, recordVars
  <2>2. Last(f)' = Last(f) /\ total' = total /\ shown' = shown /\ still' = still
    BY <2>1 DEF Last, pointVars
  <2>3. \/ ~Loaded(f)'
        \/ Loaded(f) /\ sampler'.snap[f] = sampler.snap[f]
        \/ sampler'.snap[f] = total[f]
    <3>1. CASE Start
      BY <3>1, StartStep
    <3>2. CASE Load
      BY <3>2, LoadStep DEF Loaded
    <3>3. CASE Store
      BY <3>3, StoreStep DEF Loaded
    <3> QED BY <1>4, <3>1, <3>2, <3>3
  <2> QED BY <1>1, <2>2, <2>3 DEF Rises
<1>5. ASSUME NEW advanced \in BOOLEAN, RecordRates(advanced) PROVE Rises(f)'
  <2>1. total' = total
    BY <1>5 DEF RecordRates, recordVars
  <2>2. PICK skip \in BOOLEAN :
           /\ still' = (still \/ skip)
           /\ shown' = [g \in Rated |-> shown[g] +
                 IF skip THEN 0 ELSE saturating_sub(sampler.snap[g], Last(g))]
    BY <1>5, RecordStep
  <2>3. Loaded(f) /\ sampler.snap[f] \in Nat /\ Last(f)' = sampler.snap[f] /\ ~Loaded(f)'
    <3>1. sampler'.at = "idle"
      BY <1>5, RecordStep
    <3> QED BY <1>1, <1>5, <3>1, RecordStep DEF Loaded
  <2>4. shown'[f] = shown[f] + IF skip THEN 0 ELSE saturating_sub(sampler.snap[f], Last(f))
    BY <1>1, <2>2
  <2>5. Last(f) <= sampler.snap[f] /\ sampler.snap[f] <= total[f] /\ shown[f] <= Last(f)
        /\ (~still => shown[f] = Last(f))
    BY <2>3 DEF Rises
  <2>6. saturating_sub(sampler.snap[f], Last(f)) = sampler.snap[f] - Last(f)
    BY <1>1, <2>3, <2>5 DEF saturating_sub
  <2>7. shown'[f] <= sampler.snap[f] /\ (~skip /\ ~still => shown'[f] = sampler.snap[f])
    BY <1>1, <2>3, <2>4, <2>5, <2>6
  <2> QED BY <2>1, <2>2, <2>3, <2>5, <2>7 DEF Rises
<1>6. CASE ProducerDrops \/ Heartbeat \/ Disconnect
  <2>1. UNCHANGED <<total, sampler, pointVars>>
    BY <1>6 DEF ProducerDrops, Heartbeat, Disconnect, recordVars
  <2> QED BY <1>1, <1>3, <2>1
<1> QED BY <1>3, <1>4, <1>5, <1>6, RateCases DEF SamplerStep

\* The arithmetic of `drops * losses`, which the provers see as one number.
LEMMA Products ==
    ASSUME NEW d \in Nat, NEW n \in Nat
    PROVE  /\ d * n \in Nat /\ d * (n + 1) = d * n + d
           /\ (d + 1) * n = d * n + n /\ (d + 1) * (n + 1) = d * n + n + d + 1
           /\ d * 0 = 0
  OBVIOUS

LEMMA FallsNext ==
    ASSUME RateTypes, RecordOK, RecordOK', [Next]_vars, DropsFall,
           last = None => \A g \in Rated : shown[g] = 0
    PROVE  DropsFall'
<1>1. PICK D \in Nat, L \in Nat, hb \in Nat, l \in Nat, s \in Nat, sh \in Nat :
         /\ D = drops /\ L = losses /\ hb = producer.hb_drops /\ l = Last("drops")
         /\ s = Taken /\ sh = shown["drops"]
  <2>1. Last("drops") \in Nat /\ shown["drops"] \in Nat
    BY RatedAre, LastNat DEF RateTypes
  <2>2. Loaded("drops") => sampler.snap["drops"] \in Nat
    BY DEF RateTypes, SamplerOK, Loaded
  <2>3. Taken \in Nat
    BY <2>2 DEF Taken
  <2>4. drops \in Nat /\ losses \in Nat /\ producer.hb_drops \in Nat
    BY DEF RateTypes
  <2> QED BY <2>1, <2>3, <2>4
<1>2. PICK p \in Nat :
         /\ D * L = p /\ D * (L + 1) = p + D
         /\ (D + 1) * L = p + L /\ (D + 1) * (L + 1) = p + L + D + 1
  BY <1>1, Products
<1>3. still \in BOOLEAN /\ producer.up \in BOOLEAN /\ Loaded("drops") \in BOOLEAN
  BY DEF RateTypes, Loaded
<1>4. /\ hb <= D /\ s <= D /\ l <= D
      /\ producer.up => /\ l <= hb /\ s <= hb /\ sh <= p + l
                        /\ s < l /\ Loaded("drops") => sh <= p + s
                        /\ L = 0 => (Loaded("drops") => l <= s) /\ (~still => sh = l)
      /\ ~producer.up => /\ hb = 0 /\ sh <= p + D
                         /\ Loaded("drops") => sh + saturating_sub(s, l) <= p + D
  BY <1>1, <1>2 DEF DropsFall, Falls
<1>5. ASSUME UNCHANGED <<sampler, pointVars>>
      PROVE  /\ Last("drops")' = l /\ Taken' = s /\ Loaded("drops")' = Loaded("drops")
             /\ shown'["drops"] = sh /\ still' = still
  BY <1>1, <1>5 DEF Last, Taken, Loaded, pointVars
<1>6. CASE UNCHANGED <<prodVars, sampler, pointVars>>
  BY <1>1, <1>5, <1>6 DEF DropsFall, Falls, prodVars
<1>7. CASE ProducerDrops
  <2>1. UNCHANGED <<sampler, pointVars, producer, losses>> /\ drops' = D + 1
    BY <1>1, <1>7 DEF ProducerDrops
  <2>2. /\ producer'.hb_drops = hb /\ producer'.up = producer.up
        /\ drops' * losses' = p + L /\ drops' * (losses' + 1) = p + L + D + 1
        /\ drops' = D + 1 /\ losses' = L
    BY <1>1, <1>2, <2>1
  <2> QED BY <1>4, <1>5, <2>1, <2>2 DEF DropsFall, Falls, saturating_sub
<1>8. CASE Heartbeat
  <2>1. UNCHANGED <<sampler, pointVars, drops>>
    BY <1>8 DEF Heartbeat
  <2>2. producer'.hb_drops = D /\ producer'.up /\ drops' = D
        /\ losses' = IF producer.up THEN L ELSE L + 1
    BY <1>1, <1>8 DEF Heartbeat
  <2>3. CASE producer.up
    <3>1. losses' = L /\ drops' * losses' = p
      BY <1>2, <2>2, <2>3
    <3> QED BY <1>4, <1>5, <2>1, <2>2, <2>3, <3>1 DEF DropsFall, Falls
  <2>4. CASE ~producer.up
    <3>1. losses' = L + 1 /\ drops' * losses' = p + D /\ losses' # 0
      BY <1>2, <2>2, <2>4
    <3> QED BY <1>4, <1>5, <2>1, <2>2, <2>4, <3>1 DEF DropsFall, Falls
  <2> QED BY <1>3, <2>3, <2>4
<1>9. CASE Disconnect
  <2>1. UNCHANGED <<sampler, pointVars, drops, losses>>
    BY <1>9 DEF Disconnect
  <2>2. /\ producer.up /\ producer'.hb_drops = 0 /\ ~producer'.up
        /\ drops' = D /\ losses' = L /\ drops' * (losses' + 1) = p + D
    BY <1>1, <1>2, <1>9 DEF Disconnect
  <2>3. Loaded("drops") => sh + saturating_sub(s, l) <= p + D
    BY <1>4, <2>2 DEF saturating_sub
  <2>4. sh <= p + D
    BY <1>4, <2>2
  <2> QED BY <1>4, <1>5, <2>1, <2>2, <2>3, <2>4 DEF DropsFall, Falls
<1>10. ASSUME Start \/ Load \/ Store
       PROVE  /\ Last("drops")' = l /\ producer'.hb_drops = hb /\ producer'.up = producer.up
              /\ drops' = D /\ losses' = L /\ drops' * losses' = p
              /\ drops' * (losses' + 1) = p + D
              /\ shown'["drops"] = sh /\ still' = still
  <2>1. UNCHANGED <<prodVars, pointVars>>
    BY <1>10 DEF Start, Load, Store
  <2> QED BY <1>1, <1>2, <2>1 DEF prodVars, pointVars, Last
<1>11. CASE Start
  <2>1. Taken' = hb /\ Loaded("drops")'
    BY <1>1, <1>11, StartStep DEF Taken
  <2> QED BY <1>3, <1>4, <1>10, <1>11, <2>1 DEF DropsFall, Falls, saturating_sub
<1>12. CASE Load \/ Store
  <2>1. Loaded("drops") /\ Loaded("drops")' /\ Taken' = s
    <3>1. sampler.at # "idle" /\ "drops" \in DOMAIN sampler.snap
      <4>1. sampler.at = "load" \/ sampler.at = "done"
        BY <1>12 DEF Load, Store
      <4> QED BY <4>1 DEF RateTypes, SamplerOK, Prefixes, Rated
    <3>2. CASE Load
      BY <1>1, <3>1, <3>2, LoadStep DEF Taken, Loaded
    <3>3. CASE Store
      BY <1>1, <3>1, <3>3, StoreStep DEF Taken, Loaded
    <3> QED BY <1>12, <3>2, <3>3
  <2> QED BY <1>4, <1>10, <1>12, <2>1 DEF DropsFall, Falls
<1>13. ASSUME NEW advanced \in BOOLEAN, RecordRates(advanced) PROVE DropsFall'
  <2>1. UNCHANGED prodVars
    BY <1>13 DEF RecordRates
  <2>2. /\ producer'.hb_drops = hb /\ producer'.up = producer.up
        /\ drops' = D /\ losses' = L /\ drops' * losses' = p
        /\ drops' * (losses' + 1) = p + D
    BY <1>1, <1>2, <2>1 DEF prodVars
  <2>3. "drops" \in Rated
    BY DEF Rated
  <2>4. Loaded("drops") /\ Last("drops")' = s
    BY <1>1, <1>13, <2>3, RecordStep DEF Taken
  <2>5. ~Loaded("drops")' /\ Taken' = 0
    <3>1. sampler'.at = "idle"
      BY <1>13, RecordStep
    <3> QED BY <3>1 DEF Loaded, Taken
  <2>6. PICK skip \in BOOLEAN :
           /\ still' = (still \/ skip)
           /\ shown' = [g \in Rated |-> shown[g] +
                 IF skip THEN 0 ELSE saturating_sub(sampler.snap[g], Last(g))]
    BY <1>13, RecordStep
  <2>7. shown'["drops"] = sh + IF skip THEN 0 ELSE saturating_sub(s, l)
    BY <1>1, <2>3, <2>4, <2>6 DEF Taken
  <2>8. CASE producer.up
    <3>1. /\ shown'["drops"] <= p + s
          /\ L = 0 => (~still' => shown'["drops"] = s)
      BY <1>3, <1>4, <2>4, <2>6, <2>7, <2>8 DEF saturating_sub
    <3> QED BY <1>4, <2>2, <2>4, <2>5, <2>8, <3>1 DEF DropsFall, Falls
  <2>9. CASE ~producer.up
    <3>1. shown'["drops"] <= p + D
      BY <1>4, <2>4, <2>7, <2>9 DEF saturating_sub
    <3> QED BY <1>4, <2>2, <2>4, <2>5, <2>9, <3>1 DEF DropsFall, Falls
  <2> QED BY <1>3, <2>8, <2>9
<1> QED BY <1>6, <1>7, <1>8, <1>9, <1>11, <1>12, <1>13, RateCases DEF SamplerStep

LEMMA RateInit == Init => RateInv
<1> SUFFICES ASSUME Init PROVE RateInv
  OBVIOUS
<1>1. RecordOK
  BY CountInit DEF CountInv
<1>2. last = None /\ \A f \in Rated : shown[f] = 0
  BY DEF Init, Zero
<1>3. RateTypes
  BY DEF Init, RateTypes, SamplerOK, Zero
<1>4. \A f \in Rated : Last(f) = 0 /\ ~Loaded(f)
  BY <1>2 DEF Last, Loaded, Init
<1>5. \A f \in Fields : Rises(f)
  <2>1. \A f \in Fields : total[f] = 0 /\ f \in Rated
    BY RatedAre DEF Init, Zero
  <2> QED BY <1>2, <1>4, <2>1 DEF Rises
<1>6. DropsFall
  <2>1. "drops" \in Rated /\ Taken = 0 /\ producer.hb_drops = 0 /\ producer.up
        /\ drops = 0 /\ losses = 0 /\ drops * losses = 0
    BY <1>4 DEF Rated, Taken, Init
  <2> QED BY <1>2, <1>4, <2>1 DEF DropsFall, Falls
<1> QED BY <1>1, <1>2, <1>3, <1>5, <1>6 DEF RateInv

LEMMA RateNext == CountInv /\ RateInv /\ [Next]_vars => RateInv'
<1> SUFFICES ASSUME CountInv, RateInv, [Next]_vars PROVE RateInv'
  OBVIOUS
<1>1. RecordOK /\ RecordOK'
  BY CountNext DEF CountInv
<1>2. RateTypes'
  BY <1>1, RateTypesNext DEF RateInv
<1>3. \A f \in Fields : Rises(f)'
  BY <1>1, RisesNext DEF RateInv
<1>4. DropsFall'
  BY <1>1, FallsNext DEF RateInv
<1>5. last' = None => \A f \in Rated : shown'[f] = 0
  <2>1. \/ UNCHANGED pointVars
        \/ \E advanced \in BOOLEAN : RecordRates(advanced)
    BY <1>1, RateCases DEF SamplerStep, ProducerDrops, Heartbeat, Disconnect, Start, Load, Store
  <2>2. CASE UNCHANGED pointVars
    BY <2>2 DEF RateInv, pointVars
  <2>3. ASSUME NEW advanced \in BOOLEAN, RecordRates(advanced) PROVE last' # None
    BY <2>3, RecordStep, NotNone DEF RateInv
  <2> QED BY <2>1, <2>2, <2>3
<1> QED BY <1>1, <1>2, <1>3, <1>4, <1>5 DEF RateInv

\* The points of MetricsHistory add up: what their rates show is never more
\* than what the counters counted between the first record and the last, and
\* all of it while the wall clock advances from record to record.  Drops, which
\* leave with a producer and come back with it, are shown at most once more for
\* every time it reconnects.
THEOREM RatesAddUp == Spec => []RatesHonest
<1>1. ASSUME RateInv PROVE RatesHonest
  <2> SUFFICES ASSUME last # None PROVE RatesHonest
    BY DEF RatesHonest
  <2>1. Rated \ {"drops"} = Fields
    BY RatedAre
  <2>2. \A f \in Rated : Last(f) = last[f]
    BY DEF Last
  <2>3. \A f \in Fields : f \in Rated /\ Rises(f)
    BY <1>1, RatedAre DEF RateInv
  <2>4. /\ \A f \in Rated \ {"drops"} : shown[f] <= last[f]
        /\ ~still => \A f \in Rated \ {"drops"} : shown[f] = last[f]
    BY <2>1, <2>2, <2>3 DEF Rises
  <2>5. PICK l : l = last["drops"] /\ Last("drops") = l
    BY <2>2 DEF Rated
  <2>6. l \in Nat /\ drops \in Nat /\ losses \in Nat /\ shown["drops"] \in Nat
        /\ producer.up \in BOOLEAN /\ still \in BOOLEAN
    BY <1>1, <2>5 DEF RateInv, RateTypes, Rated
  <2>7. ~still /\ losses = 0 /\ producer.up => shown["drops"] = l
    BY <1>1, <2>5 DEF RateInv, DropsFall, Falls
  <2>8. PICK p \in Nat : drops * losses = p /\ drops * (losses + 1) = p + drops
    BY <2>6, Products
  <2>9. shown["drops"] <= p + drops
    <3>1. l <= drops /\ (producer.up => shown["drops"] <= p + l)
      BY <1>1, <2>5, <2>8 DEF RateInv, DropsFall, Falls
    <3>2. ~producer.up => shown["drops"] <= p + drops
      BY <1>1, <2>8 DEF RateInv, DropsFall, Falls
    <3> QED BY <2>6, <2>8, <3>1, <3>2
  <2> QED BY <2>4, <2>5, <2>7, <2>8, <2>9 DEF RatesHonest
<1>2. Init => CountInv /\ RateInv
  BY CountInit, RateInit
<1>3. CountInv /\ RateInv /\ [Next]_vars => (CountInv /\ RateInv)'
  BY CountNext, RateNext
<1> QED BY <1>1, <1>2, <1>3, PTL DEF Spec

\* The counters, the ticks, the cache and the points have the types of their
\* structs, and the TickBuffer keeps to its capacity.
THEOREM MetricsTypes == Spec => []TypeOK
<1>1. ASSUME TickInv, RateInv PROVE TypeOK
  <2>1. /\ total \in [Fields -> Nat] /\ shown \in [Rated -> Nat]
        /\ cache = None \/ cache \in [Rated -> Nat]
        /\ last = None \/ last \in [Rated -> Nat]
    BY <1>1 DEF RateInv, RecordOK, RateTypes
  <2>2. ticks \in Seq([id : 1..Pushed, phase : {"assign", "deliver", "fail"}])
    BY <1>1 DEF TickInv, Ticks, Phases
  <2>3. Len(ticks) <= TickCap
    BY <1>1 DEF TickInv
  <2>4. /\ sampler.at \in {"idle", "load", "done", "record"}
        /\ sampler.at \in {"done", "record"} => sampler.snap \in [Rated -> Nat]
    BY <1>1 DEF RateInv, RateTypes, SamplerOK
  <2> QED BY <2>1, <2>2, <2>3, <2>4 DEF TypeOK
<1>2. Init => CountInv /\ TickInv /\ RateInv
  BY CountInit, TickInit, RateInit
<1>3. CountInv /\ TickInv /\ RateInv /\ [Next]_vars => (CountInv /\ TickInv /\ RateInv)'
  BY CountNext, TickNext, RateNext
<1> QED BY <1>1, <1>2, <1>3, PTL DEF Spec
=============================================================================
