-------------------------- MODULE DispatcherProofs --------------------------
(***************************************************************************)
(* Theorems about Dispatcher, for every set of jobs and every capacity.    *)
(*                                                                         *)
(* The properties hold together or not at all: a freed slot keeps the pool *)
(* full only because the job pulled into it holds no slot yet, which is    *)
(* WaitsOnce; the backpressure bound survives fireImmediate only because   *)
(* nobody waits while a slot is free, which is WorkConserving.  IInv is    *)
(* their conjunction, with the finiteness that counting needs.             *)
(***************************************************************************)
EXTENDS Dispatcher, QueueLemmas, FiniteSetTheorems, SequenceTheorems, TLAPS

IInv ==
    /\ TypeOK
    /\ IsFiniteSet(inFlight)
    /\ SlotsAreBounded
    /\ WorkConserving
    /\ BackpressureBound
    /\ WaitsOnce

-----------------------------------------------------------------------------
\* The server starts with an empty pool.
LEMMA InitIInv == Init => IInv
<1> SUFFICES ASSUME Init PROVE IInv
  OBVIOUS
<1>1. /\ Range(<<>>) = {} /\ IsInjective(<<>>)
  BY DEF Range, IsInjective
<1>2. IsFiniteSet({}) /\ Cardinality({}) = 0
  BY FS_EmptySet
<1>3. <<>> \in Seq(Jobs) /\ Len(<<>>) = 0
  BY EmptySeq
<1> QED
  BY <1>1, <1>2, <1>3, CapacityAssumption
  DEF Init, IInv, TypeOK, SlotsAreBounded, WorkConserving, BackpressureBound,
      WaitsOnce, OverflowAt, QUEUE_BACKPRESSURE_MULTIPLIER

\* A submission that takes a free slot.
LEMMA FireStep ==
    ASSUME IInv, NEW j \in Jobs,
           j \notin inFlight \union Range(queue),
           EvaluateSubmission(inFlight, queue) = "fire-immediate",
           FireImmediate(j), UNCHANGED live
    PROVE  IInv'
<1> USE DEF IInv, TypeOK, SlotsAreBounded, WorkConserving, BackpressureBound,
            WaitsOnce
<1>1. Cardinality(inFlight) < Capacity
  BY DEF EvaluateSubmission
<1>2. Cardinality(inFlight) \in Nat /\ Len(queue) \in Nat
  BY FS_CardinalityType, LenProperties
<1>3. queue = <<>> /\ Len(queue) = 0
  BY <1>1, EmptySeq, <1>2, CapacityAssumption
<1>4. /\ inFlight' = inFlight \union {j} /\ IsFiniteSet(inFlight')
      /\ Cardinality(inFlight') = Cardinality(inFlight) + 1
  BY FS_AddElement DEF FireImmediate
<1>5. /\ micro' = Append(micro, j) /\ queue' = queue /\ live' = live
      /\ micro' \in Seq(Jobs)
      /\ Range(micro') = Range(micro) \union {j}
      /\ IsInjective(micro')
  BY AppendRange, AppendProperties DEF FireImmediate
<1>6. Range(queue) = {}
  BY <1>3 DEF Range
<1> QED
  BY <1>1, <1>2, <1>3, <1>4, <1>5, <1>6, CapacityAssumption
  DEF OverflowAt, QUEUE_BACKPRESSURE_MULTIPLIER

\* A submission that joins the queue.
LEMMA EnqueueStep ==
    ASSUME IInv, NEW j \in Jobs,
           j \notin inFlight \union Range(queue),
           EvaluateSubmission(inFlight, queue) = "enqueue",
           Enqueue(j), UNCHANGED live
    PROVE  IInv'
<1> USE DEF IInv, TypeOK, SlotsAreBounded, WorkConserving, BackpressureBound,
            WaitsOnce
<1>1. Cardinality(inFlight) \in Nat /\ Len(queue) \in Nat
  BY FS_CardinalityType, LenProperties
<1>2. /\ Cardinality(inFlight) = Capacity
      /\ Cardinality(inFlight) + Len(queue) < OverflowAt
  BY <1>1, CapacityAssumption
  DEF EvaluateSubmission, OverflowAt, QUEUE_BACKPRESSURE_MULTIPLIER
<1>3. /\ queue' = Append(queue, j) /\ queue' \in Seq(Jobs)
      /\ Len(queue') = Len(queue) + 1
      /\ Range(queue') = Range(queue) \union {j}
      /\ IsInjective(queue')
  BY AppendRange, AppendProperties DEF Enqueue
<1>4. inFlight' = inFlight /\ micro' = micro /\ live' = live
  BY DEF Enqueue
<1> QED
  BY <1>1, <1>2, <1>3, <1>4, CapacityAssumption
  DEF OverflowAt, QUEUE_BACKPRESSURE_MULTIPLIER

\* A microtask starts a run.
LEMMA RunMicrotaskStep ==
    ASSUME IInv, RunMicrotask
    PROVE  IInv'
<1> USE DEF IInv, TypeOK, SlotsAreBounded, WorkConserving, BackpressureBound,
            WaitsOnce
<1>1. /\ Head(micro) \in Jobs /\ Tail(micro) \in Seq(Jobs)
      /\ Range(micro) = {Head(micro)} \union Range(Tail(micro))
      /\ IsInjective(Tail(micro)) /\ Head(micro) \notin Range(Tail(micro))
  BY TailRange, HeadTailProperties DEF RunMicrotask
<1>2. /\ live' = live \union {Head(micro)} /\ micro' = Tail(micro)
      /\ inFlight' = inFlight /\ queue' = queue
  BY DEF RunMicrotask
<1> QED BY <1>1, <1>2

\* A run ends: its slot is freed, or handed to the oldest queued submission.
LEMMA TerminateStep ==
    ASSUME IInv, NEW j \in Jobs, Terminate(j)
    PROVE  IInv'
<1> USE DEF IInv, TypeOK, SlotsAreBounded, WorkConserving, BackpressureBound,
            WaitsOnce
<1>1. /\ j \in inFlight /\ j \in live /\ live' = live \ {j}
      /\ j \notin Range(micro)
  BY DEF Terminate
<1>2. Cardinality(inFlight) \in Nat /\ Len(queue) \in Nat
  BY FS_CardinalityType, LenProperties
<1>3. /\ IsFiniteSet(inFlight \ {j})
      /\ Cardinality(inFlight \ {j}) = Cardinality(inFlight) - 1
  BY <1>1, FS_RemoveElement
<1>4. CASE queue = <<>>
  <2>1. inFlight' = inFlight \ {j} /\ queue' = queue /\ micro' = micro
    BY <1>1, <1>4 DEF Terminate, OnJobTerminal
  <2> QED BY <2>1, <1>1, <1>2, <1>3, <1>4, CapacityAssumption
          DEF OverflowAt, QUEUE_BACKPRESSURE_MULTIPLIER
<1>5. CASE queue # <<>>
  <2> DEFINE n == Head(queue)
  <2>1. /\ inFlight' = (inFlight \ {j}) \union {n}
        /\ queue' = Tail(queue)
        /\ micro' = Append(micro, n)
    BY <1>1, <1>5 DEF Terminate, OnJobTerminal
  <2>2. /\ n \in Jobs /\ Tail(queue) \in Seq(Jobs)
        /\ Len(Tail(queue)) = Len(queue) - 1
        /\ Range(queue) = {n} \union Range(Tail(queue))
        /\ IsInjective(Tail(queue)) /\ n \notin Range(Tail(queue))
    BY <1>5, TailRange, HeadTailProperties
  <2>3. n \notin inFlight /\ n \notin Range(micro)
    BY <2>2
  <2>4. /\ IsFiniteSet(inFlight')
        /\ Cardinality(inFlight') = Cardinality(inFlight)
    <3>1. n \notin inFlight \ {j}
      BY <2>3
    <3>2. /\ IsFiniteSet((inFlight \ {j}) \union {n})
          /\ Cardinality((inFlight \ {j}) \union {n})
                = Cardinality(inFlight \ {j}) + 1
      BY <3>1, <1>3, FS_AddElement
    <3> QED BY <3>2, <2>1, <1>2, <1>3
  <2>5. /\ micro' \in Seq(Jobs) /\ IsInjective(micro')
        /\ Range(micro') = Range(micro) \union {n}
    BY <2>1, <2>2, <2>3, AppendRange, AppendProperties
  <2>6. Cardinality(inFlight) = Capacity
    BY <1>5
  <2> HIDE DEF n
  <2>7. TypeOK' /\ SlotsAreBounded'
    BY <1>1, <2>1, <2>2, <2>4, <2>5, <2>6, CapacityAssumption
  <2>8. WorkConserving' /\ BackpressureBound'
    BY <1>2, <2>1, <2>2, <2>4, <2>6, CapacityAssumption
    DEF OverflowAt, QUEUE_BACKPRESSURE_MULTIPLIER
  <2>9. WaitsOnce'
    BY <1>1, <2>1, <2>2, <2>3, <2>5
  <2> QED BY <2>4, <2>7, <2>8, <2>9
<1> QED BY <1>4, <1>5

\* IInv is inductive.
LEMMA NextIInv == IInv /\ [Next]_vars => IInv'
<1> SUFFICES ASSUME IInv, [Next]_vars PROVE IInv'
  OBVIOUS
<1>1. CASE UNCHANGED vars
  BY <1>1 DEF vars, IInv, TypeOK, SlotsAreBounded, WorkConserving,
              BackpressureBound, WaitsOnce
<1>2. CASE RunMicrotask
  BY <1>2, RunMicrotaskStep
<1>3. ASSUME NEW j \in Jobs, Submit(j) PROVE IInv'
  <2>1. CASE EvaluateSubmission(inFlight, queue) = "fire-immediate"
    BY <1>3, <2>1, FireStep DEF Submit, Route
  <2>2. CASE EvaluateSubmission(inFlight, queue) = "enqueue"
    BY <1>3, <2>2, EnqueueStep DEF Submit, Route
  <2> QED BY <1>3, <2>1, <2>2 DEF Submit, Route
<1>4. ASSUME NEW j \in Jobs, Terminate(j) PROVE IInv'
  BY <1>4, TerminateStep
<1> QED BY <1>1, <1>2, <1>3, <1>4 DEF Next

\* Every reachable state satisfies the inductive invariant.
THEOREM Invariance == Spec => []IInv
BY InitIInv, NextIInv, PTL DEF Spec

\* Type correctness of the dispatcher's state.
THEOREM TypeCorrect == Spec => []TypeOK
<1>1. IInv => TypeOK
  BY DEF IInv
<1> QED BY <1>1, Invariance, PTL

\* At most Capacity runJobs are live or about to start, each in a slot.
THEOREM BoundedSlots == Spec => []SlotsAreBounded
<1>1. IInv => SlotsAreBounded
  BY DEF IInv
<1> QED BY <1>1, Invariance, PTL

\* No slot is idle while a submission waits, the backlog stays below the
\* threshold of the 503 answer, and no job waits twice.
THEOREM QueueDiscipline ==
    Spec => [](WorkConserving /\ BackpressureBound /\ WaitsOnce)
<1>1. IInv => WorkConserving /\ BackpressureBound /\ WaitsOnce
  BY DEF IInv
<1> QED BY <1>1, Invariance, PTL

-----------------------------------------------------------------------------
(* The dispatcher implements the abstract pool (safety part).  The pool     *)
(* counts the jobs that run and wait, the dispatcher the slots: Counted     *)
(* relates the two.                                                         *)

Counted ==
    /\ IsFiniteSet(live)
    /\ Cardinality(live) + Len(micro) = Cardinality(inFlight)

LEMMA InitCounted == Init => Counted
BY FS_EmptySet, EmptySeq DEF Init, Counted

LEMMA NextCounted == IInv /\ Counted /\ [Next]_vars => Counted'
<1> SUFFICES ASSUME IInv, Counted, [Next]_vars PROVE Counted'
  OBVIOUS
<1> USE DEF Counted
<1>0. /\ Cardinality(inFlight) \in Nat /\ Cardinality(live) \in Nat
      /\ Len(micro) \in Nat
      /\ micro \in Seq(Jobs) /\ queue \in Seq(Jobs)
      /\ inFlight = live \union Range(micro)
      /\ IsFiniteSet(inFlight)
      /\ live \intersect Range(micro) = {}
      /\ inFlight \intersect Range(queue) = {}
  BY FS_CardinalityType, LenProperties
  DEF IInv, TypeOK, SlotsAreBounded, WaitsOnce
<1>1. CASE UNCHANGED vars
  BY <1>1 DEF vars
<1>2. CASE RunMicrotask
  <2>1. /\ Len(Tail(micro)) = Len(micro) - 1
        /\ Range(micro) = {Head(micro)} \union Range(Tail(micro))
    BY <1>0, <1>2, HeadTailProperties, TailRange DEF RunMicrotask
  <2>2. Head(micro) \notin live
    BY <1>0, <2>1
  <2>3. /\ IsFiniteSet(live \union {Head(micro)})
        /\ Cardinality(live \union {Head(micro)}) = Cardinality(live) + 1
    BY <2>2, FS_AddElement
  <2> QED BY <1>0, <1>2, <2>1, <2>3 DEF RunMicrotask
<1>3. ASSUME NEW j \in Jobs, Submit(j) PROVE Counted'
  <2>1. CASE FireImmediate(j)
    <3>1. Len(Append(micro, j)) = Len(micro) + 1
      BY <1>0, AppendProperties
    <3>2. Cardinality(inFlight \union {j}) = Cardinality(inFlight) + 1
      BY <1>0, <1>3, FS_AddElement DEF Submit
    <3> QED BY <1>0, <1>3, <2>1, <3>1, <3>2 DEF Submit, FireImmediate
  <2>2. CASE Enqueue(j)
    BY <1>3, <2>2 DEF Submit, Enqueue
  <2> QED BY <1>3, <2>1, <2>2 DEF Submit, Route
<1>4. ASSUME NEW j \in Jobs, Terminate(j) PROVE Counted'
  <2>1. /\ j \in live /\ j \in inFlight /\ live' = live \ {j}
    BY <1>0, <1>4 DEF Terminate
  <2>2. /\ IsFiniteSet(live') /\ Cardinality(live') = Cardinality(live) - 1
    BY <2>1, FS_RemoveElement
  <2>3. /\ IsFiniteSet(inFlight \ {j})
        /\ Cardinality(inFlight \ {j}) = Cardinality(inFlight) - 1
    BY <1>0, <2>1, FS_RemoveElement
  <2>4. CASE queue = <<>>
    <3>1. inFlight' = inFlight \ {j} /\ micro' = micro
      BY <1>4, <2>1, <2>4 DEF Terminate, OnJobTerminal
    <3> QED BY <1>0, <2>2, <2>3, <3>1
  <2>5. CASE queue # <<>>
    <3> DEFINE n == Head(queue)
    <3>1. /\ inFlight' = (inFlight \ {j}) \union {n}
          /\ micro' = Append(micro, n)
      BY <1>4, <2>1, <2>5 DEF Terminate, OnJobTerminal
    <3>2. n \in Range(queue) /\ n \in Jobs
      BY <1>0, <2>5, TailRange, HeadTailProperties
    <3>3. Cardinality(inFlight') = Cardinality(inFlight)
      <4>1. n \notin inFlight \ {j}
        BY <1>0, <3>2
      <4>2. Cardinality((inFlight \ {j}) \union {n})
              = Cardinality(inFlight \ {j}) + 1
        BY <4>1, <2>3, FS_AddElement
      <4> QED BY <1>0, <4>2, <2>3, <3>1
    <3>4. Len(micro') = Len(micro) + 1
      BY <1>0, <3>1, <3>2, AppendProperties
    <3> QED BY <1>0, <2>2, <3>3, <3>4
  <2> QED BY <2>4, <2>5
<1> QED BY <1>1, <1>2, <1>3, <1>4 DEF Next

\* The pool counts with the same Cardinality.
LEMMA SameCardinality == \A S : Pool!Cardinality(S) = Cardinality(S)
BY DEF Pool!Cardinality, Cardinality

\* Every step of the dispatcher is a step of the pool or leaves it as it is:
\* in particular the pull of onJobTerminal moves a job within the line and
\* never past another.
LEMMA PoolStep == IInv /\ Counted /\ [Next]_vars => [Pool!Next]_(Pool!vars)
<1> SUFFICES ASSUME IInv, Counted, [Next]_vars
             PROVE  [Pool!Next]_(Pool!vars)
  OBVIOUS
<1> DEFINE w == micro \o queue
<1>0. /\ micro \in Seq(Jobs) /\ queue \in Seq(Jobs)
      /\ w \in Seq(Jobs) /\ Len(w) = Len(micro) + Len(queue)
      /\ Len(micro) \in Nat /\ Len(queue) \in Nat
      /\ \A i \in 1..Len(w) :
            w[i] = IF i <= Len(micro) THEN micro[i] ELSE queue[i - Len(micro)]
  BY ConcatProperties, LenProperties DEF IInv, TypeOK
<1>1. CASE UNCHANGED vars
  BY <1>1 DEF vars, Pool!vars
<1>2. CASE RunMicrotask
  <2>1. /\ w # <<>> /\ Head(w) = Head(micro)
        /\ Tail(w) = Tail(micro) \o queue
    <3>1. Len(micro) >= 1 /\ Len(w) >= 1
      BY <1>0, <1>2, EmptySeq DEF RunMicrotask
    <3>2. w # <<>>
      BY <3>1, EmptySeq
    <3>3. Head(w) = w[1] /\ Head(micro) = micro[1] /\ w[1] = micro[1]
      BY <1>0, <3>1
    <3>4. /\ Tail(micro) \in Seq(Jobs) /\ Len(Tail(micro)) = Len(micro) - 1
          /\ \A i \in 1..Len(Tail(micro)) : Tail(micro)[i] = micro[i + 1]
          /\ Tail(w) \in Seq(Jobs) /\ Len(Tail(w)) = Len(w) - 1
          /\ \A i \in 1..Len(Tail(w)) : Tail(w)[i] = w[i + 1]
      BY <1>0, <1>2, <3>2, HeadTailProperties DEF RunMicrotask
    <3> DEFINE v == Tail(micro) \o queue
    <3>5. /\ v \in Seq(Jobs) /\ Len(v) = Len(w) - 1
          /\ \A i \in 1..Len(v) :
                v[i] = IF i <= Len(micro) - 1 THEN Tail(micro)[i]
                       ELSE queue[i - (Len(micro) - 1)]
      BY <1>0, <3>1, <3>4, ConcatProperties
    <3>6. \A i \in 1..Len(v) : v[i] = Tail(w)[i]
      <4> SUFFICES ASSUME NEW i \in 1..Len(v) PROVE v[i] = Tail(w)[i]
        OBVIOUS
      <4> HIDE DEF w, v
      <4>1. i + 1 \in 1..Len(w) /\ Tail(w)[i] = w[i + 1]
        BY <1>0, <3>1, <3>4, <3>5
      <4>2. CASE i <= Len(micro) - 1
        BY <1>0, <3>1, <3>4, <3>5, <4>1, <4>2
      <4>3. CASE ~(i <= Len(micro) - 1)
        <5>1. v[i] = queue[i - (Len(micro) - 1)]
          BY <3>5, <4>3
        <5>2. w[i + 1] = queue[(i + 1) - Len(micro)]
          BY <1>0, <4>1, <4>3
        <5>3. i - (Len(micro) - 1) = (i + 1) - Len(micro)
          BY <1>0
        <5> QED BY <4>1, <5>1, <5>2, <5>3
      <4> QED BY <4>2, <4>3
    <3>7. v = Tail(w)
      BY <3>4, <3>5, <3>6, SeqEqual
    <3> QED BY <3>2, <3>3, <3>7
  <2>2. Cardinality(live) < Capacity
    <3>1. Len(micro) >= 1
      BY <1>0, <1>2, EmptySeq DEF RunMicrotask
    <3>2. Cardinality(live) \in Nat /\ Cardinality(inFlight) \in Nat
      BY FS_CardinalityType DEF Counted, IInv
    <3> QED BY <1>0, <3>1, <3>2, CapacityAssumption
            DEF Counted, IInv, SlotsAreBounded
  <2>3. /\ (micro \o queue)' = Tail(w)
        /\ live' = live \union {Head(w)}
    BY <1>2, <2>1 DEF RunMicrotask
  <2> QED BY <2>1, <2>2, <2>3, SameCardinality DEF Pool!Next, Pool!Start
<1>3. ASSUME NEW j \in Jobs, Submit(j)
      PROVE  Pool!Accept(j)
  <2>1. j \notin live /\ \A i \in 1..Len(w) : w[i] # j
    <3>1. j \notin live /\ j \notin Range(micro) /\ j \notin Range(queue)
      BY <1>3 DEF Submit, IInv, SlotsAreBounded
    <3>2. ASSUME NEW i \in 1..Len(w) PROVE w[i] # j
      <4>1. CASE i <= Len(micro)
        BY <1>0, <3>1, <4>1, RangeEquality
      <4>2. CASE ~(i <= Len(micro))
        <5>1. i - Len(micro) \in 1..Len(queue) /\ w[i] = queue[i - Len(micro)]
          BY <1>0, <4>2
        <5> QED BY <1>0, <3>1, <5>1, RangeEquality
      <4> QED BY <4>1, <4>2
    <3> QED BY <3>1, <3>2
  <2>2. /\ Cardinality(live) \in Nat /\ Cardinality(inFlight) \in Nat
        /\ Cardinality(live) + Len(w) = Cardinality(inFlight) + Len(queue)
    BY <1>0, FS_CardinalityType DEF Counted, IInv
  <2>3. CASE /\ EvaluateSubmission(inFlight, queue) = "fire-immediate"
             /\ FireImmediate(j)
    <3>1. Cardinality(inFlight) < Capacity
      BY <2>3 DEF EvaluateSubmission
    <3>2. queue = <<>> /\ Len(queue) = 0
      BY <3>1, EmptySeq, <2>2, CapacityAssumption DEF IInv, WorkConserving
    <3>3. Append(micro, j) \o queue = Append(w, j)
      BY <1>0, <3>2, ConcatEmptySeq, AppendProperties
    <3>4. Cardinality(live) + Len(w) < OverflowAt
      BY <2>2, <3>1, <3>2, CapacityAssumption
      DEF OverflowAt, QUEUE_BACKPRESSURE_MULTIPLIER
    <3>5. /\ (micro \o queue)' = Append(w, j) /\ live' = live
      BY <1>3, <2>3, <3>3 DEF FireImmediate, Submit
    <3> QED BY <2>1, <3>4, <3>5, SameCardinality DEF Pool!Accept
  <2>4. CASE /\ EvaluateSubmission(inFlight, queue) = "enqueue"
             /\ Enqueue(j)
    <3>1. Cardinality(inFlight) + Len(queue) < OverflowAt
      BY <2>2, <1>0, <2>4, CapacityAssumption
      DEF EvaluateSubmission, OverflowAt, QUEUE_BACKPRESSURE_MULTIPLIER
    <3>2. micro \o Append(queue, j) = Append(w, j)
      <4>1. <<j>> \in Seq(Jobs)
        OBVIOUS
      <4>2. /\ Append(queue, j) = queue \o <<j>>
            /\ Append(w, j) = w \o <<j>>
        BY <1>0, AppendIsConcat
      <4> QED BY <1>0, <4>1, <4>2, ConcatAssociative
    <3>3. /\ (micro \o queue)' = Append(w, j) /\ live' = live
      BY <1>3, <2>4, <3>2 DEF Enqueue, Submit
    <3> QED BY <2>1, <2>2, <3>1, <3>3, SameCardinality DEF Pool!Accept
  <2> QED BY <1>3, <2>3, <2>4 DEF Submit, Route
<1>4. ASSUME NEW j \in Jobs, Terminate(j)
      PROVE  Pool!Finish(j)
  <2>1. j \in live /\ live' = live \ {j} /\ j \in inFlight
    BY <1>4 DEF Terminate, IInv, SlotsAreBounded
  <2>2. (micro \o queue)' = micro \o queue
    <3>1. CASE queue = <<>>
      BY <1>4, <2>1, <3>1 DEF Terminate, OnJobTerminal
    <3>2. CASE queue # <<>>
      <4>1. micro' = Append(micro, Head(queue)) /\ queue' = Tail(queue)
        BY <1>4, <2>1, <3>2 DEF Terminate, OnJobTerminal
      <4>2. /\ Head(queue) \in Jobs /\ Tail(queue) \in Seq(Jobs)
            /\ <<Head(queue)>> \in Seq(Jobs)
        BY <1>0, <3>2, HeadTailProperties
      <4>3. Append(micro, Head(queue)) = micro \o <<Head(queue)>>
        BY <1>0, <4>2, AppendIsConcat
      <4>4. <<Head(queue)>> \o Tail(queue) = queue
        <5>1. 1 \in 1..Len(queue) /\ Len(queue) \in 1..Len(queue)
          BY <1>0, <3>2, EmptySeq
        <5>2. SubSeq(queue, 1, Len(queue))
                = <<queue[1]>> \o SubSeq(queue, 1 + 1, Len(queue))
          BY <1>0, <5>1, SubSeqRecursiveFirst
        <5>3. /\ SubSeq(queue, 1, Len(queue)) = queue
              /\ Tail(queue) = SubSeq(queue, 1 + 1, Len(queue))
          BY <1>0, <3>2, SubSeqFull, TailIsSubSeq
        <5> QED BY <5>2, <5>3
      <4> QED BY <1>0, <4>1, <4>2, <4>3, <4>4, ConcatAssociative
    <3> QED BY <3>1, <3>2
  <2> QED BY <2>1, <2>2 DEF Pool!Finish
<1> QED BY <1>1, <1>2, <1>3, <1>4 DEF Next, Pool!Next

\* The dispatcher implements the FIFO pool, fairness aside.
THEOREM PoolRefinement == Spec => Pool!Init /\ [][Pool!Next]_(Pool!vars)
<1>1. Init => Pool!Init
  BY ConcatEmptySeq, EmptySeq DEF Init, Pool!Init
<1> QED
  BY <1>1, InitIInv, NextIInv, InitCounted, NextCounted, PoolStep, PTL DEF Spec
=============================================================================
