----------------------------- MODULE Dispatcher -----------------------------
(***************************************************************************)
(* harness-server/src/dispatcher.ts: concurrency control and FIFO queue of *)
(* the in-process runJob path.                                             *)
(*                                                                         *)
(* inFlight and queue are the fields of ServerCtx with those names.  micro *)
(* is the part of the JavaScript microtask queue that holds the `fire`     *)
(* closures handed to queueMicrotask, and live the jobs whose closure has  *)
(* run and whose runJob has not reported a terminal status yet.            *)
(*                                                                         *)
(* A submission is one step: between the capacity check of the handler     *)
(* (index.ts:1226-1241) and the one that routes the job (index.ts:1379)    *)
(* there is no await, so both see the same state.  A refused submission    *)
(* (503) changes nothing and is not a step; the client may try again.      *)
(*                                                                         *)
(* Environment assumption: a job id is not submitted again while an        *)
(* earlier submission of it waits or runs.  spawnFlowJob draws random ids; *)
(* the HTTP handler takes the client's id and does not look for another    *)
(* job with it.                                                            *)
(***************************************************************************)
EXTENDS Naturals, Sequences, FiniteSets, Functions

CONSTANTS
    Jobs,
    Capacity    \* opts.maxConcurrentJobs, 5 by default

ASSUME CapacityAssumption == Capacity \in Nat

VARIABLES inFlight, queue, micro, live

vars == <<inFlight, queue, micro, live>>

QUEUE_BACKPRESSURE_MULTIPLIER == 2

OverflowAt == Capacity * QUEUE_BACKPRESSURE_MULTIPLIER

Init ==
    /\ inFlight = {}
    /\ queue = <<>>
    /\ micro = <<>>
    /\ live = {}

-----------------------------------------------------------------------------
\* The decision for a new submission, from the set of jobs in flight and the
\* queue of the moment.
EvaluateSubmission(flight, q) ==
    IF Cardinality(flight) < Capacity THEN "fire-immediate"
    ELSE IF Cardinality(flight) + Len(q) >= OverflowAt THEN "reject"
    ELSE "enqueue"

\* fireImmediate: take a slot now, run the closure on a microtask.
FireImmediate(j) ==
    /\ inFlight' = inFlight \union {j}
    /\ micro' = Append(micro, j)
    /\ UNCHANGED queue

Enqueue(j) ==
    /\ queue' = Append(queue, j)
    /\ UNCHANGED <<inFlight, micro>>

\* Bugs to detect: a freed slot goes to nobody, or to the newest submission.
LeaveSlotEmpty(j) ==
    IF j \notin inFlight
    THEN UNCHANGED <<inFlight, queue, micro>>
    ELSE /\ inFlight' = inFlight \ {j}
         /\ UNCHANGED <<queue, micro>>

PullNewest(j) ==
    IF j \notin inFlight
    THEN UNCHANGED <<inFlight, queue, micro>>
    ELSE IF queue = <<>>
    THEN inFlight' = inFlight \ {j} /\ UNCHANGED <<queue, micro>>
    ELSE /\ inFlight' = (inFlight \ {j}) \union {queue[Len(queue)]}
         /\ queue' = SubSeq(queue, 1, Len(queue) - 1)
         /\ micro' = Append(micro, queue[Len(queue)])

\* onJobTerminal: give the slot back and pull the oldest queued submission
\* into it.  A job that holds no slot changes nothing.
OnJobTerminal(j) ==
    IF j \notin inFlight
    THEN UNCHANGED <<inFlight, queue, micro>>
    ELSE IF queue = <<>>
    THEN inFlight' = inFlight \ {j} /\ UNCHANGED <<queue, micro>>
    ELSE /\ inFlight' = (inFlight \ {j}) \union {Head(queue)}
         /\ queue' = Tail(queue)
         /\ micro' = Append(micro, Head(queue))

-----------------------------------------------------------------------------
\* The routing at the end of handleSubmitJob and of spawnFlowJob.
Route(j) ==
    \/ /\ EvaluateSubmission(inFlight, queue) = "fire-immediate"
       /\ FireImmediate(j)
    \/ /\ EvaluateSubmission(inFlight, queue) = "enqueue"
       /\ Enqueue(j)

Submit(j) ==
    /\ j \notin inFlight \union Range(queue)
    /\ Route(j)
    /\ UNCHANGED live

\* The oldest microtask runs: its closure calls executeRun.
RunMicrotask ==
    /\ micro # <<>>
    /\ live' = live \union {Head(micro)}
    /\ micro' = Tail(micro)
    /\ UNCHANGED <<inFlight, queue>>

\* runJob reports a terminal status of j.
Terminate(j) ==
    /\ j \in live
    /\ live' = live \ {j}
    /\ OnJobTerminal(j)

Next == RunMicrotask \/ \E j \in Jobs : Submit(j) \/ Terminate(j)

\* Microtasks always run.  Every run ends: this is what the adapters, the
\* approval timers and the reviewers owe; JobLifecycle looks into it.
Fairness ==
    /\ WF_vars(RunMicrotask)
    /\ \A j \in Jobs : WF_vars(Terminate(j))

Spec == Init /\ [][Next]_vars /\ Fairness

-----------------------------------------------------------------------------
\* The fields of ServerCtx and the microtask queue hold jobs.
TypeOK ==
    /\ inFlight \in SUBSET Jobs
    /\ queue \in Seq(Jobs)
    /\ micro \in Seq(Jobs)
    /\ live \in SUBSET Jobs

\* The runs that are live or about to start hold a slot each, and there are
\* never more slots than Capacity: "at most `capacity` concurrent runJobs".
SlotsAreBounded ==
    /\ inFlight = live \union Range(micro)
    /\ Cardinality(inFlight) <= Capacity

\* No slot stands idle while a submission waits: onJobTerminal hands a freed
\* slot over in the same step, and a submission queues only when none is free.
WorkConserving == queue # <<>> => Cardinality(inFlight) = Capacity

\* Accepted and unfinished jobs never exceed the backpressure threshold that
\* the 503 answer names.
BackpressureBound == Cardinality(inFlight) + Len(queue) <= OverflowAt

\* A job never waits twice, or waits while it holds a slot: it would be run
\* twice by one submission.
WaitsOnce ==
    /\ IsInjective(queue)
    /\ IsInjective(micro)
    /\ inFlight \intersect Range(queue) = {}
    /\ live \intersect Range(micro) = {}

\* The abstract pool: the line is the microtasks followed by the queue.
Pool == INSTANCE FifoPool
            WITH Overflow <- OverflowAt,
                 waiting  <- micro \o queue,
                 running  <- live

\* The dispatcher implements the pool: jobs start in the order of their
\* acceptance, and every freed slot goes to the oldest one.
ImplementsPool == Pool!Spec

\* Every queued submission is started in the end (no starvation).
EveryQueuedJobStarts ==
    \A j \in Jobs : j \in Range(queue) ~> j \in live
=============================================================================
