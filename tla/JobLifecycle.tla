---------------------------- MODULE JobLifecycle ----------------------------
(***************************************************************************)
(* The life of a job inside one harness-server process: the HTTP handlers, *)
(* timers and hooks of harness-server/src/index.ts around runJob and       *)
(* resumeJob of harness-core/src/orchestrator.ts.                          *)
(*                                                                         *)
(* The compiled graph of a job is a box.  While runJob or resumeJob awaits *)
(* graph.invoke, the agents inside it fail, time out or see the            *)
(* cancellation flag, any number of times and in any order: parallel       *)
(* branches, retries, error edges and onError decide that, and what they   *)
(* decide is left open.  The invocation ends by a throw, an interrupt or a *)
(* result.                                                                 *)
(*                                                                         *)
(* JavaScript runs one callback at a time and drains the microtask queue   *)
(* before the next HTTP request, timer or I/O completion: Drained.  The    *)
(* closures queued with queueMicrotask are micro (first runs, in order)    *)
(* and wakes (how many resumeJob calls wait, per job); the two are drained *)
(* in any order, which allows more than the one queue of the engine does.  *)
(***************************************************************************)
EXTENDS Naturals, Sequences, FiniteSets, Functions

CONSTANTS
    Jobs,
    Capacity,
    MaxPauses   \* bound: pauses of one job (reject cycles end by their attempt limits)

ASSUME LifecycleAssumption == Capacity \in Nat /\ MaxPauses \in Nat

VARIABLES
    status,             \* JobRecord.status, "none" before the submission
    inFlight, queue, micro,  \* the dispatcher, see Dispatcher
    wakes,              \* queued resumeJob microtasks per job
    invocation,         \* which of runJob and resumeJob awaits graph.invoke
    graphs,             \* ctx.graphs: the caller whose hooks the cached graph captured
    pendingApprovals, approvalTimers,
    pendingSuspends,    \* the trigger of the pending suspend request
    suspendTimers,
    tokens,             \* jobs with a token subscription
    cancelRequested,    \* "asked" while the graph runs: it may or may not see it
    late,               \* the hooks of a timed-out attempt that still runs
    pauses

dispatcherVars == <<inFlight, queue, micro>>
pauseVars == <<pendingApprovals, approvalTimers, pendingSuspends, suspendTimers>>
vars == <<status, dispatcherVars, wakes, invocation, graphs, pauseVars,
          tokens, cancelRequested, late, pauses>>

Terminal == {"completed", "failed", "cancelled"}
Paused == {"awaiting-approval", "suspended"}
Statuses == {"none", "received", "running"} \union Paused \union Terminal

Callers == {"run", "resume"}

\* The dispatcher's own functions; a live job there is one that has a slot
\* and whose closure has run.
D == INSTANCE Dispatcher WITH live <- inFlight \ Range(micro)

Init ==
    /\ status = [j \in Jobs |-> "none"]
    /\ inFlight = {} /\ queue = <<>> /\ micro = <<>>
    /\ wakes = [j \in Jobs |-> 0]
    /\ invocation = [j \in Jobs |-> "none"]
    /\ graphs = [j \in Jobs |-> "none"]
    /\ pendingApprovals = {} /\ approvalTimers = {}
    /\ pendingSuspends = [j \in Jobs |-> "none"]
    /\ suspendTimers = {}
    /\ tokens = {}
    /\ cancelRequested = [j \in Jobs |-> "no"]
    /\ late = [j \in Jobs |-> "none"]
    /\ pauses = [j \in Jobs |-> 0]

Drained == micro = <<>> /\ \A j \in Jobs : wakes[j] = 0

-----------------------------------------------------------------------------
(* Hooks.  What onStatusChange(j, null, s) does for a terminal s depends on *)
(* the call that compiled the graph (an agent's report) or that awaits it   *)
(* (the report of the end).                                                 *)

ForgetPause(j) ==
    /\ pendingApprovals' = pendingApprovals \ {j}
    /\ pendingSuspends' = [pendingSuspends EXCEPT ![j] = "none"]

ClearTimers(j) ==
    /\ approvalTimers' = approvalTimers \ {j}
    /\ suspendTimers' = suspendTimers \ {j}

HooksIgnoreCancelled(j, s) ==
    IF s = "cancelled"
    THEN UNCHANGED <<dispatcherVars, pauseVars, tokens>>
    ELSE tokens' = tokens \ {j} /\ ForgetPause(j) /\ D!OnJobTerminal(j) /\ ClearTimers(j)

HooksKeepTimers(j, s) ==
    /\ IF s = "cancelled"
       THEN UNCHANGED <<tokens, pendingApprovals, pendingSuspends>>
       ELSE tokens' = tokens \ {j} /\ ForgetPause(j)
    /\ D!OnJobTerminal(j)
    /\ UNCHANGED <<approvalTimers, suspendTimers>>

HooksDetachOnSuccess(j, s) ==
    /\ tokens' = IF s = "completed" THEN tokens \ {j} ELSE tokens
    /\ IF s = "cancelled"
       THEN UNCHANGED <<pendingApprovals, pendingSuspends>>
       ELSE ForgetPause(j)
    /\ D!OnJobTerminal(j)
    /\ ClearTimers(j)

RunHooks(j, s) ==
    /\ IF s = "cancelled"
       THEN UNCHANGED <<tokens, pendingApprovals, pendingSuspends>>
       ELSE tokens' = tokens \ {j} /\ ForgetPause(j)
    /\ D!OnJobTerminal(j)
    /\ ClearTimers(j)

ResumeHooks(j, s) ==
    IF s = "cancelled"
    THEN UNCHANGED <<dispatcherVars, pauseVars, tokens>>
    ELSE /\ tokens' = tokens \ {j}
         /\ ForgetPause(j)
         /\ ClearTimers(j)
         /\ D!OnJobTerminal(j)

Report(caller, j, s) ==
    /\ status' = [status EXCEPT ![j] = s]
    /\ IF caller = "run" THEN RunHooks(j, s) ELSE ResumeHooks(j, s)

-----------------------------------------------------------------------------
(* Submission. *)

SubmitUnbounded(j) ==
    /\ status[j] = "none"
    /\ D!FireImmediate(j)
    /\ status' = [status EXCEPT ![j] = "received"]
    /\ tokens' = tokens \union {j}
    /\ UNCHANGED <<wakes, invocation, graphs, pauseVars, cancelRequested, late,
                   pauses>>

\* handleSubmitJob, in-process path: refused with a 503 (no step), or
\* registered and routed.
Submit(j) ==
    /\ status[j] = "none"
    /\ D!Route(j)
    /\ status' = [status EXCEPT ![j] = "received"]
    /\ tokens' = tokens \union {j}
    /\ UNCHANGED <<wakes, invocation, graphs, pauseVars, cancelRequested, late,
                   pauses>>

SpawnFiresRefused(j) ==
    /\ status[j] = "none"
    /\ \/ D!Route(j)
       \/ /\ D!EvaluateSubmission(inFlight, queue) = "reject"
          /\ micro' = Append(micro, j)
          /\ UNCHANGED <<inFlight, queue>>
    /\ status' = [status EXCEPT ![j] = "received"]
    /\ tokens' = tokens \union {j}
    /\ UNCHANGED <<wakes, invocation, graphs, pauseVars, cancelRequested, late,
                   pauses>>

\* spawnFlowJob (webhook, event, cron, job intents): the record is made before
\* the decision, and a refused job stays `received`.  A parent's intents are
\* spawned in the step that completes it; taking each as a step of its own
\* only adds interleavings.
SpawnFlowJob(j) ==
    /\ status[j] = "none"
    /\ \/ D!Route(j)
       \/ /\ D!EvaluateSubmission(inFlight, queue) = "reject"
          /\ UNCHANGED dispatcherVars
    /\ status' = [status EXCEPT ![j] = "received"]
    /\ tokens' = tokens \union {j}
    /\ UNCHANGED <<wakes, invocation, graphs, pauseVars, cancelRequested, late,
                   pauses>>

\* The oldest fire closure: executeRun, and runJob up to graph.invoke.
RunMicrotask ==
    /\ micro # <<>>
    /\ micro' = Tail(micro)
    /\ LET j == Head(micro)
       IN  /\ status' = [status EXCEPT ![j] = "running"]
           /\ invocation' = [invocation EXCEPT ![j] = "run"]
           /\ graphs' = [graphs EXCEPT ![j] = "run"]
    /\ UNCHANGED <<inFlight, queue, wakes, pauseVars, tokens, cancelRequested,
                   late, pauses>>

-----------------------------------------------------------------------------
(* Inside the graph. *)

Executing(j) == invocation[j] # "none"

\* An agent's executor fails: it marks the JOB failed and says so, whatever
\* the graph makes of the error exit it returns.
AgentFails(j) ==
    /\ Executing(j)
    /\ cancelRequested[j] # "seen"
    /\ Report(graphs[j], j, "failed")
    /\ UNCHANGED <<wakes, invocation, graphs, cancelRequested, late, pauses>>

\* The cancellation check at the top of an agent's executor.
AgentSeesCancel(j) ==
    /\ Executing(j)
    /\ cancelRequested[j] # "no"
    /\ Report(graphs[j], j, "cancelled")
    /\ UNCHANGED <<wakes, invocation, graphs, cancelRequested, late, pauses>>

\* policy.timeout wins the race: the graph goes on with an error exit and the
\* executor keeps running.  Bound: one such executor per job at a time.
AgentTimesOut(j) ==
    /\ Executing(j)
    /\ Drained
    /\ cancelRequested[j] # "seen"
    /\ late[j] = "none"
    /\ late' = [late EXCEPT ![j] = graphs[j]]
    /\ UNCHANGED <<status, dispatcherVars, wakes, invocation, graphs, pauseVars,
                   tokens, cancelRequested, pauses>>

\* The executor that lost the race ends: a success touches its agent only, a
\* failure takes the path of AgentFails.
LateSuccess(j) ==
    /\ late[j] # "none"
    /\ Drained
    /\ late' = [late EXCEPT ![j] = "none"]
    /\ UNCHANGED <<status, dispatcherVars, wakes, invocation, graphs, pauseVars,
                   tokens, cancelRequested, pauses>>

LateFailure(j) ==
    /\ late[j] # "none"
    /\ Drained
    /\ late' = [late EXCEPT ![j] = "none"]
    /\ Report(late[j], j, "failed")
    /\ UNCHANGED <<wakes, invocation, graphs, cancelRequested, pauses>>

-----------------------------------------------------------------------------
(* The end of an invocation: the catch of runJob and resumeJob, and         *)
(* finalizeOrPause.  A job an agent marked failed or cancelled keeps that   *)
(* status, without a second report.                                         *)
End(j, verdict) ==
    /\ Executing(j)
    /\ IF status[j] \in {"failed", "cancelled"}
       THEN UNCHANGED <<status, dispatcherVars, pauseVars, tokens>>
       ELSE Report(invocation[j], j, verdict)
    /\ invocation' = [invocation EXCEPT ![j] = "none"]
    /\ graphs' = [graphs EXCEPT ![j] = "none"]
    /\ UNCHANGED <<wakes, cancelRequested, late, pauses>>

\* The graph ran to its end and its output kept the flow's contract.
GraphCompletes(j) == End(j, "completed")

\* It threw, ended at a fail-terminal, or broke the output contract.
GraphFails(j) == End(j, "failed")

PauseWithoutDeadline(j, trigger) ==
    /\ Executing(j)
    /\ pauses[j] < MaxPauses
    /\ pauses' = [pauses EXCEPT ![j] = @ + 1]
    /\ invocation' = [invocation EXCEPT ![j] = "none"]
    /\ IF trigger = "approval"
       THEN /\ status' = [status EXCEPT ![j] = "awaiting-approval"]
            /\ pendingApprovals' = pendingApprovals \union {j}
            /\ UNCHANGED pendingSuspends
       ELSE /\ status' = [status EXCEPT ![j] = "suspended"]
            /\ pendingSuspends' = [pendingSuspends EXCEPT ![j] = trigger]
            /\ UNCHANGED pendingApprovals
    /\ UNCHANGED <<approvalTimers, suspendTimers, dispatcherVars, wakes, graphs,
                   tokens, cancelRequested, late>>

\* An interrupt is in the result; nobody looks at the status it replaces.
GraphPauses(j, trigger) ==
    /\ Executing(j)
    /\ pauses[j] < MaxPauses
    /\ pauses' = [pauses EXCEPT ![j] = @ + 1]
    /\ invocation' = [invocation EXCEPT ![j] = "none"]
    /\ IF trigger = "approval"
       THEN /\ status' = [status EXCEPT ![j] = "awaiting-approval"]
            /\ pendingApprovals' = pendingApprovals \union {j}
            /\ approvalTimers' = approvalTimers \union {j}
            /\ UNCHANGED <<pendingSuspends, suspendTimers>>
       ELSE /\ status' = [status EXCEPT ![j] = "suspended"]
            /\ pendingSuspends' = [pendingSuspends EXCEPT ![j] = trigger]
            /\ suspendTimers' = IF trigger = "timer" THEN suspendTimers \union {j}
                                ELSE suspendTimers
            /\ UNCHANGED <<pendingApprovals, approvalTimers>>
    /\ UNCHANGED <<dispatcherVars, wakes, graphs, tokens, cancelRequested, late>>

-----------------------------------------------------------------------------
(* Resumption. *)

\* executeResume, for every job of W in one callback.
ExecuteResume(W) ==
    /\ approvalTimers' = approvalTimers \ W
    /\ suspendTimers' = suspendTimers \ W
    /\ pendingApprovals' = pendingApprovals \ W
    /\ pendingSuspends' = [j \in Jobs |->
                              IF j \in W THEN "none" ELSE pendingSuspends[j]]
    /\ tokens' = tokens \union W
    /\ wakes' = [j \in Jobs |-> IF j \in W THEN wakes[j] + 1 ELSE wakes[j]]
    /\ UNCHANGED <<status, dispatcherVars, invocation, graphs, cancelRequested,
                   late, pauses>>

ResumeUnchecked(j) ==
    /\ Drained
    /\ graphs[j] # "none"
    /\ ExecuteResume({j})

\* POST /v1/jobs/:id/resume by a caller whom the role and claim gates let pass.
Resume(j) ==
    /\ Drained
    /\ status[j] \in Paused
    /\ ExecuteResume({j})

\* POST /v1/events: wakes every suspend that the event matches; which ones do
\* is left open.
IngestEvent(W) ==
    /\ Drained
    /\ W # {}
    /\ \A j \in W : pendingSuspends[j] = "event" /\ status[j] = "suspended"
    /\ ExecuteResume(W)

\* The approval deadline: auto-reject.
SlaExpires(j) ==
    /\ Drained
    /\ j \in approvalTimers
    /\ IF status[j] = "awaiting-approval" /\ j \in pendingApprovals
       THEN ExecuteResume({j})
       ELSE /\ approvalTimers' = approvalTimers \ {j}
            /\ UNCHANGED <<status, dispatcherVars, wakes, invocation, graphs,
                           pendingApprovals, pendingSuspends, suspendTimers,
                           tokens, cancelRequested, late, pauses>>

SuspendTimerFires(j) ==
    /\ Drained
    /\ j \in suspendTimers
    /\ IF status[j] = "suspended" /\ pendingSuspends[j] # "none"
       THEN ExecuteResume({j})
       ELSE /\ suspendTimers' = suspendTimers \ {j}
            /\ UNCHANGED <<status, dispatcherVars, wakes, invocation, graphs,
                           pendingApprovals, pendingSuspends, approvalTimers,
                           tokens, cancelRequested, late, pauses>>

\* A bug to detect: a job that came back from its record takes a slot.
RunWakeInSlot(j) ==
    /\ wakes[j] > 0
    /\ status[j] \in Paused
    /\ wakes' = [wakes EXCEPT ![j] = @ - 1]
    /\ status' = [status EXCEPT ![j] = "running"]
    /\ invocation' = [invocation EXCEPT ![j] = "resume"]
    /\ graphs' = [graphs EXCEPT ![j] = IF @ = "none" THEN "resume" ELSE @]
    /\ inFlight' = inFlight \union {j}
    /\ UNCHANGED <<queue, micro, pauseVars, tokens, cancelRequested, late, pauses>>

\* The microtask: resumeJob up to graph.invoke.  Its first guard throws on a
\* job that is not paused, and nobody catches that; ResumesMeetPausedJobs says
\* the guard never throws, so the throwing branch has no action.
RunWake(j) ==
    /\ wakes[j] > 0
    /\ status[j] \in Paused
    /\ wakes' = [wakes EXCEPT ![j] = @ - 1]
    /\ status' = [status EXCEPT ![j] = "running"]
    /\ invocation' = [invocation EXCEPT ![j] = "resume"]
    /\ graphs' = [graphs EXCEPT ![j] = IF @ = "none" THEN "resume" ELSE @]
    /\ UNCHANGED <<dispatcherVars, pauseVars, tokens, cancelRequested, late,
                   pauses>>

CancelAtOnce(j) ==
    /\ Drained
    /\ graphs[j] # "none"
    /\ cancelRequested' = [cancelRequested EXCEPT ![j] = "seen"]
    /\ Report(graphs[j], j, "cancelled")
    /\ UNCHANGED <<wakes, invocation, graphs, late, pauses>>

\* POST /v1/jobs/:id/cancel writes the flag into the checkpointed state.  A
\* paused graph reads it when it is resumed; a running one may have loaded its
\* state before.  Without a cached graph the request is refused.
Cancel(j) ==
    /\ Drained
    /\ graphs[j] # "none"
    /\ cancelRequested' = [cancelRequested EXCEPT ![j] =
                              IF Executing(j) /\ @ # "seen" THEN "asked" ELSE "seen"]
    /\ UNCHANGED <<status, dispatcherVars, wakes, invocation, graphs, pauseVars,
                   tokens, late, pauses>>

-----------------------------------------------------------------------------
Triggers == {"approval", "timer", "event"}

GraphEnds(j) ==
    \/ GraphCompletes(j)
    \/ GraphFails(j)
    \/ \E trigger \in Triggers : GraphPauses(j, trigger)

Next ==
    \/ RunMicrotask
    \/ \E W \in SUBSET Jobs : IngestEvent(W)
    \/ \E j \in Jobs :
         \/ Submit(j) \/ SpawnFlowJob(j)
         \/ AgentFails(j) \/ AgentSeesCancel(j) \/ AgentTimesOut(j)
         \/ LateSuccess(j) \/ LateFailure(j)
         \/ GraphEnds(j)
         \/ Resume(j) \/ SlaExpires(j) \/ SuspendTimerFires(j) \/ RunWake(j)
         \/ Cancel(j)

\* Microtasks run; timers fire; an invocation ends (adapters answer or throw).
\* Nothing is owed by clients: no request, event or approval need ever come.
Fairness ==
    /\ WF_vars(RunMicrotask)
    /\ \A j \in Jobs :
         /\ WF_vars(RunWake(j))
         /\ WF_vars(GraphEnds(j))
         /\ WF_vars(SlaExpires(j))
         /\ WF_vars(SuspendTimerFires(j))

Spec == Init /\ [][Next]_vars /\ Fairness

-----------------------------------------------------------------------------
\* Every variable has its type.
TypeOK ==
    /\ status \in [Jobs -> Statuses]
    /\ inFlight \in SUBSET Jobs
    /\ queue \in Seq(Jobs)
    /\ micro \in Seq(Jobs)
    /\ wakes \in [Jobs -> Nat]
    /\ invocation \in [Jobs -> Callers \union {"none"}]
    /\ graphs \in [Jobs -> Callers \union {"none"}]
    /\ pendingApprovals \in SUBSET Jobs
    /\ approvalTimers \in SUBSET Jobs
    /\ pendingSuspends \in [Jobs -> {"none", "timer", "event"}]
    /\ suspendTimers \in SUBSET Jobs
    /\ tokens \in SUBSET Jobs
    /\ cancelRequested \in [Jobs -> {"no", "asked", "seen"}]
    /\ late \in [Jobs -> Callers \union {"none"}]
    /\ pauses \in [Jobs -> 0..MaxPauses]

\* One wake per pause: whatever reviewers, events and timers do, a queued
\* resumeJob meets a paused job and its cached graph.  Its guard would throw
\* otherwise, and the unhandled rejection would end the server.
ResumesMeetPausedJobs ==
    \A j \in Jobs :
        /\ wakes[j] <= 1
        /\ wakes[j] = 1 => /\ status[j] \in Paused
                           /\ ~ Executing(j)
                           /\ graphs[j] = "run"

\* A job that waits for a reviewer has its request on record and its deadline
\* running, and a suspended one its request: without the record the resume
\* route checks no role, and without the timer the slot may be lost for good.
PausesAreArmed ==
    \A j \in Jobs : wakes[j] = 0 =>
        /\ status[j] = "awaiting-approval" =>
               j \in pendingApprovals \intersect approvalTimers
        /\ status[j] = "suspended" =>
               /\ pendingSuspends[j] # "none"
               /\ pendingSuspends[j] = "timer" => j \in suspendTimers

\* No request outlives its pause: the HITL routes list no finished job, no
\* event wakes one and no timer is left to act on one, also when a timed-out
\* executor fails a job that is paused.
NoStaleRequests ==
    \A j \in Jobs :
        /\ j \in pendingApprovals \union approvalTimers =>
               status[j] = "awaiting-approval" /\ wakes[j] = 0
        /\ pendingSuspends[j] # "none" \/ j \in suspendTimers =>
               status[j] = "suspended" /\ wakes[j] = 0

\* A slot is held for a run that starts, goes on or can be resumed.  A slot of
\* any other job would never come back.
NoSlotLeaks ==
    \A j \in inFlight :
        \/ j \in Range(micro)
        \/ Executing(j)
        \/ status[j] \in Paused /\ graphs[j] # "none"

\* What is left of "at most `capacity` concurrent runJobs" when agents may
\* fail and be forgiven: first invocations without a failure hold a slot each.
CleanRunsHoldSlots ==
    \A j \in Jobs :
        status[j] = "running" /\ invocation[j] = "run" => j \in inFlight

\* A completed or failed job whose invocation is over feeds no token counter.
TokensDetach ==
    \A j \in Jobs :
        status[j] \in {"completed", "failed"} /\ ~ Executing(j) => j \notin tokens

\* The lifecycle drives the dispatcher as Dispatcher says: each step is a step
\* of it, or none.  In particular a job reports its end only after its closure
\* has run, and the slot discipline proved there is that of the server.
ImplementsDispatcher == D!Init /\ [][D!Next]_(D!vars)

\* Once a job is finished, its invocation over and no executor left behind,
\* nothing changes its status: no late reviewer, event, timer or cancellation.
FinishedStaysFinished ==
    [][\A j \in Jobs :
          status[j] \in Terminal /\ ~ Executing(j) /\ late[j] = "none"
              => status'[j] = status[j]]_vars

\* No approval waits for ever: the reviewer comes, or the deadline does.
ApprovalsEnd ==
    \A j \in Jobs :
        status[j] = "awaiting-approval" ~> status[j] # "awaiting-approval"

\* A queued job starts, unless a job in a slot sleeps until an event comes.
QueueStallsOnlyOnEvents ==
    \A j \in Jobs :
        j \in Range(queue) ~>
            \/ Executing(j)
            \/ \E k \in inFlight : pendingSuspends[k] = "event"
=============================================================================
