----------------------------- MODULE JobEngine -----------------------------
(***************************************************************************)
(* The life of one job in the control plane: its row in `jobs`, its rows   *)
(* in `job_steps`, and the HTTP requests that start, resume, cancel and    *)
(* report on it.                                                           *)
(*                                                                         *)
(* JobEngine.runJob and resumeJob are not transactional: a request reads   *)
(* the job once and then walks the flow, each DAO call committing by       *)
(* itself.  A walk is therefore a thread with a label between two database *)
(* steps; it never reads the row again, and nothing keeps two requests     *)
(* from walking the same job.                                              *)
(*                                                                         *)
(* Handlers are reduced to their verdicts.  A compound step (loop, fork,   *)
(* map, try, ...) runs its bodies inside its handler, so it is a "step"    *)
(* like any other: a body must not pause, and its rows of job_steps are    *)
(* those of other attempts.                                                *)
(***************************************************************************)

CONSTANTS
    Walks,    \* requests that may walk the job at the same time
    Nodes,    \* the nodes of its flow, without the trigger
    Pausing,  \* those of kind approval and wait-for-event, which pause
    Edges,    \* the nodes an edge leads to, NoNode if the walk may end here
    Entry,    \* where the trigger's edge leads
    NoNode    \* null

NullableNodes == Nodes \union {NoNode}

ASSUME NoNodeAssumption == NoNode \notin Nodes

ASSUME FlowAssumption ==
    /\ Pausing \subseteq Nodes
    /\ Edges \in [Nodes -> SUBSET NullableNodes]
    /\ Entry \in NullableNodes

VARIABLES
    status,      \* jobs.status
    node,        \* jobs.current_node_id: where the job is paused
    steps,       \* job_steps.status of attempt 1, "none" without a row
    flow,        \* the kind of the job's flow
    forwarded,   \* a harness runs the job and reports on it
    produced,    \* a JobIntentProducedEvent was published
    pc,          \* what each walk does next
    at,          \* each walk's currentNodeId
    died,        \* history: a walk ended by an exception or a restart
    overlapped   \* history: a walk began beside another, or from the trigger
                 \* while the job was paused

row == <<status, node>>
fixed == <<flow, forwarded>>
history == <<died, overlapped>>
vars == <<row, steps, fixed, produced, pc, at, history>>

Statuses ==
    {"queued", "running", "completed", "failed", "cancelling", "cancelled"}
Terminal == {"completed", "failed", "cancelled"}

OnNode == {"begin", "executing", "pausing", "resuming", "advancing"}
Labels == OnNode \union {"idle", "starting", "completing", "failing", "publishing"}

Busy == {w \in Walks : pc[w] # "idle"}

\* The row a harness was given (a `work` flow) or the engine is to walk.  A
\* failed dispatch leaves a `work` job to the engine.  `post-job` flows behave
\* as `work` flows that were not forwarded.
Init ==
    /\ status = "queued" /\ node = NoNode
    /\ steps = [n \in Nodes |-> "none"]
    /\ flow \in {"work", "job-definition"}
    /\ forwarded \in BOOLEAN
    /\ forwarded => flow = "work"
    /\ produced = FALSE
    /\ pc = [w \in Walks |-> "idle"] /\ at = [w \in Walks |-> NoNode]
    /\ died = FALSE /\ overlapped = FALSE

-----------------------------------------------------------------------------
(* How a walk moves on. *)

Goto(w, label, n) ==
    /\ pc' = [pc EXCEPT ![w] = label]
    /\ at' = [at EXCEPT ![w] = n]

Ends(w) == Goto(w, "idle", NoNode)

\* The head of the loop: no node left means the walk ran off the graph, which
\* completes the job.
Enters(w, n) == Goto(w, IF n = NoNode THEN "completing" ELSE "begin", n)

\* followEdge: the verdict's label, or its absence, picks one of the edges.
FollowsEdge(w) == \E n \in Edges[at[w]] : Enters(w, n)

Records(w, s) == steps' = [steps EXCEPT ![at[w]] = s]

-----------------------------------------------------------------------------
(* Requests: each reads the job and acts on that snapshot from then on. *)

\* POST /start reads a queued or running job, a paused one included.
Start(w) ==
    /\ pc[w] = "idle"
    /\ status \in {"queued", "running"}
    /\ Goto(w, "starting", NoNode)
    /\ overlapped' = (overlapped \/ Busy # {} \/ node # NoNode)
    /\ UNCHANGED <<row, steps, fixed, produced, died>>

\* The part shared by deliverEvent and submitApproval, with the same checks
\* again in resumeJob.  The name of the event is not compared with the node's.
Resumes(w) ==
    /\ pc[w] = "idle"
    /\ status = "running" /\ node # NoNode
    /\ Goto(w, "resuming", node)
    /\ overlapped' = (overlapped \/ Busy # {})
    /\ UNCHANGED <<row, steps, fixed, produced, died>>

DeliverEvent(w) == Resumes(w)

SubmitApproval(w, n) == node = n /\ Resumes(w)

\* Conditional in SQL; a walk under way is not told.
Cancel ==
    /\ status \in {"queued", "running"}
    /\ status' = IF status = "running" THEN "cancelling" ELSE "cancelled"
    /\ UNCHANGED <<node, steps, fixed, produced, pc, at, history>>

\* applyHarnessStatus: whatever the harness reports, short of leaving an end.
HarnessReports(s) ==
    /\ forwarded
    /\ status \notin Terminal
    /\ status' = s
    /\ UNCHANGED <<node, steps, fixed, produced, pc, at, history>>

-----------------------------------------------------------------------------
(* The walk: runJob, resumeJob and continueWalk, one DAO call a step. *)

MarkRunning(w) ==
    /\ pc[w] = "starting"
    /\ status' = IF status = "queued" THEN "running" ELSE status
    /\ Enters(w, Entry)
    /\ UNCHANGED <<node, steps, fixed, produced, history>>

StartStep(w) ==
    /\ pc[w] = "begin"
    /\ Records(w, "running")
    /\ Goto(w, "executing", at[w])
    /\ UNCHANGED <<row, fixed, produced, history>>

\* The four verdicts of a handler, each with its write to job_steps.
Advance(w) ==
    /\ pc[w] = "executing" /\ at[w] \notin Pausing
    /\ Records(w, "completed")
    /\ FollowsEdge(w)
    /\ UNCHANGED <<row, fixed, produced, history>>

TerminateSuccess(w) ==
    /\ pc[w] = "executing" /\ at[w] \notin Pausing
    /\ Records(w, "completed")
    /\ Goto(w, "completing", NoNode)
    /\ UNCHANGED <<row, fixed, produced, history>>

\* Also an exception of the handler, and a reviewer's answer that is no verdict.
TerminateFailure(w) ==
    /\ pc[w] \in {"executing", "resuming"}
    /\ Records(w, "failed")
    /\ Goto(w, "failing", NoNode)
    /\ UNCHANGED <<row, fixed, produced, history>>

Pause(w) ==
    /\ pc[w] = "executing" /\ at[w] \in Pausing
    /\ Goto(w, "pausing", at[w])
    /\ UNCHANGED <<row, steps, fixed, produced, history>>

\* A bug to detect: the resumed step is not completed.
LeavesRunning(w) ==
    /\ pc[w] = "resuming"
    /\ Goto(w, "advancing", at[w])
    /\ UNCHANGED <<row, steps, fixed, produced, history>>

\* A resumed handler advances with the event's payload or the verdict.
AdvanceResumed(w) ==
    /\ pc[w] = "resuming"
    /\ Records(w, "completed")
    /\ Goto(w, "advancing", at[w])
    /\ UNCHANGED <<row, fixed, produced, history>>

\* A bug to detect: the resume ends where the walk should go on.
ForgetsToContinue(w) ==
    /\ pc[w] = "advancing"
    /\ node' = IF status = "running" THEN NoNode ELSE node
    /\ Ends(w)
    /\ UNCHANGED <<status, steps, fixed, produced, history>>

\* setCurrentNode(null), then continueWalk from the paused node's edge.
ClearNode(w) ==
    /\ pc[w] = "advancing"
    /\ node' = IF status = "running" THEN NoNode ELSE node
    /\ FollowsEdge(w)
    /\ UNCHANGED <<status, steps, fixed, produced, history>>

\* A bug to detect: the pause is not recorded, as when a resumed step pauses again.
StaysAsItWas(w) ==
    /\ pc[w] = "pausing"
    /\ Ends(w)
    /\ UNCHANGED <<row, steps, fixed, produced, history>>

\* setCurrentNode(node): the job is paused and the request over.
SetNode(w) ==
    /\ pc[w] = "pausing"
    /\ node' = IF status = "running" THEN at[w] ELSE node
    /\ Ends(w)
    /\ UNCHANGED <<status, steps, fixed, produced, history>>

\* A bug to detect: the guard of setCurrentNode, which a cancelled walk fails.
CompletesRunning(w) ==
    /\ pc[w] = "completing"
    /\ status' = IF status = "running" THEN "completed" ELSE status
    /\ IF flow = "job-definition" THEN Goto(w, "publishing", NoNode) ELSE Ends(w)
    /\ UNCHANGED <<node, steps, fixed, produced, history>>

\* completeJob: the row first; the event of a job definition follows whether
\* or not the row was updated.
MarkCompleted(w) ==
    /\ pc[w] = "completing"
    /\ status' = IF status \in Terminal THEN status ELSE "completed"
    /\ IF flow = "job-definition" THEN Goto(w, "publishing", NoNode) ELSE Ends(w)
    /\ UNCHANGED <<node, steps, fixed, produced, history>>

Publish(w) ==
    /\ pc[w] = "publishing"
    /\ produced' = TRUE
    /\ Ends(w)
    /\ UNCHANGED <<row, steps, fixed, history>>

\* A bug to detect: an update without its condition.
FailsAnyway(w) ==
    /\ pc[w] = "failing"
    /\ status' = "failed"
    /\ Ends(w)
    /\ UNCHANGED <<node, steps, fixed, produced, history>>

MarkFailed(w) ==
    /\ pc[w] = "failing"
    /\ status' = IF status \in Terminal THEN status ELSE "failed"
    /\ Ends(w)
    /\ UNCHANGED <<node, steps, fixed, produced, history>>

\* A flow without a trigger or with a dangling edge, a database error or a
\* restart of the service ends the request and leaves the rows as they are.
WalkDies(w) ==
    /\ pc[w] # "idle"
    /\ Ends(w)
    /\ died' = TRUE
    /\ UNCHANGED <<row, steps, fixed, produced, overlapped>>

\* Every step of a walk but the last of a job definition.
Proceed(w) ==
    \/ MarkRunning(w) \/ StartStep(w)
    \/ Advance(w) \/ TerminateSuccess(w) \/ TerminateFailure(w) \/ Pause(w)
    \/ AdvanceResumed(w) \/ ClearNode(w) \/ SetNode(w)
    \/ MarkCompleted(w) \/ MarkFailed(w)

Request(w) ==
    \/ Start(w) \/ DeliverEvent(w)
    \/ \E n \in Nodes : SubmitApproval(w, n)

Outside == Cancel \/ \E s \in Statuses : HarnessReports(s)

Next ==
    \/ Outside
    \/ \E w \in Walks : Request(w) \/ Proceed(w) \/ Publish(w) \/ WalkDies(w)

\* A request's thread goes on until it answers; no client has to call.
Spec ==
    /\ Init /\ [][Next]_vars
    /\ \A w \in Walks : WF_vars(Proceed(w) \/ Publish(w))

-----------------------------------------------------------------------------
(* Properties. *)

\* The values the columns and the walks' locals take: a walk with a node to
\* work on has one.
TypeOK ==
    /\ status \in Statuses
    /\ node \in NullableNodes
    /\ steps \in [Nodes -> {"none", "running", "completed", "failed"}]
    /\ flow \in {"work", "job-definition"}
    /\ forwarded \in BOOLEAN /\ produced \in BOOLEAN
    /\ died \in BOOLEAN /\ overlapped \in BOOLEAN
    /\ pc \in [Walks -> Labels]
    /\ at \in [Walks -> NullableNodes]
    /\ \A w \in Walks : pc[w] \in OnNode => at[w] \in Nodes

\* However many requests start and resume a job at once, one that says running
\* is walked, or is paused where a reviewer or an event finds it: it is never
\* running with nobody to move it on, unless a walk died.
IdleRunsArePaused ==
    status = "running" /\ Busy = {} /\ ~ forwarded /\ ~ died => node # NoNode

\* The first thing written is the last word: late walks, reports and
\* cancellations never take a job out of its end.
TerminalIsFinal == [][(status \in Terminal) => (status' = status)]_status

\* A listener that hears of an intent finds the job at its end, though the
\* row and the event are two steps.
IntentsFollowTheEnd == produced => status \in Terminal

\* What walks one after the other leave behind: when no walk is under way, the
\* only step that still says running is the one the job is paused at, unless it
\* was cancelled there.
AuditTrailSettles ==
    Busy = {} /\ ~ overlapped /\ ~ died /\ ~ forwarded =>
        \A n \in Nodes :
            steps[n] = "running" =>
                node = n \/ status \in {"cancelling", "cancelled"}

\* A job that runs gets somewhere: to a pause or an end, if no walk dies.
StartsSettle ==
    (status = "running" /\ node = NoNode /\ ~ forwarded)
        ~> (status # "running" \/ node # NoNode \/ died)

-----------------------------------------------------------------------------
(* What the comments of the code say, and the code does not do. *)

\* JobStatus.java:12: a job that is cancelling becomes cancelled.  Whatever
\* ends it is taken for an end here.
CancellationsEnd ==
    (status = "cancelling" /\ ~ forwarded) ~> (status \in Terminal \/ died)
=============================================================================
