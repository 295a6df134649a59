------------------------- MODULE JobLifecycleProofs -------------------------
(***************************************************************************)
(* Theorems about JobLifecycle, for every set of jobs and every capacity,  *)
(* and then about PauseRecovery, which extends it, for any number of       *)
(* crashes and any number of file operations under way.                    *)
(*                                                                         *)
(* The inductive invariant of JobLifecycle has two halves.  Slots says of  *)
(* the dispatcher's state what WaitsOnce says in Dispatcher.  JobOK(j)     *)
(* says which records, timers, slots and closures a job may have in each   *)
(* status; it speaks of one job, so a step is looked at twice: at the job  *)
(* it is about, and at the others, of which only the one pulled into a     *)
(* freed slot changes.                                                     *)
(***************************************************************************)
EXTENDS PauseRecovery, QueueLemmas, SequenceTheorems, TLAPS

Starting == Range(micro)
Queued == Range(queue)

Slots ==
    /\ inFlight \in SUBSET Jobs /\ micro \in Seq(Jobs) /\ queue \in Seq(Jobs)
    /\ IsInjective(micro)
    /\ IsInjective(queue)
    /\ Starting \subseteq inFlight
    /\ Queued \intersect inFlight = {}

\* Before its run a job has a closure, a place in the queue, or nothing.
BeforeRun(j) ==
    /\ status[j] = "none" => j \notin inFlight \union Queued \union tokens
    /\ j \in Starting \union Queued => status[j] = "received"
    /\ status[j] \in {"none", "received"} =>
           ~ Executing(j) /\ graphs[j] = "none" /\ late[j] = "none"

\* Statuses, invocations and cached graphs agree.
InRun(j) ==
    /\ status[j] = "running" => Executing(j)
    /\ Executing(j) => /\ graphs[j] = "run"
                       /\ status[j] \in {"running"} \union Terminal
    /\ status[j] \in Paused => graphs[j] = "run"
    /\ graphs[j] # "resume" /\ late[j] # "resume"

\* Requests and timers live from the pause to the wake, and never longer.
InPause(j) ==
    /\ wakes[j] \in {0, 1}
    /\ wakes[j] = 1 => status[j] \in Paused
    /\ j \in pendingApprovals <=> status[j] = "awaiting-approval" /\ wakes[j] = 0
    /\ j \in approvalTimers <=> status[j] = "awaiting-approval" /\ wakes[j] = 0
    /\ pendingSuspends[j] # "none" <=> status[j] = "suspended" /\ wakes[j] = 0
    /\ j \in suspendTimers <=> pendingSuspends[j] = "timer"

\* Who holds a slot, and who feeds a token counter.
Holdings(j) ==
    /\ j \in inFlight => \/ j \in Starting
                         \/ status[j] \in {"running"} \union Paused
    /\ status[j] = "running" /\ invocation[j] = "run" => j \in inFlight
    /\ status[j] \in {"completed", "failed"} => j \notin tokens

JobOK(j) == BeforeRun(j) /\ InRun(j) /\ InPause(j) /\ Holdings(j)

IInv == TypeOK /\ Slots /\ \A j \in Jobs : JobOK(j)

-----------------------------------------------------------------------------
(* The operations of the dispatcher on slots, closures and queue.           *)

\* A submission takes a slot and a closure, or a place in the queue.
LEMMA RouteStep ==
    ASSUME Slots, NEW j \in Jobs, j \notin inFlight \union Queued, D!Route(j)
    PROVE  /\ Slots'
           /\ \/ /\ inFlight' = inFlight \union {j}
                 /\ Starting' = Starting \union {j}
                 /\ Queued' = Queued
              \/ /\ inFlight' = inFlight
                 /\ Starting' = Starting
                 /\ Queued' = Queued \union {j}
<1> USE DEF Slots, Starting, Queued
<1>1. CASE D!FireImmediate(j)
  <2>1. /\ inFlight' = inFlight \union {j}
        /\ micro' = Append(micro, j)
        /\ queue' = queue
    BY <1>1 DEF D!FireImmediate
  <2>2. /\ micro' \in Seq(Jobs) /\ IsInjective(micro')
        /\ Range(micro') = Range(micro) \union {j}
    BY <2>1, AppendRange, AppendProperties
  <2> QED BY <2>1, <2>2
<1>2. CASE D!Enqueue(j)
  <2>1. /\ inFlight' = inFlight
        /\ micro' = micro
        /\ queue' = Append(queue, j)
    BY <1>2 DEF D!Enqueue
  <2>2. /\ queue' \in Seq(Jobs) /\ IsInjective(queue')
        /\ Range(queue') = Range(queue) \union {j}
    BY <2>1, AppendRange, AppendProperties
  <2> QED BY <2>1, <2>2
<1> QED BY <1>1, <1>2 DEF D!Route

\* A job that ends leaves its slot, and at most one queued job, pulled, gets a
\* slot and a closure.
LEMMA TerminalStep ==
    ASSUME Slots, NEW j \in Jobs, j \notin Starting, D!OnJobTerminal(j)
    PROVE  /\ Slots'
           /\ \E pulled \in SUBSET Queued :
                 /\ inFlight' = (inFlight \ {j}) \union pulled
                 /\ Starting' = Starting \union pulled
                 /\ Queued' = Queued \ pulled
<1> USE DEF Slots, Starting, Queued
<1>1. CASE j \notin inFlight
  <2>1. UNCHANGED dispatcherVars
    BY <1>1 DEF D!OnJobTerminal, dispatcherVars
  <2>2. Slots' /\ inFlight' = inFlight \ {j} /\ Starting' = Starting /\ Queued' = Queued
    BY <1>1, <2>1 DEF dispatcherVars
  <2> QED BY <2>2
<1>2. CASE j \in inFlight /\ queue = <<>>
  <2>1. inFlight' = inFlight \ {j} /\ micro' = micro /\ queue' = queue
    BY <1>2 DEF D!OnJobTerminal
  <2> QED BY <2>1
<1>3. CASE j \in inFlight /\ queue # <<>>
  <2> DEFINE n == Head(queue)
  <2>1. /\ inFlight' = (inFlight \ {j}) \union {n}
        /\ queue' = Tail(queue)
        /\ micro' = Append(micro, n)
    BY <1>3 DEF D!OnJobTerminal
  <2>2. /\ n \in Jobs /\ queue' \in Seq(Jobs) /\ IsInjective(queue')
        /\ Range(queue) = {n} \union Range(queue')
        /\ n \notin Range(queue')
    BY <1>3, <2>1, TailRange, HeadTailProperties
  <2>3. /\ micro' \in Seq(Jobs) /\ IsInjective(micro')
        /\ Range(micro') = Range(micro) \union {n}
    BY <2>1, <2>2, AppendRange, AppendProperties
  <2> HIDE DEF n
  <2>4. /\ Slots'
        /\ {n} \in SUBSET Queued
        /\ inFlight' = (inFlight \ {j}) \union {n}
        /\ Starting' = Starting \union {n}
        /\ Queued' = Queued \ {n}
    BY <2>1, <2>2, <2>3
  <2> QED BY <2>4
<1> QED BY <1>1, <1>2, <1>3

-----------------------------------------------------------------------------
(* A job that a step is not about: nothing of it changes, but for the slot  *)
(* it may be handed while it waits in the queue.                            *)

SameRecords(k) ==
    /\ status'[k] = status[k]
    /\ wakes'[k] = wakes[k]
    /\ invocation'[k] = invocation[k]
    /\ graphs'[k] = graphs[k]
    /\ pendingSuspends'[k] = pendingSuspends[k]
    /\ late'[k] = late[k]
    /\ k \in pendingApprovals' <=> k \in pendingApprovals
    /\ k \in approvalTimers' <=> k \in approvalTimers
    /\ k \in suspendTimers' <=> k \in suspendTimers
    /\ k \in tokens' <=> k \in tokens

SameSlot(k) ==
    /\ k \in inFlight' <=> k \in inFlight
    /\ k \in Starting' <=> k \in Starting
    /\ k \in Queued' <=> k \in Queued

PulledIn(k) == k \in Queued /\ k \in inFlight' /\ k \in Starting'

LEMMA Bystander ==
    ASSUME Slots, NEW k \in Jobs, JobOK(k), SameRecords(k),
           SameSlot(k) \/ PulledIn(k)
    PROVE  JobOK(k)'
<1> USE DEF JobOK, SameRecords
<1>1. CASE SameSlot(k)
  BY <1>1 DEF SameSlot, BeforeRun, InRun, InPause, Holdings, Executing
<1>2. CASE PulledIn(k)
  <2>1. /\ status[k] = "received" /\ ~ Executing(k)
        /\ k \in inFlight' /\ k \in Starting'
    BY <1>2 DEF PulledIn, BeforeRun
  <2> QED BY <2>1 DEF BeforeRun, InRun, InPause, Holdings, Executing
<1> QED BY <1>1, <1>2

\* Where the job j has ended, what is left of its pause is gone, a completed or
\* failed job feeds no token counter, and other jobs are bystanders.
LEMMA ReportStep ==
    ASSUME IInv, NEW j \in Jobs, NEW caller \in Callers, NEW s \in Terminal,
           status[j] \notin {"none", "received"},
           s = "cancelled" => caller = "run" /\ Executing(j),
           Report(caller, j, s)
    PROVE  /\ Slots'
           /\ status' = [status EXCEPT ![j] = s]
           /\ pendingSuspends' = [pendingSuspends EXCEPT ![j] = "none"]
           /\ pendingApprovals' = pendingApprovals \ {j}
           /\ approvalTimers' = approvalTimers \ {j}
           /\ suspendTimers' = suspendTimers \ {j}
           /\ tokens' \subseteq tokens /\ tokens \ {j} \subseteq tokens'
           /\ s # "cancelled" => j \notin tokens'
           /\ j \notin inFlight' /\ j \notin Starting' /\ j \notin Queued'
           /\ \A k \in Jobs \ {j} : SameSlot(k) \/ PulledIn(k)
<1>1. JobOK(j) /\ j \notin Starting /\ j \notin Queued
  BY DEF IInv, JobOK, BeforeRun
<1>2. D!OnJobTerminal(j)
  BY DEF Report, RunHooks, ResumeHooks
<1>3. PICK pulled \in SUBSET Queued :
        /\ inFlight' = (inFlight \ {j}) \union pulled
        /\ Starting' = Starting \union pulled
        /\ Queued' = Queued \ pulled
  BY <1>1, <1>2, TerminalStep DEF IInv
<1>4. Slots'
  BY <1>1, <1>2, TerminalStep DEF IInv
<1>5. \A k \in Jobs \ {j} : SameSlot(k) \/ PulledIn(k)
  BY <1>3 DEF SameSlot, PulledIn
<1>6. j \notin inFlight' /\ j \notin Starting' /\ j \notin Queued'
  BY <1>1, <1>3
<1>7. CASE s = "cancelled"
  <2>1. /\ j \notin pendingApprovals /\ j \notin approvalTimers
        /\ j \notin suspendTimers /\ pendingSuspends[j] = "none"
    BY <1>1, <1>7 DEF JobOK, InRun, InPause, Paused, Terminal
  <2>2. pendingSuspends = [pendingSuspends EXCEPT ![j] = "none"]
    BY <2>1 DEF IInv, TypeOK
  <2> QED BY <1>4, <1>5, <1>6, <1>7, <2>1, <2>2
          DEF Report, RunHooks, ClearTimers
<1>8. CASE s # "cancelled"
  BY <1>4, <1>5, <1>6, <1>8
  DEF Report, RunHooks, ResumeHooks, ForgetPause, ClearTimers
<1> QED BY <1>7, <1>8

-----------------------------------------------------------------------------
(* One lemma per action. *)

\* The server starts with no job.
LEMMA InitIInv == Init => IInv
<1> SUFFICES ASSUME Init PROVE IInv
  OBVIOUS
<1>1. <<>> \in Seq(Jobs) /\ Range(<<>>) = {} /\ IsInjective(<<>>)
  BY EmptySeq DEF Range, IsInjective
<1>2. TypeOK
  BY <1>1, LifecycleAssumption DEF Init, TypeOK, Statuses, Callers
<1>3. Slots
  BY <1>1 DEF Init, Slots, Starting, Queued
<1>4. \A j \in Jobs : JobOK(j)
  BY <1>1 DEF Init, JobOK, BeforeRun, InRun, InPause, Holdings, Starting, Queued,
              Executing, Paused, Terminal
<1> QED BY <1>2, <1>3, <1>4 DEF IInv

\* The common part of Submit and of spawnFlowJob: a record and a token
\* subscription, and what the routing did.
LEMMA AcceptedStep ==
    ASSUME IInv, NEW j \in Jobs, status[j] = "none",
           Slots',
           \/ SameSlot(j)
           \/ j \in Starting' /\ j \in inFlight' /\ j \notin Queued'
           \/ j \in Queued' /\ j \notin Starting' /\ j \notin inFlight',
           \A k \in Jobs \ {j} : SameSlot(k),
           status' = [status EXCEPT ![j] = "received"],
           tokens' = tokens \union {j},
           UNCHANGED <<wakes, invocation, graphs, pauseVars, cancelRequested,
                       late, pauses>>
    PROVE  IInv'
<1>1. TypeOK'
  BY DEF IInv, TypeOK, Slots, Statuses, pauseVars
<1>2. ASSUME NEW k \in Jobs, k # j PROVE JobOK(k)'
  <2>1. SameRecords(k)
    BY <1>2 DEF SameRecords, IInv, TypeOK, pauseVars
  <2> QED BY <1>2, <2>1, Bystander DEF IInv
<1>3. JobOK(j)'
  <2>1. /\ JobOK(j) /\ status'[j] = "received"
        /\ j \notin inFlight /\ j \notin Queued /\ j \notin Starting
    BY DEF IInv, TypeOK, JobOK, BeforeRun, Slots
  <2>2. j \in inFlight' => j \in Starting'
    BY <2>1 DEF SameSlot
  <2> QED BY <2>1, <2>2 DEF JobOK, BeforeRun, InRun, InPause, Holdings, Executing,
                            Paused, Terminal, pauseVars
<1> QED BY <1>1, <1>2, <1>3 DEF IInv

LEMMA SubmitStep ==
    ASSUME IInv, NEW j \in Jobs, Submit(j) \/ SpawnFlowJob(j)
    PROVE  IInv'
<1>1. /\ status[j] = "none" /\ j \notin inFlight \union Queued
      /\ status' = [status EXCEPT ![j] = "received"]
      /\ tokens' = tokens \union {j}
      /\ UNCHANGED <<wakes, invocation, graphs, pauseVars, cancelRequested,
                     late, pauses>>
  BY DEF Submit, SpawnFlowJob, IInv, JobOK, BeforeRun
<1>2. CASE D!Route(j)
  <2>1. /\ Slots'
        /\ \/ j \in Starting' /\ j \in inFlight' /\ j \notin Queued'
           \/ j \in Queued' /\ j \notin Starting' /\ j \notin inFlight'
        /\ \A k \in Jobs \ {j} : SameSlot(k)
    BY <1>1, <1>2, RouteStep DEF IInv, Slots, SameSlot
  <2> QED BY <1>1, <2>1, AcceptedStep
<1>3. CASE UNCHANGED dispatcherVars
  <2>1. Slots' /\ \A k \in Jobs : SameSlot(k)
    BY <1>3 DEF IInv, dispatcherVars, Slots, SameSlot, Starting, Queued
  <2> QED BY <1>1, <2>1, AcceptedStep
<1> QED BY <1>2, <1>3 DEF Submit, SpawnFlowJob

LEMMA RunMicrotaskStep ==
    ASSUME IInv, RunMicrotask
    PROVE  IInv'
<1>1. PICK j \in Jobs :
        /\ j = Head(micro) /\ micro' = Tail(micro) /\ micro' \in Seq(Jobs)
        /\ Starting = {j} \union Starting' /\ j \notin Starting'
        /\ IsInjective(micro')
  BY TailRange, HeadTailProperties DEF RunMicrotask, IInv, Slots, Starting
<1>2. /\ inFlight' = inFlight /\ queue' = queue
      /\ status' = [status EXCEPT ![j] = "running"]
      /\ invocation' = [invocation EXCEPT ![j] = "run"]
      /\ graphs' = [graphs EXCEPT ![j] = "run"]
      /\ UNCHANGED <<wakes, pauseVars, tokens, cancelRequested, late, pauses>>
  BY <1>1 DEF RunMicrotask
<1>3. Slots'
  BY <1>1, <1>2 DEF IInv, Slots, Queued
<1>4. TypeOK'
  BY <1>1, <1>2 DEF IInv, TypeOK, Statuses, Callers, pauseVars
<1>5. ASSUME NEW k \in Jobs, k # j PROVE JobOK(k)'
  <2>1. SameRecords(k)
    BY <1>2, <1>5 DEF SameRecords, IInv, TypeOK, pauseVars
  <2>2. SameSlot(k)
    BY <1>1, <1>2, <1>5 DEF SameSlot, Queued
  <2> QED BY <1>5, <2>1, <2>2, Bystander DEF IInv
<1>6. JobOK(j)'
  <2>1. /\ JobOK(j) /\ status[j] = "received" /\ j \in inFlight
        /\ j \notin Queued /\ status'[j] = "running"
        /\ invocation'[j] = "run" /\ graphs'[j] = "run"
    BY <1>1, <1>2 DEF IInv, TypeOK, JobOK, BeforeRun, Slots
  <2>2. j \in inFlight' /\ j \notin Queued' /\ j \notin Starting'
    BY <1>1, <1>2, <2>1 DEF Queued
  <2> QED BY <1>2, <2>1, <2>2
          DEF JobOK, BeforeRun, InRun, InPause, Holdings, Executing, Paused,
              Terminal, pauseVars
<1> QED BY <1>3, <1>4, <1>5, <1>6 DEF IInv

\* A report while the graph runs, or by an executor left behind.
LEMMA AgentReportStep ==
    ASSUME IInv, NEW j \in Jobs,
           AgentFails(j) \/ AgentSeesCancel(j) \/ LateFailure(j)
    PROVE  IInv'
<1>1. JobOK(j) /\ Terminal \subseteq Statuses
  BY DEF IInv, Statuses
<1>2. PICK s \in {"failed", "cancelled"} :
        /\ Report("run", j, s)
        /\ s = "cancelled" => Executing(j)
        /\ status[j] \notin {"none", "received"}
        /\ wakes[j] = 0
  <2>1. CASE AgentFails(j) \/ AgentSeesCancel(j)
    <3>1. /\ Executing(j) /\ graphs[j] = "run"
          /\ status[j] \in {"running"} \union Terminal
          /\ wakes[j] = 0
      BY <1>1, <2>1 DEF AgentFails, AgentSeesCancel, JobOK, InRun, InPause, Paused,
                        Terminal
    <3> QED BY <2>1, <3>1 DEF AgentFails, AgentSeesCancel, Terminal
  <2>2. CASE LateFailure(j)
    BY <1>1, <2>2 DEF LateFailure, Drained, JobOK, BeforeRun, InRun, IInv, TypeOK,
                      Callers
  <2> QED BY <2>1, <2>2
<1>3. /\ UNCHANGED <<wakes, invocation, graphs, cancelRequested, pauses>>
      /\ late' \in {late, [late EXCEPT ![j] = "none"]}
  BY DEF AgentFails, AgentSeesCancel, LateFailure
<1>4. /\ Slots'
      /\ status' = [status EXCEPT ![j] = s]
      /\ pendingSuspends' = [pendingSuspends EXCEPT ![j] = "none"]
      /\ pendingApprovals' = pendingApprovals \ {j}
      /\ approvalTimers' = approvalTimers \ {j}
      /\ suspendTimers' = suspendTimers \ {j}
      /\ tokens' \subseteq tokens /\ tokens \ {j} \subseteq tokens'
      /\ s # "cancelled" => j \notin tokens'
      /\ j \notin inFlight' /\ j \notin Starting' /\ j \notin Queued'
      /\ \A k \in Jobs \ {j} : SameSlot(k) \/ PulledIn(k)
  BY <1>2, ReportStep DEF Callers, Terminal
<1>5. TypeOK'
  BY <1>3, <1>4 DEF IInv, TypeOK, Slots, Statuses, Terminal
<1>6. ASSUME NEW k \in Jobs, k # j PROVE JobOK(k)'
  <2>1. SameRecords(k)
    BY <1>3, <1>4, <1>6 DEF SameRecords, IInv, TypeOK
  <2> QED BY <1>4, <1>6, <2>1, Bystander DEF IInv
<1>7. JobOK(j)'
  <2>1. status'[j] = s /\ pendingSuspends'[j] = "none" /\ late'[j] # "resume"
    BY <1>1, <1>3, <1>4 DEF IInv, TypeOK, JobOK, InRun
  <2> QED BY <1>1, <1>2, <1>3, <1>4, <2>1
          DEF JobOK, BeforeRun, InRun, InPause, Holdings, Executing, Paused, Terminal
<1> QED BY <1>4, <1>5, <1>6, <1>7 DEF IInv

\* An executor loses against its deadline, or ends well after it has.
LEMMA LateStep ==
    ASSUME IInv, NEW j \in Jobs, AgentTimesOut(j) \/ LateSuccess(j)
    PROVE  IInv'
<1>1. /\ late' \in {[late EXCEPT ![j] = graphs[j]], [late EXCEPT ![j] = "none"]}
      /\ late'[j] # "none" => Executing(j)
      /\ UNCHANGED <<status, dispatcherVars, wakes, invocation, graphs, pauseVars,
                     tokens, cancelRequested, pauses>>
  BY DEF AgentTimesOut, LateSuccess, IInv, TypeOK
<1>2. Slots' /\ \A k \in Jobs : SameSlot(k)
  BY <1>1 DEF IInv, dispatcherVars, Slots, SameSlot, Starting, Queued
<1>3. TypeOK'
  <2>1. TypeOK /\ late' \in [Jobs -> Callers \union {"none"}]
    BY <1>1 DEF IInv, TypeOK
  <2> QED BY <1>1, <2>1 DEF TypeOK, dispatcherVars, pauseVars
<1>4. ASSUME NEW k \in Jobs, k # j PROVE JobOK(k)'
  <2>1. SameRecords(k)
    BY <1>1, <1>4 DEF SameRecords, IInv, TypeOK, pauseVars
  <2> QED BY <1>2, <1>4, <2>1, Bystander DEF IInv
<1>5. JobOK(j)'
  <2>1. JobOK(j) /\ late'[j] \in {graphs[j], "none"}
    BY <1>1 DEF IInv, TypeOK
  <2> QED BY <1>1, <1>2, <2>1
          DEF SameSlot, JobOK, BeforeRun, InRun, InPause, Holdings, Executing,
              Terminal, pauseVars
<1> QED BY <1>2, <1>3, <1>4, <1>5 DEF IInv

\* The graph ends with a result or an error.
LEMMA EndStep ==
    ASSUME IInv, NEW j \in Jobs, NEW verdict \in {"completed", "failed"},
           End(j, verdict)
    PROVE  IInv'
<1>1. /\ JobOK(j) /\ Executing(j) /\ wakes[j] = 0
      /\ status[j] \in {"running"} \union Terminal
      /\ j \notin pendingApprovals /\ j \notin approvalTimers
      /\ j \notin suspendTimers /\ pendingSuspends[j] = "none"
  BY DEF End, IInv, JobOK, InRun, InPause, Paused, Terminal
<1>2. /\ invocation' = [invocation EXCEPT ![j] = "none"]
      /\ graphs' = [graphs EXCEPT ![j] = "none"]
      /\ UNCHANGED <<wakes, cancelRequested, late, pauses>>
  BY DEF End
<1>3. /\ TypeOK' /\ Slots'
      /\ \A k \in Jobs \ {j} : SameRecords(k) /\ (SameSlot(k) \/ PulledIn(k))
      /\ status'[j] \in Terminal
      /\ j \notin pendingApprovals' /\ j \notin approvalTimers'
      /\ j \notin suspendTimers' /\ pendingSuspends'[j] = "none"
      /\ status'[j] # "cancelled" => j \notin tokens'
      /\ j \notin Starting' /\ j \notin Queued'
      /\ j \notin inFlight'
  <2>1. CASE status[j] \in {"failed", "cancelled"}
    <3>1. UNCHANGED <<status, dispatcherVars, pauseVars, tokens>>
      BY <2>1 DEF End
    <3> QED BY <1>1, <1>2, <2>1, <3>1
            DEF IInv, TypeOK, Slots, JobOK, BeforeRun, Holdings, SameRecords,
                SameSlot, Starting, Queued, Paused, Terminal, dispatcherVars,
                pauseVars
  <2>2. CASE status[j] \notin {"failed", "cancelled"}
    <3>1. /\ Report(invocation[j], j, verdict) /\ invocation[j] \in Callers
          /\ verdict \in Terminal /\ verdict # "cancelled"
          /\ status[j] \notin {"none", "received"}
      BY <1>1, <2>2 DEF End, Executing, IInv, TypeOK, Terminal
    <3>2. /\ Slots'
          /\ status' = [status EXCEPT ![j] = verdict]
          /\ pendingSuspends' = [pendingSuspends EXCEPT ![j] = "none"]
          /\ pendingApprovals' = pendingApprovals \ {j}
          /\ approvalTimers' = approvalTimers \ {j}
          /\ suspendTimers' = suspendTimers \ {j}
          /\ tokens' \subseteq tokens /\ tokens \ {j} \subseteq tokens'
          /\ j \notin tokens'
          /\ j \notin inFlight' /\ j \notin Starting' /\ j \notin Queued'
          /\ \A k \in Jobs \ {j} : SameSlot(k) \/ PulledIn(k)
      BY <3>1, ReportStep
    <3>3. TypeOK'
      BY <1>2, <3>1, <3>2 DEF IInv, TypeOK, Slots, Statuses
    <3>4. \A k \in Jobs \ {j} : SameRecords(k)
      BY <1>2, <3>2 DEF SameRecords, IInv, TypeOK
    <3> QED BY <3>1, <3>2, <3>3, <3>4 DEF IInv, TypeOK
  <2> QED BY <2>1, <2>2
<1>4. \A k \in Jobs : k # j => JobOK(k)'
  BY <1>3, Bystander DEF IInv
<1>5. JobOK(j)'
  <2>1. invocation'[j] = "none" /\ graphs'[j] = "none" /\ wakes'[j] = 0
    BY <1>1, <1>2 DEF IInv, TypeOK
  <2> QED BY <1>1, <1>2, <1>3, <2>1
          DEF JobOK, BeforeRun, InRun, InPause, Holdings, Executing, Paused, Terminal
<1> QED BY <1>3, <1>4, <1>5 DEF IInv

\* The graph ends with an interrupt.
LEMMA PauseStep ==
    ASSUME IInv, NEW j \in Jobs, NEW trigger \in Triggers, GraphPauses(j, trigger)
    PROVE  IInv'
<1>1. /\ JobOK(j) /\ Executing(j) /\ graphs[j] = "run" /\ wakes[j] = 0
      /\ status[j] \in {"running"} \union Terminal
      /\ j \notin pendingApprovals /\ j \notin approvalTimers
      /\ j \notin suspendTimers /\ pendingSuspends[j] = "none"
      /\ pauses[j] + 1 \in 0..MaxPauses
  BY LifecycleAssumption
  DEF GraphPauses, IInv, TypeOK, JobOK, InRun, InPause, Paused, Terminal
<1>2. /\ UNCHANGED <<inFlight, queue, micro, wakes, graphs, tokens,
                     cancelRequested, late>>
      /\ invocation' = [invocation EXCEPT ![j] = "none"]
      /\ pauses' = [pauses EXCEPT ![j] = @ + 1]
  BY DEF GraphPauses, dispatcherVars
<1>3. \/ /\ status' = [status EXCEPT ![j] = "awaiting-approval"]
         /\ pendingApprovals' = pendingApprovals \union {j}
         /\ approvalTimers' = approvalTimers \union {j}
         /\ UNCHANGED <<pendingSuspends, suspendTimers>>
      \/ /\ status' = [status EXCEPT ![j] = "suspended"]
         /\ pendingSuspends' = [pendingSuspends EXCEPT ![j] = trigger]
         /\ trigger \in {"timer", "event"}
         /\ suspendTimers' = IF trigger = "timer" THEN suspendTimers \union {j}
                             ELSE suspendTimers
         /\ UNCHANGED <<pendingApprovals, approvalTimers>>
  BY DEF GraphPauses, Triggers
<1>4. Slots' /\ \A k \in Jobs : SameSlot(k)
  BY <1>2 DEF IInv, Slots, SameSlot, Starting, Queued
<1>5. TypeOK'
  <2>1. pauses' \in [Jobs -> 0..MaxPauses]
    BY <1>1, <1>2 DEF IInv, TypeOK
  <2>2. invocation' \in [Jobs -> Callers \union {"none"}]
    BY <1>2 DEF IInv, TypeOK
  <2>3. /\ status' \in [Jobs -> Statuses]
        /\ pendingSuspends' \in [Jobs -> {"none", "timer", "event"}]
    <3>1. /\ status \in [Jobs -> Statuses]
          /\ pendingSuspends \in [Jobs -> {"none", "timer", "event"}]
          /\ {"awaiting-approval", "suspended"} \subseteq Statuses
      BY DEF IInv, TypeOK, Statuses, Paused
    <3> QED BY <3>1, <1>3
  <2>4. /\ pendingApprovals' \in SUBSET Jobs /\ approvalTimers' \in SUBSET Jobs
        /\ suspendTimers' \in SUBSET Jobs
    BY <1>3 DEF IInv, TypeOK
  <2> QED BY <1>2, <2>1, <2>2, <2>3, <2>4 DEF IInv, TypeOK
<1>6. ASSUME NEW k \in Jobs, k # j PROVE JobOK(k)'
  <2>1. SameRecords(k)
    BY <1>2, <1>3, <1>6 DEF SameRecords, IInv, TypeOK
  <2> QED BY <1>4, <1>6, <2>1, Bystander DEF IInv
<1>7. JobOK(j)'
  <2>1. /\ invocation'[j] = "none" /\ graphs'[j] = "run" /\ wakes'[j] = 0
        /\ late'[j] = late[j]
    BY <1>1, <1>2 DEF IInv, TypeOK
  <2>2. \/ /\ status'[j] = "awaiting-approval" /\ pendingSuspends'[j] = "none"
           /\ j \in pendingApprovals' /\ j \in approvalTimers'
           /\ j \notin suspendTimers'
        \/ /\ status'[j] = "suspended" /\ pendingSuspends'[j] \in {"timer", "event"}
           /\ j \notin pendingApprovals' /\ j \notin approvalTimers'
           /\ j \in suspendTimers' <=> pendingSuspends'[j] = "timer"
    BY <1>1, <1>3 DEF IInv, TypeOK
  <2>3. BeforeRun(j)' /\ InRun(j)' /\ Holdings(j)'
    BY <1>1, <1>4, <2>1, <2>2
    DEF SameSlot, JobOK, BeforeRun, InRun, Holdings, Executing, Paused, Terminal
  <2>4. InPause(j)'
    BY <2>1, <2>2 DEF InPause, Paused
  <2> QED BY <2>3, <2>4 DEF JobOK
<1> QED BY <1>4, <1>5, <1>6, <1>7 DEF IInv

\* executeResume for paused jobs that have no wake queued.
LEMMA ExecuteResumeStep ==
    ASSUME IInv, NEW W \in SUBSET Jobs,
           \A j \in W : status[j] \in Paused /\ wakes[j] = 0,
           ExecuteResume(W)
    PROVE  IInv'
<1>1. Slots' /\ \A k \in Jobs : SameSlot(k)
  BY DEF ExecuteResume, dispatcherVars, IInv, Slots, SameSlot, Starting, Queued
<1>2. TypeOK'
  <2>1. \A k \in Jobs : wakes'[k] \in Nat
    BY DEF ExecuteResume, IInv, TypeOK
  <2>2. wakes' \in [Jobs -> Nat]
    BY <2>1 DEF ExecuteResume
  <2> QED BY <2>2 DEF ExecuteResume, IInv, TypeOK, dispatcherVars
<1>3. ASSUME NEW k \in Jobs, k \notin W PROVE JobOK(k)'
  <2>1. SameRecords(k)
    BY <1>3 DEF ExecuteResume, SameRecords
  <2> QED BY <1>1, <1>3, <2>1, Bystander DEF IInv
<1>4. ASSUME NEW k \in W PROVE JobOK(k)'
  <2>1. /\ JobOK(k) /\ status[k] \in Paused /\ wakes'[k] = 1
        /\ status'[k] = status[k] /\ invocation'[k] = invocation[k]
        /\ graphs'[k] = graphs[k] /\ late'[k] = late[k]
        /\ pendingSuspends'[k] = "none"
        /\ k \notin pendingApprovals' /\ k \notin approvalTimers'
        /\ k \notin suspendTimers'
    BY <1>4 DEF ExecuteResume, IInv
  <2> QED BY <1>1, <2>1
          DEF SameSlot, JobOK, BeforeRun, InRun, InPause, Holdings, Executing,
              Paused, Terminal
<1> QED BY <1>1, <1>2, <1>3, <1>4 DEF IInv

\* A reviewer, an event or a timer wakes paused jobs.  A timer whose pause is
\* over would only disarm itself, but there is none.
LEMMA ResumeStep ==
    ASSUME IInv,
           \/ \E W \in SUBSET Jobs : IngestEvent(W)
           \/ \E j \in Jobs : Resume(j) \/ SlaExpires(j) \/ SuspendTimerFires(j)
    PROVE  IInv'
<1>1. PICK W \in SUBSET Jobs :
        /\ \A j \in W : status[j] \in Paused /\ wakes[j] = 0
        /\ ExecuteResume(W)
  <2>1. ASSUME NEW W \in SUBSET Jobs, IngestEvent(W)
        PROVE  /\ \A j \in W : status[j] \in Paused /\ wakes[j] = 0
               /\ ExecuteResume(W)
    BY <2>1 DEF IngestEvent, Drained, Paused
  <2>2. ASSUME NEW j \in Jobs, Resume(j)
        PROVE  status[j] \in Paused /\ wakes[j] = 0 /\ ExecuteResume({j})
    BY <2>2 DEF Resume, Drained
  <2>3. ASSUME NEW j \in Jobs, SlaExpires(j)
        PROVE  status[j] \in Paused /\ wakes[j] = 0 /\ ExecuteResume({j})
    BY <2>3 DEF SlaExpires, Drained, Paused, IInv, JobOK, InPause
  <2>4. ASSUME NEW j \in Jobs, SuspendTimerFires(j)
        PROVE  status[j] \in Paused /\ wakes[j] = 0 /\ ExecuteResume({j})
    BY <2>4 DEF SuspendTimerFires, Drained, Paused, IInv, JobOK, InPause
  <2> QED BY <2>1, <2>2, <2>3, <2>4
<1> QED BY <1>1, ExecuteResumeStep

LEMMA RunWakeStep ==
    ASSUME IInv, NEW j \in Jobs, RunWake(j)
    PROVE  IInv'
<1>1. /\ JobOK(j) /\ status[j] \in Paused /\ wakes[j] = 1 /\ graphs[j] = "run"
      /\ j \notin pendingApprovals /\ j \notin approvalTimers
      /\ j \notin suspendTimers /\ pendingSuspends[j] = "none"
  BY DEF RunWake, IInv, JobOK, InRun, InPause
<1>2. /\ wakes' = [wakes EXCEPT ![j] = 0]
      /\ status' = [status EXCEPT ![j] = "running"]
      /\ invocation' = [invocation EXCEPT ![j] = "resume"]
      /\ graphs' = graphs
      /\ UNCHANGED <<inFlight, queue, micro, pauseVars, tokens, cancelRequested,
                     late, pauses>>
  <2>1. wakes' = [wakes EXCEPT ![j] = 0]
    BY <1>1 DEF RunWake, IInv, TypeOK
  <2> QED BY <1>1, <2>1 DEF RunWake, IInv, TypeOK, dispatcherVars
<1>3. Slots' /\ \A k \in Jobs : SameSlot(k)
  BY <1>2 DEF IInv, Slots, SameSlot, Starting, Queued
<1>4. TypeOK'
  BY <1>2 DEF IInv, TypeOK, Statuses, Callers, pauseVars
<1>5. ASSUME NEW k \in Jobs, k # j PROVE JobOK(k)'
  <2>1. SameRecords(k)
    BY <1>2, <1>5 DEF SameRecords, IInv, TypeOK, pauseVars
  <2> QED BY <1>3, <1>5, <2>1, Bystander DEF IInv
<1>6. JobOK(j)'
  <2>1. /\ status'[j] = "running" /\ invocation'[j] = "resume" /\ wakes'[j] = 0
        /\ graphs'[j] = "run" /\ late'[j] = late[j]
    BY <1>1, <1>2 DEF IInv, TypeOK
  <2> QED BY <1>1, <1>2, <1>3, <2>1
          DEF SameSlot, JobOK, BeforeRun, InRun, InPause, Holdings, Executing,
              Paused, Terminal, pauseVars
<1> QED BY <1>3, <1>4, <1>5, <1>6 DEF IInv

\* Steps that change nothing the invariant speaks of, a cancellation included.
LEMMA QuietStep ==
    ASSUME IInv, cancelRequested' \in [Jobs -> {"no", "asked", "seen"}],
           UNCHANGED <<status, dispatcherVars, wakes, invocation, graphs,
                       pauseVars, tokens, late, pauses>>
    PROVE  IInv'
<1>1. Slots' /\ \A k \in Jobs : SameSlot(k) /\ SameRecords(k)
  BY DEF IInv, dispatcherVars, pauseVars, Slots, SameSlot, SameRecords, Starting,
         Queued
<1>2. TypeOK'
  BY DEF IInv, TypeOK, dispatcherVars, pauseVars
<1>3. \A k \in Jobs : JobOK(k)'
  BY <1>1, Bystander DEF IInv
<1> QED BY <1>1, <1>2, <1>3 DEF IInv

-----------------------------------------------------------------------------
\* IInv is inductive.
LEMMA NextIInv == IInv /\ [Next]_vars => IInv'
<1> SUFFICES ASSUME IInv, [Next]_vars PROVE IInv'
  OBVIOUS
<1>1. CASE UNCHANGED vars
  BY <1>1, QuietStep DEF vars, IInv, TypeOK
<1>2. CASE RunMicrotask
  BY <1>2, RunMicrotaskStep
<1>3. CASE \E W \in SUBSET Jobs : IngestEvent(W)
  BY <1>3, ResumeStep
<1>4. ASSUME NEW j \in Jobs, Submit(j) \/ SpawnFlowJob(j) PROVE IInv'
  BY <1>4, SubmitStep
<1>5. ASSUME NEW j \in Jobs, AgentFails(j) \/ AgentSeesCancel(j) \/ LateFailure(j)
      PROVE  IInv'
  BY <1>5, AgentReportStep
<1>6. ASSUME NEW j \in Jobs, AgentTimesOut(j) \/ LateSuccess(j) PROVE IInv'
  BY <1>6, LateStep
<1>7. ASSUME NEW j \in Jobs, GraphEnds(j) PROVE IInv'
  <2>1. CASE GraphCompletes(j) \/ GraphFails(j)
    BY <2>1, EndStep DEF GraphCompletes, GraphFails
  <2>2. CASE \E trigger \in Triggers : GraphPauses(j, trigger)
    BY <2>2, PauseStep
  <2> QED BY <1>7, <2>1, <2>2 DEF GraphEnds
<1>8. ASSUME NEW j \in Jobs, Resume(j) \/ SlaExpires(j) \/ SuspendTimerFires(j)
      PROVE  IInv'
  BY <1>8, ResumeStep
<1>9. ASSUME NEW j \in Jobs, RunWake(j) PROVE IInv'
  BY <1>9, RunWakeStep
<1>10. ASSUME NEW j \in Jobs, Cancel(j) PROVE IInv'
  BY <1>10, QuietStep DEF Cancel, IInv, TypeOK
<1> QED BY <1>1, <1>2, <1>3, <1>4, <1>5, <1>6, <1>7, <1>8, <1>9, <1>10 DEF Next

\* Every reachable state satisfies the inductive invariant.
THEOREM Invariance == Spec => []IInv
BY InitIInv, NextIInv, PTL DEF Spec

\* Type correctness of the server's state.
THEOREM TypeCorrect == Spec => []TypeOK
<1>1. IInv => TypeOK
  BY DEF IInv
<1> QED BY <1>1, Invariance, PTL

\* A queued resumeJob meets a paused job: its guard never throws.
THEOREM ResumesAreGuarded == Spec => []ResumesMeetPausedJobs
<1>1. IInv => ResumesMeetPausedJobs
  BY DEF IInv, JobOK, InPause, InRun, ResumesMeetPausedJobs, Paused, Terminal
<1> QED BY <1>1, Invariance, PTL

\* Requests and deadlines are there while a job is paused, and only then.
THEOREM PausesAreRecorded == Spec => [](PausesAreArmed /\ NoStaleRequests)
<1>1. IInv => PausesAreArmed /\ NoStaleRequests
  BY DEF IInv, JobOK, InPause, PausesAreArmed, NoStaleRequests
<1> QED BY <1>1, Invariance, PTL

\* Every slot is held by a run that starts, goes on or can be resumed.
THEOREM SlotsBelongToRuns == Spec => []NoSlotLeaks
<1>1. IInv => NoSlotLeaks
  BY DEF IInv, TypeOK, JobOK, InRun, Holdings, NoSlotLeaks, Starting
<1> QED BY <1>1, Invariance, PTL

\* A first invocation that has not failed holds a slot while it goes on.
THEOREM CleanRunsHaveSlots == Spec => []CleanRunsHoldSlots
<1>1. IInv => CleanRunsHoldSlots
  BY DEF IInv, JobOK, Holdings, CleanRunsHoldSlots
<1> QED BY <1>1, Invariance, PTL

\* Completed and failed jobs feed no token counter.
THEOREM TokensAreDetached == Spec => []TokensDetach
<1>1. IInv => TokensDetach
  BY DEF IInv, JobOK, Holdings, TokensDetach
<1> QED BY <1>1, Invariance, PTL

-----------------------------------------------------------------------------
(* The lifecycle drives the dispatcher as Dispatcher's own Next does: a job *)
(* reports its end only when its closure has run.                           *)

\* What this rests on, of each job.
Routed(j) ==
    /\ status[j] = "none" => j \notin inFlight \union Queued
    /\ j \in Starting \union Queued => status[j] = "received"
    /\ status[j] \in {"none", "received"} => ~ Executing(j) /\ late[j] = "none"

LEMMA ReportDrives ==
    ASSUME Slots, NEW j \in Jobs, D!OnJobTerminal(j), j \notin Starting,
           j \notin Queued
    PROVE  D!Terminate(j) \/ UNCHANGED dispatcherVars
<1>1. CASE j \notin inFlight
  BY <1>1 DEF D!OnJobTerminal, dispatcherVars
<1>2. CASE j \in inFlight
  <2>1. PICK pulled \in SUBSET Queued :
          /\ inFlight' = (inFlight \ {j}) \union pulled
          /\ Starting' = Starting \union pulled
    BY TerminalStep
  <2>2. inFlight' \ Starting' = (inFlight \ Starting) \ {j}
    BY <2>1, <1>2 DEF Slots
  <2> QED BY <1>2, <2>2 DEF D!Terminate, Starting
<1> QED BY <1>1, <1>2

LEMMA DispatcherStep ==
    ASSUME Slots, \A j \in Jobs : Routed(j), [Next]_vars
    PROVE  [D!Next]_(D!vars)
<1>1. ASSUME UNCHANGED dispatcherVars PROVE UNCHANGED D!vars
  BY <1>1 DEF dispatcherVars, D!vars
<1>2. CASE RunMicrotask
  <2>1. /\ micro # <<>> /\ micro' = Tail(micro) /\ inFlight' = inFlight
        /\ queue' = queue
    BY <1>2 DEF RunMicrotask
  <2>2. /\ Range(micro) = {Head(micro)} \union Range(Tail(micro))
        /\ Head(micro) \notin Range(Tail(micro))
        /\ Head(micro) \in inFlight
    BY <2>1, TailRange DEF Slots, Starting
  <2>3. inFlight \ Range(Tail(micro))
          = (inFlight \ Range(micro)) \union {Head(micro)}
    BY <2>2
  <2> QED BY <2>1, <2>3 DEF D!Next, D!RunMicrotask
<1>3. ASSUME NEW j \in Jobs, Submit(j) \/ SpawnFlowJob(j)
      PROVE  [D!Next]_(D!vars)
  <2>1. CASE D!Route(j)
    <3>1. j \notin inFlight \union Queued
      BY <1>3 DEF Submit, SpawnFlowJob, Routed
    <3>2. inFlight' \ Starting' = inFlight \ Starting
      BY <2>1, <3>1, RouteStep DEF Slots
    <3> QED BY <2>1, <3>1, <3>2 DEF D!Next, D!Submit, Queued, Starting, D!Range, Range
  <2>2. CASE UNCHANGED dispatcherVars
    BY <2>2, <1>1
  <2> QED BY <1>3, <2>1, <2>2 DEF Submit, SpawnFlowJob
<1>4. ASSUME NEW j \in Jobs, NEW caller, NEW s \in Terminal,
             Report(caller, j, s), status[j] \notin {"none", "received"}
      PROVE  [D!Next]_(D!vars)
  <2>1. j \notin Starting /\ j \notin Queued
    BY <1>4 DEF Routed
  <2>2. D!OnJobTerminal(j) \/ UNCHANGED dispatcherVars
    BY <1>4 DEF Report, RunHooks, ResumeHooks
  <2> QED BY <1>1, <2>1, <2>2, ReportDrives DEF D!Next
<1>5. ASSUME NEW j \in Jobs, AgentFails(j) \/ AgentSeesCancel(j) \/ LateFailure(j)
      PROVE  [D!Next]_(D!vars)
  <2>1. status[j] \notin {"none", "received"}
    BY <1>5 DEF AgentFails, AgentSeesCancel, LateFailure, Routed
  <2>2. \E caller, s : s \in Terminal /\ Report(caller, j, s)
    BY <1>5 DEF AgentFails, AgentSeesCancel, LateFailure, Terminal
  <2> QED BY <1>4, <2>1, <2>2
<1>6. ASSUME NEW j \in Jobs, GraphEnds(j)
      PROVE  [D!Next]_(D!vars)
  <2>1. CASE UNCHANGED dispatcherVars
    BY <1>1, <2>1
  <2>2. ASSUME NEW verdict \in {"completed", "failed"}, End(j, verdict),
               ~ UNCHANGED dispatcherVars
        PROVE  [D!Next]_(D!vars)
    <3>1. /\ Report(invocation[j], j, verdict)
          /\ verdict \in Terminal /\ status[j] \notin {"none", "received"}
      BY <2>2 DEF End, Routed, Terminal
    <3> QED BY <3>1, <1>4
  <2> QED BY <1>6, <2>1, <2>2 DEF GraphEnds, GraphCompletes, GraphFails, GraphPauses
<1>7. CASE \/ \E W \in SUBSET Jobs : IngestEvent(W)
           \/ \E j \in Jobs :
                \/ AgentTimesOut(j) \/ LateSuccess(j) \/ Cancel(j)
                \/ Resume(j) \/ SlaExpires(j) \/ SuspendTimerFires(j) \/ RunWake(j)
  BY <1>1, <1>7 DEF IngestEvent, AgentTimesOut, LateSuccess, Cancel, Resume,
                    SlaExpires, SuspendTimerFires, RunWake, ExecuteResume
<1>8. CASE UNCHANGED vars
  BY <1>1, <1>8 DEF vars, dispatcherVars
<1> QED BY <1>2, <1>3, <1>5, <1>6, <1>7, <1>8 DEF Next

\* The slots, the queue and the closures of the server behave as Dispatcher
\* says: what is proved of it there (bounded slots, work conservation, FIFO
\* order) is true of the server.
THEOREM DispatcherRefinement == Spec => ImplementsDispatcher
<1>1. Init => D!Init
  BY DEF Init, D!Init
<1>2. IInv /\ [Next]_vars => [D!Next]_(D!vars)
  BY DispatcherStep DEF IInv, JobOK, BeforeRun, Routed
<1> QED
  BY <1>1, <1>2, InitIInv, NextIInv, PTL DEF Spec, ImplementsDispatcher

-----------------------------------------------------------------------------
(* A job that is finished for good: no agent, executor, timer or wake of it *)
(* is left that could report.                                               *)

LEMMA FinishedStep ==
    ASSUME IInv, [Next]_vars, NEW j \in Jobs,
           status[j] \in Terminal, ~ Executing(j), late[j] = "none"
    PROVE  status'[j] = status[j]
<1>1. /\ status \in [Jobs -> Statuses] /\ JobOK(j)
      /\ wakes[j] = 0 /\ j \notin Starting
  BY DEF IInv, TypeOK, JobOK, BeforeRun, InPause, Paused, Terminal
<1>2. CASE UNCHANGED vars
  BY <1>2 DEF vars
<1>3. CASE RunMicrotask
  <2>1. Head(micro) \in Starting /\ status' = [status EXCEPT ![Head(micro)] = "running"]
    BY <1>3, TailRange DEF RunMicrotask, IInv, Slots, Starting
  <2> QED BY <1>1, <2>1
<1>4. CASE \E W \in SUBSET Jobs : IngestEvent(W)
  BY <1>4 DEF IngestEvent, ExecuteResume
<1>5. ASSUME NEW k \in Jobs, Submit(k) \/ SpawnFlowJob(k)
      PROVE  status'[j] = status[j]
  BY <1>1, <1>5 DEF Submit, SpawnFlowJob, Terminal
<1>6. ASSUME NEW k \in Jobs, AgentFails(k) \/ AgentSeesCancel(k) \/ LateFailure(k)
      PROVE  status'[j] = status[j]
  BY <1>1, <1>6 DEF AgentFails, AgentSeesCancel, LateFailure, Report
<1>7. ASSUME NEW k \in Jobs, GraphEnds(k)
      PROVE  status'[j] = status[j]
  BY <1>1, <1>7 DEF GraphEnds, GraphCompletes, GraphFails, GraphPauses, End, Report
<1>8. ASSUME NEW k \in Jobs,
             \/ AgentTimesOut(k) \/ LateSuccess(k) \/ Cancel(k)
             \/ Resume(k) \/ SlaExpires(k) \/ SuspendTimerFires(k)
      PROVE  status'[j] = status[j]
  BY <1>8 DEF AgentTimesOut, LateSuccess, Cancel, Resume, SlaExpires,
              SuspendTimerFires, ExecuteResume
<1>9. ASSUME NEW k \in Jobs, RunWake(k)
      PROVE  status'[j] = status[j]
  BY <1>1, <1>9 DEF RunWake
<1> QED BY <1>2, <1>3, <1>4, <1>5, <1>6, <1>7, <1>8, <1>9 DEF Next

\* No late reviewer, event, timer or cancellation changes a finished job.
THEOREM FinishedIsFinal == Spec => FinishedStaysFinished
<1>1. IInv /\ [Next]_vars =>
        [\A j \in Jobs :
            status[j] \in Terminal /\ ~ Executing(j) /\ late[j] = "none"
                => status'[j] = status[j]]_vars
  BY FinishedStep
<1> QED BY <1>1, InitIInv, NextIInv, PTL DEF Spec, FinishedStaysFinished

-----------------------------------------------------------------------------
(***************************************************************************)
(* PauseRecovery.  IInv is not an invariant of it: a job that comes back   *)
(* from its record has no slot and no cached graph, and one whose record   *)
(* was written late may come back in a status it was not paused in.  So    *)
(* there are two invariants per job.  Sound(j) holds whatever overtakes    *)
(* what; Orderly(j) holds while no step of j has overtaken its file        *)
(* operations, and says which operation can be under way in which status   *)
(* and what the file holds then.                                           *)
(***************************************************************************)

Claimants == Reviewers \union {Nobody}
Records == [state : {"whole"}, status : Statuses, trigger : Triggers,
            claim : Claimants]
Files == Records \union {NoFile, Torn}
FileOps == [call : {"mkdir"}, trigger : Triggers] \union {Rm}
           \union [call : {"read"}, claim : Claimants]
           \union [call : {"write"}, record : Records]

\* Every variable has its type: the server's, the files and what is under way.
RecoveryTypeOK ==
    /\ TypeOK
    /\ file \in [Jobs -> Files]
    /\ ops \in [Jobs -> Seq(FileOps)]
    /\ claims \in [Jobs -> Claimants]
    /\ restarts \in 0..MaxRestarts
    /\ overtaken \in SUBSET Jobs

Sound(j) ==
    /\ status[j] = "none" => j \notin inFlight \union Queued
    /\ j \in Starting \union Queued => status[j] = "received"
    /\ status[j] \in {"none", "received"} => ~ Executing(j) /\ late[j] = "none"
    /\ Executing(j) => status[j] \in {"running"} \union Terminal
    /\ wakes[j] \in {0, 1}
    /\ wakes[j] = 1 => status[j] \in Paused
    /\ claims[j] # Nobody => j \in pendingApprovals

\* The record of a job that waits.
TriggerOf(j) ==
    IF status[j] = "awaiting-approval" THEN "approval" ELSE pendingSuspends[j]
Current(j) == Record(status[j], TriggerOf(j), claims[j])

Waits(j) == status[j] \in Paused /\ wakes[j] = 0

\* What a whole record says of a job is a pause the job can be in.
Fits(r) ==
    \/ r.status = "awaiting-approval" /\ r.trigger = "approval"
    \/ r.status = "suspended" /\ r.trigger \in {"timer", "event"} /\ r.claim = Nobody

\* The file is up to date, or one operation is under way that makes it so.
OnRecord(j) ==
    /\ ops[j] = <<>>
    /\ wakes[j] = 0
    /\ Whole(file[j]) <=> status[j] \in Paused
    /\ Whole(file[j]) => file[j] = Current(j)
BeingDeleted(j) ==
    /\ ops[j] = <<Rm>>
    /\ status[j] \notin {"none", "received"}
    /\ status[j] \in Paused => wakes[j] = 1
BeingMade(j) == ops[j] = <<Mkdir(TriggerOf(j))>> /\ Waits(j) /\ claims[j] = Nobody
BeingSaved(j) == ops[j] = <<Write(Current(j))>> /\ Waits(j)
BeingReread(j) ==
    /\ ops[j] = <<Read(claims[j])>>
    /\ Waits(j)
    /\ Whole(file[j])
    /\ [file[j] EXCEPT !.claim = claims[j]] = Current(j)

Orderly(j) ==
    /\ InPause(j)
    /\ Whole(file[j]) => Fits(file[j])
    /\ OnRecord(j) \/ BeingDeleted(j) \/ BeingMade(j) \/ BeingSaved(j) \/ BeingReread(j)

JobInv(j) == Sound(j) /\ (j \notin overtaken => Orderly(j))

RInv == RecoveryTypeOK /\ Slots /\ \A j \in Jobs : JobInv(j)

-----------------------------------------------------------------------------
\* The server starts with no job, no file and no file operation.
LEMMA InitRInv == InitRecovery => RInv
<1> SUFFICES ASSUME InitRecovery PROVE RInv
  OBVIOUS
<1>1. IInv
  BY InitIInv DEF InitRecovery
<1>2. RecoveryTypeOK
  <2>1. <<>> \in Seq(FileOps)
    BY EmptySeq
  <2> QED BY <1>1, <2>1, RecoveryAssumption
          DEF IInv, InitRecovery, RecoveryTypeOK, Files, Claimants
<1>3. ASSUME NEW j \in Jobs PROVE JobInv(j)
  <2>1. /\ status[j] = "none" /\ wakes[j] = 0 /\ invocation[j] = "none"
        /\ late[j] = "none" /\ claims[j] = Nobody /\ ops[j] = <<>>
        /\ ~ Whole(file[j])
    BY DEF InitRecovery, Init, Whole, NoFile
  <2>2. Sound(j)
    BY <1>1, <2>1 DEF IInv, JobOK, BeforeRun, Sound, Executing, Paused
  <2>3. Orderly(j)
    BY <1>1, <2>1 DEF IInv, JobOK, Orderly, OnRecord, Paused
  <2> QED BY <2>2, <2>3 DEF JobInv
<1> QED BY <1>1, <1>2, <1>3 DEF RInv, IInv

\* A job that a step is not about stays as it is, but for a slot that is freed.
LEMMA UntouchedJob ==
    ASSUME RInv, NEW k \in Jobs, SameRecords(k), SameSlot(k) \/ PulledIn(k),
           file'[k] = file[k], ops'[k] = ops[k], claims'[k] = claims[k],
           overtaken \subseteq overtaken'
    PROVE  JobInv(k)'
<1>1. JobInv(k)
  BY DEF RInv
<1>2. Sound(k)'
  <2>1. CASE SameSlot(k)
    BY <1>1, <2>1 DEF JobInv, Sound, SameRecords, SameSlot, Executing
  <2>2. CASE PulledIn(k)
    <3>1. status[k] = "received"
      BY <1>1, <2>2 DEF JobInv, Sound, PulledIn
    <3> QED BY <1>1, <2>2, <3>1 DEF JobInv, Sound, SameRecords, PulledIn, Executing
  <2> QED BY <2>1, <2>2
<1>3. ASSUME k \notin overtaken' PROVE Orderly(k)'
  <2>1. Orderly(k)
    BY <1>1, <1>3 DEF JobInv
  <2>2. InPause(k)'
    BY <2>1 DEF Orderly, InPause, SameRecords
  <2>3. TriggerOf(k)' = TriggerOf(k) /\ Current(k)' = Current(k)
    BY DEF TriggerOf, Current, SameRecords
  <2>4. Waits(k)' = Waits(k)
    BY DEF Waits, SameRecords
  <2>5. /\ OnRecord(k) => OnRecord(k)'
        /\ BeingDeleted(k) => BeingDeleted(k)'
        /\ BeingMade(k) => BeingMade(k)'
        /\ BeingSaved(k) => BeingSaved(k)'
        /\ BeingReread(k) => BeingReread(k)'
    BY <2>3, <2>4
    DEF SameRecords, OnRecord, BeingDeleted, BeingMade, BeingSaved, BeingReread
  <2> QED BY <2>1, <2>2, <2>5 DEF Orderly
<1> QED BY <1>2, <1>3 DEF JobInv

\* A job that takes a step and is not overtaken had no file operation under way.
LEMMA StepFindsRecord ==
    ASSUME RInv, NEW W \in SUBSET Jobs, Step(W)
    PROVE  /\ overtaken \subseteq overtaken'
           /\ \A j \in W : j \notin overtaken' =>
                 Sound(j) /\ Orderly(j) /\ OnRecord(j)
<1>1. overtaken \subseteq overtaken'
  BY DEF Step
<1>2. ASSUME NEW j \in W, j \notin overtaken'
      PROVE  Sound(j) /\ Orderly(j) /\ OnRecord(j)
  <2>1. j \notin overtaken /\ ops[j] = <<>>
    BY <1>2 DEF Step
  <2>2. Sound(j) /\ Orderly(j)
    BY <2>1 DEF RInv, JobInv
  <2>3. OnRecord(j)
    BY <2>1, <2>2 DEF Orderly, BeingDeleted, BeingMade, BeingSaved, BeingReread
  <2> QED BY <2>2, <2>3
<1> QED BY <1>1, <1>2

\* Appending the first operation.
LEMMA FirstOp ==
    ASSUME NEW S, NEW op \in S
    PROVE  Append(<<>>, op) = <<op>>
OBVIOUS

LEMMA OpTypes ==
    /\ Rm \in FileOps
    /\ \A t \in Triggers : Mkdir(t) \in FileOps
    /\ \A c \in Claimants : Read(c) \in FileOps
    /\ \A r \in Records : Write(r) \in FileOps
BY DEF FileOps, Rm, Mkdir, Read, Write

-----------------------------------------------------------------------------
(* Types, from the types alone and what Slots says of the dispatcher.       *)

LEMMA ReportTypes ==
    ASSUME TypeOK, Slots', NEW j \in Jobs, NEW caller, NEW s \in Terminal,
           Report(caller, j, s)
    PROVE  /\ status' \in [Jobs -> Statuses]
           /\ inFlight' \in SUBSET Jobs /\ queue' \in Seq(Jobs) /\ micro' \in Seq(Jobs)
           /\ pendingApprovals' \in SUBSET Jobs /\ approvalTimers' \in SUBSET Jobs
           /\ pendingSuspends' \in [Jobs -> {"none", "timer", "event"}]
           /\ suspendTimers' \in SUBSET Jobs
           /\ tokens' \in SUBSET Jobs
<1>1. status' \in [Jobs -> Statuses]
  BY DEF TypeOK, Report, Statuses
<1>2. /\ pendingApprovals' \in SUBSET Jobs /\ approvalTimers' \in SUBSET Jobs
      /\ pendingSuspends' \in [Jobs -> {"none", "timer", "event"}]
      /\ suspendTimers' \in SUBSET Jobs
      /\ tokens' \in SUBSET Jobs
  BY DEF TypeOK, Report, RunHooks, ResumeHooks, ForgetPause, ClearTimers, pauseVars
<1> QED BY <1>1, <1>2 DEF Slots

LEMMA ExecuteResumeTypes ==
    ASSUME TypeOK, NEW W \in SUBSET Jobs, ExecuteResume(W)
    PROVE  TypeOK'
<1>1. \A k \in Jobs : wakes[k] \in Nat /\ wakes[k] + 1 \in Nat
  BY DEF TypeOK
<1>2. wakes' \in [Jobs -> Nat]
  BY <1>1 DEF ExecuteResume
<1>3. pendingSuspends' \in [Jobs -> {"none", "timer", "event"}]
  BY DEF ExecuteResume, TypeOK
<1> QED BY <1>2, <1>3 DEF ExecuteResume, TypeOK, dispatcherVars

\* The two kinds of pause.
LEMMA PauseEffect ==
    ASSUME NEW j \in Jobs, NEW trigger \in Triggers, GraphPauses(j, trigger)
    PROVE  \/ /\ trigger = "approval"
              /\ status' = [status EXCEPT ![j] = "awaiting-approval"]
              /\ pendingApprovals' = pendingApprovals \union {j}
              /\ approvalTimers' = approvalTimers \union {j}
              /\ UNCHANGED <<pendingSuspends, suspendTimers>>
           \/ /\ trigger \in {"timer", "event"}
              /\ status' = [status EXCEPT ![j] = "suspended"]
              /\ pendingSuspends' = [pendingSuspends EXCEPT ![j] = trigger]
              /\ suspendTimers' = IF trigger = "timer" THEN suspendTimers \union {j}
                                  ELSE suspendTimers
              /\ UNCHANGED <<pendingApprovals, approvalTimers>>
BY DEF GraphPauses, Triggers

LEMMA PauseTypes ==
    ASSUME TypeOK, NEW j \in Jobs, NEW trigger \in Triggers,
           GraphPauses(j, trigger)
    PROVE  TypeOK'
<1>1. pauses' \in [Jobs -> 0..MaxPauses]
  <2>1. pauses[j] + 1 \in 0..MaxPauses
    BY LifecycleAssumption DEF GraphPauses, TypeOK
  <2> QED BY <2>1 DEF GraphPauses, TypeOK
<1>2. invocation' \in [Jobs -> Callers \union {"none"}]
  BY DEF GraphPauses, TypeOK
<1>3. /\ status' \in [Jobs -> Statuses]
      /\ pendingSuspends' \in [Jobs -> {"none", "timer", "event"}]
  <2>1. /\ status \in [Jobs -> Statuses]
        /\ pendingSuspends \in [Jobs -> {"none", "timer", "event"}]
        /\ {"awaiting-approval", "suspended"} \subseteq Statuses
    BY DEF TypeOK, Statuses, Paused
  <2> QED BY <2>1, PauseEffect
<1>4. /\ pendingApprovals' \in SUBSET Jobs /\ approvalTimers' \in SUBSET Jobs
      /\ suspendTimers' \in SUBSET Jobs
  <2>1. /\ pendingApprovals' \subseteq pendingApprovals \union {j}
        /\ approvalTimers' \subseteq approvalTimers \union {j}
        /\ suspendTimers' \subseteq suspendTimers \union {j}
    BY PauseEffect
  <2> QED BY <2>1 DEF TypeOK
<1> QED BY <1>1, <1>2, <1>3, <1>4 DEF GraphPauses, TypeOK, dispatcherVars

LEMMA TypeStep == TypeOK /\ Slots' /\ [Next]_vars => TypeOK'
<1> SUFFICES ASSUME TypeOK, Slots', [Next]_vars PROVE TypeOK'
  OBVIOUS
<1>1. CASE UNCHANGED vars
  BY <1>1 DEF vars, TypeOK, dispatcherVars, pauseVars
<1>2. CASE RunMicrotask
  <2>1. /\ status' \in [Jobs -> Statuses]
        /\ invocation' \in [Jobs -> Callers \union {"none"}]
        /\ graphs' \in [Jobs -> Callers \union {"none"}]
    BY <1>2 DEF RunMicrotask, TypeOK, Statuses, Callers
  <2> QED BY <1>2, <2>1 DEF RunMicrotask, TypeOK, Slots, pauseVars
<1>3. ASSUME NEW j \in Jobs, Submit(j) \/ SpawnFlowJob(j) PROVE TypeOK'
  <2>1. status' = [status EXCEPT ![j] = "received"]
    BY <1>3 DEF Submit, SpawnFlowJob
  <2>2. status' \in [Jobs -> Statuses]
    <3>1. status \in [Jobs -> Statuses] /\ "received" \in Statuses
      BY DEF TypeOK, Statuses
    <3> QED BY <2>1, <3>1
  <2> QED BY <1>3, <2>2 DEF Submit, SpawnFlowJob, TypeOK, Slots, pauseVars
<1>4. ASSUME NEW j \in Jobs, AgentFails(j) \/ AgentSeesCancel(j) PROVE TypeOK'
  <2>1. \E s \in Terminal : Report(graphs[j], j, s)
    BY <1>4 DEF AgentFails, AgentSeesCancel, Terminal
  <2> QED BY <1>4, <2>1, ReportTypes DEF AgentFails, AgentSeesCancel, TypeOK
<1>5. ASSUME NEW j \in Jobs, LateFailure(j) PROVE TypeOK'
  <2>1. Report(late[j], j, "failed") /\ "failed" \in Terminal
    BY <1>5 DEF LateFailure, Terminal
  <2>2. late' \in [Jobs -> Callers \union {"none"}]
    BY <1>5 DEF LateFailure, TypeOK
  <2> QED BY <1>5, <2>1, <2>2, ReportTypes DEF LateFailure, TypeOK
<1>6. ASSUME NEW j \in Jobs, AgentTimesOut(j) \/ LateSuccess(j) PROVE TypeOK'
  <2>1. late' \in [Jobs -> Callers \union {"none"}]
    BY <1>6 DEF AgentTimesOut, LateSuccess, TypeOK
  <2> QED BY <1>6, <2>1 DEF AgentTimesOut, LateSuccess, TypeOK, dispatcherVars, pauseVars
<1>7. ASSUME NEW j \in Jobs, NEW verdict \in {"completed", "failed"}, End(j, verdict)
      PROVE  TypeOK'
  <2>1. /\ invocation' \in [Jobs -> Callers \union {"none"}]
        /\ graphs' \in [Jobs -> Callers \union {"none"}]
    BY <1>7 DEF End, TypeOK
  <2>2. CASE status[j] \in {"failed", "cancelled"}
    BY <1>7, <2>1, <2>2 DEF End, TypeOK, dispatcherVars, pauseVars
  <2>3. CASE Report(invocation[j], j, verdict)
    <3>1. verdict \in Terminal
      BY DEF Terminal
    <3> QED BY <1>7, <2>1, <2>3, <3>1, ReportTypes DEF End, TypeOK
  <2> QED BY <1>7, <2>2, <2>3 DEF End
<1>8. ASSUME NEW j \in Jobs, GraphEnds(j) PROVE TypeOK'
  BY <1>7, <1>8, PauseTypes DEF GraphEnds, GraphCompletes, GraphFails
<1>9. CASE \/ \E W \in SUBSET Jobs : IngestEvent(W)
           \/ \E j \in Jobs : Resume(j)
  BY <1>9, ExecuteResumeTypes DEF IngestEvent, Resume
<1>10. ASSUME NEW j \in Jobs, SlaExpires(j) \/ SuspendTimerFires(j) PROVE TypeOK'
  <2>1. CASE ExecuteResume({j})
    BY <2>1, ExecuteResumeTypes
  <2>2. CASE ~ ExecuteResume({j})
    BY <1>10, <2>2 DEF SlaExpires, SuspendTimerFires, TypeOK, dispatcherVars
  <2> QED BY <2>1, <2>2
<1>11. ASSUME NEW j \in Jobs, RunWake(j) PROVE TypeOK'
  <2>1. wakes' \in [Jobs -> Nat]
    <3>1. wakes[j] - 1 \in Nat
      BY <1>11 DEF RunWake, TypeOK
    <3> QED BY <1>11, <3>1 DEF RunWake, TypeOK
  <2>2. /\ status' \in [Jobs -> Statuses]
        /\ invocation' \in [Jobs -> Callers \union {"none"}]
        /\ graphs' \in [Jobs -> Callers \union {"none"}]
    BY <1>11 DEF RunWake, TypeOK, Statuses, Callers
  <2> QED BY <1>11, <2>1, <2>2 DEF RunWake, TypeOK, dispatcherVars, pauseVars
<1>12. ASSUME NEW j \in Jobs, Cancel(j) PROVE TypeOK'
  <2>1. cancelRequested' \in [Jobs -> {"no", "asked", "seen"}]
    BY <1>12 DEF Cancel, TypeOK
  <2> QED BY <1>12, <2>1 DEF Cancel, TypeOK, dispatcherVars, pauseVars
<1> QED
  BY <1>1, <1>2, <1>3, <1>4, <1>5, <1>6, <1>8, <1>9, <1>10, <1>11, <1>12 DEF Next

-----------------------------------------------------------------------------
(* The steps, one lemma each.  A step is about the jobs it names; the others *)
(* are untouched.                                                           *)

JobsInv == Slots /\ \A k \in Jobs : JobInv(k)

\* What was under way alone is done.
LEMMA LastOpDone ==
    ASSUME NEW s, NEW op, s = <<op>>, NEW i \in 1..Len(s)
    PROVE  SubSeq(s, 1, i - 1) \o SubSeq(s, i + 1, Len(s)) = <<>>
<1>1. i = 1
  OBVIOUS
<1>2. SubSeq(<<op>>, 1, 0) = <<>> /\ SubSeq(<<op>>, 2, 1) = <<>>
  OBVIOUS
<1>3. <<>> \o <<>> = <<>>
  OBVIOUS
<1> QED BY <1>1, <1>2, <1>3

\* A system call completes: in an orderly job it is the only one, and brings
\* the record one call closer to the job.
LEMMA CompleteKeeps ==
    ASSUME RInv, NEW j \in Jobs, NEW i \in 1..Len(ops[j]), Complete(j, i)
    PROVE  JobsInv'
<1> DEFINE op == ops[j][i]
           done == [ops EXCEPT ![j] = SubSeq(@, 1, i - 1) \o SubSeq(@, i + 1, Len(@))]
<1>1. /\ UNCHANGED <<vars, claims, restarts, overtaken>>
      /\ Drained
      /\ \/ /\ op.call = "mkdir"
            /\ ops' = [ops EXCEPT ![j][i] = Write(Record(status[j], op.trigger, Nobody))]
            /\ file' = file
         \/ /\ op.call = "read" /\ Whole(file[j])
            /\ ops' = [ops EXCEPT ![j][i] = Write([file[j] EXCEPT !.claim = op.claim])]
            /\ file' = file
         \/ op.call = "read" /\ ~ Whole(file[j]) /\ ops' = done /\ file' = file
         \/ op.call = "write" /\ ops' = done /\ file' = [file EXCEPT ![j] = op.record]
         \/ op.call = "rm" /\ ops' = done /\ file' = [file EXCEPT ![j] = NoFile]
  BY DEF Complete
<1> HIDE DEF op, done
<1>2. /\ Slots' /\ \A k \in Jobs : SameSlot(k) /\ SameRecords(k)
  BY <1>1 DEF RInv, vars, dispatcherVars, pauseVars, Slots, SameSlot, SameRecords,
              Starting, Queued
<1>3. ASSUME NEW k \in Jobs, k # j PROVE JobInv(k)'
  <2>1. ops'[k] = ops[k] /\ file'[k] = file[k]
    BY <1>1, <1>3 DEF RInv, RecoveryTypeOK, done
  <2> QED BY <1>1, <1>2, <2>1, UntouchedJob
<1>4. Sound(j)'
  BY <1>1, <1>2 DEF RInv, JobInv, Sound, SameRecords, SameSlot, Executing
<1>5. ASSUME j \notin overtaken PROVE Orderly(j)'
  <2>1. Orderly(j) /\ Sound(j) /\ wakes[j] = 0 /\ file[j] \in Files
        /\ DOMAIN ops = Jobs /\ DOMAIN file = Jobs
        /\ pendingSuspends[j] \in {"none", "timer", "event"}
    BY <1>1, <1>5 DEF RInv, JobInv, Drained, RecoveryTypeOK, TypeOK
  <2>2. InPause(j)' /\ claims'[j] = claims[j] /\ status'[j] = status[j]
        /\ wakes'[j] = 0 /\ Waits(j)' = Waits(j)
        /\ Current(j)' = Current(j) /\ TriggerOf(j)' = TriggerOf(j)
    BY <1>1, <1>2, <2>1
    DEF Orderly, InPause, SameRecords, Waits, Current, TriggerOf
  <2>3. ops[j] # <<>>
    OBVIOUS
  <2>4. CASE BeingDeleted(j)
    <3>1. ops[j] = <<Rm>> /\ op = Rm
      BY <2>4 DEF BeingDeleted, op
    <3>2. done[j] = <<>>
      BY <2>1, <3>1, LastOpDone DEF done
    <3>3. ops'[j] = <<>> /\ file'[j] = NoFile
      BY <1>1, <2>1, <3>1, <3>2 DEF Rm
    <3> QED BY <2>1, <2>2, <2>4, <3>3
            DEF Orderly, OnRecord, BeingDeleted, Whole, NoFile
  <2>5. CASE BeingMade(j)
    <3>1. ops[j] = <<Mkdir(TriggerOf(j))>> /\ op = Mkdir(TriggerOf(j)) /\ i = 1
      BY <2>5 DEF BeingMade, op
    <3>2. ops'[j] = <<Write(Current(j))>> /\ file'[j] = file[j]
      BY <1>1, <2>1, <2>5, <3>1 DEF Mkdir, Current, BeingMade
    <3> QED BY <2>1, <2>2, <2>5, <3>2
            DEF Orderly, BeingMade, BeingSaved
  <2>6. CASE BeingSaved(j)
    <3>1. ops[j] = <<Write(Current(j))>> /\ op = Write(Current(j))
      BY <2>6 DEF BeingSaved, op
    <3>2. done[j] = <<>>
      BY <2>1, <3>1, LastOpDone DEF done
    <3>3. ops'[j] = <<>> /\ file'[j] = Current(j)
      BY <1>1, <2>1, <3>1, <3>2 DEF Write
    <3>4. Whole(Current(j)) /\ Fits(Current(j))
      BY <2>1, <2>6
      DEF Current, Record, Whole, Fits, BeingSaved, Waits, Paused, Orderly, InPause,
          Sound, TriggerOf
    <3> QED BY <2>1, <2>2, <2>6, <3>3, <3>4
            DEF Orderly, BeingSaved, OnRecord, Waits
  <2>7. CASE BeingReread(j)
    <3>1. /\ ops[j] = <<Read(claims[j])>> /\ op = Read(claims[j]) /\ i = 1
          /\ op.claim = claims[j] /\ op.call = "read"
      BY <2>7 DEF BeingReread, op, Read
    <3>2. ops' = [ops EXCEPT ![j][i] = Write(Current(j))] /\ file'[j] = file[j]
      BY <1>1, <2>1, <2>7, <3>1 DEF BeingReread
    <3>3. ops'[j] = <<Write(Current(j))>>
      BY <2>1, <3>1, <3>2
    <3> QED BY <2>1, <2>2, <2>7, <3>2, <3>3
            DEF Orderly, BeingReread, BeingSaved
  <2> QED BY <2>1, <2>3, <2>4, <2>5, <2>6, <2>7 DEF Orderly, OnRecord
<1> QED BY <1>1, <1>2, <1>3, <1>4, <1>5 DEF JobInv, JobsInv

\* What a report of a job that has started does to the server, whichever hooks
\* it meets: IInv's ReportStep without the run's cached graph.
LEMMA ReportEffect ==
    ASSUME RInv, NEW j \in Jobs, NEW caller, NEW s \in Terminal,
           status[j] \notin {"none", "received"},
           Report(caller, j, s)
    PROVE  /\ Slots'
           /\ status' = [status EXCEPT ![j] = s]
           /\ j \notin Starting' /\ j \notin Queued'
           /\ \A k \in Jobs \ {j} :
                 /\ SameSlot(k) \/ PulledIn(k)
                 /\ pendingSuspends'[k] = pendingSuspends[k]
                 /\ k \in pendingApprovals' <=> k \in pendingApprovals
                 /\ k \in approvalTimers' <=> k \in approvalTimers
                 /\ k \in suspendTimers' <=> k \in suspendTimers
                 /\ k \in tokens' <=> k \in tokens
           /\ pendingSuspends'[j] \in {"none", pendingSuspends[j]}
           /\ approvalTimers' \subseteq approvalTimers
           /\ suspendTimers' \subseteq suspendTimers
           /\ s = "cancelled" => pendingApprovals' = pendingApprovals
           /\ s # "cancelled" =>
                 /\ pendingSuspends'[j] = "none" /\ j \notin pendingApprovals'
                 /\ j \notin approvalTimers' /\ j \notin suspendTimers'
<1>1. j \notin Starting /\ j \notin Queued /\ Slots
  BY DEF RInv, JobInv, Sound
<1>2. D!OnJobTerminal(j) \/ UNCHANGED dispatcherVars
  BY DEF Report, RunHooks, ResumeHooks
<1>3. \E pulled \in SUBSET Queued :
        /\ inFlight' \in {inFlight, (inFlight \ {j}) \union pulled}
        /\ inFlight' = inFlight => pulled \subseteq inFlight
        /\ Starting' = Starting \union pulled
        /\ Queued' = Queued \ pulled
  <2>1. CASE D!OnJobTerminal(j)
    <3>1. PICK pulled \in SUBSET Queued :
            /\ inFlight' = (inFlight \ {j}) \union pulled
            /\ Starting' = Starting \union pulled
            /\ Queued' = Queued \ pulled
      BY <1>1, <2>1, TerminalStep
    <3> QED BY <3>1
  <2>2. CASE UNCHANGED dispatcherVars
    <3>1. /\ {} \in SUBSET Queued /\ inFlight' = inFlight
          /\ Starting' = Starting \union {} /\ Queued' = Queued \ {}
      BY <2>2 DEF dispatcherVars, Starting, Queued
    <3> QED BY <3>1
  <2> QED BY <1>2, <2>1, <2>2
<1>4. Slots'
  <2>1. CASE D!OnJobTerminal(j)
    BY <1>1, <2>1, TerminalStep
  <2>2. CASE UNCHANGED dispatcherVars
    BY <1>1, <2>2 DEF dispatcherVars, Slots, Starting, Queued
  <2> QED BY <1>2, <2>1, <2>2
<1>5. /\ j \notin Starting' /\ j \notin Queued'
      /\ \A k \in Jobs \ {j} : SameSlot(k) \/ PulledIn(k)
  BY <1>1, <1>3 DEF SameSlot, PulledIn
<1>6. /\ pendingSuspends \in [Jobs -> {"none", "timer", "event"}]
      /\ status' = [status EXCEPT ![j] = s]
  BY DEF RInv, RecoveryTypeOK, TypeOK, Report
<1>7. CASE s = "cancelled"
  <2>1. /\ pendingApprovals' = pendingApprovals /\ pendingSuspends' = pendingSuspends
        /\ tokens' = tokens
        /\ approvalTimers' \in {approvalTimers, approvalTimers \ {j}}
        /\ suspendTimers' \in {suspendTimers, suspendTimers \ {j}}
    BY <1>7 DEF Report, RunHooks, ResumeHooks, ClearTimers, pauseVars
  <2> QED BY <1>4, <1>5, <1>6, <1>7, <2>1
<1>8. CASE s # "cancelled"
  <2>1. /\ pendingApprovals' = pendingApprovals \ {j}
        /\ pendingSuspends' = [pendingSuspends EXCEPT ![j] = "none"]
        /\ approvalTimers' = approvalTimers \ {j}
        /\ suspendTimers' = suspendTimers \ {j}
        /\ tokens' = tokens \ {j}
    BY <1>8 DEF Report, RunHooks, ResumeHooks, ClearTimers, ForgetPause
  <2> QED BY <1>4, <1>5, <1>6, <1>8, <2>1
<1> QED BY <1>7, <1>8

\* A report, with the delete its hooks start: by an agent, at the end of the
\* invocation, or by an executor left behind.
LEMMA ReportKeeps ==
    ASSUME RInv, NEW j \in Jobs, NEW caller, NEW s \in Terminal,
           status[j] \notin {"none", "received"}, wakes[j] = 0,
           s = "cancelled" => Executing(j),
           Step({j}), Report(caller, j, s), DropOnReport(caller, j, s),
           wakes' = wakes,
           \A k \in Jobs \ {j} : /\ invocation'[k] = invocation[k]
                                 /\ graphs'[k] = graphs[k]
                                 /\ late'[k] = late[k]
    PROVE  JobsInv'
<1>1. /\ overtaken \subseteq overtaken'
      /\ j \notin overtaken' => Orderly(j) /\ OnRecord(j)
  BY StepFindsRecord
<1>2. /\ Slots'
      /\ status' = [status EXCEPT ![j] = s]
      /\ j \notin Starting' /\ j \notin Queued'
      /\ \A k \in Jobs \ {j} :
            /\ SameSlot(k) \/ PulledIn(k)
            /\ pendingSuspends'[k] = pendingSuspends[k]
            /\ k \in pendingApprovals' <=> k \in pendingApprovals
            /\ k \in approvalTimers' <=> k \in approvalTimers
            /\ k \in suspendTimers' <=> k \in suspendTimers
            /\ k \in tokens' <=> k \in tokens
      /\ pendingSuspends'[j] \in {"none", pendingSuspends[j]}
      /\ approvalTimers' \subseteq approvalTimers
      /\ suspendTimers' \subseteq suspendTimers
      /\ s = "cancelled" => pendingApprovals' = pendingApprovals
      /\ s # "cancelled" =>
            /\ pendingSuspends'[j] = "none" /\ j \notin pendingApprovals'
            /\ j \notin approvalTimers' /\ j \notin suspendTimers'
  BY ReportEffect
<1>3. /\ Sound(j) /\ status \in [Jobs -> Statuses] /\ DOMAIN ops = Jobs
      /\ DOMAIN claims = Jobs /\ ops[j] \in Seq(FileOps)
      /\ status'[j] = s /\ s \notin {"none", "received"} /\ s \notin Paused
  BY <1>2 DEF RInv, JobInv, RecoveryTypeOK, TypeOK, Terminal, Paused
<1>4. /\ file' = file
      /\ \/ ops' = [ops EXCEPT ![j] = Append(@, Rm)]
         \/ ops' = ops /\ s = "cancelled"
      /\ claims' = IF s = "cancelled" THEN claims ELSE [claims EXCEPT ![j] = Nobody]
  BY DEF DropOnReport, DropRecord, Start, NoFileWork
<1>5. ASSUME NEW k \in Jobs, k # j PROVE JobInv(k)'
  <2>1. SameRecords(k)
    BY <1>2, <1>3, <1>5 DEF SameRecords
  <2>2. ops'[k] = ops[k] /\ file'[k] = file[k] /\ claims'[k] = claims[k]
    BY <1>3, <1>4, <1>5
  <2> QED BY <1>1, <1>2, <1>5, <2>1, <2>2, UntouchedJob
<1>6. Sound(j)'
  <2>1. claims'[j] # Nobody => j \in pendingApprovals'
    BY <1>2, <1>3, <1>4 DEF Sound
  <2> QED BY <1>2, <1>3, <2>1 DEF Sound, Executing
<1>7. ASSUME j \notin overtaken' PROVE Orderly(j)'
  <2>1. Orderly(j) /\ OnRecord(j) /\ ops[j] = <<>>
    BY <1>1, <1>7 DEF OnRecord
  <2>2. InPause(j)'
    <3>1. s = "cancelled" => /\ j \notin pendingApprovals /\ j \notin approvalTimers
                             /\ j \notin suspendTimers /\ pendingSuspends[j] = "none"
      BY <1>3, <2>1 DEF Orderly, InPause, Sound, Paused, Terminal
    <3> QED BY <1>2, <1>3, <3>1 DEF InPause, Paused
  <2>3. CASE ops' = [ops EXCEPT ![j] = Append(@, Rm)]
    <3>1. ops'[j] = <<Rm>>
      BY <1>3, <2>1, <2>3, FirstOp, OpTypes
    <3> QED BY <1>3, <1>4, <2>1, <2>2, <3>1 DEF Orderly, BeingDeleted
  <2>4. CASE ops' = ops /\ s = "cancelled"
    <3>1. ~ Whole(file[j])
      BY <1>3, <2>1, <2>4 DEF OnRecord, Sound, Paused, Terminal
    <3> QED BY <1>3, <1>4, <2>1, <2>2, <2>4, <3>1 DEF Orderly, OnRecord
  <2> QED BY <1>4, <2>3, <2>4
<1> QED BY <1>2, <1>5, <1>6, <1>7 DEF JobInv, JobsInv

\* Steps that touch neither the job's record nor its pause: invocations and
\* executors come and go.
LEMMA QuietKeeps ==
    ASSUME RInv, NEW j \in Jobs, overtaken \subseteq overtaken',
           UNCHANGED <<status, dispatcherVars, wakes, pauseVars, tokens,
                       file, ops, claims>>,
           \A k \in Jobs \ {j} : /\ invocation'[k] = invocation[k]
                                 /\ graphs'[k] = graphs[k]
                                 /\ late'[k] = late[k],
           invocation'[j] \in {invocation[j], "none"},
           late'[j] # "none" => late[j] # "none" \/ Executing(j)
    PROVE  JobsInv'
<1>1. Slots' /\ \A k \in Jobs : SameSlot(k)
  BY DEF RInv, dispatcherVars, Slots, SameSlot, Starting, Queued
<1>2. ASSUME NEW k \in Jobs, k # j PROVE JobInv(k)'
  <2>1. SameRecords(k)
    BY <1>2 DEF SameRecords, pauseVars
  <2> QED BY <1>1, <1>2, <2>1, UntouchedJob
<1>3. Sound(j)'
  BY <1>1 DEF RInv, JobInv, Sound, SameSlot, Executing, pauseVars
<1>4. ASSUME j \notin overtaken' PROVE Orderly(j)'
  <2>1. Orderly(j)
    BY <1>4 DEF RInv, JobInv
  <2>2. InPause(j)'
    BY <2>1 DEF Orderly, InPause, pauseVars
  <2>3. TriggerOf(j)' = TriggerOf(j) /\ Current(j)' = Current(j) /\ Waits(j)' = Waits(j)
    BY DEF TriggerOf, Current, Waits, pauseVars
  <2> QED BY <2>1, <2>2, <2>3
          DEF Orderly, OnRecord, BeingDeleted, BeingMade, BeingSaved, BeingReread
<1> QED BY <1>1, <1>2, <1>3, <1>4 DEF JobInv, JobsInv

LEMMA InsideGraphKeeps ==
    ASSUME RInv, NEW j \in Jobs, InsideGraph(j)
    PROVE  JobsInv'
<1>1. Step({j}) /\ Sound(j) /\ late \in [Jobs -> Callers \union {"none"}]
  BY DEF InsideGraph, RInv, JobInv, RecoveryTypeOK, TypeOK
<1>2. CASE AgentFails(j) /\ DropOnReport(graphs[j], j, "failed")
  <2>1. status[j] \notin {"none", "received"} /\ wakes[j] = 0 /\ "failed" \in Terminal
    BY <1>1, <1>2 DEF AgentFails, Sound, Paused, Terminal
  <2> QED BY <1>1, <1>2, <2>1, ReportKeeps DEF AgentFails
<1>3. CASE AgentSeesCancel(j) /\ DropOnReport(graphs[j], j, "cancelled")
  <2>1. status[j] \notin {"none", "received"} /\ wakes[j] = 0 /\ "cancelled" \in Terminal
    BY <1>1, <1>3 DEF AgentSeesCancel, Sound, Paused, Terminal
  <2> QED BY <1>1, <1>3, <2>1, ReportKeeps DEF AgentSeesCancel
<1>4. CASE LateFailure(j) /\ DropOnReport(late[j], j, "failed")
  <2>1. status[j] \notin {"none", "received"} /\ wakes[j] = 0 /\ "failed" \in Terminal
    BY <1>1, <1>4 DEF LateFailure, Sound, Drained, Terminal
  <2>2. \A k \in Jobs \ {j} : /\ invocation'[k] = invocation[k]
                              /\ graphs'[k] = graphs[k]
                              /\ late'[k] = late[k]
    BY <1>1, <1>4 DEF LateFailure
  <2> QED BY <1>1, <1>4, <2>1, <2>2, ReportKeeps DEF LateFailure
<1>5. CASE (AgentTimesOut(j) \/ LateSuccess(j)) /\ NoFileWork
  <2>1. /\ overtaken \subseteq overtaken'
        /\ UNCHANGED <<status, dispatcherVars, wakes, pauseVars, tokens,
                       file, ops, claims, invocation, graphs>>
        /\ \A k \in Jobs \ {j} : late'[k] = late[k]
        /\ late'[j] # "none" => Executing(j)
    BY <1>1, <1>5 DEF AgentTimesOut, LateSuccess, NoFileWork, Step
  <2> QED BY <2>1, QuietKeeps
<1> QED BY <1>2, <1>3, <1>4, <1>5 DEF InsideGraph

LEMMA EndInvocationKeeps ==
    ASSUME RInv, NEW j \in Jobs, NEW verdict \in {"completed", "failed"},
           EndInvocation(j, verdict)
    PROVE  JobsInv'
<1>1. /\ Step({j}) /\ Sound(j) /\ Executing(j)
      /\ status[j] \notin {"none", "received"} /\ wakes[j] = 0
      /\ verdict \in Terminal /\ verdict # "cancelled"
  BY DEF EndInvocation, End, RInv, JobInv, Sound, Terminal, Paused
<1>2. /\ invocation' = [invocation EXCEPT ![j] = "none"]
      /\ UNCHANGED <<wakes, late>>
      /\ \A k \in Jobs \ {j} : /\ invocation'[k] = invocation[k]
                               /\ graphs'[k] = graphs[k]
                               /\ late'[k] = late[k]
  BY DEF EndInvocation, End, RInv, RecoveryTypeOK, TypeOK
<1>3. CASE status[j] \in {"failed", "cancelled"}
  <2>1. /\ UNCHANGED <<status, dispatcherVars, pauseVars, tokens, file, ops, claims>>
        /\ overtaken \subseteq overtaken'
    BY <1>1, <1>3 DEF EndInvocation, End, NoFileWork, Step
  <2>2. invocation'[j] = "none"
    BY <1>2 DEF RInv, RecoveryTypeOK, TypeOK
  <2> QED BY <1>2, <2>1, <2>2, QuietKeeps
<1>4. CASE status[j] \notin {"failed", "cancelled"}
  <2>1. Report(invocation[j], j, verdict) /\ DropOnReport(invocation[j], j, verdict)
    BY <1>4 DEF EndInvocation, End
  <2> QED BY <1>1, <1>2, <2>1, ReportKeeps
<1> QED BY <1>3, <1>4

LEMMA PauseKeeps ==
    ASSUME RInv, NEW j \in Jobs, NEW trigger \in Triggers, Pause(j, trigger)
    PROVE  JobsInv'
<1>1. /\ overtaken \subseteq overtaken'
      /\ j \notin overtaken' => Orderly(j) /\ OnRecord(j)
  BY StepFindsRecord DEF Pause
<1>2. /\ GraphPauses(j, trigger) /\ Sound(j) /\ Executing(j) /\ wakes[j] = 0
      /\ status[j] \in {"running"} \union Terminal
      /\ TypeOK /\ DOMAIN ops = Jobs
  BY DEF Pause, GraphPauses, RInv, JobInv, Sound, Paused, Terminal, RecoveryTypeOK
<1>3. /\ UNCHANGED <<dispatcherVars, wakes, graphs, tokens, late, file, claims>>
      /\ invocation' = [invocation EXCEPT ![j] = "none"]
      /\ ops' = [ops EXCEPT ![j] = Append(@, Mkdir(trigger))]
  BY DEF Pause, GraphPauses, Start
<1>4. \/ /\ trigger = "approval"
         /\ status' = [status EXCEPT ![j] = "awaiting-approval"]
         /\ pendingApprovals' = pendingApprovals \union {j}
         /\ approvalTimers' = approvalTimers \union {j}
         /\ UNCHANGED <<pendingSuspends, suspendTimers>>
      \/ /\ trigger \in {"timer", "event"}
         /\ status' = [status EXCEPT ![j] = "suspended"]
         /\ pendingSuspends' = [pendingSuspends EXCEPT ![j] = trigger]
         /\ suspendTimers' = IF trigger = "timer" THEN suspendTimers \union {j}
                             ELSE suspendTimers
         /\ UNCHANGED <<pendingApprovals, approvalTimers>>
  BY <1>2, PauseEffect
<1>5. Slots' /\ \A k \in Jobs : SameSlot(k)
  BY <1>3 DEF RInv, dispatcherVars, Slots, SameSlot, Starting, Queued
<1>6. ASSUME NEW k \in Jobs, k # j PROVE JobInv(k)'
  <2>1. SameRecords(k)
    BY <1>2, <1>3, <1>4, <1>6 DEF SameRecords, TypeOK
  <2>2. ops'[k] = ops[k]
    BY <1>2, <1>3, <1>6
  <2> QED BY <1>1, <1>3, <1>5, <1>6, <2>1, <2>2, UntouchedJob
<1>7. /\ invocation'[j] = "none" /\ wakes'[j] = 0 /\ claims'[j] = claims[j]
      /\ status'[j] \in Paused
      /\ pendingApprovals \subseteq pendingApprovals'
  BY <1>2, <1>3, <1>4 DEF TypeOK, Paused
<1>8. Sound(j)'
  BY <1>2, <1>5, <1>7 DEF Sound, SameSlot, Executing, Paused
<1>9. ASSUME j \notin overtaken' PROVE Orderly(j)'
  <2>1. /\ Orderly(j) /\ ops[j] = <<>> /\ file'[j] = file[j]
        /\ j \notin pendingApprovals /\ j \notin approvalTimers
        /\ j \notin suspendTimers /\ pendingSuspends[j] = "none"
        /\ claims[j] = Nobody
    BY <1>1, <1>2, <1>3, <1>9
    DEF Orderly, OnRecord, InPause, Sound, Paused, Terminal
  <2>2. \/ /\ status'[j] = "awaiting-approval" /\ pendingSuspends'[j] = "none"
           /\ trigger = "approval"
           /\ j \in pendingApprovals' /\ j \in approvalTimers'
           /\ j \notin suspendTimers'
        \/ /\ status'[j] = "suspended" /\ pendingSuspends'[j] = trigger
           /\ trigger \in {"timer", "event"}
           /\ j \notin pendingApprovals' /\ j \notin approvalTimers'
           /\ j \in suspendTimers' <=> pendingSuspends'[j] = "timer"
    BY <1>2, <1>4, <2>1 DEF TypeOK
  <2>3. InPause(j)'
    BY <1>7, <2>2 DEF InPause, Paused
  <2>4. TriggerOf(j)' = trigger /\ Waits(j)'
    BY <1>7, <2>2 DEF TriggerOf, Waits
  <2>5. ops'[j] = <<Mkdir(trigger)>>
    BY <1>2, <1>3, <2>1, FirstOp, OpTypes
  <2> QED BY <1>7, <2>1, <2>3, <2>4, <2>5 DEF Orderly, BeingMade
<1> QED BY <1>5, <1>6, <1>8, <1>9 DEF JobInv, JobsInv

\* executeResume of paused jobs: the record is to be deleted, the claim goes
\* with the request.
LEMMA ResumeKeeps ==
    ASSUME RInv, NEW W \in SUBSET Jobs, Step(W),
           \A j \in W : status[j] \in Paused /\ wakes[j] = 0,
           ExecuteResume(W), DropOnResume(W)
    PROVE  JobsInv'
<1>1. /\ overtaken \subseteq overtaken'
      /\ \A j \in W : j \notin overtaken' => Orderly(j) /\ OnRecord(j)
  BY StepFindsRecord
<1>2. Slots' /\ \A k \in Jobs : SameSlot(k)
  BY DEF ExecuteResume, RInv, dispatcherVars, Slots, SameSlot, Starting, Queued
<1>3. ASSUME NEW k \in Jobs, k \notin W PROVE JobInv(k)'
  <2>1. SameRecords(k)
    BY <1>3 DEF SameRecords, ExecuteResume
  <2>2. file'[k] = file[k] /\ ops'[k] = ops[k] /\ claims'[k] = claims[k]
    BY <1>3 DEF DropOnResume
  <2> QED BY <1>1, <1>2, <2>1, <2>2, UntouchedJob
<1>4. ASSUME NEW k \in W PROVE JobInv(k)'
  <2>1. /\ Sound(k) /\ status[k] \in Paused
        /\ status'[k] = status[k] /\ wakes'[k] = 1
        /\ invocation'[k] = invocation[k] /\ late'[k] = late[k]
        /\ pendingSuspends'[k] = "none"
        /\ k \notin pendingApprovals' /\ k \notin approvalTimers'
        /\ k \notin suspendTimers'
        /\ claims'[k] = Nobody /\ file'[k] = file[k]
        /\ ops'[k] = Append(ops[k], Rm)
    BY <1>4 DEF ExecuteResume, DropOnResume, RInv, JobInv
  <2>2. Sound(k)'
    BY <1>2, <2>1 DEF Sound, SameSlot, Executing, Paused
  <2>3. ASSUME k \notin overtaken' PROVE Orderly(k)'
    <3>1. Orderly(k) /\ OnRecord(k) /\ ops[k] = <<>>
      BY <1>1, <2>3 DEF OnRecord
    <3>2. InPause(k)'
      BY <2>1 DEF InPause, Paused
    <3>3. ops'[k] = <<Rm>>
      BY <2>1, <3>1, FirstOp, OpTypes
    <3> QED BY <2>1, <3>1, <3>2, <3>3 DEF Orderly, BeingDeleted, Paused
  <2> QED BY <2>2, <2>3 DEF JobInv
<1> QED BY <1>2, <1>3, <1>4 DEF JobsInv

\* A timer that fires late, for a job that was overtaken, only disarms itself.
LEMMA TimerFiresKeeps ==
    ASSUME RInv, NEW j \in Jobs, TimerFires(j)
    PROVE  JobsInv'
<1>1. /\ Step({j}) /\ Drained /\ wakes[j] = 0 /\ Sound(j)
      /\ overtaken \subseteq overtaken'
      /\ j \notin overtaken' => Orderly(j) /\ OnRecord(j)
  BY StepFindsRecord
  DEF TimerFires, SlaExpires, SuspendTimerFires, Drained, RInv, JobInv
<1>2. CASE ExecuteResume({j}) /\ status[j] \in Paused
  <2>1. wakes'[j] # wakes[j]
    BY <1>1, <1>2 DEF ExecuteResume
  <2>2. DropOnResume({j})
    BY <2>1 DEF TimerFires
  <2> QED BY <1>1, <1>2, <2>2, ResumeKeeps
<1>3. CASE /\ \A k \in Jobs \ {j} : /\ k \in approvalTimers' <=> k \in approvalTimers
                                    /\ k \in suspendTimers' <=> k \in suspendTimers
           /\ UNCHANGED <<status, dispatcherVars, wakes, invocation, graphs,
                          pendingApprovals, pendingSuspends, tokens, late>>
           /\ j \in overtaken'
  <2>1. UNCHANGED <<file, ops, claims>>
    BY <1>3 DEF TimerFires, NoFileWork
  <2>2. Slots' /\ \A k \in Jobs : SameSlot(k)
    BY <1>3 DEF RInv, dispatcherVars, Slots, SameSlot, Starting, Queued
  <2>3. ASSUME NEW k \in Jobs, k # j PROVE JobInv(k)'
    <3>1. SameRecords(k)
      BY <1>3, <2>3 DEF SameRecords
    <3> QED BY <1>1, <2>1, <2>2, <2>3, <3>1, UntouchedJob
  <2>4. Sound(j)'
    BY <1>1, <1>3, <2>1, <2>2 DEF Sound, SameSlot, Executing
  <2> QED BY <1>3, <2>2, <2>3, <2>4 DEF JobInv, JobsInv
<1>4. CASE SlaExpires(j)
  <2>1. CASE status[j] = "awaiting-approval" /\ j \in pendingApprovals
    BY <1>2, <1>4, <2>1 DEF SlaExpires, Paused
  <2>2. CASE ~ (status[j] = "awaiting-approval" /\ j \in pendingApprovals)
    <3>1. j \in overtaken'
      BY <1>1, <1>4, <2>2 DEF SlaExpires, Orderly, InPause
    <3> QED BY <1>3, <1>4, <2>2, <3>1 DEF SlaExpires
  <2> QED BY <2>1, <2>2
<1>5. CASE SuspendTimerFires(j)
  <2>1. CASE status[j] = "suspended" /\ pendingSuspends[j] # "none"
    BY <1>2, <1>5, <2>1 DEF SuspendTimerFires, Paused
  <2>2. CASE ~ (status[j] = "suspended" /\ pendingSuspends[j] # "none")
    <3>1. j \in overtaken'
      BY <1>1, <1>5, <2>2 DEF SuspendTimerFires, Orderly, InPause
    <3> QED BY <1>3, <1>5, <2>2, <3>1 DEF SuspendTimerFires
  <2> QED BY <2>1, <2>2
<1> QED BY <1>4, <1>5 DEF TimerFires

\* POST /v1/jobs/:id/resume, POST /v1/events and the timers.
LEMMA WakesKeep ==
    ASSUME RInv,
           \/ \E j \in Jobs, r \in Reviewers : ResumeBy(j, r)
           \/ \E W \in SUBSET Jobs : WakeOnEvent(W)
           \/ \E j \in Jobs : TimerFires(j)
    PROVE  JobsInv'
<1>1. ASSUME NEW j \in Jobs, NEW r \in Reviewers, ResumeBy(j, r) PROVE JobsInv'
  BY <1>1, ResumeKeeps DEF ResumeBy, Resume, Drained
<1>2. ASSUME NEW W \in SUBSET Jobs, WakeOnEvent(W) PROVE JobsInv'
  BY <1>2, ResumeKeeps DEF WakeOnEvent, IngestEvent, Drained, Paused
<1>3. ASSUME NEW j \in Jobs, TimerFires(j) PROVE JobsInv'
  BY <1>3, TimerFiresKeeps
<1> QED BY <1>1, <1>2, <1>3

\* A claim or a release: the record is to be read and written again.
LEMMA ClaimKeeps ==
    ASSUME RInv, NEW j \in Jobs, NEW r \in Reviewers, Claim(j, r) \/ Release(j, r)
    PROVE  JobsInv'
<1>1. /\ overtaken \subseteq overtaken'
      /\ j \notin overtaken' => Orderly(j) /\ OnRecord(j)
  BY StepFindsRecord DEF Claim, Release
<1>2. PICK c \in Claimants :
        /\ claims' = [claims EXCEPT ![j] = c]
        /\ ops' = [ops EXCEPT ![j] = Append(@, Read(c))]
  BY DEF Claim, Release, Start, Claimants
<1>3. /\ UNCHANGED <<vars, file>> /\ j \in pendingApprovals /\ wakes[j] = 0
      /\ DOMAIN ops = Jobs /\ DOMAIN claims = Jobs /\ Sound(j)
  BY DEF Claim, Release, Drained, RInv, RecoveryTypeOK, JobInv
<1>4. /\ Slots' /\ \A k \in Jobs : SameSlot(k) /\ SameRecords(k)
  BY <1>3 DEF RInv, vars, dispatcherVars, pauseVars, Slots, SameSlot, SameRecords,
              Starting, Queued
<1>5. ASSUME NEW k \in Jobs, k # j PROVE JobInv(k)'
  BY <1>1, <1>2, <1>3, <1>4, <1>5, UntouchedJob
<1>6. Sound(j)'
  BY <1>3, <1>4 DEF Sound, SameRecords, SameSlot, Executing
<1>7. ASSUME j \notin overtaken' PROVE Orderly(j)'
  <2>1. /\ Orderly(j) /\ OnRecord(j) /\ ops[j] = <<>>
        /\ status[j] = "awaiting-approval"
    BY <1>1, <1>3, <1>7 DEF Orderly, OnRecord, InPause
  <2>2. /\ status'[j] = "awaiting-approval" /\ wakes'[j] = 0 /\ file'[j] = file[j]
        /\ claims'[j] = c
        /\ ops'[j] = <<Read(c)>>
    BY <1>2, <1>3, <1>4, <2>1, FirstOp, OpTypes DEF SameRecords
  <2>3. InPause(j)'
    BY <1>4, <2>1 DEF Orderly, InPause, SameRecords
  <2>4. Whole(file[j]) /\ file[j] = Record("awaiting-approval", "approval", claims[j])
    BY <2>1 DEF OnRecord, Current, TriggerOf, Paused
  <2>5. [file[j] EXCEPT !.claim = c] = Record("awaiting-approval", "approval", c)
    BY <2>4 DEF Record
  <2>6. Current(j)' = Record("awaiting-approval", "approval", c)
    BY <2>2 DEF Current, TriggerOf
  <2>7. Waits(j)'
    BY <2>2 DEF Waits, Paused
  <2>8. BeingReread(j)'
    BY <2>2, <2>4, <2>5, <2>6, <2>7 DEF BeingReread
  <2> QED BY <2>1, <2>2, <2>3, <2>8 DEF Orderly
<1> QED BY <1>4, <1>5, <1>6, <1>7 DEF JobInv, JobsInv

\* A job that has not started, and was not overtaken, has no file.
LEMMA StartedJob ==
    ASSUME RInv, NEW j \in Jobs, status[j] \in {"none", "received"},
           j \notin overtaken
    PROVE  InPause(j) /\ OnRecord(j) /\ ~ Whole(file[j])
<1>1. Orderly(j)
  BY DEF RInv, JobInv
<1>2. OnRecord(j)
  BY <1>1 DEF Orderly, BeingDeleted, BeingMade, BeingSaved, BeingReread, Waits, Paused
<1> QED BY <1>1, <1>2 DEF Orderly, OnRecord, Paused

LEMMA SubmitKeeps ==
    ASSUME RInv, NEW j \in Jobs, Submit(j) \/ SpawnFlowJob(j),
           UNCHANGED recoveryVars
    PROVE  JobsInv'
<1>1. /\ status[j] = "none" /\ Sound(j) /\ j \notin inFlight \union Queued
      /\ status' = [status EXCEPT ![j] = "received"]
      /\ tokens' = tokens \union {j}
      /\ UNCHANGED <<wakes, invocation, graphs, pauseVars, late, file, ops, claims,
                     overtaken>>
      /\ status'[j] = "received"
  BY DEF Submit, SpawnFlowJob, recoveryVars, RInv, JobInv, Sound, RecoveryTypeOK,
         TypeOK
<1>2. /\ Slots'
      /\ \A k \in Jobs \ {j} : SameSlot(k)
  <2>1. CASE D!Route(j)
    BY <1>1, <2>1, RouteStep DEF RInv, SameSlot
  <2>2. CASE UNCHANGED dispatcherVars
    BY <2>2 DEF RInv, dispatcherVars, Slots, SameSlot, Starting, Queued
  <2> QED BY <2>1, <2>2 DEF Submit, SpawnFlowJob
<1>3. ASSUME NEW k \in Jobs, k # j PROVE JobInv(k)'
  <2>1. SameRecords(k)
    BY <1>1, <1>3 DEF SameRecords, RInv, RecoveryTypeOK, TypeOK, pauseVars
  <2> QED BY <1>1, <1>2, <1>3, <2>1, UntouchedJob
<1>4. Sound(j)'
  BY <1>1 DEF Sound, Executing, Paused, pauseVars
<1>5. ASSUME j \notin overtaken' PROVE Orderly(j)'
  <2>1. InPause(j) /\ OnRecord(j) /\ ~ Whole(file[j])
    BY <1>1, <1>5, StartedJob
  <2>2. InPause(j)'
    BY <1>1, <2>1 DEF InPause, Paused, pauseVars
  <2> QED BY <1>1, <2>1, <2>2 DEF Orderly, OnRecord, Paused
<1> QED BY <1>2, <1>3, <1>4, <1>5 DEF JobInv, JobsInv

LEMMA StartKeeps ==
    ASSUME RInv, RunMicrotask, UNCHANGED recoveryVars
    PROVE  JobsInv'
<1>1. PICK j \in Jobs :
        /\ j = Head(micro) /\ micro' = Tail(micro) /\ micro' \in Seq(Jobs)
        /\ Starting = {j} \union Starting' /\ j \notin Starting'
        /\ IsInjective(micro')
  BY TailRange, HeadTailProperties DEF RunMicrotask, RInv, Slots, Starting
<1>2. /\ inFlight' = inFlight /\ queue' = queue
      /\ status' = [status EXCEPT ![j] = "running"]
      /\ invocation' = [invocation EXCEPT ![j] = "run"]
      /\ graphs' = [graphs EXCEPT ![j] = "run"]
      /\ UNCHANGED <<wakes, pauseVars, tokens, late, file, ops, claims, overtaken>>
  BY <1>1 DEF RunMicrotask, recoveryVars
<1>3. Slots'
  BY <1>1, <1>2 DEF RInv, Slots, Queued
<1>4. /\ Sound(j) /\ status[j] = "received" /\ j \in inFlight /\ j \notin Queued
      /\ status'[j] = "running" /\ invocation'[j] = "run"
  BY <1>1, <1>2 DEF RInv, JobInv, Sound, Slots, RecoveryTypeOK, TypeOK
<1>5. ASSUME NEW k \in Jobs, k # j PROVE JobInv(k)'
  <2>1. SameRecords(k)
    BY <1>2, <1>5 DEF SameRecords, RInv, RecoveryTypeOK, TypeOK, pauseVars
  <2>2. SameSlot(k)
    BY <1>1, <1>2, <1>5 DEF SameSlot, Queued
  <2> QED BY <1>2, <1>5, <2>1, <2>2, UntouchedJob
<1>6. Sound(j)'
  <2>1. j \notin Starting' /\ j \notin Queued'
    BY <1>1, <1>2, <1>4 DEF Queued
  <2> QED BY <1>2, <1>4, <2>1 DEF Sound, Executing, Paused, pauseVars
<1>7. ASSUME j \notin overtaken' PROVE Orderly(j)'
  <2>1. InPause(j) /\ OnRecord(j) /\ ~ Whole(file[j])
    BY <1>2, <1>4, <1>7, StartedJob
  <2>2. InPause(j)'
    BY <1>2, <1>4, <2>1 DEF InPause, Paused, pauseVars
  <2> QED BY <1>2, <1>4, <2>1, <2>2 DEF Orderly, OnRecord, Paused
<1> QED BY <1>3, <1>5, <1>6, <1>7 DEF JobInv, JobsInv

\* The wake of an orderly job finds its record being deleted.
LEMMA RunWakeKeeps ==
    ASSUME RInv, NEW j \in Jobs, RunWake(j), UNCHANGED recoveryVars
    PROVE  JobsInv'
<1>1. /\ Sound(j) /\ status[j] \in Paused /\ wakes[j] = 1
      /\ j \notin Starting \union Queued
  BY DEF RunWake, RInv, JobInv, Sound, Paused
<1>2. /\ wakes' = [wakes EXCEPT ![j] = @ - 1]
      /\ status' = [status EXCEPT ![j] = "running"]
      /\ invocation' = [invocation EXCEPT ![j] = "resume"]
      /\ graphs' = [graphs EXCEPT ![j] = IF @ = "none" THEN "resume" ELSE @]
      /\ UNCHANGED <<dispatcherVars, pauseVars, tokens, late, file, ops, claims,
                     overtaken>>
  BY DEF RunWake, recoveryVars
<1>3. Slots' /\ \A k \in Jobs : SameSlot(k)
  BY <1>2 DEF RInv, dispatcherVars, Slots, SameSlot, Starting, Queued
<1>4. ASSUME NEW k \in Jobs, k # j PROVE JobInv(k)'
  <2>1. SameRecords(k)
    BY <1>2, <1>4 DEF SameRecords, RInv, RecoveryTypeOK, TypeOK, pauseVars
  <2> QED BY <1>2, <1>3, <1>4, <2>1, UntouchedJob
<1>5. status'[j] = "running" /\ wakes'[j] = 0 /\ invocation'[j] = "resume"
  BY <1>1, <1>2 DEF RInv, RecoveryTypeOK, TypeOK
<1>6. Sound(j)'
  BY <1>1, <1>2, <1>3, <1>5 DEF Sound, SameSlot, Executing, Paused, pauseVars
<1>7. ASSUME j \notin overtaken' PROVE Orderly(j)'
  <2>1. Orderly(j) /\ BeingDeleted(j)
    BY <1>1, <1>2, <1>7
    DEF RInv, JobInv, Orderly, OnRecord, BeingMade, BeingSaved, BeingReread, Waits
  <2>2. InPause(j)'
    BY <1>1, <1>2, <1>5, <2>1 DEF Orderly, InPause, Paused, pauseVars
  <2> QED BY <1>2, <1>5, <2>1, <2>2 DEF Orderly, BeingDeleted, Paused
<1> QED BY <1>3, <1>4, <1>6, <1>7 DEF JobInv, JobsInv

LEMMA PlainKeeps ==
    ASSUME RInv, Plain
    PROVE  JobsInv'
<1>1. ASSUME NEW j \in Jobs, Cancel(j), UNCHANGED recoveryVars PROVE JobsInv'
  BY <1>1, QuietKeeps DEF Cancel, recoveryVars
<1> QED BY <1>1, SubmitKeeps, StartKeeps, RunWakeKeeps DEF Plain

\* A crash: what is under way is lost, a file being written may be torn, and
\* the jobs whose record is whole are back in their pause.
LEMMA RestartKeeps ==
    ASSUME RInv, Restart
    PROVE  JobsInv'
<1>1. /\ ops' = [j \in Jobs |-> <<>>] /\ overtaken' = overtaken
      /\ Rehydrate(file')
  BY DEF Restart
<1>2. PICK T \in SUBSET Jobs : file' = [j \in Jobs |-> IF j \in T THEN Torn ELSE file[j]]
  BY DEF Restart
<1>3. /\ inFlight' = {} /\ queue' = <<>> /\ micro' = <<>>
      /\ Starting' = {} /\ Queued' = {} /\ Slots'
  <2>1. inFlight' = {} /\ queue' = <<>> /\ micro' = <<>>
    BY <1>1 DEF Rehydrate
  <2>2. <<>> \in Seq(Jobs) /\ Range(<<>>) = {} /\ IsInjective(<<>>)
    BY EmptySeq DEF Range, IsInjective
  <2> QED BY <2>1, <2>2 DEF Slots, Starting, Queued
<1>4. ASSUME NEW j \in Jobs PROVE JobInv(j)'
  <2> DEFINE back == Whole(file'[j])
             approval == back /\ file'[j].trigger = "approval"
  <2>1. /\ wakes'[j] = 0 /\ invocation'[j] = "none" /\ late'[j] = "none"
        /\ ops'[j] = <<>>
        /\ status'[j] = IF back THEN file'[j].status ELSE "none"
        /\ j \in pendingApprovals' <=> approval
        /\ j \in approvalTimers' <=> approval
        /\ claims'[j] = IF approval THEN file'[j].claim ELSE Nobody
        /\ pendingSuspends'[j] = IF back /\ ~ approval THEN file'[j].trigger ELSE "none"
        /\ j \in suspendTimers' <=> back /\ file'[j].trigger = "timer"
    BY <1>1 DEF Rehydrate
  <2>2. back => file'[j] = file[j] /\ file[j] \in Records /\ Whole(file[j])
    BY <1>2 DEF Whole, Torn, RInv, RecoveryTypeOK, Files, NoFile
  <2> HIDE DEF back, approval
  <2>3. Sound(j)'
    BY <1>3, <2>1 DEF Sound, Executing
  <2>4. ASSUME j \notin overtaken' PROVE Orderly(j)'
    <3>1. CASE ~ back
      BY <2>1, <3>1 DEF Orderly, OnRecord, InPause, Paused, back, approval
    <3>2. CASE back
      <4>1. Fits(file[j]) /\ file'[j] = file[j] /\ file[j] \in Records
        BY <1>1, <2>2, <2>4, <3>2 DEF RInv, JobInv, Orderly
      <4>2. InPause(j)'
        BY <2>1, <3>2, <4>1 DEF Fits, InPause, Paused, approval
      <4>3. /\ Current(j)' = Record(file[j].status, file[j].trigger, file[j].claim)
            /\ status'[j] \in Paused
        BY <2>1, <3>2, <4>1 DEF Fits, Current, TriggerOf, Paused, approval
      <4>4. file[j] = Record(file[j].status, file[j].trigger, file[j].claim)
        BY <4>1 DEF Records, Record
      <4> QED BY <2>1, <3>2, <4>1, <4>2, <4>3, <4>4 DEF Orderly, OnRecord, back
    <3> QED BY <3>1, <3>2
  <2> QED BY <2>3, <2>4 DEF JobInv
<1> QED BY <1>3, <1>4 DEF JobsInv

-----------------------------------------------------------------------------
(* The types of the files and of what is under way.                         *)

LEMMA OpsTypes ==
    ASSUME RecoveryTypeOK, NEW j \in Jobs, NEW op \in FileOps, Start(j, op)
    PROVE  ops' \in [Jobs -> Seq(FileOps)]
<1>1. Append(ops[j], op) \in Seq(FileOps)
  BY AppendProperties DEF RecoveryTypeOK
<1> QED BY <1>1 DEF RecoveryTypeOK, Start

LEMMA CompleteTypes ==
    ASSUME RecoveryTypeOK, NEW j \in Jobs, NEW i \in 1..Len(ops[j]), Complete(j, i)
    PROVE  file' \in [Jobs -> Files] /\ ops' \in [Jobs -> Seq(FileOps)]
<1> DEFINE op == ops[j][i]
           done == SubSeq(ops[j], 1, i - 1) \o SubSeq(ops[j], i + 1, Len(ops[j]))
<1>1. op \in FileOps /\ ops[j] \in Seq(FileOps)
  BY ElementOfSeq DEF RecoveryTypeOK
<1>2. done \in Seq(FileOps)
  <2>1. Len(ops[j]) \in Nat /\ i \in Nat /\ i >= 1 /\ i <= Len(ops[j])
    BY <1>1, LenProperties
  <2>2. SubSeq(ops[j], 1, i - 1) \in Seq(FileOps)
    BY <1>1, <2>1, SubSeqProperties
  <2>3. SubSeq(ops[j], i + 1, Len(ops[j])) \in Seq(FileOps)
    BY <1>1, <2>1, SubSeqProperties
  <2> QED BY <2>2, <2>3, ConcatProperties
<1>3. ASSUME NEW o \in FileOps, ops' = [ops EXCEPT ![j][i] = o]
      PROVE  ops' \in [Jobs -> Seq(FileOps)]
  <2>1. [ops[j] EXCEPT ![i] = o] \in Seq(FileOps)
    BY <1>1, ExceptSeq
  <2> QED BY <1>3, <2>1 DEF RecoveryTypeOK
<1>4. file \in [Jobs -> Files] /\ ops \in [Jobs -> Seq(FileOps)]
      /\ NoFile \in Files /\ status[j] \in Statuses
  BY DEF RecoveryTypeOK, Files, TypeOK
<1> HIDE DEF done
<1>5. CASE op.call = "mkdir"
  <2>1. op.trigger \in Triggers
    BY <1>1, <1>5 DEF FileOps, Rm
  <2>2. Record(status[j], op.trigger, Nobody) \in Records
    BY <1>4, <2>1 DEF Record, Records, Claimants
  <2>3. Write(Record(status[j], op.trigger, Nobody)) \in FileOps
    BY <2>2, OpTypes
  <2>4. /\ file' = file
        /\ ops' = [ops EXCEPT ![j][i] = Write(Record(status[j], op.trigger, Nobody))]
    BY <1>5 DEF Complete
  <2> QED BY <1>3, <1>4, <2>3, <2>4
<1>6. CASE op.call = "read"
  <2>1. op.claim \in Claimants
    BY <1>1, <1>6 DEF FileOps, Rm
  <2>2. CASE Whole(file[j])
    <3>1. file[j] \in Records
      BY <1>4, <2>2 DEF Files, Whole, NoFile, Torn
    <3>2. [file[j] EXCEPT !.claim = op.claim] \in Records
      BY <2>1, <3>1 DEF Records
    <3>3. Write([file[j] EXCEPT !.claim = op.claim]) \in FileOps
      BY <3>2, OpTypes
    <3>4. /\ file' = file
          /\ ops' = [ops EXCEPT ![j][i] = Write([file[j] EXCEPT !.claim = op.claim])]
      BY <1>6, <2>2 DEF Complete
    <3> QED BY <1>3, <1>4, <3>3, <3>4
  <2>3. CASE ~ Whole(file[j])
    <3>1. file' = file /\ ops' = [ops EXCEPT ![j] = done]
      BY <1>6, <2>3 DEF Complete, done
    <3> QED BY <1>2, <1>4, <3>1
  <2> QED BY <2>2, <2>3
<1>7. CASE op.call = "write"
  <2>1. op.record \in Records
    BY <1>1, <1>7 DEF FileOps, Rm
  <2>2. file' = [file EXCEPT ![j] = op.record] /\ ops' = [ops EXCEPT ![j] = done]
    BY <1>7 DEF Complete, done
  <2> QED BY <1>2, <1>4, <2>1, <2>2 DEF Files
<1>8. CASE op.call = "rm"
  <2>1. file' = [file EXCEPT ![j] = NoFile] /\ ops' = [ops EXCEPT ![j] = done]
    BY <1>8 DEF Complete, done
  <2> QED BY <1>2, <1>4, <2>1
<1> QED BY <1>5, <1>6, <1>7, <1>8 DEF Complete

\* Between crashes, the server takes the steps of JobLifecycle and no others.
LEMMA LifecycleStep == [NextRecovery]_allVars => Restart \/ [Next]_vars
<1> SUFFICES ASSUME [NextRecovery]_allVars, ~ Restart PROVE [Next]_vars
  OBVIOUS
<1>1. CASE Plain
  BY <1>1 DEF Plain, Next
<1>2. ASSUME NEW W \in SUBSET Jobs, WakeOnEvent(W) PROVE [Next]_vars
  BY <1>2 DEF WakeOnEvent, Next
<1>3. ASSUME NEW j \in Jobs, InsideGraph(j) \/ TimerFires(j) PROVE [Next]_vars
  BY <1>3 DEF InsideGraph, TimerFires, Next
<1>4. ASSUME NEW j \in Jobs, NEW trigger \in Triggers, Pause(j, trigger)
      PROVE  [Next]_vars
  BY <1>4 DEF Pause, GraphEnds, Next
<1>5. ASSUME NEW j \in Jobs, NEW verdict \in {"completed", "failed"},
             EndInvocation(j, verdict)
      PROVE  [Next]_vars
  BY <1>5 DEF EndInvocation, GraphCompletes, GraphFails, GraphEnds, Next
<1>6. ASSUME NEW j \in Jobs, NEW r \in Reviewers, ResumeBy(j, r) PROVE [Next]_vars
  BY <1>6 DEF ResumeBy, Next
<1>7. ASSUME NEW j \in Jobs, NEW r \in Reviewers, Claim(j, r) \/ Release(j, r)
      PROVE  [Next]_vars
  BY <1>7 DEF Claim, Release
<1>8. ASSUME NEW j \in Jobs, NEW i \in 1..Len(ops[j]), Complete(j, i)
      PROVE  [Next]_vars
  BY <1>8 DEF Complete
<1>9. CASE UNCHANGED allVars
  BY <1>9 DEF allVars
<1> QED BY <1>1, <1>2, <1>3, <1>4, <1>5, <1>6, <1>7, <1>8, <1>9 DEF NextRecovery

LEMMA RestartTypes ==
    ASSUME RecoveryTypeOK, Restart
    PROVE  RecoveryTypeOK'
<1>1. /\ ops' = [j \in Jobs |-> <<>>] /\ overtaken' = overtaken
      /\ restarts' \in 0..MaxRestarts
      /\ Rehydrate(file')
  BY RecoveryAssumption DEF Restart, RecoveryTypeOK
<1>2. file' \in [Jobs -> Files]
  BY DEF Restart, RecoveryTypeOK, Files
<1>3. \A j \in Jobs : Whole(file'[j]) =>
        /\ file'[j].status \in Statuses /\ file'[j].trigger \in Triggers
        /\ file'[j].claim \in Claimants
  BY <1>2 DEF Files, Whole, NoFile, Torn, Records
<1>4. /\ status' \in [Jobs -> Statuses]
      /\ claims' \in [Jobs -> Claimants]
      /\ pendingSuspends' \in [Jobs -> {"none", "timer", "event"}]
      /\ cancelRequested' \in [Jobs -> {"no", "asked", "seen"}]
  <2>1. status' \in [Jobs -> Statuses]
    BY <1>1, <1>3 DEF Rehydrate, Statuses
  <2>2. claims' \in [Jobs -> Claimants]
    BY <1>1, <1>3 DEF Rehydrate, Claimants
  <2>3. pendingSuspends' \in [Jobs -> {"none", "timer", "event"}]
    BY <1>1, <1>3 DEF Rehydrate, Triggers
  <2>4. cancelRequested' \in [Jobs -> {"no", "asked", "seen"}]
    BY <1>1 DEF Rehydrate, RecoveryTypeOK, TypeOK
  <2> QED BY <2>1, <2>2, <2>3, <2>4
<1>5. <<>> \in Seq(Jobs) /\ <<>> \in Seq(FileOps)
  BY EmptySeq
<1>6. TypeOK'
  <2>1. /\ inFlight' = {} /\ queue' = <<>> /\ micro' = <<>> /\ tokens' = {}
        /\ pauses' = pauses
        /\ pendingApprovals' \in SUBSET Jobs /\ approvalTimers' \in SUBSET Jobs
        /\ suspendTimers' \in SUBSET Jobs
        /\ wakes' \in [Jobs -> Nat]
        /\ invocation' \in [Jobs -> Callers \union {"none"}]
        /\ graphs' \in [Jobs -> Callers \union {"none"}]
        /\ late' \in [Jobs -> Callers \union {"none"}]
    BY <1>1 DEF Rehydrate
  <2> QED BY <1>4, <1>5, <2>1 DEF TypeOK, RecoveryTypeOK
<1> QED BY <1>1, <1>2, <1>4, <1>5, <1>6 DEF RecoveryTypeOK

LEMMA RecoveryTypeStep ==
    ASSUME RInv, [NextRecovery]_allVars, Slots'
    PROVE  RecoveryTypeOK'
<1> USE DEF RInv
<1>1. CASE Restart
  BY <1>1, RestartTypes
<1>2. ASSUME TypeOK',
             file' \in [Jobs -> Files], ops' \in [Jobs -> Seq(FileOps)],
             claims' \in [Jobs -> Claimants], restarts' = restarts,
             overtaken' \in SUBSET Jobs
      PROVE  RecoveryTypeOK'
  BY <1>2 DEF RecoveryTypeOK
<1>3. CASE ~ Restart
  <2>1. TypeOK'
    BY <1>3, LifecycleStep, TypeStep DEF RecoveryTypeOK
  <2>2. CASE Plain \/ UNCHANGED allVars
    BY <1>2, <2>1, <2>2 DEF Plain, allVars, recoveryVars, RecoveryTypeOK
  <2>3. ASSUME NEW W \in SUBSET Jobs, Step(W) PROVE overtaken' \in SUBSET Jobs
    BY <2>3 DEF Step, RecoveryTypeOK
  <2>4. ASSUME NEW j \in Jobs, DropRecord(j) PROVE RecoveryTypeOK' \/ ~ Step({j})
    <3>1. ops' \in [Jobs -> Seq(FileOps)]
      BY <2>4, OpsTypes, OpTypes DEF DropRecord
    <3>2. claims' \in [Jobs -> Claimants]
      BY <2>4 DEF DropRecord, RecoveryTypeOK, Claimants
    <3> QED BY <1>2, <2>1, <2>3, <2>4, <3>1, <3>2 DEF DropRecord, RecoveryTypeOK
  <2>5. ASSUME NEW W \in SUBSET Jobs, Step(W), DropOnResume(W) PROVE RecoveryTypeOK'
    <3>1. \A k \in Jobs : Append(ops[k], Rm) \in Seq(FileOps)
      BY OpTypes, AppendProperties DEF RecoveryTypeOK
    <3>2. ops' \in [Jobs -> Seq(FileOps)]
      BY <2>5, <3>1 DEF DropOnResume, RecoveryTypeOK
    <3>3. claims' \in [Jobs -> Claimants]
      BY <2>5 DEF DropOnResume, RecoveryTypeOK, Claimants
    <3> QED BY <1>2, <2>1, <2>3, <2>5, <3>2, <3>3 DEF DropOnResume, RecoveryTypeOK
  <2>6. ASSUME NEW j \in Jobs, Step({j}), NoFileWork PROVE RecoveryTypeOK'
    BY <1>2, <2>1, <2>3, <2>6 DEF NoFileWork, RecoveryTypeOK
  <2>7. ASSUME NEW j \in Jobs, NEW caller, NEW s \in Terminal, Step({j}),
               DropOnReport(caller, j, s)
        PROVE  RecoveryTypeOK'
    <3>1. CASE Start(j, Rm) /\ UNCHANGED <<file, claims, restarts>>
      <4>1. ops' \in [Jobs -> Seq(FileOps)]
        BY <3>1, OpsTypes, OpTypes
      <4> QED BY <1>2, <2>1, <2>3, <2>7, <3>1, <4>1 DEF RecoveryTypeOK
    <3> QED BY <2>4, <2>6, <2>7, <3>1 DEF DropOnReport
  <2>8. ASSUME NEW W \in SUBSET Jobs, WakeOnEvent(W) PROVE RecoveryTypeOK'
    BY <2>5, <2>8 DEF WakeOnEvent
  <2>9. ASSUME NEW j \in Jobs, InsideGraph(j) PROVE RecoveryTypeOK'
    BY <2>6, <2>7, <2>9 DEF InsideGraph, Terminal
  <2>10. ASSUME NEW j \in Jobs, TimerFires(j) PROVE RecoveryTypeOK'
    <3>1. {j} \in SUBSET Jobs
      OBVIOUS
    <3> QED BY <2>5, <2>6, <2>10, <3>1 DEF TimerFires
  <2>11. ASSUME NEW j \in Jobs, NEW trigger \in Triggers, Pause(j, trigger)
         PROVE  RecoveryTypeOK'
    <3>1. ops' \in [Jobs -> Seq(FileOps)]
      BY <2>11, OpsTypes, OpTypes DEF Pause
    <3> QED BY <1>2, <2>1, <2>3, <2>11, <3>1 DEF Pause, RecoveryTypeOK
  <2>12. ASSUME NEW j \in Jobs, NEW verdict \in {"completed", "failed"},
                EndInvocation(j, verdict)
         PROVE  RecoveryTypeOK'
    BY <2>6, <2>7, <2>12 DEF EndInvocation, Terminal
  <2>13. ASSUME NEW j \in Jobs, NEW r \in Reviewers, ResumeBy(j, r)
         PROVE  RecoveryTypeOK'
    <3>1. {j} \in SUBSET Jobs
      OBVIOUS
    <3> QED BY <2>5, <2>13, <3>1 DEF ResumeBy
  <2>14. ASSUME NEW j \in Jobs, NEW r \in Reviewers, Claim(j, r) \/ Release(j, r)
         PROVE  RecoveryTypeOK'
    <3>1. PICK c \in Claimants :
            claims' = [claims EXCEPT ![j] = c] /\ Start(j, Read(c))
      BY <2>14 DEF Claim, Release, Claimants
    <3>2. ops' \in [Jobs -> Seq(FileOps)]
      BY <3>1, OpsTypes, OpTypes
    <3>3. claims' \in [Jobs -> Claimants]
      BY <3>1 DEF RecoveryTypeOK
    <3> QED BY <1>2, <2>1, <2>3, <2>14, <3>2, <3>3 DEF Claim, Release, RecoveryTypeOK
  <2>15. ASSUME NEW j \in Jobs, NEW i \in 1..Len(ops[j]), Complete(j, i)
         PROVE  RecoveryTypeOK'
    <3>1. file' \in [Jobs -> Files] /\ ops' \in [Jobs -> Seq(FileOps)]
      BY <2>15, CompleteTypes
    <3> QED BY <1>2, <2>1, <2>15, <3>1 DEF Complete, RecoveryTypeOK
  <2> QED BY <1>3, <2>2, <2>8, <2>9, <2>10, <2>11, <2>12, <2>13, <2>14, <2>15
          DEF NextRecovery
<1> QED BY <1>1, <1>3

-----------------------------------------------------------------------------
\* RInv is inductive.
LEMMA NextRInv == RInv /\ [NextRecovery]_allVars => RInv'
<1> SUFFICES ASSUME RInv, [NextRecovery]_allVars PROVE RInv'
  OBVIOUS
<1>1. JobsInv'
  <2>1. CASE UNCHANGED allVars
    <3>1. /\ Slots' /\ \A k \in Jobs : SameSlot(k) /\ SameRecords(k)
          /\ UNCHANGED <<file, ops, claims, overtaken>>
      BY <2>1 DEF RInv, allVars, recoveryVars, vars, dispatcherVars, pauseVars, Slots,
                  SameSlot, SameRecords, Starting, Queued
    <3>2. \A k \in Jobs : JobInv(k)'
      BY <3>1, UntouchedJob
    <3> QED BY <3>1, <3>2 DEF JobsInv
  <2>2. CASE Restart
    BY <2>2, RestartKeeps
  <2>3. CASE Plain
    BY <2>3, PlainKeeps
  <2>4. ASSUME NEW W \in SUBSET Jobs, WakeOnEvent(W) PROVE JobsInv'
    BY <2>4, WakesKeep
  <2>5. ASSUME NEW j \in Jobs, NEW i \in 1..Len(ops[j]), Complete(j, i) PROVE JobsInv'
    BY <2>5, CompleteKeeps
  <2>6. ASSUME NEW j \in Jobs, InsideGraph(j) PROVE JobsInv'
    BY <2>6, InsideGraphKeeps
  <2>7. ASSUME NEW j \in Jobs, TimerFires(j) PROVE JobsInv'
    BY <2>7, WakesKeep
  <2>8. ASSUME NEW j \in Jobs, NEW trigger \in Triggers, Pause(j, trigger) PROVE JobsInv'
    BY <2>8, PauseKeeps
  <2>9. ASSUME NEW j \in Jobs, NEW verdict \in {"completed", "failed"},
               EndInvocation(j, verdict)
        PROVE  JobsInv'
    BY <2>9, EndInvocationKeeps
  <2>10. ASSUME NEW j \in Jobs, NEW r \in Reviewers, ResumeBy(j, r) PROVE JobsInv'
    BY <2>10, WakesKeep
  <2>11. ASSUME NEW j \in Jobs, NEW r \in Reviewers, Claim(j, r) \/ Release(j, r)
         PROVE  JobsInv'
    BY <2>11, ClaimKeeps
  <2> QED BY <2>1, <2>2, <2>3, <2>4, <2>5, <2>6, <2>7, <2>8, <2>9, <2>10, <2>11
          DEF NextRecovery
<1>2. RecoveryTypeOK'
  BY <1>1, RecoveryTypeStep DEF JobsInv
<1> QED BY <1>1, <1>2 DEF RInv, JobsInv

\* Every reachable state satisfies the inductive invariant, crashes included.
THEOREM RecoveryInvariance == SpecRecovery => []RInv
BY InitRInv, NextRInv, PTL DEF SpecRecovery

\* Type correctness of the server's state, of the files and of the operations
\* on them.
THEOREM RecoveryTypeCorrect == SpecRecovery => []RecoveryTypeOK
<1>1. RInv => RecoveryTypeOK
  BY DEF RInv
<1> QED BY <1>1, RecoveryInvariance, PTL

\* A queued resumeJob meets a paused job, whatever record the server booted from
\* and whatever the file operations overtook.
THEOREM WakesAreGuarded == SpecRecovery => []WakesMeetPausedJobs
<1>1. RInv => WakesMeetPausedJobs
  BY DEF RInv, JobInv, Sound, WakesMeetPausedJobs, Paused, Terminal
<1> QED BY <1>1, RecoveryInvariance, PTL

\* No claim outlives its approval, in memory or through a record.
THEOREM ClaimsEndWithApprovals == SpecRecovery => []ClaimsFollowApprovals
<1>1. RInv => ClaimsFollowApprovals
  BY DEF RInv, JobInv, Sound, ClaimsFollowApprovals
<1> QED BY <1>1, RecoveryInvariance, PTL

\* Over crashes, a job that waits has its request and its timer, and no other
\* job has, as long as no step of it overtook its file operations.
THEOREM PausesSurviveCrashes == SpecRecovery => []PausesSurvive
<1>1. RInv => PausesSurvive
  BY DEF RInv, JobInv, Orderly, InPause, PausesSurvive
<1> QED BY <1>1, RecoveryInvariance, PTL

LEMMA QuietRecords == RInv => \A j \in Jobs \ overtaken : OnDisk(j) /\ ClaimOnDisk(j)
<1> SUFFICES ASSUME RInv, NEW j \in Jobs \ overtaken
             PROVE  OnDisk(j) /\ ClaimOnDisk(j)
  OBVIOUS
<1>1. ops[j] = <<>> => OnRecord(j)
  BY DEF RInv, JobInv, Orderly, BeingDeleted, BeingMade, BeingSaved, BeingReread
<1> QED BY <1>1 DEF OnDisk, ClaimOnDisk, Quiet, OnRecord, Current, Record

\* The files are those of the paused jobs when nothing is under way for a job that
\* was not overtaken: torn writes and lost operations included.
THEOREM RecordsAreCurrent == SpecRecovery => []RecordsFollowPauses
<1>1. RInv => RecordsFollowPauses
  BY QuietRecords DEF RecordsFollowPauses
<1> QED BY <1>1, RecoveryInvariance, PTL

\* Each of these files carries the claim in force.
THEOREM ClaimsAreRecorded == SpecRecovery => []RecordsCarryClaims
<1>1. RInv => RecordsCarryClaims
  BY QuietRecords DEF RecordsCarryClaims
<1> QED BY <1>1, RecoveryInvariance, PTL

\* A step of the server changes nothing of a finished job, and a restart finds
\* no record of it.
LEMMA FinishedRecoveryStep ==
    ASSUME RInv, [NextRecovery]_allVars, NEW j \in Jobs \ overtaken,
           status[j] \in Terminal, ~ Executing(j), late[j] = "none", Quiet(j)
    PROVE  status'[j] \in {status[j], "none"}
<1>1. /\ Sound(j) /\ Orderly(j) /\ wakes[j] = 0 /\ j \notin Starting
      /\ status \in [Jobs -> Statuses]
  BY DEF RInv, JobInv, Sound, Paused, Terminal, RecoveryTypeOK, TypeOK
<1>2. CASE Restart
  <2>1. ~ Whole(file[j])
    BY <1>1 DEF Quiet, Orderly, OnRecord, BeingDeleted, BeingMade, BeingSaved,
                BeingReread, Paused, Terminal
  <2>2. file'[j] \in {file[j], Torn}
    BY <1>2 DEF Restart
  <2>3. ~ Whole(file'[j])
    BY <2>1, <2>2 DEF Whole, Torn
  <2> QED BY <1>2, <2>3 DEF Restart, Rehydrate
<1>3. CASE UNCHANGED vars
  BY <1>3 DEF vars
<1>4. CASE RunMicrotask
  <2>1. Head(micro) \in Starting /\ status' = [status EXCEPT ![Head(micro)] = "running"]
    BY <1>4, TailRange DEF RunMicrotask, RInv, Slots, Starting
  <2> QED BY <1>1, <2>1
<1>5. ASSUME NEW k \in Jobs, Submit(k) \/ SpawnFlowJob(k)
      PROVE  status'[j] = status[j]
  BY <1>1, <1>5 DEF Submit, SpawnFlowJob, Terminal
<1>6. ASSUME NEW k \in Jobs, AgentFails(k) \/ AgentSeesCancel(k) \/ LateFailure(k)
      PROVE  status'[j] = status[j]
  BY <1>1, <1>6 DEF AgentFails, AgentSeesCancel, LateFailure, Report
<1>7. ASSUME NEW k \in Jobs, GraphEnds(k)
      PROVE  status'[j] = status[j]
  BY <1>1, <1>7 DEF GraphEnds, GraphCompletes, GraphFails, GraphPauses, End, Report
<1>8. CASE \/ \E W \in SUBSET Jobs : IngestEvent(W)
           \/ \E k \in Jobs :
                \/ AgentTimesOut(k) \/ LateSuccess(k) \/ Cancel(k)
                \/ Resume(k) \/ SlaExpires(k) \/ SuspendTimerFires(k)
  BY <1>8 DEF IngestEvent, AgentTimesOut, LateSuccess, Cancel, Resume, SlaExpires,
              SuspendTimerFires, ExecuteResume
<1>9. ASSUME NEW k \in Jobs, RunWake(k) PROVE status'[j] = status[j]
  BY <1>1, <1>9 DEF RunWake
<1> QED BY <1>2, <1>3, <1>4, <1>5, <1>6, <1>7, <1>8, <1>9, LifecycleStep DEF Next

\* A restart does not bring a finished job back to life.
THEOREM FinishedSurvivesCrashes == SpecRecovery => FinishedJobsStayFinished
<1>1. RInv /\ [NextRecovery]_allVars =>
        [\A j \in Jobs \ overtaken :
            status[j] \in Terminal /\ ~ Executing(j) /\ late[j] = "none" /\ Quiet(j)
                => status'[j] \in {status[j], "none"}]_allVars
  BY FinishedRecoveryStep
<1> QED BY <1>1, InitRInv, NextRInv, PTL DEF SpecRecovery, FinishedJobsStayFinished

-----------------------------------------------------------------------------
(* Slots over crashes.  A job that came back from its record has no slot    *)
(* and gets none; of its hooks, those that skip a cancellation have no slot *)
(* to keep.  What holds a slot has been run, and not only resumed, by this  *)
(* server.                                                                  *)

\* A slot is held by a job that starts, or by one whose graph this server
\* compiled for its run and that goes on or waits.
InHand(j) ==
    /\ j \in inFlight =>
          \/ j \in Starting
          \/ /\ graphs[j] = "run" /\ late[j] # "resume"
             /\ (status[j] = "running" /\ Executing(j)) \/ status[j] \in Paused
    /\ status[j] = "running" /\ invocation[j] = "run" => j \in inFlight

LEMMA SoundIsRouted == RInv => Slots /\ \A j \in Jobs : Routed(j)
BY DEF RInv, JobInv, Sound, Routed

\* A slot that a step does not take from a job stays in its hands.
LEMMA StaysInHand ==
    ASSUME NEW j \in Jobs, InHand(j), SameSlot(j) \/ PulledIn(j),
           status'[j] = status[j], invocation'[j] = invocation[j],
           graphs'[j] = graphs[j], late'[j] \in {late[j], "none"}
    PROVE  InHand(j)'
BY DEF InHand, SameSlot, PulledIn, Executing

\* A report frees the slot of its job, unless it is a cancellation's that a
\* resume hook skips.
LEMMA ReportFrees ==
    ASSUME RInv, NEW j \in Jobs, NEW caller, NEW s, status[j] \notin {"none", "received"},
           Report(caller, j, s), j \in inFlight => caller = "run" \/ s # "cancelled"
    PROVE  /\ j \notin inFlight'
           /\ \A k \in Jobs \ {j} : SameSlot(k) \/ PulledIn(k)
<1>1. CASE UNCHANGED dispatcherVars /\ j \notin inFlight
  BY <1>1 DEF dispatcherVars, SameSlot, Starting, Queued
<1>2. CASE D!OnJobTerminal(j)
  <2>1. j \notin Starting /\ j \notin Queued /\ Slots
    BY SoundIsRouted DEF Routed
  <2>2. PICK pulled \in SUBSET Queued :
          /\ inFlight' = (inFlight \ {j}) \union pulled
          /\ Starting' = Starting \union pulled
          /\ Queued' = Queued \ pulled
    BY <1>2, <2>1, TerminalStep
  <2> QED BY <2>1, <2>2 DEF SameSlot, PulledIn
<1> QED BY <1>1, <1>2 DEF Report, RunHooks, ResumeHooks

LEMMA HandStep ==
    ASSUME RInv, \A k \in Jobs : InHand(k), [Next]_vars, NEW j \in Jobs
    PROVE  InHand(j)'
<1>1. /\ Routed(j) /\ Slots /\ InHand(j)
      /\ status \in [Jobs -> Statuses]
      /\ invocation \in [Jobs -> Callers \union {"none"}]
      /\ graphs \in [Jobs -> Callers \union {"none"}]
      /\ late \in [Jobs -> Callers \union {"none"}]
  BY SoundIsRouted DEF RInv, RecoveryTypeOK, TypeOK
<1>2. ASSUME UNCHANGED dispatcherVars PROVE SameSlot(j)
  BY <1>2 DEF dispatcherVars, SameSlot, Starting, Queued
<1>3. CASE RunMicrotask
  <2>1. /\ Range(micro) = {Head(micro)} \union Range(Tail(micro))
        /\ micro' = Tail(micro) /\ UNCHANGED <<inFlight, queue, late>>
        /\ status' = [status EXCEPT ![Head(micro)] = "running"]
        /\ invocation' = [invocation EXCEPT ![Head(micro)] = "run"]
        /\ graphs' = [graphs EXCEPT ![Head(micro)] = "run"]
    BY <1>1, <1>3, TailRange DEF RunMicrotask, Slots
  <2>2. CASE j = Head(micro)
    <3>1. j \in Starting /\ j \in inFlight /\ late[j] = "none"
      BY <1>1, <2>1, <2>2 DEF Routed, Slots, Starting
    <3> QED BY <1>1, <2>1, <2>2, <3>1 DEF InHand, Executing
  <2>3. CASE j # Head(micro)
    <3>1. SameSlot(j)
      BY <2>1, <2>3 DEF SameSlot, Starting, Queued
    <3> QED BY <1>1, <2>1, <2>3, <3>1, StaysInHand
  <2> QED BY <2>2, <2>3
<1>4. ASSUME NEW k \in Jobs, Submit(k) \/ SpawnFlowJob(k) PROVE InHand(j)'
  <2>1. /\ status[k] = "none" /\ status' = [status EXCEPT ![k] = "received"]
        /\ UNCHANGED <<invocation, graphs, late>>
    BY <1>4 DEF Submit, SpawnFlowJob
  <2>2. k \notin inFlight \union Queued
    BY <2>1, SoundIsRouted DEF Routed
  <2>3. \/ SameSlot(j)
        \/ k = j /\ (j \in inFlight' => j \in Starting')
    <3>1. CASE D!Route(k)
      BY <1>1, <2>2, <3>1, RouteStep DEF SameSlot
    <3>2. CASE UNCHANGED dispatcherVars
      BY <1>2, <3>2
    <3> QED BY <1>4, <3>1, <3>2 DEF Submit, SpawnFlowJob
  <2>4. CASE j = k
    <3>1. status'[j] = "received" /\ (j \in inFlight' => j \in Starting')
      BY <1>1, <2>1, <2>2, <2>3, <2>4 DEF SameSlot
    <3> QED BY <3>1 DEF InHand
  <2>5. CASE j # k
    BY <1>1, <2>1, <2>3, <2>5, StaysInHand
  <2> QED BY <2>4, <2>5
<1>5. ASSUME NEW k \in Jobs, NEW caller, NEW s \in Terminal,
             Report(caller, k, s), status[k] \notin {"none", "received"},
             k \in inFlight => caller = "run" \/ s # "cancelled",
             \A i \in Jobs \ {k} : /\ invocation'[i] = invocation[i]
                                  /\ graphs'[i] = graphs[i] /\ late'[i] = late[i]
      PROVE  InHand(j)'
  <2>1. /\ k \notin inFlight' /\ status' = [status EXCEPT ![k] = s]
        /\ \A i \in Jobs \ {k} : SameSlot(i) \/ PulledIn(i)
    BY <1>5, ReportFrees DEF Report
  <2>2. CASE j = k
    <3>1. status'[j] # "running"
      BY <1>1, <1>5, <2>1, <2>2 DEF Terminal
    <3> QED BY <2>1, <2>2, <3>1 DEF InHand
  <2>3. CASE j # k
    BY <1>1, <1>5, <2>1, <2>3, StaysInHand
  <2> QED BY <2>2, <2>3
<1>6. ASSUME NEW k \in Jobs, AgentFails(k) \/ AgentSeesCancel(k) PROVE InHand(j)'
  <2>1. status[k] \notin {"none", "received"} /\ k \notin Starting
    BY <1>6, SoundIsRouted DEF AgentFails, AgentSeesCancel, Routed
  <2>2. k \in inFlight => graphs[k] = "run"
    BY <2>1 DEF InHand
  <2>3. \E s \in Terminal : Report(graphs[k], k, s)
    BY <1>6 DEF AgentFails, AgentSeesCancel, Terminal
  <2>4. UNCHANGED <<invocation, graphs, late>>
    BY <1>6 DEF AgentFails, AgentSeesCancel
  <2> QED BY <1>5, <2>1, <2>2, <2>3, <2>4
<1>7. ASSUME NEW k \in Jobs, LateFailure(k) PROVE InHand(j)'
  <2>1. status[k] \notin {"none", "received"} /\ Report(late[k], k, "failed")
    BY <1>7, SoundIsRouted DEF LateFailure, Routed
  <2>2. UNCHANGED <<invocation, graphs>> /\ late' = [late EXCEPT ![k] = "none"]
    BY <1>7 DEF LateFailure
  <2>3. "failed" \in Terminal
    BY DEF Terminal
  <2> QED BY <1>1, <1>5, <2>1, <2>2, <2>3
<1>8. ASSUME NEW k \in Jobs, AgentTimesOut(k) \/ LateSuccess(k) PROVE InHand(j)'
  <2>1. /\ UNCHANGED <<status, dispatcherVars, invocation, graphs>>
        /\ \/ late' = [late EXCEPT ![k] = graphs[k]]
           \/ late' = [late EXCEPT ![k] = "none"]
    BY <1>8 DEF AgentTimesOut, LateSuccess
  <2>2. late'[j] \in {late[j], "none", graphs[j]}
    BY <1>1, <2>1
  <2>3. SameSlot(j)
    BY <1>2, <2>1
  <2>4. CASE late'[j] = graphs[j]
    BY <1>1, <2>1, <2>3, <2>4 DEF InHand, SameSlot, Executing
  <2>5. CASE late'[j] \in {late[j], "none"}
    BY <1>1, <2>1, <2>3, <2>5, StaysInHand
  <2> QED BY <2>2, <2>4, <2>5
<1>9. ASSUME NEW k \in Jobs, NEW verdict \in {"completed", "failed"}, End(k, verdict)
      PROVE  InHand(j)'
  <2>1. /\ Executing(k) /\ late' = late
        /\ invocation' = [invocation EXCEPT ![k] = "none"]
        /\ graphs' = [graphs EXCEPT ![k] = "none"]
    BY <1>9 DEF End
  <2>2. status[k] \notin {"none", "received"} /\ k \notin Starting
    BY <2>1, SoundIsRouted DEF Routed
  <2>3. CASE status[k] \in {"failed", "cancelled"} /\ UNCHANGED <<status, dispatcherVars>>
    <3>1. SameSlot(j)
      BY <1>2, <2>3
    <3>2. CASE j = k
      <4>1. j \notin inFlight
        BY <1>1, <2>2, <2>3, <3>2 DEF InHand, Paused
      <4> QED BY <2>3, <3>1, <3>2, <4>1 DEF InHand, SameSlot
    <3>3. CASE j # k
      BY <1>1, <2>1, <2>3, <3>1, <3>3, StaysInHand
    <3> QED BY <3>2, <3>3
  <2>4. CASE Report(invocation[k], k, verdict)
    <3>1. verdict \in Terminal /\ verdict # "cancelled"
      BY DEF Terminal
    <3> QED BY <1>1, <1>5, <2>1, <2>2, <2>4, <3>1
  <2> QED BY <1>9, <2>3, <2>4 DEF End
<1>10. ASSUME NEW k \in Jobs, NEW trigger, GraphPauses(k, trigger) PROVE InHand(j)'
  <2>1. /\ UNCHANGED <<dispatcherVars, graphs, late>> /\ Executing(k)
        /\ invocation' = [invocation EXCEPT ![k] = "none"]
        /\ \/ status' = [status EXCEPT ![k] = "awaiting-approval"]
           \/ status' = [status EXCEPT ![k] = "suspended"]
    BY <1>10 DEF GraphPauses
  <2>2. SameSlot(j)
    BY <1>2, <2>1
  <2>3. CASE j = k
    <3>1. status'[j] \in Paused /\ j \notin Starting /\ status'[j] # "running"
      BY <1>1, <2>1, <2>3 DEF Paused, Routed
    <3> QED BY <1>1, <2>1, <2>2, <3>1 DEF InHand, SameSlot
  <2>4. CASE j # k
    BY <1>1, <2>1, <2>2, <2>4, StaysInHand
  <2> QED BY <2>3, <2>4
<1>11. ASSUME NEW k \in Jobs, GraphEnds(k) PROVE InHand(j)'
  BY <1>9, <1>10, <1>11 DEF GraphEnds, GraphCompletes, GraphFails
<1>12. ASSUME NEW k \in Jobs, RunWake(k) PROVE InHand(j)'
  <2>1. /\ UNCHANGED <<dispatcherVars, late>> /\ status[k] \in Paused
        /\ status' = [status EXCEPT ![k] = "running"]
        /\ invocation' = [invocation EXCEPT ![k] = "resume"]
        /\ graphs' = [graphs EXCEPT ![k] = IF @ = "none" THEN "resume" ELSE @]
    BY <1>12 DEF RunWake
  <2>2. SameSlot(j)
    BY <1>2, <2>1
  <2>3. CASE j = k
    <3>1. /\ status'[j] = "running" /\ invocation'[j] = "resume" /\ j \notin Starting
          /\ graphs[j] = "run" => graphs'[j] = "run"
      BY <1>1, <2>1, <2>3 DEF Paused, Routed
    <3> QED BY <1>1, <2>1, <2>2, <3>1 DEF InHand, SameSlot, Executing
  <2>4. CASE j # k
    BY <1>1, <2>1, <2>2, <2>4, StaysInHand
  <2> QED BY <2>3, <2>4
<1>13. CASE \/ UNCHANGED vars
            \/ \E W \in SUBSET Jobs : IngestEvent(W)
            \/ \E k \in Jobs : Resume(k) \/ SlaExpires(k) \/ SuspendTimerFires(k) \/ Cancel(k)
  <2>1. UNCHANGED <<status, dispatcherVars, invocation, graphs, late>>
    BY <1>13 DEF vars, IngestEvent, Resume, SlaExpires, SuspendTimerFires, Cancel,
                 ExecuteResume
  <2> QED BY <1>1, <1>2, <2>1, StaysInHand
<1> QED BY <1>3, <1>4, <1>6, <1>7, <1>8, <1>11, <1>12, <1>13 DEF Next

\* A restart leaves the dispatcher empty.
LEMMA RestartIsEmpty == Restart => D!Init' /\ \A j \in Jobs : InHand(j)'
<1> SUFFICES ASSUME Restart PROVE D!Init' /\ \A j \in Jobs : InHand(j)'
  OBVIOUS
<1>1. /\ inFlight' = {} /\ queue' = <<>> /\ micro' = <<>>
      /\ \A j \in Jobs : invocation'[j] = "none"
  BY DEF Restart, Rehydrate
<1> QED BY <1>1 DEF D!Init, InHand

LEMMA HandsInvariant == SpecRecovery => [](RInv /\ \A j \in Jobs : InHand(j))
<1>1. InitRecovery => \A j \in Jobs : InHand(j)
  BY DEF InitRecovery, Init, InHand
<1>2. /\ RInv /\ (\A j \in Jobs : InHand(j))
      /\ [NextRecovery]_allVars
      => (\A j \in Jobs : InHand(j))'
  BY LifecycleStep, HandStep, RestartIsEmpty
<1> QED BY <1>1, <1>2, InitRInv, NextRInv, PTL DEF SpecRecovery

\* Over crashes, a slot is held for a run that starts, goes on or can be
\* resumed: no job that came back keeps one, whatever becomes of it.
THEOREM SlotsSurviveCrashes == SpecRecovery => []NoSlotLeaks
<1>1. RInv /\ (\A j \in Jobs : InHand(j)) => NoSlotLeaks
  BY DEF RInv, Slots, InHand, NoSlotLeaks, Starting
<1> QED BY <1>1, HandsInvariant, PTL

\* Over crashes, a first invocation that has not failed holds a slot while it
\* goes on: more runs than slots are those of jobs that were resumed.
THEOREM CleanRunsKeepSlots == SpecRecovery => []CleanRunsHoldSlots
<1>1. (\A j \in Jobs : InHand(j)) => CleanRunsHoldSlots
  BY DEF InHand, CleanRunsHoldSlots
<1> QED BY <1>1, HandsInvariant, PTL

\* Between two crashes the server drives the dispatcher as Dispatcher says, and
\* a crash leaves it as it is at first.
THEOREM DispatcherRecovers == SpecRecovery => DispatcherStartsAnew
<1>1. InitRecovery => D!Init
  BY DEF InitRecovery, Init, D!Init
<1>2. RInv /\ [NextRecovery]_allVars => [D!Next \/ (Restart /\ D!Init')]_(D!vars)
  BY LifecycleStep, RestartIsEmpty, SoundIsRouted, DispatcherStep
<1> QED BY <1>1, <1>2, InitRInv, NextRInv, PTL DEF SpecRecovery, DispatcherStartsAnew
=============================================================================
