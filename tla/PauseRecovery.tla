--------------------------- MODULE PauseRecovery ---------------------------
(***************************************************************************)
(* Restart survival of paused jobs: harness-server/src/paused-jobs.ts, its *)
(* callers in index.ts, the approval claims, and the rehydration at boot,  *)
(* composed with JobLifecycle.                                             *)
(*                                                                         *)
(* The callers fire and forget: nothing orders the file operations of a    *)
(* job against each other or against the steps of the job.  A save is a    *)
(* mkdir and then a writeFile, a claim update a readFile and then a        *)
(* writeFile, a delete one rm.  ops[j] holds what is under way, each entry *)
(* the next system call of one operation; any of them may complete next.   *)
(* JSON.stringify runs when mkdir is done, on the JobRecord of THAT        *)
(* moment, while kind and request are those of the pause.                  *)
(*                                                                         *)
(* A crash drops what is under way and may leave a file torn that was      *)
(* being written.  The durable checkpointer keeps the graph's thread, with *)
(* a cancellation flag in it; everything else in memory is lost.           *)
(***************************************************************************)
EXTENDS JobLifecycle

CONSTANTS
    Reviewers,      \* actors who assert the role the approval asks for
    MaxOps,         \* bound: file operations under way for one job
    MaxRestarts     \* bound: crashes

ASSUME RecoveryAssumption == MaxOps \in Nat /\ MaxRestarts \in Nat

VARIABLES
    file,       \* <stateDir>/paused/<jobId>.json
    ops,
    claims,     \* ctx.approvalClaims
    restarts,
    overtaken   \* history: jobs that took a step with a file operation under way

recoveryVars == <<file, ops, claims, restarts, overtaken>>
allVars == <<vars, recoveryVars>>

Nobody == "nobody"

NoFile == [state |-> "absent"]
Torn == [state |-> "torn"]
Record(s, t, c) == [state |-> "whole", status |-> s, trigger |-> t, claim |-> c]
Whole(f) == f.state = "whole"

InitRecovery ==
    /\ Init
    /\ file = [j \in Jobs |-> NoFile]
    /\ ops = [j \in Jobs |-> <<>>]
    /\ claims = [j \in Jobs |-> Nobody]
    /\ restarts = 0
    /\ overtaken = {}

-----------------------------------------------------------------------------
(* File operations. *)

\* The jobs of W take a step that starts file operations, or changes the
\* record that one under way would write.
Step(W) ==
    /\ \A j \in W : Len(ops[j]) < MaxOps
    /\ overtaken' = overtaken \union {j \in W : ops[j] # <<>>}

Start(j, op) == ops' = [ops EXCEPT ![j] = Append(@, op)]

Mkdir(t) == [call |-> "mkdir", trigger |-> t]
Rm == [call |-> "rm"]
Read(c) == [call |-> "read", claim |-> c]
Write(r) == [call |-> "write", record |-> r]

\* System call i of job j completes, and its operation ends or goes on with
\* the next call.
Complete(j, i) ==
    LET op == ops[j][i]
        done == [ops EXCEPT ![j] = SubSeq(@, 1, i - 1) \o SubSeq(@, i + 1, Len(@))]
        next(o) == [ops EXCEPT ![j][i] = o]
    IN  /\ Drained
        /\ \/ /\ op.call = "mkdir"
              /\ ops' = next(Write(Record(status[j], op.trigger, Nobody)))
              /\ UNCHANGED file
           \/ /\ op.call = "read"
              /\ ops' = IF Whole(file[j])
                        THEN next(Write([file[j] EXCEPT !.claim = op.claim]))
                        ELSE done
              /\ UNCHANGED file
           \/ /\ op.call = "write"
              /\ file' = [file EXCEPT ![j] = op.record]
              /\ ops' = done
           \/ /\ op.call = "rm"
              /\ file' = [file EXCEPT ![j] = NoFile]
              /\ ops' = done
        /\ UNCHANGED <<vars, claims, restarts, overtaken>>

-----------------------------------------------------------------------------
(* The lifecycle's steps, with the file operation and the claim each takes  *)
(* along.                                                                   *)

NoFileWork == UNCHANGED <<file, ops, claims, restarts>>

DropRecord(j) ==
    /\ Start(j, Rm)
    /\ claims' = [claims EXCEPT ![j] = Nobody]
    /\ UNCHANGED <<file, restarts>>

KeepRecordOfFailed(caller, j, s) ==
    IF s = "completed" THEN DropRecord(j) ELSE NoFileWork

\* The hooks of a terminal report delete the record; the claim goes with
\* completed and failed only, and the resume hooks skip `cancelled`.
DropOnReport(caller, j, s) ==
    IF s # "cancelled" THEN DropRecord(j)
    ELSE IF caller = "run"
    THEN Start(j, Rm) /\ UNCHANGED <<file, claims, restarts>>
    ELSE NoFileWork

KeepRecordOnResume(W) ==
    /\ claims' = [j \in Jobs |-> IF j \in W THEN Nobody ELSE claims[j]]
    /\ UNCHANGED <<ops, file, restarts>>

KeepClaimOnResume(W) ==
    /\ ops' = [j \in Jobs |-> IF j \in W THEN Append(ops[j], Rm) ELSE ops[j]]
    /\ UNCHANGED <<claims, file, restarts>>

DropOnResume(W) ==
    /\ ops' = [j \in Jobs |-> IF j \in W THEN Append(ops[j], Rm) ELSE ops[j]]
    /\ claims' = [j \in Jobs |-> IF j \in W THEN Nobody ELSE claims[j]]
    /\ UNCHANGED <<file, restarts>>

Pause(j, trigger) ==
    /\ Step({j})
    /\ GraphPauses(j, trigger)
    /\ Start(j, Mkdir(trigger))
    /\ UNCHANGED <<file, claims, restarts>>

InsideGraph(j) ==
    /\ Step({j})
    /\ \/ AgentFails(j) /\ DropOnReport(graphs[j], j, "failed")
       \/ AgentSeesCancel(j) /\ DropOnReport(graphs[j], j, "cancelled")
       \/ AgentTimesOut(j) /\ NoFileWork
       \/ LateSuccess(j) /\ NoFileWork
       \/ LateFailure(j) /\ DropOnReport(late[j], j, "failed")

EndInvocation(j, verdict) ==
    /\ Step({j})
    /\ End(j, verdict)
    /\ IF status[j] \in {"failed", "cancelled"} THEN NoFileWork
       ELSE DropOnReport(invocation[j], j, verdict)

\* The resume route: while an approval is on record, a claim lets only the
\* claimant pass.
ResumeBy(j, r) ==
    /\ Step({j})
    /\ j \in pendingApprovals => claims[j] \in {Nobody, r}
    /\ Resume(j)
    /\ DropOnResume({j})

WakeOnEvent(W) ==
    /\ Step(W)
    /\ IngestEvent(W)
    /\ DropOnResume(W)

TimerFires(j) ==
    /\ Step({j})
    /\ SlaExpires(j) \/ SuspendTimerFires(j)
    /\ IF wakes' = wakes THEN NoFileWork ELSE DropOnResume({j})

ClaimInMemory(j, r) ==
    /\ Step({j})
    /\ Drained
    /\ j \in pendingApprovals
    /\ claims[j] \in {Nobody, r}
    /\ claims' = [claims EXCEPT ![j] = r]
    /\ UNCHANGED <<vars, file, ops, restarts>>

\* POST and DELETE /v1/jobs/:id/approval/claim.
Claim(j, r) ==
    /\ Step({j})
    /\ Drained
    /\ j \in pendingApprovals
    /\ claims[j] \in {Nobody, r}
    /\ claims' = [claims EXCEPT ![j] = r]
    /\ Start(j, Read(r))
    /\ UNCHANGED <<vars, file, restarts>>

Release(j, r) ==
    /\ Step({j})
    /\ Drained
    /\ j \in pendingApprovals
    /\ claims[j] = r
    /\ claims' = [claims EXCEPT ![j] = Nobody]
    /\ Start(j, Read(Nobody))
    /\ UNCHANGED <<vars, file, restarts>>

\* Steps that no file operation goes with.
Plain ==
    /\ \/ RunMicrotask
       \/ \E j \in Jobs : Submit(j) \/ SpawnFlowJob(j) \/ RunWake(j) \/ Cancel(j)
    /\ UNCHANGED recoveryVars

-----------------------------------------------------------------------------
RehydrateWithoutTimers(disk) ==
    LET back == {j \in Jobs : Whole(disk[j])}
        approvals == {j \in back : disk[j].trigger = "approval"}
    IN  /\ status' = [j \in Jobs |-> IF j \in back THEN disk[j].status ELSE "none"]
        /\ pendingApprovals' = approvals
        /\ approvalTimers' = {} /\ suspendTimers' = {}
        /\ claims' = [j \in Jobs |->
                         IF j \in approvals THEN disk[j].claim ELSE Nobody]
        /\ pendingSuspends' = [j \in Jobs |-> IF j \in back \ approvals
                                              THEN disk[j].trigger ELSE "none"]
        /\ cancelRequested' = [j \in Jobs |->
                                  IF j \in back THEN cancelRequested[j] ELSE "no"]
        /\ inFlight' = {} /\ queue' = <<>> /\ micro' = <<>>
        /\ wakes' = [j \in Jobs |-> 0]
        /\ invocation' = [j \in Jobs |-> "none"]
        /\ graphs' = [j \in Jobs |-> "none"]
        /\ late' = [j \in Jobs |-> "none"]
        /\ tokens' = {}
        /\ UNCHANGED pauses

\* The process dies and a new one boots from the files of `disk`: a job comes
\* back with the status its record carries, its request and its timer; it
\* takes no slot, and the jobs without a whole record are gone.
Rehydrate(disk) ==
    LET back == {j \in Jobs : Whole(disk[j])}
        approvals == {j \in back : disk[j].trigger = "approval"}
    IN  /\ status' = [j \in Jobs |-> IF j \in back THEN disk[j].status ELSE "none"]
        /\ pendingApprovals' = approvals
        /\ approvalTimers' = approvals
        /\ claims' = [j \in Jobs |->
                         IF j \in approvals THEN disk[j].claim ELSE Nobody]
        /\ pendingSuspends' = [j \in Jobs |-> IF j \in back \ approvals
                                              THEN disk[j].trigger ELSE "none"]
        /\ suspendTimers' = {j \in back : disk[j].trigger = "timer"}
        /\ cancelRequested' = [j \in Jobs |->
                                  IF j \in back THEN cancelRequested[j] ELSE "no"]
        /\ inFlight' = {} /\ queue' = <<>> /\ micro' = <<>>
        /\ wakes' = [j \in Jobs |-> 0]
        /\ invocation' = [j \in Jobs |-> "none"]
        /\ graphs' = [j \in Jobs |-> "none"]
        /\ late' = [j \in Jobs |-> "none"]
        /\ tokens' = {}
        /\ UNCHANGED pauses

BeingWritten(j) == \E i \in 1..Len(ops[j]) : ops[j][i].call = "write"

Restart ==
    /\ restarts < MaxRestarts
    /\ restarts' = restarts + 1
    /\ ops' = [j \in Jobs |-> <<>>]
    /\ \E T \in SUBSET {j \in Jobs : BeingWritten(j)} :
          file' = [j \in Jobs |-> IF j \in T THEN Torn ELSE file[j]]
    /\ Rehydrate(file')
    /\ UNCHANGED overtaken

NextRecovery ==
    \/ Restart
    \/ Plain
    \/ \E W \in SUBSET Jobs : WakeOnEvent(W)
    \/ \E j \in Jobs :
         \/ \E i \in 1..Len(ops[j]) : Complete(j, i)
         \/ InsideGraph(j) \/ TimerFires(j)
         \/ \E trigger \in Triggers : Pause(j, trigger)
         \/ \E verdict \in {"completed", "failed"} : EndInvocation(j, verdict)
         \/ \E r \in Reviewers : ResumeBy(j, r) \/ Claim(j, r) \/ Release(j, r)

SpecRecovery == InitRecovery /\ [][NextRecovery]_allVars

-----------------------------------------------------------------------------
Quiet(j) == ops[j] = <<>>

\* One wake per pause, across restarts and whatever record the server boots
\* from: resumeJob's guard never throws (there may be no cached graph now, it
\* compiles one then).
WakesMeetPausedJobs ==
    \A j \in Jobs :
        /\ wakes[j] <= 1
        /\ wakes[j] = 1 => status[j] \in Paused /\ ~ Executing(j)

\* No claim outlives its approval, in memory or through a record on disk: a
\* later approval of the job starts unclaimed.
ClaimsFollowApprovals ==
    \A j \in Jobs : claims[j] # Nobody => j \in pendingApprovals

\* The request a job waits for is on record and its timer is armed, and there
\* is none for a job that does not wait: over crashes too, as long as no step of
\* the job overtakes its file operations.
PausesSurvive ==
    \A j \in Jobs \ overtaken :
        /\ status[j] = "awaiting-approval" /\ wakes[j] = 0 <=>
               j \in pendingApprovals
        /\ status[j] = "suspended" /\ wakes[j] = 0 <=> pendingSuspends[j] # "none"
        /\ j \in approvalTimers <=> j \in pendingApprovals
        /\ j \in suspendTimers <=> pendingSuspends[j] = "timer"

\* Between crashes the slots, the queue and the closures go on as Dispatcher
\* says, whatever jobs came back from their records and whatever they report:
\* they hold no slot and free none.  A crash leaves an empty dispatcher.
DispatcherStartsAnew ==
    D!Init /\ [][D!Next \/ (Restart /\ D!Init')]_(D!vars)

\* A restart does not bring a finished job back to life: with its deletes
\* done, it is forgotten or left alone.
FinishedJobsStayFinished ==
    [][\A j \in Jobs \ overtaken :
          status[j] \in Terminal /\ ~ Executing(j) /\ late[j] = "none" /\ Quiet(j)
              => status'[j] \in {status[j], "none"}]_allVars

\* With no file operation under way, a job is on disk if and only if it is
\* paused, and the record of a pending approval carries the claim in force.
OnDisk(j) == Quiet(j) => (Whole(file[j]) <=> status[j] \in Paused)

ClaimOnDisk(j) ==
    Quiet(j) /\ j \in pendingApprovals /\ Whole(file[j]) =>
        file[j].claim = claims[j]

\* Crashes, torn writes and lost operations included: the records follow
\* the pauses, as long as no step of the job overtakes its file operations.
RecordsFollowPauses == \A j \in Jobs \ overtaken : OnDisk(j)

\* Likewise the claim a record carries is the one in force.
RecordsCarryClaims == \A j \in Jobs \ overtaken : ClaimOnDisk(j)
=============================================================================
