------------------------ MODULE ControlPlaneProofs ------------------------
(***************************************************************************)
(* Theorems about JobEngine, and about IntakeSession on top of it, for     *)
(* every flow and any number of concurrent requests.                       *)
(*                                                                         *)
(* Of the engine there are two inductive invariants.  IInv holds however   *)
(* requests overlap; Alone follows a job whose requests come one at a time *)
(* and describes what the one walk knows about the rows it works on.  The  *)
(* session only adds to the steps of the engine, so what is proved of the  *)
(* engine holds under it; IntakeInv adds what the session knows.           *)
(***************************************************************************)
EXTENDS IntakeSession, TLAPS

\* A running job that is not paused is in the hands of a walk that has read it
\* and will write again.
Walked ==
    status = "running" /\ node = NoNode /\ ~ forwarded /\ ~ died =>
        \E w \in Walks :
            pc[w] \in {"begin", "executing", "pausing", "advancing",
                       "completing", "failing"}

\* The row comes before the event.
RowFirst ==
    produced \/ (\E w \in Walks : pc[w] = "publishing") => status \in Terminal

IInv == TypeOK /\ Walked /\ RowFirst

THEOREM InitIInv == Init => IInv
BY NoNodeAssumption, FlowAssumption
   DEF Init, IInv, TypeOK, Walked, RowFirst, Statuses, Labels, OnNode, NullableNodes

\* Each action's effect on one walk.
LEMMA EntersType ==
    ASSUME TypeOK, NEW w \in Walks, NEW n \in NullableNodes, Enters(w, n)
    PROVE  /\ pc' \in [Walks -> Labels] /\ at' \in [Walks -> NullableNodes]
           /\ pc'[w] \in {"begin", "completing"}
           /\ pc'[w] = "begin" => at'[w] \in Nodes
           /\ at'[w] = n
           /\ \A v \in Walks \ {w} : pc'[v] = pc[v] /\ at'[v] = at[v]
BY DEF TypeOK, Enters, Goto, Labels, OnNode, NullableNodes

LEMMA GotoType ==
    ASSUME TypeOK, NEW w \in Walks, NEW l \in Labels, NEW n \in NullableNodes,
           Goto(w, l, n)
    PROVE  /\ pc' \in [Walks -> Labels] /\ at' \in [Walks -> NullableNodes]
           /\ pc'[w] = l /\ at'[w] = n
           /\ \A v \in Walks \ {w} : pc'[v] = pc[v] /\ at'[v] = at[v]
BY DEF TypeOK, Goto

LEMMA EndsType ==
    ASSUME TypeOK, NEW w \in Walks, Ends(w)
    PROVE  /\ pc' \in [Walks -> Labels] /\ at' \in [Walks -> NullableNodes]
           /\ pc'[w] = "idle" /\ at'[w] = NoNode
           /\ \A v \in Walks \ {w} : pc'[v] = pc[v] /\ at'[v] = at[v]
BY GotoType DEF Ends, Labels, NullableNodes

LEMMA FollowsEdgeType ==
    ASSUME TypeOK, NEW w \in Walks, at[w] \in Nodes, FollowsEdge(w)
    PROVE  /\ pc' \in [Walks -> Labels] /\ at' \in [Walks -> NullableNodes]
           /\ pc'[w] \in {"begin", "completing"}
           /\ pc'[w] = "begin" => at'[w] \in Nodes
           /\ \A v \in Walks \ {w} : pc'[v] = pc[v] /\ at'[v] = at[v]
<1>1. PICK n \in Edges[at[w]] : Enters(w, n)
  BY DEF FollowsEdge
<1>2. n \in NullableNodes
  BY FlowAssumption
<1> QED BY <1>1, <1>2, EntersType

-----------------------------------------------------------------------------
(* One lemma per group of actions: what the step does, in a form that does  *)
(* not mention how a walk moves.                                            *)

\* A request begins: only its walk's label changes.
LEMMA RequestStep ==
    ASSUME TypeOK, NEW w \in Walks, Request(w)
    PROVE  /\ TypeOK' /\ pc[w] = "idle"
           /\ pc'[w] \in {"starting", "resuming"}
           /\ status \in {"queued", "running"}
           /\ pc'[w] = "resuming" => at'[w] = node
           /\ pc'[w] = "starting" /\ ~ overlapped' => node = NoNode
           /\ ~ overlapped' => ~ overlapped /\ Busy = {}
           /\ UNCHANGED <<row, steps, fixed, produced, died>>
           /\ \A v \in Walks \ {w} : pc'[v] = pc[v] /\ at'[v] = at[v]
<1>1. CASE Start(w)
  <2>1. Goto(w, "starting", NoNode)
    BY <1>1 DEF Start
  <2>2. "starting" \in Labels /\ NoNode \in NullableNodes
    BY DEF Labels, NullableNodes
  <2>3. /\ pc' \in [Walks -> Labels] /\ at' \in [Walks -> NullableNodes]
        /\ pc'[w] = "starting"
        /\ \A v \in Walks \ {w} : pc'[v] = pc[v] /\ at'[v] = at[v]
    BY <2>1, <2>2, GotoType
  <2>4. \A v \in Walks : pc'[v] \in OnNode => at'[v] \in Nodes
    BY <2>3 DEF TypeOK, OnNode
  <2>5. TypeOK'
    BY <1>1, <2>3, <2>4 DEF Start, TypeOK, row, fixed
  <2> QED BY <1>1, <2>3, <2>5 DEF Start, row, fixed
<1>2. CASE Resumes(w)
  <2>1. Goto(w, "resuming", node)
    BY <1>2 DEF Resumes
  <2>2. "resuming" \in Labels /\ node \in Nodes /\ node \in NullableNodes
    BY <1>2 DEF Labels, OnNode, NullableNodes, TypeOK, Resumes
  <2>3. /\ pc' \in [Walks -> Labels] /\ at' \in [Walks -> NullableNodes]
        /\ pc'[w] = "resuming" /\ at'[w] = node
        /\ \A v \in Walks \ {w} : pc'[v] = pc[v] /\ at'[v] = at[v]
    BY <2>1, <2>2, GotoType
  <2>4. \A v \in Walks : pc'[v] \in OnNode => at'[v] \in Nodes
    BY <2>2, <2>3 DEF TypeOK
  <2>5. TypeOK'
    BY <1>2, <2>3, <2>4 DEF Resumes, TypeOK, row, fixed
  <2> QED BY <1>2, <2>3, <2>5 DEF Resumes, row, fixed
<1> QED BY <1>1, <1>2 DEF Request, DeliverEvent, SubmitApproval

\* The walk keeps its type whatever it does next.
LEMMA ProceedType ==
    ASSUME TypeOK, NEW w \in Walks, Proceed(w) \/ Publish(w) \/ WalkDies(w)
    PROVE  /\ TypeOK' /\ pc[w] # "idle"
           /\ \A v \in Walks \ {w} : pc'[v] = pc[v] /\ at'[v] = at[v]
<1> USE DEF TypeOK
<1>1. CASE MarkRunning(w)
  BY <1>1, EntersType, FlowAssumption DEF MarkRunning, Statuses, OnNode, fixed, history
<1>2. CASE StartStep(w)
  <2>1. "executing" \in Labels /\ at[w] \in Nodes /\ at[w] \in NullableNodes
    BY <1>2 DEF StartStep, OnNode, Labels, NullableNodes
  <2> QED BY <1>2, <2>1, GotoType DEF StartStep, Records, row, fixed, history
<1>3. CASE Advance(w)
  <2>1. at[w] \in Nodes
    BY <1>3 DEF Advance, OnNode
  <2> QED BY <1>3, <2>1, FollowsEdgeType DEF Advance, Records, OnNode, row, fixed, history
<1>4. CASE TerminateSuccess(w)
  <2>1. "completing" \in Labels /\ NoNode \in NullableNodes /\ at[w] \in Nodes
    BY <1>4 DEF TerminateSuccess, OnNode, Labels, NullableNodes
  <2> QED BY <1>4, <2>1, GotoType
          DEF TerminateSuccess, Records, OnNode, row, fixed, history
<1>5. CASE TerminateFailure(w)
  <2>1. "failing" \in Labels /\ NoNode \in NullableNodes /\ at[w] \in Nodes
    BY <1>5 DEF TerminateFailure, OnNode, Labels, NullableNodes
  <2>2. /\ pc' \in [Walks -> Labels] /\ at' \in [Walks -> NullableNodes]
        /\ pc'[w] = "failing"
        /\ \A v \in Walks \ {w} : pc'[v] = pc[v] /\ at'[v] = at[v]
    BY <1>5, <2>1, GotoType DEF TerminateFailure
  <2>3. \A v \in Walks : pc'[v] \in OnNode => at'[v] \in Nodes
    BY <2>2 DEF OnNode
  <2>4. steps' \in [Nodes -> {"none", "running", "completed", "failed"}]
    BY <1>5, <2>1 DEF TerminateFailure, Records
  <2>5. TypeOK' /\ pc[w] # "idle"
    BY <1>5, <2>2, <2>3, <2>4 DEF TerminateFailure, row, fixed, history
  <2> QED BY <2>2, <2>5
<1>6. CASE Pause(w)
  <2>1. "pausing" \in Labels /\ at[w] \in Nodes /\ at[w] \in NullableNodes
    BY <1>6 DEF Pause, OnNode, Labels, NullableNodes
  <2> QED BY <1>6, <2>1, GotoType DEF Pause, row, fixed, history
<1>7. CASE AdvanceResumed(w)
  <2>1. "advancing" \in Labels /\ at[w] \in Nodes /\ at[w] \in NullableNodes
    BY <1>7 DEF AdvanceResumed, OnNode, Labels, NullableNodes
  <2> QED BY <1>7, <2>1, GotoType DEF AdvanceResumed, Records, row, fixed, history
<1>8. CASE ClearNode(w)
  <2>1. at[w] \in Nodes
    BY <1>8 DEF ClearNode, OnNode
  <2> QED BY <1>8, <2>1, FollowsEdgeType
          DEF ClearNode, OnNode, NullableNodes, fixed, history
<1>9. CASE SetNode(w)
  BY <1>9, EndsType DEF SetNode, OnNode, fixed, history
<1>10. CASE MarkCompleted(w)
  <2>1. "publishing" \in Labels /\ NoNode \in NullableNodes
    BY DEF Labels, NullableNodes
  <2> QED BY <1>10, <2>1, EndsType, GotoType
          DEF MarkCompleted, OnNode, Statuses, fixed, history
<1>11. CASE MarkFailed(w)
  BY <1>11, EndsType DEF MarkFailed, OnNode, Statuses, fixed, history
<1>12. CASE Publish(w)
  BY <1>12, EndsType DEF Publish, OnNode, row, fixed, history
<1>13. CASE WalkDies(w)
  BY <1>13, EndsType DEF WalkDies, OnNode, row, fixed
<1> QED BY <1>1, <1>2, <1>3, <1>4, <1>5, <1>6, <1>7, <1>8, <1>9, <1>10, <1>11,
           <1>12, <1>13 DEF Proceed

\* Where a step of the walk leaves it, what it writes to the job's row, and
\* what it must have been doing.
LEMMA ProceedLabels ==
    ASSUME TypeOK, NEW w \in Walks, Proceed(w)
    PROVE  \/ /\ pc'[w] \in {"begin", "executing", "pausing", "advancing",
                             "completing", "failing"}
              /\ status' = status \/ (status = "queued" /\ status' = "running")
              /\ node' = node \/ pc[w] = "advancing"
           \/ /\ pc[w] = "pausing" /\ pc'[w] = "idle" /\ status' = status
              /\ node' = IF status = "running" THEN at[w] ELSE node
           \/ /\ pc'[w] \in {"idle", "publishing"} /\ status' \in Terminal
              /\ status \in Terminal => status' = status
              /\ node' = node
              /\ pc[w] \in {"completing", "failing"}
<1>1. CASE MarkRunning(w)
  BY <1>1, EntersType, FlowAssumption DEF MarkRunning
<1>2. CASE StartStep(w)
  BY <1>2 DEF StartStep, Goto, row, TypeOK
<1>3. CASE Advance(w)
  <2>1. at[w] \in Nodes
    BY <1>3 DEF Advance, OnNode, TypeOK
  <2> QED BY <1>3, <2>1, FollowsEdgeType DEF Advance, row
<1>4. CASE TerminateSuccess(w)
  BY <1>4 DEF TerminateSuccess, Goto, row, TypeOK
<1>5. CASE TerminateFailure(w)
  BY <1>5 DEF TerminateFailure, Goto, row, TypeOK
<1>6. CASE Pause(w)
  BY <1>6 DEF Pause, Goto, row, TypeOK
<1>7. CASE AdvanceResumed(w)
  BY <1>7 DEF AdvanceResumed, Goto, row, TypeOK
<1>8. CASE ClearNode(w)
  <2>1. at[w] \in Nodes
    BY <1>8 DEF ClearNode, OnNode, TypeOK
  <2> QED BY <1>8, <2>1, FollowsEdgeType DEF ClearNode
<1>9. CASE SetNode(w)
  BY <1>9, EndsType DEF SetNode
<1>10. CASE MarkCompleted(w)
  BY <1>10 DEF MarkCompleted, Ends, Goto, TypeOK, Terminal
<1>11. CASE MarkFailed(w)
  BY <1>11, EndsType DEF MarkFailed, Terminal
<1> QED BY <1>1, <1>2, <1>3, <1>4, <1>5, <1>6, <1>7, <1>8, <1>9, <1>10, <1>11
        DEF Proceed

\* A report or a cancellation touches the status only, and no end.
LEMMA OutsideStep ==
    ASSUME TypeOK, Outside
    PROVE  /\ TypeOK' /\ status \notin Terminal
           /\ forwarded \/ status' \in {"cancelling", "cancelled"}
           /\ UNCHANGED <<node, steps, fixed, produced, pc, at, history>>
<1>1. CASE Cancel
  BY <1>1 DEF Cancel, TypeOK, Statuses, Terminal, fixed, history
<1>2. ASSUME NEW s \in Statuses, HarnessReports(s)
      PROVE  /\ TypeOK' /\ status \notin Terminal /\ forwarded
             /\ UNCHANGED <<node, steps, fixed, produced, pc, at, history>>
  BY <1>2 DEF HarnessReports, TypeOK, fixed, history
<1> QED BY <1>1, <1>2 DEF Outside

LEMMA ProceedKeeps ==
    ASSUME NEW w \in Walks, Proceed(w)
    PROVE  UNCHANGED <<fixed, produced, history>>
BY DEF Proceed, MarkRunning, StartStep, Advance, TerminateSuccess, TerminateFailure,
       Pause, AdvanceResumed, ClearNode, SetNode, MarkCompleted, MarkFailed

-----------------------------------------------------------------------------
(* However requests overlap.                                                *)

LEMMA NextIInv == IInv /\ [Next]_vars => IInv'
<1> SUFFICES ASSUME IInv, [Next]_vars PROVE IInv'
  OBVIOUS
<1>1. TypeOK /\ Walked /\ RowFirst
  BY DEF IInv
<1>2. CASE UNCHANGED vars
  BY <1>1, <1>2 DEF vars, row, fixed, history, IInv, TypeOK, Walked, RowFirst
<1>3. CASE Outside
  <2>1. /\ TypeOK' /\ status \notin Terminal
        /\ forwarded \/ status' \in {"cancelling", "cancelled"}
        /\ UNCHANGED <<node, steps, fixed, produced, pc, at, history>>
    BY <1>1, <1>3, OutsideStep
  <2>2. Walked'
    BY <2>1 DEF Walked, fixed
  <2>3. RowFirst'
    BY <1>1, <2>1 DEF RowFirst
  <2> QED BY <2>1, <2>2, <2>3 DEF IInv
<1>4. ASSUME NEW w \in Walks, Request(w)
      PROVE  IInv'
  <2>1. /\ TypeOK' /\ pc[w] = "idle" /\ pc'[w] \in {"starting", "resuming"}
        /\ UNCHANGED <<row, steps, fixed, produced, died>>
        /\ \A v \in Walks \ {w} : pc'[v] = pc[v] /\ at'[v] = at[v]
    BY <1>1, <1>4, RequestStep
  <2>2. Walked'
    BY <1>1, <2>1 DEF Walked, row, fixed
  <2>3. RowFirst'
    BY <1>1, <2>1 DEF RowFirst, row
  <2> QED BY <2>1, <2>2, <2>3 DEF IInv
<1>5. ASSUME NEW w \in Walks, Proceed(w)
      PROVE  IInv'
  <2>1. /\ TypeOK' /\ UNCHANGED <<fixed, produced, history>>
        /\ \A v \in Walks \ {w} : pc'[v] = pc[v] /\ at'[v] = at[v]
    BY <1>1, <1>5, ProceedType, ProceedKeeps
  <2>2. CASE /\ pc'[w] \in {"begin", "executing", "pausing", "advancing",
                            "completing", "failing"}
             /\ status' = status \/ (status = "queued" /\ status' = "running")
    <3>1. Walked'
      BY <2>2 DEF Walked
    <3>2. RowFirst'
      BY <1>1, <2>1, <2>2 DEF RowFirst, Terminal
    <3> QED BY <2>1, <3>1, <3>2 DEF IInv
  <2>3. CASE /\ pc[w] = "pausing" /\ pc'[w] = "idle" /\ status' = status
             /\ node' = IF status = "running" THEN at[w] ELSE node
    <3>1. at[w] # NoNode
      BY <1>1, <2>3, NoNodeAssumption DEF TypeOK, OnNode
    <3>2. Walked'
      BY <2>3, <3>1 DEF Walked
    <3>3. RowFirst'
      BY <1>1, <2>1, <2>3 DEF RowFirst
    <3> QED BY <2>1, <3>2, <3>3 DEF IInv
  <2>4. CASE pc'[w] \in {"idle", "publishing"} /\ status' \in Terminal
    BY <2>1, <2>4 DEF IInv, Walked, RowFirst, Terminal
  <2> QED BY <1>1, <1>5, <2>2, <2>3, <2>4, ProceedLabels
<1>6. ASSUME NEW w \in Walks, Publish(w)
      PROVE  IInv'
  <2>1. TypeOK' /\ \A v \in Walks \ {w} : pc'[v] = pc[v]
    BY <1>1, <1>6, ProceedType
  <2>2. /\ pc[w] = "publishing" /\ pc'[w] = "idle"
        /\ status' = status /\ status \in Terminal
    BY <1>1, <1>6, EndsType DEF Publish, row, RowFirst
  <2> QED BY <2>1, <2>2 DEF IInv, Walked, RowFirst, Terminal
<1>7. ASSUME NEW w \in Walks, WalkDies(w)
      PROVE  IInv'
  <2>1. TypeOK' /\ \A v \in Walks \ {w} : pc'[v] = pc[v]
    BY <1>1, <1>7, ProceedType
  <2>2. /\ pc'[w] = "idle" /\ died' = TRUE
        /\ status' = status /\ produced' = produced
    BY <1>1, <1>7, EndsType DEF WalkDies, row
  <2> QED BY <1>1, <2>1, <2>2 DEF IInv, Walked, RowFirst
<1> QED BY <1>2, <1>3, <1>4, <1>5, <1>6, <1>7 DEF Next

THEOREM Invariance == Spec => []IInv
BY InitIInv, NextIInv, PTL DEF Spec

\* The rows and the walks' locals keep their types: a walk never works on a
\* node it does not have.
THEOREM TypeCorrect == Spec => []TypeOK
<1>1. IInv => TypeOK
  BY DEF IInv
<1> QED BY <1>1, Invariance, PTL

\* No overlap of starts, deliveries, approvals and cancellations strands a job
\* that says it is running.
THEOREM RunningJobsAreInHand == Spec => []IdleRunsArePaused
<1>1. IInv => IdleRunsArePaused
  BY DEF IInv, Walked, IdleRunsArePaused, Busy
<1> QED BY <1>1, Invariance, PTL

\* Who hears of an intent finds the job ended.
THEOREM IntentsAreLast == Spec => []IntentsFollowTheEnd
<1>1. IInv => IntentsFollowTheEnd
  BY DEF IInv, RowFirst, IntentsFollowTheEnd
<1> QED BY <1>1, Invariance, PTL

\* Nothing takes a job out of its end.
LEMMA EndsStay ==
    ASSUME TypeOK, [Next]_vars, status \in Terminal
    PROVE  status' = status
<1>1. CASE UNCHANGED vars
  BY <1>1 DEF vars, row
<1>2. CASE Outside
  BY <1>2, OutsideStep
<1>3. ASSUME NEW w \in Walks, Request(w) PROVE status' = status
  BY <1>3, RequestStep DEF row
<1>4. ASSUME NEW w \in Walks, Proceed(w) PROVE status' = status
  BY <1>4, ProceedLabels DEF Terminal
<1>5. ASSUME NEW w \in Walks, Publish(w) \/ WalkDies(w) PROVE status' = status
  BY <1>5 DEF Publish, WalkDies, row
<1> QED BY <1>1, <1>2, <1>3, <1>4, <1>5 DEF Next

\* Neither walks that come late nor reports nor cancellations do.
THEOREM EndsAreFinal == Spec => TerminalIsFinal
<1>1. TypeOK /\ [Next]_vars => [(status \in Terminal) => (status' = status)]_status
  BY EndsStay
<1> QED BY <1>1, TypeCorrect, PTL DEF Spec, TerminalIsFinal

-----------------------------------------------------------------------------
(* When requests come one at a time.                                        *)

\* What the walk may rely on without reading the row again.
Knows(w) ==
    /\ pc[w] \notin {"idle", "publishing"} => status \notin {"completed", "failed"}
    /\ pc[w] \notin {"idle", "starting"} => status # "queued"
    /\ pc[w] \in {"starting", "begin", "executing", "pausing"} =>
           node = NoNode \/ status \in {"cancelling", "cancelled"}
    /\ pc[w] \in {"resuming", "advancing"} => node = at[w]
    /\ pc[w] = "advancing" => steps[at[w]] = "completed"

\* A step that says running is being executed, is where the job is paused, or
\* was left by a cancelled job.
Explained(n) ==
    \/ \E w \in Walks : at[w] = n /\ pc[w] \in {"executing", "pausing", "resuming"}
    \/ node = n
    \/ Busy = {} /\ status \in {"cancelling", "cancelled"}

Alone ==
    ~ overlapped /\ ~ died /\ ~ forwarded =>
        /\ \A v, w \in Busy : v = w
        /\ \A w \in Walks : Knows(w)
        /\ \A n \in Nodes : steps[n] = "running" => Explained(n)

LEMMA InitAlone == Init => Alone
BY DEF Init, Alone, Busy, Knows

\* The one walk's step, where no other walk is under way before or after it.
LEMMA AloneStep ==
    ASSUME IInv, NEW w \in Walks, Proceed(w),
           Knows(w), ~ forwarded,
           \A v \in Walks \ {w} : pc[v] = "idle",
           \A n \in Nodes : steps[n] = "running" => Explained(n)
    PROVE  /\ Knows(w)'
           /\ \A n \in Nodes : (steps[n] = "running" => Explained(n))'
<1> DEFINE Mine(n) == at[w] = n /\ pc[w] \in {"executing", "pausing", "resuming"}
<1>1. TypeOK
  BY DEF IInv
<1>2. /\ TypeOK' /\ pc[w] # "idle"
      /\ \A v \in Walks \ {w} : pc'[v] = pc[v] /\ at'[v] = at[v]
  BY <1>1, ProceedType
<1>3. \A n \in Nodes : steps[n] = "running" => Mine(n) \/ node = n
  BY <1>2 DEF Explained, Busy
<1>4. ASSUME NEW n \in Nodes, steps'[n] = "running",
             Mine(n)' \/ node' = n
      PROVE  Explained(n)'
  BY <1>4 DEF Explained
<1>5. CASE MarkRunning(w)
  <2>1. /\ pc[w] = "starting" /\ steps' = steps /\ node' = node
        /\ status' = IF status = "queued" THEN "running" ELSE status
        /\ pc'[w] \in {"begin", "completing"}
    BY <1>1, <1>5, EntersType, FlowAssumption DEF MarkRunning
  <2>2. Knows(w)'
    BY <2>1 DEF Knows
  <2> QED BY <1>3, <1>4, <2>1, <2>2
<1>6. CASE StartStep(w)
  <2>1. /\ pc[w] = "begin" /\ node' = node /\ status' = status
        /\ pc'[w] = "executing" /\ at'[w] = at[w]
        /\ steps' = [steps EXCEPT ![at[w]] = "running"]
    BY <1>1, <1>6 DEF StartStep, Goto, Records, row, TypeOK
  <2>2. Knows(w)'
    BY <2>1 DEF Knows
  <2>3. ASSUME NEW n \in Nodes, steps'[n] = "running" PROVE Mine(n)' \/ node' = n
    BY <1>1, <1>3, <2>1, <2>3 DEF TypeOK
  <2> QED BY <1>4, <2>2, <2>3
<1>7. CASE Advance(w) \/ TerminateSuccess(w) \/ TerminateFailure(w)
  <2>1. /\ pc[w] \in {"executing", "resuming"} /\ at[w] \in Nodes
        /\ node' = node /\ status' = status
        /\ steps' \in {[steps EXCEPT ![at[w]] = "completed"],
                       [steps EXCEPT ![at[w]] = "failed"]}
    BY <1>1, <1>7 DEF Advance, TerminateSuccess, TerminateFailure, Records, row,
                      TypeOK, OnNode
  <2>2. /\ pc'[w] \in {"begin", "completing", "failing"}
        /\ pc'[w] = "begin" => pc[w] = "executing"
    BY <1>1, <1>7, <2>1, FollowsEdgeType
       DEF Advance, TerminateSuccess, TerminateFailure, Goto, TypeOK
  <2>3. Knows(w)'
    BY <2>1, <2>2 DEF Knows
  <2>4. ASSUME NEW n \in Nodes, steps'[n] = "running" PROVE node' = n
    BY <1>1, <1>3, <2>1, <2>4 DEF TypeOK
  <2> QED BY <1>4, <2>3, <2>4
<1>8. CASE Pause(w)
  <2>1. /\ pc[w] = "executing" /\ node' = node /\ status' = status /\ steps' = steps
        /\ pc'[w] = "pausing" /\ at'[w] = at[w]
    BY <1>1, <1>8 DEF Pause, Goto, row, TypeOK
  <2>2. Knows(w)'
    BY <2>1 DEF Knows
  <2> QED BY <1>3, <1>4, <2>1, <2>2
<1>9. CASE AdvanceResumed(w)
  <2>1. /\ pc[w] = "resuming" /\ at[w] \in Nodes /\ node' = node /\ status' = status
        /\ pc'[w] = "advancing" /\ at'[w] = at[w]
        /\ steps' = [steps EXCEPT ![at[w]] = "completed"]
    BY <1>1, <1>9 DEF AdvanceResumed, Goto, Records, row, TypeOK, OnNode
  <2>2. steps'[at'[w]] = "completed"
    BY <1>1, <2>1 DEF TypeOK
  <2>3. Knows(w)'
    BY <2>1, <2>2 DEF Knows
  <2>4. ASSUME NEW n \in Nodes, steps'[n] = "running" PROVE node' = n
    BY <1>1, <1>3, <2>1, <2>4 DEF TypeOK
  <2> QED BY <1>4, <2>3, <2>4
<1>10. CASE ClearNode(w)
  <2>1. /\ pc[w] = "advancing" /\ at[w] \in Nodes /\ status' = status /\ steps' = steps
        /\ node' = IF status = "running" THEN NoNode ELSE node
    BY <1>1, <1>10 DEF ClearNode, TypeOK, OnNode
  <2>2. pc'[w] \in {"begin", "completing"}
    BY <1>1, <1>10, <2>1, FollowsEdgeType DEF ClearNode
  <2>3. node = at[w] /\ steps[at[w]] = "completed"
    BY <2>1 DEF Knows
  <2>4. status \in {"running", "cancelling", "cancelled"}
    BY <1>1, <2>1 DEF Knows, TypeOK, Statuses
  <2>5. Knows(w)'
    BY <2>1, <2>2, <2>4 DEF Knows
  <2>6. \A n \in Nodes : steps'[n] # "running"
    BY <1>3, <2>1, <2>3
  <2> QED BY <2>5, <2>6
<1>11. CASE SetNode(w)
  <2>1. /\ pc[w] = "pausing" /\ status' = status /\ steps' = steps
        /\ node' = IF status = "running" THEN at[w] ELSE node
        /\ pc'[w] = "idle"
    BY <1>1, <1>11, EndsType DEF SetNode
  <2>2. /\ status \in {"running", "cancelling", "cancelled"}
        /\ node = NoNode \/ status \in {"cancelling", "cancelled"}
    BY <1>1, <2>1 DEF Knows, TypeOK, Statuses
  <2>3. Busy' = {}
    BY <1>2, <2>1 DEF Busy
  <2>4. Knows(w)'
    BY <2>1 DEF Knows
  <2>5. ASSUME NEW n \in Nodes, steps'[n] = "running" PROVE Explained(n)'
    <3>1. CASE status = "running"
      BY <1>3, <2>1, <2>2, <2>5, <3>1, NoNodeAssumption DEF Explained
    <3>2. CASE status \in {"cancelling", "cancelled"}
      BY <2>1, <2>3, <3>2 DEF Explained
    <3> QED BY <2>2, <3>1, <3>2
  <2> QED BY <2>4, <2>5
<1>12. CASE MarkCompleted(w) \/ MarkFailed(w)
  <2>1. /\ pc[w] \in {"completing", "failing"} /\ node' = node /\ steps' = steps
        /\ pc'[w] \in {"idle", "publishing"} /\ status' \in Terminal
    BY <1>1, <1>12 DEF MarkCompleted, MarkFailed, Ends, Goto, TypeOK, Terminal
  <2>2. Knows(w)'
    BY <2>1 DEF Knows, Terminal
  <2> QED BY <1>3, <1>4, <2>1, <2>2
<1> QED BY <1>5, <1>6, <1>7, <1>8, <1>9, <1>10, <1>11, <1>12 DEF Proceed

LEMMA NextAlone == IInv /\ Alone /\ [Next]_vars => Alone'
<1> SUFFICES ASSUME IInv, Alone, [Next]_vars,
                    ~ overlapped', ~ died', ~ forwarded'
             PROVE  /\ \A v, w \in Busy' : v = w
                    /\ \A w \in Walks : Knows(w)'
                    /\ \A n \in Nodes : (steps[n] = "running" => Explained(n))'
  BY DEF Alone
<1>1. TypeOK
  BY DEF IInv
<1> DEFINE Before == /\ \A v, w \in Busy : v = w
                     /\ \A w \in Walks : Knows(w)
                     /\ \A n \in Nodes : steps[n] = "running" => Explained(n)
<1>2. CASE UNCHANGED vars
  <2>1. Before
    BY <1>2 DEF Alone, vars, fixed, history
  <2> QED BY <1>2, <2>1 DEF vars, row, Busy, Knows, Explained
<1>3. CASE Outside
  <2>1. /\ UNCHANGED <<node, steps, fixed, produced, pc, at, history>>
        /\ status' \in {"cancelling", "cancelled"}
    BY <1>1, <1>3, OutsideStep DEF fixed
  <2>2. Before
    BY <2>1 DEF Alone, fixed, history
  <2> QED BY <2>1, <2>2 DEF Busy, Knows, Explained
<1>4. ASSUME NEW w \in Walks, Request(w)
      PROVE  Before'
  <2>1. /\ pc[w] = "idle" /\ pc'[w] \in {"starting", "resuming"}
        /\ status \in {"queued", "running"}
        /\ pc'[w] = "resuming" => at'[w] = node
        /\ pc'[w] = "starting" => node = NoNode
        /\ ~ overlapped /\ Busy = {}
        /\ UNCHANGED <<row, steps, fixed, produced, died>>
        /\ \A v \in Walks \ {w} : pc'[v] = pc[v] /\ at'[v] = at[v]
    BY <1>1, <1>4, RequestStep
  <2>2. Before
    BY <2>1 DEF Alone, fixed
  <2>3. \A v \in Walks : pc[v] = "idle"
    BY <2>1 DEF Busy
  <2>4. \A v \in Walks \ {w} : pc'[v] = "idle"
    BY <2>1, <2>3
  <2>5. Busy' = {w}
    BY <2>1, <2>4 DEF Busy
  <2>6. pc'[w] = "resuming" => status # "queued"
    BY <1>1, <1>4 DEF Request, Start, DeliverEvent, SubmitApproval, Resumes, Goto, TypeOK
  <2>7. \A v \in Walks : Knows(v)'
    BY <2>1, <2>4, <2>6 DEF Knows, row
  <2>8. ASSUME NEW n \in Nodes, steps'[n] = "running" PROVE Explained(n)'
    BY <2>1, <2>2, <2>3, <2>8 DEF Explained, row
  <2> QED BY <2>5, <2>7, <2>8
<1>5. ASSUME NEW w \in Walks, pc[w] # "idle", Before,
             \A v \in Walks \ {w} : pc'[v] = pc[v]
      PROVE  /\ \A v \in Walks \ {w} : pc[v] = "idle"
             /\ \A v, u \in Busy' : v = u
             /\ \A v \in Walks \ {w} : Knows(v)'
  <2>1. \A v \in Walks \ {w} : pc[v] = "idle" /\ pc'[v] = "idle"
    BY <1>5 DEF Busy
  <2> QED BY <2>1 DEF Busy, Knows
<1>6. ASSUME NEW w \in Walks, Proceed(w)
      PROVE  Before'
  <2>1. /\ pc[w] # "idle" /\ Before /\ ~ forwarded
        /\ \A v \in Walks \ {w} : pc'[v] = pc[v]
    BY <1>1, <1>6, ProceedType, ProceedKeeps DEF Alone, fixed, history
  <2>2. /\ \A v \in Walks \ {w} : pc[v] = "idle"
        /\ \A v, u \in Busy' : v = u
        /\ \A v \in Walks \ {w} : Knows(v)'
    BY <1>5, <2>1
  <2>3. /\ Knows(w)'
        /\ \A n \in Nodes : (steps[n] = "running" => Explained(n))'
    BY <1>6, <2>1, <2>2, AloneStep
  <2> QED BY <2>2, <2>3
<1>7. ASSUME NEW w \in Walks, Publish(w)
      PROVE  Before'
  <2>1. /\ pc[w] = "publishing" /\ Before /\ pc'[w] = "idle"
        /\ UNCHANGED <<row, steps>>
        /\ \A v \in Walks \ {w} : pc'[v] = pc[v] /\ at'[v] = at[v]
    BY <1>1, <1>7, EndsType DEF Publish, Alone, fixed, history
  <2>2. /\ \A v \in Walks \ {w} : pc[v] = "idle"
        /\ \A v, u \in Busy' : v = u
        /\ \A v \in Walks \ {w} : Knows(v)'
    BY <1>5, <2>1
  <2>3. Knows(w)'
    BY <2>1 DEF Knows
  <2>4. ASSUME NEW n \in Nodes, steps'[n] = "running" PROVE Explained(n)'
    BY <2>1, <2>2, <2>4 DEF Explained, Busy, row
  <2> QED BY <2>2, <2>3, <2>4
<1>8. ASSUME NEW w \in Walks, WalkDies(w)
      PROVE  FALSE
  BY <1>8 DEF WalkDies
<1> QED BY <1>2, <1>3, <1>4, <1>6, <1>7, <1>8 DEF Next

\* A job whose requests come one at a time leaves a truthful record: nothing
\* says running but the step it is paused at.
THEOREM AuditTrailIsTruthful == Spec => []AuditTrailSettles
<1>1. IInv /\ Alone => AuditTrailSettles
  BY DEF IInv, TypeOK, Alone, AuditTrailSettles, Explained, Busy
<1> QED BY <1>1, InitAlone, NextAlone, Invariance, PTL DEF Spec

-----------------------------------------------------------------------------
(* The session on top of the engine. *)

LEMMA JobStep == IntakeNext => [Next]_vars
BY DEF IntakeNext, JobMoves, Message, Relay, PublishIntent, RequestDies, Abort,
       ConfirmOpens, ConfirmCommits, ConfirmRollsBack, Next, Request

\* What the engine publishes, nobody takes back.
LEMMA ProducedStays ==
    ASSUME TypeOK, [Next]_vars, produced PROVE produced'
<1>1. ASSUME NEW w \in Walks, Request(w) PROVE produced'
  BY <1>1, RequestStep
<1>2. ASSUME NEW w \in Walks, Proceed(w) PROVE produced'
  BY <1>2, ProceedKeeps
<1>3. ASSUME NEW w \in Walks, Publish(w) \/ WalkDies(w) PROVE produced'
  BY <1>3 DEF Publish, WalkDies
<1>4. CASE Outside
  BY <1>4, OutsideStep
<1> QED BY <1>1, <1>2, <1>3, <1>4 DEF Next, vars

\* IntakeTypeOK and the two invariants are inductive on top of the engine's.
IntakeInv == IInv /\ IntakeTypeOK /\ OneWorkJob /\ ReadySessionsHaveEndedJobs

LEMMA InitIntake == IntakeInit => IntakeInv
BY InitIInv
   DEF IntakeInit, IntakeInv, IInv, IntakeTypeOK, OneWorkJob, ReadySessionsHaveEndedJobs,
       Sessions

LEMMA NextIntake == IntakeInv /\ [IntakeNext]_intakeVars => IntakeInv'
<1> SUFFICES ASSUME IntakeInv, [IntakeNext]_intakeVars PROVE IntakeInv'
  OBVIOUS
<1>1. IInv /\ TypeOK /\ IntakeTypeOK /\ OneWorkJob /\ ReadySessionsHaveEndedJobs
  BY DEF IntakeInv, IInv
<1>2. [Next]_vars
  BY JobStep DEF intakeVars
<1>3. IInv' /\ TypeOK'
  BY <1>1, <1>2, NextIInv DEF IInv
<1>4. produced /\ status \in Terminal => produced' /\ status' \in Terminal
  BY <1>1, <1>2, EndsStay, ProducedStays
<1>5. CASE UNCHANGED sessionVars
  BY <1>1, <1>3, <1>4, <1>5
     DEF sessionVars, IntakeInv, IntakeTypeOK, OneWorkJob, ReadySessionsHaveEndedJobs
<1>6. ASSUME NEW w \in Walks, Message(w) \/ RequestDies(w)
      PROVE  IntakeInv'
  BY <1>1, <1>3, <1>4, <1>6
     DEF Message, RequestDies, confirmVars, IntakeInv, IntakeTypeOK, OneWorkJob,
         ReadySessionsHaveEndedJobs
<1>7. ASSUME NEW w \in Walks, Relay(w)
      PROVE  IntakeInv'
  BY <1>1, <1>3, <1>4, <1>7
     DEF Relay, confirmVars, IntakeInv, IntakeTypeOK, OneWorkJob,
         ReadySessionsHaveEndedJobs, Sessions, Open, Ended
<1>8. ASSUME NEW w \in Walks, PublishIntent(w)
      PROVE  IntakeInv'
  <2>1. produced' /\ status' \in Terminal
    BY <1>1, <1>8 DEF PublishIntent, Publish, row, IInv, RowFirst
  <2> QED BY <1>1, <1>3, <1>8, <2>1
          DEF PublishIntent, confirmVars, IntakeInv, IntakeTypeOK, OneWorkJob,
              ReadySessionsHaveEndedJobs, Sessions, Open, Ended
<1>9. CASE Abort
  BY <1>1, <1>3, <1>9
     DEF Abort, confirmVars, IntakeInv, IntakeTypeOK, OneWorkJob,
         ReadySessionsHaveEndedJobs, Sessions, Open, Ended
<1>10. ASSUME NEW c \in Confirms, ConfirmOpens(c) \/ ConfirmRollsBack(c)
       PROVE  IntakeInv'
  BY <1>1, <1>3, <1>4, <1>10
     DEF ConfirmOpens, ConfirmRollsBack, IntakeInv, IntakeTypeOK, OneWorkJob,
         ReadySessionsHaveEndedJobs
<1>11. ASSUME NEW c \in Confirms, ConfirmCommits(c)
       PROVE  IntakeInv'
  <2>1. workJobs = {}
    BY <1>1, <1>11 DEF ConfirmCommits, OneWorkJob, Open, Ended
  <2> QED BY <1>1, <1>3, <1>11, <2>1
          DEF ConfirmCommits, IntakeInv, IntakeTypeOK, OneWorkJob,
              ReadySessionsHaveEndedJobs, Sessions
<1> QED BY <1>5, <1>6, <1>7, <1>8, <1>9, <1>10, <1>11
        DEF IntakeNext, JobMoves, intakeVars

THEOREM IntakeInvariance == IntakeSpec => []IntakeInv
BY InitIntake, NextIntake, PTL DEF IntakeSpec

\* No race of confirms and an abort gives a session two work jobs, or an
\* aborted one any.
THEOREM ExactlyOneWorkJob == IntakeSpec => []OneWorkJob
<1>1. IntakeInv => OneWorkJob
  BY DEF IntakeInv
<1> QED BY <1>1, IntakeInvariance, PTL

\* An intent is offered when its job is done, and not before.
THEOREM IntentsAreFinal == IntakeSpec => []ReadySessionsHaveEndedJobs
<1>1. IntakeInv => ReadySessionsHaveEndedJobs
  BY DEF IntakeInv
<1> QED BY <1>1, IntakeInvariance, PTL

\* No relayed message, listener or confirm reopens a session.
THEOREM SessionsEndOnce == IntakeSpec => EndedSessionsStayEnded
<1>1. [IntakeNext]_intakeVars => [(session \in Ended) => (session' = session)]_session
  BY DEF IntakeNext, intakeVars, sessionVars, JobMoves, Message, Relay, PublishIntent,
         RequestDies, Abort, ConfirmOpens, ConfirmCommits, ConfirmRollsBack, Open
<1> QED BY <1>1, PTL DEF IntakeSpec, EndedSessionsStayEnded

\* The engine under a session is the engine: a job that says it is running is
\* walked or paused, also when messages start the walks.
THEOREM IntakeJobsAreInHand == IntakeSpec => []IdleRunsArePaused
<1>1. IntakeInv => IdleRunsArePaused
  BY DEF IntakeInv, IInv, Walked, IdleRunsArePaused, Busy
<1> QED BY <1>1, IntakeInvariance, PTL
=============================================================================
