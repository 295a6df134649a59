----------------------------- MODULE FlowGraph -----------------------------
(***************************************************************************)
(* The run of one compiled flow (compileFlow) under LangGraph, which runs  *)
(* a graph in supersteps: all nodes that were triggered execute on the     *)
(* same snapshot, their deltas are merged, and each node's router, reading *)
(* its own delta, triggers nodes for the next superstep.  A node triggered *)
(* by several routers runs once.  A node that interrupts pauses the graph; *)
(* the deltas of its superstep wait until it is answered.                  *)
(*                                                                         *)
(* The flow is any of Flows that flow-spec admits, so the model shows what *)
(* the validator's rules promise to a run.  A node is reduced to its exit  *)
(* after the wrappers of its executor: retries, deadlines, loops and input *)
(* mappings all end in a success, a reject or a named error.  Expressions  *)
(* that throw, the output contract of the flow and LangGraph's own limit   *)
(* on supersteps are left out, and so is what executors do to the job's    *)
(* record (JobLifecycle).                                                  *)
(***************************************************************************)
EXTENDS FlowSpec

CONSTANTS
    Flows,      \* the flows that may be submitted
    ErrorNames  \* what an exit of kind 'error' may carry as errorName

VARIABLES
    flow,       \* the flow under way
    status,     \* of the invocation: "running", "paused", "completed", "failed"
    frontier,   \* the nodes triggered for this superstep
    exits,      \* exits of this superstep known so far; of the last one when ended
    completed,  \* the nodes with __completions > 0 (and evidence in `nodes`)
    attempts,   \* reject counters
    visited,    \* history: the nodes that were triggered
    again,      \* history: the nodes whose body succeeded a second time
    strayed     \* history: an exit of the run was not success or a counted reject

progress == <<completed, attempts, visited, again, strayed>>
vars == <<flow, status, frontier, exits, progress>>

Interrupt(n) == <<n, "interrupt">>
Interrupts == {Interrupt(n) : n \in Nodes}
Original(n) == IF n \in Interrupts THEN n[1] ELSE n

\* The suffixes of interrupt nodes are not those of nodes, and a name of an error
\* is told from the other kinds of exits.
ASSUME NamesAssumption ==
    /\ IsFiniteSet(Nodes)
    /\ Nodes \intersect Interrupts = {}
    /\ ErrorNames \intersect {"skip", "success", "continued", "reject"} = {}

\* Edges and escalations lead to nodes of the flow.
ASSUME FlowsAssumption == \A f \in Flows :
    /\ f.edges \subseteq [from : Nodes, to : Nodes, on : SUBSET ErrorNames,
                          type : Forward \union {"error", "fallback", "reject"}]
    /\ f.escalate \in [Nodes -> Nodes \union {NoNode}]

\* The rewrite: a tagged node leads to its interrupt node, which takes over
\* the edges that left it, the error edges included.
Rewritten(f) ==
    LET tagged == {n \in Nodes : f.tag[n] # "none"}
        moved(n) == IF n \in tagged THEN Interrupt(n) ELSE n
    IN  {[from |-> n, to |-> Interrupt(n), type |-> "sequence", on |-> {}] : n \in tagged}
        \union {[e EXCEPT !.from = moved(e.from)] : e \in f.edges}

Edges == Rewritten(flow)

Trigger(f) == CHOOSE n \in Nodes : f.kind[n] = "trigger"

Init ==
    /\ flow \in {f \in Flows : Admitted(f)}
    /\ status = "running" /\ frontier = {Trigger(flow)}
    /\ exits = << >>
    /\ completed = {} /\ visited = {} /\ again = {} /\ strayed = FALSE
    /\ attempts = [n \in Nodes \union Interrupts |-> 0]

-----------------------------------------------------------------------------
(* Executing a node: the wrappers, outermost first. *)

\* A bug to detect: the barrier does not remember that it has fired.
SkipsUntilArrived(n) ==
    /\ n \in Joins(flow)
    /\ Cardinality(Sources(Edges, n) \intersect completed) < Required(Edges, flow.join[n], n)

\* withJoinGuard
Skips(n) ==
    /\ n \in Joins(flow)
    /\ \/ n \in completed
       \/ Cardinality(Sources(Edges, n) \intersect completed) < Required(Edges, flow.join[n], n)

\* A bug to detect: an effect is performed whenever its node is entered.
NeverRecorded(n) == FALSE

\* withEffectGuard: the recorded output instead of the effect.
Recorded(n) == n \in flow.effects /\ n \in completed

\* withPolicy around withNodeIO around the executor.
BodyExits(n) ==
    CASE flow.kind[n] = "trigger" -> {"success"}
      [] flow.kind[n] = "gate" -> {"success", "reject"}
      [] OTHER -> {"success"} \union
                  (IF flow.onError[n] = "continue" THEN {"continued"} ELSE ErrorNames)

ExitsOf(n) ==
    IF Skips(n) THEN {"skip"} ELSE IF Recorded(n) THEN {"success"} ELSE BodyExits(n)

-----------------------------------------------------------------------------
(* Routing: buildRouter, for the exit x of n. *)

\* A bug to detect: a rejection is not counted by the node that rejects.
CountsApprovalsOnly(x, n) ==
    IF n \in Interrupts THEN Min({attempts[n] + 1, flow.limit[Original(n)]}) ELSE attempts[n]

\* A node counts its rejections, an approval also what it lets pass.  The node's
\* own delta is merged before its router reads the counter; beyond the limit it
\* tells nothing more.
Counted(x, n) ==
    IF x = "reject" \/ (n \in Interrupts /\ flow.tag[Original(n)] = "approval")
      THEN Min({attempts[n] + 1, flow.limit[Original(n)]})
      ELSE attempts[n]

Cycles(x, n) == x = "reject" /\ Out(Edges, n, "reject") # {}
Exhausted(x, n) == Counted(x, n) >= flow.limit[Original(n)]

\* The error edges declared for x.  A bug to detect: the catch-all is not looked for.
NamedErrorEdges(x, n) == {e \in Out(Edges, n, "error") : x \in e.on}

\* Named error edges first, then the catch-all.
ErrorEdges(x, n) ==
    IF NamedErrorEdges(x, n) # {} THEN NamedErrorEdges(x, n)
    ELSE {e \in Out(Edges, n, "error") : e.on = {}}

FallsBack(n) == n \in Nodes /\ flow.onError[n] = "fallback" /\ Out(Edges, n, "fallback") # {}

\* The router throws, which fails the invocation.
Throws(x, n) ==
    \/ Cycles(x, n) /\ Exhausted(x, n) /\ flow.escalate[Original(n)] = NoNode
    \/ x \in ErrorNames /\ ErrorEdges(x, n) = {} /\ ~ FallsBack(n)

\* Otherwise: the sets of nodes it may trigger.
Routes(x, n) ==
    CASE x = "skip" -> {{}}
      [] Cycles(x, n) -> {IF Exhausted(x, n) THEN {flow.escalate[Original(n)]}
                                             ELSE Targets(Out(Edges, n, "reject"))}
      [] x \in ErrorNames -> {IF ErrorEdges(x, n) # {} THEN Targets(ErrorEdges(x, n))
                                                       ELSE Targets(Out(Edges, n, "fallback"))}
      [] OTHER -> Outcomes(Edges, n)

Strays(x, n) ==
    \/ x \in ErrorNames \union {"continued"}
    \/ x = "reject" /\ (~ Cycles(x, n) \/ Exhausted(x, n))

\* A bug to detect: nobody notices that no node is left.
NeverFinished == IF flow.failing \intersect completed' # {} THEN "failed" ELSE "running"

\* finalizeOrPause, when no node is left.
Finished == IF flow.failing \intersect completed' # {} THEN "failed" ELSE "completed"

\* The end of a superstep in which every node has its exit.
Commit(x) ==
    LET done == DOMAIN x
        counted == {n \in done : x[n] = "success"}
    IN  /\ exits' = x
        /\ completed' = completed \union counted
        /\ visited' = visited \union done
        /\ again' = again \union {n \in counted : n \in completed /\ ~ Recorded(n)}
        /\ attempts' = [n \in Nodes \union Interrupts |->
                          IF n \in done THEN Counted(x[n], n) ELSE attempts[n]]
        /\ strayed' = (strayed \/ \E n \in done : Strays(x[n], n))
        /\ IF \E n \in done : Throws(x[n], n)
             THEN status' = "failed" /\ frontier' = {}
             ELSE /\ \E route \in [done -> UNION {Routes(x[n], n) : n \in done}] :
                        /\ \A n \in done : route[n] \in Routes(x[n], n)
                        /\ frontier' = UNION {route[n] : n \in done}
                  /\ status' = IF frontier' = {} THEN Finished ELSE "running"
        /\ UNCHANGED flow

-----------------------------------------------------------------------------

\* The nodes of the frontier execute; interrupt nodes pause the invocation.
Superstep ==
    /\ status = "running"
    /\ \E x \in [frontier \ Interrupts -> UNION {ExitsOf(n) : n \in frontier \ Interrupts}] :
          /\ \A n \in DOMAIN x : x[n] \in ExitsOf(n)
          /\ IF frontier \intersect Interrupts = {}
               THEN Commit(x)
               ELSE /\ exits' = x /\ status' = "paused"
                    /\ UNCHANGED <<flow, frontier, progress>>

\* Command({resume}): one value, and the library decides which of the waiting
\* nodes take it.  Those it leaves out interrupt again.
Answer ==
    /\ status = "paused"
    /\ \E taking \in SUBSET (frontier \ DOMAIN exits), d \in {"success", "reject"} :
          LET answers == [n \in taking |->
                            IF flow.tag[Original(n)] = "approval" THEN d ELSE "success"]
              x == [n \in DOMAIN exits \union taking |->
                            IF n \in taking THEN answers[n] ELSE exits[n]]
          IN  /\ taking # {}
              /\ IF DOMAIN x = frontier
                   THEN Commit(x)
                   ELSE exits' = x /\ UNCHANGED <<flow, status, frontier, progress>>

Next == Superstep \/ Answer

\* An invocation goes on by itself.  Approvals and suspensions are answered: a
\* deadline rejects, a timer wakes (JobLifecycle); for a suspension that waits
\* for an event this is an assumption on who sends it.
Spec == Init /\ [][Next]_vars /\ WF_vars(Superstep) /\ WF_vars(Answer)

-----------------------------------------------------------------------------

Ended == status \in {"completed", "failed"}

\* A join's body succeeds at most once per run, however often its sources, a
\* reject cycle around one of them or an escalation trigger it.
JoinsFireOnce == again \intersect Joins(flow) = {}

\* A run on the happy path: no errors, and no rejections that no edge handled.
HappyEnd == status = "completed" /\ ~ strayed

\* Whatever a source's success triggers, the join is among it.
CertainlyTriggered(j) ==
    \A s \in Sources(flow.edges, j) : \A group \in Outcomes(flow.edges, s) : j \in group

\* The join-hazard analysis and the barrier fit together: of joins that sources
\* trigger whenever they run, none is left waiting on the happy path, whatever
\* rejections, approvals and shortcuts the sources went through before.  (A source
\* that always runs, as the analysis demands, but leaves by another edge, is counted
\* by the barrier without triggering it: if it is the last, the join stays closed.)
JoinsAreReached ==
    HappyEnd => \A j \in Joins(flow) \intersect visited :
                    CertainlyTriggered(j) => j \in completed

\* Reject cycles and re-entries do not repeat an effect that is on record.
EffectsHappenOnce == again \intersect flow.effects = {}

\* A graph fails because a rejection ran out of attempts, a failure endpoint was
\* reached, or an error came for which its node has no error edge and no
\* fallback: no error the flow handles fails it.  Approval- and suspend-tagged
\* nodes are exempt: the rewrite moves their error edges to the interrupt node,
\* where no error ever arrives.
HandledErrorsFailNothing ==
    status = "failed" =>
        \/ flow.failing \intersect completed # {}
        \/ \E n \in DOMAIN exits :
             LET o == Original(n) IN
                \/ exits[n] = "reject" /\ flow.escalate[o] = NoNode
                \/ /\ exits[n] \in ErrorNames
                   /\ flow.tag[o] # "none" \/
                      ~ (\/ \E e \in Out(flow.edges, o, "error") :
                               e.on = {} \/ exits[n] \in e.on
                         \/ /\ flow.onError[o] = "fallback"
                            /\ Out(flow.edges, o, "fallback") # {})

\* No escalation leads back to the node it came from.
EscalatesOnwards ==
    \A n \in Nodes : flow.escalate[n] # NoNode =>
        n \notin Below(flow.edges, {"sequence", "conditional", "fallback", "error"},
                       flow.escalate[n]) \union {flow.escalate[n]}

\* A run ends, for every flow that is admitted and whose escalations lead
\* onwards: reject edges are its only cycles, and their attempts are bounded.
RunsEnd == [](EscalatesOnwards => <>Ended)
=============================================================================
