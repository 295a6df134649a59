------------------------------ MODULE FlowSpec ------------------------------
(***************************************************************************)
(* What flow-spec admits: the rules of validateFlow and of its join-hazard *)
(* analysis that decide which graphs the runtime may be given.  Syntax     *)
(* (shapes of configs, expressions, cron fields) is left out.              *)
(*                                                                         *)
(* A flow is a record:                                                     *)
(*   edges     [from, to, type, on]: `on` names the errors an error edge   *)
(*             is for, {} is the catch-all; conditions are not kept        *)
(*   kind      "trigger", "gate", or "step" for what does work             *)
(*   tag       "approval", "suspend" or "none"                             *)
(*   join      joinStrategy: [kind |-> "none" | "all" | "any" | "nOfM", n] *)
(*   onError   policy.onError                                              *)
(*   effects   the side-effecting nodes, which all produce output          *)
(*   failing   the nodes with terminal:'fail'                              *)
(*   limit     maxAttempts of a node's reject edge                         *)
(*   escalate  where it leads then, NoNode for {kind: 'fail'}              *)
(***************************************************************************)
EXTENDS Naturals, FiniteSets, FiniteSetsExt

CONSTANTS Nodes, NoNode

Forward == {"sequence", "conditional"}

Targets(edges) == {e.to : e \in edges}
Out(edges, n, type) == {e \in edges : e.from = n /\ e.type = type}
Into(edges, n, types) == {e \in edges : e.to = n /\ e.type \in types}

Joins(flow) == {n \in Nodes : flow.join[n].kind # "none"}

\* The arrival set a join counts against, and how many of it the join needs.
Sources(edges, j) == {e.from : e \in Into(edges, j, Forward)}
Required(edges, strategy, j) ==
    LET count == Cardinality(Sources(edges, j))
    IN  CASE strategy.kind = "all" -> count
          [] strategy.kind = "any" -> 1
          [] strategy.kind = "nOfM" -> Min({strategy.n, count})

\* Where a success may lead: to the target of one conditional edge, or to all
\* sequence edges, or to the fallback, or nowhere.
Outcomes(edges, n) ==
    {{e.to} : e \in Out(edges, n, "conditional")} \union
    {IF Out(edges, n, "sequence") # {}
        THEN Targets(Out(edges, n, "sequence"))
        ELSE Targets(Out(edges, n, "fallback"))}

\* A bug to detect: one outcome that arrives is taken for a guarantee.
MayReach(edges, n) ==
    LET may[m \in Nodes] ==
            m = n \/ \E group \in Outcomes(edges, m) : \E next \in group : may[next]
    IN  {m \in Nodes : may[m]}

\* The nodes from which every success leads to n.
MustReach(edges, n) ==
    LET must[m \in Nodes] ==
            m = n \/ \A group \in Outcomes(edges, m) : \E next \in group : must[next]
    IN  {m \in Nodes : must[m]}

\* The nodes one or more edges of these types away from n.
Below(edges, types, n) ==
    LET after(S) == {e.to : e \in {e \in edges : e.from \in S /\ e.type \in types}}
        reach[k \in 1..Cardinality(Nodes)] ==
            IF k = 1 THEN after({n}) ELSE reach[k - 1] \union after(reach[k - 1])
    IN  reach[Cardinality(Nodes)]

-----------------------------------------------------------------------------

\* One trigger, which begins the flow; a failure endpoint ends a branch.
EndpointsAreSound(flow) ==
    /\ Cardinality({n \in Nodes : flow.kind[n] = "trigger"}) = 1
    /\ \A n \in Nodes : flow.kind[n] = "trigger" =>
          /\ \A e \in flow.edges : e.to # n
          /\ \E e \in flow.edges : e.from = n
    /\ \A e \in flow.edges : e.from \notin flow.failing

\* Cardinality and sources of the exceptional edges.
EdgesAreUnambiguous(flow) ==
    /\ \A n \in Nodes :
          /\ Cardinality(Out(flow.edges, n, "fallback")) <= 1
          /\ Cardinality(Out(flow.edges, n, "reject")) <= 1
          /\ \A e, f \in Out(flow.edges, n, "error") :
                e = f \/ (e.on # f.on /\ e.on \intersect f.on = {})
    /\ \A e \in flow.edges : e.type = "reject" =>
          flow.kind[e.from] = "gate" \/ flow.tag[e.from] = "approval"
    /\ \A j \in Joins(flow) : Into(flow.edges, j, {"error", "fallback", "reject"}) = {}

\* Only reject edges form cycles.  Where a reject edge escalates to is not an
\* edge, and is not looked at.
RejectsAloneCycle(flow) ==
    \A n \in Nodes : n \notin Below(flow.edges, Forward \union {"fallback", "error"}, n)

\* validateJoinHazards: enough sources are certain to run, and no join lies
\* between the target and the source of a reject edge.
JoinsAreSafe(flow) ==
    LET onwards(n) == Below(flow.edges, Forward \union {"fallback"}, n)
    IN  \A j \in Joins(flow) :
          /\ Cardinality({s \in Sources(flow.edges, j) : \E t \in MustReach(flow.edges, s) :
                flow.kind[t] = "trigger"}) >= Required(flow.edges, flow.join[j], j)
          /\ \A e \in flow.edges : e.type = "reject" =>
                ~ (/\ j \in onwards(e.to) \union {e.to}
                   /\ e.from \in onwards(j) \union {j})

\* validateFlow.  The join analysis needs the DAG.
Admitted(flow) ==
    /\ EndpointsAreSound(flow)
    /\ EdgesAreUnambiguous(flow)
    /\ RejectsAloneCycle(flow)
    /\ JoinsAreSafe(flow)
=============================================================================
