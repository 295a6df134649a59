---------------------------- MODULE MCFlowGraph ----------------------------
(* A trigger, two steps, a gate and a join that may be barriers, tagged,    *)
(* tolerant or side-effecting, with any forward edges between them and a    *)
(* choice of exceptional ones.                                              *)
EXTENDS FlowGraph

CONSTANTS t, a, b, g, j

MCNodes == {t, a, b, g, j}

Link(n, m, kind) == [from |-> n, to |-> m, type |-> kind, on |-> {}]

Pairs == {<<t, b>>, <<a, g>>, <<a, j>>, <<b, j>>, <<g, j>>}
Graph(f) == {Link(t, a, "sequence")} \union
            {Link(p[1], p[2], f[p]) : p \in {q \in Pairs : f[q] # "none"}}
ForwardGraphs == {Graph(f) : f \in [Pairs -> {"none", "sequence", "conditional"}]}

Extras == {
    {},
    {Link(g, a, "reject")},
    {Link(g, a, "reject"), Link(a, b, "error")},
    {Link(g, b, "fallback"), [Link(a, g, "error") EXCEPT !.on = {"Timeout"}]}}

Except(n, v, w) == [m \in MCNodes |-> IF m = n THEN v ELSE w]

Base == [
    edges |-> {},
    kind |-> [m \in MCNodes |-> CASE m = t -> "trigger" [] m = g -> "gate" [] OTHER -> "step"],
    tag |-> Except(a, "none", "none"),
    join |-> [m \in MCNodes |-> [kind |-> "none", n |-> 0]],
    onError |-> Except(a, "propagate", "propagate"),
    effects |-> {a}, failing |-> {},
    limit |-> Except(g, 2, 1),
    escalate |-> [m \in MCNodes |-> NoNode]]

Barrier(k, n) == [Base.join EXCEPT ![j] = [kind |-> k, n |-> n]]

Variants == {
    Base,
    [Base EXCEPT !.join = Barrier("all", 0)],
    [Base EXCEPT !.join = Barrier("any", 0), !.onError = Except(b, "continue", "propagate")],
    [Base EXCEPT !.join = Barrier("nOfM", 2), !.escalate = Except(g, b, NoNode)],
    [Base EXCEPT !.join = Barrier("all", 0),
                 !.tag = [Except(a, "approval", "none") EXCEPT ![b] = "suspend"]],
    [Base EXCEPT !.escalate = Except(g, a, NoNode), !.failing = {j}]}

MCFlows == {[v EXCEPT !.edges = f \union x] : v \in Variants, f \in ForwardGraphs, x \in Extras}
=============================================================================
