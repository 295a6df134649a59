----------------------------- MODULE MCJobEngine -----------------------------
(* A flow that waits for an event, works, and goes back, off the graph, or on *)
(* to an approval that sends it back or ends it.                              *)
EXTENDS JobEngine

CONSTANTS wait, work, ask

MCNodes == {wait, work, ask}
MCEdges ==
    [n \in MCNodes |-> CASE n = wait -> {work}
                         [] n = work -> {wait, ask, NoNode}
                         [] n = ask -> {wait, NoNode}]
=============================================================================
