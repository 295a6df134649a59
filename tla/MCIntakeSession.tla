--------------------------- MODULE MCIntakeSession ---------------------------
(* A flow that waits for the user, works, and goes back or off the graph.     *)
EXTENDS IntakeSession, TLC

CONSTANTS wait, work

MCNodes == {wait, work}
MCEdges == [n \in MCNodes |-> IF n = wait THEN {work} ELSE {wait, NoNode}]

\* Walks and confirms are told apart by nothing.
Symmetric == Permutations(Walks) \union Permutations(Confirms)
=============================================================================
