-------------------------- MODULE MCPauseRecovery --------------------------
(* PauseRecovery on a small instance: one job and two reviewers. *)
EXTENDS PauseRecovery, TLC

CONSTANTS j1, r1, r2

MCOneJob == {j1}
MCReviewers == {r1, r2}

\* Reviewers are interchangeable.
MCSymmetry == Permutations(Reviewers)
=============================================================================
