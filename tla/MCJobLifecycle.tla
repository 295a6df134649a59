--------------------------- MODULE MCJobLifecycle ---------------------------
(* JobLifecycle on a small instance. *)
EXTENDS JobLifecycle, TLC

CONSTANTS j1, j2, j3

MCJobs == {j1, j2, j3}
MCTwoJobs == {j1, j2}

\* Jobs are interchangeable.
MCSymmetry == Permutations(Jobs)
=============================================================================
