--------------------------- MODULE MCWorkRegistry ---------------------------
(* Three processes: one that dies with the lock and two that wait for it. *)
EXTENDS WorkRegistry
=============================================================================
