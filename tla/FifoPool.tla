------------------------------ MODULE FifoPool ------------------------------
(***************************************************************************)
(* What the in-process dispatcher of harness-server promises, without its  *)
(* data structures: a pool of Capacity slots behind a bounded FIFO line.   *)
(* A job that is accepted waits at the end of the line, jobs start in the  *)
(* order in which they were accepted, never more than Capacity at a time,  *)
(* and a started job leaves when it reaches a terminal status.             *)
(*                                                                         *)
(* Source of the promise: harness-server/src/dispatcher.ts, lines 1-23.    *)
(***************************************************************************)
EXTENDS Naturals, Sequences, FiniteSets

CONSTANTS
    Jobs,       \* the job ids
    Capacity,   \* ServerCtx.capacity: slots for concurrent runJobs
    Overflow    \* accepted and unfinished jobs at which a submission is refused

VARIABLES
    waiting,    \* accepted jobs not started yet, oldest first
    running     \* jobs whose runJob is live

vars == <<waiting, running>>

Init == waiting = <<>> /\ running = {}

\* The job joins the line unless the pool is full.
Accept(j) ==
    /\ j \notin running
    /\ \A i \in 1..Len(waiting) : waiting[i] # j
    /\ Cardinality(running) + Len(waiting) < Overflow
    /\ waiting' = Append(waiting, j)
    /\ UNCHANGED running

\* The oldest waiting job takes a free slot.
Start ==
    /\ waiting # <<>>
    /\ Cardinality(running) < Capacity
    /\ running' = running \union {Head(waiting)}
    /\ waiting' = Tail(waiting)

Finish(j) ==
    /\ j \in running
    /\ running' = running \ {j}
    /\ UNCHANGED waiting

Next == Start \/ \E j \in Jobs : Accept(j) \/ Finish(j)

\* A free slot is always handed to the oldest waiting job in the end.
Spec == Init /\ [][Next]_vars /\ WF_vars(Start)
=============================================================================
