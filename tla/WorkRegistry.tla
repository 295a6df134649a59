---------------------------- MODULE WorkRegistry ----------------------------
(***************************************************************************)
(* workbrokr's registry: one JSON file that every `work` command, hook and *)
(* MCP server of a machine changes with Registry.update, under a lock that *)
(* is a directory.                                                         *)
(*                                                                         *)
(* Each system call is a step, and any process may die between two.  Time  *)
(* is one bit: a lock is `old` once it is older than LOCK_STALE_MS, which  *)
(* its holder, however fast it means to be, cannot prevent.  The contents  *)
(* of the registry are the number of updates each process has made to it.  *)
(***************************************************************************)
EXTENDS Naturals

CONSTANTS
    Procs,      \* processes of the machine
    MaxCalls    \* bound: updates that are tried

ASSUME CallsAssumption == MaxCalls \in Nat

VARIABLES
    lock,     \* the directory: who made it, and whether it is stale by now
    file,     \* the registry
    pc,       \* what each process does next
    copy,     \* what it read
    calls,    \* how many updates were begun
    stalled,  \* history: a lock became stale while its holder was alive
    sawStale, \* history: who is about to claim a lock that was stale when it looked
    robbed    \* history: one of them claimed another lock

history == <<stalled, sawStale, robbed>>
vars == <<lock, file, pc, copy, calls, history>>

NoLock == [holder |-> {}, old |-> FALSE]
Locks == [holder : {{p} : p \in Procs}, old : BOOLEAN]

Labels == {"idle", "mkdir", "stat", "claim", "read", "write", "unlock", "gaveup", "dead"}
Critical == {"read", "write", "unlock"}

Counts == [Procs -> Nat]

Init ==
    /\ lock = NoLock
    /\ file = [p \in Procs |-> 0]
    /\ calls = 0
    /\ pc = [p \in Procs |-> "idle"]
    /\ copy = [p \in Procs |-> file]
    /\ stalled = FALSE /\ sawStale = {} /\ robbed = FALSE

Goto(p, label) == pc' = [pc EXCEPT ![p] = label]

At(p, label, next) == pc[p] = label /\ Goto(p, next)

-----------------------------------------------------------------------------

Call(p) ==
    /\ calls < MaxCalls /\ calls' = calls + 1
    /\ At(p, "idle", "mkdir")
    /\ UNCHANGED <<lock, file, copy, history>>

Acquire(p) ==
    /\ lock = NoLock
    /\ lock' = [holder |-> {p}, old |-> FALSE]
    /\ At(p, "mkdir", "read")
    /\ UNCHANGED <<file, copy, calls, history>>

MkdirFails(p) ==
    /\ lock # NoLock
    /\ At(p, "mkdir", "stat")
    /\ UNCHANGED <<lock, file, copy, calls, history>>

\* Bugs to detect: a lock is waited for, or claimed, whatever its age.
NeverStale == FALSE
AnyLock == lock # NoLock

LooksStale == lock.old

\* The age of whatever lock is there now.  A lock that is gone, or not stale, is
\* tried again, the latter after a sleep.
Stat(p) ==
    /\ At(p, "stat", IF LooksStale THEN "claim" ELSE "mkdir")
    /\ sawStale' = IF lock.old THEN sawStale \union {p} ELSE sawStale
    /\ UNCHANGED <<lock, file, copy, calls, stalled, robbed>>

\* LOCK_WAIT_MS have passed.  No update is counted on to end this way.
GiveUp(p) ==
    /\ lock # NoLock /\ ~ LooksStale
    /\ At(p, "stat", "gaveup")
    /\ UNCHANGED <<lock, file, copy, calls, history>>

\* rename and rm: of the lock that is there by now, which need not be the one
\* that was stale.  Without a lock the rename throws, and the loop goes on.
Claim(p) ==
    /\ At(p, "claim", "mkdir")
    /\ lock' = NoLock
    /\ robbed' = (robbed \/ (p \in sawStale /\ lock # NoLock /\ ~ lock.old))
    /\ sawStale' = sawStale \ {p}
    /\ UNCHANGED <<file, copy, calls, stalled>>

\* A bug to detect: the update is made to what an earlier call read.
ReadsNothing(p) ==
    /\ At(p, "read", "write")
    /\ UNCHANGED <<lock, file, copy, calls, history>>

Read(p) ==
    /\ At(p, "read", "write")
    /\ copy' = [copy EXCEPT ![p] = file]
    /\ UNCHANGED <<lock, file, calls, history>>

\* The file was corrupt, or the update threw (no free slot, no such effort): the
\* lock goes, the file stays.
Refuse(p) ==
    /\ At(p, "write", "unlock")
    /\ UNCHANGED <<lock, file, copy, calls, history>>

\* The temporary file, whose name holds the pid, is renamed over the registry.
Write(p) ==
    /\ At(p, "write", "unlock")
    /\ file' = [copy[p] EXCEPT ![p] = @ + 1]
    /\ UNCHANGED <<lock, copy, calls, history>>

\* rm -rf of the lock directory, whoever made it.
Unlock(p) ==
    /\ pc[p] = "unlock" /\ Goto(p, "idle")
    /\ lock' = NoLock
    /\ UNCHANGED <<file, copy, calls, history>>

\* SIGKILL, a power cut: what is on disk stays.
Die(p) ==
    /\ pc[p] \notin {"idle", "gaveup", "dead"}
    /\ Goto(p, "dead")
    /\ UNCHANGED <<lock, file, copy, calls, history>>

\* LOCK_STALE_MS pass.
Age ==
    /\ lock # NoLock /\ ~ lock.old
    /\ lock' = [lock EXCEPT !.old = TRUE]
    /\ stalled' = (stalled \/ \E p \in lock.holder : pc[p] # "dead")
    /\ UNCHANGED <<file, pc, copy, calls, sawStale, robbed>>

Moves(p) ==
    \/ Acquire(p) \/ MkdirFails(p) \/ Stat(p) \/ Claim(p)
    \/ Read(p) \/ Write(p) \/ Unlock(p)

Next ==
    \/ \E p \in Procs : Call(p) \/ Moves(p) \/ GiveUp(p) \/ Refuse(p) \/ Die(p)
    \/ Age

\* A process that does not die goes on, and time passes.
Spec ==
    /\ Init /\ [][Next]_vars
    /\ \A p \in Procs : WF_vars(Moves(p))
    /\ WF_vars(Age)

-----------------------------------------------------------------------------

TypeOK ==
    /\ lock \in Locks \union {NoLock}
    /\ file \in Counts /\ calls \in Nat
    /\ pc \in [Procs -> Labels]
    /\ copy \in [Procs -> Counts]
    /\ sawStale \subseteq Procs
    /\ stalled \in BOOLEAN /\ robbed \in BOOLEAN

\* The two ways in which the lock is lost by a holder that is alive: it held it
\* for too long, or a waiter that had seen a stale lock renamed the next one.
\* registry.ts:91-92 rules the second out ("two waiters cannot both win the
\* rename, so neither deletes a fresh lock the other just took"); it happens
\* when the first of two waiters is done with its rename, rm and mkdir before
\* the second one renames.
Disturbed == stalled \/ robbed

\* As long as no lock is lost, whoever died where: a process between its mkdir
\* and its rm is alone and holds the lock.
HoldersAreAlone ==
    ~ Disturbed => \A p \in Procs : pc[p] \in Critical =>
        /\ lock.holder = {p} /\ ~ lock.old
        /\ \A q \in Procs \ {p} : pc[q] \notin Critical

\* The atomic register behind the lock: a step that changes the registry adds one
\* update to what the registry was, never to what it had been.
OneUpdateAtATime ==
    [][~ Disturbed' => \E p \in Procs : file' = [file EXCEPT ![p] = @ + 1]]_file

\* Processes that died with the lock block nobody: an update that waits returns
\* (or gives up while others hold the lock, or dies itself), whoever dies when.
UpdatesEnd ==
    \A p \in Procs : pc[p] = "mkdir" ~> pc[p] \in {"idle", "gaveup", "dead"}
=============================================================================
