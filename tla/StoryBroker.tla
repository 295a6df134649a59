---------------------------- MODULE StoryBroker ----------------------------
(***************************************************************************)
(* storybrokr's daemon: it boots a Storybook process per component, keeps  *)
(* at most `instanceCap` of them, stops those nobody looks at, and adopts  *)
(* what still runs when it starts again after a crash.                     *)
(*                                                                         *)
(* The daemon is one thread: a step is what it does between two awaits.    *)
(* What a request does to an instance it does under the lock of its id, a  *)
(* queue of promises; the watchers of a process, which mark its instance   *)
(* as ready or failed, do not take the lock.  An incarnation of an         *)
(* instance, and its process, are named by the request that spawned it.    *)
(***************************************************************************)
EXTENDS Naturals, FiniteSets, Sequences

CONSTANTS
    Ids,          \* instance ids: a component of a host each
    Ports,        \* the daemon's range
    instanceCap,
    MaxRequests,  \* bound: ups and downs
    MaxCrashes    \* bound: deaths of the daemon

ASSUME BrokerAssumption ==
    /\ IsFiniteSet(Ids) /\ Ports \subseteq Nat
    /\ instanceCap \in Nat /\ MaxRequests \in Nat

Requests == 1..MaxRequests
Reaper == 0
Actors == Requests \union {Reaper}

VARIABLES
    reg,       \* the registry, in memory and in state.json: the record of each id
    procs,     \* the daemon's process handles, by id
    alive,     \* the processes that run
    watching,  \* the processes whose readiness is waited for
    pending,   \* the one of them an `up` of this id would wait for
    locks,     \* per id: who holds its lock, and who waits for it
    op,        \* what each request, and the reaper, is doing
    crashes,
    mistaken   \* history: an instance was marked, or dropped, for what was not its own

memory == <<procs, watching, pending, locks, op>>
vars == <<reg, alive, memory, crashes, mistaken>>

None == [n |-> 0, status |-> "none", port |-> 0, idle |-> FALSE]
Nowhere == [id |-> "none", n |-> 0, dead |-> FALSE]
Unbegun == [pc |-> "none", id |-> "none", todo |-> {}, port |-> 0, taken |-> {}, n |-> 0,
            at |-> Nowhere]
Ended == [Unbegun EXCEPT !.pc = "ended"]

Watcher(i, n, adopted) ==
    [id |-> i, n |-> n, adopted |-> adopted, saw |-> 0, port |-> 0, ending |-> FALSE]

Init ==
    /\ reg = [i \in Ids |-> None]
    /\ procs = [i \in Ids |-> 0]
    /\ alive = {} /\ watching = {}
    /\ pending = [i \in Ids |-> 0]
    /\ locks = [i \in Ids |-> << >>]
    /\ op = [r \in Actors |-> Unbegun]
    /\ crashes = 0 /\ mistaken = FALSE

IsActive(rec) == rec.status \in {"starting", "ready"}
Active == {i \in Ids : IsActive(reg[i])}

Runs(n) == \E p \in alive : p.n = n

At(r, label) == op[r].pc = label
Goto(r, label) == op' = [op EXCEPT ![r].pc = label]

Enqueue(r, i) == locks' = [locks EXCEPT ![i] = Append(@, r)]
\* The lock is left by its holder, so that the next in the queue has it.
Unlock(r, i) == locks' = [locks EXCEPT ![i] = Tail(@)]
Holds(r, i) == locks[i] # << >> /\ Head(locks[i]) = r

\* SIGTERM, and SIGKILL for those it does not impress.
Kill(n) == alive' = {IF p.n = n THEN [p EXCEPT !.killed = TRUE] ELSE p : p \in alive}

Drop(i) == reg' = [reg EXCEPT ![i] = None]

Touch(i) == reg' = [reg EXCEPT ![i].idle = FALSE]

\* What was decided about incarnation n of an instance befalls another one.
Misplaces(i, n) == reg[i].n \notin {0, n}

Mistakes(i, n) == mistaken' = (mistaken \/ Misplaces(i, n))

-----------------------------------------------------------------------------
(* up and down *)

Begin(r, label, i, n) ==
    /\ At(r, "none") /\ \A q \in 1..(r - 1) : ~ At(q, "none")
    /\ op' = [op EXCEPT ![r].pc = label, ![r].id = i, ![r].n = n]

Up(r, i) ==
    /\ Begin(r, "up", i, 0) /\ Enqueue(r, i)
    /\ UNCHANGED <<reg, alive, procs, watching, pending, crashes, mistaken>>

\* The record is looked up before the lock is awaited.
Down(r, i) ==
    /\ reg[i] # None
    /\ Begin(r, "down", i, reg[i].n) /\ Enqueue(r, i)
    /\ UNCHANGED <<reg, alive, procs, watching, pending, crashes, mistaken>>

\* With the lock and a record that serves what is asked for, an up only touches it,
\* and waits for the process if that is still booting.
Return(r, i) ==
    /\ Unlock(r, i)
    /\ op' = [op EXCEPT ![r] = IF pending[i] = 0 THEN Ended
                               ELSE [Unbegun EXCEPT !.pc = "await", !.n = pending[i]]]

Reuse(r) ==
    LET i == op[r].id IN
    /\ At(r, "up") /\ Holds(r, i)
    /\ IsActive(reg[i])
    /\ Touch(i) /\ Return(r, i)
    /\ UNCHANGED <<alive, procs, watching, pending, crashes, mistaken>>

\* A bug to detect: an instance that was adopted, of which there is no handle.
HandleOnly(i, n) == procs[i]

\* What stopUnlocked kills: the process of the handle, or else of the pid in the
\* record it was called with.
Victim(i, n) == IF procs[i] # 0 THEN procs[i] ELSE n

\* A story file was added: the instance is stopped first.  So is that of a down.
StopFor(r, n, label) ==
    LET i == op[r].id IN
    /\ Kill(Victim(i, n))
    /\ op' = [op EXCEPT ![r].pc = label, ![r].n = Victim(i, n)]
    /\ UNCHANGED <<reg, procs, watching, pending, locks, crashes, mistaken>>

Replace(r) ==
    /\ At(r, "up") /\ Holds(r, op[r].id) /\ reg[op[r].id].status = "ready"
    /\ StopFor(r, reg[op[r].id].n, "replace")

StopForDown(r) ==
    /\ At(r, "down") /\ Holds(r, op[r].id)
    /\ StopFor(r, op[r].n, "stop")

\* The process is gone: so is everything that was known of it.
Forget(i) ==
    /\ procs' = [procs EXCEPT ![i] = 0]
    /\ Drop(i)

Stopped(r) ==
    LET i == op[r].id IN
    /\ op[r].pc \in {"stop", "replace"} /\ ~ Runs(op[r].n)
    /\ Forget(i)
    /\ \/ At(r, "stop") /\ Unlock(r, i) /\ op' = [op EXCEPT ![r] = Ended]
       \/ At(r, "replace") /\ op' = [op EXCEPT ![r].pc = "create", ![r].n = 0] /\ UNCHANGED locks
    /\ UNCHANGED <<alive, watching, pending, crashes, mistaken>>

\* A record that failed makes way.
MakeWay(r) ==
    LET i == op[r].id IN
    /\ At(r, "up") /\ Holds(r, i) /\ ~ IsActive(reg[i])
    /\ Drop(i) /\ Goto(r, "create")
    /\ UNCHANGED <<alive, procs, watching, pending, locks, crashes, mistaken>>

\* At the cap, instances are looked for that are past their TTL, and adopted ones that died.
IsIdle(i) == reg[i].status = "ready" /\ reg[i].idle

IsDead(i) == IsActive(reg[i]) /\ procs[i] = 0 /\ pending[i] = 0 /\ ~ Runs(reg[i].n)

Idle ==
    {[id |-> i, n |-> reg[i].n, dead |-> FALSE] : i \in {j \in Ids : IsIdle(j)}}
        \union {[id |-> i, n |-> reg[i].n, dead |-> TRUE] : i \in {j \in Ids : IsDead(j)}}

IsFull == Cardinality(Active) >= instanceCap

Create(r) ==
    /\ At(r, "create")
    /\ op' = [op EXCEPT ![r].pc = IF IsFull THEN "reap" ELSE "assert",
                        ![r].todo = IF IsFull THEN Idle ELSE {}]
    /\ UNCHANGED <<reg, alive, procs, watching, pending, locks, crashes, mistaken>>

PortsInUse == {reg[i].port : i \in Active}

\* A bug to detect: the lock is kept when the cap is reached.
KeepsTheLock(r, i) == UNCHANGED locks

Unwind(r, i) == Unlock(r, i)

\* INSTANCE_CAP_REACHED, NO_FREE_PORT.
Throw(r) ==
    /\ Unwind(r, op[r].id)
    /\ op' = [op EXCEPT ![r] = Ended]

\* The ports in use are read, and then ports are tried, which takes a while.
AssertCapacity(r) ==
    /\ At(r, "assert")
    /\ IF IsFull THEN Throw(r)
       ELSE /\ op' = [op EXCEPT ![r].pc = "pick", ![r].taken = PortsInUse]
            /\ UNCHANGED locks
    /\ UNCHANGED <<reg, alive, procs, watching, pending, crashes, mistaken>>

FreePorts(taken) == Ports \ (taken \union {p.port : p \in {q \in alive : q.bound}})

Pick(r) ==
    /\ At(r, "pick")
    /\ IF FreePorts(op[r].taken) = {} THEN Throw(r)
       ELSE /\ \E port \in FreePorts(op[r].taken) :
                  /\ \A other \in FreePorts(op[r].taken) : port <= other
                  /\ op' = [op EXCEPT ![r].pc = "add", ![r].port = port]
            /\ UNCHANGED locks
    /\ UNCHANGED <<reg, alive, procs, watching, pending, crashes, mistaken>>

\* A bug to detect: the cap, which was checked before the ports, is not checked again.
NeverRefuses == FALSE

AddRefuses == IsFull

\* The record, the process, its watchers; the lock goes, and the up waits.
Add(r) ==
    LET i == op[r].id IN
    /\ At(r, "add")
    /\ IF AddRefuses
       THEN Throw(r) /\ UNCHANGED <<reg, alive, procs, watching, pending>>
       ELSE /\ reg' = [reg EXCEPT ![i] =
                  [n |-> r, status |-> "starting", port |-> op[r].port, idle |-> FALSE]]
            /\ alive' = alive \union
                  {[n |-> r, id |-> i, port |-> op[r].port,
                    bound |-> FALSE, killed |-> FALSE, child |-> TRUE]}
            /\ procs' = [procs EXCEPT ![i] = r]
            /\ watching' = watching \union {Watcher(i, r, FALSE)}
            /\ pending' = [pending EXCEPT ![i] = r]
            /\ Unlock(r, i)
            /\ op' = [op EXCEPT ![r] = [Unbegun EXCEPT !.pc = "await", !.n = r]]
    /\ UNCHANGED <<crashes, mistaken>>

Awaited(r) ==
    /\ At(r, "await") /\ \A w \in watching : w.n # op[r].n
    /\ op' = [op EXCEPT ![r] = Ended]
    /\ UNCHANGED <<reg, alive, procs, watching, pending, locks, crashes, mistaken>>

-----------------------------------------------------------------------------
(* reapIdle, of the timer and of an up at the cap *)

Tick ==
    /\ At(Reaper, "none") /\ Idle # {}
    /\ op' = [op EXCEPT ![Reaper].pc = "reap", ![Reaper].todo = Idle]
    /\ UNCHANGED <<reg, alive, procs, watching, pending, locks, crashes, mistaken>>

\* One after the other, each under its own lock.
ReapNext(r) ==
    /\ At(r, "reap")
    /\ IF op[r].todo = {}
       THEN op' = [op EXCEPT ![r] = IF r = Reaper THEN Unbegun
                                     ELSE [@ EXCEPT !.pc = "assert", !.at = Nowhere]]
            /\ UNCHANGED locks
       ELSE \E t \in op[r].todo :
               /\ Enqueue(r, t.id)
               /\ op' = [op EXCEPT ![r].pc = "reaplock", ![r].todo = @ \ {t}, ![r].at = t]
    /\ UNCHANGED <<reg, alive, procs, watching, pending, crashes, mistaken>>

\* Under the lock it looks again: an idle instance may have been touched, replaced or
\* stopped.  A dead one is only looked up by its id.
StillIdle(t) == reg[t.id].n = t.n /\ IsIdle(t.id)

ReapOne(r) ==
    LET t == op[r].at IN
    /\ At(r, "reaplock") /\ Holds(r, t.id)
    /\ IF ~ t.dead /\ StillIdle(t)
       THEN /\ Kill(Victim(t.id, t.n))
            /\ op' = [op EXCEPT ![r].pc = "reapstop", ![r].n = Victim(t.id, t.n)]
            /\ UNCHANGED <<reg, locks, mistaken>>
       ELSE /\ IF t.dead /\ reg[t.id] # None /\ ~ Runs(t.n)
               THEN Drop(t.id) /\ Mistakes(t.id, t.n)
               ELSE UNCHANGED <<reg, mistaken>>
            /\ Unlock(r, t.id) /\ Goto(r, "reap")
            /\ UNCHANGED alive
    /\ UNCHANGED <<procs, watching, pending, crashes>>

ReapStopped(r) ==
    LET i == op[r].at.id IN
    /\ At(r, "reapstop") /\ ~ Runs(op[r].n)
    /\ Forget(i) /\ Unlock(r, i)
    /\ op' = [op EXCEPT ![r].pc = "reap", ![r].n = 0]
    /\ UNCHANGED <<alive, watching, pending, crashes, mistaken>>

-----------------------------------------------------------------------------
(* processes and their watchers *)

\* The server listens, if nobody else has its port.
Bind(p) ==
    /\ ~ p.bound /\ \A q \in alive : q.bound => q.port # p.port
    /\ alive' = (alive \ {p}) \union {[p EXCEPT !.bound = TRUE]}
    /\ UNCHANGED <<reg, memory, crashes, mistaken>>

Marked(rec, status) ==
    IF rec = None THEN None
    ELSE [rec EXCEPT !.status = status, !.idle = rec.idle /\ status # "ready"]

Becomes(i, status) == reg' = [reg EXCEPT ![i] = Marked(reg[i], status)]

\* A process exits, because it was killed, or by itself.  If it is a child of this daemon,
\* the instance of its id has failed if it was ready.
Exit(p) ==
    /\ alive' = alive \ {p}
    /\ IF p.child /\ reg[p.id].status = "ready"
       THEN Becomes(p.id, "failed") /\ Mistakes(p.id, p.n)
       ELSE UNCHANGED <<reg, mistaken>>
    /\ UNCHANGED <<memory, crashes>>

\* Whichever watcher an up of this id would wait for: it is waited for no more.
Unwatch(w) ==
    /\ watching' = watching \ {w}
    /\ pending' = [pending EXCEPT ![w.id] = 0]

\* Its banner was seen, and it answers: the instance of its id is ready.
Ready(w) ==
    /\ ~ w.adopted
    /\ \E p \in alive : p.n = w.n /\ p.bound
    /\ Becomes(w.id, "ready")
    /\ Mistakes(w.id, w.n) /\ Unwatch(w)
    /\ UNCHANGED <<alive, procs, locks, op, crashes>>

\* It exited, or takes too long: the instance of its id has failed.
Fails(w) ==
    /\ ~ w.adopted
    /\ Becomes(w.id, "failed") /\ Kill(w.n)
    /\ Mistakes(w.id, w.n) /\ Unwatch(w)
    /\ UNCHANGED <<procs, locks, op, crashes>>

\* The watcher of an instance that was adopted polls: it looks at the record of the id,
\* whichever that is by now, and asks its port, while that may change again.  Whoever has
\* the port may answer.
AdoptedPolls(w) ==
    LET n == reg[w.id].n IN
    /\ w.adopted /\ ~ w.ending
    /\ IF Runs(n)
       THEN /\ watching' = (watching \ {w}) \union {[w EXCEPT !.saw = n, !.port = reg[w.id].port]}
            /\ UNCHANGED <<reg, pending>>
       ELSE Drop(w.id) /\ Unwatch(w)
    /\ UNCHANGED <<alive, procs, locks, op, crashes, mistaken>>

AdoptedReady(w) ==
    /\ w.saw # 0 /\ ~ w.ending
    /\ \E p \in alive :
          /\ p.bound /\ p.port = w.port
          /\ mistaken' = (mistaken \/ p.n # w.saw \/ Misplaces(w.id, w.n))
    /\ Becomes(w.id, "ready") /\ Unwatch(w)
    /\ UNCHANGED <<alive, procs, locks, op, crashes>>

\* It takes too long.  The watcher leaves when the process is dead; when the record went
\* meanwhile the update throws, and the process is left alone.
AdoptedFails(w) ==
    /\ w.saw # 0 /\ ~ w.ending
    /\ IF reg[w.id] = None THEN Unwatch(w) /\ UNCHANGED alive
       ELSE /\ Kill(w.saw)
            /\ watching' = (watching \ {w}) \union {[w EXCEPT !.ending = TRUE]}
            /\ UNCHANGED pending
    /\ Becomes(w.id, "failed") /\ Mistakes(w.id, w.n)
    /\ UNCHANGED <<procs, locks, op, crashes>>

AdoptedLeaves(w) ==
    /\ w.ending /\ ~ Runs(w.saw)
    /\ Unwatch(w)
    /\ UNCHANGED <<reg, alive, procs, locks, op, crashes, mistaken>>

\* The TTL passes.
Age(i) ==
    /\ reg[i].status = "ready" /\ ~ reg[i].idle
    /\ reg' = [reg EXCEPT ![i].idle = TRUE]
    /\ UNCHANGED <<alive, memory, crashes, mistaken>>

\* The daemon dies, and its requests with it; the processes stay.  The next one
\* reconciles before it listens: what answers is ready, what boots is watched, and the
\* rest is dropped.
\* The process runs, and whoever has its port answers.
Answers(i) == Runs(reg[i].n) /\ \E p \in alive : p.port = reg[i].port /\ p.bound

AnsweredFor(i) == Answers(i) /\ \A p \in alive : p.n = reg[i].n => ~ p.bound

Boots(i) == reg[i].status = "starting" /\ Runs(reg[i].n) /\ ~ Answers(i)

Restart ==
    /\ crashes < MaxCrashes /\ crashes' = crashes + 1
    /\ op' = [r \in Actors |-> IF r = Reaper \/ At(r, "none") THEN Unbegun ELSE Ended]
    /\ locks' = [i \in Ids |-> << >>]
    /\ procs' = [i \in Ids |-> 0]
    /\ alive' = {[p EXCEPT !.child = FALSE] : p \in alive}
    /\ reg' = [i \in Ids |-> CASE Answers(i) -> [reg[i] EXCEPT !.status = "ready"]
                              [] Boots(i) -> reg[i]
                              [] OTHER -> None]
    /\ watching' = {Watcher(i, reg[i].n, TRUE) : i \in {j \in Ids : Boots(j)}}
    /\ pending' = [i \in Ids |-> IF Boots(i) THEN reg[i].n ELSE 0]
    /\ mistaken' = (mistaken \/ \E i \in Ids : AnsweredFor(i))

-----------------------------------------------------------------------------

Proceeds(r) ==
    \/ Reuse(r) \/ Replace(r) \/ StopForDown(r) \/ Stopped(r) \/ MakeWay(r)
    \/ Create(r) \/ AssertCapacity(r) \/ Pick(r) \/ Add(r) \/ Awaited(r)
    \/ ReapNext(r) \/ ReapOne(r) \/ ReapStopped(r)

Watches(w) ==
    \/ Ready(w) \/ Fails(w)
    \/ AdoptedPolls(w) \/ AdoptedReady(w) \/ AdoptedFails(w) \/ AdoptedLeaves(w)

TimesOut == \E w \in watching : Fails(w) \/ AdoptedPolls(w) \/ AdoptedFails(w) \/ AdoptedLeaves(w)

Dies == \E p \in alive : p.killed /\ Exit(p)

Next ==
    \/ \E r \in Requests, i \in Ids : Up(r, i) \/ Down(r, i)
    \/ \E r \in Actors : Proceeds(r)
    \/ Tick
    \/ \E w \in watching : Watches(w)
    \/ \E p \in alive : Bind(p) \/ Exit(p)
    \/ \E i \in Ids : Age(i)
    \/ Restart

\* Requests go on, watchers time out, and what is killed dies.
Spec ==
    /\ Init /\ [][Next]_vars
    /\ \A r \in Actors : WF_vars(Proceeds(r))
    /\ WF_vars(TimesOut) /\ WF_vars(Dies)

-----------------------------------------------------------------------------

\* A process that nobody has killed is one that a down, the reaper or the next daemon
\* will find: the record of its id is its own.
ProcessesAreKnown ==
    ~ mistaken => \A p \in alive : p.killed \/ reg[p.id].n = p.n

\* The cap holds through the awaits of two creations, of the reap they share and of the
\* port scan: but for a restart, which adopts what it finds, no step makes the number of
\* active instances grow past it.
CapIsKept ==
    [][\/ crashes' # crashes \/ mistaken'
       \/ Cardinality(Active') <= instanceCap
       \/ Cardinality(Active') <= Cardinality(Active)]_vars

\* Every up and every down returns: no lock is left behind, and no two creations that
\* are at the cap wait for each other's.
RequestsReturn ==
    []<>(\A r \in Requests : op[r].pc \in {"none", "ended"})
=============================================================================
