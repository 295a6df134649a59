------------------------------ MODULE Efforts ------------------------------
(***************************************************************************)
(* workbrokr's efforts: the `work` commands of a machine that start,       *)
(* promote, reset, touch, finish, retire and reap the pieces of work of    *)
(* one project, each with its scopes and, in fullstack mode, a slot: a     *)
(* block of ports with the stack of services that runs on it.              *)
(*                                                                         *)
(* A command is a process.  One transaction of the registry is one step    *)
(* (WorkRegistry models how it is one), and between two of them there are  *)
(* git, ports, spawned processes, and all the other commands.  An effort   *)
(* is named by the command that started it.  Worktrees, backend mode,      *)
(* commons and Storybook leases, participants and notices are left out.    *)
(***************************************************************************)
EXTENDS Naturals, FiniteSets

CONSTANTS
    MaxCmds,     \* bound: commands, besides `work reap`
    Killed,      \* bound: of them, those that may be killed
    Slow,        \* bound: and those that may take longer than STARTING_GRACE_MS
    Targets,     \* an area, or a task in an area
    AreaOf,      \* the area of each target
    AreaScopes,  \* what an area claims in each mode
    Narrowed,    \* what a task claims
    Slots        \* manifest.slots, its numbers plus one: 0 is no slot

ASSUME EffortsAssumption == MaxCmds \in Nat /\ Slots \subseteq Nat \ {0}

Modes == {"frontend", "fullstack"}

Tasks == {t \in Targets : AreaOf[t] # t}

\* The commands are numbered in the order in which they begin.
Cmds == 1..MaxCmds
Reaper == 0
Procs == Cmds \union {Reaper}

VARIABLES
    efforts,  \* registry: the efforts; `late` is a start past STARTING_GRACE_MS
    leases,   \* registry: the leases of slots
    running,  \* the stacks that run: on which slot, and whose spawn
    cmd,      \* what each command is and does next
    crossed   \* history: commands that met another one on their effort

registry == <<efforts, leases>>
vars == <<registry, running, cmd, crossed>>

NoEffort == [state |-> "none", target |-> "none", scopes |-> {}, late |-> FALSE]

IsOpen(e) == efforts[e].state \in {"starting", "active"}
Open == {e \in Cmds : IsOpen(e)}

LeasesOf(es) == {l \in leases : l.effort \in es}

\* `on` are the efforts a command works on, `todo` the leases it is yet to release,
\* as it read them.
Unbegun == [pc |-> "none", does |-> "none", on |-> {}, area |-> "none",
            slot |-> 0, tried |-> {}, todo |-> {}]
Ended == [Unbegun EXCEPT !.pc = "ended"]
Lost == [Unbegun EXCEPT !.pc = "lost"]  \* between a spawn and its record

Init ==
    /\ efforts = [c \in Cmds |-> NoEffort]
    /\ leases = {}
    /\ running = {}
    /\ cmd = [p \in Procs |-> Unbegun]
    /\ crossed = {}

At(p, label) == cmd[p].pc = label

Goto(p, label) == cmd' = [cmd EXCEPT ![p].pc = label]

End(p) == cmd' = [cmd EXCEPT ![p] = Ended]

Command(what, es, label) == [Unbegun EXCEPT !.pc = label, !.does = what, !.on = es]

Begin(c, command) ==
    /\ At(c, "none") /\ \A b \in 1..(c - 1) : ~ At(b, "none")
    /\ cmd' = [cmd EXCEPT ![c] = command]

\* The leases ls, with the pids they have, are worked off from the label "release" on.
ReleaseAll(p, es, ls) ==
    cmd' = [cmd EXCEPT ![p].pc = "release", ![p].on = es,
                       ![p].todo = {[l EXCEPT !.expired = FALSE] : l \in ls}]

Become(es, state) ==
    efforts' = [e \in Cmds |-> IF e \in es /\ efforts[e] # NoEffort
                               THEN [efforts[e] EXCEPT !.state = state, !.late = FALSE]
                               ELSE efforts[e]]

\* An error: a start abandons what it has, the others leave everything as it is.
Throw(c) ==
    IF cmd[c].does = "start" THEN ReleaseAll(c, {c}, LeasesOf({c})) ELSE End(c)

-----------------------------------------------------------------------------
(* start *)

ScopesOf(t, mode) == IF t \in Tasks THEN Narrowed[t] ELSE AreaScopes[t][mode]

\* A bug to detect: only an active effort keeps others out.
ActiveHolders == {e \in Cmds : efforts[e].state = "active"}

Holders == Open

Reserve(c, t, mode) ==
    /\ \A e \in Holders : /\ efforts[e].target # t
                          /\ efforts[e].scopes \intersect ScopesOf(t, mode) = {}
    /\ Begin(c, Command("start", {c}, IF mode = "fullstack" THEN "claim" ELSE "activate"))
    /\ efforts' = [efforts EXCEPT ![c] =
          [state |-> "starting", target |-> t, scopes |-> ScopesOf(t, mode),
           late |-> FALSE]]
    /\ UNCHANGED <<leases, running>>

\* The first slot that nobody leases, and that this command did not find busy before.
FreeSlots(c) == Slots \ (cmd[c].tried \union {l.slot : l \in leases})

Claim(c) ==
    \E e \in cmd[c].on, s \in FreeSlots(c) :
    /\ At(c, "claim") /\ \A r \in FreeSlots(c) : s <= r
    /\ leases' = leases \union {[by |-> c, slot |-> s, effort |-> e, pids |-> {}, expired |-> FALSE]}
    /\ cmd' = [cmd EXCEPT ![c].pc = "probe", ![c].slot = s]
    /\ UNCHANGED <<efforts, running>>

\* A bug to detect: a port that is bound on the wildcard address looks free.
NeverBusy(s) == FALSE

Busy(s) == \E stack \in running : stack[1] = s

IsClaim(l, c) == l.by = c /\ l.slot = cmd[c].slot

\* Can each of the slot's ports be bound?
Probe(c) ==
    /\ At(c, "probe")
    /\ IF Busy(cmd[c].slot)
       THEN /\ leases' = {l \in leases : ~ IsClaim(l, c)}
            /\ cmd' = [cmd EXCEPT ![c].pc = "claim", ![c].tried = @ \union {cmd[c].slot}]
       ELSE /\ Goto(c, IF cmd[c].does = "start" THEN "spawn" ELSE "promote")
            /\ UNCHANGED leases
    /\ UNCHANGED <<efforts, running>>

\* The services run before the registry knows their pids ...
Spawn(c) ==
    /\ At(c, "spawn") /\ Goto(c, "record")
    /\ running' = running \union {<<cmd[c].slot, c>>}
    /\ UNCHANGED registry

\* ... and patchLease tells it, of the lease that was claimed or found.
Target(c) == {l \in leases : l.effort \in cmd[c].on /\ l.slot = cmd[c].slot}

Record(c) ==
    /\ At(c, "record")
    /\ IF Target(c) = {} THEN Throw(c) ELSE Goto(c, IF cmd[c].does = "start" THEN "activate" ELSE "touch")
    /\ leases' = (leases \ Target(c)) \union {[l EXCEPT !.pids = {c}] : l \in Target(c)}
    /\ UNCHANGED <<efforts, running>>

\* Whatever became of the effort meanwhile, as long as there is one.
Activate(c) ==
    /\ At(c, "activate") /\ efforts[c] # NoEffort
    /\ Become({c}, "active")
    /\ End(c)
    /\ UNCHANGED <<leases, running>>

\* A merge conflict, no free slot, an unhealthy service, the effort is gone, SIGINT.
\* (A promotion that fails there leaves everything as it is, as Die does.)
Fail(c) ==
    /\ cmd[c].does = "start" /\ cmd[c].pc \in {"claim", "spawn", "activate"}
    /\ Throw(c)
    /\ UNCHANGED <<registry, running>>

-----------------------------------------------------------------------------
(* promote, reset, and what only touches *)

Promoted(e) ==
    LET area == AreaScopes[AreaOf[efforts[e].target]]["fullstack"] IN
    IF efforts[e].target \in Tasks THEN efforts[e].scopes \union area ELSE area

\* A bug to detect: an overlap that arose since the first look goes unseen.
NeverOverlaps(e) == FALSE

Overlaps(e) == \E f \in Open \ {e} : efforts[f].scopes \intersect Promoted(e) # {}

PromoteLook(c, e) ==
    /\ IsOpen(e)
    /\ \A f \in Open \ {e} : efforts[f].scopes \intersect Promoted(e) = {}
    /\ \/ LeasesOf({e}) = {} /\ Begin(c, Command("promote", {e}, "claim"))
       \/ \E l \in LeasesOf({e}) : Begin(c,
             [Command("promote", {e}, "promote") EXCEPT !.slot = IF l.pids = {} THEN l.slot ELSE 0])
    /\ UNCHANGED <<registry, running>>

\* The slot is claimed before the mode changes, and goes if the second look, in the
\* transaction that changes it, finds an overlap.  No service is missing (and the slot is
\* 0) if a lease was found that has its pids.
Promote(c) ==
    \E e \in cmd[c].on :
    /\ At(c, "promote")
    /\ IF efforts[e] # NoEffort /\ Overlaps(e)
       THEN /\ leases' = {l \in leases : ~ IsClaim(l, c)}
            /\ End(c)
            /\ UNCHANGED efforts
       ELSE /\ efforts' = IF efforts[e] = NoEffort THEN efforts
                          ELSE [efforts EXCEPT ![e].scopes = Promoted(e)]
            /\ Goto(c, IF cmd[c].slot = 0 THEN "touch" ELSE "spawn")
            /\ UNCHANGED leases
    /\ UNCHANGED running

\* What still runs of what a lease started.
Alive(l) == running \intersect ({l.slot} \X l.pids)

\* What the lease started is stopped and the database reset; the services are spawned anew.
Reset(c, e) ==
    /\ IsOpen(e)
    /\ \E l \in LeasesOf({e}) :
          /\ Begin(c, [Command("reset", {e}, "spawn") EXCEPT !.slot = l.slot])
          /\ running' = running \ Alive(l)
    /\ UNCHANGED registry

\* status, env, a join: they find the open effort, and touch its leases.
Touched(es) == {IF l.effort \in es THEN [l EXCEPT !.expired = FALSE] ELSE l : l \in leases}

Visit(c, e) ==
    /\ IsOpen(e)
    /\ Begin(c, Ended)
    /\ leases' = Touched({e})
    /\ UNCHANGED <<efforts, running>>

\* What a promotion and a reset end with, unless the effort is gone.
Touch(c) ==
    /\ At(c, "touch") /\ End(c)
    /\ leases' = Touched({e \in cmd[c].on : efforts[e] # NoEffort})
    /\ UNCHANGED <<efforts, running>>

-----------------------------------------------------------------------------
(* finish, retire, reap *)

\* The open effort of the target, or a parked one.  Refusals (a dirty worktree, a
\* rejected push) leave everything as it is, as Die does.
FinishLook(c, e) ==
    /\ \/ IsOpen(e)
       \/ /\ efforts[e].state = "parked"
          /\ \A f \in Open : efforts[f].target # efforts[e].target
    /\ Begin(c, Command("finish", {e}, "push"))
    /\ UNCHANGED <<registry, running>>

Push(c) ==
    /\ At(c, "push")
    /\ ReleaseAll(c, cmd[c].on, LeasesOf(cmd[c].on))
    /\ UNCHANGED <<registry, running>>

\* What the lease's pids were when it was read is stopped ...
Stop(p) ==
    /\ At(p, "release") /\ UNCHANGED cmd
    /\ \E l \in cmd[p].todo : Alive(l) # {} /\ running' = running \ Alive(l)
    /\ UNCHANGED registry

\* A bug to detect: the lease goes, its stack stays.
NeedNotStop(l) == TRUE

Stopped(l) == Alive(l) = {}

\* ... then the lease goes, whatever it is by now.
Release(p) ==
    /\ At(p, "release")
    /\ \E l \in cmd[p].todo :
          /\ Stopped(l)
          /\ leases' = {k \in leases : <<k.by, k.slot>> # <<l.by, l.slot>>}
          /\ cmd' = [cmd EXCEPT ![p].todo = @ \ {l}]
    /\ UNCHANGED <<efforts, running>>

Released(p) == At(p, "release") /\ cmd[p].todo = {}

Removed(es) == [e \in Cmds |-> IF e \in es THEN NoEffort ELSE efforts[e]]

\* What was abandoned goes, and so does a finished task; an area's effort stays, finished.
Conclude(c) ==
    \E e \in cmd[c].on :
    /\ Released(c) /\ c # Reaper
    /\ IF cmd[c].does = "start" \/ efforts[e].target \in Tasks
       THEN efforts' = Removed({e}) ELSE Become({e}, "finished")
    /\ End(c)
    /\ UNCHANGED <<leases, running>>

InArea(area) == {e \in Cmds : efforts[e] # NoEffort /\ AreaOf[efforts[e].target] = area}

RetireLook(c, area) ==
    /\ InArea(area) \intersect Open = {}
    /\ Begin(c, [Command("retire", {}, "forget") EXCEPT !.area = area])
    /\ UNCHANGED <<registry, running>>

\* Once the worktree and the branches are gone: every effort of the area goes.
Forget(c) ==
    /\ At(c, "forget") /\ End(c)
    /\ efforts' = Removed(InArea(cmd[c].area))
    /\ UNCHANGED <<leases, running>>

\* A bug to detect: it is given all the time.
SparesStarts(e) == efforts[e].state = "starting"

\* A start is given its time.
Spared(e) == efforts[e].state = "starting" /\ ~ efforts[e].late

Garbage(l) == efforts[l.effort] = NoEffort /\ ~ Busy(l.slot)

Doomed ==
    {l.effort : l \in {k \in leases : ~ Spared(k.effort) /\ (k.expired \/ Garbage(k))}}
        \union {e \in Cmds : efforts[e].state = "starting" /\ ~ Spared(e) /\ LeasesOf({e}) = {}}

\* The registry is read, and what is done about it follows.  (The code reads the efforts
\* and then the leases, with nothing in between; that is one step here.)
Reap ==
    /\ At(Reaper, "none") /\ Doomed # {}
    /\ ReleaseAll(Reaper, Doomed \intersect Open, LeasesOf(Doomed))
    /\ UNCHANGED <<registry, running>>

\* What was open when it was read is parked, whatever it is by now.  An effort that is
\* gone ends the reap.
Park ==
    /\ Released(Reaper)
    /\ \E e \in cmd[Reaper].on :
          IF efforts[e] = NoEffort
          THEN cmd' = [cmd EXCEPT ![Reaper] = Unbegun] /\ UNCHANGED efforts
          ELSE /\ cmd' = [cmd EXCEPT ![Reaper].on = @ \ {e}]
               /\ Become({e}, "parked")
    /\ UNCHANGED <<leases, running>>

Reaped ==
    /\ Released(Reaper) /\ cmd[Reaper].on = {}
    /\ cmd' = [cmd EXCEPT ![Reaper] = Unbegun]
    /\ UNCHANGED <<registry, running>>

-----------------------------------------------------------------------------

AtWork(c) == cmd[c].pc \notin {"none", "ended", "lost"}

\* kill -9, a closed laptop.
Die(c) ==
    /\ AtWork(c) /\ c \in Killed
    /\ cmd' = [cmd EXCEPT ![c] = IF At(c, "record") THEN Lost ELSE Ended]
    /\ UNCHANGED <<registry, running>>

\* Half an hour passes since a start; the hours of a lease since its last touch.
Pass(e) ==
    /\ \/ /\ efforts[e].state = "starting" /\ ~ efforts[e].late
          /\ efforts' = [efforts EXCEPT ![e].late = TRUE]
          /\ UNCHANGED leases
          /\ AtWork(e) => e \in Slow
       \/ /\ ~ Spared(e) /\ UNCHANGED efforts
          /\ leases' = {IF l.effort = e THEN [l EXCEPT !.expired = TRUE] ELSE l : l \in leases}
          /\ leases' # leases
    /\ UNCHANGED <<running, cmd>>

Builds(c) == AtWork(c) /\ cmd[c].does \in {"start", "promote", "reset"} /\ ~ At(c, "release")

TearsDown(p) ==
    IF At(p, "release") THEN cmd[p].on \union {l.effort : l \in cmd[p].todo}
    ELSE IF At(p, "forget") THEN InArea(cmd[p].area) ELSE {}

\* The commands that build an effort up while another one builds it up or tears it
\* down.
Crossing ==
    {c \in Cmds : Builds(c) /\ \E p \in Procs \ {c} :
        cmd[c].on \intersect (TearsDown(p) \union IF Builds(p) THEN cmd[p].on ELSE {}) # {}}

\* They are remembered for as long as there is something of them.
Remains == {c \in Cmds : IsOpen(c) \/ Builds(c) \/ \E stack \in running : stack[2] = c}

Noting(A) == A /\ crossed' = (crossed \union Crossing') \intersect Remains'

Runs(c) ==
    \/ Claim(c) \/ Probe(c) \/ Spawn(c) \/ Record(c) \/ Activate(c) \/ Fail(c)
    \/ Promote(c) \/ Touch(c)
    \/ Push(c) \/ Stop(c) \/ Release(c) \/ Conclude(c) \/ Forget(c)

Reaps == Reap \/ Stop(Reaper) \/ Release(Reaper) \/ Park \/ Reaped

Passes == \E e \in Cmds : Pass(e)

Begins(c) ==
    \/ \E t \in Targets, mode \in Modes : Reserve(c, t, mode)
    \/ \E e \in Cmds : PromoteLook(c, e) \/ Reset(c, e) \/ Visit(c, e) \/ FinishLook(c, e)
    \/ \E t \in Targets : RetireLook(c, AreaOf[t])

Next == Noting((\E c \in Cmds : Begins(c) \/ Runs(c) \/ Die(c)) \/ Reaps \/ Passes)

\* Commands go on, time passes, and somebody reaps again and again: every start does,
\* and `work reap` is there to be scheduled.
Spec ==
    /\ Init /\ [][Next]_vars
    /\ \A c \in Cmds : WF_vars(Noting(Runs(c)))
    /\ WF_vars(Noting(Reaps))
    /\ WF_vars(Noting(Passes))

-----------------------------------------------------------------------------

\* Nobody else is open on a target, or within one's scopes, from the moment a start has
\* reserved it: whatever is promoted, parked or finished meanwhile, and whoever dies.
\* (A start that is finished or reaped while it still goes on is the exception.)
OpenEffortsAreApart ==
    \A e, f \in Open \ crossed : e # f =>
        /\ efforts[e].target # efforts[f].target
        /\ efforts[e].scopes \intersect efforts[f].scopes = {}

\* What runs is in the lease that will stop it.  And whoever claimed a slot has its
\* ports alone, however slots change hands: without even a stack that nobody knows of,
\* because its command was killed between the spawn and the record.  (Commands that met
\* another one on their effort are the exception.)
StacksAreLeased ==
    \A stack \in running :
        LET its == {l \in leases : stack \in Alive(l)} IN
        \/ stack[2] \in crossed
        \/ At(stack[2], "lost")
        \/ At(stack[2], "record")
        \/ /\ its # {}
           /\ \A l \in its, other \in running \ {stack} :
                 l.by = stack[2] /\ other[1] = stack[1] => other[2] \in crossed

\* Nothing is held for ever by what has ended: a start that was killed stops being one,
\* and a lease whose effort is parked, finished or gone is released, even one that a
\* promotion claimed after its effort was finished.
NothingIsHeldForEver ==
    []<>(\A e \in Cmds :
        /\ efforts[e].state = "starting" => AtWork(e)
        /\ LeasesOf({e}) # {} => IsOpen(e))
=============================================================================
