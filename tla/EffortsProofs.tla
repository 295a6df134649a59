--------------------------- MODULE EffortsProofs ---------------------------
(***************************************************************************)
(* Theorems about Efforts, for every set of targets, scopes and slots, any *)
(* number of commands and whichever of them are killed or slow.            *)
(*                                                                         *)
(* What is proved of a command holds while it has not crossed another one: *)
(* Met says that two commands at work on one effort know it, and nothing   *)
(* is forgotten of a command while an effort or a stack of it remains.     *)
(* LeaseInv follows a lease from its claim through the probe, the spawn    *)
(* and the record of its pids to the command that reads and releases it.   *)
(***************************************************************************)
EXTENDS Efforts, TLAPS

Building == {"claim", "probe", "promote", "spawn", "record", "touch", "activate"}
Labels == Building \union {"none", "ended", "lost", "push", "release", "forget"}
Does == {"none", "start", "promote", "reset", "finish", "retire"}
States == {"starting", "active", "parked", "finished"}
ScopeSets == {ScopesOf(t, m) : t \in Targets, m \in Modes}
                \union {AreaScopes[AreaOf[t]]["fullstack"] : t \in Targets}
Scopes == UNION ScopeSets
Leases == [by : Cmds, slot : Slots, effort : Cmds, pids : SUBSET Cmds, expired : BOOLEAN]
SomeEfforts == [state : States, target : Targets, scopes : SUBSET Scopes, late : BOOLEAN]
Commands == [pc : Labels, does : Does, on : SUBSET Cmds,
             area : {AreaOf[t] : t \in Targets} \union {"none"},
             slot : Slots \union {0}, tried : SUBSET Slots, todo : SUBSET Leases]

\* Every variable has its type.
EffortsTypeOK ==
    /\ efforts \in [Cmds -> SomeEfforts \union {NoEffort}]
    /\ leases \in SUBSET Leases
    /\ running \in SUBSET (Slots \X Cmds)
    /\ cmd \in [Procs -> Commands]
    /\ crossed \in SUBSET Cmds

-----------------------------------------------------------------------------
(* commands and their efforts *)

\* What its label says of a command.
CommandOK(c) ==
    /\ Builds(c) <=> cmd[c].pc \in Building
    /\ Builds(c) => \E e \in Cmds : cmd[c].on = {e}
    /\ cmd[c].does = "start" => cmd[c].on = {c}
    /\ At(c, "activate") => cmd[c].does = "start"
    /\ cmd[c].pc \in {"probe", "spawn", "record"} => cmd[c].slot # 0

ReleasesOnly ==
    /\ \A p \in Procs : cmd[p].todo # {} => At(p, "release")
    /\ cmd[Reaper].pc \in {"none", "release"}

\* Who is at work on an effort beside another one is known to be.
Met == Crossing \subseteq crossed

StartsAreOpen ==
    \A c \in Cmds \ crossed :
        Builds(c) /\ cmd[c].does = "start" => efforts[c].state = "starting"

CommandInv ==
    /\ EffortsTypeOK
    /\ \A c \in Cmds : CommandOK(c)
    /\ ReleasesOnly
    /\ Met

-----------------------------------------------------------------------------
(* leases and stacks *)

\* The leases in the registry, and those that were read to be released.
Known == leases \union UNION {cmd[p].todo : p \in Procs}

\* A command that has not spawned yet, or not in this life.
Early == {"none", "claim", "probe", "promote", "spawn"}

LeaseOK(l) ==
    /\ ~ At(l.by, "none")
    /\ Builds(l.by) => l.effort \in cmd[l.by].on
    /\ \A b \in l.pids : cmd[b].pc \notin Early \union {"record", "lost"}

OneEffort == \A l, k \in Known : l.by = k.by => l.effort = k.effort

OneLease ==
    \A l, k \in leases : l.slot = k.slot =>
        l.by = k.by /\ l.effort = k.effort /\ l.pids = k.pids

StackOK(s, b) ==
    /\ cmd[b].pc \notin Early
    /\ At(b, "record") => s = cmd[b].slot

\* The commands that have a slot and go on to spawn on it, and its lease.
Uses(c) == cmd[c].pc \in {"probe", "promote", "spawn", "record"} /\ cmd[c].slot # 0
Serves(l, c) == l.slot = cmd[c].slot /\ l.effort \in cmd[c].on

SlotsAreLeased == \A c \in Cmds \ crossed : Uses(c) => \E l \in leases : Serves(l, c)

Leased(s, b) == \E l \in leases : l.slot = s /\ b \in l.pids

StackIsLeased(s, b) ==
    \/ b \in crossed
    \/ cmd[b].pc \in {"record", "lost"}
    \/ Leased(s, b)

\* Who releases a lease stops what runs by it.
StopsAll(p) ==
    \A l \in cmd[p].todo, k \in leases : k.by = l.by /\ k.slot = l.slot =>
        \A b \in k.pids \ crossed : <<k.slot, b>> \in running => b \in l.pids

\* Before a command spawns, nothing runs by its lease.
StartsFresh(c) ==
    \A l \in leases : Uses(c) /\ Serves(l, c) =>
        \A b \in l.pids : <<l.slot, b>> \in running => b \in crossed

\* Whoever claimed a slot and found its ports free has them alone.
Holds(l) == cmd[l.by].pc \in {"promote", "spawn", "record"} /\ cmd[l.by].slot = l.slot
Owns(l) == Holds(l) \/ (l.by \in l.pids /\ <<l.slot, l.by>> \in running)

HasItAlone(l) ==
    l.by \notin crossed /\ Owns(l) =>
        \A b \in Cmds : <<l.slot, b>> \in running => b \in crossed \union {l.by}

LeaseInv ==
    /\ \A l \in Known : LeaseOK(l)
    /\ OneEffort /\ OneLease
    /\ \A s \in Slots, b \in Cmds :
           <<s, b>> \in running => StackOK(s, b) /\ StackIsLeased(s, b)
    /\ SlotsAreLeased
    /\ \A p \in Procs : StopsAll(p)
    /\ \A c \in Cmds : StartsFresh(c)
    /\ \A l \in leases : HasItAlone(l)

-----------------------------------------------------------------------------
(* the types *)

LEMMA CmdFacts == Reaper = 0 /\ Reaper \notin Cmds /\ Cmds \subseteq Procs /\ Reaper \in Procs
                  /\ 0 \notin Slots /\ \A p \in Procs : p # Reaper => p \in Cmds
BY EffortsAssumption DEF Reaper, Cmds, Procs

LEMMA ScopesTyped ==
    /\ \A t \in Targets, m \in Modes : ScopesOf(t, m) \subseteq Scopes
    /\ \A e \in Cmds : EffortsTypeOK /\ efforts[e] # NoEffort => Promoted(e) \subseteq Scopes
<1>1. ASSUME NEW S \in ScopeSets PROVE S \subseteq Scopes
  BY DEF Scopes
<1>2. ASSUME NEW t \in Targets, NEW m \in Modes PROVE ScopesOf(t, m) \subseteq Scopes
  <2>1. ScopesOf(t, m) \in ScopeSets
    BY DEF ScopeSets
  <2> QED BY <1>1, <2>1
<1>3. ASSUME NEW e \in Cmds, EffortsTypeOK, efforts[e] # NoEffort
      PROVE  Promoted(e) \subseteq Scopes
  <2>1. efforts[e].target \in Targets /\ efforts[e].scopes \subseteq Scopes
    BY <1>3 DEF EffortsTypeOK, SomeEfforts
  <2>2. AreaScopes[AreaOf[efforts[e].target]]["fullstack"] \in ScopeSets
    BY <2>1 DEF ScopeSets
  <2> QED BY <1>1, <2>1, <2>2 DEF Promoted
<1> QED BY <1>2, <1>3

LEMMA RecordsTyped ==
    /\ NoEffort.state = "none" /\ Unbegun \in Commands /\ Ended \in Commands /\ Lost \in Commands
    /\ Unbegun.pc = "none" /\ Ended.pc = "ended" /\ Lost.pc = "lost"
    /\ Unbegun.todo = {} /\ Ended.todo = {} /\ Lost.todo = {}
    /\ Unbegun.does = "none" /\ Ended.does = "none" /\ Lost.does = "none"
BY DEF NoEffort, Unbegun, Ended, Lost, Commands, Labels, Building, Does

LEMMA CommandTyped ==
    ASSUME NEW what \in Does, NEW es \in SUBSET Cmds, NEW label \in Labels
    PROVE  /\ Command(what, es, label) \in Commands
           /\ \A s \in Slots \union {0} : [Command(what, es, label) EXCEPT !.slot = s] \in Commands
           /\ \A t \in Targets : [Command(what, es, label) EXCEPT !.area = AreaOf[t]] \in Commands
BY RecordsTyped DEF Command, Commands, Unbegun

LEMMA BecomeTyped ==
    ASSUME EffortsTypeOK, NEW es, NEW state \in States, Become(es, state)
    PROVE  efforts' \in [Cmds -> SomeEfforts \union {NoEffort}]
BY DEF EffortsTypeOK, Become, SomeEfforts

LEMMA ReleaseAllTyped ==
    ASSUME EffortsTypeOK, NEW p \in Procs, NEW es \in SUBSET Cmds, NEW ls \in SUBSET Leases,
           ReleaseAll(p, es, ls)
    PROVE  cmd' \in [Procs -> Commands]
<1>1. {[l EXCEPT !.expired = FALSE] : l \in ls} \in SUBSET Leases
  <2> DEFINE T(l) == [l EXCEPT !.expired = FALSE]
  <2>1. \A l \in ls : T(l) \in Leases
    BY DEF Leases
  <2> HIDE DEF T
  <2>2. {T(l) : l \in ls} \in SUBSET Leases
    BY <2>1
  <2> QED BY <2>2 DEF T
<1>2. [cmd[p] EXCEPT !.pc = "release", !.on = es,
                     !.todo = {[l EXCEPT !.expired = FALSE] : l \in ls}] \in Commands
  BY <1>1 DEF EffortsTypeOK, Commands, Labels
<1>3. cmd' = [cmd EXCEPT ![p] = [cmd[p] EXCEPT !.pc = "release", !.on = es,
                     !.todo = {[l EXCEPT !.expired = FALSE] : l \in ls}]]
  BY DEF EffortsTypeOK, ReleaseAll
<1> QED BY <1>2, <1>3 DEF EffortsTypeOK

LEMMA ThrowTyped ==
    ASSUME EffortsTypeOK, NEW c \in Cmds, Throw(c)
    PROVE  cmd' \in [Procs -> Commands]
<1>1. LeasesOf({c}) \in SUBSET Leases
  BY DEF EffortsTypeOK, LeasesOf
<1>2. CASE cmd[c].does = "start"
  BY <1>1, <1>2, ReleaseAllTyped, CmdFacts DEF Throw
<1>3. CASE cmd[c].does # "start"
  BY <1>3, RecordsTyped, CmdFacts DEF Throw, End, EffortsTypeOK
<1> QED BY <1>2, <1>3

LEMMA CommandsTyped ==
    ASSUME EffortsTypeOK, NEW p \in Procs
    PROVE  /\ cmd[p] \in Commands
           /\ \A k \in Commands : cmd' = [cmd EXCEPT ![p] = k] => cmd' \in [Procs -> Commands]
           /\ \A label \in Labels : Goto(p, label) => cmd' \in [Procs -> Commands]
           /\ End(p) => cmd' \in [Procs -> Commands]
BY RecordsTyped DEF EffortsTypeOK, Goto, End, Commands

\* Efforts and leases keep their types.
LEMMA RegistryTyped ==
    ASSUME EffortsTypeOK, ReleasesOnly
    PROVE  /\ \A es \in SUBSET Cmds : /\ LeasesOf(es) \in SUBSET Leases
                                      /\ Touched(es) \in SUBSET Leases
                                      /\ Removed(es) \in [Cmds -> SomeEfforts \union {NoEffort}]
           /\ \A area : InArea(area) \in SUBSET Cmds
           /\ Doomed \in SUBSET Cmds
<1>1. ASSUME NEW es \in SUBSET Cmds PROVE Touched(es) \in SUBSET Leases
  <2> DEFINE T(l) == IF l.effort \in es THEN [l EXCEPT !.expired = FALSE] ELSE l
  <2>1. ASSUME NEW l \in leases PROVE T(l) \in Leases
    <3>1. l \in Leases
      BY DEF EffortsTypeOK
    <3>2. [l EXCEPT !.expired = FALSE] \in Leases
      BY <3>1 DEF Leases
    <3> QED BY <3>1, <3>2
  <2>2. Touched(es) = {T(l) : l \in leases}
    BY DEF Touched
  <2> HIDE DEF T
  <2> QED BY <2>1, <2>2
<1>2. ASSUME NEW es \in SUBSET Cmds PROVE LeasesOf(es) \in SUBSET Leases
  BY DEF EffortsTypeOK, LeasesOf
<1>3. ASSUME NEW es \in SUBSET Cmds PROVE Removed(es) \in [Cmds -> SomeEfforts \union {NoEffort}]
  BY DEF EffortsTypeOK, Removed
<1>4. Doomed \in SUBSET Cmds
  BY DEF EffortsTypeOK, Doomed, Leases
<1> QED BY <1>1, <1>2, <1>3, <1>4 DEF InArea

LEMMA BeginsTyped ==
    ASSUME CommandInv, NEW c \in Cmds, Begins(c)
    PROVE  /\ efforts' \in [Cmds -> SomeEfforts \union {NoEffort}]
           /\ leases' \in SUBSET Leases
           /\ running' \in SUBSET (Slots \X Cmds)
           /\ cmd' \in [Procs -> Commands]
<1> USE CmdFacts
<1>1. EffortsTypeOK /\ ReleasesOnly /\ c \in Procs
  BY DEF CommandInv
<1>2. ASSUME NEW k \in Commands, Begin(c, k) PROVE cmd' \in [Procs -> Commands]
  BY <1>1, <1>2, CommandsTyped DEF Begin
<1>3. ASSUME NEW t \in Targets, NEW mode \in Modes, Reserve(c, t, mode)
      PROVE  /\ efforts' \in [Cmds -> SomeEfforts \union {NoEffort}]
             /\ cmd' \in [Procs -> Commands]
  <2>1. [state |-> "starting", target |-> t, scopes |-> ScopesOf(t, mode), late |-> FALSE]
            \in SomeEfforts
    BY ScopesTyped DEF SomeEfforts, States
  <2>2. Command("start", {c}, IF mode = "fullstack" THEN "claim" ELSE "activate") \in Commands
    BY CommandTyped DEF Does, Labels, Building
  <2> QED BY <1>1, <1>2, <1>3, <2>1, <2>2 DEF Reserve, EffortsTypeOK
<1>4. ASSUME NEW e \in Cmds, PromoteLook(c, e) PROVE cmd' \in [Procs -> Commands]
  <2>1. CASE Begin(c, Command("promote", {e}, "claim"))
    BY <1>2, <2>1, CommandTyped DEF Does, Labels, Building
  <2>2. ASSUME NEW l \in leases,
               Begin(c, [Command("promote", {e}, "promote") EXCEPT
                            !.slot = IF l.pids = {} THEN l.slot ELSE 0])
        PROVE  cmd' \in [Procs -> Commands]
    <3>1. (IF l.pids = {} THEN l.slot ELSE 0) \in Slots \union {0}
      BY <1>1 DEF EffortsTypeOK, Leases
    <3> QED BY <1>2, <2>2, <3>1, CommandTyped DEF Does, Labels, Building
  <2> QED BY <1>4, <2>1, <2>2 DEF PromoteLook, LeasesOf
<1>5. ASSUME NEW e \in Cmds, Reset(c, e)
      PROVE  cmd' \in [Procs -> Commands] /\ running' \in SUBSET (Slots \X Cmds)
  <2>1. PICK l \in leases :
            /\ Begin(c, [Command("reset", {e}, "spawn") EXCEPT !.slot = l.slot])
            /\ running' = running \ Alive(l)
    BY <1>5 DEF Reset, LeasesOf
  <2>2. l.slot \in Slots \union {0}
    BY <1>1 DEF EffortsTypeOK, Leases
  <2>3. [Command("reset", {e}, "spawn") EXCEPT !.slot = l.slot] \in Commands
    BY <2>2, CommandTyped DEF Does, Labels, Building
  <2> QED BY <1>1, <1>2, <2>1, <2>3 DEF EffortsTypeOK
<1>6. ASSUME NEW e \in Cmds, Visit(c, e)
      PROVE  cmd' \in [Procs -> Commands] /\ leases' \in SUBSET Leases
  BY <1>1, <1>2, <1>6, RecordsTyped, RegistryTyped DEF Visit
<1>7. ASSUME NEW e \in Cmds, FinishLook(c, e) PROVE cmd' \in [Procs -> Commands]
  BY <1>2, <1>7, CommandTyped DEF FinishLook, Does, Labels
<1>8. ASSUME NEW t \in Targets, RetireLook(c, AreaOf[t]) PROVE cmd' \in [Procs -> Commands]
  BY <1>2, <1>8, CommandTyped DEF RetireLook, Does, Labels
<1> QED BY <1>1, <1>3, <1>4, <1>5, <1>6, <1>7, <1>8
        DEF Begins, Reserve, PromoteLook, Reset, Visit, FinishLook, RetireLook, registry,
            EffortsTypeOK

LEMMA RunsTyped ==
    ASSUME CommandInv, NEW c \in Cmds, Runs(c)
    PROVE  /\ efforts' \in [Cmds -> SomeEfforts \union {NoEffort}]
           /\ leases' \in SUBSET Leases
           /\ running' \in SUBSET (Slots \X Cmds)
           /\ cmd' \in [Procs -> Commands]
<1> USE CmdFacts
<1>1. EffortsTypeOK /\ ReleasesOnly /\ CommandOK(c) /\ c \in Procs /\ cmd[c] \in Commands
  BY DEF CommandInv, EffortsTypeOK
<1>2. CASE Claim(c)
  <2>1. PICK e \in cmd[c].on, s \in FreeSlots(c) :
            /\ leases' = leases \union {[by |-> c, slot |-> s, effort |-> e, pids |-> {},
                                         expired |-> FALSE]}
            /\ cmd' = [cmd EXCEPT ![c].pc = "probe", ![c].slot = s]
    BY <1>2 DEF Claim
  <2>2. e \in Cmds /\ s \in Slots
    BY <1>1 DEF Commands, FreeSlots
  <2>3. leases' \in SUBSET Leases
    <3>1. [by |-> c, slot |-> s, effort |-> e, pids |-> {}, expired |-> FALSE] \in Leases
      BY <2>2 DEF Leases
    <3> QED BY <1>1, <2>1, <3>1 DEF EffortsTypeOK
  <2>4. cmd' \in [Procs -> Commands]
    BY <1>1, <2>1, <2>2 DEF EffortsTypeOK, Commands, Labels, Building
  <2> QED BY <1>1, <1>2, <2>3, <2>4 DEF Claim, EffortsTypeOK
<1>3. CASE Probe(c)
  <2>1. leases' \in SUBSET Leases
    BY <1>1, <1>3 DEF Probe, EffortsTypeOK
  <2>2. cmd' \in [Procs -> Commands]
    <3>1. CASE Busy(cmd[c].slot)
      <4>1. cmd[c].slot \in Slots
        BY <1>1, <1>3 DEF CommandOK, At, Probe, Commands
      <4>2. cmd' = [cmd EXCEPT ![c] = [cmd[c] EXCEPT !.pc = "claim",
                                                     !.tried = cmd[c].tried \union {cmd[c].slot}]]
        BY <1>1, <1>3, <3>1 DEF Probe, EffortsTypeOK
      <4>3. [cmd[c] EXCEPT !.pc = "claim", !.tried = cmd[c].tried \union {cmd[c].slot}] \in Commands
        BY <1>1, <4>1 DEF Commands, Labels, Building
      <4> QED BY <1>1, <4>2, <4>3, CommandsTyped
    <3>2. CASE ~ Busy(cmd[c].slot)
      BY <1>1, <1>3, <3>2, CommandsTyped DEF Probe, Labels, Building
    <3> QED BY <3>1, <3>2
  <2> QED BY <1>1, <1>3, <2>1, <2>2 DEF Probe, EffortsTypeOK
<1>4. CASE Spawn(c)
  <2>1. cmd[c].slot \in Slots
    BY <1>1, <1>4 DEF CommandOK, At, Spawn, Commands
  <2> QED BY <1>1, <1>4, <2>1, CommandsTyped
          DEF Spawn, EffortsTypeOK, registry, Labels, Building
<1>5. CASE Record(c)
  <2>1. leases' \in SUBSET Leases
    BY <1>1, <1>5 DEF Record, EffortsTypeOK, Target, Leases
  <2>2. cmd' \in [Procs -> Commands]
    BY <1>1, <1>5, ThrowTyped, CommandsTyped DEF Record, Labels, Building
  <2> QED BY <1>1, <1>5, <2>1, <2>2 DEF Record, EffortsTypeOK
<1>6. CASE Activate(c)
  BY <1>1, <1>6, BecomeTyped, CommandsTyped DEF Activate, EffortsTypeOK, States
<1>7. CASE Fail(c)
  BY <1>1, <1>7, ThrowTyped DEF Fail, EffortsTypeOK, registry
<1>8. CASE Promote(c)
  <2>1. PICK e \in cmd[c].on :
          IF efforts[e] # NoEffort /\ Overlaps(e)
          THEN /\ leases' = {l \in leases : ~ IsClaim(l, c)}
               /\ End(c) /\ UNCHANGED efforts
          ELSE /\ efforts' = IF efforts[e] = NoEffort THEN efforts
                             ELSE [efforts EXCEPT ![e].scopes = Promoted(e)]
               /\ Goto(c, IF cmd[c].slot = 0 THEN "touch" ELSE "spawn")
               /\ UNCHANGED leases
    BY <1>8 DEF Promote
  <2>2. e \in Cmds
    BY <1>1 DEF Commands
  <2>3. cmd' \in [Procs -> Commands]
    BY <1>1, <2>1, CommandsTyped DEF Labels, Building
  <2>4. leases' \in SUBSET Leases
    BY <1>1, <2>1 DEF EffortsTypeOK
  <2>5. efforts' \in [Cmds -> SomeEfforts \union {NoEffort}]
    BY <1>1, <2>1, <2>2, ScopesTyped DEF EffortsTypeOK, SomeEfforts
  <2> QED BY <1>1, <1>8, <2>3, <2>4, <2>5 DEF Promote, EffortsTypeOK
<1>9. CASE Touch(c)
  <2>1. {e \in cmd[c].on : efforts[e] # NoEffort} \in SUBSET Cmds
    BY <1>1 DEF Commands
  <2> QED BY <1>1, <1>9, <2>1, CommandsTyped, RegistryTyped DEF Touch, EffortsTypeOK
<1>10. CASE Push(c)
  <2>1. cmd[c].on \in SUBSET Cmds
    BY <1>1 DEF Commands
  <2> QED BY <1>1, <1>10, <2>1, ReleaseAllTyped, RegistryTyped DEF Push, EffortsTypeOK, registry
<1>11. CASE Stop(c)
  BY <1>1, <1>11 DEF Stop, EffortsTypeOK, registry
<1>12. CASE Release(c)
  <2>1. PICK l : cmd' = [cmd EXCEPT ![c].todo = @ \ {l}]
    BY <1>12 DEF Release
  <2>2. cmd' \in [Procs -> Commands]
    BY <1>1, <2>1 DEF EffortsTypeOK, Commands
  <2> QED BY <1>1, <1>12, <2>2 DEF Release, EffortsTypeOK
<1>13. CASE Conclude(c)
  <2>1. PICK e \in cmd[c].on : efforts' = Removed({e}) \/ Become({e}, "finished")
    BY <1>13 DEF Conclude
  <2>2. efforts' \in [Cmds -> SomeEfforts \union {NoEffort}]
    BY <1>1, <2>1, BecomeTyped, RegistryTyped DEF States, Commands
  <2> QED BY <1>1, <1>13, <2>2, CommandsTyped DEF Conclude, EffortsTypeOK
<1>14. CASE Forget(c)
  BY <1>1, <1>14, CommandsTyped, RegistryTyped DEF Forget, EffortsTypeOK
<1> QED BY <1>2, <1>3, <1>4, <1>5, <1>6, <1>7, <1>8, <1>9, <1>10, <1>11, <1>12, <1>13, <1>14
        DEF Runs

LEMMA OthersTyped ==
    ASSUME CommandInv, (\E c \in Cmds : Die(c)) \/ Reaps \/ Passes
    PROVE  /\ efforts' \in [Cmds -> SomeEfforts \union {NoEffort}]
           /\ leases' \in SUBSET Leases
           /\ running' \in SUBSET (Slots \X Cmds)
           /\ cmd' \in [Procs -> Commands]
<1> USE CmdFacts
<1>1. EffortsTypeOK /\ ReleasesOnly /\ cmd[Reaper] \in Commands
  BY DEF CommandInv, EffortsTypeOK
<1>2. ASSUME NEW c \in Cmds, Die(c) PROVE cmd' \in [Procs -> Commands]
  BY <1>1, <1>2, RecordsTyped, CommandsTyped DEF Die
<1>3. CASE Reap
  BY <1>1, <1>3, ReleaseAllTyped, RegistryTyped DEF Reap, EffortsTypeOK, registry
<1>4. CASE Stop(Reaper)
  BY <1>1, <1>4 DEF Stop, EffortsTypeOK, registry
<1>5. CASE Release(Reaper)
  <2>1. PICK l : cmd' = [cmd EXCEPT ![Reaper].todo = @ \ {l}]
    BY <1>5 DEF Release
  <2>2. cmd' \in [Procs -> Commands]
    BY <1>1, <2>1 DEF EffortsTypeOK, Commands
  <2> QED BY <1>1, <1>5, <2>2 DEF Release, EffortsTypeOK
<1>6. CASE Park
  <2>1. PICK e \in cmd[Reaper].on :
          IF efforts[e] = NoEffort
          THEN cmd' = [cmd EXCEPT ![Reaper] = Unbegun] /\ UNCHANGED efforts
          ELSE /\ cmd' = [cmd EXCEPT ![Reaper].on = @ \ {e}]
               /\ Become({e}, "parked")
    BY <1>6 DEF Park
  <2>2. cmd \in [Procs -> Commands] /\ [cmd[Reaper] EXCEPT !.on = @ \ {e}] \in Commands
    BY <1>1 DEF EffortsTypeOK, Commands
  <2>3. cmd' \in [Procs -> Commands]
    BY <2>1, <2>2, RecordsTyped
  <2>4. efforts' \in [Cmds -> SomeEfforts \union {NoEffort}]
    BY <1>1, <2>1, BecomeTyped DEF EffortsTypeOK, States
  <2> QED BY <1>1, <1>6, <2>3, <2>4 DEF Park, EffortsTypeOK
<1>7. CASE Reaped
  BY <1>1, <1>7, RecordsTyped, CommandsTyped DEF Reaped, EffortsTypeOK, registry
<1>8. ASSUME NEW e \in Cmds, Pass(e)
      PROVE  efforts' \in [Cmds -> SomeEfforts \union {NoEffort}] /\ leases' \in SUBSET Leases
  <2>1. CASE efforts[e].state = "starting" /\ efforts' = [efforts EXCEPT ![e].late = TRUE]
             /\ UNCHANGED leases
    <3>1. efforts[e] \in SomeEfforts
      BY <1>1, <2>1, RecordsTyped DEF EffortsTypeOK
    <3> QED BY <1>1, <2>1, <3>1 DEF EffortsTypeOK, SomeEfforts
  <2>2. CASE /\ UNCHANGED efforts
             /\ leases' = {IF l.effort = e THEN [l EXCEPT !.expired = TRUE] ELSE l : l \in leases}
    <3> DEFINE T(l) == IF l.effort = e THEN [l EXCEPT !.expired = TRUE] ELSE l
    <3>1. leases \in SUBSET Leases /\ efforts' \in [Cmds -> SomeEfforts \union {NoEffort}]
      BY <1>1, <2>2 DEF EffortsTypeOK
    <3>2. ASSUME NEW l \in leases PROVE T(l) \in Leases
      <4>1. l \in Leases
        BY <3>1
      <4>2. [l EXCEPT !.expired = TRUE] \in Leases
        BY <4>1 DEF Leases
      <4> QED BY <4>1, <4>2
    <3>3. leases' = {T(l) : l \in leases}
      BY <2>2
    <3> HIDE DEF T
    <3>4. leases' \in SUBSET Leases
      BY <3>2, <3>3
    <3> QED BY <3>1, <3>4
  <2> QED BY <1>8, <2>1, <2>2 DEF Pass
<1> QED BY <1>1, <1>2, <1>3, <1>4, <1>5, <1>6, <1>7, <1>8
        DEF Reaps, Passes, Pass, Die, registry, EffortsTypeOK

-----------------------------------------------------------------------------
(* the commands *)

\* The invariants of a command look at nothing but the command.
LEMMA SameCommand ==
    ASSUME NEW q, cmd'[q] = cmd[q]
    PROVE  /\ CommandOK(q) => CommandOK(q)'
           /\ Builds(q)' = Builds(q) /\ AtWork(q)' = AtWork(q) /\ Uses(q)' = Uses(q)
           /\ \A l : Serves(l, q)' = Serves(l, q)
           /\ \A label : At(q, label)' = At(q, label)
BY DEF CommandOK, Builds, AtWork, At, Uses, Serves

LEMMA NewCommand ==
    ASSUME NEW what, NEW es, NEW label
    PROVE  /\ Command(what, es, label).pc = label /\ Command(what, es, label).does = what
           /\ Command(what, es, label).on = es /\ Command(what, es, label).slot = 0
           /\ Command(what, es, label).todo = {}
BY DEF Command, Unbegun

\* What a command can be when it has begun.
Begun(c, k) ==
    /\ k.todo = {}
    /\ \/ k.does = "start" /\ k.on = {c} /\ k.slot = 0 /\ k.pc \in {"claim", "activate"}
       \/ /\ k.does = "promote" /\ \E e \in Cmds : k.on = {e}
          /\ (k.pc = "claim" /\ k.slot = 0) \/ k.pc = "promote"
       \/ k.does = "reset" /\ (\E e \in Cmds : k.on = {e}) /\ k.pc = "spawn" /\ k.slot # 0
       \/ k.does \in {"none", "finish", "retire"} /\ k.pc \in {"ended", "push", "forget"}

\* How a command begins.
LEMMA BeginsCommand ==
    ASSUME CommandInv, NEW c \in Cmds, Begins(c)
    PROVE  /\ At(c, "none") /\ CommandOK(c)' /\ cmd'[c].todo = {} /\ Begun(c, cmd'[c])
           /\ ~ At(c, "none")'
           /\ \A q \in Procs \ {c} : cmd'[q] = cmd[q]
<1> USE CmdFacts
<1>1. EffortsTypeOK /\ cmd \in [Procs -> Commands] /\ c \in Procs
  BY DEF CommandInv, EffortsTypeOK
<1>2. ASSUME NEW k, Begin(c, k)
      PROVE  At(c, "none") /\ cmd'[c] = k /\ \A q \in Procs \ {c} : cmd'[q] = cmd[q]
  BY <1>1, <1>2 DEF Begin
<1>3. \E k : Begin(c, k) /\ Begun(c, k)
  <2>1. ASSUME NEW t \in Targets, NEW mode \in Modes, Reserve(c, t, mode)
        PROVE  \E k : Begin(c, k) /\ Begun(c, k)
    BY <2>1, NewCommand DEF Reserve, Begun
  <2>2. ASSUME NEW e \in Cmds, PromoteLook(c, e) PROVE \E k : Begin(c, k) /\ Begun(c, k)
    <3>1. CASE Begin(c, Command("promote", {e}, "claim"))
      BY <3>1, NewCommand DEF Begun
    <3>2. ASSUME NEW l \in leases,
                 Begin(c, [Command("promote", {e}, "promote") EXCEPT
                              !.slot = IF l.pids = {} THEN l.slot ELSE 0])
          PROVE  \E k : Begin(c, k) /\ Begun(c, k)
      <4>1. PICK k : k = [Command("promote", {e}, "promote") EXCEPT
                             !.slot = IF l.pids = {} THEN l.slot ELSE 0]
        OBVIOUS
      <4>2. k.pc = "promote" /\ k.does = "promote" /\ k.on = {e} /\ k.todo = {}
        BY <4>1 DEF Command, Unbegun
      <4> QED BY <3>2, <4>1, <4>2 DEF Begun
    <3> QED BY <2>2, <3>1, <3>2 DEF PromoteLook, LeasesOf
  <2>3. ASSUME NEW e \in Cmds, Reset(c, e) PROVE \E k : Begin(c, k) /\ Begun(c, k)
    <3>1. PICK l \in leases : Begin(c, [Command("reset", {e}, "spawn") EXCEPT !.slot = l.slot])
      BY <2>3 DEF Reset, LeasesOf
    <3>2. l.slot # 0
      BY <1>1 DEF EffortsTypeOK, Leases
    <3>3. PICK k : k = [Command("reset", {e}, "spawn") EXCEPT !.slot = l.slot]
      OBVIOUS
    <3>4. k.pc = "spawn" /\ k.does = "reset" /\ k.on = {e} /\ k.todo = {} /\ k.slot = l.slot
      BY <3>3 DEF Command, Unbegun
    <3> QED BY <3>1, <3>2, <3>3, <3>4 DEF Begun
  <2>4. ASSUME NEW e \in Cmds, Visit(c, e) PROVE \E k : Begin(c, k) /\ Begun(c, k)
    BY <2>4, RecordsTyped DEF Visit, Begun
  <2>5. ASSUME NEW e \in Cmds, FinishLook(c, e) PROVE \E k : Begin(c, k) /\ Begun(c, k)
    BY <2>5, NewCommand DEF FinishLook, Begun
  <2>6. ASSUME NEW t \in Targets, RetireLook(c, AreaOf[t]) PROVE \E k : Begin(c, k) /\ Begun(c, k)
    <3>1. PICK k : k = [Command("retire", {}, "forget") EXCEPT !.area = AreaOf[t]]
      OBVIOUS
    <3>2. k.pc = "forget" /\ k.does = "retire" /\ k.todo = {}
      BY <3>1 DEF Command, Unbegun
    <3> QED BY <2>6, <3>1, <3>2 DEF RetireLook, Begun
  <2> QED BY <2>1, <2>2, <2>3, <2>4, <2>5, <2>6 DEF Begins
<1>4. At(c, "none") /\ Begun(c, cmd'[c]) /\ \A q \in Procs \ {c} : cmd'[q] = cmd[q]
  BY <1>2, <1>3
<1> QED BY <1>4 DEF Begun, CommandOK, Builds, AtWork, At, Building

\* Where a command that goes on may go, and that it keeps its effort while it builds.
LEMMA RunsCommand ==
    ASSUME CommandInv, NEW c \in Cmds, Runs(c) \/ Die(c)
    PROVE  /\ AtWork(c) /\ CommandOK(c)' /\ ~ At(c, "none")'
           /\ cmd'[c].todo # {} => At(c, "release")'
           /\ Builds(c)' => Builds(c) /\ cmd'[c].on = cmd[c].on /\ cmd'[c].does = cmd[c].does
           /\ \A q \in Procs \ {c} : cmd'[q] = cmd[q]
<1> USE CmdFacts
<1>1. /\ CommandOK(c) /\ cmd \in [Procs -> Commands] /\ cmd[c] \in Commands /\ c \in Procs
      /\ cmd[c].todo # {} => At(c, "release")
  BY DEF CommandInv, EffortsTypeOK, ReleasesOnly
<1> DEFINE Goal == /\ AtWork(c) /\ CommandOK(c)' /\ ~ At(c, "none")'
                   /\ cmd'[c].todo # {} => At(c, "release")'
                   /\ Builds(c)' => Builds(c) /\ cmd'[c].on = cmd[c].on
                                    /\ cmd'[c].does = cmd[c].does
                   /\ \A q \in Procs \ {c} : cmd'[q] = cmd[q]
<1>2. ASSUME NEW label \in Building, Goto(c, label), Builds(c), ~ At(c, "release"),
             label = "activate" => cmd[c].does = "start",
             label \in {"probe", "spawn", "record"} => cmd[c].slot # 0
      PROVE  Goal
  BY <1>1, <1>2 DEF CommandOK, Builds, AtWork, At, Goto, Building, Commands
<1>3. ASSUME End(c), AtWork(c) PROVE Goal
  BY <1>1, <1>3, RecordsTyped DEF CommandOK, Builds, AtWork, At, End, Building
<1>4. ASSUME NEW es, NEW ls, ReleaseAll(c, es, ls), AtWork(c), cmd[c].does = "start" => es = {c}
      PROVE  Goal
  BY <1>1, <1>4 DEF CommandOK, Builds, AtWork, At, ReleaseAll, Building, Commands
<1>5. ASSUME Throw(c), AtWork(c) PROVE Goal
  BY <1>3, <1>4, <1>5 DEF Throw
<1>6. CASE Claim(c)
  <2>1. PICK s \in Slots : cmd' = [cmd EXCEPT ![c].pc = "probe", ![c].slot = s]
    BY <1>6 DEF Claim, FreeSlots
  <2> QED BY <1>1, <1>6, <2>1 DEF CommandOK, Builds, AtWork, At, Claim, Building, Commands
<1>7. CASE Probe(c)
  <2>1. Builds(c) /\ cmd[c].slot # 0 /\ ~ At(c, "release")
    BY <1>1, <1>7 DEF Probe, CommandOK, At, Building
  <2>2. CASE Busy(cmd[c].slot)
    <3>1. cmd' = [cmd EXCEPT ![c].pc = "claim", ![c].tried = @ \union {cmd[c].slot}]
      BY <1>7, <2>2 DEF Probe
    <3> QED BY <1>1, <2>1, <3>1 DEF CommandOK, Builds, AtWork, At, Building, Commands
  <2>3. CASE ~ Busy(cmd[c].slot)
    BY <1>2, <1>7, <2>1, <2>3 DEF Probe, Building
  <2> QED BY <2>2, <2>3
<1>8. CASE Spawn(c)
  <2>1. Builds(c) /\ cmd[c].slot # 0 /\ ~ At(c, "release")
    BY <1>1, <1>8 DEF Spawn, CommandOK, At, Building
  <2> QED BY <1>2, <1>8, <2>1 DEF Spawn, Building
<1>9. CASE Record(c)
  <2>1. Builds(c) /\ ~ At(c, "release") /\ AtWork(c)
    BY <1>1, <1>9 DEF Record, CommandOK, At, Building, AtWork
  <2> QED BY <1>2, <1>5, <1>9, <2>1 DEF Record, Building
<1>10. CASE Activate(c)
  BY <1>3, <1>10 DEF Activate, AtWork, At
<1>11. CASE Fail(c)
  BY <1>5, <1>11 DEF Fail, AtWork
<1>12. CASE Promote(c)
  <2>1. Builds(c) /\ ~ At(c, "release") /\ AtWork(c)
    BY <1>1, <1>12 DEF Promote, CommandOK, At, Building, AtWork
  <2> QED BY <1>2, <1>3, <1>12, <2>1 DEF Promote, Building
<1>13. CASE Touch(c)
  BY <1>3, <1>13 DEF Touch, AtWork, At
<1>14. CASE Push(c)
  BY <1>1, <1>4, <1>14 DEF Push, AtWork, At, CommandOK
<1>15. CASE Stop(c)
  BY <1>1, <1>15, SameCommand DEF Stop, AtWork, At
<1>16. CASE Release(c)
  <2>1. PICK l : cmd' = [cmd EXCEPT ![c].todo = @ \ {l}]
    BY <1>16 DEF Release
  <2> QED BY <1>1, <1>16, <2>1 DEF CommandOK, Builds, AtWork, At, Release, Building, Commands
<1>17. CASE Conclude(c)
  BY <1>3, <1>17 DEF Conclude, Released, AtWork, At
<1>18. CASE Forget(c)
  BY <1>3, <1>18 DEF Forget, AtWork, At
<1>19. CASE Die(c)
  BY <1>1, <1>19, RecordsTyped DEF Die, CommandOK, Builds, AtWork, At, Building
<1> QED
  <2>1. Goal
    BY <1>6, <1>7, <1>8, <1>9, <1>10, <1>11, <1>12, <1>13, <1>14, <1>15, <1>16, <1>17, <1>18,
       <1>19 DEF Runs
  <2> QED BY <2>1

\* The reaper begins, goes on and ends, and touches no command.
LEMMA ReapsCommand ==
    ASSUME CommandInv, Reaps
    PROVE  /\ cmd'[Reaper].pc \in {"none", "release"}
           /\ cmd'[Reaper].todo # {} => At(Reaper, "release")'
           /\ \A q \in Cmds : cmd'[q] = cmd[q]
<1> USE CmdFacts
<1>1. /\ cmd \in [Procs -> Commands] /\ cmd[Reaper] \in Commands
      /\ cmd[Reaper].todo # {} => At(Reaper, "release")
      /\ cmd[Reaper].pc \in {"none", "release"}
  BY DEF CommandInv, EffortsTypeOK, ReleasesOnly
<1>2. CASE Reap
  BY <1>1, <1>2 DEF Reap, ReleaseAll, At, Commands
<1>3. CASE Stop(Reaper)
  BY <1>1, <1>3 DEF Stop, At
<1>4. CASE Release(Reaper)
  <2>1. PICK l : cmd' = [cmd EXCEPT ![Reaper].todo = @ \ {l}]
    BY <1>4 DEF Release
  <2> QED BY <1>1, <1>4, <2>1 DEF Release, At, Commands
<1>5. CASE Park
  <2>1. PICK e \in cmd[Reaper].on :
          \/ cmd' = [cmd EXCEPT ![Reaper] = Unbegun]
          \/ cmd' = [cmd EXCEPT ![Reaper].on = @ \ {e}]
    BY <1>5 DEF Park
  <2> QED BY <1>1, <1>5, <2>1, RecordsTyped DEF Park, Released, At, Commands
<1>6. CASE Reaped
  BY <1>1, <1>6, RecordsTyped DEF Reaped, At
<1> QED BY <1>2, <1>3, <1>4, <1>5, <1>6 DEF Reaps

\* What is known of a command that crossed another is kept while something of it remains.
LEMMA CrossedStays ==
    ASSUME Next
    PROVE  /\ \A c \in crossed \intersect Cmds :
                 (IsOpen(c)' \/ Builds(c)' \/ \E stack \in running' : stack[2] = c)
                     => c \in crossed'
           /\ Met' /\ crossed' \subseteq Cmds
<1>1. crossed' = (crossed \union Crossing') \intersect Remains'
  BY DEF Next, Noting
<1>2. Crossing' \subseteq Remains' /\ Remains' \subseteq Cmds
  BY DEF Crossing, Remains
<1>3. ASSUME NEW c \in Cmds, IsOpen(c)' \/ Builds(c)' \/ \E stack \in running' : stack[2] = c
      PROVE  c \in Remains'
  BY <1>3 DEF Remains
<1> QED BY <1>1, <1>2, <1>3 DEF Met

LEMMA CommandsGoOn ==
    ASSUME CommandInv, Next PROVE CommandInv'
<1> USE CmdFacts
<1>1. /\ \A c \in Cmds : CommandOK(c)
      /\ \A p \in Procs : cmd[p].todo # {} => At(p, "release")
      /\ cmd[Reaper].pc \in {"none", "release"}
  BY DEF CommandInv, ReleasesOnly
<1>2. EffortsTypeOK'
  <2>1. /\ efforts' \in [Cmds -> SomeEfforts \union {NoEffort}]
        /\ leases' \in SUBSET Leases
        /\ running' \in SUBSET (Slots \X Cmds)
        /\ cmd' \in [Procs -> Commands]
    BY BeginsTyped, RunsTyped, OthersTyped DEF Next, Noting
  <2> QED BY <2>1, CrossedStays DEF EffortsTypeOK
<1>3. (\A c \in Cmds : CommandOK(c)') /\ ReleasesOnly'
  <2>1. ASSUME NEW c \in Cmds, Begins(c) PROVE (\A q \in Cmds : CommandOK(q)') /\ ReleasesOnly'
    BY <1>1, <2>1, BeginsCommand, SameCommand DEF ReleasesOnly, At
  <2>2. ASSUME NEW c \in Cmds, Runs(c) \/ Die(c)
        PROVE (\A q \in Cmds : CommandOK(q)') /\ ReleasesOnly'
    BY <1>1, <2>2, RunsCommand, SameCommand DEF ReleasesOnly, At
  <2>3. ASSUME Reaps PROVE (\A q \in Cmds : CommandOK(q)') /\ ReleasesOnly'
    BY <1>1, <2>3, ReapsCommand, SameCommand DEF ReleasesOnly, At
  <2>4. ASSUME Passes PROVE (\A q \in Cmds : CommandOK(q)') /\ ReleasesOnly'
    BY <1>1, <2>4, SameCommand DEF Passes, Pass, ReleasesOnly, At
  <2> QED BY <2>1, <2>2, <2>3, <2>4 DEF Next, Noting
<1> QED BY <1>2, <1>3, CrossedStays DEF CommandInv

\* Whom a command at work on an effort meets there.
LEMMA Meetings ==
    ASSUME CommandInv, NEW c \in Cmds, Builds(c)
    PROVE  /\ \A d \in Cmds \ {c} : Builds(d) /\ cmd[c].on \intersect cmd[d].on # {} =>
                 c \in crossed /\ d \in crossed
           /\ \A p \in Procs : At(p, "release") /\ cmd[c].on \intersect cmd[p].on # {}
                  => c \in crossed
           /\ \A p \in Procs : At(p, "forget") /\ cmd[c].on \intersect InArea(cmd[p].area) # {} =>
                 c \in crossed
           /\ \A p \in Procs : \A l \in cmd[p].todo : l.effort \in cmd[c].on => c \in crossed
<1> USE CmdFacts
<1>1. Crossing \subseteq crossed /\ CommandOK(c)
  BY DEF CommandInv, Met
<1>2. ~ At(c, "release") /\ ~ At(c, "forget")
  BY <1>1 DEF CommandOK, At, Building
<1>3. ASSUME NEW b \in Cmds, NEW p \in Procs \ {b}, Builds(b),
             cmd[b].on \intersect TearsDown(p) # {}
              \/ (Builds(p) /\ cmd[b].on \intersect cmd[p].on # {})
      PROVE  b \in crossed
  BY <1>1, <1>3 DEF Crossing
<1>4. \A p \in Procs : At(p, "release") => cmd[p].on \subseteq TearsDown(p) /\ p # c
  BY <1>2 DEF TearsDown
<1>5. \A p \in Procs : At(p, "forget") => TearsDown(p) = InArea(cmd[p].area) /\ p # c
  BY <1>2 DEF TearsDown, At
<1>6. \A p \in Procs : \A l \in cmd[p].todo : l.effort \in TearsDown(p) /\ p # c
  BY <1>2 DEF TearsDown, CommandInv, ReleasesOnly
<1>7. ASSUME NEW d \in Cmds \ {c}, Builds(d), cmd[c].on \intersect cmd[d].on # {}
      PROVE  c \in crossed /\ d \in crossed
  BY <1>3, <1>7
<1>8. ASSUME NEW p \in Procs, At(p, "release"), cmd[c].on \intersect cmd[p].on # {}
      PROVE c \in crossed
  BY <1>3, <1>4, <1>8
<1>9. ASSUME NEW p \in Procs, At(p, "forget"), cmd[c].on \intersect InArea(cmd[p].area) # {}
      PROVE  c \in crossed
  BY <1>3, <1>5, <1>9
<1>10. ASSUME NEW p \in Procs, NEW l \in cmd[p].todo, l.effort \in cmd[c].on PROVE c \in crossed
  BY <1>3, <1>6, <1>10
<1> QED BY <1>7, <1>8, <1>9, <1>10

-----------------------------------------------------------------------------
(* efforts stay apart *)

SameEffort(e) ==
    /\ efforts'[e].state = efforts[e].state /\ efforts'[e].target = efforts[e].target
    /\ efforts'[e].scopes = efforts[e].scopes

\* What a step may do to an effort.
LEMMA EffortsStep ==
    ASSUME CommandInv, Next, NEW e \in Cmds
    PROVE  \/ SameEffort(e)
           \/ \E t \in Targets, mode \in Modes : Reserve(e, t, mode)
           \/ Activate(e)
           \/ /\ efforts[e] # NoEffort /\ ~ Overlaps(e)
              /\ efforts' = [efforts EXCEPT ![e].scopes = Promoted(e)]
           \/ ~ IsOpen(e)' /\ \E p \in Procs : e \in TearsDown(p)
                                             /\ (At(p, "release") \/ At(p, "forget"))
<1> USE CmdFacts
<1>1. EffortsTypeOK
  BY DEF CommandInv
<1> DEFINE Torn == ~ IsOpen(e)' /\ \E p \in Procs : e \in TearsDown(p)
                                                    /\ (At(p, "release") \/ At(p, "forget"))
<1>2. ASSUME UNCHANGED efforts PROVE SameEffort(e)
  BY <1>2 DEF SameEffort
<1>3. ASSUME NEW es, Become(es, "parked") \/ Become(es, "finished"),
             NEW p \in Procs, At(p, "release"), es \subseteq cmd[p].on
      PROVE  SameEffort(e) \/ Torn
  <2>1. CASE e \in es /\ efforts[e] # NoEffort
    <3>1. efforts'[e].state \in {"parked", "finished"}
      <4>1. efforts[e] \in SomeEfforts
        BY <1>1, <2>1 DEF EffortsTypeOK
      <4>2. \/ efforts'[e] = [efforts[e] EXCEPT !.state = "parked", !.late = FALSE]
            \/ efforts'[e] = [efforts[e] EXCEPT !.state = "finished", !.late = FALSE]
        BY <1>3, <2>1 DEF Become
      <4> QED BY <4>1, <4>2 DEF SomeEfforts
    <3> QED BY <1>3, <2>1, <3>1 DEF IsOpen, TearsDown
  <2>2. CASE e \notin es \/ efforts[e] = NoEffort
    BY <1>1, <1>3, <2>2 DEF Become, EffortsTypeOK, SameEffort
  <2> QED BY <2>1, <2>2
<1>4. ASSUME NEW es, efforts' = Removed(es), NEW p \in Procs, e \in es => e \in TearsDown(p),
             At(p, "release") \/ At(p, "forget")
      PROVE  SameEffort(e) \/ Torn
  <2>1. CASE e \in es
    <3>1. efforts'[e] = NoEffort
      BY <1>4, <2>1 DEF Removed
    <3> QED BY <1>4, <2>1, <3>1, RecordsTyped DEF IsOpen
  <2>2. CASE e \notin es
    BY <1>4, <2>2 DEF Removed, SameEffort
  <2> QED BY <2>1, <2>2
<1>5. ASSUME NEW c \in Cmds, Begins(c)
      PROVE  SameEffort(e) \/ \E t \in Targets, mode \in Modes : Reserve(e, t, mode)
  <2>1. ASSUME NEW t \in Targets, NEW mode \in Modes, Reserve(c, t, mode), e # c PROVE SameEffort(e)
    BY <1>1, <2>1 DEF Reserve, EffortsTypeOK, SameEffort
  <2> QED BY <1>2, <1>5, <2>1 DEF Begins, PromoteLook, Reset, Visit, FinishLook,
                           RetireLook, registry
<1>6. ASSUME NEW c \in Cmds, Activate(c), e # c PROVE SameEffort(e)
  BY <1>1, <1>6 DEF Activate, Become, EffortsTypeOK, SameEffort
<1>7. ASSUME NEW c \in Cmds, Promote(c)
      PROVE  \/ SameEffort(e)
             \/ /\ efforts[e] # NoEffort /\ ~ Overlaps(e)
                /\ efforts' = [efforts EXCEPT ![e].scopes = Promoted(e)]
  <2>1. PICK d \in cmd[c].on :
          \/ UNCHANGED efforts
          \/ /\ efforts[d] # NoEffort /\ ~ Overlaps(d)
             /\ efforts' = [efforts EXCEPT ![d].scopes = Promoted(d)]
    BY <1>7 DEF Promote
  <2>2. CASE UNCHANGED efforts
    BY <1>2, <2>2
  <2>3. CASE d # e /\ efforts' = [efforts EXCEPT ![d].scopes = Promoted(d)]
    BY <1>1, <2>3 DEF EffortsTypeOK, SameEffort
  <2> QED BY <2>1, <2>2, <2>3
<1>8. ASSUME NEW c \in Cmds, Conclude(c) PROVE SameEffort(e) \/ Torn
  <2>1. PICK d \in cmd[c].on : efforts' = Removed({d}) \/ Become({d}, "finished")
    BY <1>8 DEF Conclude
  <2>2. At(c, "release") /\ d \in TearsDown(c)
    BY <1>8, <2>1 DEF Conclude, Released, TearsDown
  <2> QED BY <1>3, <1>4, <2>1, <2>2
<1>9. ASSUME NEW c \in Cmds, Forget(c) PROVE SameEffort(e) \/ Torn
  <2>1. At(c, "forget") /\ efforts' = Removed(InArea(cmd[c].area))
        /\ TearsDown(c) = InArea(cmd[c].area)
    BY <1>9 DEF Forget, TearsDown, At
  <2> QED BY <1>4, <2>1
<1>10. ASSUME Park PROVE SameEffort(e) \/ Torn
  <2>1. PICK d \in cmd[Reaper].on : UNCHANGED efforts \/ Become({d}, "parked")
    BY <1>10 DEF Park
  <2> QED BY <1>2, <1>3, <1>10, <2>1 DEF Park, Released
<1>11. ASSUME NEW d \in Cmds, Pass(d) PROVE SameEffort(e)
  BY <1>1, <1>11 DEF Pass, EffortsTypeOK, SameEffort, SomeEfforts, NoEffort
<1>12. ASSUME NEW c \in Cmds, Runs(c), ~ Activate(c), ~ Promote(c), ~ Conclude(c), ~ Forget(c)
       PROVE  SameEffort(e)
  BY <1>2, <1>12 DEF Runs, Claim, Probe, Spawn, Record, Fail, Touch, Push, Stop, Release, registry
<1>13. ASSUME NEW c \in Cmds, Die(c) PROVE SameEffort(e)
  BY <1>2, <1>13 DEF Die, registry
<1>14. ASSUME Reaps, ~ Park PROVE SameEffort(e)
  BY <1>2, <1>14 DEF Reaps, Reap, Stop, Release, Reaped, registry
<1> QED BY <1>5, <1>6, <1>7, <1>8, <1>9, <1>10, <1>11, <1>12, <1>13, <1>14 DEF Next, Noting, Passes

\* Who still builds, and has begun to before, has not changed what it works on.
LEMMA StillBuilds ==
    ASSUME CommandInv, Next, NEW c \in Cmds, Builds(c)'
    PROVE  \/ At(c, "none") /\ Begins(c)
           \/ Builds(c) /\ cmd'[c].on = cmd[c].on /\ cmd'[c].does = cmd[c].does
<1> USE CmdFacts
<1>1. ASSUME cmd'[c] = cmd[c] PROVE Builds(c)
  BY <1>1, SameCommand
<1>2. ASSUME NEW d \in Cmds, Begins(d)
      PROVE  (At(c, "none") /\ Begins(c)) \/ cmd'[c] = cmd[c]
  BY <1>2, BeginsCommand
<1>3. ASSUME NEW d \in Cmds, Runs(d) \/ Die(d)
      PROVE  \/ cmd'[c] = cmd[c]
             \/ Builds(c) /\ cmd'[c].on = cmd[c].on /\ cmd'[c].does = cmd[c].does
  BY <1>3, RunsCommand
<1>4. ASSUME Reaps \/ Passes PROVE cmd'[c] = cmd[c]
  BY <1>4, ReapsCommand DEF Passes, Pass
<1> QED BY <1>1, <1>2, <1>3, <1>4 DEF Next, Noting

LEMMA StartsGoOn ==
    ASSUME CommandInv, StartsAreOpen, Next PROVE StartsAreOpen'
<1> USE CmdFacts
<1> SUFFICES ASSUME NEW c \in Cmds, c \notin crossed', Builds(c)', cmd'[c].does = "start"
             PROVE  efforts'[c].state = "starting"
  BY DEF StartsAreOpen
<1>1. CASE At(c, "none") /\ Begins(c)
  <2>1. PICK t \in Targets, mode \in Modes : Reserve(c, t, mode)
    <3>1. cmd \in [Procs -> Commands]
      BY DEF CommandInv, EffortsTypeOK
    <3>2. ASSUME NEW k, Begin(c, k) PROVE cmd'[c] = k
      BY <3>1, <3>2 DEF Begin
    <3>3. ASSUME NEW e \in Cmds, PromoteLook(c, e) PROVE cmd'[c].does = "promote"
      BY <3>2, <3>3 DEF PromoteLook, Command, Unbegun
    <3>4. ASSUME NEW e \in Cmds, Reset(c, e) PROVE cmd'[c].does = "reset"
      BY <3>2, <3>4 DEF Reset, Command, Unbegun
    <3>5. ASSUME NEW e \in Cmds, Visit(c, e) PROVE cmd'[c].does = "none"
      BY <3>2, <3>5, RecordsTyped DEF Visit
    <3>6. ASSUME NEW e \in Cmds, FinishLook(c, e) PROVE cmd'[c].does = "finish"
      BY <3>2, <3>6 DEF FinishLook, Command, Unbegun
    <3>7. ASSUME NEW t \in Targets, RetireLook(c, AreaOf[t]) PROVE cmd'[c].does = "retire"
      BY <3>2, <3>7 DEF RetireLook, Command, Unbegun
    <3> QED BY <1>1, <3>3, <3>4, <3>5, <3>6, <3>7 DEF Begins
  <2> QED BY <2>1 DEF Reserve, CommandInv, EffortsTypeOK
<1>2. CASE Builds(c) /\ cmd'[c].on = cmd[c].on /\ cmd'[c].does = cmd[c].does
  <2>1. c \notin crossed /\ efforts[c].state = "starting" /\ cmd[c].on = {c} /\ ~ At(c, "none")
    BY <1>2, CrossedStays DEF StartsAreOpen, CommandInv, CommandOK, At, Building
  <2>2. ~ \E p \in Procs : c \in TearsDown(p) /\ (At(p, "release") \/ At(p, "forget"))
    <3> SUFFICES ASSUME NEW p \in Procs, c \in TearsDown(p), At(p, "release") \/ At(p, "forget")
                 PROVE  c \in crossed
      BY <2>1
    <3>1. CASE At(p, "release")
      <4>1. c \in cmd[p].on \/ \E l \in cmd[p].todo : l.effort = c
        BY <3>1 DEF TearsDown
      <4> QED BY <1>2, <2>1, <3>1, <4>1, Meetings
    <3>2. CASE At(p, "forget")
      <4>1. c \in InArea(cmd[p].area)
        BY <3>2 DEF TearsDown, At
      <4> QED BY <1>2, <2>1, <3>2, <4>1, Meetings
    <3> QED BY <3>1, <3>2
  <2>3. ~ Activate(c)
    BY RunsCommand, RecordsTyped DEF Activate, End, Runs, Builds, AtWork, At,
        CommandInv, EffortsTypeOK
  <2>4. ~ \E t \in Targets, mode \in Modes : Reserve(c, t, mode)
    BY <2>1 DEF Reserve, Begin
  <2>5. CASE efforts[c] # NoEffort /\ efforts' = [efforts EXCEPT ![c].scopes = Promoted(c)]
    BY <2>1, <2>5 DEF CommandInv, EffortsTypeOK, SomeEfforts
  <2> QED BY <2>1, <2>2, <2>3, <2>4, <2>5, EffortsStep DEF SameEffort
<1> QED BY <1>1, <1>2, StillBuilds

LEMMA EffortsStayApart ==
    ASSUME CommandInv, StartsAreOpen, OpenEffortsAreApart, Next PROVE OpenEffortsAreApart'
<1> USE CmdFacts
<1> SUFFICES ASSUME NEW e \in Cmds, NEW f \in Cmds, e # f, IsOpen(e)', IsOpen(f)',
                    e \notin crossed', f \notin crossed'
             PROVE  /\ efforts'[e].target # efforts'[f].target
                    /\ efforts'[e].scopes \intersect efforts'[f].scopes = {}
  BY DEF OpenEffortsAreApart, Open
<1>1. e \notin crossed /\ f \notin crossed /\ EffortsTypeOK
  BY CrossedStays DEF CommandInv
<1> DEFINE Apart(x, y) == /\ efforts'[x].target # efforts'[y].target
                          /\ efforts'[x].scopes \intersect efforts'[y].scopes = {}
           Kept(x) == /\ IsOpen(x) /\ efforts'[x].target = efforts[x].target
                      /\ efforts'[x].scopes = efforts[x].scopes
<1>2. ASSUME NEW x \in Cmds, IsOpen(x)', x \notin crossed
      PROVE  \/ Kept(x)
             \/ \E t \in Targets, mode \in Modes : Reserve(x, t, mode)
             \/ /\ IsOpen(x) /\ ~ Overlaps(x) /\ x \in Cmds
                /\ efforts' = [efforts EXCEPT ![x].scopes = Promoted(x)]
  <2>1. CASE SameEffort(x)
    BY <1>2, <2>1 DEF SameEffort, IsOpen
  <2>2. CASE Activate(x)
    <3>1. Builds(x) /\ cmd[x].does = "start" /\ efforts[x].state = "starting"
      BY <1>2, <2>2 DEF Activate, CommandInv, CommandOK, StartsAreOpen, At, Building
    <3>2. efforts'[x].target = efforts[x].target /\ efforts'[x].scopes = efforts[x].scopes
      BY <1>1, <2>2 DEF Activate, Become, EffortsTypeOK, SomeEfforts
    <3> QED BY <3>1, <3>2 DEF IsOpen
  <2>3. CASE /\ efforts[x] # NoEffort /\ ~ Overlaps(x)
             /\ efforts' = [efforts EXCEPT ![x].scopes = Promoted(x)]
    <3>1. efforts'[x].state = efforts[x].state
      BY <1>1, <2>3 DEF EffortsTypeOK, SomeEfforts
    <3> QED BY <1>2, <2>3, <3>1 DEF IsOpen
  <2> QED BY <1>2, <2>1, <2>2, <2>3, EffortsStep
<1>3. ASSUME NEW x \in Cmds, NEW y \in Cmds, x # y, IsOpen(y)',
             NEW t \in Targets, NEW mode \in Modes, Reserve(x, t, mode)
      PROVE  Apart(x, y)
  <2>1. efforts'[y] = efforts[y] /\ efforts'[x].target = t /\ efforts'[x].scopes = ScopesOf(t, mode)
    BY <1>1, <1>3 DEF Reserve, EffortsTypeOK
  <2>2. y \in Open
    BY <1>3, <2>1 DEF Open, IsOpen
  <2> QED BY <1>3, <2>1, <2>2 DEF Reserve, Holders
<1>4. ASSUME NEW x \in Cmds, NEW y \in Cmds, x # y, IsOpen(x), IsOpen(y)', ~ Overlaps(x),
             x \notin crossed, y \notin crossed,
             efforts' = [efforts EXCEPT ![x].scopes = Promoted(x)]
      PROVE  Apart(x, y)
  <2>1. /\ efforts'[y] = efforts[y] /\ efforts'[x].scopes = Promoted(x)
        /\ efforts'[x].target = efforts[x].target
    BY <1>1, <1>4, RecordsTyped DEF EffortsTypeOK, SomeEfforts, IsOpen
  <2>2. y \in Open /\ x \in Open
    BY <1>4, <2>1 DEF Open, IsOpen
  <2> QED BY <1>4, <2>1, <2>2 DEF Overlaps, OpenEffortsAreApart
<1>5. CASE Kept(e) /\ Kept(f)
  BY <1>1, <1>5 DEF OpenEffortsAreApart, Open
<1>6. Apart(e, f) \/ Apart(f, e)
  BY <1>1, <1>2, <1>3, <1>4, <1>5
<1> QED BY <1>6

-----------------------------------------------------------------------------
(* leases and stacks *)

Same(l, k) == l.by = k.by /\ l.slot = k.slot /\ l.effort = k.effort /\ l.pids = k.pids

\* What a step of b is that neither spawns nor records.
Steady(b) ==
    /\ At(b, "none")' => At(b, "none")
    /\ cmd'[b].pc \in Early => cmd[b].pc \in Early
    /\ At(b, "record")' => At(b, "record") /\ cmd'[b].slot = cmd[b].slot
    /\ At(b, "lost")' => cmd[b].pc \in {"record", "lost"}
    /\ cmd[b].pc \in {"record", "lost"} => cmd'[b].pc \in {"record", "lost"} \/ b \in crossed
    /\ Builds(b)' => At(b, "none") \/ (Builds(b) /\ cmd'[b].on = cmd[b].on)

LEMMA KnownTyped ==
    ASSUME EffortsTypeOK
    PROVE  \A l \in Known : /\ l.by \in Cmds /\ l.effort \in Cmds /\ l.pids \in SUBSET Cmds
                            /\ l.slot \in Slots /\ l.slot # 0
<1>1. \A p \in Procs : cmd[p].todo \in SUBSET Leases
  BY DEF EffortsTypeOK, Commands
<1>2. Known \subseteq Leases
  BY <1>1 DEF EffortsTypeOK, Known
<1> QED BY <1>2, EffortsAssumption DEF Leases

LEMMA UsesBuilds == ASSUME CommandInv, NEW c \in Cmds, Uses(c) PROVE Builds(c)
BY DEF Uses, CommandInv, CommandOK, Building

\* Nobody is forgotten who builds or has a stack.
LEMMA StillApart ==
    ASSUME CommandInv, Next, NEW b \in Cmds, b \notin crossed',
           Builds(b)' \/ Uses(b)' \/ \E s \in Slots : <<s, b>> \in running'
    PROVE  b \notin crossed
<1>1. Uses(b)' => Builds(b)'
  BY CommandsGoOn DEF Uses, CommandInv, CommandOK, Building
<1>2. (\E s \in Slots : <<s, b>> \in running') => \E stack \in running' : stack[2] = b
  OBVIOUS
<1> QED BY <1>1, <1>2, CrossedStays

\* A step that claims, spawns and records nothing, given what is left for those that
\* use a slot and for what is leased.
LEMMA NothingNew ==
    ASSUME CommandInv, LeaseInv, Next, running' \subseteq running,
           \A l \in leases' : \E k \in leases : Same(l, k),
           \A p \in Procs : \A l \in cmd'[p].todo :
               l \in cmd[p].todo \/ \E k \in leases : Same(l, k),
           \A b \in Cmds : Steady(b),
           \A b \in Cmds \ crossed : Uses(b)' => \E l \in leases' : Serves(l, b)',
           \A b \in Cmds \ crossed, s \in Slots :
               <<s, b>> \in running' /\ Leased(s, b) => Leased(s, b)',
           \A c \in Cmds : \A l \in leases' : Uses(c)' /\ Serves(l, c)' =>
               \A b \in l.pids : <<l.slot, b>> \in running' => b \in crossed,
           \A l \in leases' : l.by \notin crossed /\ Holds(l)' =>
               \A b \in Cmds : <<l.slot, b>> \in running' => b \in crossed \union {l.by}
    PROVE  LeaseInv'
<1>1. CommandInv' /\ EffortsTypeOK /\ EffortsTypeOK'
  BY CommandsGoOn DEF CommandInv
<1>2. ASSUME NEW l \in Known' PROVE \E k \in Known : Same(l, k)
  <2>1. CASE l \in leases'
    BY <2>1 DEF Known
  <2>2. ASSUME NEW p \in Procs, l \in cmd'[p].todo PROVE \E k \in Known : Same(l, k)
    BY <2>2 DEF Known, Same
  <2> QED BY <2>1, <2>2 DEF Known
<1>3. \A l \in Known' : LeaseOK(l)'
  <2> SUFFICES ASSUME NEW l \in Known' PROVE LeaseOK(l)'
    OBVIOUS
  <2>1. PICK k \in Known : Same(l, k)
    BY <1>2
  <2>2. k.by \in Cmds /\ k.pids \in SUBSET Cmds /\ LeaseOK(k) /\ Steady(k.by)
    BY <1>1, KnownTyped DEF LeaseInv
  <2> QED BY <2>1, <2>2 DEF LeaseOK, Same, Steady, At
<1>4. OneEffort'
  BY <1>2 DEF LeaseInv, OneEffort, Same
<1>5. OneLease'
  BY DEF LeaseInv, OneLease, Same
<1>6. ASSUME NEW s \in Slots, NEW b \in Cmds, <<s, b>> \in running'
      PROVE  StackOK(s, b)' /\ StackIsLeased(s, b)'
  <2>1. StackOK(s, b) /\ StackIsLeased(s, b) /\ Steady(b)
    BY <1>6 DEF LeaseInv
  <2>2. StackOK(s, b)'
    BY <2>1 DEF StackOK, Steady, At
  <2>3. ASSUME b \notin crossed' PROVE StackIsLeased(s, b)'
    BY <1>6, <2>1, <2>3, StillApart DEF StackIsLeased, Steady
  <2> QED BY <2>2, <2>3 DEF StackIsLeased
<1>7. SlotsAreLeased'
  BY StillApart DEF SlotsAreLeased
<1>8. ASSUME NEW p \in Procs PROVE StopsAll(p)'
  <2> SUFFICES ASSUME NEW l \in cmd'[p].todo, NEW k \in leases', k.by = l.by, k.slot = l.slot,
                      NEW b \in k.pids, b \notin crossed', <<k.slot, b>> \in running'
               PROVE  b \in l.pids
    BY DEF StopsAll
  <2>1. PICK m \in leases : Same(k, m)
    OBVIOUS
  <2>2. b \in Cmds /\ k.slot \in Slots
    BY <1>1, <2>1, KnownTyped DEF Known, Same
  <2>3. b \notin crossed
    BY <2>2, StillApart
  <2>4. CASE l \in cmd[p].todo
    <3>1. StopsAll(p)
      BY DEF LeaseInv
    <3>2. m.by = l.by /\ m.slot = l.slot /\ b \in m.pids /\ <<m.slot, b>> \in running
      BY <2>1 DEF Same
    <3> QED BY <2>3, <2>4, <3>1, <3>2 DEF StopsAll
  <2>5. CASE \E n \in leases : Same(l, n)
    <3>1. PICK n \in leases : Same(l, n)
      BY <2>5
    <3>2. n.slot = m.slot
      BY <2>1, <3>1 DEF Same
    <3>3. n.pids = m.pids
      BY <3>2 DEF LeaseInv, OneLease
    <3> QED BY <2>1, <3>1, <3>3 DEF Same
  <2> QED BY <2>4, <2>5
<1>9. ASSUME NEW c \in Cmds PROVE StartsFresh(c)'
  <2> SUFFICES ASSUME NEW l \in leases', Uses(c)', Serves(l, c)', NEW b \in l.pids,
                      <<l.slot, b>> \in running', b \notin crossed'
               PROVE  FALSE
    BY DEF StartsFresh
  <2>1. l.slot \in Slots /\ b \in Cmds
    BY <1>1 DEF EffortsTypeOK, Leases
  <2> QED BY <2>1, StillApart
<1>10. ASSUME NEW l \in leases' PROVE HasItAlone(l)'
  <2> SUFFICES ASSUME l.by \notin crossed', Owns(l)', NEW b \in Cmds,
                      <<l.slot, b>> \in running', b \notin crossed'
               PROVE  b = l.by
    BY DEF HasItAlone
  <2>1. l.slot \in Slots /\ l.by \in Cmds /\ l.slot # 0
    BY <1>1, EffortsAssumption DEF EffortsTypeOK, Leases
  <2>2. Holds(l)' => Uses(l.by)'
    BY <2>1 DEF Holds, Uses
  <2>3. l.by \notin crossed
    BY <2>1, <2>2, StillApart DEF Owns
  <2>4. b \notin crossed
    BY <2>1, StillApart
  <2>5. CASE Holds(l)'
    BY <2>3, <2>4, <2>5
  <2>6. CASE l.by \in l.pids /\ <<l.slot, l.by>> \in running'
    <3>1. PICK k \in leases : Same(l, k)
      OBVIOUS
    <3>2. Owns(k) /\ HasItAlone(k)
      BY <2>6, <3>1 DEF Owns, Same, LeaseInv
    <3> QED BY <2>3, <2>4, <3>1, <3>2 DEF HasItAlone, Same
  <2> QED BY <2>5, <2>6 DEF Owns
<1> QED BY <1>3, <1>4, <1>5, <1>6, <1>7, <1>8, <1>9, <1>10 DEF LeaseInv

\* What a step is of a command that has no slot to use then.
Idles(b) ==
    /\ ~ Uses(b)'
    /\ At(b, "none")' => At(b, "none")
    /\ cmd'[b].pc \in Early => cmd[b].pc \in Early
    /\ At(b, "lost")' => cmd[b].pc \in {"record", "lost"}
    /\ cmd[b].pc \in {"record", "lost"} => At(b, "lost")' \/ b \in crossed
    /\ Builds(b)' => At(b, "none") \/ (Builds(b) /\ cmd'[b].on = cmd[b].on)

\* And of one that has found a slot or finds it still there, and will spawn on it.
Takes(b) ==
    /\ cmd'[b].pc \in {"promote", "spawn"} /\ cmd[b].pc \in Early
    /\ At(b, "none") \/ (Builds(b) /\ cmd'[b].on = cmd[b].on)
    /\ b \notin crossed => \E l \in leases : Serves(l, b)'
    /\ \A l \in leases : Serves(l, b)' =>
          \A x \in l.pids : <<l.slot, x>> \in running' => x \in crossed
    /\ \A l \in leases : l.by = b /\ b \notin crossed /\ cmd'[b].slot = l.slot =>
          \A x \in Cmds : <<l.slot, x>> \in running' => x \in crossed \union {b}

LEMMA IsSteady ==
    ASSUME CommandInv, Next, NEW b \in Cmds, cmd'[b] = cmd[b] \/ Idles(b) \/ Takes(b)
    PROVE  Steady(b)
<1>1. CASE cmd'[b] = cmd[b]
  BY <1>1, SameCommand DEF Steady, At
<1>2. CASE Idles(b)
  <2>1. CommandInv'
    BY CommandsGoOn
  <2>2. ~ At(b, "record")'
    BY <1>2, <2>1 DEF Idles, Uses, At, CommandInv, CommandOK
  <2> QED BY <1>2, <2>2 DEF Idles, Steady, At
<1>3. CASE Takes(b)
  BY <1>3 DEF Takes, Steady, At, Early
<1> QED BY <1>1, <1>2, <1>3

\* A step that leaves all leases there.
LEMMA Quiet ==
    ASSUME CommandInv, LeaseInv, Next, running' \subseteq running,
           \A l \in leases' : \E k \in leases : Same(l, k),
           \A k \in leases : \E l \in leases' : Same(l, k),
           \A p \in Procs : \A l \in cmd'[p].todo :
               l \in cmd[p].todo \/ \E k \in leases : Same(l, k),
           \A b \in Cmds : cmd'[b] = cmd[b] \/ Idles(b) \/ Takes(b)
    PROVE  LeaseInv'
<1>1. CommandInv' /\ EffortsTypeOK /\ EffortsTypeOK'
  BY CommandsGoOn DEF CommandInv
<1>2. \A b \in Cmds : Steady(b)
  BY IsSteady
<1>3. ASSUME NEW b \in Cmds \ crossed, Uses(b)' PROVE \E l \in leases' : Serves(l, b)'
  <2>1. \E l \in leases : Serves(l, b)'
    <3>1. CASE cmd'[b] = cmd[b]
      BY <1>3, <3>1, SameCommand DEF LeaseInv, SlotsAreLeased
    <3> QED BY <1>3, <3>1 DEF Idles, Takes
  <2> QED BY <2>1 DEF Serves, Same
<1>4. ASSUME NEW b \in Cmds, NEW s \in Slots, Leased(s, b) PROVE Leased(s, b)'
  BY <1>4 DEF Leased, Same
<1>5. ASSUME NEW c \in Cmds, NEW l \in leases', Uses(c)', Serves(l, c)', NEW b \in l.pids,
             <<l.slot, b>> \in running'
      PROVE  b \in crossed
  <2>1. PICK k \in leases : Same(l, k)
    OBVIOUS
  <2>2. Serves(k, c)'
    BY <1>5, <2>1 DEF Serves, Same
  <2>3. CASE cmd'[c] = cmd[c]
    <3>1. Uses(c) /\ Serves(k, c)
      BY <1>5, <2>2, <2>3, SameCommand
    <3> QED BY <1>5, <2>1, <3>1 DEF LeaseInv, StartsFresh, Same
  <2> QED BY <1>5, <2>1, <2>2, <2>3 DEF Idles, Takes, Same
<1>6. ASSUME NEW l \in leases', l.by \notin crossed, Holds(l)', NEW b \in Cmds,
             <<l.slot, b>> \in running'
      PROVE  b \in crossed \union {l.by}
  <2>1. PICK k \in leases : Same(l, k)
    OBVIOUS
  <2>2. l.by \in Cmds /\ l.slot # 0
    BY <1>1, EffortsAssumption DEF EffortsTypeOK, Leases
  <2>3. CASE cmd'[l.by] = cmd[l.by]
    <3>1. Owns(k) /\ HasItAlone(k)
      BY <1>6, <2>1, <2>3 DEF Owns, Holds, Same, LeaseInv
    <3> QED BY <1>6, <2>1, <3>1 DEF HasItAlone, Same
  <2>4. CASE Takes(l.by)
    BY <1>6, <2>1, <2>4 DEF Takes, Same, Holds
  <2>5. ~ Idles(l.by)
    BY <1>6, <2>2 DEF Idles, Holds, Uses
  <2> QED BY <2>2, <2>3, <2>4, <2>5
<1> QED BY <1>2, <1>3, <1>4, <1>5, <1>6, NothingNew

LEMMA TouchedSame ==
    ASSUME EffortsTypeOK, NEW es, leases' = Touched(es)
    PROVE  /\ \A l \in leases' : \E k \in leases : Same(l, k)
           /\ \A k \in leases : \E l \in leases' : Same(l, k)
<1> DEFINE T(l) == IF l.effort \in es THEN [l EXCEPT !.expired = FALSE] ELSE l
<1>1. \A l \in leases : Same(T(l), l) /\ Same(l, T(l))
  BY DEF EffortsTypeOK, Leases, Same
<1>2. leases' = {T(l) : l \in leases}
  BY DEF Touched
<1> HIDE DEF T
<1>3. \A l \in leases : T(l) \in leases'
  BY <1>2
<1> QED BY <1>1, <1>2, <1>3

LEMMA QuietEnd ==
    ASSUME CommandInv, LeaseInv, Next, NEW c \in Cmds, End(c), running' \subseteq running,
           \A l \in leases' : \E k \in leases : Same(l, k),
           \A k \in leases : \E l \in leases' : Same(l, k),
           cmd[c].pc \notin {"record", "lost"} \/ c \in crossed
    PROVE  LeaseInv'
<1> USE CmdFacts
<1>1. cmd'[c] = Ended /\ \A p \in Procs \ {c} : cmd'[p] = cmd[p]
  BY DEF End, CommandInv, EffortsTypeOK
<1>2. Idles(c)
  BY <1>1, RecordsTyped DEF Idles, Uses, At, Builds, AtWork, Early
<1>3. \A p \in Procs : \A l \in cmd'[p].todo : l \in cmd[p].todo
  BY <1>1, RecordsTyped
<1> QED BY <1>1, <1>2, <1>3, Quiet

LEMMA QuietRelease ==
    ASSUME CommandInv, LeaseInv, Next, NEW p \in Procs, NEW es, NEW ls, ls \subseteq leases,
           ReleaseAll(p, es, ls), UNCHANGED <<leases, running>>,
           cmd[p].pc \notin {"record", "lost"} \/ p \in crossed
    PROVE  LeaseInv'
<1> USE CmdFacts
<1>1. /\ cmd'[p].pc = "release" /\ cmd'[p].todo = {[l EXCEPT !.expired = FALSE] : l \in ls}
      /\ \A q \in Procs \ {p} : cmd'[q] = cmd[q]
  BY DEF ReleaseAll, CommandInv, EffortsTypeOK, Commands
<1>2. p \in Cmds => Idles(p)
  BY <1>1 DEF Idles, Uses, At, Builds, Early
<1>3. \A l \in cmd'[p].todo : \E k \in leases : Same(l, k)
  BY <1>1 DEF CommandInv, EffortsTypeOK, Leases, Same
<1>4. \A l \in leases : Same(l, l)
  BY DEF Same
<1> QED BY <1>1, <1>2, <1>3, <1>4, Quiet

LEMMA QuietThrow ==
    ASSUME CommandInv, LeaseInv, Next, NEW c \in Cmds, Throw(c), UNCHANGED <<leases, running>>,
           cmd[c].pc \notin {"record", "lost"} \/ c \in crossed
    PROVE  LeaseInv'
<1>1. \A l \in leases : Same(l, l)
  BY DEF Same
<1> QED BY <1>1, CmdFacts, QuietEnd, QuietRelease DEF Throw, LeasesOf

LEMMA BeginsLeases ==
    ASSUME CommandInv, LeaseInv, Next, NEW c \in Cmds, Begins(c) PROVE LeaseInv'
<1> USE CmdFacts
<1>1. /\ At(c, "none") /\ cmd'[c].todo = {} /\ Begun(c, cmd'[c])
      /\ cmd \in [Procs -> Commands] /\ EffortsTypeOK
      /\ \A q \in Procs \ {c} : cmd'[q] = cmd[q]
  BY BeginsCommand DEF CommandInv, EffortsTypeOK
<1>2. ASSUME NEW k, Begin(c, k) PROVE cmd'[c] = k
  BY <1>1, <1>2 DEF Begin
<1>3. /\ running' \subseteq running
      /\ \A l \in leases' : \E k \in leases : Same(l, k)
      /\ \A k \in leases : \E l \in leases' : Same(l, k)
  <2>1. \A l \in leases : Same(l, l)
    BY DEF Same
  <2> QED BY <1>1, <2>1, TouchedSame
          DEF Begins, Reserve, PromoteLook, Reset, Visit, FinishLook, RetireLook, registry
<1>4. Idles(c) \/ Takes(c)
  <2>1. ASSUME ~ Uses(c)' PROVE Idles(c)
    BY <1>1, <2>1 DEF Idles, At, Begun, Early
  <2>2. \A l \in leases : l.by # c
    BY <1>1 DEF LeaseInv, LeaseOK, Known
  <2>3. ASSUME NEW l \in leases, cmd'[c].pc \in {"promote", "spawn"}, cmd'[c].slot = l.slot,
               cmd'[c].on = {l.effort},
               \A b \in l.pids : <<l.slot, b>> \in running' => b \in crossed
        PROVE  Takes(c)
    <3>1. Serves(l, c)'
      BY <2>3 DEF Serves
    <3>2. \A k \in leases : Serves(k, c)' => k.slot = l.slot /\ k.pids = l.pids
      BY <2>3 DEF Serves, LeaseInv, OneLease
    <3> QED BY <1>1, <2>2, <2>3, <3>1, <3>2 DEF Takes, At, Early
  <2>4. ASSUME NEW t \in Targets, NEW mode \in Modes, Reserve(c, t, mode) PROVE ~ Uses(c)'
    BY <1>2, <2>4, NewCommand DEF Reserve, Uses
  <2>5. ASSUME NEW e \in Cmds, PromoteLook(c, e) PROVE Idles(c) \/ Takes(c)
    <3>1. CASE Begin(c, Command("promote", {e}, "claim"))
      BY <1>2, <2>1, <3>1, NewCommand DEF Uses
    <3>2. ASSUME NEW l \in leases, l.effort = e,
                 Begin(c, [Command("promote", {e}, "promote") EXCEPT
                              !.slot = IF l.pids = {} THEN l.slot ELSE 0])
          PROVE  Idles(c) \/ Takes(c)
      <4>1. PICK k : k = [Command("promote", {e}, "promote") EXCEPT
                             !.slot = IF l.pids = {} THEN l.slot ELSE 0]
        OBVIOUS
      <4>2. k.pc = "promote" /\ k.on = {e} /\ k.slot = IF l.pids = {} THEN l.slot ELSE 0
        BY <4>1 DEF Command, Unbegun
      <4>3. cmd'[c] = k
        BY <1>2, <3>2, <4>1
      <4>4. CASE l.pids = {}
        BY <2>3, <3>2, <4>2, <4>3, <4>4
      <4>5. CASE l.pids # {}
        BY <2>1, <4>2, <4>3, <4>5 DEF Uses
      <4> QED BY <4>4, <4>5
    <3> QED BY <2>5, <3>1, <3>2 DEF PromoteLook, LeasesOf
  <2>6. ASSUME NEW e \in Cmds, Reset(c, e) PROVE Takes(c)
    <3>1. PICK l \in leases :
              /\ l.effort = e /\ running' = running \ Alive(l)
              /\ Begin(c, [Command("reset", {e}, "spawn") EXCEPT !.slot = l.slot])
      BY <2>6 DEF Reset, LeasesOf
    <3>2. PICK k : k = [Command("reset", {e}, "spawn") EXCEPT !.slot = l.slot]
      OBVIOUS
    <3>3. k.pc = "spawn" /\ k.on = {e} /\ k.slot = l.slot
      BY <3>2 DEF Command, Unbegun
    <3>4. cmd'[c] = k
      BY <1>2, <3>1, <3>2
    <3>5. \A b \in l.pids : <<l.slot, b>> \notin running'
      BY <3>1 DEF Alive
    <3> QED BY <2>3, <3>1, <3>3, <3>4, <3>5
  <2>7. ASSUME NEW e \in Cmds, Visit(c, e) \/ FinishLook(c, e) PROVE ~ Uses(c)'
    BY <1>2, <2>7, NewCommand, RecordsTyped DEF Visit, FinishLook, Uses
  <2>8. ASSUME NEW t \in Targets, RetireLook(c, AreaOf[t]) PROVE ~ Uses(c)'
    <3>1. PICK k : k = [Command("retire", {}, "forget") EXCEPT !.area = AreaOf[t]]
      OBVIOUS
    <3>2. k.pc = "forget"
      BY <3>1 DEF Command, Unbegun
    <3> QED BY <1>2, <2>8, <3>1, <3>2 DEF RetireLook, Uses
  <2> QED BY <2>1, <2>4, <2>5, <2>6, <2>7, <2>8 DEF Begins
<1> QED BY <1>1, <1>3, <1>4, Quiet

LEMMA RunsQuietly ==
    ASSUME CommandInv, LeaseInv, Next, NEW c \in Cmds,
           Activate(c) \/ Fail(c) \/ Touch(c) \/ Push(c) \/ Stop(c) \/ Conclude(c)
            \/ Forget(c) \/ Die(c)
    PROVE  LeaseInv'
<1> USE CmdFacts
<1>1. (\A l \in leases : Same(l, l)) /\ EffortsTypeOK /\ cmd \in [Procs -> Commands]
  BY DEF Same, CommandInv, EffortsTypeOK
<1>2. CASE Activate(c)
  BY <1>1, <1>2, QuietEnd DEF Activate, At
<1>3. CASE Fail(c)
  BY <1>3, QuietThrow DEF Fail, registry
<1>4. CASE Touch(c)
  BY <1>1, <1>4, QuietEnd, TouchedSame DEF Touch, At
<1>5. CASE Push(c)
  BY <1>5, QuietRelease DEF Push, At, registry, LeasesOf
<1>6. CASE Stop(c)
  BY <1>1, <1>6, Quiet DEF Stop, registry
<1>7. CASE Conclude(c)
  BY <1>1, <1>7, QuietEnd DEF Conclude, Released, At
<1>8. CASE Forget(c)
  BY <1>1, <1>8, QuietEnd DEF Forget, At
<1>9. CASE Die(c)
  <2>1. cmd'[c] = IF At(c, "record") THEN Lost ELSE Ended
    BY <1>1, <1>9 DEF Die
  <2>2. \A p \in Procs \ {c} : cmd'[p] = cmd[p]
    BY <1>1, <1>9 DEF Die
  <2>3. cmd'[c].todo = {} /\ Idles(c)
    BY <1>9, <2>1, RecordsTyped DEF Die, Idles, Uses, At, Builds, AtWork, Early
  <2> QED BY <1>1, <1>9, <2>2, <2>3, Quiet DEF Die, registry
<1> QED BY <1>2, <1>3, <1>4, <1>5, <1>6, <1>7, <1>8, <1>9

\* The reaper reads, stops, parks and goes; time passes.
LEMMA OthersQuietly ==
    ASSUME CommandInv, LeaseInv, Next, Reap \/ Stop(Reaper) \/ Park \/ Reaped \/ Passes
    PROVE  LeaseInv'
<1> USE CmdFacts
<1>1. /\ \A l \in leases : Same(l, l)
      /\ EffortsTypeOK /\ cmd \in [Procs -> Commands] /\ cmd[Reaper] \in Commands
      /\ cmd[Reaper].pc \in {"none", "release"}
  BY DEF Same, CommandInv, EffortsTypeOK, ReleasesOnly
<1>2. CASE Reap
  BY <1>1, <1>2, QuietRelease DEF Reap, registry, LeasesOf
<1>3. CASE Stop(Reaper)
  BY <1>1, <1>3, Quiet DEF Stop, registry
<1>4. CASE Park
  <2>1. PICK e \in cmd[Reaper].on : cmd' = [cmd EXCEPT ![Reaper] = Unbegun]
                                 \/ cmd' = [cmd EXCEPT ![Reaper].on = @ \ {e}]
    BY <1>4 DEF Park
  <2>2. (\A b \in Cmds : cmd'[b] = cmd[b]) /\ \A p \in Procs : cmd'[p].todo \subseteq cmd[p].todo
    BY <1>1, <2>1, RecordsTyped DEF Commands
  <2> QED BY <1>1, <1>4, <2>2, Quiet DEF Park
<1>5. CASE Reaped
  <2>1. (\A b \in Cmds : cmd'[b] = cmd[b]) /\ \A p \in Procs : cmd'[p].todo \subseteq cmd[p].todo
    BY <1>1, <1>5, RecordsTyped DEF Reaped
  <2> QED BY <1>1, <1>5, <2>1, Quiet DEF Reaped, registry
<1>6. ASSUME NEW e \in Cmds, Pass(e) PROVE LeaseInv'
  <2> DEFINE T(l) == IF l.effort = e THEN [l EXCEPT !.expired = TRUE] ELSE l
  <2>1. \A l \in leases : Same(T(l), l) /\ Same(l, T(l))
    BY <1>1 DEF EffortsTypeOK, Leases, Same
  <2>2. UNCHANGED leases \/ leases' = {T(l) : l \in leases}
    BY <1>6 DEF Pass
  <2> HIDE DEF T
  <2>3. /\ \A l \in leases' : \E k \in leases : Same(l, k)
        /\ \A k \in leases : \E l \in leases' : Same(l, k)
    <3>1. CASE UNCHANGED leases
      BY <1>1, <3>1
    <3>2. CASE leases' = {T(l) : l \in leases}
      <4>1. \A l \in leases : T(l) \in leases'
        BY <3>2
      <4> QED BY <2>1, <3>2, <4>1
    <3> QED BY <2>2, <3>1, <3>2
  <2>4. UNCHANGED <<running, cmd>>
    BY <1>6 DEF Pass
  <2> QED BY <2>3, <2>4, Quiet
<1> QED BY <1>2, <1>3, <1>4, <1>5, <1>6 DEF Passes

\* A slot is found free, and the mode is changed of what has one.
LEMMA ProbesFree ==
    ASSUME CommandInv, LeaseInv, Next, NEW c \in Cmds, Probe(c), ~ Busy(cmd[c].slot)
    PROVE  LeaseInv'
<1> USE CmdFacts
<1>1. /\ cmd \in [Procs -> Commands] /\ cmd[c] \in Commands /\ At(c, "probe") /\ Uses(c)
      /\ \A l \in leases : Same(l, l)
  BY DEF CommandInv, EffortsTypeOK, CommandOK, Probe, At, Uses, Same
<1>2. PICK label \in {"spawn", "promote"} : Goto(c, label)
  BY DEF Probe
<1>3. /\ cmd'[c].pc = label /\ cmd'[c].slot = cmd[c].slot /\ cmd'[c].on = cmd[c].on
      /\ cmd'[c].todo = cmd[c].todo
      /\ \A p \in Procs \ {c} : cmd'[p] = cmd[p]
  BY <1>1, <1>2 DEF Goto, Commands
<1>4. \A l : Serves(l, c)' <=> Serves(l, c)
  BY <1>3 DEF Serves
<1>5. UNCHANGED <<leases, running>>
  BY DEF Probe
<1>6. \A x : <<cmd[c].slot, x>> \notin running
  BY DEF Busy
<1>7. Takes(c)
  BY <1>1, <1>3, <1>4, <1>5, <1>6, UsesBuilds
     DEF Takes, LeaseInv, SlotsAreLeased, Serves, At, Early
<1> QED BY <1>1, <1>3, <1>5, <1>7, Quiet

LEMMA PromotesOn ==
    ASSUME CommandInv, LeaseInv, Next, NEW c \in Cmds, Promote(c), UNCHANGED leases,
           Goto(c, IF cmd[c].slot = 0 THEN "touch" ELSE "spawn")
    PROVE  LeaseInv'
<1> USE CmdFacts
<1>1. /\ cmd \in [Procs -> Commands] /\ cmd[c] \in Commands /\ At(c, "promote") /\ Builds(c)
      /\ \A l \in leases : Same(l, l)
  BY DEF CommandInv, EffortsTypeOK, CommandOK, Promote, At, Building, Same
<1>2. /\ cmd'[c].pc = IF cmd[c].slot = 0 THEN "touch" ELSE "spawn"
      /\ cmd'[c].slot = cmd[c].slot /\ cmd'[c].on = cmd[c].on /\ cmd'[c].todo = cmd[c].todo
      /\ \A p \in Procs \ {c} : cmd'[p] = cmd[p]
  BY <1>1 DEF Goto, Commands
<1>3. UNCHANGED <<leases, running>>
  BY DEF Promote
<1>4. CASE cmd[c].slot = 0
  <2>1. Idles(c)
    BY <1>1, <1>2, <1>4 DEF Idles, Uses, At, Early
  <2> QED BY <1>1, <1>2, <1>3, <2>1, Quiet
<1>5. CASE cmd[c].slot # 0
  <2>1. Uses(c)
    BY <1>1, <1>5 DEF Uses, At
  <2>2. \A l : Serves(l, c)' <=> Serves(l, c)
    BY <1>2 DEF Serves
  <2>3. \A l \in leases : l.by = c /\ cmd[c].slot = l.slot => Owns(l) /\ HasItAlone(l)
    BY <1>1 DEF Owns, Holds, At, LeaseInv
  <2>4. Takes(c)
    BY <1>1, <1>2, <1>3, <1>5, <2>1, <2>2, <2>3
       DEF Takes, LeaseInv, SlotsAreLeased, StartsFresh, HasItAlone, At, Early
  <2> QED BY <1>1, <1>2, <1>3, <2>4, Quiet
<1> QED BY <1>4, <1>5

\* A step that takes leases away, which nobody uses and nothing runs by.
LEMMA Removes ==
    ASSUME CommandInv, LeaseInv, Next, UNCHANGED running, leases' \subseteq leases,
           \A p \in Procs : cmd'[p].todo \subseteq cmd[p].todo,
           \A b \in Cmds : cmd'[b] = cmd[b] \/ Idles(b),
           \A k \in leases \ leases' :
               /\ \A d \in Cmds \ crossed : Uses(d) /\ cmd'[d] = cmd[d] => ~ Serves(k, d)
               /\ \A b \in k.pids \ crossed : <<k.slot, b>> \notin running
    PROVE  LeaseInv'
<1>1. /\ \A b \in Cmds : Steady(b)
      /\ \A l \in leases' : Same(l, l)
      /\ \A l \in leases : l.by \in Cmds /\ l.slot # 0
  BY IsSteady, KnownTyped DEF Same, CommandInv, Known
<1>2. ASSUME NEW b \in Cmds, Uses(b)'
      PROVE  cmd'[b] = cmd[b] /\ Uses(b) /\ \A l : Serves(l, b)' <=> Serves(l, b)
  BY <1>2, SameCommand DEF Idles
<1>3. ASSUME NEW b \in Cmds \ crossed, Uses(b)' PROVE \E l \in leases' : Serves(l, b)'
  BY <1>2, <1>3 DEF LeaseInv, SlotsAreLeased
<1>4. ASSUME NEW b \in Cmds \ crossed, NEW s \in Slots, <<s, b>> \in running', Leased(s, b)
      PROVE  Leased(s, b)'
  BY <1>4 DEF Leased
<1>5. ASSUME NEW c \in Cmds, NEW l \in leases', Uses(c)', Serves(l, c)'
      PROVE  \A b \in l.pids : <<l.slot, b>> \in running' => b \in crossed
  BY <1>2, <1>5 DEF LeaseInv, StartsFresh
<1>6. ASSUME NEW l \in leases', l.by \notin crossed, Holds(l)'
      PROVE  \A b \in Cmds : <<l.slot, b>> \in running' => b \in crossed \union {l.by}
  <2>1. Uses(l.by)'
    BY <1>1, <1>6 DEF Holds, Uses
  <2>2. Owns(l) /\ HasItAlone(l)
    BY <1>1, <1>2, <1>6, <2>1 DEF Holds, Owns, LeaseInv
  <2> QED BY <1>6, <2>2 DEF HasItAlone
<1> QED BY <1>1, <1>3, <1>4, <1>5, <1>6, NothingNew

LEMMA Releases ==
    ASSUME CommandInv, LeaseInv, Next, NEW p \in Procs, Release(p) PROVE LeaseInv'
<1> USE CmdFacts
<1>1. cmd \in [Procs -> Commands] /\ cmd[p] \in Commands /\ At(p, "release") /\ EffortsTypeOK
  BY DEF CommandInv, EffortsTypeOK, Release
<1>2. PICK l \in cmd[p].todo :
          /\ Stopped(l)
          /\ leases' = {k \in leases : <<k.by, k.slot>> # <<l.by, l.slot>>}
          /\ cmd' = [cmd EXCEPT ![p].todo = @ \ {l}]
  BY DEF Release
<1>3. /\ cmd'[p].todo \subseteq cmd[p].todo /\ cmd'[p].pc = cmd[p].pc
      /\ \A q \in Procs \ {p} : cmd'[q] = cmd[q]
  BY <1>1, <1>2 DEF Commands
<1>4. p \in Cmds => Idles(p)
  BY <1>1, <1>3 DEF Idles, At, Uses, Builds, Early
<1>5. ASSUME NEW k \in leases \ leases'
      PROVE  /\ \A d \in Cmds \ crossed : Uses(d) => ~ Serves(k, d)
             /\ \A b \in k.pids \ crossed : <<k.slot, b>> \notin running
  <2>1. k.by = l.by /\ k.slot = l.slot
    BY <1>2
  <2>2. k.effort = l.effort
    BY <2>1 DEF LeaseInv, OneEffort, Known
  <2>3. ASSUME NEW d \in Cmds \ crossed, Uses(d), Serves(k, d) PROVE FALSE
    BY <2>2, <2>3, UsesBuilds, Meetings DEF Serves
  <2>4. ASSUME NEW b \in k.pids \ crossed, <<k.slot, b>> \in running PROVE FALSE
    <3>1. b \in l.pids
      BY <2>1, <2>4 DEF LeaseInv, StopsAll
    <3> QED BY <1>2, <2>1, <2>4, <3>1 DEF Stopped, Alive
  <2> QED BY <2>3, <2>4
<1>6. UNCHANGED running /\ leases' \subseteq leases
  BY <1>2 DEF Release
<1> QED BY <1>3, <1>4, <1>5, <1>6, Removes

\* A claim is given up: the ports are busy, or there is an overlap.
LEMMA GivesUp ==
    ASSUME CommandInv, LeaseInv, Next, NEW c \in Cmds, cmd[c].pc \in {"probe", "promote"},
           leases' = {l \in leases : ~ IsClaim(l, c)}, UNCHANGED running,
           cmd'[c].pc \in {"claim", "ended"}, cmd'[c].todo \subseteq cmd[c].todo,
           cmd'[c].on = cmd[c].on \/ ~ Builds(c)',
           \A p \in Procs \ {c} : cmd'[p] = cmd[p]
    PROVE  LeaseInv'
<1> USE CmdFacts
<1>1. EffortsTypeOK /\ Builds(c)
  BY DEF CommandInv, CommandOK, Building
<1>2. Idles(c)
  BY <1>1 DEF Idles, At, Uses, Early
<1>3. cmd'[c] # cmd[c]
  OBVIOUS
<1>4. ASSUME NEW k \in leases \ leases'
      PROVE  /\ \A d \in Cmds \ crossed : Uses(d) /\ cmd'[d] = cmd[d] => ~ Serves(k, d)
             /\ \A b \in k.pids \ crossed : <<k.slot, b>> \notin running
  <2>1. k.by = c /\ k.slot = cmd[c].slot
    BY DEF IsClaim
  <2>2. k.effort \in cmd[c].on
    BY <1>1, <2>1 DEF LeaseInv, LeaseOK, Known
  <2>3. Uses(c) /\ Serves(k, c)
    BY <1>1, <2>1, <2>2, KnownTyped DEF Uses, Serves, Known
  <2>4. ASSUME NEW d \in Cmds \ crossed, Uses(d), cmd'[d] = cmd[d], Serves(k, d) PROVE FALSE
    BY <1>1, <1>3, <2>2, <2>4, UsesBuilds, Meetings DEF Serves
  <2>5. \A b \in k.pids \ crossed : <<k.slot, b>> \notin running
    BY <2>3 DEF LeaseInv, StartsFresh
  <2> QED BY <2>4, <2>5
<1> QED BY <1>2, <1>4, Removes

LEMMA ProbesBusy ==
    ASSUME CommandInv, LeaseInv, Next, NEW c \in Cmds, Probe(c), Busy(cmd[c].slot)
    PROVE  LeaseInv'
<1> USE CmdFacts
<1>1. cmd \in [Procs -> Commands] /\ cmd[c] \in Commands
  BY DEF CommandInv, EffortsTypeOK
<1>2. /\ At(c, "probe") /\ leases' = {l \in leases : ~ IsClaim(l, c)}
      /\ cmd' = [cmd EXCEPT ![c].pc = "claim", ![c].tried = @ \union {cmd[c].slot}]
      /\ UNCHANGED running
  BY DEF Probe
<1>3. /\ cmd'[c].pc = "claim" /\ cmd'[c].on = cmd[c].on /\ cmd'[c].todo = cmd[c].todo
      /\ \A p \in Procs \ {c} : cmd'[p] = cmd[p]
  BY <1>1, <1>2 DEF Commands
<1> QED BY <1>2, <1>3, GivesUp DEF At

LEMMA Overlapped ==
    ASSUME CommandInv, LeaseInv, Next, NEW c \in Cmds, Promote(c), End(c),
           leases' = {l \in leases : ~ IsClaim(l, c)}
    PROVE  LeaseInv'
<1> USE CmdFacts
<1>1. cmd'[c] = Ended /\ \A p \in Procs \ {c} : cmd'[p] = cmd[p]
  BY DEF End, CommandInv, EffortsTypeOK
<1> QED BY <1>1, GivesUp, RecordsTyped DEF Promote, At, Builds, AtWork

\* A slot is claimed that nobody leases: nothing is known to run by the new lease.
LEMMA Claims ==
    ASSUME CommandInv, LeaseInv, Next, NEW c \in Cmds, Claim(c) PROVE LeaseInv'
<1> USE CmdFacts
<1>1. /\ cmd \in [Procs -> Commands] /\ cmd[c] \in Commands /\ At(c, "claim") /\ EffortsTypeOK
      /\ EffortsTypeOK' /\ UNCHANGED running
  BY CommandsGoOn DEF CommandInv, EffortsTypeOK, Claim
<1>2. PICK e \in cmd[c].on, s \in FreeSlots(c) :
          /\ leases' = leases \union {[by |-> c, slot |-> s, effort |-> e, pids |-> {},
                                       expired |-> FALSE]}
          /\ cmd' = [cmd EXCEPT ![c].pc = "probe", ![c].slot = s]
  BY DEF Claim
<1>3. PICK m : m = [by |-> c, slot |-> s, effort |-> e, pids |-> {}, expired |-> FALSE]
  OBVIOUS
<1>4. m.by = c /\ m.slot = s /\ m.effort = e /\ m.pids = {} /\ leases' = leases \union {m}
  BY <1>2, <1>3
<1>5. /\ cmd'[c].pc = "probe" /\ cmd'[c].slot = s /\ cmd'[c].on = cmd[c].on
      /\ cmd'[c].todo = cmd[c].todo
      /\ \A p \in Procs \ {c} : cmd'[p] = cmd[p]
  BY <1>1, <1>2 DEF Commands
<1>6. s \in Slots /\ s # 0 /\ \A l \in leases : l.slot # s
  BY <1>2, EffortsAssumption DEF FreeSlots
<1>7. Builds(c) /\ cmd[c].on = {e} /\ ~ Uses(c)
  BY <1>1, <1>2 DEF CommandInv, CommandOK, At, Building, Uses
<1>8. Known' = Known \union {m}
  <2>1. \A p \in Procs : cmd'[p].todo = cmd[p].todo
    BY <1>5
  <2> QED BY <1>4, <2>1 DEF Known
<1>9. ASSUME NEW b \in Cmds, b # c
      PROVE  /\ Builds(b)' = Builds(b) /\ Uses(b)' = Uses(b) /\ \A l : Serves(l, b)' = Serves(l, b)
  BY <1>5, <1>9, SameCommand
<1>10. \A l \in Known' : LeaseOK(l)'
  <2>1. LeaseOK(m)'
    BY <1>4, <1>5, <1>7 DEF LeaseOK, At
  <2>2. ASSUME NEW l \in Known PROVE LeaseOK(l)'
    <3>1. LeaseOK(l) /\ l.by \in Cmds /\ l.pids \in SUBSET Cmds
      BY <1>1, KnownTyped DEF LeaseInv
    <3>2. CASE l.by = c
      BY <1>1, <1>5, <1>7, <3>1, <3>2 DEF LeaseOK, At, Early
    <3>3. CASE l.by # c
      BY <1>1, <1>5, <1>9, <3>1, <3>3 DEF LeaseOK, At, Early
    <3> QED BY <3>2, <3>3
  <2> QED BY <1>8, <2>1, <2>2
<1>11. OneEffort'
  <2>1. ASSUME NEW l \in Known, l.by = c PROVE l.effort = e
    BY <1>7, <2>1 DEF LeaseInv, LeaseOK
  <2> QED BY <1>4, <1>8, <2>1 DEF LeaseInv, OneEffort
<1>12. OneLease'
  BY <1>4, <1>6 DEF LeaseInv, OneLease
<1>13. ASSUME NEW r \in Slots, NEW b \in Cmds, <<r, b>> \in running'
       PROVE  StackOK(r, b)' /\ StackIsLeased(r, b)'
  <2>1. StackOK(r, b) /\ StackIsLeased(r, b)
    BY <1>1, <1>13 DEF LeaseInv
  <2>2. b # c
    BY <1>1, <2>1 DEF StackOK, At, Early
  <2>3. b \notin crossed' => b \notin crossed
    BY <1>13, StillApart
  <2>4. cmd'[b] = cmd[b] /\ (Leased(r, b) => Leased(r, b)')
    BY <1>4, <1>5, <2>2 DEF Leased
  <2> QED BY <2>1, <2>3, <2>4 DEF StackOK, StackIsLeased, At
<1>14. SlotsAreLeased'
  <2> SUFFICES ASSUME NEW d \in Cmds, d \notin crossed', Uses(d)'
               PROVE  \E l \in leases' : Serves(l, d)'
    BY DEF SlotsAreLeased
  <2>1. CASE d = c
    BY <1>4, <1>5, <1>7, <2>1 DEF Serves
  <2>2. CASE d # c
    BY <1>4, <1>9, <2>2, StillApart DEF LeaseInv, SlotsAreLeased
  <2> QED BY <2>1, <2>2
<1>15. ASSUME NEW p \in Procs PROVE StopsAll(p)'
  <2> SUFFICES ASSUME NEW l \in cmd'[p].todo, NEW k \in leases', k.by = l.by, k.slot = l.slot,
                      NEW b \in k.pids, b \notin crossed', <<k.slot, b>> \in running'
               PROVE  b \in l.pids
    BY DEF StopsAll
  <2>1. k \in leases /\ l \in cmd[p].todo
    BY <1>4, <1>5
  <2>2. b \in Cmds /\ k.slot \in Slots
    BY <1>1, <2>1, KnownTyped DEF Known
  <2>3. b \notin crossed
    BY <2>2, StillApart
  <2> QED BY <1>1, <2>1, <2>3 DEF LeaseInv, StopsAll
<1>16. ASSUME NEW d \in Cmds PROVE StartsFresh(d)'
  <2> SUFFICES ASSUME NEW l \in leases', Uses(d)', Serves(l, d)', NEW b \in l.pids,
                      <<l.slot, b>> \in running', b \notin crossed'
               PROVE  FALSE
    BY DEF StartsFresh
  <2>1. l \in leases
    BY <1>4
  <2>2. d # c
    BY <1>5, <1>6, <2>1 DEF Serves
  <2>3. b \in Cmds /\ l.slot \in Slots
    BY <1>1, <2>1, KnownTyped DEF Known
  <2>4. b \notin crossed
    BY <2>3, StillApart
  <2> QED BY <1>1, <1>9, <2>1, <2>2, <2>4 DEF LeaseInv, StartsFresh
<1>17. ASSUME NEW l \in leases' PROVE HasItAlone(l)'
  <2> SUFFICES ASSUME l.by \notin crossed', Owns(l)', NEW b \in Cmds,
                      <<l.slot, b>> \in running', b \notin crossed'
               PROVE  b = l.by
    BY DEF HasItAlone
  <2>1. ~ Holds(m)' /\ ~ Owns(m)'
    BY <1>4, <1>5 DEF Holds, Owns
  <2>2. l \in leases /\ l.by \in Cmds /\ l.slot \in Slots /\ l.slot # 0
    BY <1>1, <1>4, <2>1, KnownTyped DEF Known
  <2>3. Holds(l)' => Holds(l) /\ Uses(l.by)'
    BY <1>5, <2>2 DEF Holds, Uses
  <2>4. Owns(l) /\ l.by \notin crossed
    BY <1>1, <2>2, <2>3, StillApart DEF Owns
  <2>5. b \notin crossed
    BY <2>2, StillApart
  <2> QED BY <1>1, <2>2, <2>4, <2>5 DEF LeaseInv, HasItAlone
<1> QED BY <1>10, <1>11, <1>12, <1>13, <1>14, <1>15, <1>16, <1>17 DEF LeaseInv

\* The services are spawned: on a slot that is leased for this effort.
LEMMA Spawns ==
    ASSUME CommandInv, LeaseInv, Next, NEW c \in Cmds, Spawn(c) PROVE LeaseInv'
<1> USE CmdFacts
<1>1. /\ cmd \in [Procs -> Commands] /\ cmd[c] \in Commands /\ At(c, "spawn") /\ EffortsTypeOK
      /\ Uses(c) /\ Builds(c) /\ UNCHANGED leases
      /\ running' = running \union {<<cmd[c].slot, c>>}
  BY DEF CommandInv, EffortsTypeOK, CommandOK, Spawn, At, Uses, Building, registry
<1>2. /\ cmd'[c].pc = "record" /\ cmd'[c].slot = cmd[c].slot /\ cmd'[c].on = cmd[c].on
      /\ \A p \in Procs : cmd'[p].todo = cmd[p].todo
      /\ \A p \in Procs \ {c} : cmd'[p] = cmd[p]
  BY <1>1 DEF Spawn, Goto, Commands
<1>3. Known' = Known
  BY <1>1, <1>2 DEF Known
<1>4. Builds(c)' /\ Uses(c)'
  BY <1>1, <1>2, CommandsGoOn DEF CommandInv, CommandOK, Building, Uses
<1>5. ASSUME NEW d \in Cmds
      PROVE  /\ Builds(d)' = Builds(d) /\ cmd'[d].on = cmd[d].on /\ Uses(d)' = Uses(d)
             /\ \A l : Serves(l, d)' = Serves(l, d)
  <2>1. CASE d = c
    BY <1>1, <1>2, <1>4, <2>1 DEF Serves
  <2>2. CASE d # c
    BY <1>2, <2>2, SameCommand
  <2> QED BY <2>1, <2>2
<1>6. \A l \in Known : c \notin l.pids /\ l.by \in Cmds /\ l.slot \in Slots /\ l.slot # 0
                       /\ l.pids \in SUBSET Cmds
  BY <1>1, KnownTyped DEF LeaseInv, LeaseOK, At, Early
<1>7. \A s \in Slots : <<s, c>> \notin running
  BY <1>1 DEF LeaseInv, StackOK, At, Early
<1>8. \A l \in Known' : LeaseOK(l)'
  <2> SUFFICES ASSUME NEW l \in Known PROVE LeaseOK(l)'
    BY <1>3
  <2>1. LeaseOK(l)
    BY DEF LeaseInv
  <2> QED BY <1>1, <1>2, <1>5, <1>6, <2>1 DEF LeaseOK, At
<1>9. OneEffort' /\ OneLease'
  BY <1>1, <1>3 DEF LeaseInv, OneEffort, OneLease
<1>10. ASSUME NEW s \in Slots, NEW b \in Cmds, <<s, b>> \in running'
       PROVE  StackOK(s, b)' /\ StackIsLeased(s, b)'
  <2>1. CASE b = c
    <3>1. s = cmd[c].slot
      BY <1>1, <1>7, <1>10, <2>1
    <3> QED BY <1>2, <2>1, <3>1 DEF StackOK, StackIsLeased, At, Early
  <2>2. CASE b # c
    <3>1. <<s, b>> \in running
      BY <1>1, <1>10, <2>2
    <3>2. StackOK(s, b) /\ StackIsLeased(s, b) /\ cmd'[b] = cmd[b]
      BY <1>2, <2>2, <3>1 DEF LeaseInv
    <3>3. b \notin crossed' => b \notin crossed
      BY <1>10, StillApart
    <3> QED BY <1>1, <3>2, <3>3 DEF StackOK, StackIsLeased, At, Leased
  <2> QED BY <2>1, <2>2
<1>11. SlotsAreLeased'
  BY <1>1, <1>5, StillApart DEF LeaseInv, SlotsAreLeased
<1>12. ASSUME NEW p \in Procs PROVE StopsAll(p)'
  <2> SUFFICES ASSUME NEW l \in cmd[p].todo, NEW k \in leases, k.by = l.by, k.slot = l.slot,
                      NEW b \in k.pids, b \notin crossed', <<k.slot, b>> \in running'
               PROVE  b \in l.pids
    BY <1>1, <1>2 DEF StopsAll
  <2>1. b \in Cmds /\ b # c /\ k.slot \in Slots
    BY <1>6 DEF Known
  <2>2. <<k.slot, b>> \in running /\ b \notin crossed
    BY <1>1, <2>1, StillApart
  <2> QED BY <2>2 DEF LeaseInv, StopsAll
<1>13. ASSUME NEW d \in Cmds PROVE StartsFresh(d)'
  <2> SUFFICES ASSUME NEW l \in leases, Uses(d), Serves(l, d), NEW b \in l.pids,
                      <<l.slot, b>> \in running', b \notin crossed'
               PROVE  FALSE
    BY <1>1, <1>5 DEF StartsFresh
  <2>1. b \in Cmds /\ b # c /\ l.slot \in Slots
    BY <1>6 DEF Known
  <2>2. <<l.slot, b>> \in running /\ b \notin crossed
    BY <1>1, <2>1, StillApart
  <2> QED BY <2>2 DEF LeaseInv, StartsFresh
<1>14. ASSUME NEW l \in leases PROVE HasItAlone(l)'
  <2> SUFFICES ASSUME l.by \notin crossed', Owns(l)', NEW b \in Cmds,
                      <<l.slot, b>> \in running', b \notin crossed'
               PROVE  b = l.by
    BY DEF HasItAlone
  <2>1. l.by \in Cmds /\ l.slot \in Slots /\ l.slot # 0 /\ c \notin l.pids
    BY <1>6 DEF Known
  <2>2. Holds(l)' => Holds(l) /\ Uses(l.by)
    BY <1>1, <1>2, <1>5, <2>1 DEF Holds, Uses, At
  <2>3. Owns(l)
    BY <1>1, <2>1, <2>2 DEF Owns
  <2>4. l.by \notin crossed
    BY <1>5, <2>1, <2>2, StillApart DEF Owns
  <2>5. b \notin crossed
    BY <2>1, StillApart
  <2>6. CASE b # c
    <3>1. <<l.slot, b>> \in running
      BY <1>1, <2>6
    <3> QED BY <2>3, <2>4, <2>5, <3>1 DEF LeaseInv, HasItAlone
  <2>7. ASSUME b = c, l.by # c PROVE FALSE
    <3>1. l.slot = cmd[c].slot
      BY <1>1, <1>7, <2>1, <2>7
    <3>2. PICK m \in leases : Serves(m, c)
      BY <1>1, <2>5, <2>7 DEF LeaseInv, SlotsAreLeased
    <3>3. Serves(l, c)
      BY <3>1, <3>2 DEF LeaseInv, OneLease, Serves
    <3>4. ~ Holds(l)
      <4> SUFFICES ASSUME Holds(l) PROVE FALSE
        OBVIOUS
      <4>1. Uses(l.by)
        BY <2>1 DEF Holds, Uses
      <4>2. Builds(l.by) /\ l.effort \in cmd[l.by].on
        BY <2>1, <4>1, UsesBuilds DEF LeaseInv, LeaseOK, Known
      <4> QED BY <1>1, <2>1, <2>4, <2>7, <3>3, <4>2, Meetings DEF Serves
    <3>5. l.by \in l.pids /\ <<l.slot, l.by>> \in running
      BY <2>3, <3>4 DEF Owns
    <3> QED BY <1>1, <2>4, <3>3, <3>5 DEF LeaseInv, StartsFresh
  <2> QED BY <2>6, <2>7
<1> QED BY <1>1, <1>8, <1>9, <1>10, <1>11, <1>12, <1>13, <1>14 DEF LeaseInv

\* The pids go into the lease that was spawned on; and if there is none, the command has
\* met somebody.
LEMMA RecordsNothing ==
    ASSUME CommandInv, LeaseInv, Next, NEW c \in Cmds, Record(c), Target(c) = {}
    PROVE  LeaseInv'
<1>1. Uses(c)
  BY DEF CommandInv, CommandOK, Record, At, Uses
<1>2. c \in crossed
  BY <1>1 DEF LeaseInv, SlotsAreLeased, Target, Serves
<1>3. Throw(c) /\ UNCHANGED <<leases, running>>
  BY DEF Record
<1> QED BY <1>2, <1>3, QuietThrow

LEMMA Records ==
    ASSUME CommandInv, LeaseInv, Next, NEW c \in Cmds, Record(c), Target(c) # {}
    PROVE  LeaseInv'
<1> USE CmdFacts
<1> DEFINE R(l) == IF Serves(l, c) THEN [l EXCEPT !.pids = {c}] ELSE l
<1>1. /\ cmd \in [Procs -> Commands] /\ cmd[c] \in Commands /\ At(c, "record") /\ EffortsTypeOK
      /\ Uses(c) /\ Builds(c) /\ UNCHANGED running
  BY DEF CommandInv, EffortsTypeOK, CommandOK, Record, At, Uses, Building
<1>2. PICK label \in {"activate", "touch"} : Goto(c, label)
  BY DEF Record
<1>3. /\ cmd'[c].pc = label /\ cmd'[c].on = cmd[c].on
      /\ \A p \in Procs : cmd'[p].todo = cmd[p].todo
      /\ \A p \in Procs \ {c} : cmd'[p] = cmd[p]
  BY <1>1, <1>2 DEF Goto, Commands
<1>4. Builds(c)' /\ ~ Uses(c)'
  BY <1>2, <1>3, CommandsGoOn DEF CommandInv, CommandOK, Building, Uses
<1>5. leases' = {R(l) : l \in leases}
  BY DEF Record, Target, Serves
<1>6. ASSUME NEW l \in leases
      PROVE  /\ R(l).by = l.by /\ R(l).slot = l.slot /\ R(l).effort = l.effort
             /\ R(l).pids = IF Serves(l, c) THEN {c} ELSE l.pids
  BY <1>1 DEF EffortsTypeOK, Leases
<1> HIDE DEF R
<1>7. ASSUME NEW k \in leases'
      PROVE  \E l \in leases : /\ k.by = l.by /\ k.slot = l.slot /\ k.effort = l.effort
                               /\ k.pids = IF Serves(l, c) THEN {c} ELSE l.pids
  BY <1>5, <1>6
<1>8. ASSUME NEW l \in leases
      PROVE  \E k \in leases' : /\ k.by = l.by /\ k.slot = l.slot /\ k.effort = l.effort
                                /\ k.pids = IF Serves(l, c) THEN {c} ELSE l.pids
  BY <1>5, <1>6
<1>9. ASSUME NEW d \in Cmds, d # c
      PROVE  /\ Builds(d)' = Builds(d) /\ Uses(d)' = Uses(d) /\ \A l : Serves(l, d)' = Serves(l, d)
  BY <1>3, <1>9, SameCommand
<1>10. ASSUME NEW k \in Known'
       PROVE  \E l \in Known : /\ k.by = l.by /\ k.effort = l.effort
                               /\ k.pids = l.pids \/ k.pids = {c}
  <2>1. CASE k \in leases'
    BY <1>7, <2>1 DEF Known
  <2>2. CASE \E p \in Procs : k \in cmd'[p].todo
    BY <1>3, <2>2 DEF Known
  <2> QED BY <2>1, <2>2 DEF Known
<1>11. \A k \in Known' : LeaseOK(k)'
  <2> SUFFICES ASSUME NEW k \in Known' PROVE LeaseOK(k)'
    OBVIOUS
  <2>1. PICK l \in Known : k.by = l.by /\ k.effort = l.effort /\ (k.pids = l.pids \/ k.pids = {c})
    BY <1>10
  <2>2. LeaseOK(l) /\ l.by \in Cmds /\ l.pids \in SUBSET Cmds
    BY <1>1, KnownTyped DEF LeaseInv
  <2>3. ~ At(k.by, "none")'
    BY <1>1, <1>3, <2>1, <2>2 DEF LeaseOK, At
  <2>4. Builds(k.by)' => k.effort \in cmd'[k.by].on
    BY <1>1, <1>3, <1>9, <2>1, <2>2 DEF LeaseOK
  <2>5. ASSUME NEW b \in k.pids PROVE cmd'[b].pc \notin Early \union {"record", "lost"}
    BY <1>1, <1>3, <2>1, <2>2 DEF LeaseOK, Early
  <2> QED BY <2>3, <2>4, <2>5 DEF LeaseOK
<1>12. OneEffort'
  BY <1>10 DEF LeaseInv, OneEffort
<1>13. OneLease'
  <2> SUFFICES ASSUME NEW k \in leases', NEW n \in leases', k.slot = n.slot
               PROVE  k.by = n.by /\ k.effort = n.effort /\ k.pids = n.pids
    BY DEF OneLease
  <2>1. PICK l \in leases : /\ k.by = l.by /\ k.slot = l.slot /\ k.effort = l.effort
                            /\ k.pids = IF Serves(l, c) THEN {c} ELSE l.pids
    BY <1>7
  <2>2. PICK m \in leases : /\ n.by = m.by /\ n.slot = m.slot /\ n.effort = m.effort
                            /\ n.pids = IF Serves(m, c) THEN {c} ELSE m.pids
    BY <1>7
  <2>3. l.by = m.by /\ l.effort = m.effort /\ l.pids = m.pids /\ l.slot = m.slot
    BY <2>1, <2>2 DEF LeaseInv, OneLease
  <2> QED BY <2>1, <2>2, <2>3 DEF Serves
<1>14. ASSUME NEW s \in Slots, NEW b \in Cmds, <<s, b>> \in running'
       PROVE  StackOK(s, b)' /\ StackIsLeased(s, b)'
  <2>1. StackOK(s, b) /\ StackIsLeased(s, b)
    BY <1>1, <1>14 DEF LeaseInv
  <2>2. b \notin crossed' => b \notin crossed
    BY <1>14, StillApart
  <2>3. CASE b = c
    <3>1. s = cmd[c].slot
      BY <1>1, <2>1, <2>3 DEF StackOK
    <3>2. PICK l \in leases : Serves(l, c)
      BY DEF Target, Serves
    <3>3. Leased(s, b)'
      BY <1>8, <2>3, <3>1, <3>2 DEF Leased, Serves
    <3> QED BY <1>2, <1>3, <2>3, <3>3 DEF StackOK, StackIsLeased, At, Early
  <2>4. CASE b # c
    <3>1. ASSUME b \notin crossed, Leased(s, b) PROVE Leased(s, b)'
      <4>1. PICK l \in leases : l.slot = s /\ b \in l.pids
        BY <3>1 DEF Leased
      <4>2. ~ Serves(l, c)
        BY <1>1, <1>14, <3>1, <4>1 DEF LeaseInv, StartsFresh
      <4> QED BY <1>8, <4>1, <4>2 DEF Leased
    <3> QED BY <1>3, <2>1, <2>2, <2>4, <3>1 DEF StackOK, StackIsLeased, At
  <2> QED BY <2>3, <2>4
<1>15. SlotsAreLeased'
  <2> SUFFICES ASSUME NEW d \in Cmds, d \notin crossed', Uses(d)'
               PROVE  \E k \in leases' : Serves(k, d)'
    BY DEF SlotsAreLeased
  <2>1. d # c /\ d \notin crossed
    BY <1>4, StillApart
  <2>2. PICK l \in leases : Serves(l, d)
    BY <1>9, <2>1 DEF LeaseInv, SlotsAreLeased
  <2>3. PICK k \in leases' : k.slot = l.slot /\ k.effort = l.effort
    BY <1>8
  <2>4. Serves(k, d)
    BY <2>2, <2>3 DEF Serves
  <2> QED BY <1>9, <2>1, <2>4
<1>16. ASSUME NEW p \in Procs PROVE StopsAll(p)'
  <2> SUFFICES ASSUME NEW l \in cmd[p].todo, NEW k \in leases', k.by = l.by, k.slot = l.slot,
                      NEW b \in k.pids, b \notin crossed', <<k.slot, b>> \in running
               PROVE  b \in l.pids
    BY <1>1, <1>3 DEF StopsAll
  <2>1. PICK m \in leases : /\ k.by = m.by /\ k.slot = m.slot /\ k.effort = m.effort
                            /\ k.pids = IF Serves(m, c) THEN {c} ELSE m.pids
    BY <1>7
  <2>2. b \in Cmds /\ k.slot \in Slots
    BY <1>1, <2>1, KnownTyped DEF Known
  <2>3. b \notin crossed
    BY <1>1, <2>2, StillApart
  <2>4. CASE ~ Serves(m, c)
    BY <2>1, <2>3, <2>4 DEF LeaseInv, StopsAll
  <2>5. ASSUME Serves(m, c) PROVE FALSE
    <3>1. b = c /\ m.effort = l.effort
      BY <2>1, <2>5 DEF LeaseInv, OneEffort, Known
    <3> QED BY <1>1, <2>3, <2>5, <3>1, Meetings DEF Serves
  <2> QED BY <2>4, <2>5
<1>17. ASSUME NEW d \in Cmds PROVE StartsFresh(d)'
  <2> SUFFICES ASSUME NEW k \in leases', Uses(d)', Serves(k, d)', NEW b \in k.pids,
                      <<k.slot, b>> \in running, b \notin crossed'
               PROVE  FALSE
    BY <1>1 DEF StartsFresh
  <2>1. PICK m \in leases : /\ k.by = m.by /\ k.slot = m.slot /\ k.effort = m.effort
                            /\ k.pids = IF Serves(m, c) THEN {c} ELSE m.pids
    BY <1>7
  <2>2. b \in Cmds /\ k.slot \in Slots
    BY <1>1, <2>1, KnownTyped DEF Known
  <2>3. b \notin crossed /\ d # c
    BY <1>1, <1>4, <2>2, StillApart
  <2>4. Uses(d) /\ Builds(d) /\ Serves(m, d)
    BY <1>9, <2>1, <2>3, UsesBuilds DEF Serves
  <2>5. CASE ~ Serves(m, c)
    BY <2>1, <2>3, <2>4, <2>5 DEF LeaseInv, StartsFresh
  <2>6. ASSUME Serves(m, c) PROVE FALSE
    BY <1>1, <2>1, <2>3, <2>4, <2>6, Meetings DEF Serves
  <2> QED BY <2>5, <2>6
<1>18. ASSUME NEW k \in leases' PROVE HasItAlone(k)'
  <2> SUFFICES ASSUME k.by \notin crossed', Owns(k)', NEW b \in Cmds,
                      <<k.slot, b>> \in running, b \notin crossed'
               PROVE  b = k.by
    BY <1>1 DEF HasItAlone
  <2>1. PICK m \in leases : /\ k.by = m.by /\ k.slot = m.slot /\ k.effort = m.effort
                            /\ k.pids = IF Serves(m, c) THEN {c} ELSE m.pids
    BY <1>7
  <2>2. k.by \in Cmds /\ k.slot \in Slots /\ k.slot # 0
    BY <1>1, <2>1, KnownTyped DEF Known
  <2>3. Holds(k)' => Holds(m) /\ Uses(k.by)'
    BY <1>2, <1>3, <2>1, <2>2 DEF Holds, Uses
  <2>4. b \notin crossed /\ k.by \notin crossed
    BY <1>1, <2>2, <2>3, StillApart DEF Owns
  <2>5. Owns(m)
    <3>1. CASE Holds(k)'
      BY <2>3, <3>1 DEF Owns
    <3>2. CASE k.by \in k.pids /\ <<k.slot, k.by>> \in running
      BY <1>1, <2>1, <3>2 DEF Owns, Holds, Serves, At
    <3> QED BY <1>1, <3>1, <3>2 DEF Owns
  <2> QED BY <2>1, <2>4, <2>5 DEF LeaseInv, HasItAlone
<1> QED BY <1>11, <1>12, <1>13, <1>14, <1>15, <1>16, <1>17, <1>18 DEF LeaseInv

LEMMA LeasesGoOn ==
    ASSUME CommandInv, LeaseInv, Next PROVE LeaseInv'
<1> USE CmdFacts
<1>1. ASSUME NEW c \in Cmds, Begins(c) PROVE LeaseInv'
  BY <1>1, BeginsLeases
<1>2. ASSUME NEW c \in Cmds, Die(c) PROVE LeaseInv'
  BY <1>2, RunsQuietly
<1>3. ASSUME NEW c \in Cmds, Runs(c) PROVE LeaseInv'
  <2>1. CASE Probe(c)
    BY <2>1, ProbesBusy, ProbesFree
  <2>2. CASE Promote(c)
    BY <2>2, Overlapped, PromotesOn DEF Promote
  <2>3. CASE Record(c)
    BY <2>3, RecordsNothing, Records
  <2> QED BY <1>3, <2>1, <2>2, <2>3, Claims, Spawns, Releases, RunsQuietly DEF Runs
<1>4. ASSUME Reaps PROVE LeaseInv'
  BY <1>4, Releases, OthersQuietly DEF Reaps
<1>5. ASSUME Passes PROVE LeaseInv'
  BY <1>5, OthersQuietly
<1> QED BY <1>1, <1>2, <1>3, <1>4, <1>5 DEF Next, Noting

\* A slot that is owned has one stack that counts.
LEMMA LeasedAlone ==
    ASSUME CommandInv, LeaseInv PROVE StacksAreLeased
<1> SUFFICES ASSUME NEW stack \in running, stack[2] \notin crossed,
                    ~ At(stack[2], "lost"), ~ At(stack[2], "record")
             PROVE  LET its == {l \in leases : stack \in Alive(l)} IN
                    /\ its # {}
                    /\ \A l \in its, other \in running \ {stack} :
                          l.by = stack[2] /\ other[1] = stack[1] => other[2] \in crossed
  BY DEF StacksAreLeased
<1> DEFINE its == {l \in leases : stack \in Alive(l)}
<1>1. PICK s \in Slots, b \in Cmds : stack = <<s, b>>
  BY DEF CommandInv, EffortsTypeOK
<1>2. its # {}
  <2>1. Leased(s, b)
    BY <1>1 DEF LeaseInv, StackIsLeased, At
  <2>2. PICK l \in leases : l.slot = s /\ b \in l.pids
    BY <2>1 DEF Leased
  <2>3. stack \in Alive(l)
    BY <1>1, <2>2 DEF Alive
  <2> QED BY <2>3
<1>3. ASSUME NEW l \in its, NEW other \in running \ {stack}, l.by = stack[2], other[1] = stack[1]
      PROVE  other[2] \in crossed
  <2>1. PICK r \in Slots, a \in Cmds : other = <<r, a>>
    BY DEF CommandInv, EffortsTypeOK
  <2>2. l.slot = s /\ b \in l.pids /\ l \in leases
    BY <1>1 DEF Alive
  <2>3. r = s /\ l.by = b /\ a # b
    BY <1>1, <1>3, <2>1
  <2>4. Owns(l) /\ HasItAlone(l)
    BY <1>1, <2>2, <2>3 DEF Owns, LeaseInv
  <2>5. <<l.slot, a>> \in running
    BY <2>1, <2>2, <2>3
  <2> QED BY <1>1, <2>1, <2>3, <2>4, <2>5 DEF HasItAlone
<1> QED BY <1>2, <1>3

-----------------------------------------------------------------------------

EffortsInv == CommandInv /\ StartsAreOpen /\ OpenEffortsAreApart /\ LeaseInv

LEMMA InitOK == Init => EffortsInv
<1> SUFFICES ASSUME Init PROVE EffortsInv
  OBVIOUS
<1> USE CmdFacts, RecordsTyped
<1>1. /\ \A c \in Cmds : efforts[c] = NoEffort
      /\ \A p \in Procs : cmd[p] = Unbegun
      /\ leases = {} /\ running = {} /\ crossed = {}
  BY DEF Init
<1>2. EffortsTypeOK
  BY DEF Init, EffortsTypeOK
<1>3. \A c \in Cmds : ~ Builds(c) /\ ~ IsOpen(c) /\ ~ Uses(c)
  BY <1>1 DEF Builds, AtWork, IsOpen, Uses
<1>4. \A c \in Cmds : CommandOK(c)
  BY <1>1, <1>3 DEF CommandOK, At, Building
<1>5. ReleasesOnly /\ Met
  BY <1>1, <1>3 DEF ReleasesOnly, Met, Crossing
<1>6. Known = {}
  BY <1>1 DEF Known
<1>7. LeaseInv
  BY <1>1, <1>3, <1>6 DEF LeaseInv, OneEffort, OneLease, SlotsAreLeased, StopsAll, StartsFresh
<1> QED BY <1>2, <1>3, <1>4, <1>5, <1>7
        DEF EffortsInv, CommandInv, StartsAreOpen, OpenEffortsAreApart, Open

LEMMA NextOK == EffortsInv /\ [Next]_vars => EffortsInv'
<1> SUFFICES ASSUME EffortsInv, [Next]_vars PROVE EffortsInv'
  OBVIOUS
<1>1. CASE Next
  BY <1>1, CommandsGoOn, StartsGoOn, EffortsStayApart, LeasesGoOn DEF EffortsInv
<1>2. CASE UNCHANGED vars
  <2> USE <1>2 DEF vars, registry
  <2>1. CommandInv'
    BY DEF EffortsInv, CommandInv, EffortsTypeOK, CommandOK, ReleasesOnly, Met, Crossing,
           Builds, AtWork, At, TearsDown, InArea
  <2>2. (StartsAreOpen /\ OpenEffortsAreApart)'
    BY DEF EffortsInv, StartsAreOpen, OpenEffortsAreApart, Open, IsOpen, Builds, AtWork, At
  <2>3. LeaseInv'
    BY DEF EffortsInv, LeaseInv, Known, LeaseOK, OneEffort, OneLease, StackOK,
           StackIsLeased, Leased,
           SlotsAreLeased, Uses, Serves, StopsAll, StartsFresh, HasItAlone, Owns, Holds,
           Builds, AtWork, At
  <2> QED BY <2>1, <2>2, <2>3 DEF EffortsInv
<1> QED BY <1>1, <1>2

\* Efforts, leases and commands have their types, whatever commands do at once.
THEOREM EffortsTypeCorrect == Spec => []EffortsTypeOK
<1>1. EffortsInv => EffortsTypeOK
  BY DEF EffortsInv, CommandInv
<1> QED BY <1>1, InitOK, NextOK, PTL DEF Spec

\* Nobody else is open on a target, or within one's scopes, whatever is promoted, parked,
\* finished or retired meanwhile, and whoever dies.
THEOREM EffortsAreApart == Spec => []OpenEffortsAreApart
<1>1. EffortsInv => OpenEffortsAreApart
  BY DEF EffortsInv
<1> QED BY <1>1, InitOK, NextOK, PTL DEF Spec

\* What runs is in the lease that will stop it, and whoever claimed a slot has its ports
\* alone, however slots change hands.
THEOREM StacksStayLeased == Spec => []StacksAreLeased
<1>1. EffortsInv => StacksAreLeased
  BY LeasedAlone DEF EffortsInv
<1> QED BY <1>1, InitOK, NextOK, PTL DEF Spec
=============================================================================
