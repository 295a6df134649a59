------------------------- MODULE StoryBrokerProofs -------------------------
(***************************************************************************)
(* Theorems about StoryBroker, for every set of components and of ports,   *)
(* every cap, and any number of requests and restarts.                     *)
(*                                                                         *)
(* The invariant has three parts.  RegistryOK relates records, processes   *)
(* and watchers by the request they are named after; LockOK says what a    *)
(* request holds while it stops or makes an instance; FaithOK is about the *)
(* histories in which nothing was marked for what was not its own.         *)
(***************************************************************************)
EXTENDS StoryBroker, FiniteSetTheorems, TLAPS

Spawns == Requests \union {0}
Statuses == {"none", "starting", "ready", "failed"}
Labels == {"none", "up", "down", "stop", "replace", "create", "reap", "reaplock",
           "reapstop", "assert", "pick", "add", "await", "ended"}
PortNumbers == Ports \union {0}

Records == [n : Spawns, status : Statuses, port : PortNumbers, idle : BOOLEAN]
Processes == [n : Requests, id : Ids, port : PortNumbers,
              bound : BOOLEAN, killed : BOOLEAN, child : BOOLEAN]
AnyWatchers == [id : Ids, n : Requests, adopted : BOOLEAN, saw : Spawns,
                port : PortNumbers, ending : BOOLEAN]
\* Only who watches an adopted instance looks at the record again.
Watchers == {v \in AnyWatchers : v.adopted \/ (v.saw = 0 /\ ~ v.ending)}
Tasks == [id : Ids, n : Spawns, dead : BOOLEAN]
Ops == [pc : Labels, id : Ids \union {"none"}, todo : SUBSET Tasks, port : PortNumbers,
        taken : SUBSET PortNumbers, n : Spawns, at : Tasks \union {Nowhere}]

\* Every variable has its type.
BrokerTypeOK ==
    /\ reg \in [Ids -> Records] /\ procs \in [Ids -> Spawns]
    /\ alive \in SUBSET Processes /\ watching \in SUBSET Watchers
    /\ pending \in [Ids -> Spawns]
    /\ locks \in [Ids -> Seq(Actors)]
    /\ op \in [Actors -> Ops]
    /\ crashes \in Nat /\ mistaken \in BOOLEAN

-----------------------------------------------------------------------------
(* records, processes and watchers *)

\* A request has given its name to a process, or never will.
Spawned(n) == n \in Requests /\ op[n].pc \in {"await", "ended"}

Recorded(i) ==
    /\ reg[i].n = 0 <=> reg[i] = None
    /\ reg[i].status = "none" <=> reg[i].n = 0
    /\ reg[i].n # 0 => Spawned(reg[i].n)
    /\ reg[i].n # 0 /\ procs[i] # 0 => procs[i] = reg[i].n

OneRecord == \A i, j \in Ids : reg[i].n # 0 /\ reg[i].n = reg[j].n => i = j

OneProcess == \A p, q \in alive : p.n = q.n => p = q

OneWatcher == \A w, v \in watching : w.n = v.n => w = v

ProcessOK(p) ==
    /\ Spawned(p.n)
    /\ \A i \in Ids : p.n = reg[i].n => p.id = i /\ p.port = reg[i].port

\* A watcher that has seen another incarnation than its own never sees its own again.
WatcherOK(w) ==
    /\ Spawned(w.n)
    /\ w.saw \notin {0, w.n} => reg[w.id].n # w.n

RegistryOK ==
    /\ \A i \in Ids : Recorded(i)
    /\ OneRecord /\ OneProcess /\ OneWatcher
    /\ \A p \in alive : ProcessOK(p)
    /\ \A w \in watching : WatcherOK(w)

-----------------------------------------------------------------------------
(* locks *)

Makes(r) ==
    \/ op[r].pc \in {"create", "assert", "pick", "add"}
    \/ r # Reaper /\ op[r].pc \in {"reap", "reaplock", "reapstop"}
Stops(r) == op[r].pc \in {"stop", "replace"}
Reaps(r) == op[r].pc \in {"reaplock", "reapstop"}
Works(r) == op[r].pc \in {"up", "down"} \/ Stops(r) \/ Makes(r)

\* What is made has no record yet, and is not among what is reaped for it.
Making(r) ==
    /\ reg[op[r].id] = None
    /\ \A t \in op[r].todo : t.id # op[r].id
    /\ Reaps(r) => op[r].at.id # op[r].id

LockOK(r) ==
    /\ Works(r) => op[r].id \in Ids
    /\ At(r, "none") \/ op[r].pc \in {"up", "down"} \/ Stops(r) => op[r].todo = {}
    /\ Stops(r) \/ Makes(r) => Holds(r, op[r].id)
    /\ Stops(r) => reg[op[r].id].n \in {0, op[r].n}
    /\ Reaps(r) => op[r].at \in Tasks
    /\ At(r, "reapstop") => /\ Holds(r, op[r].at.id)
                            /\ reg[op[r].at.id].n \in {0, op[r].n}
    /\ Makes(r) => Making(r)
    /\ At(r, "down") => \/ reg[op[r].id].n \in {0, op[r].n}
                        \/ procs[op[r].id] # 0
    /\ r = Reaper => op[r].pc \in {"none", "reap", "reaplock", "reapstop"}

-----------------------------------------------------------------------------
(* what a daemon that has made no mistake knows *)

Kept(p) == p.killed \/ reg[p.id].n = p.n

Faithful(p) ==
    p.n = reg[p.id].n => /\ reg[p.id].status = "failed" => p.killed
                         /\ reg[p.id].status = "ready" => p.bound

Boot(w) == ~ w.ending /\ w.n = reg[w.id].n => reg[w.id].status = "starting"

FaithOK ==
    ~ mistaken => /\ \A p \in alive : Kept(p) /\ Faithful(p)
                  /\ \A w \in watching : Boot(w)

BrokerInv ==
    /\ BrokerTypeOK
    /\ RegistryOK
    /\ \A r \in Actors : LockOK(r)
    /\ FaithOK

-----------------------------------------------------------------------------
(* the types *)

\* The reaper is not a request, and no request is called 0.
LEMMA ActorFacts ==
    /\ Reaper = 0 /\ 0 \notin Requests /\ Requests \subseteq Actors /\ Reaper \in Actors
    /\ \A r \in Actors : r # Reaper => r \in Requests
  BY BrokerAssumption DEF Requests, Reaper, Actors

\* The constants the records start from have their types.
LEMMA ConstantsTyped ==
    /\ None \in Records /\ Unbegun \in Ops /\ Ended \in Ops
    /\ Unbegun.pc = "none" /\ Ended.pc = "ended"
  BY DEF None, Unbegun, Ended, Nowhere, Records, Ops, Spawns, Statuses, PortNumbers, Labels

\* What an action does to the process of one request keeps their type.
LEMMA KillTyped ==
  ASSUME BrokerTypeOK, NEW n, Kill(n)
  PROVE  alive' \in SUBSET Processes
<1>1. ASSUME NEW p \in alive PROVE [p EXCEPT !.killed = TRUE] \in Processes
  BY DEF BrokerTypeOK, Processes
<1> QED
  BY <1>1 DEF BrokerTypeOK, Kill

LEMMA DropTyped ==
  ASSUME BrokerTypeOK, NEW i \in Ids, Drop(i)
  PROVE  reg' \in [Ids -> Records]
  BY ConstantsTyped DEF BrokerTypeOK, Drop

LEMMA BecomesTyped ==
  ASSUME BrokerTypeOK, NEW i \in Ids, NEW status \in Statuses, Becomes(i, status)
  PROVE  reg' \in [Ids -> Records]
<1>1. Marked(reg[i], status) \in Records
  BY ConstantsTyped DEF BrokerTypeOK, Records, Marked
<1> QED
  BY <1>1 DEF BrokerTypeOK, Becomes

LEMMA EnqueueTyped ==
  ASSUME BrokerTypeOK, NEW r \in Actors, NEW i \in Ids, Enqueue(r, i)
  PROVE  locks' \in [Ids -> Seq(Actors)]
  BY DEF BrokerTypeOK, Enqueue

LEMMA UnlockTyped ==
  ASSUME BrokerTypeOK, NEW r \in Actors, NEW i \in Ids, Holds(r, i), Unlock(r, i)
  PROVE  locks' \in [Ids -> Seq(Actors)]
  BY DEF BrokerTypeOK, Unlock, Holds

LEMMA IdleTyped == ASSUME BrokerTypeOK PROVE Idle \in SUBSET Tasks
<1>1. ASSUME NEW i \in Ids, NEW dead \in BOOLEAN
      PROVE  [id |-> i, n |-> reg[i].n, dead |-> dead] \in Tasks
  BY DEF BrokerTypeOK, Tasks, Records
<1> QED
  BY <1>1 DEF Idle

\* An up that throws ends, one that adds awaits.
LEMMA Refusal ==
  ASSUME BrokerTypeOK, NEW r \in Actors, Add(r), Throw(r)
  PROVE  UNCHANGED <<reg, alive, procs, watching, pending, crashes, mistaken>>
<1>1. op'[r] = Ended
  BY DEF BrokerTypeOK, Throw
<1>2. op'[r] = [Unbegun EXCEPT !.pc = "await", !.n = r] \/ AddRefuses
  BY DEF BrokerTypeOK, Add
<1>3. AddRefuses
  BY <1>1, <1>2 DEF Unbegun, Ended
<1> QED
  BY <1>3 DEF Add

\* The types are inductive.
LEMMA TypesHold ==
  ASSUME BrokerTypeOK, \A r \in Actors : LockOK(r), [Next]_vars
  PROVE  BrokerTypeOK'
<1> USE ActorFacts, ConstantsTyped
<1>1. CASE UNCHANGED vars
  BY <1>1 DEF vars, memory, BrokerTypeOK
<1>2. ASSUME NEW r \in Requests, NEW i \in Ids, Up(r, i) PROVE BrokerTypeOK'
  <2>1. locks' \in [Ids -> Seq(Actors)]
    BY <1>2, EnqueueTyped DEF Up
  <2>2. [op[r] EXCEPT !.pc = "up", !.id = i, !.n = 0] \in Ops
    BY DEF BrokerTypeOK, Ops, Labels, Spawns
  <2>3. op' \in [Actors -> Ops]
    BY <1>2, <2>2 DEF BrokerTypeOK, Up, Begin
  <2> QED
    BY <1>2, <2>1, <2>3 DEF BrokerTypeOK, Up
<1>3. ASSUME NEW r \in Requests, NEW i \in Ids, Down(r, i) PROVE BrokerTypeOK'
  <2>1. locks' \in [Ids -> Seq(Actors)]
    BY <1>3, EnqueueTyped DEF Down
  <2>2. [op[r] EXCEPT !.pc = "down", !.id = i, !.n = reg[i].n] \in Ops
    BY DEF BrokerTypeOK, Ops, Labels, Spawns, Records
  <2>3. op' \in [Actors -> Ops]
    BY <1>3, <2>2 DEF BrokerTypeOK, Down, Begin
  <2> QED
    BY <1>3, <2>1, <2>3 DEF BrokerTypeOK, Down
<1>4. ASSUME NEW r \in Actors, Reuse(r) PROVE BrokerTypeOK'
  <2> DEFINE i == op[r].id
  <2>1. i \in Ids
    BY <1>4 DEF Reuse, LockOK, Works, At
  <2>2. locks' \in [Ids -> Seq(Actors)]
    BY <1>4, <2>1, UnlockTyped DEF Reuse, Return
  <2>3. reg' \in [Ids -> Records]
    BY <1>4, <2>1 DEF BrokerTypeOK, Reuse, Touch, Records
  <2>4. [Unbegun EXCEPT !.pc = "await", !.n = pending[i]] \in Ops
    BY <2>1 DEF BrokerTypeOK, Ops, Labels
  <2> QED
    BY <1>4, <2>1, <2>2, <2>3, <2>4 DEF BrokerTypeOK, Reuse, Return
<1>5. ASSUME NEW r \in Actors, Replace(r) \/ StopForDown(r) PROVE BrokerTypeOK'
  <2> DEFINE i == op[r].id
  <2>1. i \in Ids
    BY <1>5 DEF Replace, StopForDown, LockOK, Works, At
  <2>2. PICK n \in Spawns, label \in Labels : StopFor(r, n, label)
    BY <1>5, <2>1 DEF BrokerTypeOK, Replace, StopForDown, Records, Ops, Labels
  <2>3. alive' \in SUBSET Processes
    BY <2>2, KillTyped DEF StopFor
  <2>4. [op[r] EXCEPT !.pc = label, !.n = Victim(i, n)] \in Ops
    BY <2>1 DEF BrokerTypeOK, Ops, Victim
  <2> QED
    BY <2>2, <2>3, <2>4 DEF BrokerTypeOK, StopFor
<1>6. ASSUME NEW r \in Actors, Stopped(r) PROVE BrokerTypeOK'
  <2> DEFINE i == op[r].id
  <2>1. i \in Ids /\ Holds(r, i)
    BY <1>6 DEF Stopped, LockOK, Works, Stops
  <2>2. reg' \in [Ids -> Records] /\ procs' \in [Ids -> Spawns]
    BY <1>6, <2>1, DropTyped DEF BrokerTypeOK, Stopped, Forget, Spawns
  <2>3. locks' \in [Ids -> Seq(Actors)]
    BY <1>6, <2>1, UnlockTyped DEF Stopped, BrokerTypeOK
  <2>4. [op[r] EXCEPT !.pc = "create", !.n = 0] \in Ops
    BY DEF BrokerTypeOK, Ops, Labels, Spawns
  <2>5. op' \in [Actors -> Ops]
    BY <1>6, <2>4 DEF BrokerTypeOK, Stopped
  <2> QED
    BY <1>6, <2>2, <2>3, <2>5 DEF BrokerTypeOK, Stopped
<1>7. ASSUME NEW r \in Actors, MakeWay(r) PROVE BrokerTypeOK'
  <2>1. reg' \in [Ids -> Records]
    BY <1>7, DropTyped DEF MakeWay, LockOK, Works, At
  <2>2. [op[r] EXCEPT !.pc = "create"] \in Ops
    BY DEF BrokerTypeOK, Ops, Labels
  <2> QED
    BY <1>7, <2>1, <2>2 DEF BrokerTypeOK, MakeWay, Goto
<1>8. ASSUME NEW r \in Actors, Create(r) PROVE BrokerTypeOK'
  <2>1. Idle \in SUBSET Tasks
    BY IdleTyped
  <2>2. PICK label \in Labels, todo \in SUBSET Tasks :
          op' = [op EXCEPT ![r].pc = label, ![r].todo = todo]
    <3>1. CASE IsFull
      BY <1>8, <2>1, <3>1 DEF Create, Labels
    <3>2. CASE ~ IsFull
      BY <1>8, <3>2 DEF Create, Labels
    <3> QED BY <3>1, <3>2
  <2>3. op \in [Actors -> Ops] /\ [op[r] EXCEPT !.pc = label, !.todo = todo] \in Ops
    BY DEF BrokerTypeOK, Ops
  <2>4. op' \in [Actors -> Ops]
    BY <2>2, <2>3
  <2> QED
    BY <1>8, <2>4 DEF BrokerTypeOK, Create
<1>9. ASSUME NEW r \in Actors, AssertCapacity(r) \/ Pick(r) \/ Add(r) PROVE BrokerTypeOK'
  <2> DEFINE i == op[r].id
  <2>1. i \in Ids /\ Holds(r, i)
    BY <1>9 DEF AssertCapacity, Pick, Add, LockOK, Works, Makes, At
  <2>2. CASE Throw(r) /\ UNCHANGED <<reg, alive, procs, watching, pending, crashes, mistaken>>
    <3>1. locks' \in [Ids -> Seq(Actors)]
      BY <2>1, <2>2, UnlockTyped DEF Throw, Unwind
    <3> QED
      BY <2>2, <3>1 DEF BrokerTypeOK, Throw
  <2>3. CASE AssertCapacity(r) /\ ~ Throw(r)
    <3>1. PortsInUse \in SUBSET PortNumbers
      BY DEF BrokerTypeOK, PortsInUse, Active, Records
    <3>2. [op[r] EXCEPT !.pc = "pick", !.taken = PortsInUse] \in Ops
      BY <3>1 DEF BrokerTypeOK, Ops, Labels
    <3> QED
      BY <2>3, <3>2 DEF BrokerTypeOK, AssertCapacity
  <2>4. CASE Pick(r) /\ ~ Throw(r)
    <3>1. PICK port \in Ports : op' = [op EXCEPT ![r].pc = "add", ![r].port = port]
      BY <2>4 DEF Pick, FreePorts
    <3>2. [op[r] EXCEPT !.pc = "add", !.port = port] \in Ops
      BY DEF BrokerTypeOK, Ops, Labels, PortNumbers
    <3> QED
      BY <2>4, <3>1, <3>2 DEF BrokerTypeOK, Pick
  <2>5. CASE Add(r) /\ ~ Throw(r)
    <3>1. r \in Requests
      BY <2>5 DEF Add, LockOK, At
    <3>2. op[r].port \in PortNumbers
      BY DEF BrokerTypeOK, Ops
    <3>3. [n |-> r, status |-> "starting", port |-> op[r].port, idle |-> FALSE] \in Records
      BY <3>1, <3>2 DEF Records, Spawns, Statuses
    <3>4. [n |-> r, id |-> i, port |-> op[r].port,
           bound |-> FALSE, killed |-> FALSE, child |-> TRUE] \in Processes
      BY <2>1, <3>1, <3>2 DEF Processes
    <3>5. Watcher(i, r, FALSE) \in Watchers
      BY <2>1, <3>1 DEF Watcher, Watchers, AnyWatchers, Spawns, PortNumbers
    <3>6. [Unbegun EXCEPT !.pc = "await", !.n = r] \in Ops
      BY <3>1 DEF Ops, Labels, Spawns
    <3>7. locks' \in [Ids -> Seq(Actors)]
      BY <2>1, <2>5, UnlockTyped DEF Add
    <3>8. r \in Spawns
      BY <3>1 DEF Spawns
    <3> QED
      BY <2>5, <3>3, <3>4, <3>5, <3>6, <3>7, <3>8 DEF BrokerTypeOK, Add
  <2>6. AssertCapacity(r) /\ Throw(r) =>
          UNCHANGED <<reg, alive, procs, watching, pending, crashes, mistaken>>
    BY DEF AssertCapacity
  <2>7. Pick(r) /\ Throw(r) =>
          UNCHANGED <<reg, alive, procs, watching, pending, crashes, mistaken>>
    BY DEF Pick
  <2>8. Add(r) /\ Throw(r) =>
          UNCHANGED <<reg, alive, procs, watching, pending, crashes, mistaken>>
    BY Refusal
  <2> QED
    BY <1>9, <2>2, <2>3, <2>4, <2>5, <2>6, <2>7, <2>8
<1>10. ASSUME NEW r \in Actors, Awaited(r) PROVE BrokerTypeOK'
  BY <1>10 DEF BrokerTypeOK, Awaited
<1>11. CASE Tick
  <2>1. Idle \in SUBSET Tasks
    BY IdleTyped
  <2>2. [op[Reaper] EXCEPT !.pc = "reap", !.todo = Idle] \in Ops
    BY <2>1 DEF BrokerTypeOK, Ops, Labels
  <2> QED
    BY <1>11, <2>2 DEF BrokerTypeOK, Tick
<1>12. ASSUME NEW r \in Actors, ReapNext(r) PROVE BrokerTypeOK'
  <2>1. CASE op[r].todo = {}
    <3>1. [op[r] EXCEPT !.pc = "assert", !.at = Nowhere] \in Ops
      BY DEF BrokerTypeOK, Ops, Labels
    <3> QED
      BY <1>12, <2>1, <3>1 DEF BrokerTypeOK, ReapNext
  <2>2. CASE op[r].todo # {}
    <3>1. PICK t \in op[r].todo :
             /\ Enqueue(r, t.id)
             /\ op' = [op EXCEPT ![r].pc = "reaplock", ![r].todo = @ \ {t}, ![r].at = t]
      BY <1>12, <2>2 DEF ReapNext
    <3>2. t \in Tasks /\ t.id \in Ids
      BY DEF BrokerTypeOK, Ops, Tasks
    <3>3. [op[r] EXCEPT !.pc = "reaplock", !.todo = op[r].todo \ {t}, !.at = t] \in Ops
      BY <3>2 DEF BrokerTypeOK, Ops, Labels
    <3>4. locks' \in [Ids -> Seq(Actors)]
      BY <3>1, <3>2, EnqueueTyped
    <3> QED
      BY <1>12, <3>1, <3>3, <3>4 DEF BrokerTypeOK, ReapNext
  <2> QED
    BY <2>1, <2>2
<1>13. ASSUME NEW r \in Actors, ReapOne(r) PROVE BrokerTypeOK'
  <2> DEFINE t == op[r].at
  <2>1. t \in Tasks /\ t.id \in Ids /\ t.n \in Spawns /\ Holds(r, t.id)
    BY <1>13 DEF ReapOne, LockOK, Reaps, At, Tasks
  <2>2. CASE ~ t.dead /\ StillIdle(t)
    <3>1. alive' \in SUBSET Processes
      BY <1>13, <2>2, KillTyped DEF ReapOne
    <3>2. PICK n \in Spawns : op' = [op EXCEPT ![r].pc = "reapstop", ![r].n = n]
      <4>1. Victim(t.id, t.n) \in Spawns
        BY <2>1 DEF BrokerTypeOK, Victim
      <4>2. op' = [op EXCEPT ![r].pc = "reapstop", ![r].n = Victim(t.id, t.n)]
        BY <1>13, <2>2 DEF ReapOne
      <4> QED
        BY <4>1, <4>2
    <3>3. op \in [Actors -> Ops] /\ [op[r] EXCEPT !.pc = "reapstop", !.n = n] \in Ops
      BY DEF BrokerTypeOK, Ops, Labels
    <3>4. op' \in [Actors -> Ops]
      BY <3>2, <3>3
    <3> QED
      BY <1>13, <2>2, <3>1, <3>4 DEF BrokerTypeOK, ReapOne
  <2>3. CASE ~ (~ t.dead /\ StillIdle(t))
    <3>1. reg' \in [Ids -> Records] /\ mistaken' \in BOOLEAN
      BY <1>13, <2>1, <2>3, DropTyped DEF BrokerTypeOK, ReapOne, Mistakes
    <3>2. locks' \in [Ids -> Seq(Actors)]
      BY <1>13, <2>1, <2>3, UnlockTyped DEF ReapOne
    <3>3. [op[r] EXCEPT !.pc = "reap"] \in Ops
      BY DEF BrokerTypeOK, Ops, Labels
    <3> QED
      BY <1>13, <2>3, <3>1, <3>2, <3>3 DEF BrokerTypeOK, ReapOne, Goto
  <2> QED
    BY <2>2, <2>3
<1>14. ASSUME NEW r \in Actors, ReapStopped(r) PROVE BrokerTypeOK'
  <2> DEFINE i == op[r].at.id
  <2>1. i \in Ids /\ Holds(r, i)
    BY <1>14 DEF ReapStopped, LockOK, Reaps, At, Tasks
  <2>2. reg' \in [Ids -> Records] /\ procs' \in [Ids -> Spawns]
    BY <1>14, <2>1, DropTyped DEF BrokerTypeOK, ReapStopped, Forget, Spawns
  <2>3. locks' \in [Ids -> Seq(Actors)]
    BY <1>14, <2>1, UnlockTyped DEF ReapStopped
  <2>4. [op[r] EXCEPT !.pc = "reap", !.n = 0] \in Ops
    BY DEF BrokerTypeOK, Ops, Labels, Spawns
  <2> QED
    BY <1>14, <2>2, <2>3, <2>4 DEF BrokerTypeOK, ReapStopped
<1>15. ASSUME NEW p \in alive, Bind(p) PROVE BrokerTypeOK'
  <2>1. [p EXCEPT !.bound = TRUE] \in Processes
    BY DEF BrokerTypeOK, Processes
  <2> QED
    BY <1>15, <2>1 DEF BrokerTypeOK, Bind, memory
<1>16. ASSUME NEW p \in alive, Exit(p) PROVE BrokerTypeOK'
  <2>1. p.id \in Ids
    BY DEF BrokerTypeOK, Processes
  <2>2. reg' \in [Ids -> Records] /\ mistaken' \in BOOLEAN
    BY <1>16, <2>1, BecomesTyped DEF BrokerTypeOK, Exit, Mistakes, Statuses
  <2> QED
    BY <1>16, <2>2 DEF BrokerTypeOK, Exit, memory
<1>17. ASSUME NEW w \in watching, Watches(w) PROVE BrokerTypeOK'
  <2>1. w \in Watchers /\ w.id \in Ids /\ w.n \in Requests
    BY DEF BrokerTypeOK, Watchers, AnyWatchers
  <2>2. ASSUME Unwatch(w) PROVE watching' \in SUBSET Watchers /\ pending' \in [Ids -> Spawns]
    BY <2>1, <2>2 DEF BrokerTypeOK, Unwatch, Spawns
  <2>3. CASE Ready(w)
    BY <2>1, <2>2, <2>3, BecomesTyped DEF BrokerTypeOK, Ready, Mistakes, Statuses
  <2>4. CASE Fails(w)
    BY <2>1, <2>2, <2>4, BecomesTyped, KillTyped DEF BrokerTypeOK, Fails, Mistakes, Statuses
  <2>5. CASE AdoptedPolls(w)
    <3>1. [w EXCEPT !.saw = reg[w.id].n, !.port = reg[w.id].port] \in Watchers
      BY <2>1, <2>5 DEF BrokerTypeOK, Watchers, AnyWatchers, Records, AdoptedPolls
    <3> QED
      BY <2>1, <2>2, <2>5, <3>1, DropTyped DEF BrokerTypeOK, AdoptedPolls
  <2>6. CASE AdoptedReady(w)
    BY <2>1, <2>2, <2>6, BecomesTyped DEF BrokerTypeOK, AdoptedReady, Statuses
  <2>7. CASE AdoptedFails(w)
    <3>1. [w EXCEPT !.ending = TRUE] \in Watchers
      <4>1. w.adopted
        BY <2>1, <2>7 DEF Watchers, AdoptedFails
      <4>2. [w EXCEPT !.ending = TRUE] \in AnyWatchers
        BY <2>1 DEF Watchers, AnyWatchers
      <4>3. [w EXCEPT !.ending = TRUE].adopted
        BY <2>1, <4>1 DEF Watchers, AnyWatchers
      <4> QED
        BY <4>2, <4>3 DEF Watchers
    <3>2. reg' \in [Ids -> Records] /\ mistaken' \in BOOLEAN
      BY <2>1, <2>7, BecomesTyped DEF BrokerTypeOK, AdoptedFails, Mistakes, Statuses
    <3>3. alive' \in SUBSET Processes
      BY <2>7, KillTyped DEF BrokerTypeOK, AdoptedFails
    <3>4. watching' \in SUBSET Watchers /\ pending' \in [Ids -> Spawns]
      BY <2>2, <2>7, <3>1 DEF BrokerTypeOK, AdoptedFails
    <3> QED
      BY <2>7, <3>2, <3>3, <3>4 DEF BrokerTypeOK, AdoptedFails
  <2>8. CASE AdoptedLeaves(w)
    BY <2>2, <2>8 DEF BrokerTypeOK, AdoptedLeaves
  <2> QED
    BY <1>17, <2>3, <2>4, <2>5, <2>6, <2>7, <2>8 DEF Watches
<1>18. ASSUME NEW i \in Ids, Age(i) PROVE BrokerTypeOK'
  <2>1. [reg[i] EXCEPT !.idle = TRUE] \in Records
    BY DEF BrokerTypeOK, Records
  <2> QED
    BY <1>18, <2>1 DEF BrokerTypeOK, Age, memory
<1>19. CASE Restart
  <2>1. \A i \in Ids : [reg[i] EXCEPT !.status = "ready"] \in Records
    BY DEF BrokerTypeOK, Records, Statuses
  <2>2. reg' \in [Ids -> Records]
    BY <1>19, <2>1 DEF BrokerTypeOK, Restart
  <2>3. \A p \in alive : [p EXCEPT !.child = FALSE] \in Processes
    BY DEF BrokerTypeOK, Processes
  <2>4. alive' \in SUBSET Processes
    BY <1>19, <2>3 DEF Restart
  <2>5. \A i \in Ids : Boots(i) => reg[i].n \in Requests
    BY DEF Boots, Runs, BrokerTypeOK, Processes
  <2>6. \A i \in Ids : Boots(i) => Watcher(i, reg[i].n, TRUE) \in Watchers
    BY <2>5 DEF Watcher, Watchers, AnyWatchers, Spawns, PortNumbers
  <2>7. watching' \in SUBSET Watchers
    BY <1>19, <2>6 DEF Restart
  <2>8. procs' \in [Ids -> Spawns] /\ pending' \in [Ids -> Spawns]
    BY <1>19, <2>5 DEF BrokerTypeOK, Restart, Spawns
  <2>9. locks' \in [Ids -> Seq(Actors)] /\ op' \in [Actors -> Ops]
    BY <1>19 DEF Restart
  <2>10. crashes' \in Nat
    BY <1>19 DEF BrokerTypeOK, Restart
  <2>11. mistaken' \in BOOLEAN
    BY <1>19 DEF Restart
  <2> QED
    BY <2>2, <2>4, <2>7, <2>8, <2>9, <2>10, <2>11 DEF BrokerTypeOK
<1> QED
  BY <1>1, <1>2, <1>3, <1>4, <1>5, <1>6, <1>7, <1>8, <1>9, <1>10, <1>11, <1>12, <1>13,
     <1>14, <1>15, <1>16, <1>17, <1>18, <1>19 DEF Next, Proceeds

-----------------------------------------------------------------------------
(* what a step may do to the others *)

\* A step of r leaves what others do, and the locks they hold.
Alone(r) ==
    \A q \in Actors \ {r} :
       /\ op'[q] = op[q]
       /\ \A i \in Ids : Holds(q, i) => Holds(q, i)'

LEMMA EnqueueAlone ==
  ASSUME BrokerTypeOK, NEW r \in Actors, NEW i \in Ids, Enqueue(r, i), NEW q, NEW j \in Ids,
         Holds(q, j)
  PROVE  Holds(q, j)'
<1>1. locks[j] \in Seq(Actors) /\ locks[j] # << >> /\ Head(locks[j]) = q
  BY DEF BrokerTypeOK, Holds
<1>2. locks'[j] = locks[j] \/ locks'[j] = Append(locks[j], r)
  BY DEF BrokerTypeOK, Enqueue
<1> QED
  BY <1>1, <1>2 DEF Holds

LEMMA UnlockAlone ==
  ASSUME BrokerTypeOK, NEW r \in Actors, NEW i \in Ids, Holds(r, i), Unlock(r, i),
         NEW q \in Actors \ {r}, NEW j \in Ids, Holds(q, j)
  PROVE  Holds(q, j)'
<1>1. i # j
  BY DEF Holds
<1>2. locks'[j] = locks[j]
  BY <1>1 DEF BrokerTypeOK, Unlock
<1> QED
  BY <1>2 DEF Holds

\* Whoever unlocks an instance of its own holds nothing less of the other instances.
LEMMA UnlockOthers ==
  ASSUME BrokerTypeOK, NEW r \in Actors, NEW i \in Ids, Unlock(r, i),
         NEW j \in Ids \ {i}, Holds(r, j)
  PROVE  Holds(r, j)'
  BY DEF BrokerTypeOK, Unlock, Holds

\* What has been given away stays so.
Onward == \A n \in Requests : Spawned(n) => Spawned(n)'

LEMMA OpStep ==
  ASSUME BrokerTypeOK, NEW r \in Actors, NEW x, op' = [op EXCEPT ![r] = x]
  PROVE  op'[r] = x /\ \A q \in Actors \ {r} : op'[q] = op[q]
  BY DEF BrokerTypeOK

LEMMA RequestsAlone ==
  ASSUME BrokerTypeOK, \A r \in Actors : LockOK(r), NEW r \in Actors,
         Proceeds(r) \/ \E i \in Ids : r \in Requests /\ (Up(r, i) \/ Down(r, i))
  PROVE  Alone(r)
<1> USE ActorFacts
<1>1. ASSUME UNCHANGED locks, NEW x, op' = [op EXCEPT ![r] = x] PROVE Alone(r)
  BY <1>1, OpStep DEF Alone, Holds
<1>2. ASSUME NEW i \in Ids, Enqueue(r, i), NEW x, op' = [op EXCEPT ![r] = x] PROVE Alone(r)
  BY <1>2, OpStep, EnqueueAlone DEF Alone
<1>3. ASSUME NEW i \in Ids, Holds(r, i), Unlock(r, i), NEW x, op' = [op EXCEPT ![r] = x]
      PROVE Alone(r)
  BY <1>3, OpStep, UnlockAlone DEF Alone
<1>4. ASSUME NEW i \in Ids, Up(r, i) \/ Down(r, i) PROVE Alone(r)
  <2>1. Enqueue(r, i)
    BY <1>4 DEF Up, Down
  <2>2. PICK label \in Labels, n \in {0, reg[i].n} :
            op' = [op EXCEPT ![r].pc = label, ![r].id = i, ![r].n = n]
    BY <1>4 DEF Up, Down, Begin, Labels
  <2>3. op' = [op EXCEPT ![r] = [op[r] EXCEPT !.pc = label, !.id = i, !.n = n]]
    BY <2>2 DEF BrokerTypeOK
  <2> QED
    BY <1>2, <2>1, <2>3
<1>5. CASE Reuse(r)
  <2>1. op[r].id \in Ids /\ Holds(r, op[r].id) /\ Unlock(r, op[r].id)
    BY <1>5 DEF Reuse, Return, LockOK, Works, At
  <2>2. PICK x : op' = [op EXCEPT ![r] = x]
    BY <1>5 DEF Reuse, Return
  <2> QED
    BY <1>3, <2>1, <2>2
<1>6. CASE Replace(r) \/ StopForDown(r)
  <2>1. PICK n, label : StopFor(r, n, label)
    BY <1>6 DEF Replace, StopForDown
  <2>2. op' = [op EXCEPT ![r] = [op[r] EXCEPT !.pc = label, !.n = Victim(op[r].id, n)]]
    BY <2>1 DEF StopFor, BrokerTypeOK
  <2> QED
    BY <1>1, <2>1, <2>2 DEF StopFor
<1>7. CASE Stopped(r)
  <2>1. op[r].id \in Ids /\ Holds(r, op[r].id)
    BY <1>7 DEF Stopped, LockOK, Works, Stops
  <2>2. CASE Unlock(r, op[r].id) /\ op' = [op EXCEPT ![r] = Ended]
    BY <1>3, <2>1, <2>2
  <2>3. CASE UNCHANGED locks /\ op' = [op EXCEPT ![r].pc = "create", ![r].n = 0]
    <3>1. op' = [op EXCEPT ![r] = [op[r] EXCEPT !.pc = "create", !.n = 0]]
      BY <2>3 DEF BrokerTypeOK
    <3> QED
      BY <1>1, <2>3, <3>1
  <2> QED
    BY <1>7, <2>2, <2>3 DEF Stopped
<1>8. CASE MakeWay(r)
  <2>1. op' = [op EXCEPT ![r] = [op[r] EXCEPT !.pc = "create"]]
    BY <1>8 DEF MakeWay, Goto, BrokerTypeOK
  <2> QED
    BY <1>1, <1>8, <2>1 DEF MakeWay
<1>9. CASE Create(r)
  <2>1. op' = [op EXCEPT ![r] = [op[r] EXCEPT !.pc = IF IsFull THEN "reap" ELSE "assert",
                                              !.todo = IF IsFull THEN Idle ELSE {}]]
    BY <1>9 DEF Create, BrokerTypeOK
  <2> QED
    BY <1>1, <1>9, <2>1 DEF Create
<1>10. CASE AssertCapacity(r) \/ Pick(r) \/ Add(r)
  <2>1. op[r].id \in Ids /\ Holds(r, op[r].id)
    BY <1>10 DEF AssertCapacity, Pick, Add, LockOK, Works, Makes, At
  <2>2. CASE Throw(r)
    BY <1>3, <2>1, <2>2 DEF Throw, Unwind
  <2>3. CASE AssertCapacity(r) /\ ~ Throw(r)
    <3>1. op' = [op EXCEPT ![r] = [op[r] EXCEPT !.pc = "pick", !.taken = PortsInUse]]
      BY <2>3 DEF AssertCapacity, BrokerTypeOK
    <3> QED
      BY <1>1, <2>3, <3>1 DEF AssertCapacity
  <2>4. CASE Pick(r) /\ ~ Throw(r)
    <3>1. PICK port \in Ports : op' = [op EXCEPT ![r].pc = "add", ![r].port = port]
      BY <2>4 DEF Pick, FreePorts
    <3>2. op' = [op EXCEPT ![r] = [op[r] EXCEPT !.pc = "add", !.port = port]]
      BY <3>1 DEF BrokerTypeOK
    <3> QED
      BY <1>1, <2>4, <3>2 DEF Pick
  <2>5. CASE Add(r) /\ ~ Throw(r)
    BY <1>3, <2>1, <2>5 DEF Add
  <2> QED
    BY <1>10, <2>2, <2>3, <2>4, <2>5
<1>11. CASE Awaited(r)
  BY <1>1, <1>11 DEF Awaited
<1>12. CASE ReapNext(r)
  <2>1. CASE op[r].todo = {}
    <3>1. PICK x : op' = [op EXCEPT ![r] = x]
      BY <1>12, <2>1 DEF ReapNext, BrokerTypeOK
    <3> QED
      BY <1>1, <1>12, <2>1, <3>1 DEF ReapNext
  <2>2. CASE op[r].todo # {}
    <3>1. PICK t \in op[r].todo :
             /\ Enqueue(r, t.id)
             /\ op' = [op EXCEPT ![r].pc = "reaplock", ![r].todo = @ \ {t}, ![r].at = t]
      BY <1>12, <2>2 DEF ReapNext
    <3>2. t.id \in Ids
      BY DEF BrokerTypeOK, Ops, Tasks
    <3>3. op' = [op EXCEPT ![r] =
                    [op[r] EXCEPT !.pc = "reaplock", !.todo = op[r].todo \ {t}, !.at = t]]
      BY <3>1 DEF BrokerTypeOK
    <3> QED
      BY <1>2, <3>1, <3>2, <3>3
  <2> QED
    BY <2>1, <2>2
<1>13. CASE ReapOne(r)
  <2> DEFINE t == op[r].at
  <2>1. t.id \in Ids /\ Holds(r, t.id)
    BY <1>13 DEF ReapOne, LockOK, Reaps, At, Tasks
  <2>2. CASE ~ t.dead /\ StillIdle(t)
    <3>1. op' = [op EXCEPT ![r] =
                    [op[r] EXCEPT !.pc = "reapstop", !.n = Victim(t.id, t.n)]]
      BY <1>13, <2>2 DEF ReapOne, BrokerTypeOK
    <3> QED
      BY <1>1, <1>13, <2>2, <3>1 DEF ReapOne
  <2>3. CASE ~ (~ t.dead /\ StillIdle(t))
    <3>1. op' = [op EXCEPT ![r] = [op[r] EXCEPT !.pc = "reap"]]
      BY <1>13, <2>3 DEF ReapOne, Goto, BrokerTypeOK
    <3> QED
      BY <1>3, <1>13, <2>1, <2>3, <3>1 DEF ReapOne
  <2> QED
    BY <2>2, <2>3
<1>14. CASE ReapStopped(r)
  <2>1. op[r].at.id \in Ids /\ Holds(r, op[r].at.id)
    BY <1>14 DEF ReapStopped, LockOK, Reaps, At, Tasks
  <2>2. op' = [op EXCEPT ![r] = [op[r] EXCEPT !.pc = "reap", !.n = 0]]
    BY <1>14 DEF ReapStopped, BrokerTypeOK
  <2> QED
    BY <1>3, <1>14, <2>1, <2>2 DEF ReapStopped
<1> QED
  BY <1>4, <1>5, <1>6, <1>7, <1>8, <1>9, <1>10, <1>11, <1>12, <1>13, <1>14 DEF Proceeds

LEMMA RequestsOnward ==
  ASSUME BrokerTypeOK, \A r \in Actors : LockOK(r), NEW r \in Actors,
         Proceeds(r) \/ \E i \in Ids : r \in Requests /\ (Up(r, i) \/ Down(r, i))
  PROVE  Onward
<1>1. Alone(r)
  BY RequestsAlone
<1>2. ASSUME Spawned(r) PROVE op'[r] = Ended
  <2>1. Awaited(r)
    BY <1>2 DEF Spawned, Proceeds, Up, Down, Begin, Reuse, Replace, StopForDown, Stopped,
          MakeWay, Create, AssertCapacity, Pick, Add, ReapNext, ReapOne, ReapStopped, At
  <2> QED
    BY <2>1 DEF Awaited, BrokerTypeOK
<1> QED
  BY <1>1, <1>2, ActorFacts DEF Onward, Spawned, Alone, Ended, Unbegun

\* Records go, or stay those of the same incarnation; a handle goes with its record.
RecordFades(i) ==
    \/ reg'[i] = None
    \/ /\ reg[i] # None /\ reg'[i].status # "none"
       /\ reg'[i].n = reg[i].n /\ reg'[i].port = reg[i].port

Fades(i) == RecordFades(i) /\ (procs'[i] = procs[i] \/ reg'[i] = None)

\* Processes go, or stay as dead as they were, and as bound.
SameProcesses ==
    /\ OneProcess'
    /\ \A q \in alive' : \E p \in alive :
          /\ q.n = p.n /\ q.id = p.id /\ q.port = p.port
          /\ p.killed => q.killed
          /\ p.bound => q.bound

SameWatchers ==
    /\ OneWatcher'
    /\ \A v \in watching' : \E w \in watching :
          /\ v.n = w.n /\ v.id = w.id
          /\ v.saw = w.saw \/ v.saw = reg[w.id].n

\* Neither an instance nor a process nor a watcher is new.
Quiet == (\A i \in Ids : Fades(i)) /\ SameProcesses /\ SameWatchers /\ Onward

LEMMA KillSame ==
  ASSUME BrokerTypeOK, OneProcess, NEW n, Kill(n)
  PROVE  SameProcesses /\ \A q \in alive' : q.n = n => q.killed
<1> DEFINE K(p) == IF p.n = n THEN [p EXCEPT !.killed = TRUE] ELSE p
<1>1. alive' = {K(p) : p \in alive}
  BY DEF Kill
<1>2. ASSUME NEW p \in alive
      PROVE  /\ K(p).n = p.n /\ K(p).id = p.id /\ K(p).port = p.port
             /\ p.killed => K(p).killed
             /\ p.bound => K(p).bound
             /\ p.n = n => K(p).killed
  BY DEF BrokerTypeOK, Processes
<1> HIDE DEF K
<1>3. OneProcess'
  BY <1>1, <1>2 DEF OneProcess
<1> QED
  BY <1>1, <1>2, <1>3 DEF SameProcesses

LEMMA BindSame ==
  ASSUME BrokerTypeOK, OneProcess, NEW p \in alive, Bind(p)
  PROVE  SameProcesses
<1> DEFINE b == [p EXCEPT !.bound = TRUE]
<1>1. alive' = (alive \ {p}) \union {b}
  BY DEF Bind
<1>2. b.n = p.n /\ b.id = p.id /\ b.port = p.port /\ b.killed = p.killed /\ b.bound
  BY DEF BrokerTypeOK, Processes
<1> HIDE DEF b
<1>3. OneProcess'
  BY <1>1, <1>2 DEF OneProcess
<1> QED
  BY <1>1, <1>2, <1>3 DEF SameProcesses

LEMMA StillSame ==
  /\ OneProcess /\ alive' \in SUBSET alive => SameProcesses
  /\ OneWatcher /\ watching' \in SUBSET watching => SameWatchers
  BY DEF SameProcesses, SameWatchers, OneProcess, OneWatcher

LEMMA DropFades ==
  ASSUME BrokerTypeOK, \A i \in Ids : Recorded(i), NEW j \in Ids, Drop(j),
         procs' = procs \/ procs' = [procs EXCEPT ![j] = 0]
  PROVE  \A i \in Ids : Fades(i)
  BY DEF BrokerTypeOK, Recorded, Drop, Fades, RecordFades, None

LEMMA BecomesFades ==
  ASSUME BrokerTypeOK, \A i \in Ids : Recorded(i), NEW j \in Ids,
         NEW status \in {"ready", "failed"}, Becomes(j, status), procs' = procs
  PROVE  \A i \in Ids : Fades(i)
<1>1. Marked(reg[j], status) = None \/
        /\ reg[j] # None /\ Marked(reg[j], status).status # "none"
        /\ Marked(reg[j], status).n = reg[j].n /\ Marked(reg[j], status).port = reg[j].port
  <2>1. reg[j] \in Records
    BY DEF BrokerTypeOK
  <2> QED
    BY <2>1 DEF Marked, Records
<1> QED
  BY <1>1 DEF BrokerTypeOK, Becomes, Fades, RecordFades, Recorded, None

LEMMA IdleFades ==
  ASSUME BrokerTypeOK, \A i \in Ids : Recorded(i), NEW j \in Ids, NEW b, reg[j].status # "none",
         reg' = [reg EXCEPT ![j].idle = b], procs' = procs
  PROVE  \A i \in Ids : Fades(i)
<1> TAKE i \in Ids
<1>1. reg[i] \in Records /\ reg \in [Ids -> Records] /\ Recorded(i)
  BY DEF BrokerTypeOK
<1>2. /\ reg'[i].n = reg[i].n /\ reg'[i].status = reg[i].status /\ reg'[i].port = reg[i].port
      /\ i # j => reg'[i] = reg[i]
  BY <1>1 DEF Records
<1> QED
  BY <1>1, <1>2 DEF Fades, RecordFades, Recorded, None

LEMMA StillFades ==
  ASSUME \A i \in Ids : Recorded(i), UNCHANGED <<reg, procs>>
  PROVE  \A i \in Ids : Fades(i)
  BY DEF Fades, RecordFades, Recorded, None

\* Every step but an addition and a restart is quiet.
LEMMA RequestsAreQuiet ==
  ASSUME BrokerTypeOK, RegistryOK, \A r \in Actors : LockOK(r), NEW r \in Actors,
         Proceeds(r) \/ \E i \in Ids : r \in Requests /\ (Up(r, i) \/ Down(r, i)),
         ~ Add(r) \/ Throw(r)
  PROVE  Quiet
<1>1. Onward
  BY RequestsOnward
<1>2. \A i \in Ids : Recorded(i)
  BY DEF RegistryOK
<1>3. SameProcesses \/ ~ (Replace(r) \/ StopForDown(r) \/ ReapOne(r))
  BY KillSame, StillSame DEF RegistryOK, Replace, StopForDown, StopFor, ReapOne
<1>4. CASE UNCHANGED <<reg, alive, procs, watching>>
  BY <1>1, <1>2, <1>4, StillFades, StillSame DEF Quiet, RegistryOK
<1>5. CASE Reuse(r)
  <2>1. op[r].id \in Ids
    BY <1>5 DEF Reuse, LockOK, Works, At
  <2>2. \A i \in Ids : Fades(i)
    BY <1>2, <1>5, <2>1, IdleFades DEF Reuse, Touch, IsActive
  <2> QED
    BY <1>1, <1>5, <2>2, StillSame DEF Quiet, RegistryOK, Reuse
<1>6. CASE Replace(r) \/ StopForDown(r)
  <2>1. UNCHANGED <<reg, procs, watching>>
    BY <1>6 DEF Replace, StopForDown, StopFor
  <2> QED
    BY <1>1, <1>2, <1>3, <1>6, <2>1, StillFades, StillSame DEF Quiet, RegistryOK
<1>7. CASE Stopped(r)
  <2>1. op[r].id \in Ids
    BY <1>7 DEF Stopped, LockOK, Works, Stops
  <2>2. \A i \in Ids : Fades(i)
    BY <1>2, <1>7, <2>1, DropFades DEF Stopped, Forget
  <2> QED
    BY <1>1, <1>7, <2>2, StillSame DEF Quiet, RegistryOK, Stopped
<1>8. CASE MakeWay(r)
  <2>1. op[r].id \in Ids
    BY <1>8 DEF MakeWay, LockOK, Works, At
  <2>2. \A i \in Ids : Fades(i)
    BY <1>2, <1>8, <2>1, DropFades DEF MakeWay
  <2> QED
    BY <1>1, <1>8, <2>2, StillSame DEF Quiet, RegistryOK, MakeWay
<1>9. CASE ReapOne(r)
  <2> DEFINE t == op[r].at
  <2>1. t.id \in Ids
    BY <1>9 DEF ReapOne, LockOK, Reaps, At, Tasks
  <2>2. UNCHANGED procs /\ (UNCHANGED reg \/ Drop(t.id))
    BY <1>9 DEF ReapOne
  <2>3. \A i \in Ids : Fades(i)
    BY <1>2, <2>1, <2>2, DropFades, StillFades
  <2> QED
    BY <1>1, <1>3, <1>9, <2>3, StillSame DEF Quiet, RegistryOK, ReapOne
<1>10. CASE ReapStopped(r)
  <2>1. op[r].at.id \in Ids
    BY <1>10 DEF ReapStopped, LockOK, Reaps, At, Tasks
  <2>2. \A i \in Ids : Fades(i)
    BY <1>2, <1>10, <2>1, DropFades DEF ReapStopped, Forget
  <2> QED
    BY <1>1, <1>10, <2>2, StillSame DEF Quiet, RegistryOK, ReapStopped
<1>11. CASE Add(r)
  BY <1>4, <1>11, Refusal
<1>12. ASSUME NEW i \in Ids, Up(r, i) \/ Down(r, i) PROVE Quiet
  BY <1>4, <1>12 DEF Up, Down
<1>13. CASE Create(r) \/ AssertCapacity(r) \/ Pick(r) \/ Awaited(r) \/ ReapNext(r)
  BY <1>4, <1>13 DEF Create, AssertCapacity, Pick, Awaited, ReapNext
<1> QED
  BY <1>5, <1>6, <1>7, <1>8, <1>9, <1>10, <1>11, <1>12, <1>13 DEF Proceeds

LEMMA OthersAreQuiet ==
  ASSUME BrokerTypeOK, RegistryOK,
         \/ \E p \in alive : Bind(p) \/ Exit(p)
         \/ \E w \in watching : Watches(w)
         \/ \E i \in Ids : Age(i)
         \/ Tick
  PROVE  Quiet /\ UNCHANGED procs
<1>1. \A i \in Ids : Recorded(i)
  BY DEF RegistryOK
<1>2. ASSUME UNCHANGED op PROVE Onward
  BY <1>2 DEF Onward, Spawned
<1>3. ASSUME NEW p \in alive, Bind(p) PROVE Quiet /\ UNCHANGED procs
  BY <1>1, <1>2, <1>3, BindSame, StillSame, StillFades DEF Quiet, RegistryOK, Bind, memory
<1>4. ASSUME NEW p \in alive, Exit(p) PROVE Quiet /\ UNCHANGED procs
  <2>1. p.id \in Ids
    BY DEF BrokerTypeOK, Processes
  <2>2. \A i \in Ids : Fades(i)
    BY <1>1, <1>4, <2>1, BecomesFades, StillFades DEF Exit, memory
  <2> QED
    BY <1>2, <1>4, <2>2, StillSame DEF Quiet, RegistryOK, Exit, memory
<1>5. ASSUME NEW w \in watching, Watches(w) PROVE Quiet /\ UNCHANGED procs
  <2>1. w \in Watchers /\ w.id \in Ids
    BY DEF BrokerTypeOK, Watchers, AnyWatchers
  <2>2. UNCHANGED <<procs, op>>
    BY <1>5 DEF Watches, Ready, Fails, AdoptedPolls, AdoptedReady, AdoptedFails, AdoptedLeaves
  <2>3. \A i \in Ids : Fades(i)
    <3>1. \/ UNCHANGED reg \/ Drop(w.id)
          \/ Becomes(w.id, "ready") \/ Becomes(w.id, "failed")
      BY <1>5 DEF Watches, Ready, Fails, AdoptedPolls, AdoptedReady, AdoptedFails,
            AdoptedLeaves
    <3> QED
      BY <1>1, <2>1, <2>2, <3>1, DropFades, BecomesFades, StillFades
  <2>4. SameProcesses
    <3>1. UNCHANGED alive \/ \E n : Kill(n)
      BY <1>5 DEF Watches, Ready, Fails, AdoptedPolls, AdoptedReady, AdoptedFails,
            AdoptedLeaves
    <3> QED
      BY <3>1, KillSame, StillSame DEF RegistryOK
  <2>5. SameWatchers
    <3>1. ASSUME NEW v, v.n = w.n, v.id = w.id, v.saw = w.saw \/ v.saw = reg[w.id].n,
                 watching' = (watching \ {w}) \union {v}
          PROVE  SameWatchers
      BY <3>1 DEF SameWatchers, RegistryOK, OneWatcher
    <3>2. CASE Unwatch(w)
      BY <3>2, StillSame DEF Unwatch, RegistryOK
    <3>3. CASE watching' = (watching \ {w}) \union
                  {[w EXCEPT !.saw = reg[w.id].n, !.port = reg[w.id].port]}
      <4> DEFINE v == [w EXCEPT !.saw = reg[w.id].n, !.port = reg[w.id].port]
      <4>1. v.n = w.n /\ v.id = w.id /\ v.saw = reg[w.id].n
        BY <2>1 DEF Watchers, AnyWatchers
      <4> HIDE DEF v
      <4> QED
        BY <3>1, <3>3, <4>1 DEF v
    <3>4. CASE watching' = (watching \ {w}) \union {[w EXCEPT !.ending = TRUE]}
      <4> DEFINE v == [w EXCEPT !.ending = TRUE]
      <4>1. v.n = w.n /\ v.id = w.id /\ v.saw = w.saw
        BY <2>1 DEF Watchers, AnyWatchers
      <4> QED
        BY <3>1, <3>4, <4>1
    <3> QED
      BY <1>5, <3>2, <3>3, <3>4 DEF Watches, Ready, Fails, AdoptedPolls, AdoptedReady,
            AdoptedFails, AdoptedLeaves
  <2> QED
    BY <1>2, <2>2, <2>3, <2>4, <2>5 DEF Quiet
<1>6. ASSUME NEW i \in Ids, Age(i) PROVE Quiet /\ UNCHANGED procs
  <2>1. \A j \in Ids : Fades(j)
    BY <1>1, <1>6, IdleFades DEF Age, memory
  <2> QED
    BY <1>2, <1>6, <2>1, StillSame DEF Quiet, RegistryOK, Age, memory
<1>7. CASE Tick
  <2>1. Onward
    BY <1>7, ActorFacts DEF Tick, Onward, Spawned, BrokerTypeOK
  <2> QED
    BY <1>1, <1>7, <2>1, StillFades, StillSame DEF Quiet, RegistryOK, Tick
<1> QED
  BY <1>3, <1>4, <1>5, <1>6, <1>7

-----------------------------------------------------------------------------
(* the registry *)

LEMMA RecordsFade ==
  ASSUME BrokerTypeOK, BrokerTypeOK', RegistryOK,
         \A i \in Ids : RecordFades(i), SameProcesses, Onward,
         \A i \in Ids : procs'[i] \in {0, procs[i]} \/ reg'[i] = None
  PROVE  /\ \A i \in Ids : Recorded(i)'
         /\ OneRecord' /\ OneProcess'
         /\ \A q \in alive' : ProcessOK(q)'
<1> USE ActorFacts
<1>1. ASSUME NEW i \in Ids
      PROVE  reg'[i].n \in {0, reg[i].n} /\ (reg'[i].n # 0 => reg'[i].port = reg[i].port)
  BY DEF RecordFades, None
<1>2. ASSUME NEW i \in Ids PROVE Recorded(i)'
  <2>1. Recorded(i) /\ RecordFades(i) /\ reg[i].n \in Spawns
    BY DEF RegistryOK, BrokerTypeOK, Records
  <2>2. (reg[i].n # 0 => Spawned(reg[i].n))'
    <3>1. reg'[i].n # 0 => reg'[i].n = reg[i].n /\ Spawned(reg[i].n)
      BY <1>1, <2>1 DEF Recorded
    <3> QED
      BY <3>1 DEF Onward, Spawned
  <2>3. reg'[i].n = 0 <=> reg'[i] = None
    BY <2>1 DEF Recorded, RecordFades, None
  <2>4. reg'[i].status = "none" <=> reg'[i].n = 0
    BY <2>1 DEF Recorded, RecordFades, None
  <2>5. reg'[i].n # 0 /\ procs'[i] # 0 => procs'[i] = reg'[i].n
    BY <1>1, <2>1, <2>3 DEF Recorded
  <2> QED
    BY <2>2, <2>3, <2>4, <2>5 DEF Recorded
<1>3. OneRecord'
  BY <1>1 DEF RegistryOK, OneRecord
<1>4. ASSUME NEW q \in alive' PROVE ProcessOK(q)'
  <2>1. PICK p \in alive : q.n = p.n /\ q.id = p.id /\ q.port = p.port
    BY DEF SameProcesses
  <2>2. ProcessOK(p) /\ p.n # 0
    BY DEF RegistryOK, BrokerTypeOK, Processes
  <2> QED
    BY <1>1, <2>1, <2>2 DEF ProcessOK, Onward, Spawned
<1> QED
  BY <1>2, <1>3, <1>4 DEF SameProcesses

LEMMA QuietKeepsRegistry ==
  ASSUME BrokerTypeOK, BrokerTypeOK', RegistryOK, Quiet
  PROVE  RegistryOK'
<1> USE ActorFacts
<1>1. \A i \in Ids : RecordFades(i) /\ (procs'[i] = procs[i] \/ reg'[i] = None)
  BY DEF Quiet, Fades
<1>2. /\ \A i \in Ids : Recorded(i)'
      /\ OneRecord' /\ OneProcess'
      /\ \A q \in alive' : ProcessOK(q)'
  BY <1>1, RecordsFade DEF Quiet
<1>3. \A i \in Ids : reg'[i].n \in {0, reg[i].n}
  BY <1>1 DEF RecordFades, None
<1>4. ASSUME NEW v \in watching' PROVE WatcherOK(v)'
  <2>1. PICK w \in watching : v.n = w.n /\ v.id = w.id /\ (v.saw = w.saw \/ v.saw = reg[w.id].n)
    BY DEF Quiet, SameWatchers
  <2>2. WatcherOK(w) /\ w.n # 0 /\ w.id \in Ids
    BY DEF RegistryOK, BrokerTypeOK, Watchers, AnyWatchers
  <2> QED
    BY <1>3, <2>1, <2>2 DEF WatcherOK, Quiet, Onward, Spawned
<1> QED
  BY <1>2, <1>4 DEF RegistryOK, Quiet, SameWatchers

\* What an addition that is not refused does.
LEMMA Addition ==
  ASSUME BrokerTypeOK, \A r \in Actors : LockOK(r), NEW r \in Actors, Add(r), ~ Throw(r)
  PROVE  LET i == op[r].id IN
         /\ r \in Requests /\ i \in Ids /\ Holds(r, i) /\ At(r, "add") /\ reg[i] = None
         /\ ~ IsFull
         /\ reg' = [reg EXCEPT ![i] =
               [n |-> r, status |-> "starting", port |-> op[r].port, idle |-> FALSE]]
         /\ alive' = alive \union
               {[n |-> r, id |-> i, port |-> op[r].port,
                 bound |-> FALSE, killed |-> FALSE, child |-> TRUE]}
         /\ procs' = [procs EXCEPT ![i] = r]
         /\ watching' = watching \union {Watcher(i, r, FALSE)}
         /\ Unlock(r, i)
         /\ op' = [op EXCEPT ![r] = [Unbegun EXCEPT !.pc = "await", !.n = r]]
         /\ UNCHANGED <<crashes, mistaken>>
<1>1. /\ op[r].id \in Ids /\ Holds(r, op[r].id) /\ At(r, "add")
      /\ reg[op[r].id] = None /\ r \in Requests
  BY ActorFacts DEF Add, LockOK, Works, Makes, Making, At
<1>2. ~ AddRefuses
  BY DEF Add
<1> QED
  BY <1>1, <1>2 DEF Add, AddRefuses

LEMMA AdditionKeepsRegistry ==
  ASSUME BrokerTypeOK, BrokerTypeOK', RegistryOK, \A r \in Actors : LockOK(r),
         NEW r \in Actors, Add(r), ~ Throw(r)
  PROVE  RegistryOK'
<1> DEFINE i == op[r].id
           new == [n |-> r, id |-> i, port |-> op[r].port,
                   bound |-> FALSE, killed |-> FALSE, child |-> TRUE]
<1> USE ActorFacts
<1>0. /\ r \in Requests /\ i \in Ids /\ At(r, "add")
      /\ reg' = [reg EXCEPT ![i] =
            [n |-> r, status |-> "starting", port |-> op[r].port, idle |-> FALSE]]
      /\ alive' = alive \union {new}
      /\ procs' = [procs EXCEPT ![i] = r]
      /\ watching' = watching \union {Watcher(i, r, FALSE)}
      /\ op' = [op EXCEPT ![r] = [Unbegun EXCEPT !.pc = "await", !.n = r]]
  BY Addition
<1>a. new.n = r /\ new.id = i /\ new.port = op[r].port
  OBVIOUS
<1>b. Watcher(i, r, FALSE).n = r /\ Watcher(i, r, FALSE).id = i /\ Watcher(i, r, FALSE).saw = 0
  BY DEF Watcher
<1> HIDE DEF i, new
<1>1. r \in Requests /\ i \in Ids /\ ~ Spawned(r)
  BY <1>0 DEF At, Spawned
<1>2. Onward /\ Spawned(r)'
  <2>1. op'[r] = [Unbegun EXCEPT !.pc = "await", !.n = r]
        /\ \A q \in Actors \ {r} : op'[q] = op[q]
    BY <1>0 DEF BrokerTypeOK
  <2>2. op'[r].pc = "await"
    BY <2>1 DEF Unbegun
  <2> QED
    BY <1>1, <2>1, <2>2 DEF Onward, Spawned
<1>3. reg'[i] = [n |-> r, status |-> "starting", port |-> op[r].port, idle |-> FALSE]
  BY <1>0 DEF BrokerTypeOK
<1>4. \A j \in Ids \ {i} : reg'[j] = reg[j] /\ procs'[j] = procs[j]
  BY <1>0 DEF BrokerTypeOK
<1>5. procs'[i] = r
  BY <1>0 DEF BrokerTypeOK
<1>6. \A j \in Ids : reg[j].n # r
  BY <1>1 DEF RegistryOK, Recorded, Spawned
<1>7. ASSUME NEW j \in Ids PROVE Recorded(j)'
  <2>1. CASE j = i
    BY <1>1, <1>2, <1>3, <1>5, <2>1 DEF Recorded, None
  <2>2. CASE j # i
    BY <1>2, <1>4, <2>2 DEF Recorded, RegistryOK, Onward, Spawned
  <2> QED
    BY <2>1, <2>2
<1>8. OneRecord'
  BY <1>3, <1>4, <1>6 DEF RegistryOK, OneRecord
<1>9. \A p \in alive : p.n # r
  BY <1>1 DEF RegistryOK, ProcessOK
<1>11. OneProcess'
  BY <1>0, <1>a, <1>9 DEF RegistryOK, OneProcess
<1>12. ASSUME NEW q \in alive' PROVE ProcessOK(q)'
  <2>1. CASE q = new
    BY <1>1, <1>2, <1>3, <1>4, <1>6, <1>a, <2>1 DEF ProcessOK
  <2>2. CASE q \in alive
    <3>1. ProcessOK(q) /\ q.n # r
      BY <1>9, <2>2 DEF RegistryOK
    <3>2. Spawned(q.n)'
      BY <1>2, <3>1 DEF ProcessOK, Onward, Spawned
    <3>3. \A j \in Ids : q.n = reg'[j].n => j # i /\ reg'[j] = reg[j]
      BY <1>3, <1>4, <3>1
    <3> QED
      BY <3>1, <3>2, <3>3 DEF ProcessOK
  <2> QED
    BY <1>0, <2>1, <2>2
<1>13. \A w \in watching : w.n # r /\ w.id \in Ids
  BY <1>1 DEF RegistryOK, WatcherOK, BrokerTypeOK, Watchers, AnyWatchers
<1>14. OneWatcher'
  BY <1>0, <1>b, <1>13 DEF RegistryOK, OneWatcher
<1>15. ASSUME NEW v \in watching' PROVE WatcherOK(v)'
  <2>1. CASE v = Watcher(i, r, FALSE)
    BY <1>2, <1>b, <2>1 DEF WatcherOK
  <2>2. CASE v \in watching
    <3>1. WatcherOK(v) /\ v.n # r /\ v.id \in Ids
      BY <1>13, <2>2 DEF RegistryOK
    <3>2. Spawned(v.n)'
      BY <1>2, <3>1 DEF WatcherOK, Onward, Spawned
    <3>3. reg'[v.id].n = v.n => reg[v.id].n = v.n
      BY <1>3, <1>4, <3>1
    <3> QED
      BY <3>1, <3>2, <3>3 DEF WatcherOK
  <2> QED
    BY <1>0, <2>1, <2>2
<1> QED
  BY <1>7, <1>8, <1>11, <1>12, <1>14, <1>15 DEF RegistryOK

\* A restart is quiet but for the watchers, which are new ones, and for the handles.
LEMMA RestartFades ==
  ASSUME BrokerTypeOK, RegistryOK, Restart
  PROVE  (\A i \in Ids : RecordFades(i)) /\ SameProcesses /\ Onward
<1>1. ASSUME NEW i \in Ids PROVE RecordFades(i)
  <2>1. \/ Answers(i) /\ reg'[i] = [reg[i] EXCEPT !.status = "ready"]
        \/ Boots(i) /\ reg'[i] = reg[i]
        \/ reg'[i] = None
    BY DEF Restart
  <2>2. Answers(i) \/ Boots(i) => reg[i].n # 0
    BY ActorFacts DEF Answers, Boots, Runs, BrokerTypeOK, Processes
  <2>3. reg[i] \in Records /\ Recorded(i)
    BY DEF BrokerTypeOK, RegistryOK
  <2> QED
    BY <2>1, <2>2, <2>3 DEF RecordFades, Recorded, None, Records
<1>2. SameProcesses
  <2> DEFINE C(p) == [p EXCEPT !.child = FALSE]
  <2>1. \A p \in alive :
          /\ C(p).n = p.n /\ C(p).id = p.id /\ C(p).port = p.port
          /\ C(p).killed = p.killed /\ C(p).bound = p.bound
    BY DEF BrokerTypeOK, Processes
  <2>2. alive' = {C(p) : p \in alive}
    BY DEF Restart
  <2> HIDE DEF C
  <2>3. OneProcess'
    BY <2>1, <2>2 DEF RegistryOK, OneProcess
  <2> QED
    BY <2>1, <2>2, <2>3 DEF SameProcesses
<1>3. Onward
  BY ActorFacts DEF Restart, Onward, Spawned, At, Ended, Unbegun
<1> QED
  BY <1>1, <1>2, <1>3

LEMMA RestartKeepsRegistry ==
  ASSUME BrokerTypeOK, BrokerTypeOK', RegistryOK, Restart
  PROVE  RegistryOK'
<1> USE ActorFacts
<1>1. \A i \in Ids : RecordFades(i)
  BY RestartFades
<1>2. /\ \A i \in Ids : Recorded(i)'
      /\ OneRecord' /\ OneProcess'
      /\ \A q \in alive' : ProcessOK(q)'
  <2>1. \A i \in Ids : procs'[i] = 0
    BY DEF Restart
  <2> QED
    BY <1>1, <2>1, RestartFades, RecordsFade
<1>3. \A v \in watching' : \E i \in Ids :
         Boots(i) /\ v = Watcher(i, reg[i].n, TRUE)
  BY DEF Restart
<1>4. \A i \in Ids : Boots(i) => reg[i].n # 0 /\ Spawned(reg[i].n)
  BY DEF Boots, Runs, BrokerTypeOK, Processes, RegistryOK, Recorded
<1>5. OneWatcher'
  <2>1. ASSUME NEW v \in watching', NEW w \in watching', v.n = w.n PROVE v = w
    <3>1. PICK i \in Ids : Boots(i) /\ v = Watcher(i, reg[i].n, TRUE)
      BY <1>3
    <3>2. PICK j \in Ids : Boots(j) /\ w = Watcher(j, reg[j].n, TRUE)
      BY <1>3
    <3>3. reg[i].n = reg[j].n
      BY <2>1, <3>1, <3>2 DEF Watcher
    <3> QED
      BY <1>4, <3>1, <3>2, <3>3 DEF RegistryOK, OneRecord
  <2> QED
    BY <2>1 DEF OneWatcher
<1>6. ASSUME NEW v \in watching' PROVE WatcherOK(v)'
  <2>1. v.saw = 0 /\ Spawned(v.n)
    BY <1>3, <1>4 DEF Watcher
  <2>2. Spawned(v.n)'
    BY <2>1, RestartFades DEF Onward, Spawned
  <2> QED
    BY <2>1, <2>2 DEF WatcherOK
<1> QED
  BY <1>2, <1>5, <1>6 DEF RegistryOK

\* Steps are quiet, but for additions and restarts.
LEMMA StepsAreQuiet ==
  ASSUME BrokerTypeOK, RegistryOK, \A r \in Actors : LockOK(r), [Next]_vars
  PROVE  Quiet \/ Restart \/ \E r \in Actors : Add(r) /\ ~ Throw(r)
<1>1. CASE UNCHANGED vars
  <2>1. UNCHANGED <<reg, procs, alive, watching, op>>
    BY <1>1 DEF vars, memory
  <2>2. Onward
    BY <2>1 DEF Onward, Spawned
  <2> QED
    BY <2>1, <2>2, StillFades, StillSame DEF Quiet, RegistryOK
<1>2. ASSUME NEW r \in Requests, NEW i \in Ids, Up(r, i) \/ Down(r, i) PROVE Quiet
  <2>1. ~ Add(r)
    BY <1>2, ActorFacts DEF Up, Down, Begin, Add, At
  <2> QED
    BY <1>2, <2>1, ActorFacts, RequestsAreQuiet
<1>3. ASSUME NEW r \in Actors, Proceeds(r)
      PROVE  Quiet \/ (Add(r) /\ ~ Throw(r))
  BY <1>3, RequestsAreQuiet
<1> QED
  BY <1>1, <1>2, <1>3, OthersAreQuiet DEF Next

LEMMA RegistryHolds ==
  ASSUME BrokerTypeOK, BrokerTypeOK', RegistryOK, \A r \in Actors : LockOK(r), [Next]_vars
  PROVE  RegistryOK'
  BY StepsAreQuiet, QuietKeepsRegistry, RestartKeepsRegistry, AdditionKeepsRegistry

-----------------------------------------------------------------------------
(* the locks *)

LEMMA OthersKeepTheirs ==
  ASSUME BrokerTypeOK, NEW q \in Actors, LockOK(q), op'[q] = op[q],
         \A i \in Ids : Holds(q, i) => Holds(q, i)',
         \A i \in Ids : Fades(i)
  PROVE  LockOK(q)'
<1>1. Works(q)' = Works(q) /\ Makes(q)' = Makes(q) /\ Stops(q)' = Stops(q)
      /\ Reaps(q)' = Reaps(q) /\ \A label \in Labels : At(q, label)' = At(q, label)
  BY DEF Works, Makes, Stops, Reaps, At
<1>2. \A i \in Ids : reg'[i].n \in {0, reg[i].n} /\ (reg[i] = None => reg'[i] = None)
  BY DEF Fades, RecordFades, None
<1>3. \A i \in Ids : reg'[i].n = 0 \/ procs'[i] = procs[i]
  BY DEF Fades, None
<1>4. Reaps(q) => op[q].at.id \in Ids
  BY DEF LockOK, Tasks
<1>5. At(q, "reapstop") => Reaps(q)
  BY DEF At, Reaps
<1>6. (Stops(q) => Works(q)) /\ (Makes(q) => Works(q)) /\ (At(q, "down") => Works(q))
  BY DEF Works, At
<1>7. Makes(q) => Making(q)'
  BY <1>1, <1>2, <1>6 DEF LockOK, Making
<1>8. At(q, "down") => reg'[op[q].id].n \in {0, op[q].n} \/ procs'[op[q].id] # 0
  BY <1>2, <1>3, <1>6 DEF LockOK
<1>9. Stops(q) => reg'[op[q].id].n \in {0, op[q].n}
  BY <1>2, <1>6 DEF LockOK
<1>10. At(q, "reapstop") => Holds(q, op[q].at.id)' /\ reg'[op[q].at.id].n \in {0, op[q].n}
  BY <1>2, <1>4, <1>5 DEF LockOK
<1> QED
  BY <1>1, <1>6, <1>7, <1>8, <1>9, <1>10 DEF LockOK, Labels

\* Who has ended, or has not begun, owes nothing.
LEMMA IdleIsFine ==
  ASSUME NEW r \in Actors,
         \/ r # Reaper /\ op'[r].pc \in {"await", "ended"}
         \/ op'[r] = Unbegun
  PROVE  LockOK(r)'
  BY DEF LockOK, Works, Makes, Stops, Reaps, At, Unbegun

LEMMA MakingIsFine ==
  ASSUME NEW r \in Requests, NEW i \in Ids, op'[r].id = i,
         op'[r].pc \in {"create", "reap", "assert", "pick", "add"},
         Holds(r, i)', reg'[i] = None, \A t \in op'[r].todo : t.id # i
  PROVE  LockOK(r)'
  BY ActorFacts DEF LockOK, Works, Makes, Making, Stops, Reaps, At

LEMMA StoppingIsFine ==
  ASSUME NEW r \in Requests, NEW i \in Ids, op'[r].id = i,
         op'[r].pc \in {"stop", "replace"}, op'[r].todo = {},
         Holds(r, i)', reg'[i].n \in {0, op'[r].n}
  PROVE  LockOK(r)'
  BY ActorFacts DEF LockOK, Works, Makes, Making, Stops, Reaps, At

LEMMA ReapingIsFine ==
  ASSUME NEW r \in Actors, NEW i, op'[r].id = i, NEW t \in Tasks, op'[r].at = t,
         \/ op'[r].pc = "reaplock"
         \/ op'[r].pc = "reapstop" /\ Holds(r, t.id)' /\ reg'[t.id].n \in {0, op'[r].n},
         r # Reaper => /\ i \in Ids /\ Holds(r, i)' /\ reg'[i] = None /\ t.id # i
                       /\ \A s \in op'[r].todo : s.id # i
  PROVE  LockOK(r)'
  BY ActorFacts DEF LockOK, Works, Makes, Making, Stops, Reaps, At

LEMMA ReaperIsFine ==
  ASSUME op'[Reaper].pc = "reap"
  PROVE  LockOK(Reaper)'
  BY DEF LockOK, Works, Makes, Making, Stops, Reaps, At

LEMMA VictimIsIt ==
  ASSUME BrokerTypeOK, RegistryOK, NEW i \in Ids, NEW n,
         reg[i].n \in {0, n} \/ procs[i] # 0
  PROVE  reg[i].n \in {0, Victim(i, n)}
  BY DEF RegistryOK, Recorded, Victim

LEMMA OwnLocks ==
  ASSUME BrokerTypeOK, BrokerTypeOK', RegistryOK, \A r \in Actors : LockOK(r),
         NEW r \in Actors,
         Proceeds(r) \/ \E i \in Ids : r \in Requests /\ (Up(r, i) \/ Down(r, i)),
         ~ Add(r) \/ Throw(r)
  PROVE  LockOK(r)'
<1> USE ActorFacts
<1> PICK i : i = op[r].id
  OBVIOUS
<1>0. \A j \in Ids : RecordFades(j)
  BY RequestsAreQuiet DEF Quiet, Fades
<1>1. \A j \in Ids : reg[j] = None => reg'[j] = None
  BY <1>0 DEF RecordFades
<1>2. LockOK(r) /\ op[r] \in Ops
  BY DEF BrokerTypeOK
<1>3. ASSUME NEW j \in Ids, r \in Requests, Up(r, j) \/ Down(r, j) PROVE LockOK(r)'
  <2>1. PICK label \in {"up", "down"}, n \in {0, reg[j].n} :
            /\ op' = [op EXCEPT ![r].pc = label, ![r].id = j, ![r].n = n]
            /\ (label = "down" => n = reg[j].n)
    BY <1>3 DEF Up, Down, Begin
  <2>2. op'[r].pc = label /\ op'[r].id = j /\ op'[r].n = n /\ op'[r].todo = op[r].todo
    BY <1>2, <2>1 DEF BrokerTypeOK, Ops
  <2>3. op[r].todo = {} /\ reg' = reg
    BY <1>2, <1>3 DEF Up, Down, Begin, LockOK
  <2> QED
    BY <1>3, <2>1, <2>2, <2>3 DEF LockOK, Works, Makes, Stops, Reaps, At
<1>4. CASE Reuse(r)
  <2>1. op'[r].pc \in {"await", "ended"}
    BY <1>4 DEF Reuse, Return, BrokerTypeOK, Ended, Unbegun
  <2> QED
    BY <1>2, <1>4, <2>1, IdleIsFine DEF LockOK, Reuse, At
<1>5. CASE Replace(r) \/ StopForDown(r)
  <2>1. i \in Ids /\ Holds(r, i) /\ op[r].todo = {} /\ r # Reaper
    BY <1>2, <1>5 DEF Replace, StopForDown, LockOK, Works, At
  <2>2. PICK n \in Spawns, label \in {"stop", "replace"} :
           StopFor(r, n, label) /\ reg[i].n \in {0, Victim(i, n)}
    BY <1>2, <1>5, <2>1, VictimIsIt
       DEF Replace, StopForDown, LockOK, BrokerTypeOK, Records, Ops
  <2>3. op'[r].pc = label /\ op'[r].id = i /\ op'[r].n = Victim(i, n) /\ op'[r].todo = {}
    BY <1>2, <2>1, <2>2 DEF StopFor, BrokerTypeOK, Ops
  <2>a. UNCHANGED <<locks, reg>>
    BY <2>2 DEF StopFor
  <2>4. Holds(r, i)' /\ reg' = reg
    BY <2>1, <2>a DEF Holds
  <2> QED
    BY <2>1, <2>2, <2>3, <2>4, StoppingIsFine
<1>6. CASE Stopped(r)
  <2>1. i \in Ids /\ Holds(r, i) /\ op[r].todo = {} /\ r # Reaper
    BY <1>2, <1>6 DEF Stopped, LockOK, Works, Stops
  <2>2. CASE op' = [op EXCEPT ![r] = Ended]
    <3>1. op'[r].pc = "ended"
      BY <2>2, ConstantsTyped DEF BrokerTypeOK
    <3> QED
      BY <2>1, <3>1, IdleIsFine
  <2>3. CASE op' = [op EXCEPT ![r].pc = "create", ![r].n = 0] /\ UNCHANGED locks
    <3>1. op'[r].pc = "create" /\ op'[r].id = i /\ op'[r].todo = {}
      BY <1>2, <2>1, <2>3 DEF BrokerTypeOK, Ops
    <3>2. Holds(r, i)' /\ reg'[i] = None
      BY <1>6, <2>1, <2>3 DEF Holds, Stopped, Forget, Drop, BrokerTypeOK
    <3> QED
      BY <2>1, <3>1, <3>2, MakingIsFine
  <2> QED
    BY <1>6, <2>2, <2>3 DEF Stopped
<1>7. CASE MakeWay(r)
  <2>1. i \in Ids /\ Holds(r, i) /\ op[r].todo = {} /\ r # Reaper
    BY <1>2, <1>7 DEF MakeWay, LockOK, Works, At
  <2>2. op'[r].pc = "create" /\ op'[r].id = i /\ op'[r].todo = {}
    BY <1>2, <1>7, <2>1 DEF MakeWay, Goto, BrokerTypeOK, Ops
  <2>a. UNCHANGED locks /\ Drop(i)
    BY <1>7 DEF MakeWay
  <2>3. Holds(r, i)' /\ reg'[i] = None
    BY <2>1, <2>a DEF Holds, Drop, BrokerTypeOK
  <2> QED
    BY <2>1, <2>2, <2>3, MakingIsFine
<1>8. CASE Create(r) \/ AssertCapacity(r) \/ Pick(r) \/ Add(r)
  <2>1. i \in Ids /\ Holds(r, i) /\ Making(r) /\ r # Reaper
    BY <1>2, <1>8 DEF Create, AssertCapacity, Pick, Add, LockOK, Works, Makes, At
  <2>2. CASE Throw(r)
    <3>1. op'[r].pc = "ended"
      BY <2>2, ConstantsTyped DEF Throw, BrokerTypeOK
    <3> QED
      BY <2>1, <3>1, IdleIsFine
  <2>3. ASSUME UNCHANGED <<locks, reg>>, op'[r].id = i,
               op'[r].pc \in {"reap", "assert", "pick", "add"},
               \A t \in op'[r].todo : t.id # i
        PROVE  LockOK(r)'
    <3>1. Holds(r, i)' /\ reg'[i] = None
      BY <2>1, <2>3 DEF Holds, Making
    <3> QED
      BY <2>1, <2>3, <3>1, MakingIsFine
  <2>4. CASE Create(r)
    <3>1. \A t \in Idle : t.id # i
      BY <2>1 DEF Idle, IsIdle, IsDead, IsActive, Making, None
    <3>2. /\ op'[r].id = i
          /\ op'[r].pc = IF IsFull THEN "reap" ELSE "assert"
          /\ op'[r].todo = IF IsFull THEN Idle ELSE {}
      BY <1>2, <2>4 DEF Create, BrokerTypeOK, Ops
    <3>3. UNCHANGED <<locks, reg>>
      BY <2>4 DEF Create
    <3>4. op'[r].pc \in {"reap", "assert"} /\ op'[r].todo \in SUBSET Idle
      BY <3>2
    <3> QED
      BY <2>3, <3>1, <3>2, <3>3, <3>4
  <2>5. CASE AssertCapacity(r) /\ ~ Throw(r)
    <3>1. op'[r].id = i /\ op'[r].pc = "pick" /\ op'[r].todo = op[r].todo
      BY <1>2, <2>5 DEF AssertCapacity, BrokerTypeOK, Ops
    <3> QED
      BY <2>1, <2>3, <2>5, <3>1 DEF AssertCapacity, Making
  <2>6. CASE Pick(r) /\ ~ Throw(r)
    <3>1. op'[r].id = i /\ op'[r].pc = "add" /\ op'[r].todo = op[r].todo
      BY <1>2, <2>6 DEF Pick, BrokerTypeOK, Ops
    <3> QED
      BY <2>1, <2>3, <2>6, <3>1 DEF Pick, Making
  <2> QED
    BY <1>8, <2>2, <2>4, <2>5, <2>6
<1>9. CASE Awaited(r)
  <2>1. op'[r].pc = "ended" /\ r # Reaper
    BY <1>2, <1>9, ConstantsTyped DEF Awaited, At, LockOK, BrokerTypeOK
  <2> QED
    BY <2>1, IdleIsFine
<1>10. CASE ReapNext(r)
  <2>1. CASE op[r].todo = {}
    <3>1. CASE r = Reaper
      BY <1>10, <2>1, <3>1, IdleIsFine DEF ReapNext, BrokerTypeOK
    <3>2. CASE r # Reaper
      <4>1. i \in Ids /\ Holds(r, i) /\ Making(r)
        BY <1>2, <1>10, <3>2 DEF ReapNext, LockOK, Works, Makes, At
      <4>a. /\ op' = [op EXCEPT ![r] = [op[r] EXCEPT !.pc = "assert", !.at = Nowhere]]
            /\ UNCHANGED <<locks, reg>>
        BY <1>10, <2>1, <3>2 DEF ReapNext
      <4>2. op'[r].id = i /\ op'[r].pc = "assert" /\ op'[r].todo = {}
        BY <1>2, <2>1, <4>a DEF BrokerTypeOK, Ops
      <4>3. Holds(r, i)' /\ reg'[i] = None
        BY <4>1, <4>a DEF Holds, Making
      <4> QED
        BY <3>2, <4>1, <4>2, <4>3, MakingIsFine
    <3> QED
      BY <3>1, <3>2
  <2>2. CASE op[r].todo # {}
    <3>1. PICK t \in op[r].todo :
             /\ Enqueue(r, t.id)
             /\ op' = [op EXCEPT ![r].pc = "reaplock", ![r].todo = @ \ {t}, ![r].at = t]
      BY <1>10, <2>2 DEF ReapNext
    <3>2. t \in Tasks /\ t.id \in Ids
      BY <1>2 DEF Ops, Tasks
    <3>3. /\ op'[r].id = i /\ op'[r].pc = "reaplock" /\ op'[r].at = t
          /\ op'[r].todo = op[r].todo \ {t}
      BY <1>2, <3>1 DEF BrokerTypeOK, Ops
    <3>4. r # Reaper => i \in Ids /\ Holds(r, i)' /\ reg'[i] = None
                        /\ \A s \in op[r].todo : s.id # i
      <4>1. r # Reaper => i \in Ids /\ Holds(r, i) /\ Making(r)
        BY <1>2, <1>10 DEF ReapNext, LockOK, Works, Makes, At
      <4>2. ASSUME r # Reaper PROVE Holds(r, i)'
        BY <3>1, <3>2, <4>1, <4>2, EnqueueAlone
      <4> QED
        BY <1>1, <4>1, <4>2 DEF Making
    <3> QED
      BY <3>2, <3>3, <3>4, ReapingIsFine
  <2> QED
    BY <2>1, <2>2
<1>11. CASE ReapOne(r) \/ ReapStopped(r)
  <2> PICK t : t = op[r].at
    OBVIOUS
  <2>1. t \in Tasks /\ t.id \in Ids /\ Holds(r, t.id)
    BY <1>2, <1>11 DEF ReapOne, ReapStopped, LockOK, Reaps, At, Tasks
  <2>2. r # Reaper => i \in Ids /\ Holds(r, i) /\ Making(r) /\ t.id # i
    BY <1>2, <1>11 DEF ReapOne, ReapStopped, LockOK, Works, Makes, Making, Reaps, At
  <2>3. ASSUME Unlock(r, t.id), op'[r].id = i, op'[r].pc = "reap", op'[r].todo = op[r].todo
        PROVE  LockOK(r)'
    <3>1. r # Reaper => i \in Ids /\ Holds(r, i)' /\ reg'[i] = None
                        /\ \A s \in op'[r].todo : s.id # i
      BY <1>1, <2>1, <2>2, <2>3, UnlockOthers DEF Making
    <3> QED
      BY <2>3, <3>1, MakingIsFine, ReaperIsFine
  <2>4. CASE ReapOne(r) /\ ~ t.dead /\ StillIdle(t)
    <3>1. reg[t.id].n \in {0, Victim(t.id, t.n)}
      BY <2>1, <2>4, VictimIsIt DEF StillIdle
    <3>2. UNCHANGED <<locks, reg>>
      BY <2>4 DEF ReapOne
    <3>3. /\ op'[r].id = i /\ op'[r].pc = "reapstop" /\ op'[r].at = t
          /\ op'[r].todo = op[r].todo /\ op'[r].n = Victim(t.id, t.n)
      BY <1>2, <2>4 DEF ReapOne, BrokerTypeOK, Ops
    <3>4. Holds(r, t.id)' /\ (r # Reaper => Holds(r, i)' /\ reg'[i] = None)
          /\ (r # Reaper => \A s \in op'[r].todo : s.id # i)
      BY <2>1, <2>2, <3>2, <3>3 DEF Holds, Making
    <3> QED
      BY <2>1, <2>2, <3>1, <3>2, <3>3, <3>4, ReapingIsFine
  <2>5. CASE ReapOne(r) /\ ~ (~ t.dead /\ StillIdle(t))
    <3>1. Unlock(r, t.id) /\ Goto(r, "reap")
      BY <2>5 DEF ReapOne
    <3>2. op'[r].id = i /\ op'[r].pc = "reap" /\ op'[r].todo = op[r].todo
      BY <1>2, <3>1 DEF Goto, BrokerTypeOK, Ops
    <3> QED
      BY <2>3, <3>1, <3>2
  <2>6. CASE ReapStopped(r)
    <3>1. op'[r].id = i /\ op'[r].pc = "reap" /\ op'[r].todo = op[r].todo
      BY <1>2, <2>6 DEF ReapStopped, BrokerTypeOK, Ops
    <3> QED
      BY <2>3, <2>6, <3>1 DEF ReapStopped
  <2> QED
    BY <1>11, <2>4, <2>5, <2>6
<1> QED
  BY <1>3, <1>4, <1>5, <1>6, <1>7, <1>8, <1>9, <1>10, <1>11 DEF Proceeds

\* Who makes, stops or reaps another instance is not disturbed by an addition, and a down
\* that waits for this one will find its handle.
LEMMA AdditionKeepsLocks ==
  ASSUME BrokerTypeOK, BrokerTypeOK', \A r \in Actors : LockOK(r),
         NEW r \in Actors, Add(r), ~ Throw(r), NEW q \in Actors
  PROVE  LockOK(q)'
<1> USE ActorFacts
<1> PICK i : i = op[r].id
  OBVIOUS
<1>1. /\ r \in Requests /\ i \in Ids /\ Holds(r, i)
      /\ reg' = [reg EXCEPT ![i] =
            [n |-> r, status |-> "starting", port |-> op[r].port, idle |-> FALSE]]
      /\ procs' = [procs EXCEPT ![i] = r]
      /\ op' = [op EXCEPT ![r] = [Unbegun EXCEPT !.pc = "await", !.n = r]]
      /\ Unlock(r, i)
  BY Addition
<1>2. CASE q = r
  <2>1. op'[r] = [Unbegun EXCEPT !.pc = "await", !.n = r]
    BY <1>1 DEF BrokerTypeOK
  <2>2. op'[r].pc = "await"
    BY <2>1 DEF Unbegun
  <2> QED
    BY <1>1, <1>2, <2>2, IdleIsFine
<1>3. CASE q # r
  <2>1. op'[q] = op[q] /\ \A j \in Ids : Holds(q, j) => Holds(q, j)' /\ j # i
    <3>1. op'[q] = op[q]
      BY <1>1, <1>3 DEF BrokerTypeOK
    <3>2. ASSUME NEW j \in Ids, Holds(q, j) PROVE Holds(q, j)' /\ j # i
      BY <1>1, <1>3, <3>2, UnlockAlone DEF Holds
    <3> QED
      BY <3>1, <3>2
  <2>2. \A j \in Ids \ {i} : reg'[j] = reg[j] /\ procs'[j] = procs[j]
    BY <1>1 DEF BrokerTypeOK
  <2>3. procs'[i] # 0
    BY <1>1 DEF BrokerTypeOK
  <2>4. LockOK(q)
    OBVIOUS
  <2>5. Works(q)' = Works(q) /\ Makes(q)' = Makes(q) /\ Stops(q)' = Stops(q)
        /\ Reaps(q)' = Reaps(q) /\ \A label \in Labels : At(q, label)' = At(q, label)
    BY <2>1 DEF Works, Makes, Stops, Reaps, At
  <2>6. (Stops(q) => Works(q)) /\ (Makes(q) => Works(q)) /\ (At(q, "down") => Works(q))
        /\ (At(q, "reapstop") => Reaps(q)) /\ (Reaps(q) => op[q].at.id \in Ids)
    BY <2>4 DEF Works, At, Reaps, LockOK, Tasks
  <2>7. Makes(q) => Making(q)'
    BY <2>1, <2>2, <2>4, <2>5, <2>6 DEF LockOK, Making
  <2>8. At(q, "down") => reg'[op[q].id].n \in {0, op[q].n} \/ procs'[op[q].id] # 0
    BY <2>2, <2>3, <2>4, <2>6 DEF LockOK
  <2>9. Stops(q) => reg'[op[q].id].n \in {0, op[q].n} /\ Holds(q, op[q].id)'
    BY <2>1, <2>2, <2>4, <2>6 DEF LockOK
  <2>10. At(q, "reapstop") => Holds(q, op[q].at.id)' /\ reg'[op[q].at.id].n \in {0, op[q].n}
    BY <2>1, <2>2, <2>4, <2>6 DEF LockOK
  <2>11. Makes(q) => Holds(q, op[q].id)'
    <3>1. Makes(q) => op[q].id \in Ids /\ Holds(q, op[q].id)
      BY <2>4, <2>6 DEF LockOK
    <3> QED
      BY <2>1, <3>1
  <2>12. LockOK(q)' <=>
            /\ Works(q) => op[q].id \in Ids
            /\ At(q, "none") \/ op[q].pc \in {"up", "down"} \/ Stops(q) => op[q].todo = {}
            /\ Stops(q) \/ Makes(q) => Holds(q, op[q].id)'
            /\ Stops(q) => reg'[op[q].id].n \in {0, op[q].n}
            /\ Reaps(q) => op[q].at \in Tasks
            /\ At(q, "reapstop") => /\ Holds(q, op[q].at.id)'
                                    /\ reg'[op[q].at.id].n \in {0, op[q].n}
            /\ Makes(q) => Making(q)'
            /\ At(q, "down") => \/ reg'[op[q].id].n \in {0, op[q].n}
                                \/ procs'[op[q].id] # 0
            /\ q = Reaper => op[q].pc \in {"none", "reap", "reaplock", "reapstop"}
    BY <2>1, <2>5 DEF LockOK, Labels
  <2> QED
    BY <2>4, <2>7, <2>8, <2>9, <2>10, <2>11, <2>12 DEF LockOK
<1> QED
  BY <1>2, <1>3

LEMMA LocksHold ==
  ASSUME BrokerTypeOK, BrokerTypeOK', RegistryOK, \A r \in Actors : LockOK(r), [Next]_vars
  PROVE  \A q \in Actors : LockOK(q)'
<1> USE ActorFacts
<1> TAKE q \in Actors
<1>1. ASSUME UNCHANGED <<op, locks>>, Quiet PROVE LockOK(q)'
  BY <1>1, OthersKeepTheirs DEF Quiet, Holds
<1>2. CASE UNCHANGED vars
  <2>1. UNCHANGED <<op, locks, reg, procs>>
    BY <1>2 DEF vars, memory
  <2> QED
    BY <2>1, OthersKeepTheirs, StillFades DEF RegistryOK, Holds
<1>3. ASSUME NEW r \in Actors,
             Proceeds(r) \/ \E i \in Ids : r \in Requests /\ (Up(r, i) \/ Down(r, i)),
             ~ Add(r) \/ Throw(r)
      PROVE  LockOK(q)'
  <2>1. CASE q = r
    BY <1>3, <2>1, OwnLocks
  <2>2. CASE q # r
    <3>1. op'[q] = op[q] /\ \A i \in Ids : Holds(q, i) => Holds(q, i)'
      BY <1>3, <2>2, RequestsAlone DEF Alone
    <3>2. \A i \in Ids : Fades(i)
      BY <1>3, RequestsAreQuiet DEF Quiet
    <3> QED
      BY <3>1, <3>2, OthersKeepTheirs
  <2> QED
    BY <2>1, <2>2
<1>4. ASSUME NEW r \in Actors, Add(r), ~ Throw(r) PROVE LockOK(q)'
  BY <1>4, AdditionKeepsLocks
<1>5. ASSUME NEW r \in Requests, NEW i \in Ids, Up(r, i) \/ Down(r, i) PROVE LockOK(q)'
  <2>1. ~ Add(r)
    BY <1>5 DEF Up, Down, Begin, Add, At
  <2> QED
    BY <1>3, <1>5, <2>1
<1>6. CASE Tick
  <2>1. Quiet /\ UNCHANGED <<locks, reg>>
    BY <1>6, OthersAreQuiet DEF Tick
  <2>2. CASE q = Reaper
    <3>1. op'[Reaper].pc = "reap"
      BY <1>6 DEF Tick, BrokerTypeOK, Ops
    <3> QED
      BY <2>2, <3>1, ReaperIsFine
  <2>3. CASE q # Reaper
    <3>1. op'[q] = op[q]
      BY <1>6, <2>3 DEF Tick, BrokerTypeOK
    <3> QED
      BY <2>1, <3>1, OthersKeepTheirs DEF Quiet, Holds
  <2> QED
    BY <2>2, <2>3
<1>7. ASSUME NEW p \in alive, Bind(p) \/ Exit(p) PROVE LockOK(q)'
  BY <1>1, <1>7, OthersAreQuiet DEF Bind, Exit, memory
<1>8. ASSUME NEW w \in watching, Watches(w) PROVE LockOK(q)'
  BY <1>1, <1>8, OthersAreQuiet DEF Watches, Ready, Fails, AdoptedPolls, AdoptedReady,
     AdoptedFails, AdoptedLeaves
<1>9. ASSUME NEW i \in Ids, Age(i) PROVE LockOK(q)'
  BY <1>1, <1>9, OthersAreQuiet DEF Age, memory
<1>10. CASE Restart
  <2>1. op'[q] = IF q = Reaper \/ At(q, "none") THEN Unbegun ELSE Ended
    BY <1>10 DEF Restart
  <2>2. op'[q] = Unbegun \/ (q # Reaper /\ op'[q].pc = "ended")
    BY <2>1, ConstantsTyped
  <2> QED
    BY <2>2, IdleIsFine
<1> QED
  BY <1>2, <1>3, <1>4, <1>5, <1>6, <1>7, <1>8, <1>9, <1>10 DEF Next

-----------------------------------------------------------------------------
(* faith *)

Faith == /\ \A p \in alive : Kept(p) /\ Faithful(p)
         /\ \A w \in watching : Boot(w)

\* A mistake is not forgotten.
LEMMA MistakesStay == ASSUME BrokerTypeOK, [Next]_vars, mistaken PROVE mistaken'
<1>1. CASE UNCHANGED vars
  BY <1>1 DEF vars
<1>2. ASSUME NEW r \in Requests, NEW i \in Ids, Up(r, i) \/ Down(r, i) PROVE mistaken'
  BY <1>2 DEF Up, Down
<1>3. ASSUME NEW r \in Actors, Proceeds(r) PROVE mistaken'
  BY <1>3 DEF Proceeds, Reuse, Replace, StopForDown, StopFor, Stopped, MakeWay, Create,
     AssertCapacity, Pick, Add, Awaited, ReapNext, ReapOne, ReapStopped, Mistakes
<1>4. CASE Tick \/ \E i \in Ids : Age(i)
  BY <1>4 DEF Tick, Age
<1>5. ASSUME NEW w \in watching, Watches(w) PROVE mistaken'
  BY <1>5 DEF Watches, Ready, Fails, AdoptedPolls, AdoptedReady, AdoptedFails,
     AdoptedLeaves, Mistakes
<1>6. ASSUME NEW p \in alive, Bind(p) \/ Exit(p) PROVE mistaken'
  BY <1>6 DEF Bind, Exit, Mistakes
<1>7. CASE Restart
  BY <1>7 DEF Restart
<1> QED
  BY <1>1, <1>2, <1>3, <1>4, <1>5, <1>6, <1>7 DEF Next

\* The watchers that are left are no more decided than they were.
LikeWatchers ==
    \A v \in watching' : \E w \in watching :
       v.n = w.n /\ v.id = w.id /\ (w.ending => v.ending)

\* A record is what it was, or its process is as good as dead when it goes.
Forgets(i) ==
    \/ reg'[i].n = reg[i].n /\ reg'[i].status = reg[i].status
    \/ reg'[i] = None /\ \A q \in alive' : q.n = reg[i].n => q.killed

LEMMA ForgettingIsFaithful ==
  ASSUME BrokerTypeOK, BrokerTypeOK', Faith, SameProcesses, LikeWatchers,
         \A i \in Ids : Forgets(i)
  PROVE  Faith'
<1> USE ActorFacts
<1>1. ASSUME NEW q \in alive' PROVE Kept(q)' /\ Faithful(q)'
  <2>1. PICK p \in alive : /\ q.n = p.n /\ q.id = p.id
                           /\ p.killed => q.killed
                           /\ p.bound => q.bound
    BY DEF SameProcesses
  <2>2. Kept(p) /\ Faithful(p) /\ p.id \in Ids /\ p.n # 0
    BY DEF Faith, BrokerTypeOK, Processes
  <2>3. Forgets(p.id)
    BY <2>2
  <2> QED
    BY <2>1, <2>2, <2>3 DEF Kept, Faithful, Forgets, None
<1>2. ASSUME NEW v \in watching' PROVE Boot(v)'
  <2>1. PICK w \in watching : v.n = w.n /\ v.id = w.id /\ (w.ending => v.ending)
    BY DEF LikeWatchers
  <2>2. Boot(w) /\ w.id \in Ids /\ w.n # 0
    BY DEF Faith, BrokerTypeOK, Watchers, AnyWatchers
  <2> QED
    BY <2>1, <2>2 DEF Boot, Forgets, None
<1> QED
  BY <1>1, <1>2 DEF Faith

\* Incarnation m of instance j is marked for what it is, and nobody waits for it any more.
LEMMA MarkingIsFaithful ==
  ASSUME BrokerTypeOK, BrokerTypeOK', RegistryOK, Faith, SameProcesses, LikeWatchers,
         NEW j \in Ids, NEW status \in {"ready", "failed"}, Becomes(j, status),
         NEW m, ~ Misplaces(j, m),
         reg[j].n = m => /\ \A v \in watching' : v.n = m /\ v.id = j => v.ending
                         /\ \A q \in alive' : q.n = m => IF status = "ready" THEN q.bound
                                                         ELSE q.killed
  PROVE  Faith'
<1> USE ActorFacts
<1>1. \A i \in Ids \ {j} : reg'[i] = reg[i]
  BY DEF BrokerTypeOK, Becomes
<1>2. reg[j].n = 0 => reg'[j] = reg[j]
  BY DEF BrokerTypeOK, Becomes, Marked, RegistryOK, Recorded
<1>3. reg[j].n # 0 => reg[j].n = m /\ reg'[j].n = m /\ reg'[j].status = status
  BY DEF BrokerTypeOK, Becomes, Marked, RegistryOK, Recorded, Records, Misplaces
<1>4. ASSUME NEW q \in alive' PROVE Kept(q)' /\ Faithful(q)'
  <2>1. PICK p \in alive : /\ q.n = p.n /\ q.id = p.id
                           /\ p.killed => q.killed
                           /\ p.bound => q.bound
    BY DEF SameProcesses
  <2>2. Kept(p) /\ Faithful(p) /\ p.id \in Ids /\ p.n # 0
    BY DEF Faith, BrokerTypeOK, Processes
  <2>3. CASE p.id # j \/ reg[j].n = 0
    <3>1. reg'[p.id] = reg[p.id]
      BY <1>1, <1>2, <2>2, <2>3
    <3> QED
      BY <2>1, <2>2, <3>1 DEF Kept, Faithful
  <2>4. CASE p.id = j /\ reg[j].n # 0
    BY <1>3, <2>1, <2>2, <2>4 DEF Kept, Faithful
  <2> QED
    BY <2>3, <2>4
<1>5. ASSUME NEW v \in watching' PROVE Boot(v)'
  <2>1. PICK w \in watching : v.n = w.n /\ v.id = w.id /\ (w.ending => v.ending)
    BY DEF LikeWatchers
  <2>2. Boot(w) /\ w.id \in Ids /\ w.n # 0
    BY DEF Faith, BrokerTypeOK, Watchers, AnyWatchers
  <2>3. CASE w.id # j \/ reg[j].n = 0
    <3>1. reg'[w.id] = reg[w.id]
      BY <1>1, <1>2, <2>2, <2>3
    <3> QED
      BY <2>1, <2>2, <3>1 DEF Boot
  <2>4. CASE w.id = j /\ reg[j].n # 0
    BY <1>3, <2>1, <2>2, <2>4 DEF Boot
  <2> QED
    BY <2>3, <2>4
<1> QED
  BY <1>4, <1>5 DEF Faith

LEMMA StillLike ==
  watching' \in SUBSET watching => LikeWatchers
  BY DEF LikeWatchers

LEMMA AdditionIsFaithful ==
  ASSUME BrokerTypeOK, RegistryOK, \A r \in Actors : LockOK(r), Faith,
         NEW r \in Actors, Add(r), ~ Throw(r)
  PROVE  Faith'
<1> PICK i : i = op[r].id
  OBVIOUS
<1> PICK new : new = [n |-> r, id |-> i, port |-> op[r].port,
                      bound |-> FALSE, killed |-> FALSE, child |-> TRUE]
  OBVIOUS
<1>1. /\ r \in Requests /\ i \in Ids /\ At(r, "add") /\ reg[i] = None
      /\ reg' = [reg EXCEPT ![i] =
            [n |-> r, status |-> "starting", port |-> op[r].port, idle |-> FALSE]]
      /\ alive' = alive \union {new}
      /\ watching' = watching \union {Watcher(i, r, FALSE)}
  BY Addition
<1>2. /\ reg'[i].n = r /\ reg'[i].status = "starting"
      /\ \A j \in Ids \ {i} : reg'[j] = reg[j]
  BY <1>1 DEF BrokerTypeOK
<1>3. ~ Spawned(r)
  BY <1>1 DEF At, Spawned
<1>4. ASSUME NEW q \in alive' PROVE Kept(q)' /\ Faithful(q)'
  <2>1. CASE q = new
    BY <1>2, <2>1 DEF Kept, Faithful
  <2>2. CASE q \in alive
    <3>1. q.n # r /\ q.id \in Ids /\ Kept(q) /\ Faithful(q) /\ q.n # 0
      BY <1>3, <2>2, ActorFacts DEF RegistryOK, ProcessOK, Faith, BrokerTypeOK, Processes
    <3>2. q.id = i => q.killed
      BY <1>1, <3>1 DEF Kept, None
    <3> QED
      BY <1>2, <3>1, <3>2 DEF Kept, Faithful
  <2> QED
    BY <1>1, <2>1, <2>2
<1>5. ASSUME NEW v \in watching' PROVE Boot(v)'
  <2>1. CASE v = Watcher(i, r, FALSE)
    BY <1>2, <2>1 DEF Watcher, Boot
  <2>2. CASE v \in watching
    <3>1. v.n # r /\ v.id \in Ids /\ Boot(v)
      BY <1>3, <2>2 DEF RegistryOK, WatcherOK, Faith, BrokerTypeOK, Watchers, AnyWatchers
    <3> QED
      BY <1>2, <3>1 DEF Boot
  <2> QED
    BY <1>1, <2>1, <2>2
<1> QED
  BY <1>4, <1>5 DEF Faith

LEMMA SameRecordForgets ==
  ASSUME NEW i, reg'[i] = reg[i] PROVE Forgets(i)
  BY DEF Forgets

LEMMA DropForgets ==
  ASSUME BrokerTypeOK, NEW j \in Ids, Drop(j), \A q \in alive' : q.n = reg[j].n => q.killed
  PROVE  \A i \in Ids : Forgets(i)
<1>1. reg'[j] = None /\ \A i \in Ids \ {j} : reg'[i] = reg[i]
  BY DEF BrokerTypeOK, Drop
<1> QED
  BY <1>1 DEF Forgets

LEMMA IdleForgets ==
  ASSUME BrokerTypeOK, NEW j \in Ids, NEW b, reg' = [reg EXCEPT ![j].idle = b]
  PROVE  \A i \in Ids : Forgets(i)
<1>1. reg[j] \in Records
  BY DEF BrokerTypeOK
<1>2. reg' = [reg EXCEPT ![j] = [reg[j] EXCEPT !.idle = b]]
  BY DEF BrokerTypeOK
<1>3. reg'[j] = [reg[j] EXCEPT !.idle = b] /\ \A i \in Ids \ {j} : reg'[i] = reg[i]
  BY <1>2 DEF BrokerTypeOK
<1>4. [reg[j] EXCEPT !.idle = b].n = reg[j].n /\ [reg[j] EXCEPT !.idle = b].status = reg[j].status
  BY <1>1 DEF Records
<1> QED
  BY <1>3, <1>4 DEF Forgets

LEMMA RequestsAreFaithful ==
  ASSUME BrokerTypeOK, BrokerTypeOK', RegistryOK, \A r \in Actors : LockOK(r), Faith,
         ~ mistaken', NEW r \in Actors,
         Proceeds(r) \/ \E i \in Ids : r \in Requests /\ (Up(r, i) \/ Down(r, i)),
         ~ Add(r) \/ Throw(r)
  PROVE  Faith'
<1> USE ActorFacts
<1>1. SameProcesses
  BY RequestsAreQuiet DEF Quiet
<1>2. ASSUME UNCHANGED watching, \A i \in Ids : Forgets(i) PROVE Faith'
  BY <1>1, <1>2, StillLike, ForgettingIsFaithful
<1>3. ASSUME UNCHANGED <<reg, watching>> PROVE Faith'
  BY <1>2, <1>3, SameRecordForgets
<1>4. CASE Reuse(r)
  <2>1. op[r].id \in Ids
    BY <1>4 DEF Reuse, LockOK, Works, At
  <2>2. \A i \in Ids : Forgets(i)
    BY <1>4, <2>1, IdleForgets DEF Reuse, Touch
  <2> QED
    BY <1>2, <1>4, <2>2 DEF Reuse
<1>5. CASE Stopped(r)
  <2> PICK j : j = op[r].id
    OBVIOUS
  <2>1. j \in Ids /\ reg[j].n \in {0, op[r].n}
    BY <1>5 DEF Stopped, LockOK, Works, Stops
  <2>2. UNCHANGED <<alive, watching>> /\ Drop(j) /\ ~ Runs(op[r].n)
    BY <1>5 DEF Stopped, Forget
  <2>3. \A q \in alive' : q.n = reg[j].n => q.killed
    BY <2>1, <2>2 DEF Runs, BrokerTypeOK, Processes
  <2> QED
    BY <1>2, <2>1, <2>2, <2>3, DropForgets
<1>6. CASE MakeWay(r)
  <2> PICK j : j = op[r].id
    OBVIOUS
  <2>1. j \in Ids
    BY <1>6 DEF MakeWay, LockOK, Works, At
  <2>2. UNCHANGED <<alive, watching>> /\ Drop(j) /\ ~ IsActive(reg[j])
    BY <1>6 DEF MakeWay
  <2>3. reg[j].status \in {"none", "failed"}
    BY <2>1, <2>2 DEF IsActive, BrokerTypeOK, Records, Statuses
  <2>4. ASSUME NEW q \in alive, q.n = reg[j].n PROVE q.killed
    <3>1. q.id = j /\ q.n # 0 /\ Faithful(q)
      BY <2>1, <2>4 DEF RegistryOK, ProcessOK, BrokerTypeOK, Processes, Faith
    <3>2. reg[j].status = "failed"
      BY <2>1, <2>3, <2>4, <3>1 DEF RegistryOK, Recorded
    <3> QED
      BY <2>4, <3>1, <3>2 DEF Faithful
  <2> QED
    BY <1>2, <2>1, <2>2, <2>4, DropForgets
<1>7. CASE ReapOne(r)
  <2> PICK t : t = op[r].at
    OBVIOUS
  <2>1. t.id \in Ids
    BY <1>7 DEF ReapOne, LockOK, Reaps, At, Tasks
  <2>2. CASE UNCHANGED reg
    BY <1>3, <1>7, <2>2 DEF ReapOne
  <2>3. CASE Drop(t.id) /\ Mistakes(t.id, t.n) /\ ~ Runs(t.n) /\ UNCHANGED <<alive, watching>>
    <3>1. reg[t.id].n \in {0, t.n}
      BY <2>3 DEF Mistakes, Misplaces
    <3>2. \A q \in alive' : q.n = reg[t.id].n => q.killed
      BY <2>3, <3>1 DEF Runs, BrokerTypeOK, Processes
    <3> QED
      BY <1>2, <2>1, <2>3, <3>2, DropForgets
  <2> QED
    BY <1>7, <2>2, <2>3 DEF ReapOne
<1>8. CASE ReapStopped(r)
  <2> PICK j : j = op[r].at.id
    OBVIOUS
  <2>1. j \in Ids /\ reg[j].n \in {0, op[r].n}
    BY <1>8 DEF ReapStopped, LockOK, Reaps, At, Tasks
  <2>2. UNCHANGED <<alive, watching>> /\ Drop(j) /\ ~ Runs(op[r].n)
    BY <1>8 DEF ReapStopped, Forget
  <2>3. \A q \in alive' : q.n = reg[j].n => q.killed
    BY <2>1, <2>2 DEF Runs, BrokerTypeOK, Processes
  <2> QED
    BY <1>2, <2>1, <2>2, <2>3, DropForgets
<1>9. CASE Replace(r) \/ StopForDown(r)
  BY <1>3, <1>9 DEF Replace, StopForDown, StopFor
<1>10. CASE Create(r) \/ AssertCapacity(r) \/ Pick(r) \/ Awaited(r) \/ ReapNext(r)
  BY <1>3, <1>10 DEF Create, AssertCapacity, Pick, Awaited, ReapNext
<1>11. CASE Add(r)
  BY <1>3, <1>11, Refusal
<1>12. ASSUME NEW i \in Ids, Up(r, i) \/ Down(r, i) PROVE Faith'
  BY <1>3, <1>12 DEF Up, Down
<1> QED
  BY <1>4, <1>5, <1>6, <1>7, <1>8, <1>9, <1>10, <1>11, <1>12 DEF Proceeds

LEMMA WatchersAreFaithful ==
  ASSUME BrokerTypeOK, BrokerTypeOK', RegistryOK, Faith, ~ mistaken',
         NEW w \in watching, Watches(w)
  PROVE  Faith'
<1> USE ActorFacts
<1>1. SameProcesses
  BY OthersAreQuiet DEF Quiet
<1>2. w \in Watchers /\ w.id \in Ids /\ w.n # 0 /\ WatcherOK(w)
  BY DEF BrokerTypeOK, Watchers, AnyWatchers, RegistryOK
<1>3. \A v \in watching : v.n = w.n => v = w
  BY DEF RegistryOK, OneWatcher
<1>4. \A p, q \in alive : p.n = q.n => p = q
  BY DEF RegistryOK, OneProcess
<1>5. CASE Ready(w)
  <2>1. \A q \in alive' : q.n = w.n => q.bound
    BY <1>4, <1>5 DEF Ready
  <2>2. \A v \in watching' : v.n # w.n
    BY <1>3, <1>5 DEF Ready, Unwatch
  <2>3. LikeWatchers /\ Becomes(w.id, "ready") /\ ~ Misplaces(w.id, w.n)
    BY <1>5, StillLike DEF Ready, Unwatch, Mistakes
  <2> QED
    BY <1>1, <1>2, <2>1, <2>2, <2>3, MarkingIsFaithful
<1>6. CASE Fails(w)
  <2>1. \A q \in alive' : q.n = w.n => q.killed
    BY <1>6, KillSame DEF Fails, RegistryOK
  <2>2. \A v \in watching' : v.n # w.n
    BY <1>3, <1>6 DEF Fails, Unwatch
  <2>3. LikeWatchers /\ Becomes(w.id, "failed") /\ ~ Misplaces(w.id, w.n)
    BY <1>6, StillLike DEF Fails, Unwatch, Mistakes
  <2> QED
    BY <1>1, <1>2, <2>1, <2>2, <2>3, MarkingIsFaithful
<1>7. CASE AdoptedPolls(w)
  <2>1. CASE Runs(reg[w.id].n)
    <3> PICK v : v = [w EXCEPT !.saw = reg[w.id].n, !.port = reg[w.id].port]
      OBVIOUS
    <3>1. watching' = (watching \ {w}) \union {v} /\ UNCHANGED reg
      BY <1>7, <2>1 DEF AdoptedPolls
    <3>2. v.n = w.n /\ v.id = w.id /\ v.ending = w.ending
      BY <1>2 DEF Watchers, AnyWatchers
    <3>3. LikeWatchers
      BY <3>1, <3>2 DEF LikeWatchers
    <3> QED
      BY <1>1, <3>1, <3>3, SameRecordForgets, ForgettingIsFaithful
  <2>2. CASE ~ Runs(reg[w.id].n)
    <3>1. Drop(w.id) /\ UNCHANGED alive /\ LikeWatchers
      BY <1>7, <2>2, StillLike DEF AdoptedPolls, Unwatch
    <3>2. \A q \in alive' : q.n = reg[w.id].n => q.killed
      BY <2>2, <3>1 DEF Runs
    <3> QED
      BY <1>1, <1>2, <3>1, <3>2, DropForgets, ForgettingIsFaithful
  <2> QED
    BY <2>1, <2>2
<1>8. reg[w.id].n = w.n /\ w.saw # 0 => w.saw = w.n
  BY <1>2 DEF WatcherOK
<1>9. CASE AdoptedReady(w)
  <2>1. PICK p \in alive : p.bound /\ p.n = w.saw /\ ~ Misplaces(w.id, w.n)
    BY <1>9 DEF AdoptedReady
  <2>2. reg[w.id].n = w.n => \A q \in alive' : q.n = w.n => q.bound
    BY <1>4, <1>8, <1>9, <2>1 DEF AdoptedReady
  <2>3. \A v \in watching' : v.n # w.n
    BY <1>3, <1>9 DEF AdoptedReady, Unwatch
  <2>4. LikeWatchers /\ Becomes(w.id, "ready")
    BY <1>9, StillLike DEF AdoptedReady, Unwatch
  <2> QED
    BY <1>1, <1>2, <2>1, <2>2, <2>3, <2>4, MarkingIsFaithful
<1>10. CASE AdoptedFails(w)
  <2> PICK e : e = [w EXCEPT !.ending = TRUE]
    OBVIOUS
  <2>1. e.n = w.n /\ e.id = w.id /\ e.ending
    BY <1>2 DEF Watchers, AnyWatchers
  <2>2. watching' \in SUBSET ((watching \ {w}) \union {e})
    BY <1>10 DEF AdoptedFails, Unwatch
  <2>3. LikeWatchers /\ \A v \in watching' : v.n = w.n => v.ending
    BY <1>3, <2>1, <2>2 DEF LikeWatchers
  <2>4. reg[w.id].n = w.n => \A q \in alive' : q.n = w.n => q.killed
    <3>1. ASSUME reg[w.id].n = w.n PROVE Kill(w.n)
      BY <1>2, <1>8, <1>10, <3>1 DEF AdoptedFails, None
    <3> QED
      BY <3>1, KillSame DEF RegistryOK
  <2>5. Becomes(w.id, "failed") /\ ~ Misplaces(w.id, w.n)
    BY <1>10 DEF AdoptedFails, Mistakes
  <2> QED
    BY <1>1, <1>2, <2>3, <2>4, <2>5, MarkingIsFaithful
<1>11. CASE AdoptedLeaves(w)
  BY <1>1, <1>11, StillLike, SameRecordForgets, ForgettingIsFaithful DEF AdoptedLeaves, Unwatch
<1> QED
  BY <1>5, <1>6, <1>7, <1>9, <1>10, <1>11 DEF Watches

LEMMA ProcessesAreFaithful ==
  ASSUME BrokerTypeOK, BrokerTypeOK', RegistryOK, Faith, ~ mistaken',
         NEW p \in alive, Bind(p) \/ Exit(p)
  PROVE  Faith'
<1> USE ActorFacts
<1>1. SameProcesses
  BY OthersAreQuiet DEF Quiet
<1>2. LikeWatchers
  BY StillLike DEF Bind, Exit, memory
<1>3. CASE UNCHANGED reg
  BY <1>1, <1>2, <1>3, SameRecordForgets, ForgettingIsFaithful
<1>4. CASE Exit(p) /\ ~ UNCHANGED reg
  <2>1. /\ reg[p.id].status = "ready" /\ Becomes(p.id, "failed") /\ ~ Misplaces(p.id, p.n)
        /\ alive' = alive \ {p} /\ UNCHANGED watching
    BY <1>4 DEF Exit, Mistakes, memory
  <2>2. p.id \in Ids /\ \A q \in alive' : q.n # p.n
    BY <2>1 DEF BrokerTypeOK, Processes, RegistryOK, OneProcess
  <2>3. ASSUME NEW v \in watching', v.n = p.n, v.id = p.id, reg[p.id].n = p.n
        PROVE  v.ending
    <3>1. v \in watching /\ Boot(v)
      BY <2>1 DEF Faith
    <3> QED
      BY <2>1, <2>3, <3>1 DEF Boot
  <2> QED
    BY <1>1, <1>2, <2>1, <2>2, <2>3, MarkingIsFaithful
<1> QED
  BY <1>3, <1>4 DEF Bind

LEMMA RestartIsFaithful ==
  ASSUME BrokerTypeOK, BrokerTypeOK', RegistryOK, Faith, ~ mistaken', Restart
  PROVE  Faith'
<1> USE ActorFacts
<1>1. \A i \in Ids : ~ AnsweredFor(i)
  BY DEF Restart
<1>2. ASSUME NEW i \in Ids
      PROVE  reg'[i] = IF Answers(i) THEN [reg[i] EXCEPT !.status = "ready"]
                       ELSE IF Boots(i) THEN reg[i] ELSE None
  BY DEF Restart, Boots
<1>3. ASSUME NEW i \in Ids
      PROVE  /\ Answers(i) => reg'[i].n = reg[i].n /\ reg'[i].status = "ready"
             /\ Boots(i) => reg'[i] = reg[i] /\ reg[i].status = "starting" /\ ~ Answers(i)
             /\ ~ Answers(i) /\ ~ Boots(i) => reg'[i].n = 0
  BY <1>2 DEF BrokerTypeOK, Records, None, Boots
<1>4. ASSUME NEW q \in alive' PROVE Kept(q)' /\ Faithful(q)'
  <2>1. PICK p \in alive : q = [p EXCEPT !.child = FALSE]
    BY DEF Restart
  <2>2. q.n = p.n /\ q.id = p.id /\ q.port = p.port /\ q.killed = p.killed /\ q.bound = p.bound
    BY <2>1 DEF BrokerTypeOK, Processes
  <2>3. Kept(p) /\ Faithful(p) /\ ProcessOK(p) /\ p.id \in Ids /\ p.n # 0
    BY DEF Faith, RegistryOK, BrokerTypeOK, Processes
  <2>4. CASE reg[p.id].n # p.n
    BY <1>3, <2>2, <2>3, <2>4 DEF Kept, Faithful
  <2>5. CASE reg[p.id].n = p.n
    <3>1. Runs(reg[p.id].n) /\ p.port = reg[p.id].port
      BY <2>3, <2>5 DEF Runs, ProcessOK
    <3>2. Answers(p.id) => p.bound
      BY <1>1, <2>3, <2>5 DEF AnsweredFor, RegistryOK, OneProcess
    <3>3. p.bound => Answers(p.id)
      BY <3>1 DEF Answers
    <3>4. reg[p.id].status \in {"starting", "ready", "failed"}
      BY <2>3, <2>5 DEF BrokerTypeOK, Records, Statuses, RegistryOK, Recorded
    <3>5. reg[p.id].status = "starting" => Answers(p.id) \/ Boots(p.id)
      BY <3>1 DEF Boots
    <3>6. p.killed \/ Answers(p.id) \/ Boots(p.id)
      BY <2>3, <2>5, <3>3, <3>4, <3>5 DEF Faithful
    <3> QED
      BY <1>3, <2>2, <2>3, <2>5, <3>2, <3>6 DEF Kept, Faithful
  <2> QED
    BY <2>4, <2>5
<1>5. ASSUME NEW v \in watching' PROVE Boot(v)'
  <2>1. PICK i \in Ids : Boots(i) /\ v = Watcher(i, reg[i].n, TRUE)
    BY DEF Restart
  <2> QED
    BY <1>3, <2>1 DEF Boot, Watcher
<1> QED
  BY <1>4, <1>5 DEF Faith

LEMMA FaithHolds ==
  ASSUME BrokerTypeOK, BrokerTypeOK', RegistryOK, \A r \in Actors : LockOK(r), FaithOK,
         [Next]_vars
  PROVE  FaithOK'
<1> USE ActorFacts
<1> SUFFICES ASSUME ~ mistaken' PROVE Faith'
  BY DEF FaithOK, Faith
<1>1. Faith
  BY MistakesStay DEF FaithOK, Faith
<1>2. ASSUME UNCHANGED <<reg, alive, watching>> PROVE Faith'
  BY <1>1, <1>2 DEF Faith, Kept, Faithful, Boot
<1>3. CASE UNCHANGED vars
  BY <1>2, <1>3 DEF vars, memory
<1>4. ASSUME NEW r \in Requests, NEW i \in Ids, Up(r, i) \/ Down(r, i) PROVE Faith'
  BY <1>2, <1>4 DEF Up, Down
<1>5. ASSUME NEW r \in Actors, Proceeds(r) PROVE Faith'
  BY <1>1, <1>5, RequestsAreFaithful, AdditionIsFaithful
<1>6. CASE Tick
  BY <1>2, <1>6 DEF Tick
<1>7. ASSUME NEW i \in Ids, Age(i) PROVE Faith'
  <2>1. Quiet
    BY <1>7, OthersAreQuiet
  <2>2. \A j \in Ids : Forgets(j)
    BY <1>7, IdleForgets DEF Age
  <2>3. LikeWatchers
    BY <1>7, StillLike DEF Age, memory
  <2> QED
    BY <1>1, <2>1, <2>2, <2>3, ForgettingIsFaithful DEF Quiet
<1> QED
  BY <1>1, <1>3, <1>4, <1>5, <1>6, <1>7, WatchersAreFaithful, ProcessesAreFaithful,
     RestartIsFaithful DEF Next

-----------------------------------------------------------------------------
(* the theorems *)

LEMMA BrokerStarts == Init => BrokerInv
<1> SUFFICES ASSUME Init PROVE BrokerInv
  OBVIOUS
<1> USE ActorFacts, ConstantsTyped
<1>1. BrokerTypeOK
  <2>1. reg \in [Ids -> Records] /\ op \in [Actors -> Ops] /\ crashes \in Nat
    BY DEF Init
  <2>2. locks \in [Ids -> Seq(Actors)]
    BY DEF Init
  <2>3. procs \in [Ids -> Spawns] /\ pending \in [Ids -> Spawns]
    BY DEF Init, Spawns
  <2> QED
    BY <2>1, <2>2, <2>3 DEF Init, BrokerTypeOK
<1>2. RegistryOK
  BY DEF Init, RegistryOK, Recorded, OneRecord, OneProcess, OneWatcher, None
<1>3. \A r \in Actors : LockOK(r)
  BY DEF Init, LockOK, Works, Makes, Stops, Reaps, At, Unbegun
<1>4. FaithOK
  BY DEF Init, FaithOK
<1> QED
  BY <1>1, <1>2, <1>3, <1>4 DEF BrokerInv

\* The invariant holds: records, processes, watchers and locks of the daemon agree
\* through any interleaving of requests, the reaper, the watchers and restarts.
THEOREM BrokerInvariance == Spec => []BrokerInv
<1>1. BrokerInv /\ [Next]_vars => BrokerInv'
  <2> SUFFICES ASSUME BrokerInv, [Next]_vars PROVE BrokerInv'
    OBVIOUS
  <2>1. BrokerTypeOK'
    BY TypesHold DEF BrokerInv
  <2>2. RegistryOK'
    BY <2>1, RegistryHolds DEF BrokerInv
  <2>3. \A r \in Actors : LockOK(r)'
    BY <2>1, LocksHold DEF BrokerInv
  <2>4. FaithOK'
    BY <2>1, FaithHolds DEF BrokerInv
  <2> QED
    BY <2>1, <2>2, <2>3, <2>4 DEF BrokerInv, Actors
<1> QED
  BY <1>1, BrokerStarts, PTL DEF Spec

\* The types hold.
THEOREM BrokerTypeCorrect == Spec => []BrokerTypeOK
<1>1. BrokerInv => BrokerTypeOK
  BY DEF BrokerInv
<1> QED
  BY <1>1, BrokerInvariance, PTL

\* No process is lost: as long as nothing was marked for what was not its own, a process
\* that nobody has killed has the record of its id, so that a down, the reaper or the next
\* daemon finds it.
THEOREM NoProcessIsLost == Spec => []ProcessesAreKnown
<1>1. BrokerInv => ProcessesAreKnown
  BY DEF BrokerInv, FaithOK, Kept, ProcessesAreKnown
<1> QED
  BY <1>1, BrokerInvariance, PTL

\* No two actors at the same instance, be it to stop it or to make it.
OneAtAnInstance ==
    \A q, r \in Actors :
       (Stops(q) \/ Makes(q)) /\ (Stops(r) \/ Makes(r)) /\ op[q].id = op[r].id => q = r

\* Whoever stops an instance, or makes one, holds its lock: requests, the reaper and a
\* restart between them never work on the same id at once.
THEOREM LocksExclude == Spec => []OneAtAnInstance
<1>1. BrokerInv => OneAtAnInstance
  BY DEF BrokerInv, LockOK, Holds, OneAtAnInstance
<1> QED
  BY <1>1, BrokerInvariance, PTL

(* the cap *)

\* An instance is active that was not: no step but an addition or a restart does that.
Wakes(i) == i \in Active' /\ i \notin Active

LEMMA NobodyWakes ==
  ASSUME BrokerInv, [Next]_vars, ~ mistaken', ~ Restart,
         ~ \E r \in Actors : Add(r) /\ ~ Throw(r)
  PROVE  Active' \subseteq Active
<1> SUFFICES ASSUME NEW i \in Ids, Wakes(i) PROVE FALSE
  BY DEF Active, Wakes
<1> USE ActorFacts
<1>0. /\ BrokerTypeOK /\ RegistryOK /\ (\A r \in Actors : LockOK(r)) /\ Faith
      /\ \A j \in Ids : reg[j] \in Records
  BY MistakesStay DEF BrokerInv, FaithOK, Faith, BrokerTypeOK
<1>1. reg'[i].status \in {"starting", "ready"} /\ reg[i].status \notin {"starting", "ready"}
  BY DEF Wakes, Active, IsActive
<1>2. reg' # reg
  BY <1>1
<1>3. ASSUME NEW j \in Ids, Drop(j) PROVE FALSE
  BY <1>0, <1>1, <1>3 DEF Drop, None, BrokerTypeOK
<1>4. ASSUME NEW j \in Ids, NEW b, reg' = [reg EXCEPT ![j].idle = b] PROVE FALSE
  <2>1. reg' = [reg EXCEPT ![j] = [reg[j] EXCEPT !.idle = b]]
    BY <1>0, <1>4 DEF BrokerTypeOK
  <2>2. [reg[j] EXCEPT !.idle = b].status = reg[j].status
    BY <1>0 DEF Records
  <2> QED
    BY <1>0, <1>1, <2>1, <2>2 DEF BrokerTypeOK
<1>5. ASSUME NEW j \in Ids, Becomes(j, "failed") PROVE FALSE
  <2>1. reg'[j] = Marked(reg[j], "failed") /\ \A k \in Ids \ {j} : reg'[k] = reg[k]
    BY <1>0, <1>5 DEF Becomes, BrokerTypeOK
  <2>2. Marked(reg[j], "failed").status \in {"none", "failed"}
    BY <1>0 DEF Marked, None, Records
  <2> QED
    BY <1>1, <2>1, <2>2
<1>6. ASSUME NEW w \in watching, ~ w.ending, Becomes(w.id, "ready"), ~ Misplaces(w.id, w.n)
      PROVE  FALSE
  <2>1. w.id \in Ids /\ Boot(w)
    BY <1>0 DEF Faith, BrokerTypeOK, Watchers, AnyWatchers
  <2>2. reg'[w.id] = Marked(reg[w.id], "ready") /\ \A k \in Ids \ {w.id} : reg'[k] = reg[k]
    BY <1>0, <1>6, <2>1 DEF Becomes, BrokerTypeOK
  <2>3. CASE reg[w.id].n = 0
    <3>1. reg'[w.id] = reg[w.id]
      BY <1>0, <2>1, <2>2, <2>3 DEF RegistryOK, Recorded, Marked
    <3> QED
      BY <1>1, <2>2, <3>1
  <2>4. CASE reg[w.id].n = w.n
    BY <1>1, <1>6, <2>1, <2>2, <2>4 DEF Boot
  <2> QED
    BY <1>6, <2>3, <2>4 DEF Misplaces
<1>7. ASSUME NEW r \in Actors, Proceeds(r) PROVE FALSE
  <2>1. CASE Reuse(r)
    <3>1. op[r].id \in Ids
      BY <1>0, <2>1 DEF Reuse, LockOK, Works, At
    <3> QED
      BY <1>4, <2>1, <3>1 DEF Reuse, Touch
  <2>2. CASE Stopped(r)
    <3>1. op[r].id \in Ids
      BY <1>0, <2>2 DEF Stopped, LockOK, Works, Stops
    <3> QED
      BY <1>3, <2>2, <3>1 DEF Stopped, Forget
  <2>3. CASE MakeWay(r)
    <3>1. op[r].id \in Ids
      BY <1>0, <2>3 DEF MakeWay, LockOK, Works, At
    <3> QED
      BY <1>3, <2>3, <3>1 DEF MakeWay
  <2>4. CASE ReapOne(r) \/ ReapStopped(r)
    <3>1. op[r].at.id \in Ids
      BY <1>0, <2>4 DEF ReapOne, ReapStopped, LockOK, Reaps, At, Tasks
    <3> QED
      BY <1>2, <1>3, <2>4, <3>1 DEF ReapOne, ReapStopped, Forget
  <2>5. CASE Add(r)
    BY <1>0, <1>2, <2>5, Refusal
  <2> QED
    BY <1>2, <1>7, <2>1, <2>2, <2>3, <2>4, <2>5
       DEF Proceeds, Replace, StopForDown, StopFor, Create, AssertCapacity, Pick, Awaited,
           ReapNext
<1>8. ASSUME NEW w \in watching, Watches(w) PROVE FALSE
  <2>1. w \in Watchers /\ w.id \in Ids
    BY <1>0 DEF BrokerTypeOK, Watchers, AnyWatchers
  <2>2. CASE Ready(w)
    <3>1. ~ w.ending /\ Becomes(w.id, "ready") /\ ~ Misplaces(w.id, w.n)
      BY <2>1, <2>2 DEF Ready, Mistakes, Watchers
    <3> QED
      BY <1>6, <3>1
  <2>3. CASE AdoptedReady(w)
    BY <1>6, <2>3 DEF AdoptedReady
  <2> QED
    BY <1>2, <1>3, <1>5, <1>8, <2>1, <2>2, <2>3
       DEF Watches, Fails, AdoptedPolls, AdoptedFails, AdoptedLeaves
<1>9. ASSUME NEW p \in alive, Bind(p) \/ Exit(p) PROVE FALSE
  <2>1. p.id \in Ids
    BY <1>0 DEF BrokerTypeOK, Processes
  <2> QED
    BY <1>2, <1>5, <1>9, <2>1 DEF Bind, Exit
<1>10. ASSUME NEW j \in Ids, Age(j) PROVE FALSE
  BY <1>4, <1>10 DEF Age
<1>11. ASSUME UNCHANGED vars \/ Tick \/ \E r \in Requests, j \in Ids : Up(r, j) \/ Down(r, j)
       PROVE  FALSE
  BY <1>2, <1>11 DEF vars, Tick, Up, Down
<1> QED
  BY <1>7, <1>8, <1>9, <1>10, <1>11 DEF Next

\* Two creations that wait, a reap that they share and a port scan between the check and
\* the record: none makes the active instances grow past the cap.  Only a restart can, or
\* a watcher's mistake.
THEOREM CapHolds == Spec => CapIsKept
<1> DEFINE Bounded == \/ crashes' # crashes \/ mistaken'
                      \/ Cardinality(Active') <= instanceCap
                      \/ Cardinality(Active') <= Cardinality(Active)
<1>1. ASSUME BrokerInv, [Next]_vars PROVE Bounded
  <2>1. IsFiniteSet(Active) /\ Cardinality(Active) \in Nat
    BY BrokerAssumption, FS_Subset, FS_CardinalityType DEF Active
  <2>2. CASE Restart
    <3>1. crashes \in Nat /\ crashes' = crashes + 1
      BY <1>1, <2>2 DEF Restart, BrokerInv, BrokerTypeOK
    <3> QED
      BY <3>1
  <2>3. ASSUME NEW r \in Actors, Add(r), ~ Throw(r) PROVE Bounded
    <3> PICK i : i = op[r].id
      OBVIOUS
    <3>1. /\ i \in Ids /\ ~ IsFull
          /\ reg' = [reg EXCEPT ![i] =
               [n |-> r, status |-> "starting", port |-> op[r].port, idle |-> FALSE]]
      BY <1>1, <2>3, Addition DEF BrokerInv
    <3>2. \A j \in Ids \ {i} : reg'[j] = reg[j]
      BY <1>1, <3>1 DEF BrokerInv, BrokerTypeOK
    <3>3. Active' \subseteq Active \union {i}
      BY <3>2 DEF Active
    <3>4. /\ IsFiniteSet(Active \union {i})
          /\ Cardinality(Active \union {i}) <= Cardinality(Active) + 1
      <4>1. IsFiniteSet(Active \union {i})
        BY <2>1, FS_AddElement
      <4>2. Cardinality(Active \union {i}) \in {Cardinality(Active), Cardinality(Active) + 1}
        BY <2>1, FS_AddElement
      <4> QED
        BY <2>1, <4>1, <4>2
    <3>5. Cardinality(Active') <= Cardinality(Active \union {i}) /\ Cardinality(Active') \in Nat
          /\ Cardinality(Active \union {i}) \in Nat
      BY <3>3, <3>4, FS_Subset, FS_CardinalityType
    <3>6. Cardinality(Active) < instanceCap
      BY <2>1, <3>1, BrokerAssumption DEF IsFull
    <3> QED
      BY <2>1, <3>4, <3>5, <3>6, BrokerAssumption
  <2>4. CASE ~ Restart /\ ~ (\E r \in Actors : Add(r) /\ ~ Throw(r)) /\ ~ mistaken'
    <3>1. Active' \subseteq Active
      BY <1>1, <2>4, NobodyWakes
    <3> QED
      BY <2>1, <3>1, FS_Subset
  <2> QED
    BY <2>2, <2>3, <2>4
<1>2. BrokerInv /\ [Next]_vars => [Bounded]_vars
  BY <1>1
<1> QED
  BY <1>2, BrokerInvariance, PTL DEF Spec, CapIsKept

=============================================================================
