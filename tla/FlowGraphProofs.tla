-------------------------- MODULE FlowGraphProofs --------------------------
(***************************************************************************)
(* What the guards and the router promise for every flow, whichever the    *)
(* validator admits.  The exits of a superstep may wait, while the graph   *)
(* is paused, for those of its interrupt nodes; the invariant says that    *)
(* they remain what the nodes' wrappers allow.                             *)
(***************************************************************************)
EXTENDS FlowGraph, FiniteSetTheorems, TLAPS

Places == Nodes \union Interrupts

\* Exits that the nodes may have in the present state.
Fits(x) ==
    \A n \in DOMAIN x :
        IF n \in Interrupts THEN x[n] \in {"success", "reject"} ELSE x[n] \in ExitsOf(n)

\* The nodes are the flow's, and while the graph is paused only interrupt nodes
\* have yet to exit.
Waits ==
    /\ flow \in Flows
    /\ frontier \subseteq Places
    /\ status = "paused" => frontier \ Interrupts \subseteq DOMAIN exits /\ Fits(exits)

Promises == JoinsFireOnce /\ EffectsHappenOnce /\ HandledErrorsFailNothing

IInv == Waits /\ Promises

-----------------------------------------------------------------------------

\* An edge of the rewritten flow is that of an untagged node, an edge of the flow
\* moved to an interrupt node, or the one that leads there.
LEMMA RewrittenEdges ==
    ASSUME flow \in Flows, NEW e \in Edges
    PROVE  /\ e.to \in Places
           /\ e.from \in Nodes =>
                \/ e \in flow.edges /\ flow.tag[e.from] = "none"
                \/ flow.tag[e.from] # "none"
<1> DEFINE tagged == {m \in Nodes : flow.tag[m] # "none"}
           moved(m) == IF m \in tagged THEN Interrupt(m) ELSE m
<1>1. CASE \E m \in tagged :
             e = [from |-> m, to |-> Interrupt(m), type |-> "sequence", on |-> {}]
  BY <1>1 DEF Places, Interrupts
<1>2. ASSUME NEW d \in flow.edges, e = [d EXCEPT !.from = moved(d.from)]
      PROVE  /\ e.to \in Places
             /\ e.from \in Nodes => e \in flow.edges /\ flow.tag[e.from] = "none"
  <2>1. d \in [from : Nodes, to : Nodes, on : SUBSET ErrorNames,
               type : Forward \union {"error", "fallback", "reject"}]
    BY FlowsAssumption
  <2>2. e.to = d.to /\ e.from = moved(d.from)
    BY <1>2, <2>1
  <2>3. d.from \in tagged => e.from \in Interrupts
    BY <2>2 DEF Interrupts
  <2>4. d.from \notin tagged => e = d
    BY <1>2, <2>1
  <2> QED BY <2>1, <2>2, <2>3, <2>4, NamesAssumption DEF Places
<1> QED BY <1>1, <1>2 DEF Edges, Rewritten

\* The exceptional edges of an untagged node are those of the flow.
LEMMA EdgesStay ==
    ASSUME flow \in Flows, NEW n \in Nodes, flow.tag[n] = "none", NEW type
    PROVE  Out(Edges, n, type) = Out(flow.edges, n, type)
<1> DEFINE tagged == {m \in Nodes : flow.tag[m] # "none"}
           moved(m) == IF m \in tagged THEN Interrupt(m) ELSE m
<1>1. ASSUME NEW e \in Edges, e.from = n PROVE e \in flow.edges
  BY <1>1, RewrittenEdges
<1>2. ASSUME NEW e \in flow.edges, e.from = n PROVE e \in Edges
  <2>1. e \in [from : Nodes, to : Nodes, on : SUBSET ErrorNames,
               type : Forward \union {"error", "fallback", "reject"}]
    BY FlowsAssumption
  <2>2. e = [e EXCEPT !.from = moved(e.from)]
    BY <1>2, <2>1
  <2>3. [e EXCEPT !.from = moved(e.from)] \in {[d EXCEPT !.from = moved(d.from)] : d \in flow.edges}
    OBVIOUS
  <2> QED BY <2>2, <2>3 DEF Edges, Rewritten
<1> QED BY <1>1, <1>2 DEF Out

\* Every superstep triggers nodes of the flow.
LEMMA RoutesStay ==
    ASSUME flow \in Flows, NEW n \in Places, NEW x, ~ Throws(x, n), NEW route \in Routes(x, n)
    PROVE  route \subseteq Places
<1>1. Original(n) \in Nodes
  BY DEF Original, Places, Interrupts, Interrupt
<1>2. flow.escalate[Original(n)] \in Nodes \union {NoNode}
  BY <1>1, FlowsAssumption
<1>3. \A S : S \subseteq Edges => Targets(S) \subseteq Places
  BY RewrittenEdges DEF Targets
<1>4. \A type : Out(Edges, n, type) \subseteq Edges
  BY DEF Out
<1>5. \A type : Targets(Out(Edges, n, type)) \subseteq Places
  BY <1>3, <1>4
<1>6. CASE x = "skip"
  BY <1>6, NamesAssumption DEF Routes, Cycles
<1>7. CASE x # "skip" /\ Cycles(x, n)
  <2>1. route = IF Exhausted(x, n) THEN {flow.escalate[Original(n)]}
                                   ELSE Targets(Out(Edges, n, "reject"))
    BY <1>7, NamesAssumption DEF Routes, Cycles
  <2>2. Exhausted(x, n) => flow.escalate[Original(n)] \in Nodes
    BY <1>2, <1>7 DEF Throws
  <2> QED BY <1>5, <2>1, <2>2 DEF Places
<1>8. CASE x # "skip" /\ ~ Cycles(x, n) /\ x \in ErrorNames
  <2>1. ErrorEdges(x, n) \subseteq Out(Edges, n, "error")
    BY DEF ErrorEdges, NamedErrorEdges
  <2>2. Targets(ErrorEdges(x, n)) \subseteq Places
    BY <1>3, <1>4, <2>1
  <2> QED BY <1>5, <1>8, <2>2 DEF Routes
<1>9. CASE x # "skip" /\ ~ Cycles(x, n) /\ x \notin ErrorNames
  <2>1. route \in Outcomes(Edges, n)
    BY <1>9 DEF Routes
  <2>2. \A e \in Out(Edges, n, "conditional") : {e.to} \subseteq Places
    BY <1>4, RewrittenEdges
  <2> QED BY <1>5, <2>1, <2>2 DEF Outcomes
<1> QED BY <1>6, <1>7, <1>8, <1>9

-----------------------------------------------------------------------------

\* A join that has fired is skipped, so that no exit of it counts.
LEMMA JoinsSkip ==
    ASSUME NEW x, Fits(x), NEW n \in DOMAIN x, n \in Joins(flow), n \in completed
    PROVE  x[n] # "success"
<1>1. n \in Nodes /\ n \notin Interrupts
  BY NamesAssumption DEF Joins
<1>2. ExitsOf(n) = {"skip"}
  BY DEF ExitsOf, Skips
<1> QED BY <1>1, <1>2 DEF Fits

\* The guards keep joins and recorded effects from a second success.
LEMMA CommitKeepsOnce ==
    ASSUME NEW x, Fits(x), Commit(x), JoinsFireOnce, EffectsHappenOnce
    PROVE  JoinsFireOnce' /\ EffectsHappenOnce'
<1>1. again' = again \union
          {n \in {m \in DOMAIN x : x[m] = "success"} : n \in completed /\ ~ Recorded(n)}
  BY DEF Commit
<1>2. UNCHANGED flow
  BY DEF Commit
<1>3. \A n \in again' : n \in Joins(flow) => n \in again
  BY <1>1, JoinsSkip
<1>4. \A n \in again' : n \in flow.effects => n \in again
  BY <1>1 DEF Recorded
<1> QED BY <1>2, <1>3, <1>4 DEF JoinsFireOnce, EffectsHappenOnce, Joins

\* A router throws for a rejection that may lead nowhere any more, or for an
\* error that its node does not handle.
LEMMA ThrownIsUnhandled ==
    ASSUME flow \in Flows, NEW x, Fits(x), NEW n \in DOMAIN x, n \in Places, Throws(x[n], n)
    PROVE  LET o == Original(n) IN
             \/ x[n] = "reject" /\ flow.escalate[o] = NoNode
             \/ /\ x[n] \in ErrorNames
                /\ flow.tag[o] # "none" \/
                   ~ (\/ \E e \in Out(flow.edges, o, "error") : e.on = {} \/ x[n] \in e.on
                      \/ /\ flow.onError[o] = "fallback"
                         /\ Out(flow.edges, o, "fallback") # {})
<1>1. CASE Cycles(x[n], n) /\ Exhausted(x[n], n) /\ flow.escalate[Original(n)] = NoNode
  BY <1>1 DEF Cycles
<1>2. CASE x[n] \in ErrorNames /\ ErrorEdges(x[n], n) = {} /\ ~ FallsBack(n)
  <2>1. n \in Nodes /\ Original(n) = n
    BY <1>2, NamesAssumption DEF Fits, Places, Original
  <2>2. CASE flow.tag[n] = "none"
    <3>1. /\ Out(Edges, n, "error") = Out(flow.edges, n, "error")
          /\ Out(Edges, n, "fallback") = Out(flow.edges, n, "fallback")
      BY <2>1, <2>2, EdgesStay
    <3>2. NamedErrorEdges(x[n], n) = {}
      BY <1>2 DEF ErrorEdges
    <3>3. \A e \in Out(flow.edges, n, "error") : e.on # {} /\ x[n] \notin e.on
      BY <1>2, <3>1, <3>2 DEF ErrorEdges, NamedErrorEdges
    <3>4. ~ (flow.onError[n] = "fallback" /\ Out(flow.edges, n, "fallback") # {})
      BY <1>2, <2>1, <3>1 DEF FallsBack
    <3> QED BY <1>2, <2>1, <3>3, <3>4
  <2> QED BY <1>2, <2>1, <2>2
<1> QED BY <1>1, <1>2 DEF Throws

-----------------------------------------------------------------------------

\* The end of a superstep keeps all promises.
LEMMA CommitStep ==
    ASSUME IInv, NEW x, Fits(x), DOMAIN x = frontier, Commit(x)
    PROVE  IInv'
<1>1. flow \in Flows /\ frontier \subseteq Places /\ UNCHANGED flow
  BY DEF IInv, Waits, Commit
<1>2. JoinsFireOnce' /\ EffectsHappenOnce'
  BY CommitKeepsOnce DEF IInv, Promises
<1>3. CASE \E n \in DOMAIN x : Throws(x[n], n)
  <2>1. status' = "failed" /\ frontier' = {} /\ exits' = x
    BY <1>3 DEF Commit
  <2>2. PICK n \in DOMAIN x : Throws(x[n], n)
    BY <1>3
  <2>3. HandledErrorsFailNothing'
    BY <1>1, <2>1, <2>2, ThrownIsUnhandled DEF HandledErrorsFailNothing
  <2> QED BY <1>1, <1>2, <2>1, <2>3 DEF IInv, Waits, Promises
<1>4. CASE ~ \E n \in DOMAIN x : Throws(x[n], n)
  <2>1. /\ status' = IF frontier' = {} THEN Finished ELSE "running"
        /\ \E route \in [DOMAIN x -> UNION {Routes(x[n], n) : n \in DOMAIN x}] :
             /\ \A n \in DOMAIN x : route[n] \in Routes(x[n], n)
             /\ frontier' = UNION {route[n] : n \in DOMAIN x}
    BY <1>4 DEF Commit
  <2>2. PICK route : /\ \A n \in DOMAIN x : route[n] \in Routes(x[n], n)
                     /\ frontier' = UNION {route[n] : n \in DOMAIN x}
    BY <2>1
  <2>3. \A n \in DOMAIN x : route[n] \subseteq Places
    BY <1>1, <1>4, <2>2, RoutesStay
  <2>4. frontier' \subseteq Places
    BY <2>2, <2>3
  <2>5. status' # "paused"
    BY <2>1 DEF Finished
  <2>6. status' = "failed" => flow.failing \intersect completed' # {}
    BY <2>1 DEF Finished
  <2>7. HandledErrorsFailNothing'
    BY <1>1, <2>6 DEF HandledErrorsFailNothing
  <2> QED BY <1>1, <1>2, <2>4, <2>5, <2>7 DEF IInv, Waits, Promises, Places
<1> QED BY <1>3, <1>4

\* A step that leaves the graph paused.
LEMMA PausedStep ==
    ASSUME IInv, status' = "paused", UNCHANGED <<flow, frontier, progress>>,
           Fits(exits'), frontier \ Interrupts \subseteq DOMAIN exits'
    PROVE  IInv'
<1>1. UNCHANGED <<flow, frontier, completed, again>>
  BY DEF progress
<1>2. Fits(exits)'
  BY <1>1 DEF Fits, ExitsOf, Skips, Recorded, BodyExits, Joins, Edges
<1>3. JoinsFireOnce' /\ EffectsHappenOnce' /\ HandledErrorsFailNothing'
  BY <1>1 DEF IInv, Promises, JoinsFireOnce, EffectsHappenOnce, HandledErrorsFailNothing, Joins
<1> QED BY <1>1, <1>2, <1>3 DEF IInv, Waits, Promises

\* Every superstep and every answer keeps the invariant.
LEMMA Inductive == ASSUME IInv, [Next]_vars PROVE IInv'
<1>1. CASE UNCHANGED vars
  BY <1>1 DEF vars, progress, IInv, Waits, Promises, Fits, ExitsOf, Skips, Recorded, BodyExits,
     Joins, Edges, JoinsFireOnce, EffectsHappenOnce, HandledErrorsFailNothing
<1>2. CASE Superstep
  <2>1. PICK x \in [frontier \ Interrupts -> UNION {ExitsOf(n) : n \in frontier \ Interrupts}] :
           /\ \A n \in DOMAIN x : x[n] \in ExitsOf(n)
           /\ IF frontier \intersect Interrupts = {}
                THEN Commit(x)
                ELSE /\ exits' = x /\ status' = "paused"
                     /\ UNCHANGED <<flow, frontier, progress>>
    BY <1>2 DEF Superstep
  <2>2. DOMAIN x = frontier \ Interrupts /\ Fits(x)
    BY <2>1 DEF Fits
  <2>3. CASE frontier \intersect Interrupts = {}
    BY <2>1, <2>2, <2>3, CommitStep
  <2>4. CASE frontier \intersect Interrupts # {}
    BY <2>1, <2>2, <2>4, PausedStep
  <2> QED BY <2>3, <2>4
<1>3. CASE Answer
  <2>1. PICK taking \in SUBSET (frontier \ DOMAIN exits), d \in {"success", "reject"} :
          LET answers == [n \in taking |->
                            IF flow.tag[Original(n)] = "approval" THEN d ELSE "success"]
              x == [n \in DOMAIN exits \union taking |->
                            IF n \in taking THEN answers[n] ELSE exits[n]]
          IN  /\ taking # {}
              /\ IF DOMAIN x = frontier
                   THEN Commit(x)
                   ELSE exits' = x /\ UNCHANGED <<flow, status, frontier, progress>>
    BY <1>3 DEF Answer
  <2> DEFINE x == [n \in DOMAIN exits \union taking |->
                     IF n \in taking
                       THEN IF flow.tag[Original(n)] = "approval" THEN d ELSE "success"
                       ELSE exits[n]]
  <2>2. IF DOMAIN x = frontier
          THEN Commit(x)
          ELSE exits' = x /\ UNCHANGED <<flow, status, frontier, progress>>
    BY <2>1
  <2>3. status = "paused" /\ frontier \ Interrupts \subseteq DOMAIN exits /\ Fits(exits)
    BY <1>3 DEF Answer, IInv, Waits
  <2>4. taking \subseteq Interrupts
    BY <2>3
  <2>5. Fits(x) /\ frontier \ Interrupts \subseteq DOMAIN x
    BY <2>3, <2>4 DEF Fits
  <2> HIDE DEF x
  <2>6. CASE DOMAIN x = frontier
    BY <2>2, <2>5, <2>6, CommitStep
  <2>7. CASE DOMAIN x # frontier
    BY <2>2, <2>3, <2>5, <2>7, PausedStep
  <2> QED BY <2>6, <2>7
<1> QED BY <1>1, <1>2, <1>3 DEF Next

\* An admitted flow begins with its one trigger.
LEMMA Initially == ASSUME Init PROVE IInv
<1>1. flow \in Flows /\ Admitted(flow)
  BY DEF Init
<1>2. Trigger(flow) \in Nodes
  <2> DEFINE triggers == {n \in Nodes : flow.kind[n] = "trigger"}
  <2>1. IsFiniteSet(triggers) /\ Cardinality(triggers) = 1
    BY <1>1, NamesAssumption, FS_Subset DEF Admitted, EndpointsAreSound
  <2>2. triggers # {}
    BY <2>1, FS_EmptySet
  <2> QED BY <2>2 DEF Trigger
<1> QED
  BY <1>1, <1>2 DEF Init, IInv, Waits, Promises, Places, JoinsFireOnce, EffectsHappenOnce,
     HandledErrorsFailNothing

\* The invariant holds in every run of every flow.
THEOREM Invariance == Spec => []IInv
BY Initially, Inductive, PTL DEF Spec

-----------------------------------------------------------------------------

\* flow-graph.ts:694-724, withJoinGuard, for every flow: a join's body succeeds once at most.
THEOREM JoinsOnce == Spec => []JoinsFireOnce
<1>1. IInv => JoinsFireOnce
  BY DEF IInv, Promises
<1> QED BY <1>1, Invariance, PTL

\* flow-graph.ts:847, withEffectGuard, for every flow: an effect on record is not
\* performed a second time.
THEOREM EffectsOnce == Spec => []EffectsHappenOnce
<1>1. IInv => EffectsHappenOnce
  BY DEF IInv, Promises
<1> QED BY <1>1, Invariance, PTL

\* flow-graph.ts:416, buildRouter, for every flow: no error that an untagged node
\* handles fails the graph.
THEOREM HandledErrors == Spec => []HandledErrorsFailNothing
<1>1. IInv => HandledErrorsFailNothing
  BY DEF IInv, Promises
<1> QED BY <1>1, Invariance, PTL
=============================================================================
