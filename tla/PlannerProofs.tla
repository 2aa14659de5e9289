----------------------------- MODULE PlannerProofs -----------------------------
(****************************************************************************)
(* Proofs about Planner, for any machines, pods, requests and capacities    *)
(* and under every disturbance: an assignment never changes and a pod is    *)
(* released to its own target only, if the lists it was read from are up to *)
(* date when they are made; and the planner keeps its power budget over all *)
(* ticks, however old what it reads is.                                     *)
(****************************************************************************)
EXTENDS PlannerBudget, PlannerReleases, FiniteSetTheorems, TLAPS

\* A plan places the pods it was asked for, and flags only pods it places.
PlanFor(pl, ps) ==
  /\ DOMAIN pl.to = ps
  /\ pl.to \in [ps -> Nodes \cup {None}]
  /\ pl.wake \subseteq Placed(pl)

LEMMA GreedyShape ==
  ASSUME NEW ps, NEW view, DOMAIN view \subseteq Nodes, NEW slack,
         NEW pl \in GreedyPlans(ps, view, slack)
  PROVE  /\ PlanFor(pl, ps)
         /\ \A p \in pl.wake : pl.to[p] \in Cold(view)
         /\ WithinBudget(pl.to, Cold(view), slack)
<1>1. /\ pl.to \in Placements(ps, view) /\ pl.wake \subseteq ps
      /\ WithinBudget(pl.to, Cold(view), slack)
      /\ \A p \in pl.wake : pl.to[p] \in Cold(view)
  BY DEF GreedyPlans, IsGreedyPlan, OneFlagEach
<1>2. DOMAIN pl.to = ps /\ pl.to \in [ps -> Nodes \cup {None}]
  BY <1>1 DEF Placements
<1>3. pl.wake \subseteq Placed(pl)
  BY <1>1, <1>2, ContractAssumption DEF Placed, Cold, Offline
<1>. QED
  BY <1>1, <1>2, <1>3 DEF PlanFor

LEMMA PlanShape ==
  ASSUME NEW ps, NEW view, DOMAIN view \subseteq Nodes, NEW slack,
         NEW algorithm \in Algorithms, NEW pl \in Plans(algorithm, ps, view, slack)
  PROVE  PlanFor(pl, ps)
<1>1. ASSUME pl \in GreedyPlans(ps, view, slack) PROVE PlanFor(pl, ps)
  BY <1>1, GreedyShape
<1>2. ASSUME NEW to \in Placements(ps, view), NEW flagged \in SUBSET ps,
             \A p \in flagged : to[p] \in DOMAIN view,
             pl = [to |-> to, wake |-> flagged]
      PROVE  PlanFor(pl, ps)
  BY <1>2, ContractAssumption DEF Placements, PlanFor, Placed
<1>3. CASE algorithm = "greedy"
  BY <1>1, <1>3 DEF Plans
<1>4. CASE algorithm = "exact"
  <2>1. \/ pl \in GreedyPlans(ps, view, slack)
        \/ \E to \in Placements(ps, view) :
             pl = [to |-> to, wake |-> {p \in ps : to[p] \in Offline(view)}]
    BY <1>4 DEF Plans, ExactPlans, GreedyPlans
  <2>. QED
    BY <1>1, <1>2, <2>1 DEF Offline
<1>5. CASE algorithm = "heuristic"
  <2>1. \/ pl \in GreedyPlans(ps, view, slack)
        \/ \E to \in Placements(ps, view), cold \in SUBSET Cold(view) :
             pl = [to |-> to, wake |-> {p \in ps : to[p] \in cold}]
    <3>1. PICK q \in GreedyPlans(ps, view, slack) : pl = q \/ pl \in SearchedPlans(q, view)
      <4>1. pl \in HeuristicPlans(ps, view, slack)
        BY <1>5 DEF Plans
      <4>. QED
        BY <4>1, Zenon DEF HeuristicPlans
    <3>2. CASE pl \in SearchedPlans(q, view)
      <4>1. DOMAIN q.to = ps
        BY GreedyShape DEF PlanFor
      <4>2. PICK to \in Placements(ps, view) :
              pl = [to |-> to,
                    wake |-> {p \in ps : to[p] \in Cold(view) \ (Used(q.to) \cap Cold(view))}]
        BY <3>2, <4>1 DEF SearchedPlans
      <4>. QED
        BY <4>2, Zenon
    <3>. QED
      BY <3>1, <3>2
  <2>. QED
    BY <1>1, <1>2, <2>1 DEF Offline, Cold
<1>. QED
  BY <1>3, <1>4, <1>5 DEF Algorithms

\* The cold targets of a greedy or exact plan fit the rest of the budget.
LEMMA PlanBudget ==
  ASSUME NEW ps, NEW view, DOMAIN view \subseteq Nodes, NEW slack \in Int,
         NEW algorithm \in {"greedy", "exact"},
         NEW pl \in Plans(algorithm, ps, view, slack)
  PROVE  /\ Targets(pl) \subseteq Offline(view)
         /\ Targets(pl) \cap Cold(view) = {} \/ Cardinality(Targets(pl) \cap Cold(view)) <= slack
<1>. DEFINE cold == Targets(pl) \cap Cold(view)
<1>1. PlanFor(pl, ps)
  BY PlanShape DEF Algorithms
<1>2. cold \subseteq Used(pl.to)
  BY <1>1, ContractAssumption DEF Targets, Used, PlanFor, Placed, Cold, Offline
<1>3. ASSUME NEW costly \in SUBSET Nodes, WithinBudget(pl.to, costly, slack),
             Cold(view) \subseteq costly
      PROVE  cold = {} \/ Cardinality(cold) <= slack
  <2>1. cold \subseteq Used(pl.to) \cap costly
    BY <1>2, <1>3
  <2>2. IsFiniteSet(Used(pl.to) \cap costly)
    BY FS_Subset, ContractAssumption
  <2>3. /\ Cardinality(cold) <= Cardinality(Used(pl.to) \cap costly)
        /\ Cardinality(cold) \in Nat
        /\ Cardinality(Used(pl.to) \cap costly) \in Nat
    BY <2>1, <2>2, FS_Subset, FS_CardinalityType
  <2>. QED
    BY <1>3, <2>1, <2>3 DEF WithinBudget
<1>4. /\ Cold(view) \in SUBSET Nodes /\ Offline(view) \in SUBSET Nodes
      /\ Cold(view) \subseteq Offline(view)
  BY DEF Cold, Offline
<1>5. CASE pl \in GreedyPlans(ps, view, slack)
  <2>1. Targets(pl) \subseteq Offline(view)
    BY <1>4, <1>5, GreedyShape DEF Targets
  <2>. QED
    BY <1>3, <1>4, <1>5, <2>1, GreedyShape
<1>6. CASE algorithm = "exact" /\ pl \notin GreedyPlans(ps, view, slack)
  <2>1. PICK to \in Placements(ps, view) :
          /\ pl = [to |-> to, wake |-> {p \in ps : to[p] \in Offline(view)}]
          /\ \/ WithinBudget(to, Offline(view), slack)
             \/ \E plan1 \in GreedyPlans(ps, view, slack) : to = plan1.to
    BY <1>6 DEF Plans, ExactPlans, GreedyPlans, Feasible
  <2>2. WithinBudget(pl.to, Offline(view), slack) \/ WithinBudget(pl.to, Cold(view), slack)
    BY <2>1, GreedyShape
  <2>3. Targets(pl) \subseteq Offline(view)
    BY <2>1 DEF Targets
  <2>. QED
    BY <1>3, <1>4, <2>2, <2>3
<1>. QED
  BY <1>5, <1>6 DEF Plans

--------------------------------------------------------------------------------
(****************************************************************************)
(* Types.                                                                   *)
(****************************************************************************)
LEMMA NothingTypes ==
  /\ \A ns \in Kinds : Absent(ns) \in PodStates
  /\ NothingSeen = [rcNodes |-> NothingSeen.rcNodes, nodes |-> NothingSeen.nodes,
                     pods |-> NothingSeen.pods]
  /\ NothingSeen.pods \in [Pods -> PodStates] /\ NothingSeen.nodes = {}
  /\ DOMAIN NothingSeen.rcNodes = {} /\ NothingSeen.rcNodes \in [{} -> Views]
  /\ DOMAIN NoPlan.to = {} /\ NoPlan.to \in [{} -> Nodes \cup {None}] /\ NoPlan.wake = {}
<1>1. \A ns \in Kinds : Absent(ns) \in PodStates
  BY DEF Absent, PodStates
<1>2. NothingSeen.pods \in [Pods -> PodStates]
  BY <1>1 DEF NothingSeen, Kinds
<1>. QED
  BY <1>1, <1>2 DEF NothingSeen, NoPlan

\* What is cached, and what a read returns, has the types of what is stored.
LEMMA LaggedTypes ==
  ASSUME NEW a \in Snapshots, NEW b \in Snapshots
  PROVE  Lagged(a, b) \in Snapshots
BY DEF Lagged, Snapshots

LEMMA FilledTypes ==
  ASSUME Life!LifeTypeOK, ready \subseteq up, pods \in [Pods -> PodStates]
  PROVE  Filled \in Snapshots /\ Server \in Snapshots
<1>1. Server \in Snapshots
  BY DEF Server, Snapshots, Life!LifeTypeOK
<1>2. NothingCached \in Snapshots
  BY NothingTypes DEF NothingCached, Snapshots, Life!Phases
<1>. QED
  BY <1>1, <1>2, LaggedTypes DEF Filled

LEMMA ReadTypes ==
  ASSUME TypeOK
  PROVE  Read.pods \in [Pods -> PodStates] /\ ReadyNodes \subseteq Nodes
<1>1. Read \in Snapshots
  BY FilledTypes, LaggedTypes DEF Read, TypeOK
<1>. QED
  BY <1>1 DEF Snapshots, ReadyNodes

LEMMA NoLag ==
  /\ "pods" \notin Lagging => Read.pods = pods
  /\ "nodes" \notin Lagging => ReadyNodes = ready
BY DEF Read, Lagged, Server, ReadyNodes

LEMMA TypeInit == Init => TypeOK
<1>. SUFFICES ASSUME Init PROVE TypeOK
  OBVIOUS
<1>1. Life!LifeTypeOK
  BY DEF Init, Life!LifeTypeOK, Life!Phases, Life!Reported
<1>2. pods \in [Pods -> PodStates]
  BY NothingTypes, PlannerAssumption DEF Init
<1>3. informers \in Snapshots /\ ready \subseteq up
  BY <1>1, <1>2, FilledTypes DEF Init
<1>. QED
  BY <1>1, <1>2, <1>3, NothingTypes DEF Init, TypeOK, Lists

\* Whatever happens to a machine, its flags keep their types.
LEMMA MachineTypes ==
  ASSUME Life!LifeTypeOK, NEW n \in Nodes,
         Control(n) \/ Own(n) \/ Life!Want(n, "Booting")
  PROVE  Life!LifeTypeOK'
<1>. USE DEF Life!LifeTypeOK, Life!Phases, Life!Reported, Life!Report
<1>1. CASE Control(n)
  BY <1>1
     DEF Control, Life!InitOffline, Life!BeginBoot, Life!Join, Life!Promote, Life!GoOffline,
         Life!ComeOnline, Life!Leave
<1>2. CASE Own(n)
  <2>1. UserPhases \cup {"Offline"} \subseteq Life!Phases
    BY PlannerAssumption
  <2>. QED
    BY <1>2, <2>1 DEF Own, Life!Want, Life!Vanish, Life!Appear
<1>3. CASE Life!Want(n, "Booting")
  BY <1>3 DEF Life!Want
<1>. QED
  BY <1>1, <1>2, <1>3

LEMMA TypeStep == TypeOK /\ [Next]_vars => TypeOK'
<1>. SUFFICES ASSUME TypeOK, [Next]_vars PROVE TypeOK'
  OBVIOUS
<1>. USE DEF TypeOK
<1>1. CASE Tick
  BY <1>1 DEF Tick, Lists, machines, Life!LifeTypeOK
<1>2. ASSUME NEW kind \in Lists, List(kind) PROVE TypeOK'
  <2>1. /\ DOMAIN View \subseteq Nodes
        /\ View \in [DOMAIN View -> Views]
    BY DEF View, Views
  <2>2. /\ seen' = [rcNodes |-> seen'.rcNodes, nodes |-> seen'.nodes, pods |-> seen'.pods]
        /\ seen'.nodes \subseteq Nodes
        /\ seen'.pods \in [Pods -> PodStates]
        /\ DOMAIN seen'.rcNodes \subseteq Nodes
        /\ seen'.rcNodes \in [DOMAIN seen'.rcNodes -> Views]
    <3>1. CASE kind = "rcNodes"
      BY <1>2, <2>1, <3>1 DEF List
    <3>2. CASE kind = "nodes"
      BY <1>2, <3>2, ReadTypes DEF List
    <3>3. CASE kind = "pods"
      BY <1>2, <3>3, ReadTypes DEF List
    <3>. QED
      BY <3>1, <3>2, <3>3 DEF Lists
  <2>. QED
    BY <1>2, <2>2 DEF List, machines, Life!LifeTypeOK
<1>3. CASE Solve
  <2>1. PICK algorithm \in UsedAlgorithms :
          \E pl \in Plans(algorithm, GatedPods, seen.rcNodes, Slack) :
            plan' = pl /\ todo' = Placed(pl)
    BY <1>3 DEF Solve
  <2>2. PlanFor(plan', GatedPods) /\ todo' = Placed(plan')
    BY <2>1, PlanShape, PlannerAssumption
  <2>3. GatedPods \subseteq Pods
    BY DEF GatedPods, Gated, Watched
  <2>4. todo' = Placed(plan')
    BY <2>2
  <2>5. /\ DOMAIN plan'.to \subseteq Pods
        /\ plan'.to \in [DOMAIN plan'.to -> Nodes \cup {None}]
        /\ plan'.wake \subseteq Placed(plan')
    BY <2>2, <2>3 DEF PlanFor
  <2>. QED
    BY <1>3, <2>4, <2>5 DEF Solve, machines, Placed, Life!LifeTypeOK
<1>4. ASSUME NEW p \in Pods, PatchPod(p) PROVE TypeOK'
  <2>1. pods[p] \in PodStates /\ plan.to[p] \in Nodes \cup {None}
    BY <1>4 DEF PatchPod, Placed
  <2>2. [pods[p] EXCEPT !.label = plan.to[p]] \in PodStates
    BY <2>1 DEF PodStates
  <2>3. pods' \in [Pods -> PodStates]
    BY <1>4, <2>2 DEF PatchPod
  <2>. QED
    BY <1>4, <2>1, <2>3 DEF PatchPod, machines, Placed, Life!LifeTypeOK
<1>5. ASSUME NEW p \in Pods, PatchPodFails(p) \/ ReleaseFails(p) PROVE TypeOK'
  BY <1>5 DEF PatchPodFails, ReleaseFails, machines, Placed, Life!LifeTypeOK
<1>6. CASE StartWakes
  BY <1>6 DEF StartWakes, machines, Placed, Life!LifeTypeOK
<1>7. ASSUME NEW n \in Nodes, CheckWake(n) \/ PatchWakeFails(n) PROVE TypeOK'
  BY <1>7 DEF CheckWake, PatchWakeFails, machines, Placed, Life!LifeTypeOK
<1>8. ASSUME NEW n \in Nodes, PatchWake(n) PROVE TypeOK'
  <2>1. Life!LifeTypeOK' /\ ready' = ready /\ up' = up
    BY <1>8, MachineTypes DEF PatchWake, Life!Want
  <2>. QED
    BY <1>8, <2>1 DEF PatchWake, Placed
<1>9. CASE RecordPowerOns
  <2>1. Targets(plan) \subseteq Nodes
    BY DEF Targets, Placed
  <2>2. Releasable \subseteq Pods
    BY DEF Releasable, Held
  <2>. QED
    BY <1>9, <2>1, <2>2 DEF RecordPowerOns, machines, Placed, Life!LifeTypeOK
<1>10. ASSUME NEW p \in Pods, Release(p) PROVE TypeOK'
  <2>1. pods[p] \in PodStates /\ seen.pods[p] \in PodStates
    OBVIOUS
  <2>2. [pods[p] EXCEPT !.gates = {}, !.selector = seen.pods[p].label] \in PodStates
    BY <2>1 DEF PodStates
  <2>3. pods' \in [Pods -> PodStates]
    BY <1>10, <2>2 DEF Release
  <2>. QED
    BY <1>10, <2>3 DEF Release, machines, Placed, Life!LifeTypeOK
<1>11. CASE ListFails \/ Done \/ Restart
  <2>1. informers' \in Snapshots
    BY <1>11, FilledTypes DEF ListFails, Done, Restart
  <2>. QED
    BY <1>11, <2>1, NothingTypes DEF ListFails, Done, Restart, machines, Placed, Life!LifeTypeOK
<1>12. ASSUME NEW p \in Pods, CreatePod(p) \/ OpenOther(p) \/ DeletePod(p) PROVE TypeOK'
  <2>1. pods' \in [Pods -> PodStates]
    <3>1. CASE CreatePod(p)
      <4>1. PICK given \in SUBSET Gates :
              pods' = [pods EXCEPT ![p].up = TRUE, ![p].gates = Gate(pods[p].ns, given)]
        BY <3>1 DEF CreatePod, Gates
      <4>2. Gate(pods[p].ns, given) \in SUBSET Gates
        BY <4>1 DEF Gate, Gates
      <4>3. pods[p] \in PodStates
        OBVIOUS
      <4>4. [pods[p] EXCEPT !.up = TRUE, !.gates = Gate(pods[p].ns, given)] \in PodStates
        BY <4>2, <4>3 DEF PodStates
      <4>5. pods' = [pods EXCEPT ![p] = [pods[p] EXCEPT !.up = TRUE,
                                                       !.gates = Gate(pods[p].ns, given)]]
        BY <4>1
      <4>. QED
        BY <4>4, <4>5
    <3>2. CASE OpenOther(p)
      <4>1. pods' = [pods EXCEPT ![p].gates = pods[p].gates \ {"other"}]
        BY <3>2 DEF OpenOther
      <4>2. pods[p] \in PodStates
        OBVIOUS
      <4>3. pods[p].gates \ {"other"} \in SUBSET Gates
        BY <4>2 DEF PodStates
      <4>4. [pods[p] EXCEPT !.gates = pods[p].gates \ {"other"}] \in PodStates
        BY <4>2, <4>3 DEF PodStates
      <4>. QED
        BY <4>1, <4>4
    <3>3. CASE DeletePod(p)
      BY <3>3, NothingTypes DEF DeletePod, PodStates
    <3>. QED
      BY <1>12, <3>1, <3>2, <3>3
  <2>. QED
    BY <1>12, <2>1 DEF CreatePod, OpenOther, DeletePod, machines, tick, Placed, Life!LifeTypeOK
<1>13. ASSUME NEW n \in Nodes, Machine(n) \/ GiveUp(n) PROVE TypeOK'
  <2>1. Life!LifeTypeOK'
    BY <1>13, MachineTypes DEF Machine, GiveUp, Life!LifeTypeOK
  <2>2. ready' \subseteq up'
    BY <1>13 DEF Machine, GiveUp
  <2>. QED
    BY <1>13, <2>1, <2>2 DEF Machine, GiveUp, tick, Placed
<1>14. ASSUME NEW kind \in Lists, Notice(kind) PROVE TypeOK'
  <2>1. informers' \in Snapshots
    <3>1. CASE kind = "rcNodes"
      BY <1>14, <3>1 DEF Notice, Snapshots, Life!LifeTypeOK
    <3>2. CASE kind = "nodes"
      BY <1>14, <3>2 DEF Notice, Snapshots, Life!LifeTypeOK
    <3>3. CASE kind = "pods"
      BY <1>14, <3>3 DEF Notice, Snapshots
    <3>. QED
      BY <3>1, <3>2, <3>3 DEF Lists
  <2>. QED
    BY <1>14, <2>1 DEF Notice, machines, tick, Placed, Life!LifeTypeOK
<1>15. CASE UNCHANGED vars
  BY <1>15 DEF vars, machines, tick, Placed, Life!LifeTypeOK
<1>. QED
  BY <1>1, <1>2, <1>3, <1>4, <1>5, <1>6, <1>7, <1>8, <1>9, <1>10, <1>11, <1>12, <1>13, <1>14,
     <1>15
     DEF Next, Alive, PlannerStep

\* The planner's state keeps its types whatever happens.
THEOREM PlannerTypeCorrect == Spec => []TypeOK
BY TypeInit, TypeStep, PTL DEF Spec

--------------------------------------------------------------------------------
(****************************************************************************)
(* An assignment never changes.                                             *)
(****************************************************************************)
Sticks(p) ==
  pods[p].up /\ pods'[p].up /\ pods[p].label # None => pods'[p].label = pods[p].label

\* Everything but a patch leaves the labels alone or takes them away.
LEMMA LabelEffect ==
  ASSUME TypeOK, [Next]_vars, NEW p \in Pods
  PROVE  \/ pods'[p].label = pods[p].label
         \/ pods'[p].label = None /\ (~pods[p].up \/ ~pods'[p].up)
         \/ PatchPod(p)
<1>1. ASSUME NEW q \in Pods, CreatePod(q) \/ OpenOther(q) \/ DeletePod(q)
      PROVE  \/ pods'[p].label = pods[p].label
             \/ pods'[p].label = None /\ (~pods[p].up \/ ~pods'[p].up)
  <2>1. pods \in [Pods -> PodStates]
    BY DEF TypeOK
  <2>2. CASE CreatePod(q)
    BY <2>1, <2>2 DEF CreatePod, PodStates
  <2>3. CASE OpenOther(q)
    BY <2>1, <2>3 DEF OpenOther, PodStates
  <2>4. CASE DeletePod(q)
    BY <2>1, <2>4 DEF DeletePod, Absent
  <2>. QED
    BY <1>1, <2>2, <2>3, <2>4
<1>2. ASSUME NEW q \in Pods, Release(q) PROVE pods'[p].label = pods[p].label
  BY <1>2 DEF TypeOK, Release, PodStates
<1>3. ASSUME NEW q \in Pods, PatchPod(q)
      PROVE  pods'[p].label = pods[p].label \/ PatchPod(p)
  BY <1>3 DEF TypeOK, PatchPod
<1>4. ASSUME NEW n \in Nodes, Machine(n) \/ GiveUp(n) PROVE pods' = pods
  BY <1>4 DEF Machine, GiveUp
<1>. QED
  BY <1>1, <1>2, <1>3, <1>4
     DEF Next, Alive, PlannerStep, Tick, ListFails, List, Solve, PatchPodFails, StartWakes,
         CheckWake, PatchWake, PatchWakeFails, RecordPowerOns, ReleaseFails, Done, Restart,
         Notice, vars

LEMMA PodsNotPatched ==
  ASSUME LabelInv, [Next]_vars, NEW p \in Pods, pods[p].label = None, ~PatchPod(p)
  PROVE  pods'[p].label = None
BY LabelEffect DEF LabelInv

\* Reads of pods show what was written: a tick that misses the label its
\* predecessor gave would give the pod another one.
Prompt == "pods" \notin Lagging

LEMMA LabelStep == Prompt /\ LabelInv /\ [Next]_vars => LabelInv'
<1>. SUFFICES ASSUME Prompt, LabelInv, [Next]_vars PROVE LabelsFresh'
  BY TypeStep DEF LabelInv
<1>. USE DEF LabelInv, LabelsFresh
<1>1. ASSUME pc' = "list", "pods" \notin unread', NEW p \in Pods,
             seen'.pods[p].up, seen'.pods[p].label = None
      PROVE  pods'[p].label = None
  <2>1. CASE \E kind \in Lists : List(kind)
    <3>1. PICK kind \in Lists : List(kind)
      BY <2>1
    <3>2. CASE kind = "pods"
      BY <1>1, <3>1, <3>2, NoLag DEF List, TypeOK, Prompt
    <3>3. CASE kind # "pods"
      <4>1. seen'.pods = seen.pods
        BY <3>1, <3>3 DEF List, TypeOK, Lists
      <4>2. pc = "list" /\ "pods" \notin unread /\ pods' = pods
        BY <1>1, <3>1, <3>3 DEF List
      <4>. QED
        BY <1>1, <4>1, <4>2
    <3>. QED
      BY <3>2, <3>3
  <2>2. CASE Tick \/ Restart
    BY <1>1, <2>2 DEF Tick, Restart, Lists
  <2>3. CASE ~Tick /\ ~Restart /\ ~\E kind \in Lists : List(kind)
    <3>1. pc = "list" /\ unread' = unread /\ seen' = seen /\ ~PatchPod(p)
      BY <1>1, <2>3
         DEF Next, Alive, PlannerStep, ListFails, Solve, PatchPod, PatchPodFails, StartWakes,
             CheckWake, PatchWake, PatchWakeFails, RecordPowerOns, Release, ReleaseFails,
             Done, CreatePod, OpenOther, DeletePod, Machine, GiveUp, Notice, tick, vars
    <3>. QED
      BY <1>1, <3>1, PodsNotPatched
  <2>. QED
    BY <2>1, <2>2, <2>3
<1>2. ASSUME pc' = "apply", NEW p \in todo'
      PROVE  pods'[p].label = None
  <2>1. CASE Solve
    <3>1. PICK algorithm \in UsedAlgorithms :
            \E pl \in Plans(algorithm, GatedPods, seen.rcNodes, Slack) :
              plan' = pl /\ todo' = Placed(pl)
      BY <2>1 DEF Solve
    <3>2. PlanFor(plan', GatedPods) /\ todo' = Placed(plan')
      BY <3>1, PlanShape, PlannerAssumption DEF TypeOK
    <3>3. p \in GatedPods
      BY <1>2, <3>2 DEF PlanFor, Placed
    <3>. QED
      BY <2>1, <3>3 DEF Solve, GatedPods, Gated, Watched, Assigned
  <2>2. CASE ~Solve
    <3>1. /\ pc = "apply" /\ p \in todo /\ p \in Pods
          /\ ~PatchPod(p)
      <4>1. pc = "apply" /\ todo' \subseteq todo
        BY <1>2, <2>2
           DEF Next, Alive, PlannerStep, Tick, ListFails, List, PatchPod, PatchPodFails,
               StartWakes, CheckWake, PatchWake, PatchWakeFails, RecordPowerOns, Release,
               ReleaseFails, Done, Restart, CreatePod, OpenOther, DeletePod, Machine,
               GiveUp, Notice, tick, vars
      <4>. QED
        BY <1>2, <4>1 DEF PatchPod, TypeOK, Placed
    <3>. QED
      BY <3>1, PodsNotPatched
  <2>. QED
    BY <2>1, <2>2
<1>. QED
  BY <1>1, <1>2

\* From the list of pods to their patches, a pod that was listed without a target
\* has none: neither the solver in between nor a pod created again under the
\* same name can make the reconciler patch over a target, if the lists show the
\* labels that were written (periodic_reconciler.go:502, assignment_applier.go:118-138).
THEOREM LabelsCurrent == Prompt => (Spec => []LabelInv)
<1>. SUFFICES ASSUME Prompt PROVE Spec => []LabelInv
  OBVIOUS
<1>1. Init => LabelInv
  BY TypeInit DEF Init, LabelInv, LabelsFresh
<1>2. LabelInv /\ [Next]_vars => LabelInv'
  BY LabelStep
<1>. QED
  BY <1>1, <1>2, PTL DEF Spec

\* Once a pod carries a target no later tick, solver or release gives it
\* another, whatever is refused, restarted, switched or deleted meanwhile, if
\* the lists show the labels that were written (periodic_reconciler.go:502,
\* assignment_applier.go:118-138).
THEOREM LabelsStick == Prompt => (Spec => LabelSticks)
<1>. SUFFICES ASSUME Prompt PROVE Spec => LabelSticks
  OBVIOUS
<1>1. Spec => []LabelInv
  BY LabelsCurrent
<1>2. LabelInv /\ [Next]_vars => [\A p \in Pods : Sticks(p)]_vars
  <2>. SUFFICES ASSUME LabelInv, [Next]_vars, NEW p \in Pods PROVE Sticks(p)
    OBVIOUS
  <2>1. CASE PatchPod(p)
    BY <2>1 DEF Sticks, LabelInv, LabelsFresh, PatchPod
  <2>. QED
    BY <2>1, LabelEffect DEF Sticks, LabelInv
<1>. QED
  BY <1>1, <1>2, PTL DEF Spec, LabelSticks, Sticks

--------------------------------------------------------------------------------
(****************************************************************************)
(* A pod is released to its own target, whose Node is Ready.                *)
(****************************************************************************)
\* Lists of pods and of Nodes show what is stored when they are made.
PromptLists == Prompt /\ "nodes" \notin Lagging

\* What a step does to the lists.
LEMMA SeenEffect ==
  ASSUME PromptLists, TypeOK, [Next]_vars
  PROVE  \/ seen' = seen
         \/ seen' = NothingSeen
         \/ /\ pods' = pods /\ ready' = ready
            /\ seen'.pods \in {seen.pods, pods} /\ seen'.nodes \in {seen.nodes, ready}
<1>1. ASSUME NEW kind \in Lists, List(kind)
      PROVE  /\ pods' = pods /\ ready' = ready
             /\ seen'.pods \in {seen.pods, pods} /\ seen'.nodes \in {seen.nodes, ready}
  <2>1. CASE kind = "rcNodes"
    BY <1>1, <2>1 DEF List, TypeOK, machines
  <2>2. CASE kind = "nodes"
    BY <1>1, <2>2, NoLag DEF List, TypeOK, machines, PromptLists
  <2>3. CASE kind = "pods"
    BY <1>1, <2>3, NoLag DEF List, TypeOK, machines, PromptLists, Prompt
  <2>. QED
    BY <2>1, <2>2, <2>3 DEF Lists
<1>. QED
  BY <1>1
     DEF Next, Alive, PlannerStep, Tick, ListFails, Solve, PatchPod, PatchPodFails, StartWakes,
         CheckWake, PatchWake, PatchWakeFails, RecordPowerOns, Release, ReleaseFails, Done,
         Restart, CreatePod, OpenOther, DeletePod, Machine, GiveUp, Notice, tick, vars

\* A pod that goes takes its label along.
LEMMA LabelledAreUp ==
  ASSUME TypeOK, [Next]_vars, NEW p \in Pods,
         pods[p].label # None => pods[p].up, pods'[p].label # None
  PROVE  pods'[p].up
<1>. USE DEF TypeOK
<1>1. ASSUME NEW q \in Pods, PatchPod(q) PROVE pods'[p].up
  <2>1. CASE q = p
    BY <1>1, <2>1 DEF PatchPod, PodStates
  <2>2. CASE q # p
    BY <1>1, <2>2 DEF PatchPod
  <2>. QED
    BY <2>1, <2>2
<1>2. ASSUME NEW q \in Pods, Release(q) PROVE pods'[p].up
  <2>1. pods'[p].up = pods[p].up /\ pods'[p].label = pods[p].label
    BY <1>2 DEF Release, PodStates
  <2>. QED
    BY <2>1
<1>3. ASSUME NEW q \in Pods, CreatePod(q) PROVE pods'[p].up
  BY <1>3 DEF CreatePod, PodStates
<1>4. ASSUME NEW q \in Pods, OpenOther(q) PROVE pods'[p].up
  BY <1>4 DEF OpenOther, PodStates
<1>5. ASSUME NEW q \in Pods, DeletePod(q) PROVE pods'[p].up
  BY <1>5 DEF DeletePod, Absent
<1>6. ASSUME NEW n \in Nodes, Machine(n) \/ GiveUp(n) PROVE pods' = pods
  BY <1>6 DEF Machine, GiveUp
<1>. QED
  BY <1>1, <1>2, <1>3, <1>4, <1>5, <1>6
     DEF Next, Alive, PlannerStep, Tick, ListFails, List, Solve, PatchPodFails, StartWakes,
         CheckWake, PatchWake, PatchWakeFails, RecordPowerOns, ReleaseFails, Done, Restart,
         Notice, vars

LEMMA ReleaseStep ==
  ASSUME PromptLists, ReleaseInv, Next, RememberLosses
  PROVE  ReleaseInv'
<1>. USE DEF ReleaseInv, ListsHold
<1>0. Prompt /\ [Next]_vars
  BY DEF PromptLists
<1>1. TypeOK /\ LabelInv'
  BY <1>0, LabelStep DEF LabelInv
<1>2. seen'.nodes \subseteq ready' \cup lost'
  BY <1>0, <1>1, SeenEffect, NothingTypes DEF RememberLosses
<1>3. ASSUME NEW p \in Pods, pods'[p].label # None PROVE pods'[p].up
  BY <1>0, <1>1, <1>3, LabelledAreUp
<1>4. ASSUME NEW p \in Pods, seen'.pods[p].label # None PROVE seen'.pods[p].up
  BY <1>0, <1>1, <1>3, <1>4, SeenEffect DEF NothingSeen, Absent
<1>5. ASSUME NEW p \in Pods, seen'.pods[p].label # None
      PROVE  pods'[p].label = seen'.pods[p].label \/ p \in replaced'
  <2>1. seen'.pods[p].up
    BY <1>4, <1>5
  <2>2. CASE seen'.pods = seen.pods /\ pods[p].label # seen.pods[p].label
    BY <1>5, <2>1, <2>2 DEF RememberLosses
  <2>3. CASE seen'.pods = seen.pods /\ pods[p].label = seen.pods[p].label
    <3>1. pods[p].label # None /\ pods[p].up
      BY <1>5, <2>3
    <3>2. ~PatchPod(p)
      BY <3>1 DEF LabelInv, LabelsFresh, PatchPod
    <3>3. pods'[p].label = pods[p].label \/ ~pods'[p].up
      BY <1>0, <1>1, <3>1, <3>2, LabelEffect
    <3>. QED
      BY <2>1, <2>3, <3>1, <3>3 DEF RememberLosses
  <2>4. CASE seen' = NothingSeen
    BY <1>5, <2>4 DEF NothingSeen, Absent
  <2>5. CASE seen'.pods = pods /\ pods' = pods
    BY <2>5
  <2>. QED
    BY <1>0, <1>1, <2>2, <2>3, <2>4, <2>5, SeenEffect
<1>6. ASSUME pc' = "release", NEW p \in todo'
      PROVE  seen'.pods[p].label \in seen'.nodes
  <2>1. CASE RecordPowerOns
    BY <1>6, <2>1 DEF RecordPowerOns, Releasable
  <2>2. CASE ~RecordPowerOns
    <3>1. pc = "release" /\ p \in todo /\ seen' = seen
      BY <1>0, <1>6, <2>2
         DEF Next, Alive, PlannerStep, Tick, ListFails, List, Solve, PatchPod, PatchPodFails,
             StartWakes, CheckWake, PatchWake, PatchWakeFails, Release, ReleaseFails, Done,
             Restart, CreatePod, OpenOther, DeletePod, Machine, GiveUp, Notice, tick, vars
    <3>. QED
      BY <3>1
  <2>. QED
    BY <2>1, <2>2
<1>. QED
  BY <1>1, <1>2, <1>3, <1>4, <1>5, <1>6

ReleasesWell(p) ==
  p \in Held(pods) /\ pods'[p].up /\ p \notin Held(pods')
    => /\ pods'[p].selector \in ready \cup lost
       /\ pods'[p].selector = pods[p].label \/ p \in replaced

LEMMA GateEffect ==
  ASSUME TypeOK, [Next]_vars, NEW p \in Pods,
         p \in Held(pods), pods'[p].up, p \notin Held(pods')
  PROVE  Release(p)
<1>. USE DEF TypeOK, Held
<1>1. ASSUME NEW q \in Pods, PatchPod(q) PROVE FALSE
  BY <1>1 DEF PatchPod, PodStates
<1>2. ASSUME NEW q \in Pods, CreatePod(q) PROVE FALSE
  BY <1>2 DEF CreatePod
<1>3. ASSUME NEW q \in Pods, Release(q) PROVE Release(p)
  BY <1>3 DEF Release
<1>4. ASSUME NEW n \in Nodes, Machine(n) \/ GiveUp(n) PROVE FALSE
  BY <1>4 DEF Machine, GiveUp
<1>5. ASSUME NEW q \in Pods, OpenOther(q) PROVE FALSE
  BY <1>5 DEF OpenOther, PodStates
<1>6. ASSUME NEW q \in Pods, DeletePod(q) PROVE FALSE
  BY <1>6 DEF DeletePod, Absent
<1>. QED
  BY <1>1, <1>2, <1>3, <1>4, <1>5, <1>6
     DEF Next, Alive, PlannerStep, Tick, ListFails, List, Solve, PatchPodFails, StartWakes,
         CheckWake, PatchWake, PatchWakeFails, RecordPowerOns, ReleaseFails, Done, Restart,
         Notice, vars

\* What the lists said of Nodes and of targets is still true when the tick uses
\* it, however long the solver took, but for Nodes that have ceased to be Ready and
\* pods that have been deleted since they were listed; whatever is refused,
\* restarted, switched, given up, created or deleted (periodic_reconciler.go:280,
\* 526-536, 569-579).
THEOREM ListsStayTrue == PromptLists => (ReleaseSpec => []ReleaseInv)
<1>. SUFFICES ASSUME PromptLists PROVE ReleaseSpec => []ReleaseInv
  OBVIOUS
<1>1. ReleaseInit => ReleaseInv
  BY TypeInit, NothingTypes, PlannerAssumption
     DEF ReleaseInit, Init, LabelInv, LabelsFresh, ReleaseInv, ListsHold, NothingSeen, Absent
<1>2. ReleaseInv /\ [Next /\ RememberLosses]_releaseVars => ReleaseInv'
  <2>1. ReleaseInv /\ UNCHANGED releaseVars => ReleaseInv'
    <3>. SUFFICES ASSUME ReleaseInv, UNCHANGED releaseVars PROVE ReleaseInv'
      OBVIOUS
    <3>1. LabelInv'
      BY LabelStep DEF ReleaseInv, releaseVars, PromptLists
    <3>2. UNCHANGED <<seen, ready, lost, pods, replaced, pc, todo>>
      BY DEF releaseVars, vars, machines, tick
    <3>. QED
      BY <3>1, <3>2 DEF ReleaseInv, ListsHold
  <2>. QED
    BY <2>1, ReleaseStep
<1>. QED
  BY <1>1, <1>2, PTL DEF ReleaseSpec

\* A pod loses its gate only for a Node that is Ready, or was when the tick listed
\* it and has been lost since, and only for its own target, unless it was deleted
\* since the list and this is another pod of its name; although labels and Nodes
\* were read before the solver ran, and whatever is refused, restarted, switched,
\* given up, created or deleted meanwhile (periodic_reconciler.go:519-520, 561,
\* 569-579).
THEOREM PodsReachTheirNode == PromptLists => (ReleaseSpec => ReleasedToNode)
<1>. SUFFICES ASSUME PromptLists PROVE ReleaseSpec => ReleasedToNode
  OBVIOUS
<1>1. ReleaseSpec => []ReleaseInv
  BY ListsStayTrue
<1>2. ReleaseInv /\ [Next /\ RememberLosses]_releaseVars => [\A p \in Pods : ReleasesWell(p)]_vars
  <2>. SUFFICES ASSUME ReleaseInv, [Next]_vars, NEW p \in Pods,
                       p \in Held(pods), pods'[p].up, p \notin Held(pods')
                PROVE  /\ pods'[p].selector \in ready \cup lost
                       /\ pods'[p].selector = pods[p].label \/ p \in replaced
    BY DEF ReleasesWell, releaseVars
  <2>1. TypeOK
    BY DEF ReleaseInv, LabelInv
  <2>2. Release(p)
    BY <2>1, GateEffect
  <2>3. seen.pods[p].label \in seen.nodes /\ seen.nodes \subseteq ready \cup lost
    BY <2>2 DEF ReleaseInv, ListsHold, Release
  <2>4. pods[p].label = seen.pods[p].label \/ p \in replaced
    BY <2>1, <2>3, ContractAssumption DEF ReleaseInv, ListsHold, TypeOK
  <2>5. pods'[p].selector = seen.pods[p].label
    BY <2>1, <2>2 DEF Release, TypeOK, PodStates
  <2>. QED
    BY <2>3, <2>4, <2>5
<1>. QED
  BY <1>1, <1>2, PTL DEF ReleaseSpec, ReleasedToNode, ReleasesWell

--------------------------------------------------------------------------------
(****************************************************************************)
(* The power budget, over any number of ticks.                              *)
(****************************************************************************)
\* The heuristic looks at no budget.
BudgetAware == UsedAlgorithms \subseteq {"greedy", "exact"}

LEMMA NoTargets == Targets(NoPlan) = {}
BY NothingTypes DEF Targets

\* What is within the limit stays within it when it loses machines.
LEMMA WithinLimit ==
  ASSUME NEW S, NEW T, S \subseteq T, T \subseteq Nodes, Cardinality(T) <= MaxPowerOns
  PROVE  Cardinality(S) <= MaxPowerOns
<1>1. IsFiniteSet(T)
  BY FS_Subset, ContractAssumption
<1>2. Cardinality(S) <= Cardinality(T) /\ Cardinality(S) \in Nat /\ Cardinality(T) \in Nat
  BY <1>1, FS_Subset, FS_CardinalityType
<1>. QED
  BY <1>2, PlannerAssumption

LEMMA CountedTypes ==
  ASSUME TypeOK, BudgetCovers
  PROVE  woken \cup ColdTargets \subseteq Nodes
BY DEF TypeOK, BudgetCovers, ColdTargets, Targets, Placed

LEMMA BudgetImplied ==
  ASSUME TypeOK, BudgetCovers
  PROVE  PowerBudget
BY CountedTypes, WithinLimit DEF PowerBudget, BudgetCovers

\* What this process wakes is a target of its plan.
LEMMA WokenEffect ==
  ASSUME BudgetInv, RememberWakes
  PROVE  woken \subseteq woken' /\ woken' \subseteq woken \cup ColdTargets
<1>1. ASSUME NEW n \in Nodes, PatchWake(n), ~Running(n) PROVE n \in ColdTargets
  BY <1>1, ContractAssumption DEF PatchWake, BudgetInv, BudgetCovers, ColdTargets
<1>. QED
  BY <1>1 DEF RememberWakes

LEMMA SolveKeepsBudget ==
  ASSUME BudgetAware, BudgetInv, Solve
  PROVE  Cardinality(woken \cup ColdTargets') <= MaxPowerOns
<1>1. TypeOK /\ plan = NoPlan /\ woken \subseteq inFlight
  BY NoTargets DEF BudgetInv, BudgetCovers, Stages, Solve
<1>2. PICK algorithm \in UsedAlgorithms :
        plan' \in Plans(algorithm, GatedPods, seen.rcNodes, Slack)
  BY DEF Solve
<1>3. PlanFor(plan', GatedPods)
  BY <1>1, <1>2, PlanShape, PlannerAssumption DEF TypeOK
<1>4. ColdTargets' \subseteq Nodes
  BY <1>3 DEF PlanFor, Placed, Targets, ColdTargets
<1>5. /\ IsFiniteSet(inFlight) /\ IsFiniteSet(woken) /\ IsFiniteSet(ColdTargets')
      /\ Cardinality(inFlight) \in Nat /\ Cardinality(woken) \in Nat
      /\ Cardinality(ColdTargets') \in Nat
      /\ Cardinality(woken) <= Cardinality(inFlight)
  <2>1. inFlight \subseteq Nodes
    BY <1>1 DEF TypeOK
  <2>. QED
    BY <1>1, <1>4, <2>1, FS_Subset, FS_CardinalityType, ContractAssumption
<1>6. Slack \in Int /\ Slack = MaxPowerOns - Cardinality(inFlight)
  BY <1>5, PlannerAssumption DEF Slack
<1>7. ColdTargets' = {} \/ Cardinality(ColdTargets') <= Slack
  <2>. DEFINE view == seen.rcNodes
  <2>1. DOMAIN view \subseteq Nodes /\ algorithm \in {"greedy", "exact"}
    BY <1>1 DEF TypeOK, BudgetAware
  <2>2. /\ Targets(plan') \subseteq Offline(view)
        /\ \/ Targets(plan') \cap Cold(view) = {}
           \/ Cardinality(Targets(plan') \cap Cold(view)) <= Slack
    BY <1>2, <1>6, <2>1, PlanBudget
  <2>3. ColdTargets' = Targets(plan') \cap Cold(view)
    BY <2>2 DEF Solve, ColdTargets, Targets, Running, Cold, Offline
  <2>. QED
    BY <2>2, <2>3
<1>8. CASE ColdTargets' = {}
  BY <1>1, <1>8, CountedTypes, WithinLimit DEF BudgetInv, BudgetCovers
<1>9. CASE Cardinality(ColdTargets') <= Slack
  <2>1. /\ Cardinality(woken \cap ColdTargets') \in Nat
        /\ Cardinality(woken \cup ColdTargets') =
             Cardinality(woken) + Cardinality(ColdTargets')
               - Cardinality(woken \cap ColdTargets')
    BY <1>5, FS_Union, FS_Subset, FS_CardinalityType
  <2>. QED
    BY <1>5, <1>6, <1>9, <2>1, PlannerAssumption
<1>. QED
  BY <1>7, <1>8, <1>9

\* Every other step keeps what is counted, and most of them leave it alone.
Quiet == UNCHANGED <<seen, plan, toWake, waking, inFlight>>

LEMMA QuietStep ==
  ASSUME BudgetInv, RememberWakes, Quiet,
         \/ pc' = pc
         \/ pc = "idle" /\ pc' = "list"
         \/ pc = "apply" /\ pc' = "wake"
  PROVE  BudgetCovers' /\ Stages'
<1>1. ColdTargets' = ColdTargets /\ Targets(plan)' = Targets(plan)
  BY DEF Quiet, ColdTargets, Targets, Running
<1>2. Stages'
  BY <1>1 DEF Quiet, BudgetInv, Stages
<1>3. woken' \cup ColdTargets' = woken \cup ColdTargets
  BY <1>1, WokenEffect
<1>4. woken' \subseteq inFlight \cup Targets(plan)
  BY <1>1, <1>3 DEF ColdTargets, BudgetInv, BudgetCovers
<1>. QED
  BY <1>1, <1>2, <1>3, <1>4 DEF Quiet, BudgetInv, BudgetCovers

LEMMA BudgetStep ==
  ASSUME BudgetAware, BudgetInv, BudgetNext
  PROVE  BudgetInv'
<1>1. TypeOK /\ TypeOK' /\ BudgetCovers /\ Stages
  BY TypeStep DEF BudgetInv, BudgetNext, Next
<1>. SUFFICES BudgetCovers' /\ Stages'
  BY <1>1 DEF BudgetInv
<1>2. CASE Restart /\ woken' = {}
  <2>1. Targets(plan)' = {} /\ ColdTargets' = {}
    BY <1>2, NoTargets DEF Restart, ColdTargets, Targets
  <2>. QED
    BY <1>2, <2>1, FS_EmptySet, NothingTypes, PlannerAssumption
       DEF Restart, BudgetCovers, Stages
<1>. SUFFICES ASSUME Alive, RememberWakes PROVE BudgetCovers' /\ Stages'
  BY <1>2 DEF BudgetNext
<1>3. woken \subseteq woken' /\ woken' \subseteq woken \cup ColdTargets
  BY WokenEffect
\* Steps that have no plan before and after them.
<1>4. ASSUME plan = NoPlan, plan' = NoPlan, UNCHANGED <<toWake, waking, inFlight>>,
             pc = "list", pc' \in {"list", "idle"}
      PROVE  BudgetCovers' /\ Stages'
  <2>1. ColdTargets = {} /\ ColdTargets' = {} /\ Targets(plan) = {} /\ Targets(plan)' = {}
    BY <1>4, NoTargets DEF ColdTargets, Targets
  <2>2. woken' = woken
    BY <1>3, <2>1
  <2>. QED
    BY <1>1, <1>4, <2>1, <2>2 DEF BudgetCovers, Stages
<1>5. ASSUME NEW kind \in Lists, List(kind) PROVE BudgetCovers' /\ Stages'
  BY <1>1, <1>4, <1>5 DEF List, Stages
<1>6. CASE ListFails
  BY <1>1, <1>4, <1>6 DEF ListFails, Stages
<1>7. CASE Solve
  <2>1. plan = NoPlan /\ toWake = {} /\ waking = None /\ woken' = woken
    <3>1. plan = NoPlan /\ toWake = {} /\ waking = None
      BY <1>1, <1>7 DEF Solve, Stages
    <3>. QED
      BY <1>3, <3>1, NoTargets DEF ColdTargets
  <2>2. woken' \subseteq inFlight
    BY <1>1, <2>1, NoTargets DEF BudgetCovers
  <2>3. Cardinality(woken' \cup ColdTargets') <= MaxPowerOns
    BY <1>7, <2>1, SolveKeepsBudget
  <2>4. BudgetCovers'
    BY <1>7, <2>1, <2>2, <2>3 DEF Solve, BudgetCovers
  <2>. QED
    BY <1>1, <1>7, <2>1, <2>4 DEF Solve, Stages
<1>8. ASSUME UNCHANGED <<seen, plan, pc>>, inFlight \subseteq inFlight',
             toWake' \cup ({waking'} \ {None}) \subseteq Targets(plan),
             Stages'
      PROVE  BudgetCovers'
  <2>1. ColdTargets' = ColdTargets /\ Targets(plan)' = Targets(plan)
    BY <1>8 DEF ColdTargets, Targets, Running
  <2>2. woken' \cup ColdTargets' = woken \cup ColdTargets
    BY <1>3, <2>1
  <2>3. woken' \subseteq inFlight' \cup Targets(plan)
    BY <1>1, <1>3, <1>8 DEF ColdTargets, BudgetCovers
  <2>. QED
    BY <1>1, <1>8, <2>1, <2>2, <2>3 DEF BudgetCovers
<1>9. ASSUME NEW p \in Pods, PatchPod(p) PROVE BudgetCovers' /\ Stages'
  <2>1. toWake' \subseteq Targets(plan)
    BY <1>1, <1>9 DEF PatchPod, Targets, BudgetCovers
  <2>2. Stages'
    BY <1>1, <1>9 DEF PatchPod, Stages, Targets
  <2>. QED
    BY <1>1, <1>8, <1>9, <2>1, <2>2 DEF PatchPod, BudgetCovers
<1>10. ASSUME NEW n \in Nodes, CheckWake(n) \/ PatchWake(n) \/ PatchWakeFails(n)
       PROVE  BudgetCovers' /\ Stages'
  <2>1. toWake' \cup ({waking'} \ {None}) \subseteq Targets(plan)
    BY <1>1, <1>10 DEF CheckWake, PatchWake, PatchWakeFails, BudgetCovers
  <2>2. UNCHANGED <<seen, plan, pc, inFlight>> /\ (toWake = {} => toWake' = {})
    BY <1>10 DEF CheckWake, PatchWake, PatchWakeFails
  <2>3. pc # "wake" => waking' = None
    BY <1>1, <1>10 DEF CheckWake, PatchWake, PatchWakeFails, Stages
  <2>4. Stages'
    BY <1>1, <2>2, <2>3 DEF Stages, Targets
  <2>. QED
    BY <1>8, <2>1, <2>2, <2>4
<1>11. CASE RecordPowerOns
  <2>1. ColdTargets' = ColdTargets /\ Targets(plan)' = Targets(plan)
    BY <1>11 DEF RecordPowerOns, ColdTargets, Targets, Running
  <2>2. woken' \cup ColdTargets' = woken \cup ColdTargets
    BY <1>3, <2>1
  <2>3. woken' \subseteq inFlight' \cup Targets(plan)
    BY <1>1, <1>3, <1>11 DEF RecordPowerOns, ColdTargets, BudgetCovers
  <2>4. BudgetCovers'
    BY <1>1, <1>11, <2>1, <2>2, <2>3 DEF RecordPowerOns, BudgetCovers
  <2>5. Stages'
    BY <1>1, <1>11, <2>1 DEF RecordPowerOns, Stages
  <2>. QED
    BY <2>4, <2>5
<1>12. CASE Done
  <2>1. Targets(plan)' = {} /\ ColdTargets' = {}
    BY <1>12, NoTargets DEF Done, ColdTargets, Targets
  <2>2. woken' \subseteq inFlight
    BY <1>1, <1>3, <1>12 DEF Done, Stages, ColdTargets, BudgetCovers
  <2>3. toWake' = {} /\ waking' = None
    BY <1>1, <1>12 DEF Done, Stages
  <2>4. Cardinality(woken' \cup ColdTargets') <= MaxPowerOns
    BY <1>1, <1>3, <2>1, CountedTypes, WithinLimit DEF BudgetCovers
  <2>5. Stages'
    BY <1>12, <2>3 DEF Done, Stages
  <2>. QED
    BY <1>12, <2>1, <2>2, <2>3, <2>4, <2>5 DEF Done, BudgetCovers
<1>13. CASE Tick \/ StartWakes
  BY <1>13, QuietStep DEF Tick, StartWakes, Quiet
<1>14. ASSUME NEW p \in Pods,
              PatchPodFails(p) \/ Release(p) \/ ReleaseFails(p) \/ CreatePod(p)
              \/ OpenOther(p) \/ DeletePod(p)
       PROVE  BudgetCovers' /\ Stages'
  BY <1>14, QuietStep
     DEF PatchPodFails, Release, ReleaseFails, CreatePod, OpenOther, DeletePod, tick, Quiet
<1>15. ASSUME NEW n \in Nodes, Machine(n) \/ GiveUp(n) PROVE BudgetCovers' /\ Stages'
  BY <1>15, QuietStep DEF Machine, GiveUp, tick, Quiet
<1>16. ASSUME NEW kind \in Lists, Notice(kind) PROVE BudgetCovers' /\ Stages'
  BY <1>16, QuietStep DEF Notice, tick, Quiet
<1>. QED
  BY <1>5, <1>6, <1>7, <1>9, <1>10, <1>11, <1>12, <1>13, <1>14, <1>15, <1>16
     DEF Alive, PlannerStep

\* Every machine this process wakes is recorded by the budget tracker, or a target
\* of the plan in hand, which is recorded before it is forgotten even when its wakes
\* are refused; and with the plan's cold targets they stay within the limit, under
\* every disturbance and however old what the planner reads is
\* (assignment_applier.go:93-110, periodic_reconciler.go:260-269).
THEOREM BootsAccounted == BudgetAware => (BudgetSpec => []BudgetInv)
<1>. SUFFICES ASSUME BudgetAware PROVE BudgetSpec => []BudgetInv
  OBVIOUS
<1>1. BudgetInit => BudgetInv
  <2>. SUFFICES ASSUME Init, woken = {} PROVE BudgetInv
    BY DEF BudgetInit
  <2>1. Targets(plan) = {} /\ ColdTargets = {}
    BY NoTargets DEF Init, ColdTargets
  <2>. QED
    BY <2>1, FS_EmptySet, PlannerAssumption, TypeInit
       DEF Init, BudgetInv, BudgetCovers, Stages
<1>2. BudgetInv /\ [BudgetNext]_budgetVars => BudgetInv'
  <2>1. BudgetInv /\ UNCHANGED budgetVars => BudgetInv'
    <3>. SUFFICES ASSUME BudgetInv, UNCHANGED budgetVars PROVE BudgetInv'
      OBVIOUS
    <3>1. TypeOK'
      BY TypeStep DEF BudgetInv, budgetVars
    <3>2. UNCHANGED <<woken, seen, plan, toWake, waking, inFlight, pc>>
      BY DEF budgetVars, vars, tick
    <3>3. ColdTargets' = ColdTargets /\ Targets(plan)' = Targets(plan)
      BY <3>2 DEF ColdTargets, Targets, Running
    <3>. QED
      BY <3>1, <3>2, <3>3 DEF BudgetInv, BudgetCovers, Stages
  <2>. QED
    BY <2>1, BudgetStep
<1>. QED
  BY <1>1, <1>2, PTL DEF BudgetSpec

\* Of the machines that boot at once the process has never woken more than the
\* policy allows, over any number of ticks, whatever owners and the autoscaler
\* switch on and off, whatever is refused, deleted or restarted, and however old the
\* planner's reads are, if the heuristic is not selected (periodic_reconciler.go:
\* 260-269, greedy.go:88-93, exact.go:276-280).
THEOREM BudgetHolds == BudgetAware => (BudgetSpec => []PowerBudget)
<1>. SUFFICES ASSUME BudgetAware PROVE BudgetSpec => []PowerBudget
  OBVIOUS
<1>1. BudgetInv => PowerBudget
  BY BudgetImplied DEF BudgetInv
<1>. QED
  BY BootsAccounted, <1>1, PTL

================================================================================
