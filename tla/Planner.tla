-------------------------------- MODULE Planner --------------------------------
(****************************************************************************)
(* internal/controller/periodic_reconciler.go, assignment_applier.go and    *)
(* budget_tracker.go: the loop that places gated pods and wakes machines.   *)
(*                                                                          *)
(* A tick lists RcNodes, Nodes and pods one after the other, solves for the *)
(* gated pods without an assignment, patches each placed pod with its       *)
(* target, wakes the flagged machines, records the wakes against the budget *)
(* and finally releases the pods that were assigned, and whose Node was     *)
(* there, when the lists were made.  Everything after the lists works from  *)
(* them, while pods, machines and owners move on.                           *)
(*                                                                          *)
(* The machines are those of NodeLifecycle, which the RcNode controller     *)
(* implements; owners and the cluster autoscaler switch them on and off as  *)
(* the planner does.  The solver is one of SolverContract.  The informers   *)
(* the planner reads may lag behind the server.                             *)
(****************************************************************************)
EXTENDS SolverContract

CONSTANTS MaxPowerOns,   \* MaxConcurrentPowerOns of the policy
          UsedAlgorithms,\* the algorithms the sizes of the problems select
          Namespaces,    \* the kinds of namespaces pods are in
          UserPhases,    \* the desiredPhase values owners and the autoscaler write
          Lagging,       \* the kinds of objects whose informer may lag behind
          Disturbances   \* which of AllDisturbances happen

VARIABLES desired, phase, up,  \* the machines, see NodeLifecycle
          ready,               \* the Nodes whose Ready condition is True
          pods,                \* pods[p]: the pod stored by the API server
          informers,           \* the caches lists and reads are served from
          pc,                  \* what the tick does next
          unread,              \* the lists still to be made
          seen,                \* the lists
          plan,                \* the solver's output
          todo,                \* pods still to be patched or released
          toWake,              \* nodesToWake of ApplyAssignments
          waking,              \* the machine found Offline, about to be woken
          inFlight             \* powerOnsInFlight of the budget tracker

machines == <<desired, phase, up, ready>>
tick == <<pc, unread, seen, plan, todo, toWake, waking>>
vars == <<machines, pods, informers, tick, inFlight>>

Life == INSTANCE NodeLifecycle

\* API calls are refused; the process restarts; users delete pods, whose names may
\* come back; pods are created with the gate of another controller; Nodes are
\* deleted by others; RcNodes are deleted and created; the node controller gives a
\* Node up.
AllDisturbances == {"refuse", "restart", "delete", "foreign", "remove", "retire", "unready"}

\* The webhook and the planner both leave system namespaces alone; "monitoring" is
\* one for the webhook only.
Lists == {"rcNodes", "nodes", "pods"}
Kinds == {"user", "monitoring", "system"}
Gates == {"recluster", "other"}

ASSUME PlannerAssumption ==
  /\ MaxPowerOns \in Nat
  /\ UsedAlgorithms \subseteq Algorithms
  /\ Namespaces \subseteq Kinds
  /\ UserPhases \subseteq Life!Phases
  /\ Lagging \subseteq Lists
  /\ Disturbances \subseteq AllDisturbances

\* ns: the kind of its namespace, which goes with its name; label:
\* recluster.io/assigned-node; selector: the nodeSelector of a release.
PodStates == [ns : Kinds, up : BOOLEAN, gates : SUBSET Gates,
              label : Nodes \cup {None}, selector : Nodes \cup {None}]
Absent(ns) == [ns |-> ns, up |-> FALSE, gates |-> {}, label |-> None, selector |-> None]

NothingSeen == [rcNodes |-> <<>>, nodes |-> {}, pods |-> [p \in Pods |-> Absent("system")]]
NoPlan == [to |-> <<>>, wake |-> {}]

\* Pods isSystemNamespace of the planner lets through.
Watched(ps) == {p \in Pods : ps[p].up /\ ps[p].ns # "system"}
Gated(ps) == {p \in Watched(ps) : ps[p].gates # {}}
Assigned(ps) == {p \in Watched(ps) : ps[p].label # None}
Held(ps) == {p \in Pods : ps[p].up /\ "recluster" \in ps[p].gates}

\* Mutant: pods already assigned are solved for again.
GatedPodsAll == Gated(seen.pods)

\* summary.GatedPods: any gate will do; assigned pods are left alone.
GatedPods == Gated(seen.pods) \ Assigned(seen.pods)
Placed(pl) == {p \in DOMAIN pl.to : pl.to[p] # None}
Targets(pl) == {pl.to[p] : p \in pl.wake}

\* Mutant: the Node is not looked at.
ReleasableAnywhere == Held(seen.pods) \cap Assigned(seen.pods)

\* The pods processAssignedPods releases: those whose Node was listed as Ready.
Releasable ==
  {p \in Held(seen.pods) \cap Assigned(seen.pods) : seen.pods[p].label \in seen.nodes}

\* What informers have cached.
Snapshots == [desired : [Nodes -> Life!Phases],
              phase : [Nodes -> Life!Reported \cup {"gone"}],
              ready : SUBSET Nodes,
              pods : [Pods -> PodStates]]
NothingCached == [desired |-> [n \in Nodes |-> "Offline"], phase |-> [n \in Nodes |-> "gone"],
                  ready |-> {}, pods |-> NothingSeen.pods]
Server == [desired |-> desired, phase |-> phase, ready |-> ready, pods |-> pods]

\* What of a is of a kind that lags behind, and the rest of b.
Lagged(a, b) ==
  [desired |-> IF "rcNodes" \in Lagging THEN a.desired ELSE b.desired,
   phase   |-> IF "rcNodes" \in Lagging THEN a.phase ELSE b.phase,
   ready   |-> IF "nodes" \in Lagging THEN a.ready ELSE b.ready,
   pods    |-> IF "pods" \in Lagging THEN a.pods ELSE b.pods]

\* The planner starts when its caches are filled; what a read returns.
Filled == Lagged(Server, NothingCached)
Read == Lagged(informers, Server)

View == [n \in {m \in Nodes : Read.phase[m] # "gone"} |->
           [ready   |-> Read.phase[n] = "Online",
            offline |-> Read.phase[n] = "Offline" \/ Read.desired[n] = "Offline"]]

\* Mutant: a Node that exists counts as Ready.
AnyNodes == up

\* The names of the listed Nodes with a Ready condition of True; of the list of
\* Nodes nothing else is used.
ReadyNodes == Read.ready

--------------------------------------------------------------------------------
(****************************************************************************)
(* One tick.                                                                *)
(****************************************************************************)
Tick ==
  /\ pc = "idle"
  /\ pc' = "list"
  /\ unread' = Lists
  /\ UNCHANGED <<machines, pods, informers, seen, plan, todo, toWake, waking, inFlight>>

List(kind) ==
  /\ pc = "list"
  /\ kind \in unread
  /\ unread' = unread \ {kind}
  /\ seen' = CASE kind = "rcNodes" -> [seen EXCEPT !.rcNodes = View]
               [] kind = "nodes"   -> [seen EXCEPT !.nodes = ReadyNodes]
               [] kind = "pods"    -> [seen EXCEPT !.pods = Read.pods]
  /\ UNCHANGED <<machines, pods, informers, pc, plan, todo, toWake, waking, inFlight>>

\* One of the lists was refused: the tick ends, without releasing anything.
ListFails ==
  /\ pc = "list"
  /\ unread = {}
  /\ "refuse" \in Disturbances
  /\ pc' = "idle"
  /\ seen' = NothingSeen
  /\ UNCHANGED <<machines, pods, informers, unread, plan, todo, toWake, waking, inFlight>>

\* Mutant: earlier wakes do not count.
SlackUnused == MaxPowerOns

\* GetCurrentState and GetLimits: the power-ons the solver may still use.
Slack == MaxPowerOns - Cardinality(inFlight)

Solve ==
  /\ pc = "list"
  /\ unread = {}
  /\ \E algorithm \in UsedAlgorithms :
       \E pl \in Plans(algorithm, GatedPods, seen.rcNodes, Slack) :
         /\ plan' = pl
         /\ todo' = Placed(pl)
  /\ pc' = "apply"
  /\ UNCHANGED <<machines, pods, informers, unread, seen, toWake, waking, inFlight>>

\* The pod gets its label; only then is its target remembered for a wake.
PatchPod(p) ==
  /\ pc = "apply"
  /\ p \in todo
  /\ Read.pods[p].up /\ pods[p].up
  /\ todo' = todo \ {p}
  /\ pods' = [pods EXCEPT ![p].label = plan.to[p]]
  /\ toWake' = IF p \in plan.wake THEN toWake \cup {plan.to[p]} ELSE toWake
  /\ UNCHANGED <<machines, informers, pc, unread, seen, plan, waking, inFlight>>

PatchPodFails(p) ==
  /\ pc = "apply"
  /\ p \in todo
  /\ ~(Read.pods[p].up /\ pods[p].up) \/ "refuse" \in Disturbances
  /\ todo' = todo \ {p}
  /\ UNCHANGED <<machines, pods, informers, pc, unread, seen, plan, toWake, waking, inFlight>>

StartWakes ==
  /\ pc = "apply"
  /\ todo = {}
  /\ pc' = "wake"
  /\ UNCHANGED <<machines, pods, informers, unread, seen, plan, todo, toWake, waking, inFlight>>

CheckWake(n) ==
  /\ pc = "wake"
  /\ waking = None
  /\ n \in toWake
  /\ toWake' = toWake \ {n}
  /\ waking' = IF Read.phase[n] # "gone" /\ Read.desired[n] \notin Life!Powered
                 THEN n ELSE None
  /\ UNCHANGED <<machines, pods, informers, pc, unread, seen, plan, todo, inFlight>>

PatchWake(n) ==
  /\ waking = n
  /\ Life!Want(n, "Booting")
  /\ waking' = None
  /\ UNCHANGED <<ready, pods, informers, pc, unread, seen, plan, todo, toWake, inFlight>>

PatchWakeFails(n) ==
  /\ waking = n
  /\ phase[n] = "gone" \/ "refuse" \in Disturbances
  /\ waking' = None
  /\ UNCHANGED <<machines, pods, informers, pc, unread, seen, plan, todo, toWake, inFlight>>

\* Mutants: no power-on is recorded; every target is recorded as one.
RecordNothing ==
  /\ pc = "wake"
  /\ toWake = {} /\ waking = None
  /\ pc' = "release"
  /\ todo' = Releasable
  /\ UNCHANGED <<machines, pods, informers, unread, seen, plan, toWake, waking, inFlight>>
RecordAll ==
  /\ pc = "wake"
  /\ toWake = {} /\ waking = None
  /\ inFlight' = inFlight \cup {plan.to[p] : p \in DOMAIN plan.to}
  /\ pc' = "release"
  /\ todo' = Releasable
  /\ UNCHANGED <<machines, pods, informers, unread, seen, plan, toWake, waking>>

\* Every flagged target counts, whether or not its pods and its wake were
\* applied.  Then the release pass begins.
RecordPowerOns ==
  /\ pc = "wake"
  /\ toWake = {} /\ waking = None
  /\ inFlight' = inFlight \cup Targets(plan)
  /\ pc' = "release"
  /\ todo' = Releasable
  /\ UNCHANGED <<machines, pods, informers, unread, seen, plan, toWake, waking>>

\* The nodeSelector is the label the list showed; it cannot be changed once
\* the gates are gone.  All of them go, those of other controllers included.
Release(p) ==
  /\ pc = "release"
  /\ p \in todo
  /\ pods[p].up /\ pods[p].gates # {}
  /\ todo' = todo \ {p}
  /\ pods' = [pods EXCEPT ![p].gates = {}, ![p].selector = seen.pods[p].label]
  /\ UNCHANGED <<machines, informers, pc, unread, seen, plan, toWake, waking, inFlight>>

ReleaseFails(p) ==
  /\ pc = "release"
  /\ p \in todo
  /\ ~(pods[p].up /\ pods[p].gates # {}) \/ "refuse" \in Disturbances
  /\ todo' = todo \ {p}
  /\ UNCHANGED <<machines, pods, informers, pc, unread, seen, plan, toWake, waking, inFlight>>

\* The lists and the plan are local to the tick.
Done ==
  /\ pc = "release"
  /\ todo = {}
  /\ pc' = "idle"
  /\ seen' = NothingSeen
  /\ plan' = NoPlan
  /\ UNCHANGED <<machines, pods, informers, unread, todo, toWake, waking, inFlight>>

PlannerStep ==
  \/ Tick \/ ListFails \/ Solve \/ StartWakes \/ RecordPowerOns \/ Done
  \/ \E kind \in Lists : List(kind)
  \/ \E p \in Pods : PatchPod(p) \/ PatchPodFails(p) \/ Release(p) \/ ReleaseFails(p)
  \/ \E n \in Nodes : CheckWake(n) \/ PatchWake(n) \/ PatchWakeFails(n)

\* The budget tracker is rebuilt empty: SyncWithCluster is never called.
Restart ==
  /\ "restart" \in Disturbances
  /\ pc # "idle" \/ inFlight # {}
  /\ pc' = "idle"
  /\ unread' = {}
  /\ seen' = NothingSeen
  /\ plan' = NoPlan
  /\ todo' = {}
  /\ toWake' = {}
  /\ waking' = None
  /\ inFlight' = {}
  /\ informers' = Filled
  /\ UNCHANGED <<machines, pods>>

--------------------------------------------------------------------------------
(****************************************************************************)
(* Users, owners and the RcNode controller.                                 *)
(****************************************************************************)
\* Mutant: a pod that has a gate already is not given another.
GateUnlessGated(ns, given) ==
  IF given # {} \/ ns # "user" THEN given ELSE {"recluster"}

\* The webhook: Handle, addSchedulingGate.
Gate(ns, given) == IF ns # "user" THEN given ELSE given \cup {"recluster"}

CreatePod(p) ==
  /\ ~pods[p].up
  /\ \E given \in {{}} \cup (IF "foreign" \in Disturbances THEN {{"other"}} ELSE {}) :
       pods' = [pods EXCEPT ![p].up = TRUE, ![p].gates = Gate(pods[p].ns, given)]
  /\ UNCHANGED <<machines, informers, tick, inFlight>>

\* Its own controller removes the other gate.
OpenOther(p) ==
  /\ pods[p].up /\ "other" \in pods[p].gates
  /\ pods' = [pods EXCEPT ![p].gates = @ \ {"other"}]
  /\ UNCHANGED <<machines, informers, tick, inFlight>>

DeletePod(p) ==
  /\ "delete" \in Disturbances
  /\ pods[p].up
  /\ pods' = [pods EXCEPT ![p] = Absent(@.ns)]
  /\ UNCHANGED <<machines, informers, tick, inFlight>>

\* The switch over the wanted and the reported phase has a case for n, other than
\* the shutdown: none for a wake of a machine that is reported Online already.
Served(n) == desired[n] \in Life!Powered /\ ~(desired[n] = "Booting" /\ phase[n] = "Online")

\* A Node is deleted by the shutdown, by the deletion of its RcNode, or by others;
\* the copy its controller works on may be older than what is wanted now.
NodesLeave == "Offline" \in UserPhases \/ Disturbances \cap {"remove", "retire"} # {}

\* The RcNode controller.
Control(n) ==
  \/ Life!InitOffline(n) \/ Life!BeginBoot(n) \/ Life!Join(n) \/ Life!Promote(n)
  \/ Life!GoOffline(n)
  \/ Life!ComeOnline(n) /\ (n \in up \/ NodesLeave)
  \/ Life!Leave(n) /\ NodesLeave

\* Its owner, or the cluster autoscaler.
Own(n) ==
  \/ \E d \in UserPhases : Life!Want(n, d)
  \/ /\ "retire" \in Disturbances
     /\ Life!Vanish(n) \/ \E d \in UserPhases \cup {"Offline"} : Life!Appear(n, d)

\* A Node is created Ready, and never becomes Ready again: an update of a Node that
\* is there does not write its status, a heartbeat keeps the condition it finds.
Machine(n) ==
  /\ Control(n) \/ Own(n)
  /\ ready' = (ready \cap up') \cup (up' \ up)
  /\ UNCHANGED <<pods, informers, tick, inFlight>>

\* The node controller finds the heartbeat too old, see Heartbeat.
GiveUp(n) ==
  /\ "unready" \in Disturbances
  /\ n \in ready
  /\ ready' = ready \ {n}
  /\ UNCHANGED <<desired, phase, up, pods, informers, tick, inFlight>>

\* The informer of one kind catches up; it may have shown any earlier state.
Notice(kind) ==
  /\ kind \in Lagging
  /\ informers' =
       CASE kind = "rcNodes" -> [informers EXCEPT !.desired = desired, !.phase = phase]
         [] kind = "nodes"   -> [informers EXCEPT !.ready = ready]
         [] kind = "pods"    -> [informers EXCEPT !.pods = pods]
  /\ UNCHANGED <<machines, pods, tick, inFlight>>

\* Machines may be switched, created and deleted before the first tick.
Init ==
  /\ phase \in [Nodes -> {"Offline", "Online"}]
  /\ desired = phase
  /\ up = {n \in Nodes : phase[n] = "Online"}
  /\ ready = up
  /\ pods \in [Pods -> {Absent(ns) : ns \in Namespaces}]
  /\ pc = "idle"
  /\ unread = {}
  /\ seen = NothingSeen
  /\ plan = NoPlan
  /\ todo = {}
  /\ toWake = {}
  /\ waking = None
  /\ inFlight = {}
  /\ informers = Filled

\* What happens while one process lives.
Alive ==
  \/ PlannerStep
  \/ \E p \in Pods : CreatePod(p) \/ OpenOther(p) \/ DeletePod(p)
  \/ \E n \in Nodes : Machine(n) \/ GiveUp(n)
  \/ \E kind \in Lists : Notice(kind)

Next == Alive \/ Restart

Spec == Init /\ [][Next]_vars

\* The ticker keeps firing and the controller keeps booting what is wanted and has
\* a case, which RcNodeController shows it does (ColdWakeCompletes, Serves).
Fairness ==
  /\ WF_vars(PlannerStep)
  /\ \A n \in Nodes :
       /\ WF_vars(Machine(n) /\ Served(n) /\ Life!BeginBoot(n))
       /\ WF_vars(Machine(n) /\ Served(n) /\ n \notin up /\ Life!Join(n))
       /\ WF_vars(Machine(n) /\ Served(n) /\ n \in up /\ Life!ComeOnline(n))

FairSpec == Spec /\ Fairness

--------------------------------------------------------------------------------
TypeOK ==
  /\ Life!LifeTypeOK
  /\ ready \subseteq up
  /\ pods \in [Pods -> PodStates]
  /\ informers \in Snapshots
  /\ pc \in {"idle", "list", "apply", "wake", "release"}
  /\ unread \subseteq Lists
  /\ seen = [rcNodes |-> seen.rcNodes, nodes |-> seen.nodes, pods |-> seen.pods]
  /\ DOMAIN seen.rcNodes \subseteq Nodes
  /\ seen.rcNodes \in [DOMAIN seen.rcNodes -> Views]
  /\ seen.nodes \subseteq Nodes
  /\ seen.pods \in [Pods -> PodStates]
  /\ DOMAIN plan.to \subseteq Pods
  /\ plan.to \in [DOMAIN plan.to -> Nodes \cup {None}]
  /\ plan.wake \subseteq Placed(plan)
  /\ todo \subseteq IF pc = "apply" THEN Placed(plan) ELSE Pods
  /\ toWake \subseteq Nodes
  /\ waking \in Nodes \cup {None}
  /\ inFlight \subseteq Nodes

\* An assignment is never changed: once a pod carries a target no later tick,
\* solver or release gives it another (buildSummary, periodic_reconciler.go:502).
LabelSticks ==
  [][\A p \in Pods : pods[p].up /\ pods'[p].up /\ pods[p].label # None
       => pods'[p].label = pods[p].label]_vars

\* Why: a pod listed without a target has none until the tick patches it.
LabelsFresh ==
  /\ pc = "list" /\ "pods" \notin unread =>
       \A p \in Pods : seen.pods[p].up /\ seen.pods[p].label = None => pods[p].label = None
  /\ pc = "apply" => \A p \in todo : pods[p].label = None

LabelInv == TypeOK /\ LabelsFresh

\* The machines asked to boot or booting, whoever asked.
Booting ==
  {n \in Nodes : phase[n] = "Booting" \/ (desired[n] = "Booting" /\ phase[n] # "Online")}

\* "CurrentPowerOnsInFlight tracks nodes currently booting" (types.go:147):
\* between ticks, nothing else counts against the budget for ever.
InFlightDrains == \A n \in Nodes : []<>(n \in inFlight => n \in Booting)

\* "RemainingCPU after accounting for assigned pods" (types.go:111): the pods
\* assigned to a machine fit it, over all ticks.
AssignedFit == WithinCapacity([p \in Assigned(pods) |-> pods[p].label])
================================================================================
