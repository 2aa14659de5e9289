# Verification of recluster

recluster is a Kubernetes operator that switches simulated machines on and off
to fit the pods that wait for them.  This directory holds TLA+ models of its
control logic, TLC configurations that check them on small instances, and proofs
checked by TLAPS that hold for every instance.  Paths below are relative to
`src/`; line numbers refer to the commit the models were written from.

1. [The system](#1-the-system)
2. [The modules](#2-the-modules)
3. [The runs](#3-the-runs)
4. [What does not hold](#4-what-does-not-hold)
5. [The proofs](#5-the-proofs)
6. [Assumptions and omissions](#6-assumptions-and-omissions)
7. [Plan](#7-plan)

## 1. The system

One process runs everything: a reconciler per CRD on top of controller-runtime,
a periodic loop that plans, and an admission webhook.  The components never call
each other across the first two groups; they interact through objects stored by
the API server (RcNode, Node, Pod), which they read through informer caches.

| component | state it keeps | operations | correct when |
|---|---|---|---|
| **RcNode controller** `internal/controller/rcnode_controller.go` | none of its own: `spec.desiredPhase`, `status.currentPhase`, `status.lastBootTime` and the finalizer of each RcNode, the Node of the same name; the framework keeps caches, a work queue and delayed re-queues | `Reconcile` and its handlers: start booting, check the boot delay, create the Node, promote, report Online, keep the heartbeat, shut down, handle deletion | a Node exists only for a machine that is powered, whatever is stale, refused or crashed; boot delays are respected; wishes are eventually granted |
| **Planner** `periodic_reconciler.go` | none between ticks: lists, summary, plan | every tick: four lists, solve for the gated pods, apply, record power-ons, release assigned pods whose Node was listed as Ready | an assignment never changes; a pod is released to its own target, once that is Ready; every assigned pod is released |
| **Assignment applier** `assignment_applier.go` | `nodesToWake`, local | patch each placed pod, then wake the flagged machines | every machine a labelled pod needs is woken |
| **Budget tracker** `budget_tracker.go` | `powerOnsInFlight`, hourly counters | `RecordPowerOn`, `GetCurrentState`; the others are never called | the planner wakes no more machines at once than the policy allows |
| **Solvers** `internal/solver/{greedy,exact,heuristic,solver}.go` | a partial plan, the accounts that go with it, a deadline | place or skip one pod at a time; branch and bound; local search; fallback from one to the other | capacity and budget are kept, each machine to wake is flagged, what is undone is what was done, every answer is one the planner can rely on |
| **Scoring, policy selection** `solver/scoring.go`, `solver/solver.go` | none | scores of placements, order of pods and machines; choice of algorithm | scores order candidates; modelled as integers, their curves not |
| **Webhook** `internal/webhook/pod_scheduling_gate.go` | none | gate a created pod, by namespace | every pod the planner is to place is gated |
| **Policy types and helpers, manager, metrics, generated code** `api/v1`, `cmd/main.go`, `solver/metrics.go` | none | – | not modelled |

Behaviours that make it hard:

* *Interleaving and staleness.*  A reconcile is a sequence of API calls made from
  a cached copy; owners, the planner's wake and the autoscaler write between any
  two of them.  The planner's lists are taken one after the other, before a
  solver that may run for a minute, and everything after it works from them.
* *Writes without a version.*  Creating and deleting a Node, the wake patch and
  the pod patches carry no resourceVersion and always apply.
* *Partial failure and crashes.*  Bringing a machine online takes three calls,
  placing a pod one patch for the label and another, much later, for the wake;
  each may be refused or be the last before a restart, and the budget tracker
  lives in memory only.
* *Timing.*  Boot delays carry a jitter drawn anew at each look; re-queues and
  the heartbeat loop share a single worker; a heartbeat is looked at in one
  period and refreshed by an age.
* *Deadlines in mid-search.*  Branch and bound and local search stop wherever the
  time runs out, on accounts they keep by doing and undoing.
* *Limits.*  A machine filled to the brim, a budget already exceeded when the
  solver starts, several pods on one machine to be woken, scores below zero.

`PROJECT.json` lists the hazards line by line, with the properties aimed at each.

## 2. The modules

    NodeLifecycle <--implements-- RcNodeController <-- RcNodeControllerProofs
          ^ instance                Heartbeat <-- HeartbeatProofs
       Planner <-- PlannerBudget, PlannerReleases, PlannerServes
          |              ^ extends the first two
          | extends      PlannerProofs
          v
    SolverContract <--extends-- Greedy <-- GreedyProofs
          ^                       ^ extends
          |                 Exact, Heuristic
          |                       ^ extends
          +-- its plans are returned by -- Solver <-- SolverProofs <-- ExactProofs
                                                                       <-- AnswerProofs

`MC...` modules only define the small sets of the instances.  `SumTheorems` holds
what the proofs about the solvers need to know of sums over finite sets.

### NodeLifecycle
The abstract promise about each machine: the phase wanted (`desired`), the phase
reported (`phase`, `"gone"` without RcNode), and whether the Node exists (`up`).
A machine boots only over an absent Node, is reported Offline only when it is
wanted Offline and its Node is gone, and vanishes only after its Node.  The
steps are named for what the reconciler achieves (`BeginBoot`, `Join`,
`Promote`, `ComeOnline`, `Leave`, `GoOffline`, `Vanish`).

### RcNodeController
`api[n]` is the stored RcNode, `nodes` the Nodes that exist, `cache`/`nodeCache`
the informers' copies, `queue`/`timers` the work queue and the delayed
re-queues, `pc[n]` the next API call of n's reconcile, `obj[n]` the copy it
works on.  One action is one API call, named after the handler that makes it.

* `Reconcile` and `Transition` are the switch over (desired, current); they
  return the set of calls the straight-line code may reach next, which has two
  elements only where the random jitter decides.
* Resource versions are not numbered.  `stale` holds the names whose cached copy
  is not the latest, `fresh` those whose working copy is; a versioned write
  (`Write`) succeeds only if `n \in fresh` and makes every other copy outdated.
* `lastBootTime` is kept as an age (`none`, `early`, `jitter`, `over`), because
  the code only compares it to the delay less 20 percent and plus 20 percent.
  `BootTick` lets time pass for every copy at once.
* `Restart` loses everything in memory and fills the caches from the server.
  `Fail` is a conflict or, with `"refuse"`, any refused call.
* `CheckWake` and `PatchWake` are the two halves of the applier's
  `triggerNodeWake`: a cached read, then a patch without version.
* Not kept: labels, taints and resources of the Node object.  It is one bit:
  present or not.  Its heartbeats are the subject of the next module.

### Heartbeat
`ensureNodeExists` of one Online machine against a clock of whole seconds.
`EnsureNodeExists` creates a missing Node (`Recreate`), refreshes a heartbeat
older than `RefreshAge` (`Refresh`), leaves a younger one alone, or is refused.
It runs when the delayed call is `due` (`TimerReconcile`) and at any other moment
somebody writes the RcNode (`EventReconcile`); `Delay` bounds how long a call
waits for the worker.  External: users who delete the Node and the node
controller, which gives up a Node older than `grace`.

### SolverContract
What a solver may return for one problem, as a set of plans: `GreedyPlans`
(within capacity and budget, nothing left out without need, one flag per machine
to wake), `ExactPlans` (the searched plans, to which every machine not wanted
costs, together with the greedy seed and the greedy plan) and
`HeuristicPlans` (a superset of what the local search returns: it may move pods
anywhere but keeps the number of placed ones, and what greedy woke counts as
ready afterwards).  Scores select one of them and are not represented.  Planner
works with these sets; the next four modules say how a member is found.

### Greedy
`greedy.go` step by step: the next most demanding pod is placed on the first
machine that fits and is not blocked by the budget.  `rank` is the order of the
machines, ready ones in front and then by base score, drawn once;
`remaining`, `flags`, `powerOns` are the running quantities.  A placement scores
the base score of its machine, an arbitrary integer, plus a bonus if the machine
is ready (`GreedyScore`, `GreedyTotal`).

### Exact
`exact.go`: branch and bound, one step per call entered, machine tried, trial
undone or call left.  `stack` holds the calls under way with what each will undo
(`fresh`, `paid`); `path`, `score`, `room`, `used`, `spent` are the running
quantities all calls share; `best` and `bestScore` the incumbent, which starts
as the greedy plan with greedy's own total.  The deadline may pass at any call.

### Heuristic
`heuristic.go`: rounds of three passes.  `Consolidate` takes the machines in the
order of the load they had at the start of the pass and finds a target for each
pod before any moves; `TrySwap` keeps the machine of the pod whose turn it is in
`home`, across swaps that move that pod; `MovePod` moves one.  The deadline may
pass between any two turns.  Moves are scored without base scores: the search
works on a copy of the input, in which they are still zero.  `stale` and
`crowded` are history variables: a swap used a `home` its pod had left, a
machine was emptied into one with room for its pods only one by one.

### Solver
`Solve` of `solver.go`: Greedy first, then the search of the `regime`, and the
fallback from exact to heuristic when nothing was assigned.  Size and time
thresholds are an arbitrary choice of the regime.  `SolverKeepsContract` says
that whatever is returned is one of the `Plans` of SolverContract, so that the
planner's model and the solvers' fit together.

### Planner
A tick is `Tick`, one `List` per kind in any order, `Solve`, a patch per pod,
the wake loop, `RecordPowerOns`, a release per pod, `Done`; a refused list ends
it (`ListFails`).  `seen` holds the lists, `plan` the output, `toWake` the
applier's `nodesToWake`, `inFlight` the tracker.  Machines and pods move between
any two steps.

* The machines are those of NodeLifecycle: `Control` is what the RcNode
  controller does, `Own` what owners and the cluster autoscaler do, who write the
  phases in `UserPhases` at any time (`rcnode_controller.go:114-119`,
  `config/autoscaler-recluster/cluster-autoscaler.yaml:50-53`).
* `ready` holds the Nodes whose Ready condition is True, the only thing the
  release pass looks at (`periodic_reconciler.go:526-536`).  `createOrUpdateNode`
  creates a Node Ready; an update of one that exists does not write its status,
  and the heartbeat refresh leaves the condition as it is
  (`rcnode_controller.go:253-258`).  So a Node given up by the node controller
  (`GiveUp`) becomes Ready again only by being deleted and created anew.
* A pod has a namespace of one of three kinds - `"monitoring"` is a system
  namespace for the webhook only - and gates: recluster's, which `CreatePod`
  adds as the webhook does, and possibly one of another controller.
* Every list and every read is served from `informers`.  Those of the kinds in
  `Lagging` catch up (`Notice`) whenever they like, a read of another kind shows
  what is stored.  The patches are raw patches by name and always act on what is
  stored.
* `Disturbances` selects what else happens: refused calls, restarts, pods deleted
  and re-created by name, foreign gates, Nodes deleted by others, RcNodes deleted
  and created, Nodes given up.

### PlannerBudget, PlannerReleases, PlannerServes
Planner with history variables, which only watch.  `woken` holds the machines this
process has woken; the budget tracker knows of no others.  `lost` and `replaced`
are the Nodes and pods that were listed and have ceased to be Ready, or been
deleted, since.  `missed` holds the machines whose wake was refused, or was lost
with a pod or a process.

## 3. The runs

| run | instance | shows |
|---|---|---|
| RcNodeSafety | 1 RcNode, all phases, all disturbances | `TypeOK`, `NodeBacked`, `BootRespected`, the inductive `IInv`, and that every API call is a step of NodeLifecycle (`ImplementsLifecycle`) |
| RcNodeLiveness | 1 RcNode, restarts, refusals, foreign Node deletions for ever | `Drains`: finally wanted Offline, it ends Offline without Node; `Serves`: finally wanted Online, it is Online with its Node again and again |
| RcNodeWishes | 1 RcNode, wakes and deletions | `ColdWakeCompletes`, `DeletionCompletes` |
| RcNodePair | 2 RcNodes, 1 worker | `Serves` for both: the endless heartbeat loop of one does not starve the other |
| Heartbeat | 20 s, 30 s, delays to 2 s, one refusal, grace of 40 s and 84 s | `AgeBounded`: how old a heartbeat gets; `BackSoon`: how long a Node stays away; `StaysReady`: the grace period from which a Node stays Ready; `IInv`, why |
| PlannerBudget | 2 machines with room for one pod, 2 pods, budget 1, owners switch on and off, restarts | `PowerBudget` and why (`BudgetInv`); `TypeOK` |
| PlannerLabels | 2 machines, 1 pod, user and system namespace, every algorithm, prompt reads, every disturbance but foreign gates | `LabelSticks` and why (`LabelInv`); `ReleasedToNode` and why (`ReleaseInv`) |
| PlannerServes | 1 machine with room for both, 2 pods, owners switch on, refusals, restarts, foreign gates, Nodes given up, RcNodes that lag | `AssignedIsReleased` |
| Solver | 3 machines, 3 pods, two resources, every view, scores with a penalty, 0, 1 or 3 in flight of 2, every deadline | greedy: `NeverOverdrawn`, `BudgetKept`, `WakesOnce`, `IInv`; exact: `ExactTypeOK`, `SpendingHonest`, `PathHonest`, `BestWithinBudget`, `IncumbentSound`, `Exhaustive`; heuristic: `HeuristicTypeOK`, `Conserved`, `AccountsHonest`, `HeuristicKeepsContract`; together: `SolverKeepsContract`, `FallsBackOnlyAtALoss`, `Returns` |
| RcNodeWakeStuck, PlannerInFlight, PlannerOvercommit | see the next section | counterexamples |

*Why the bounds are enough.*  RcNodes share nothing but the worker, so one shows
every interleaving of a machine's own actors and two show the worker; the proofs
cover any number.  Two machines and two pods with a budget of one are the least
in which one wake can cost another its budget, in one tick or in the next.  What
the lists say of a pod does not depend on other pods, so one pod on two machines
shows what can become of it.  Two pods on one machine are the least in which
one of them carries the wake of the other.  The proofs of section 5 cover what
these runs leave out to stay small: budget and releases with every disturbance at
once, and the budget with reads of any age.  In
Solver one pod asks for twice the cpu of the others and two are alike; the
machines have two units of cpu each but differ in memory, so that either decides;
one machine has a penalty larger than readiness makes up for, one a bonus; the
numbers in flight are none, one less than the limit and one more than it.  Three
pods are the least with which a swap can be made from a home its pod has left,
three machines the least with which emptying one crowds another.  In Heartbeat
84 = 20 + 2 * (30 + 2) is the grace period that `StaysReady` asks for and 40 the
default; `MaxMisses` bounds the refusals since the last success, `Delay` the
wait for the worker.  `BootAges` and the re-queues are finite by construction.

*Deadlock* is checked except in Solver, which ends when the call is answered.

*Fairness.*  `RcNodeController!Fairness`: the worker, the informers and the
clock keep running (weak), and the work queue is first in, first out, so that a
name queued again and again is served (strong, on `Dequeue` only).  With
restarts and refusals for ever, `RetryFairness` adds that a call made again and
again is carried out at some point: controller-runtime retries with bounded
back-off and neither failure is permanent.  Owners, users, the wake and all
disturbances are under no fairness.  `Planner!Fairness`: the ticker fires and the
controller carries on booting what is wanted and has a case in its switch
(`Served`).  That is not assumed of the real controller without reason: it is
`ColdWakeCompletes` and `Serves` above.  PlannerServes adds that a release tried
tick after tick is granted some time (strong, on `Release`), and its property is
about behaviours in which ticks get as far as the release pass again and again:
a list may be refused often, not always, and the process does not die in every
tick.  A wake that is refused is not tried again, so nothing is assumed of it.
`Solver!FairSolver`: the code runs on, and the deadline of the local search
passes some time.  The second is needed, see the next section.

## 4. What does not hold

Every item is what the code does, at the line given; the first three have a run
whose counterexample shows it.

* **RcNodeWakeStuck.**  The switch has no case for (Booting, Online).  A wake
  patch that lands between the deletion of the Node and the report of Offline
  is undone by nothing and served by nothing (`rcnode_controller.go:104`).
* **PlannerInFlight.**  Nobody calls `CompletePowerOn`; after
  MaxConcurrentPowerOns wakes no machine is woken until the process restarts
  (`budget_tracker.go:113`).
* **PlannerOvercommit.**  Each tick plans as if every machine were empty
  (`periodic_reconciler.go:713`).

These definitions are stated in the modules and TLC finds them violated when
they are added to the run of that component:

* **`Exact!Optimal`**: "Finds the optimal pod-to-node assignment"
  (`exact.go:39`) is not so.  The incumbent carries greedy's total, which counts
  the bonus of a ready machine for those greedy has just decided to wake; the
  branches are scored without it (`exact.go:116`), so better placements are
  pruned.  `Exhaustive` says what is true: nothing beats the score to beat.
* **`Heuristic!NeverOverfilled`**: a machine may get more than it declares.
  Consolidation picks targets one by one before it moves anything
  (`heuristic.go:355`), and a swap may use a home its pod has left (`:244`).
  `AccountsHonest` says that these two are the only ways, `Conserved` that the
  errors of two accounts always cancel.
* **`PlannerBudget!BootsLimited`**: "MaxConcurrentPowerOns limits how many nodes
  can be booted simultaneously" (`rcpolicy_types.go:251`) holds of the planner's
  own wakes only.  Nobody counts a machine switched on by its owner or by the
  cluster autoscaler (`rcnode_controller.go:114`, `budget_tracker.go:105`), so
  with `UserPhases <- SwitchOn` two machines boot with a limit of one; and a
  restarted tracker is empty while machines boot, as `SyncWithCluster`
  (`budget_tracker.go:157`) has no caller.  `PowerBudget` says what is true.
* **`Heartbeat!ReadyByDefault`**: "every 30s, well within 40s grace"
  (`rcnode_controller.go:268`) overlooks that a heartbeat of up to 20 s is left
  alone (`:255`): its age can reach 50 s, without delay or refusal.  The node
  controller may then take the Ready condition away, the refresh does not give it
  back, and the pods assigned to that machine keep their gates for ever
  (`periodic_reconciler.go:561`): one of the two exceptions of
  `AssignedIsReleased`.

Further observations made while modelling:

* Moves of the heuristic are scored with base scores of zero; the comment at
  `heuristic.go:144` expects them to be there.
* `tryConsolidate` "Returns true if any node was freed" (`heuristic.go:285`), but
  the pods may just have gone to a machine not in use before.  Pods then move to
  and fro until the deadline: `Returns` fails without the fairness of `Expire`.
* The heuristic looks at no budget and loses the flags of machines greedy woke
  (`heuristic.go:510`).  It also takes over from the exact search when penalties
  make every placement worth less than nothing (`solver.go:110-114`), which
  `FallsBackOnlyAtALoss` delimits.
* A machine that is being shut down is ready and offline at once
  (`periodic_reconciler.go:721-723`): greedy uses it free of charge, exact flags
  that placement as a wake (`exact.go:181`).  `PowerBudget` does not count a
  machine that was listed as Online; with it counted, the limit fails.
* A release clears every gate, those of other controllers included
  (`periodic_reconciler.go:623`); pods of the monitoring namespace with a foreign
  gate are assigned but never released (`:642` against the webhook).

Some properties of the passing runs come with a condition, and it is needed: TLC
finds each of the following with the constants of the run changed accordingly, for
the heuristic with `RoomForTwo` and three (`PowerBudget`) or two machines.  The
rows about the heuristic rest on `HeuristicPlans`, which is wider than the local
search, so they show what cannot be concluded rather than a failure.

| property | condition | without it |
|---|---|---|
| `PowerBudget` | no heuristic | the local search looks at no budget |
| `LabelSticks` | pods do not lag | a tick that follows closely misses the label its predecessor gave and assigns the pod again (`periodic_reconciler.go:502`) |
| `ReleasedToNode` | pods and Nodes do not lag | the lists show a Node or a label that was gone when they were made (`periodic_reconciler.go:131`) |
| `AssignedIsReleased` | owners do not switch off, no `"remove"`, no `"retire"` | a machine shut down after its wake, or whose Node is gone, is not woken again, as the pod is labelled already |
| `AssignedIsReleased` | no heuristic | machines woken by the greedy seed lose their flag |
| `DeletionCompletes` | the owner stops rewriting the object | every update may conflict |

Other properties name their exceptions.  `ReleasedToNode` excuses a Node that was
lost, or a pod that was replaced under its name, between the list and the release
(`periodic_reconciler.go:280`, `:632`).  `AssignedIsReleased` excuses a Node that
is there and not Ready (`:561`), and a machine whose wake was refused or was lost
with the pod that carried it or with the process (`assignment_applier.go:95`,
`:101`, `:102`): nothing repeats it.

## 5. The proofs

All theorems hold for every value of the constants that satisfies the named
assumptions: `ControllerAssumption` (at least one worker), `PlannerAssumption`
and `ContractAssumption` (finitely many machines, natural requests and
capacities, `None` is no machine), `GreedyAssumption` (finitely many pods, cpu
and memory, integer scores), `ExactAssumption` (`Sorted` lists the pods in the
order of their demand), `HeartbeatAssumption` (periods are natural numbers).

Every invariant of the passing runs is a theorem, and so are the action
properties and the refinement.  Those of Planner carry a condition of section 4
as a hypothesis (`Prompt`, `PromptLists`, `BudgetAware`), and hold under every
disturbance and whatever owners write.

**RcNodeControllerProofs**, for any number of RcNodes and workers, and any
disturbances: `TypeCorrect`, `Invariant`, `NodesBacked`, `BootsRespected`,
`Refinement`.  `NodeBacked` is not inductive: a Node is created from a copy that
may be outdated.  The strengthening `IInv` says what an outdated copy may be
wrong about.  Only the worker changes currentPhase, and only from the latest
copy (`CopiesCurrent`, `ReportsHonest`); hence a cached copy that shows a
machine powered and wanted can lag behind its owner's wish, never behind its
power-off (`LagHarmless`); and from that, what each pending call knows of the
server at the moment it is made (`CallsJustified`).  There is one lemma per
action (`...Facts`), and `StepRefines` maps each action to a step of
NodeLifecycle or to a stutter.

**PlannerProofs**
* `PlannerTypeCorrect`, for every algorithm and disturbance.
* `LabelsCurrent` and `LabelsStick`: `LabelSticks` if the lists of pods are not
  outdated (`Prompt`).  A pod listed without a target still has none when it is
  patched (`LabelsFresh`), because nobody but the one planner writes labels and
  a re-created pod has none.
* `ListsStayTrue` and `PodsReachTheirNode`: `ReleasedToNode` if the lists of pods
  and Nodes are not (`PromptLists`).  By `ListsHold`: what was listed is still true
  of Nodes not in `lost` and pods not in `replaced`, and only what was listed as
  Ready is released to.
* `BootsAccounted` and `BudgetHolds`: `PowerBudget` over any number of ticks and
  processes, with greedy and exact plans (`BudgetAware`), whatever machines do
  and however old what the planner reads is.  By `BudgetInv`: what this process
  woke is recorded or a target of the plan in hand, a plan is recorded before it
  is forgotten, and the targets of a plan that are not running fit what the
  recorded machines leave (`PlanBudget`).

**SumTheorems**: how sums over finite sets behave when an element is taken out,
when sets are joined, when summands are compared or grouped.  `SumFunctionOnSet`
recurses over the subsets of a set.  Where one would use induction on the set, a
proof assumes that the claim fails for some subset, takes a smallest one
(`SmallestSubset`, from the well-foundedness of the naturals) and takes an
element out of it (`SumRemove`); the same way shows that the recursive function
exists at all (`SumsExist`).

**GreedyProofs**: `NoOverdraft`, `Budget`, `Wakes`, from `IInv`.  Its part
`Charged` ties the running count and the running flags to the plan so far,
`Accounted` the running capacities to what the pods placed so far ask for, and
`SkippedForCause` says of every pod left out that no machine had room for it
that the budget did not forbid; capacities only shrink and the count only grows,
so a cause stays one.  From these, `GreedyContract`: the plan is one of the
`GreedyPlans` of SolverContract.

**SolverProofs**: `SeedUndisturbed`, that exact and heuristic leave what is
proved of greedy alone; `LocalSearch`, that the local search keeps
`HeuristicKeepsContract` from any moment of the deadline; `LocalTyped`.
`NothingLost` and `AccountsRight` are about its accounts.  The invariant of the
first is `Weigh`: what the accounts say is left, plus what the placed pods ask
for, is what all machines have.  It holds across moves made on wrong accounts,
because a move books what it moves twice, with opposite signs, and pods that go
to several machines at once are counted machine by machine (`DemandByNode`).
`Honest` keeps the accounts of each single machine, until `stale` or `crowded`.

**ExactProofs**: `SearchHonest` and `AnswerWithinBudget`.  Neither is inductive:
an undo restores the running quantities only if the trial it undoes is the one
on the path, and gives a machine back only if no earlier pod uses it.
`SearchInv` therefore adds `TrialsHonest`: at every level of the stack, what
the call will undo is what it did, given what the calls above it chose.  With
it, `UndoKeeps` and `TryKeeps` are each other's inverse; that pods occur once in
`Sorted` (`SortedOnce`) keeps the levels apart.

**AnswerProofs**: what the search answers.  `AnswerInv` says, besides the honesty
of capacities and score (`PathIsHonest`) and the types (`SearchTyped`),
* `Incumbent`: the best answer so far is greedy's with greedy's own total, or its
  score is its value and more than that; hence `AtLeastGreedy`.  Greedy's total
  is never below the value of its plan (`GreedyCountsMore`), as it only adds the
  bonus of ready machines.
* `NothingMissed`: while there is time, a feasible placement worth more than the
  incumbent is still ahead: some call on the stack was reached by the choices
  this placement makes for the pods before, and has its choice for the next pod
  still to try.  A trial that is skipped is no placement's (no room, no budget),
  and a call that is cut by the bound has none better below it, as each pod
  adds at most the best score of all machines.  With an empty stack it is
  `NothingBetter`: the pruned search is exhaustive.

`FallBackJustified` follows: an exact answer that assigns nothing has value 0, and
replaces greedy's plan only if that one is worth less (`HandOver`).
`ContractKept` puts all of it together: for every algorithm, hand-over and
deadline the answer is one of the `Plans` of SolverContract, which is what Planner
assumes of its solver.  With it, the theorems of PlannerProofs rest on the
solvers' code and not on a promise of theirs.

**HeartbeatProofs**: `InTimeAlways`, `AgesBounded`, `NodesReturn`,
`GraceSuffices`, for every refresh age, period and delay, from `IInv`, whose part
`InTime` bounds the age plus the time to the next call.

*Only model-checked*: everything under fairness (`Drains`, `Serves`,
`ColdWakeCompletes`, `DeletionCompletes`, `AssignedIsReleased`, `Returns`), which
TLAPS cannot treat: it has no rule for `ENABLED`, so weak and strong fairness
give a proof nothing to hold on to.

## 6. Assumptions and omissions

* The limits of the policy do not change.
* External to the code and modelled from how it is used: the node controller,
  which takes the Ready condition from a Node whose heartbeat is too old, and
  owners and the cluster autoscaler.  Nobody but recluster makes a Node Ready.
* One replica of the manager runs; leader election is not modelled.
* Base scores of machines are arbitrary integers.  The floating-point curves that
  compute them (`ComputeNodeBaseScore`) and the choice of the policy
  (`SelectPolicy`) are not modelled; nor are thresholds of size and time, the
  choice of the algorithm being arbitrary within `UsedAlgorithms` and `regime`.
* Rounding, overflow and the rebalancing bonus (no caller gives a hint) are
  left out.
* Migrations are not modelled: no caller sets `IsRebalancingMove`.
* Code without callers is not modelled: `CompletePowerOn`, `SyncWithCluster`,
  `CanPowerOn`, `RecordMigration`, `CanMigrate` (budget tracker),
  `RemoveSchedulingGate` (applier), `GroupPodsByPolicy`, `rcpolicy_scoring.go`.
* Not modelled, because only about data: labels, taints and resources of Node
  objects, generated deep copies, metrics, TLS and flags, manifests.
* The deadline of a call is one event; the time limits themselves are not.

## 7. Plan

Done: all components with a state of their own, their faults, and the theorems
of section 5.  What is left, most important first:

1. **Composition** of Planner with RcNodeController in place of NodeLifecycle on
   a minimal instance.  The refinement proof covers what Planner relies on for
   safety; the instance would show the counterexample of RcNodeWakeStuck from
   end to end.
2. **Policies**: several policies with limits of their own and `SelectPolicy`,
   which decides the limit per tick, and policies that change between ticks.
3. **Liveness with lagging informers**: `AssignedIsReleased` under fairness of
   `Notice`, where a second assignment may leave the first one's wake unused.
4. **Proofs** of what the next extensions rest on: a lemma per fairness property
   that names the measure which decreases.
