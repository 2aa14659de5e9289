---------------------------- MODULE RcNodeController ----------------------------
(****************************************************************************)
(* internal/controller/rcnode_controller.go: one reconcile worker driving   *)
(* every RcNode through Offline -> Booting -> Online -> Offline and owning  *)
(* the Kubernetes Node of the same name.                                    *)
(*                                                                          *)
(* A reconcile is not atomic.  It reads the RcNode from the informer cache, *)
(* which may lag behind the API server, and then makes API calls one at a   *)
(* time; users, the planner's wake patch, the autoscaler and crashes run    *)
(* between any two of them.  Each step below is one API call.  Updates of   *)
(* an RcNode carry the resourceVersion of the copy they were made from and  *)
(* succeed only if that is still the latest one (n \in fresh); creating and *)
(* deleting a Node and the wake patch carry none and always apply.          *)
(*                                                                          *)
(* Resource versions are not numbered: the model only keeps whether a copy  *)
(* is the latest.  When a cache catches up it moves to the latest object.   *)
(****************************************************************************)
EXTENDS Integers, FiniteSets

CONSTANTS Nodes,        \* names of RcNodes
          Workers,      \* MaxConcurrentReconciles of the controller
          UserPhases,   \* the desiredPhase values owners write
          Disturbances  \* which of AllDisturbances happen

VARIABLES api,          \* api[n]: the RcNode stored by the API server
          nodes,        \* names whose Kubernetes Node exists
          cache,        \* cache[n]: the informer's copy of the RcNode
          stale,        \* names whose informer copy is not the latest
          nodeCache,    \* names whose Node the Node informer knows
          queue,        \* work queue
          timers,       \* names with a delayed re-queue pending
          pc,           \* pc[n]: the next API call of n's reconcile, or "idle"
          obj,          \* obj[n]: the copy n's reconcile works on
          fresh,        \* names whose obj carries the latest resourceVersion
          waking        \* names the planner found Offline and is about to wake

vars == <<api, nodes, cache, stale, nodeCache, queue, timers, pc, obj, fresh,
          waking>>

server == <<api, nodes>>
informers == <<cache, stale, nodeCache>>
worker == <<pc, obj, fresh>>

\* "Error" stands for ShuttingDown and Error: no transition mentions them.
Phases == {"Offline", "Booting", "Online", "Error"}
Powered == {"Booting", "Online"}

\* How long ago lastBootTime was, against the boot delay and its 20% jitter:
\* certainly too recent, within the jitter, certainly long enough ago.
BootAges == {"none", "early", "jitter", "over"}

RcNodes == [up : BOOLEAN, desired : Phases,
            current : {"unset", "Offline", "Booting", "Online"},
            boot : BootAges, finalizer : BOOLEAN, deleting : BOOLEAN]

Absent == [up |-> FALSE, desired |-> "Offline", current |-> "unset",
           boot |-> "none", finalizer |-> FALSE, deleting |-> FALSE]

ApiCalls == {"AddFinalizer", "StartBooting", "CreateNode", "Promote", "SetOnline",
             "DeleteNode", "SetOffline", "InitOffline", "RemoveFinalizer"}
CacheReads == {"Refetch", "RefetchPromoted", "EnsureNodeExists"}
Returns == {"done", "requeue"}

\* The controller restarts, API calls are refused without a conflict, the
\* planner wakes machines, owners delete RcNodes, somebody else deletes Nodes.
AllDisturbances == {"restart", "refuse", "wake", "delete", "remove"}

ASSUME ControllerAssumption ==
  /\ Workers \in Nat \ {0}
  /\ UserPhases \subseteq Phases
  /\ Disturbances \subseteq AllDisturbances

--------------------------------------------------------------------------------
(****************************************************************************)
(* Which call comes next.  Each operator is the set of possible outcomes of *)
(* a piece of straight-line code: it has two elements only where the random *)
(* jitter of getBootDelay decides.                                          *)
(****************************************************************************)
\* Mutants: the remaining time is not looked at; it is not turned into a re-queue.
CheckBootEager(o) == IF o.boot = "none" THEN {"StartBooting"} ELSE {"CreateNode"}
CheckBootWaits(o) == IF o.boot = "over" THEN {"CreateNode"} ELSE {"wait"}

CheckBootComplete(o) ==
  CASE o.boot = "none"   -> {"StartBooting"}
    [] o.boot = "early"  -> {"requeue"}
    [] o.boot = "jitter" -> {"requeue", "CreateNode"}
    [] o.boot = "over"   -> {"CreateNode"}

\* Mutants: a booting machine cannot be shut down; one is shut down without
\* deleting its Node; only desiredPhase Online boots.
TransitionNoAbort(o) ==
  CASE o.desired \in Powered /\ o.current \in {"unset", "Offline"} -> {"StartBooting"}
    [] o.desired \in Powered /\ o.current = "Booting" -> CheckBootComplete(o)
    [] o.desired = "Offline" /\ o.current = "Online" -> {"DeleteNode"}
    [] o.desired = "Offline" /\ o.current = "unset" -> {"InitOffline"}
    [] OTHER -> {"done"}
TransitionLeaky(o) ==
  CASE o.desired \in Powered /\ o.current \in {"unset", "Offline"} -> {"StartBooting"}
    [] o.desired \in Powered /\ o.current = "Booting" -> CheckBootComplete(o)
    [] o.desired = "Offline" /\ o.current # "Offline" -> {"SetOffline"}
    [] OTHER -> {"done"}
TransitionDeaf(o) ==
  CASE o.desired = "Online" /\ o.current \in {"unset", "Offline"} -> {"StartBooting"}
    [] o.desired \in Powered /\ o.current = "Booting" -> CheckBootComplete(o)
    [] o.desired = "Offline" /\ o.current \in Powered -> {"DeleteNode"}
    [] OTHER -> {"done"}

\* The switch over (desiredPhase, currentPhase).
Transition(o) ==
  CASE o.desired \in Powered /\ o.current \in {"unset", "Offline"} -> {"StartBooting"}
    [] o.desired \in Powered /\ o.current = "Booting" -> CheckBootComplete(o)
    [] o.desired = "Online" /\ o.current = "Online" -> {"EnsureNodeExists"}
    [] o.desired = "Offline" /\ o.current \in Powered -> {"DeleteNode"}
    [] o.desired = "Offline" /\ o.current = "unset" -> {"InitOffline"}
    [] OTHER -> {"done"}

\* Mutant: no finalizer is added.
ReconcileUnguarded(o) ==
  CASE ~o.up -> {"done"}
    [] o.up /\ o.deleting -> IF o.finalizer THEN {"DeleteNode"} ELSE {"done"}
    [] OTHER -> Transition(o)

Reconcile(o) ==
  CASE ~o.up -> {"done"}
    [] o.up /\ o.deleting -> IF o.finalizer THEN {"DeleteNode"} ELSE {"done"}
    [] o.up /\ ~o.deleting /\ ~o.finalizer -> {"AddFinalizer"}
    [] OTHER -> Transition(o)

--------------------------------------------------------------------------------
Idle(n) == pc[n] = "idle"

\* A write accepted by the API server: every existing copy becomes outdated.
Write(n, o) ==
  /\ api' = [api EXCEPT ![n] = o]
  /\ stale' = stale \cup {n}
  /\ fresh' = fresh \ {n}

\* The reconcile of n returns; with again, it asks to be run again later.
Return(n, again) ==
  /\ pc' = [pc EXCEPT ![n] = "idle"]
  /\ obj' = [obj EXCEPT ![n] = Absent]
  /\ fresh' = fresh \ {n}
  /\ timers' = IF again THEN timers \cup {n} ELSE timers

Continue(n, step) ==
  /\ pc' = [pc EXCEPT ![n] = step]
  /\ UNCHANGED <<obj, timers>>

\* Mutant: an outdated copy passes for the latest one.
LoadTrusting(n, step) ==
  /\ pc' = [pc EXCEPT ![n] = step]
  /\ obj' = [obj EXCEPT ![n] = cache[n]]
  /\ fresh' = fresh \cup {n}
  /\ UNCHANGED timers

\* The reconcile works from the informer's copy and goes to step.
Load(n, step) ==
  /\ pc' = [pc EXCEPT ![n] = step]
  /\ obj' = [obj EXCEPT ![n] = cache[n]]
  /\ fresh' = IF n \in stale THEN fresh \ {n} ELSE fresh \cup {n}
  /\ UNCHANGED timers

Proceed(n, steps) ==
  \E step \in steps : IF step \in Returns THEN Return(n, step = "requeue")
                                          ELSE Load(n, step)

(****************************************************************************)
(* The reconcile of n.                                                      *)
(****************************************************************************)
Dequeue(n) ==
  /\ n \in queue
  /\ Idle(n)
  /\ Cardinality({m \in Nodes : ~Idle(m)}) < Workers
  /\ queue' = queue \ {n}
  /\ Proceed(n, Reconcile(cache[n]))
  /\ UNCHANGED <<server, informers, waking>>

AddFinalizer(n) ==
  /\ pc[n] = "AddFinalizer"
  /\ n \in fresh
  /\ Write(n, [obj[n] EXCEPT !.finalizer = TRUE])
  /\ Continue(n, "Refetch")
  /\ UNCHANGED <<nodes, cache, nodeCache, queue, waking>>

\* The copy is re-read, deletionTimestamp and finalizer are not looked at again.
Refetch(n) ==
  /\ pc[n] = "Refetch"
  /\ Proceed(n, IF cache[n].up THEN Transition(cache[n]) ELSE {"done"})
  /\ UNCHANGED <<server, informers, queue, waking>>

StartBooting(n) ==
  /\ pc[n] = "StartBooting"
  /\ n \in fresh
  /\ Write(n, [obj[n] EXCEPT !.current = "Booting", !.boot = "early"])
  /\ Return(n, TRUE)
  /\ UNCHANGED <<nodes, cache, nodeCache, queue, waking>>

\* A conflict: the copy in hand, or the Node informer, is out of date.
Conflict(n) ==
  CASE pc[n] = "CreateNode" -> ~(n \in nodes <=> n \in nodeCache)
    [] pc[n] = "DeleteNode" -> FALSE
    [] OTHER -> n \notin fresh

\* CreateOrUpdate asks the Node informer which of the two to do, so it fails
\* (see Fail) when the informer is wrong about the Node.
CreateNode(n) ==
  /\ pc[n] = "CreateNode"
  /\ ~Conflict(n)
  /\ nodes' = nodes \cup {n}
  /\ IF obj[n].current = "Online"
       THEN Return(n, TRUE)
       ELSE /\ Continue(n, IF obj[n].desired = "Booting" THEN "Promote" ELSE "SetOnline")
            /\ UNCHANGED fresh
  /\ UNCHANGED <<api, informers, queue, waking>>

Promote(n) ==
  /\ pc[n] = "Promote"
  /\ n \in fresh
  /\ Write(n, [obj[n] EXCEPT !.desired = "Online"])
  /\ Continue(n, "RefetchPromoted")
  /\ UNCHANGED <<nodes, cache, nodeCache, queue, waking>>

RefetchPromoted(n) ==
  /\ pc[n] = "RefetchPromoted"
  /\ Proceed(n, {IF cache[n].up THEN "SetOnline" ELSE "requeue"})
  /\ UNCHANGED <<server, informers, queue, waking>>

SetOnline(n) ==
  /\ pc[n] = "SetOnline"
  /\ n \in fresh
  /\ Write(n, [obj[n] EXCEPT !.current = "Online"])
  /\ Return(n, FALSE)
  /\ UNCHANGED <<nodes, cache, nodeCache, queue, waking>>

\* Mutants: the heartbeat loop stays in the handler instead of asking to be
\* run again; a missing Node is not created again.
EnsureInPlace(n) ==
  /\ pc[n] = "EnsureNodeExists"
  /\ IF n \in nodeCache THEN UNCHANGED <<pc, obj, fresh, timers>>
                        ELSE Continue(n, "CreateNode") /\ UNCHANGED fresh
  /\ UNCHANGED <<server, informers, queue, waking>>
EnsureNothing(n) ==
  /\ pc[n] = "EnsureNodeExists"
  /\ Return(n, TRUE)
  /\ UNCHANGED <<server, informers, queue, waking>>

EnsureNodeExists(n) ==
  /\ pc[n] = "EnsureNodeExists"
  /\ IF n \in nodeCache THEN Return(n, TRUE)
                        ELSE Continue(n, "CreateNode") /\ UNCHANGED fresh
  /\ UNCHANGED <<server, informers, queue, waking>>

\* Mutant: a deletion ends like a shutdown and keeps the finalizer.
DeleteNodeOnly(n) ==
  /\ pc[n] = "DeleteNode"
  /\ nodes' = nodes \ {n}
  /\ Continue(n, "SetOffline")
  /\ UNCHANGED <<api, informers, queue, fresh, waking>>

\* Shared by shutdownNode and handleDeletion.
DeleteNode(n) ==
  /\ pc[n] = "DeleteNode"
  /\ nodes' = nodes \ {n}
  /\ Continue(n, IF obj[n].deleting THEN "RemoveFinalizer" ELSE "SetOffline")
  /\ UNCHANGED <<api, informers, queue, fresh, waking>>

SetOffline(n) ==
  /\ pc[n] \in {"SetOffline", "InitOffline"}
  /\ n \in fresh
  /\ Write(n, [obj[n] EXCEPT !.current = "Offline"])
  /\ Return(n, FALSE)
  /\ UNCHANGED <<nodes, cache, nodeCache, queue, waking>>

\* The API server drops a deleting object with its last finalizer.
RemoveFinalizer(n) ==
  /\ pc[n] = "RemoveFinalizer"
  /\ n \in fresh
  /\ Write(n, Absent)
  /\ Return(n, FALSE)
  /\ UNCHANGED <<nodes, cache, nodeCache, queue, waking>>

\* An API call is refused: a conflict, a timeout, an unreachable server.
Fail(n) ==
  /\ pc[n] \in ApiCalls
  /\ Conflict(n) \/ "refuse" \in Disturbances
  /\ Return(n, TRUE)
  /\ UNCHANGED <<server, informers, queue, waking>>

Work(n) ==
  \/ Dequeue(n) \/ AddFinalizer(n) \/ Refetch(n) \/ StartBooting(n)
  \/ CreateNode(n) \/ Promote(n) \/ RefetchPromoted(n) \/ SetOnline(n)
  \/ EnsureNodeExists(n) \/ DeleteNode(n) \/ SetOffline(n) \/ RemoveFinalizer(n)
  \/ Fail(n)

--------------------------------------------------------------------------------
(****************************************************************************)
(* Informers, delayed re-queues, time and restarts.                         *)
(****************************************************************************)
\* The RcNode watch delivers the latest object and queues its name.
CacheSync(n) ==
  /\ n \in stale
  /\ cache' = [cache EXCEPT ![n] = api[n]]
  /\ stale' = stale \ {n}
  /\ queue' = queue \cup {n}
  /\ UNCHANGED <<server, nodeCache, timers, worker, waking>>

\* Nodes are cached for reads but not watched: nothing is queued.
NodeCacheSync(n) ==
  /\ ~(n \in nodes <=> n \in nodeCache)
  /\ nodeCache' = IF n \in nodes THEN nodeCache \cup {n} ELSE nodeCache \ {n}
  /\ UNCHANGED <<server, cache, stale, queue, timers, worker, waking>>

TimerFires(n) ==
  /\ n \in timers
  /\ timers' = timers \ {n}
  /\ queue' = queue \cup {n}
  /\ UNCHANGED <<server, informers, worker, waking>>

Older(age) == CASE age = "early" -> "jitter" [] age = "jitter" -> "over" [] OTHER -> age
Age(o) == [o EXCEPT !.boot = Older(@)]

\* Time passes: every copy of lastBootTime recedes.
BootTick(n) ==
  /\ \E o \in {api[n], cache[n], obj[n]} : Age(o) # o
  /\ api' = [api EXCEPT ![n] = Age(@)]
  /\ cache' = [cache EXCEPT ![n] = Age(@)]
  /\ obj' = [obj EXCEPT ![n] = Age(@)]
  /\ UNCHANGED <<nodes, stale, nodeCache, queue, timers, pc, fresh, waking>>

\* The process dies and starts again: everything in memory is lost, the
\* caches are filled from the server and every RcNode is queued.
Restart ==
  /\ "restart" \in Disturbances
  /\ cache' = api
  /\ stale' = {}
  /\ nodeCache' = nodes
  /\ queue' = {n \in Nodes : api[n].up}
  /\ timers' = {}
  /\ pc' = [n \in Nodes |-> "idle"]
  /\ obj' = [n \in Nodes |-> Absent]
  /\ fresh' = {}
  /\ waking' = {}
  /\ UNCHANGED server

--------------------------------------------------------------------------------
(****************************************************************************)
(* The planner's wake (assignment_applier.go): a cached read, then a merge  *)
(* patch that carries no resourceVersion.                                   *)
(****************************************************************************)
CheckWake(n) ==
  /\ "wake" \in Disturbances
  /\ n \notin waking
  /\ cache[n].up
  /\ cache[n].desired \notin Powered
  /\ waking' = waking \cup {n}
  /\ UNCHANGED <<server, informers, queue, timers, worker>>

PatchWake(n) ==
  /\ n \in waking
  /\ waking' = waking \ {n}
  /\ IF api[n].up /\ api[n].desired # "Booting"
       THEN Write(n, [api[n] EXCEPT !.desired = "Booting"])
       ELSE UNCHANGED <<api, stale, fresh>>
  /\ UNCHANGED <<nodes, cache, nodeCache, queue, timers, pc, obj>>

(****************************************************************************)
(* Users and the cluster autoscaler.                                        *)
(****************************************************************************)
CreateRcNode(n, d) ==
  /\ ~api[n].up
  /\ Write(n, [Absent EXCEPT !.up = TRUE, !.desired = d])
  /\ UNCHANGED <<nodes, cache, nodeCache, queue, timers, pc, obj, waking>>

SetDesired(n, d) ==
  /\ api[n].up
  /\ api[n].desired # d
  /\ Write(n, [api[n] EXCEPT !.desired = d])
  /\ UNCHANGED <<nodes, cache, nodeCache, queue, timers, pc, obj, waking>>

DeleteRcNode(n) ==
  /\ "delete" \in Disturbances
  /\ api[n].up
  /\ ~api[n].deleting
  /\ Write(n, IF api[n].finalizer THEN [api[n] EXCEPT !.deleting = TRUE] ELSE Absent)
  /\ UNCHANGED <<nodes, cache, nodeCache, queue, timers, pc, obj, waking>>

\* Somebody else deletes the Kubernetes Node.
RemoveNode(n) ==
  /\ "remove" \in Disturbances
  /\ n \in nodes
  /\ nodes' = nodes \ {n}
  /\ UNCHANGED <<api, informers, queue, timers, worker, waking>>

Outside(n) ==
  \/ CheckWake(n) \/ PatchWake(n) \/ DeleteRcNode(n) \/ RemoveNode(n)
  \/ \E d \in UserPhases : CreateRcNode(n, d) \/ SetDesired(n, d)

Machinery(n) == CacheSync(n) \/ NodeCacheSync(n) \/ TimerFires(n) \/ BootTick(n)

Init ==
  /\ api = [n \in Nodes |-> Absent]
  /\ nodes = {}
  /\ cache = api
  /\ stale = {}
  /\ nodeCache = {}
  /\ queue = {}
  /\ timers = {}
  /\ pc = [n \in Nodes |-> "idle"]
  /\ obj = [n \in Nodes |-> Absent]
  /\ fresh = {}
  /\ waking = {}

Next == Restart \/ \E n \in Nodes : Work(n) \/ Machinery(n) \/ Outside(n)

Spec == Init /\ [][Next]_vars

--------------------------------------------------------------------------------
(****************************************************************************)
(* Fairness: the worker, the informers and the clock keep running, and the  *)
(* work queue, which is first in first out, serves every name.              *)
(****************************************************************************)
Fairness ==
  \A n \in Nodes :
    /\ WF_vars(Work(n))
    /\ SF_vars(Dequeue(n))
    /\ WF_vars(CacheSync(n))
    /\ WF_vars(NodeCacheSync(n))
    /\ WF_vars(TimerFires(n))
    /\ WF_vars(BootTick(n))

FairSpec == Spec /\ Fairness

\* With restarts and refusals, which may go on forever: a call made again and
\* again is carried out at some point.
RetryFairness ==
  \A n \in Nodes :
    /\ SF_vars(AddFinalizer(n))
    /\ SF_vars(Refetch(n))
    /\ SF_vars(StartBooting(n))
    /\ SF_vars(CreateNode(n))
    /\ SF_vars(Promote(n))
    /\ SF_vars(RefetchPromoted(n))
    /\ SF_vars(SetOnline(n))
    /\ SF_vars(EnsureNodeExists(n))
    /\ SF_vars(DeleteNode(n))
    /\ SF_vars(SetOffline(n))

RetrySpec == FairSpec /\ RetryFairness

--------------------------------------------------------------------------------
TypeOK ==
  /\ api \in [Nodes -> RcNodes]
  /\ cache \in [Nodes -> RcNodes]
  /\ obj \in [Nodes -> RcNodes]
  /\ pc \in [Nodes -> {"idle"} \cup ApiCalls \cup CacheReads]
  /\ nodes \subseteq Nodes
  /\ nodeCache \subseteq Nodes
  /\ stale \subseteq Nodes
  /\ queue \subseteq Nodes
  /\ timers \subseteq Nodes
  /\ fresh \subseteq Nodes
  /\ waking \subseteq Nodes

\* A Kubernetes Node never outlives the machine behind it: its RcNode exists,
\* is guarded by the finalizer and reports Booting or Online, although every
\* step of boot, shutdown and deletion may act on an outdated copy, may be
\* refused, and may be the last one before a crash (rcnode_controller.go:151-290).
NodeBacked ==
  \A n \in nodes : api[n].up /\ api[n].finalizer /\ api[n].current \in Powered

\* A Node is only ever created for an RcNode whose boot delay has run out, as
\* recorded by the API server at that instant and not by the copy in hand
\* (checkBootComplete, ensureNodeExists).
Ripe(o) == o.boot \in {"jitter", "over"}

BootRespected == [][\A n \in Nodes : n \in nodes' \ nodes => Ripe(api[n])]_vars

(****************************************************************************)
(* Why a Node stays backed.  Only the worker changes currentPhase, and it   *)
(* does so from the latest copy; so a copy that shows a machine powered and *)
(* wanted can lag behind its owner, but not behind its power-off.           *)
(****************************************************************************)
Alive(o) == o.up /\ o.finalizer /\ o.current \in Powered
Wanted(o) == o.up /\ ~o.deleting /\ o.desired # "Offline"

\* Boots in progress: the calls made only for a machine that has booted.
Joining == {"EnsureNodeExists", "CreateNode", "Promote", "RefetchPromoted", "SetOnline"}

\* n \notin stale and n \in fresh mean what their names say.
CopiesCurrent ==
  \A n \in Nodes :
    /\ n \notin stale => cache[n] = api[n]
    /\ n \in fresh => n \notin stale /\ obj[n] = api[n]

\* A machine reported Booting or Online is guarded by the finalizer, and one
\* reported Online has booted, on the server and in the informer.
ReportsHonest ==
  \A n \in Nodes : \A o \in {api[n], cache[n]} :
    /\ o.current \in Powered => Alive(o)
    /\ o.current = "Online" => Ripe(o)

\* An outdated copy that shows a powered, wanted machine is right about both
\* its power and its boot time.
LagHarmless ==
  \A n \in Nodes :
    Wanted(cache[n]) /\ cache[n].current \in Powered
      => Alive(api[n]) /\ (cache[n].boot # "none" => cache[n].boot = api[n].boot)

\* What the reconcile of n knows at each of its calls.
CallsJustified ==
  \A n \in Nodes :
    /\ pc[n] \in ApiCalls \ {"SetOnline"} => obj[n].up
    /\ pc[n] = "AddFinalizer" => ~obj[n].finalizer
    /\ pc[n] = "Refetch" =>
         /\ api[n].up /\ api[n].finalizer
         /\ api[n].current \notin Powered /\ cache[n].current \notin Powered
    /\ pc[n] = "StartBooting" =>
         /\ obj[n].desired \in Powered
         /\ obj[n].current \in {"unset", "Offline"}
              \/ (obj[n].current = "Booting" /\ obj[n].boot = "none")
         /\ n \in fresh => obj[n].finalizer
    /\ pc[n] \in Joining => Alive(api[n]) /\ Ripe(api[n])
    /\ pc[n] \in {"CreateNode", "EnsureNodeExists"} => obj[n].up /\ obj[n].current \in Powered
    /\ pc[n] = "Promote" => obj[n].desired = "Booting" /\ obj[n].current = "Booting"
    /\ pc[n] = "RefetchPromoted" => api[n].current = "Booting"
    /\ pc[n] = "SetOnline" /\ n \in fresh => obj[n].current = "Booting"
    /\ pc[n] = "DeleteNode" =>
         obj[n].deleting \/ (obj[n].desired = "Offline" /\ obj[n].current \in Powered)
    /\ pc[n] = "SetOffline" =>
         n \notin nodes /\ obj[n].desired = "Offline" /\ obj[n].current \in Powered
    /\ pc[n] = "InitOffline" => obj[n].current = "unset" /\ obj[n].desired = "Offline"
    /\ pc[n] = "RemoveFinalizer" => n \notin nodes /\ obj[n].deleting

IInv ==
  /\ TypeOK
  /\ NodeBacked
  /\ CopiesCurrent
  /\ ReportsHonest
  /\ LagHarmless
  /\ CallsJustified

\* An RcNode whose owner finally wants it Offline ends Offline without a Node,
\* whatever the controller was doing when the wish arrived (shutdownNode).
Drains ==
  \A n \in Nodes :
    <>[](api[n].up /\ ~api[n].deleting /\ api[n].desired = "Offline")
      => <>[](api[n].current = "Offline" /\ n \notin nodes)

\* An RcNode whose owner finally wants it Online is Online with its Node again
\* and again, even if somebody keeps deleting the Node (ensureNodeExists).
Serves ==
  \A n \in Nodes :
    <>[](api[n].up /\ ~api[n].deleting /\ api[n].desired = "Online")
      => []<>(api[n].current = "Online" /\ n \in nodes)

\* A deletion is not held up forever by the finalizer, unless the owner keeps
\* rewriting the object so that every update conflicts (handleDeletion).
DeletionCompletes ==
  \A n \in Nodes : \A d \in Phases :
    ~<>[](api[n].up /\ api[n].deleting /\ api[n].desired = d)

\* A machine that is down when it is asked to boot does come Online, unless its
\* owner changes its mind (startBooting, checkBootComplete).
ColdWakeCompletes ==
  \A n \in Nodes :
    (api[n].up /\ api[n].desired = "Booting" /\ api[n].current # "Online")
      ~> (api[n].current = "Online" \/ ~api[n].up \/ api[n].deleting
            \/ api[n].desired \notin Powered)

\* "Promote desiredPhase from Booting -> Online so the state machine reaches
\* the steady-state case" (rcnode_controller.go:198-199), of every wake.
WakeCompletes ==
  \A n \in Nodes :
    (api[n].up /\ api[n].desired = "Booting")
      ~> (~api[n].up \/ api[n].deleting \/ api[n].desired # "Booting")

(****************************************************************************)
(* The detailed controller implements the life cycle it promises.           *)
(****************************************************************************)
Life == INSTANCE NodeLifecycle WITH
  desired <- [n \in Nodes |-> api[n].desired],
  phase   <- [n \in Nodes |-> IF api[n].up THEN api[n].current ELSE "gone"],
  up      <- nodes

\* Every API call, whatever copy it was made from, is a step the life cycle
\* allows: no machine is reported Offline while it has a Node or is wanted,
\* none boots over a live Node, none vanishes before its Node.
ImplementsLifecycle == Life!LifeSpec
================================================================================
