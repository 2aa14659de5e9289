------------------------- MODULE RcNodeControllerProofs -------------------------
(****************************************************************************)
(* Proofs about RcNodeController, for any set of RcNodes, any number of     *)
(* workers and any combination of disturbances: the inductive invariant     *)
(* IInv, and from it NodeBacked, BootRespected and the refinement of        *)
(* NodeLifecycle.                                                           *)
(****************************************************************************)
EXTENDS RcNodeController, TLAPS

\* The outcomes of one look at an RcNode, and what the copy looked like.
LEMMA TransitionOutcomes ==
  ASSUME NEW o \in RcNodes, NEW step \in Transition(o)
  PROVE  /\ step \in Returns \cup {"StartBooting", "CreateNode", "EnsureNodeExists",
                                   "DeleteNode", "InitOffline"}
         /\ step = "StartBooting" =>
              /\ o.desired \in Powered
              /\ \/ o.current \in {"unset", "Offline"}
                 \/ o.current = "Booting" /\ o.boot = "none"
         /\ step = "CreateNode" =>
              o.desired \in Powered /\ o.current = "Booting" /\ Ripe(o)
         /\ step = "EnsureNodeExists" => o.desired = "Online" /\ o.current = "Online"
         /\ step = "DeleteNode" => o.desired = "Offline" /\ o.current \in Powered
         /\ step = "InitOffline" => o.desired = "Offline" /\ o.current = "unset"
BY DEF Transition, CheckBootComplete, RcNodes, BootAges, Ripe, Powered, Phases, Returns

LEMMA ReconcileOutcomes ==
  ASSUME NEW o \in RcNodes, NEW step \in Reconcile(o)
  PROVE  \/ step = "done"
         \/ o.up /\ o.deleting /\ o.finalizer /\ step = "DeleteNode"
         \/ o.up /\ ~o.deleting /\ ~o.finalizer /\ step = "AddFinalizer"
         \/ o.up /\ ~o.deleting /\ o.finalizer /\ step \in Transition(o)
BY DEF Reconcile, RcNodes

LEMMA AgeKeeps ==
  ASSUME NEW o \in RcNodes
  PROVE  /\ Age(o) \in RcNodes
         /\ Age(o).up = o.up /\ Age(o).desired = o.desired
         /\ Age(o).current = o.current /\ Age(o).finalizer = o.finalizer
         /\ Age(o).deleting = o.deleting
         /\ Age(o).boot = Older(o.boot) /\ (Older(o.boot) = "none" <=> o.boot = "none")
         /\ Ripe(o) => Ripe(Age(o))
BY DEF Age, Older, RcNodes, BootAges, Ripe

LEMMA AbsentTypeOK == Absent \in RcNodes
BY DEF Absent, RcNodes, Phases, BootAges

LEMMA RestTypeOK ==
  ASSUME TypeOK, NEW n \in Nodes, NEW again \in BOOLEAN, Return(n, again)
  PROVE  /\ pc' \in [Nodes -> {"idle"} \cup ApiCalls \cup CacheReads]
         /\ obj' \in [Nodes -> RcNodes]
         /\ fresh' \subseteq Nodes /\ timers' \subseteq Nodes
BY DEF TypeOK, Return, Absent, RcNodes, Phases, BootAges

LEMMA LoadTypeOK ==
  ASSUME TypeOK, NEW n \in Nodes, NEW step \in ApiCalls \cup CacheReads, Load(n, step)
  PROVE  /\ pc' \in [Nodes -> {"idle"} \cup ApiCalls \cup CacheReads]
         /\ obj' \in [Nodes -> RcNodes]
         /\ fresh' \subseteq Nodes /\ timers' \subseteq Nodes
BY DEF TypeOK, Load

LEMMA WriteTypeOK ==
  ASSUME TypeOK, NEW n \in Nodes, NEW o \in RcNodes, Write(n, o)
  PROVE  api' \in [Nodes -> RcNodes] /\ stale' \subseteq Nodes /\ fresh' \subseteq Nodes
BY DEF TypeOK, Write

LEMMA TypeStep == TypeOK /\ [Next]_vars => TypeOK'
<1> SUFFICES ASSUME TypeOK, [Next]_vars PROVE TypeOK'
  OBVIOUS
<1>1. CASE Restart
  BY <1>1 DEF Restart, TypeOK, server, Absent, RcNodes, BootAges, Phases
<1>2. ASSUME NEW n \in Nodes, Work(n) PROVE TypeOK'
  <2> USE <1>2
  <2>0. /\ cache[n] \in RcNodes
        /\ obj[n] \in RcNodes
    BY DEF TypeOK
  <2>1. CASE Dequeue(n)
    <3>1. PICK step \in Reconcile(cache[n]) :
            IF step \in Returns THEN Return(n, step = "requeue") ELSE Load(n, step)
      BY <2>1 DEF Dequeue, Proceed
    <3>2. step \in Returns \cup ApiCalls \cup CacheReads
      BY <2>0, ReconcileOutcomes, TransitionOutcomes DEF ApiCalls, CacheReads, Returns
    <3> QED BY <2>1, <3>1, <3>2, RestTypeOK, LoadTypeOK DEF Dequeue, TypeOK, server, informers
  <2>2. CASE AddFinalizer(n)
    <3>1. [obj[n] EXCEPT !.finalizer = TRUE] \in RcNodes
      BY <2>0 DEF RcNodes
    <3> QED BY <2>2, <3>1, WriteTypeOK DEF AddFinalizer, Continue, TypeOK, CacheReads
  <2>3. CASE Refetch(n)
    <3>1. PICK step \in IF cache[n].up THEN Transition(cache[n]) ELSE {"done"} :
            IF step \in Returns THEN Return(n, step = "requeue") ELSE Load(n, step)
      BY <2>3 DEF Refetch, Proceed
    <3>2. step \in Returns \cup ApiCalls \cup CacheReads
      BY <2>0, TransitionOutcomes DEF ApiCalls, CacheReads, Returns
    <3> QED BY <2>3, <3>1, <3>2, RestTypeOK, LoadTypeOK DEF Refetch, TypeOK, server, informers
  <2>4. CASE StartBooting(n)
    <3>1. [obj[n] EXCEPT !.current = "Booting", !.boot = "early"] \in RcNodes
      BY <2>0 DEF RcNodes, BootAges
    <3> QED BY <2>4, <3>1, WriteTypeOK, RestTypeOK DEF StartBooting, TypeOK
  <2>5. CASE CreateNode(n)
    BY <2>5, RestTypeOK DEF CreateNode, Continue, TypeOK, ApiCalls, informers
  <2>6. CASE Promote(n)
    <3>1. [obj[n] EXCEPT !.desired = "Online"] \in RcNodes
      BY <2>0 DEF RcNodes, Phases
    <3> QED BY <2>6, <3>1, WriteTypeOK DEF Promote, Continue, TypeOK, CacheReads
  <2>7. CASE RefetchPromoted(n)
    <3>1. PICK step \in {IF cache[n].up THEN "SetOnline" ELSE "requeue"} :
            IF step \in Returns THEN Return(n, step = "requeue") ELSE Load(n, step)
      BY <2>7 DEF RefetchPromoted, Proceed
    <3>2. step \in Returns \cup ApiCalls
      BY DEF ApiCalls, Returns
    <3> QED BY <2>7, <3>1, <3>2, RestTypeOK, LoadTypeOK
        DEF RefetchPromoted, TypeOK, server, informers
  <2>8. CASE SetOnline(n)
    <3>1. [obj[n] EXCEPT !.current = "Online"] \in RcNodes
      BY <2>0 DEF RcNodes
    <3> QED BY <2>8, <3>1, WriteTypeOK, RestTypeOK DEF SetOnline, TypeOK
  <2>9. CASE EnsureNodeExists(n)
    BY <2>9, RestTypeOK DEF EnsureNodeExists, Continue, TypeOK, ApiCalls, server, informers
  <2>10. CASE DeleteNode(n)
    BY <2>10 DEF DeleteNode, Continue, TypeOK, ApiCalls, informers
  <2>11. CASE SetOffline(n)
    <3>1. [obj[n] EXCEPT !.current = "Offline"] \in RcNodes
      BY <2>0 DEF RcNodes
    <3> QED BY <2>11, <3>1, WriteTypeOK, RestTypeOK DEF SetOffline, TypeOK
  <2>12. CASE RemoveFinalizer(n)
    BY <2>12, AbsentTypeOK, WriteTypeOK, RestTypeOK DEF RemoveFinalizer, TypeOK
  <2>13. CASE Fail(n)
    BY <2>13, RestTypeOK DEF Fail, TypeOK, server, informers
  <2> QED
    BY <2>1, <2>2, <2>3, <2>4, <2>5, <2>6, <2>7, <2>8, <2>9, <2>10, <2>11, <2>12, <2>13
    DEF Work
<1>3. ASSUME NEW n \in Nodes, Machinery(n) PROVE TypeOK'
  <2> USE <1>3
  <2>1. CASE CacheSync(n)
    BY <2>1 DEF CacheSync, TypeOK, server, worker
  <2>2. CASE NodeCacheSync(n)
    BY <2>2 DEF NodeCacheSync, TypeOK, server, worker
  <2>3. CASE TimerFires(n)
    BY <2>3 DEF TimerFires, TypeOK, server, informers, worker
  <2>4. CASE BootTick(n)
    BY <2>4, AgeKeeps DEF BootTick, TypeOK
  <2> QED BY <2>1, <2>2, <2>3, <2>4 DEF Machinery
<1>4. ASSUME NEW n \in Nodes, Outside(n) PROVE TypeOK'
  <2> USE <1>4
  <2>0. api[n] \in RcNodes
    BY DEF TypeOK
  <2>1. CASE CheckWake(n)
    BY <2>1 DEF CheckWake, TypeOK, server, informers, worker
  <2>2. CASE PatchWake(n)
    <3>1. [api[n] EXCEPT !.desired = "Booting"] \in RcNodes
      BY <2>0 DEF RcNodes, Phases
    <3> QED BY <2>2, <3>1, WriteTypeOK DEF PatchWake, TypeOK
  <2>3. CASE DeleteRcNode(n)
    <3>1. [api[n] EXCEPT !.deleting = TRUE] \in RcNodes
      BY <2>0 DEF RcNodes
    <3> QED BY <2>3, <3>1, AbsentTypeOK, WriteTypeOK DEF DeleteRcNode, TypeOK
  <2>4. CASE RemoveNode(n)
    BY <2>4 DEF RemoveNode, TypeOK, informers, worker
  <2>5. ASSUME NEW d \in UserPhases, CreateRcNode(n, d) \/ SetDesired(n, d) PROVE TypeOK'
    <3>1. d \in Phases
      BY <2>5, ControllerAssumption
    <3>2. /\ [Absent EXCEPT !.up = TRUE, !.desired = d] \in RcNodes
          /\ [api[n] EXCEPT !.desired = d] \in RcNodes
      BY <2>0, <3>1, AbsentTypeOK DEF RcNodes
    <3> QED BY <2>5, <3>2, WriteTypeOK DEF CreateRcNode, SetDesired, TypeOK
  <2> QED BY <2>1, <2>2, <2>3, <2>4, <2>5 DEF Outside
<1>5. CASE UNCHANGED vars
  BY <1>5 DEF vars, TypeOK
<1> QED BY <1>1, <1>2, <1>3, <1>4, <1>5 DEF Next

\* Whatever the API server, the informers and the worker do, the state keeps
\* its types (the fields of node_types.go, the worker of rcnode_controller.go).
THEOREM TypeCorrect == Spec => []TypeOK
<1>1. Init => TypeOK
  BY AbsentTypeOK DEF Init, TypeOK
<1> QED BY <1>1, TypeStep, PTL DEF Spec

(****************************************************************************)
(* The inductive invariant.                                                 *)
(****************************************************************************)
Facts == NodeBacked /\ CopiesCurrent /\ ReportsHonest /\ LagHarmless /\ CallsJustified

\* A step of n's reconcile, of a machine or of an owner leaves other names alone.
LEMMA DequeueFacts ==
  ASSUME IInv, NEW n \in Nodes, Dequeue(n)
  PROVE  Facts'
<1>0. cache[n] \in RcNodes
  BY DEF IInv, TypeOK
<1>1. PICK step \in Reconcile(cache[n]) :
        IF step \in Returns THEN Return(n, step = "requeue") ELSE Load(n, step)
  BY DEF Dequeue, Proceed
<1>2. UNCHANGED <<api, nodes, cache, stale>>
  BY DEF Dequeue, server, informers
<1>3. NodeBacked' /\ ReportsHonest' /\ LagHarmless'
  BY <1>2 DEF IInv, NodeBacked, ReportsHonest, LagHarmless
<1>4. CopiesCurrent'
  BY <1>1, <1>2 DEF IInv, TypeOK, CopiesCurrent, Return, Load
<1>5. CallsJustified'
  <2>1. CASE step \in Returns
    BY <1>1, <1>2, <2>1 DEF IInv, TypeOK, CallsJustified, Return, ApiCalls, Joining
  <2>2. CASE step \notin Returns
    <3>1. Load(n, step)
      BY <1>1, <2>2
    <3>2. ASSUME NEW m \in Nodes, m # n
          PROVE  /\ pc'[m] = pc[m] /\ obj'[m] = obj[m]
                 /\ m \in fresh' <=> m \in fresh
      BY <3>1, <3>2 DEF Load, IInv, TypeOK
    <3>3. pc'[n] = step /\ obj'[n] = cache[n] /\ (n \in fresh' => n \notin stale)
      BY <3>1 DEF Load, IInv, TypeOK
    <3> QED
      BY <1>2, <1>1, <1>0, ReconcileOutcomes, TransitionOutcomes, <2>2, <3>2, <3>3
      DEF IInv, CallsJustified, ReportsHonest, LagHarmless, Wanted, Alive, Ripe,
          ApiCalls, Joining, Returns, Powered
  <2> QED BY <2>1, <2>2
<1> QED BY <1>3, <1>4, <1>5 DEF Facts

LEMMA AddFinalizerFacts ==
  ASSUME IInv, NEW n \in Nodes, AddFinalizer(n)
  PROVE  Facts'
<1>1. NodeBacked'
  BY DEF AddFinalizer, Write, IInv, NodeBacked, CopiesCurrent
<1>2. CopiesCurrent'
  BY DEF AddFinalizer, Write, Continue, IInv, CopiesCurrent
<1>3. ReportsHonest'
  BY DEF AddFinalizer, Write, IInv, TypeOK, RcNodes, CopiesCurrent, ReportsHonest,
         CallsJustified, Alive, Powered
<1>4. LagHarmless'
  BY DEF AddFinalizer, Write, IInv, CopiesCurrent, LagHarmless, Alive
<1>5. CallsJustified'
  BY DEF AddFinalizer, Write, Continue, IInv, TypeOK, CopiesCurrent, ReportsHonest,
         CallsJustified, Alive, Joining, ApiCalls
<1> QED BY <1>1, <1>2, <1>3, <1>4, <1>5 DEF Facts

LEMMA StartBootingFacts ==
  ASSUME IInv, NEW n \in Nodes, StartBooting(n)
  PROVE  Facts'
<1> DEFINE o == [obj[n] EXCEPT !.current = "Booting", !.boot = "early"]
<1>1. /\ pc[n] = "StartBooting" /\ n \in fresh /\ n \notin stale
      /\ Write(n, o) /\ Return(n, TRUE)
      /\ UNCHANGED <<nodes, cache>>
  BY DEF StartBooting, IInv, CopiesCurrent
<1>2. /\ obj[n].up /\ obj[n].finalizer
      /\ obj[n].current # "Online"
      /\ obj[n].current \in Powered => obj[n].boot = "none"
      /\ api[n] = obj[n] /\ cache[n] = obj[n]
  BY <1>1 DEF IInv, CallsJustified, CopiesCurrent, ApiCalls, Powered
<1>3. o.up /\ o.finalizer /\ o.current = "Booting" /\ o.boot = "early"
  BY <1>2 DEF IInv, TypeOK, RcNodes
<1>4. /\ api'[n] = o
      /\ \A m \in Nodes : m # n => api'[m] = api[m]
  BY <1>1 DEF Write, IInv, TypeOK
<1> HIDE DEF o
<1>5. NodeBacked'
  BY <1>1, <1>2, <1>3, <1>4 DEF IInv, TypeOK, NodeBacked, Powered
<1>6. CopiesCurrent'
  BY <1>1 DEF IInv, TypeOK, CopiesCurrent, Write, Return
<1>7. ReportsHonest'
  BY <1>1, <1>3, <1>4 DEF IInv, ReportsHonest, Alive, Ripe, Powered
<1>8. LagHarmless'
  BY <1>1, <1>2, <1>3, <1>4 DEF IInv, LagHarmless, Wanted, Alive, Ripe, Powered
<1>9. CallsJustified'
  BY <1>1, <1>4 DEF IInv, TypeOK, CallsJustified, Return, Write, Joining, ApiCalls
<1> QED BY <1>5, <1>6, <1>7, <1>8, <1>9 DEF Facts

LEMMA CreateNodeFacts ==
  ASSUME IInv, NEW n \in Nodes, CreateNode(n)
  PROVE  Facts'
<1>1. NodeBacked'
  BY DEF CreateNode, IInv, NodeBacked, CallsJustified, Alive, Joining
<1>2. CopiesCurrent'
  BY DEF CreateNode, Continue, Return, informers, IInv, TypeOK, CopiesCurrent
<1>3. ReportsHonest'
  BY DEF CreateNode, informers, IInv, ReportsHonest
<1>4. LagHarmless'
  BY DEF CreateNode, informers, IInv, LagHarmless
<1>5. CallsJustified'
  BY DEF CreateNode, Continue, Return, informers, IInv, TypeOK, CallsJustified, Powered,
         Joining, ApiCalls
<1> QED BY <1>1, <1>2, <1>3, <1>4, <1>5 DEF Facts

LEMMA PromoteFacts ==
  ASSUME IInv, NEW n \in Nodes, Promote(n)
  PROVE  Facts'
<1>1. NodeBacked'
  BY DEF Promote, Write, IInv, NodeBacked, CopiesCurrent
<1>2. CopiesCurrent'
  BY DEF Promote, Write, Continue, IInv, CopiesCurrent
<1>3. ReportsHonest'
  BY DEF Promote, Write, IInv, TypeOK, RcNodes, CopiesCurrent, ReportsHonest,
         CallsJustified, Alive, Joining
<1>4. LagHarmless'
  BY DEF Promote, Write, IInv, CopiesCurrent, LagHarmless, Alive
<1>5. CallsJustified'
  BY DEF Promote, Write, Continue, IInv, CopiesCurrent, CallsJustified, Alive, Ripe, Joining
<1> QED BY <1>1, <1>2, <1>3, <1>4, <1>5 DEF Facts

LEMMA SetOnlineFacts ==
  ASSUME IInv, NEW n \in Nodes, SetOnline(n)
  PROVE  Facts'
<1>1. NodeBacked'
  BY DEF SetOnline, Write, IInv, NodeBacked, CopiesCurrent, Powered
<1>2. CopiesCurrent'
  BY DEF SetOnline, Write, Return, IInv, CopiesCurrent
<1>3. ReportsHonest'
  BY DEF SetOnline, Write, IInv, TypeOK, RcNodes, CopiesCurrent, ReportsHonest,
         CallsJustified, Alive, Ripe, Powered, Joining
<1>4. LagHarmless'
  BY DEF SetOnline, Write, IInv, CopiesCurrent, LagHarmless, Alive, Powered
<1>5. CallsJustified'
  BY DEF SetOnline, Write, Return, IInv, TypeOK, CallsJustified, Joining, ApiCalls
<1> QED BY <1>1, <1>2, <1>3, <1>4, <1>5 DEF Facts

LEMMA EnsureNodeExistsFacts ==
  ASSUME IInv, NEW n \in Nodes, EnsureNodeExists(n)
  PROVE  Facts'
<1>1. NodeBacked'
  BY DEF EnsureNodeExists, server, IInv, NodeBacked
<1>2. CopiesCurrent'
  BY DEF EnsureNodeExists, Continue, Return, server, informers, IInv, TypeOK, CopiesCurrent
<1>3. ReportsHonest'
  BY DEF EnsureNodeExists, server, informers, IInv, ReportsHonest
<1>4. LagHarmless'
  BY DEF EnsureNodeExists, server, informers, IInv, LagHarmless
<1>5. CallsJustified'
  BY DEF EnsureNodeExists, Continue, Return, server, informers, IInv, TypeOK,
         CallsJustified, Joining, ApiCalls
<1> QED BY <1>1, <1>2, <1>3, <1>4, <1>5 DEF Facts

LEMMA DeleteNodeFacts ==
  ASSUME IInv, NEW n \in Nodes, DeleteNode(n)
  PROVE  Facts'
<1>1. NodeBacked'
  BY DEF DeleteNode, IInv, NodeBacked
<1>2. CopiesCurrent'
  BY DEF DeleteNode, Continue, informers, IInv, CopiesCurrent
<1>3. ReportsHonest'
  BY DEF DeleteNode, informers, IInv, ReportsHonest
<1>4. LagHarmless'
  BY DEF DeleteNode, informers, IInv, LagHarmless
<1>5. CallsJustified'
  BY DEF DeleteNode, Continue, informers, IInv, CallsJustified, Joining, ApiCalls
<1> QED BY <1>1, <1>2, <1>3, <1>4, <1>5 DEF Facts

LEMMA SetOfflineFacts ==
  ASSUME IInv, NEW n \in Nodes, SetOffline(n)
  PROVE  Facts'
<1>1. NodeBacked'
  BY DEF SetOffline, Write, IInv, NodeBacked, CopiesCurrent, CallsJustified, Powered
<1>2. CopiesCurrent'
  BY DEF SetOffline, Write, Return, IInv, CopiesCurrent
<1>3. ReportsHonest'
  BY DEF SetOffline, Write, IInv, TypeOK, RcNodes, ReportsHonest, Powered
<1>4. LagHarmless'
  BY DEF SetOffline, Write, IInv, CopiesCurrent, LagHarmless, CallsJustified, Wanted
<1>5. CallsJustified'
  BY DEF SetOffline, Write, Return, IInv, TypeOK, CallsJustified, Joining, ApiCalls
<1> QED BY <1>1, <1>2, <1>3, <1>4, <1>5 DEF Facts

LEMMA RemoveFinalizerFacts ==
  ASSUME IInv, NEW n \in Nodes, RemoveFinalizer(n)
  PROVE  Facts'
<1>1. NodeBacked'
  BY DEF RemoveFinalizer, Write, IInv, NodeBacked, CallsJustified
<1>2. CopiesCurrent'
  BY DEF RemoveFinalizer, Write, Return, IInv, CopiesCurrent
<1>3. ReportsHonest'
  BY DEF RemoveFinalizer, Write, Absent, IInv, ReportsHonest, Powered
<1>4. LagHarmless'
  BY DEF RemoveFinalizer, Write, IInv, CopiesCurrent, LagHarmless, CallsJustified, Wanted
<1>5. CallsJustified'
  BY DEF RemoveFinalizer, Write, Return, IInv, TypeOK, CallsJustified, Joining, ApiCalls
<1> QED BY <1>1, <1>2, <1>3, <1>4, <1>5 DEF Facts

LEMMA FailFacts ==
  ASSUME IInv, NEW n \in Nodes, Fail(n)
  PROVE  Facts'
<1>1. NodeBacked'
  BY DEF Fail, server, IInv, NodeBacked
<1>2. CopiesCurrent'
  BY DEF Fail, Return, server, informers, IInv, CopiesCurrent
<1>3. ReportsHonest'
  BY DEF Fail, server, informers, IInv, ReportsHonest
<1>4. LagHarmless'
  BY DEF Fail, server, informers, IInv, LagHarmless
<1>5. CallsJustified'
  BY DEF Fail, Return, server, informers, IInv, TypeOK, CallsJustified, Joining, ApiCalls
<1> QED BY <1>1, <1>2, <1>3, <1>4, <1>5 DEF Facts

LEMMA CacheSyncFacts ==
  ASSUME IInv, NEW n \in Nodes, CacheSync(n)
  PROVE  Facts'
<1>1. NodeBacked'
  BY DEF CacheSync, server, IInv, NodeBacked
<1>2. CopiesCurrent'
  BY DEF CacheSync, server, worker, IInv, TypeOK, CopiesCurrent
<1>3. ReportsHonest'
  BY DEF CacheSync, server, IInv, ReportsHonest
<1>4. LagHarmless'
  BY DEF CacheSync, server, IInv, ReportsHonest, LagHarmless
<1>5. CallsJustified'
  BY DEF CacheSync, server, worker, IInv, CallsJustified
<1> QED BY <1>1, <1>2, <1>3, <1>4, <1>5 DEF Facts

LEMMA NodeCacheSyncFacts ==
  ASSUME IInv, NEW n \in Nodes, NodeCacheSync(n)
  PROVE  Facts'
<1>1. NodeBacked'
  BY DEF NodeCacheSync, server, IInv, NodeBacked
<1>2. CopiesCurrent'
  BY DEF NodeCacheSync, server, worker, IInv, CopiesCurrent
<1>3. ReportsHonest'
  BY DEF NodeCacheSync, server, IInv, ReportsHonest
<1>4. LagHarmless'
  BY DEF NodeCacheSync, server, IInv, LagHarmless
<1>5. CallsJustified'
  BY DEF NodeCacheSync, server, worker, IInv, CallsJustified
<1> QED BY <1>1, <1>2, <1>3, <1>4, <1>5 DEF Facts

LEMMA TimerFiresFacts ==
  ASSUME IInv, NEW n \in Nodes, TimerFires(n)
  PROVE  Facts'
<1>1. NodeBacked'
  BY DEF TimerFires, server, IInv, NodeBacked
<1>2. CopiesCurrent'
  BY DEF TimerFires, server, informers, worker, IInv, CopiesCurrent
<1>3. ReportsHonest'
  BY DEF TimerFires, server, informers, IInv, ReportsHonest
<1>4. LagHarmless'
  BY DEF TimerFires, server, informers, IInv, LagHarmless
<1>5. CallsJustified'
  BY DEF TimerFires, server, informers, worker, IInv, CallsJustified
<1> QED BY <1>1, <1>2, <1>3, <1>4, <1>5 DEF Facts

LEMMA CheckWakeFacts ==
  ASSUME IInv, NEW n \in Nodes, CheckWake(n)
  PROVE  Facts'
<1>1. NodeBacked'
  BY DEF CheckWake, server, IInv, NodeBacked
<1>2. CopiesCurrent'
  BY DEF CheckWake, server, informers, worker, IInv, CopiesCurrent
<1>3. ReportsHonest'
  BY DEF CheckWake, server, informers, IInv, ReportsHonest
<1>4. LagHarmless'
  BY DEF CheckWake, server, informers, IInv, LagHarmless
<1>5. CallsJustified'
  BY DEF CheckWake, server, informers, worker, IInv, CallsJustified
<1> QED BY <1>1, <1>2, <1>3, <1>4, <1>5 DEF Facts

\* Owners do not touch the status, the finalizer or the Node.
LEMMA OwnerWriteFacts ==
  ASSUME IInv, NEW n \in Nodes, NEW o \in RcNodes,
         o.up = api[n].up, o.finalizer = api[n].finalizer,
         o.current = api[n].current, o.boot = api[n].boot,
         Write(n, o), UNCHANGED <<nodes, cache, pc, obj>>
  PROVE  Facts'
<1>1. /\ api'[n] = o
      /\ \A m \in Nodes : m # n => api'[m] = api[m]
  BY DEF Write, IInv, TypeOK
<1>2. NodeBacked'
  BY <1>1 DEF IInv, TypeOK, NodeBacked
<1>3. CopiesCurrent'
  BY <1>1 DEF IInv, CopiesCurrent, Write
<1>4. ReportsHonest'
  BY <1>1 DEF IInv, ReportsHonest, Alive, Ripe
<1>5. LagHarmless'
  BY <1>1 DEF IInv, LagHarmless, Alive, Ripe
<1>6. CallsJustified'
  BY <1>1 DEF IInv, CallsJustified, Write, Alive, Ripe
<1> QED BY <1>2, <1>3, <1>4, <1>5, <1>6 DEF Facts

\* An RcNode that has no Node and no finalizer comes or goes.
LEMMA UnguardedWriteFacts ==
  ASSUME IInv, NEW n \in Nodes, NEW o \in RcNodes,
         ~(api[n].up /\ api[n].finalizer), o.current = "unset",
         Write(n, o), UNCHANGED <<nodes, cache, pc, obj>>
  PROVE  Facts'
<1>1. /\ api'[n] = o
      /\ \A m \in Nodes : m # n => api'[m] = api[m]
  BY DEF Write, IInv, TypeOK
<1>2. NodeBacked'
  BY <1>1 DEF IInv, TypeOK, NodeBacked
<1>3. CopiesCurrent'
  BY <1>1 DEF IInv, CopiesCurrent, Write
<1>4. ReportsHonest'
  BY <1>1 DEF IInv, ReportsHonest, Alive, Ripe, Powered
<1>5. LagHarmless'
  BY <1>1 DEF IInv, LagHarmless, Alive, Ripe
<1>6. CallsJustified'
  BY <1>1 DEF IInv, CallsJustified, Write, Alive, Ripe, Joining
<1> QED BY <1>2, <1>3, <1>4, <1>5, <1>6 DEF Facts

LEMMA PatchWakeFacts ==
  ASSUME IInv, NEW n \in Nodes, PatchWake(n)
  PROVE  Facts'
<1>1. CASE api[n].up /\ api[n].desired # "Booting"
  <2> DEFINE o == [api[n] EXCEPT !.desired = "Booting"]
  <2>1. /\ o \in RcNodes
        /\ o.up = api[n].up /\ o.finalizer = api[n].finalizer
        /\ o.current = api[n].current /\ o.boot = api[n].boot
    <3>1. "Booting" \in Phases
      BY DEF Phases
    <3> QED BY <3>1 DEF IInv, TypeOK, RcNodes
  <2>2. Write(n, o) /\ UNCHANGED <<nodes, cache, pc, obj>>
    BY <1>1 DEF PatchWake
  <2> HIDE DEF o
  <2> QED BY <2>1, <2>2, OwnerWriteFacts
<1>2. CASE ~(api[n].up /\ api[n].desired # "Booting")
  BY <1>2
     DEF PatchWake, IInv, Facts, NodeBacked, CopiesCurrent, ReportsHonest, LagHarmless,
         CallsJustified
<1> QED BY <1>1, <1>2

LEMMA SetDesiredFacts ==
  ASSUME IInv, NEW n \in Nodes, NEW d \in Phases, SetDesired(n, d)
  PROVE  Facts'
<1> DEFINE o == [api[n] EXCEPT !.desired = d]
<1>1. /\ o \in RcNodes
      /\ o.up = api[n].up /\ o.finalizer = api[n].finalizer
      /\ o.current = api[n].current /\ o.boot = api[n].boot
  BY DEF IInv, TypeOK, RcNodes
<1>2. Write(n, o) /\ UNCHANGED <<nodes, cache, pc, obj>>
  BY DEF SetDesired
<1> HIDE DEF o
<1> QED BY <1>1, <1>2, OwnerWriteFacts

LEMMA CreateRcNodeFacts ==
  ASSUME IInv, NEW n \in Nodes, NEW d \in Phases, CreateRcNode(n, d)
  PROVE  Facts'
<1> DEFINE o == [Absent EXCEPT !.up = TRUE, !.desired = d]
<1>1. o \in RcNodes /\ o.current = "unset"
  BY DEF Absent, RcNodes, BootAges
<1>2. ~api[n].up /\ Write(n, o) /\ UNCHANGED <<nodes, cache, pc, obj>>
  BY DEF CreateRcNode
<1> HIDE DEF o
<1> QED BY <1>1, <1>2, UnguardedWriteFacts

LEMMA DeleteRcNodeFacts ==
  ASSUME IInv, NEW n \in Nodes, DeleteRcNode(n)
  PROVE  Facts'
<1>1. UNCHANGED <<nodes, cache, pc, obj>>
  BY DEF DeleteRcNode
<1>2. CASE api[n].finalizer
  <2> DEFINE o == [api[n] EXCEPT !.deleting = TRUE]
  <2>1. /\ o \in RcNodes
        /\ o.up = api[n].up /\ o.finalizer = api[n].finalizer
        /\ o.current = api[n].current /\ o.boot = api[n].boot
    BY DEF IInv, TypeOK, RcNodes
  <2>2. Write(n, o)
    BY <1>2 DEF DeleteRcNode
  <2> HIDE DEF o
  <2> QED BY <1>1, <2>1, <2>2, OwnerWriteFacts
<1>3. CASE ~api[n].finalizer
  <2>1. Absent \in RcNodes /\ Absent.current = "unset"
    BY AbsentTypeOK DEF Absent
  <2>2. Write(n, Absent)
    BY <1>3 DEF DeleteRcNode
  <2> QED BY <1>1, <1>3, <2>1, <2>2, UnguardedWriteFacts
<1> QED BY <1>2, <1>3

LEMMA RemoveNodeFacts ==
  ASSUME IInv, NEW n \in Nodes, RemoveNode(n)
  PROVE  Facts'
<1>1. NodeBacked'
  BY DEF RemoveNode, IInv, NodeBacked
<1>2. CopiesCurrent'
  BY DEF RemoveNode, informers, worker, IInv, CopiesCurrent
<1>3. ReportsHonest'
  BY DEF RemoveNode, informers, IInv, ReportsHonest
<1>4. LagHarmless'
  BY DEF RemoveNode, informers, IInv, LagHarmless
<1>5. CallsJustified'
  BY DEF RemoveNode, informers, worker, IInv, CallsJustified
<1> QED BY <1>1, <1>2, <1>3, <1>4, <1>5 DEF Facts

LEMMA LoadEffect ==
  ASSUME TypeOK, NEW n \in Nodes, NEW step, Load(n, step)
  PROVE  /\ pc'[n] = step /\ obj'[n] = cache[n]
         /\ n \in fresh' => n \notin stale
         /\ \A m \in Nodes : m # n => /\ pc'[m] = pc[m] /\ obj'[m] = obj[m]
                                      /\ m \in fresh' <=> m \in fresh
BY DEF Load, TypeOK

LEMMA RefetchFacts ==
  ASSUME IInv, NEW n \in Nodes, Refetch(n)
  PROVE  Facts'
<1>0. cache[n] \in RcNodes
  BY DEF IInv, TypeOK
<1>1. PICK step \in IF cache[n].up THEN Transition(cache[n]) ELSE {"done"} :
        IF step \in Returns THEN Return(n, step = "requeue") ELSE Load(n, step)
  BY DEF Refetch, Proceed
<1>2. UNCHANGED <<api, nodes, cache, stale>>
  BY DEF Refetch, server, informers
<1>3. NodeBacked' /\ ReportsHonest' /\ LagHarmless'
  BY <1>2 DEF IInv, NodeBacked, ReportsHonest, LagHarmless
<1>4. CopiesCurrent'
  BY <1>1, <1>2 DEF IInv, TypeOK, CopiesCurrent, Return, Load
<1>5. CallsJustified'
  <2>1. CASE step \in Returns
    BY <1>1, <1>2, <2>1 DEF IInv, TypeOK, CallsJustified, Return, ApiCalls, Joining
  <2>2. CASE step \notin Returns
    <3>1. cache[n].up /\ step \in Transition(cache[n]) /\ Load(n, step)
      BY <1>1, <2>2 DEF Returns
    <3>2. step \in {"StartBooting", "InitOffline"}
      BY <1>0, <2>2, <3>1, TransitionOutcomes
      DEF Refetch, IInv, CallsJustified, Powered, Returns
    <3>3. /\ api[n].finalizer /\ cache[n].current \notin Powered
          /\ n \notin stale => cache[n] = api[n]
      BY DEF Refetch, IInv, CallsJustified, CopiesCurrent
    <3> QED
      BY <1>0, <1>2, <3>1, <3>2, <3>3, LoadEffect, TransitionOutcomes
      DEF IInv, CallsJustified, ApiCalls, Joining, Powered
  <2> QED BY <2>1, <2>2
<1> QED BY <1>3, <1>4, <1>5 DEF Facts

LEMMA RefetchPromotedFacts ==
  ASSUME IInv, NEW n \in Nodes, RefetchPromoted(n)
  PROVE  Facts'
<1>1. PICK step \in {IF cache[n].up THEN "SetOnline" ELSE "requeue"} :
        IF step \in Returns THEN Return(n, step = "requeue") ELSE Load(n, step)
  BY DEF RefetchPromoted, Proceed
<1>2. UNCHANGED <<api, nodes, cache, stale>>
  BY DEF RefetchPromoted, server, informers
<1>3. NodeBacked' /\ ReportsHonest' /\ LagHarmless'
  BY <1>2 DEF IInv, NodeBacked, ReportsHonest, LagHarmless
<1>4. CopiesCurrent'
  BY <1>1, <1>2 DEF IInv, TypeOK, CopiesCurrent, Return, Load
<1>5. CallsJustified'
  <2>1. CASE step \in Returns
    BY <1>1, <1>2, <2>1 DEF IInv, TypeOK, CallsJustified, Return, ApiCalls, Joining
  <2>2. CASE step \notin Returns
    <3>1. step = "SetOnline" /\ Load(n, step)
      BY <1>1, <2>2 DEF Returns
    <3>2. /\ Alive(api[n]) /\ Ripe(api[n]) /\ api[n].current = "Booting"
          /\ n \notin stale => cache[n] = api[n]
      BY DEF RefetchPromoted, IInv, CallsJustified, CopiesCurrent, Joining
    <3> QED
      BY <1>2, <3>1, <3>2, LoadEffect
      DEF IInv, CallsJustified, ApiCalls, Joining
  <2> QED BY <2>1, <2>2
<1> QED BY <1>3, <1>4, <1>5 DEF Facts

\* Time ages every copy alike.
LEMMA BootTickFacts ==
  ASSUME IInv, NEW n \in Nodes, BootTick(n)
  PROVE  Facts'
<1>1. /\ api'[n] = Age(api[n]) /\ cache'[n] = Age(cache[n]) /\ obj'[n] = Age(obj[n])
      /\ \A m \in Nodes : m # n =>
           api'[m] = api[m] /\ cache'[m] = cache[m] /\ obj'[m] = obj[m]
      /\ UNCHANGED <<nodes, stale, pc, fresh>>
  BY DEF BootTick, IInv, TypeOK
<1>2. \A o \in {api[n], cache[n], obj[n]} :
         /\ Age(o).up = o.up /\ Age(o).desired = o.desired
         /\ Age(o).current = o.current /\ Age(o).finalizer = o.finalizer
         /\ Age(o).deleting = o.deleting
         /\ Age(o).boot = Older(o.boot) /\ (Older(o.boot) = "none" <=> o.boot = "none")
         /\ Ripe(o) => Ripe(Age(o))
  BY AgeKeeps DEF IInv, TypeOK
<1>3. NodeBacked'
  BY <1>1, <1>2 DEF IInv, TypeOK, NodeBacked
<1>4. CopiesCurrent'
  BY <1>1 DEF IInv, CopiesCurrent
<1>5. ReportsHonest'
  BY <1>1, <1>2 DEF IInv, ReportsHonest, Alive
<1>6. LagHarmless'
  BY <1>1, <1>2 DEF IInv, LagHarmless, Wanted, Alive
<1>7. CallsJustified'
  BY <1>1, <1>2 DEF IInv, CallsJustified, Alive
<1> QED BY <1>3, <1>4, <1>5, <1>6, <1>7 DEF Facts

LEMMA RestartFacts ==
  ASSUME IInv, Restart
  PROVE  Facts'
<1>1. NodeBacked'
  BY DEF Restart, server, IInv, NodeBacked
<1>2. CopiesCurrent' /\ CallsJustified'
  BY DEF Restart, server, CopiesCurrent, CallsJustified, ApiCalls, Joining
<1>3. ReportsHonest' /\ LagHarmless'
  BY DEF Restart, server, IInv, ReportsHonest, LagHarmless
<1> QED BY <1>1, <1>2, <1>3 DEF Facts

LEMMA Inductive == IInv /\ [Next]_vars => IInv'
<1> SUFFICES ASSUME IInv, [Next]_vars PROVE IInv'
  OBVIOUS
<1>1. TypeOK'
  BY TypeStep DEF IInv
<1>2. Facts'
  <2>1. CASE Restart
    BY <2>1, RestartFacts
  <2>2. ASSUME NEW n \in Nodes, Work(n) PROVE Facts'
    BY <2>2, DequeueFacts, AddFinalizerFacts, RefetchFacts, StartBootingFacts,
       CreateNodeFacts, PromoteFacts, RefetchPromotedFacts, SetOnlineFacts,
       EnsureNodeExistsFacts, DeleteNodeFacts, SetOfflineFacts,
       RemoveFinalizerFacts, FailFacts
    DEF Work
  <2>3. ASSUME NEW n \in Nodes, Machinery(n) PROVE Facts'
    BY <2>3, CacheSyncFacts, NodeCacheSyncFacts, TimerFiresFacts, BootTickFacts
    DEF Machinery
  <2>4. ASSUME NEW n \in Nodes, Outside(n) PROVE Facts'
    BY <2>4, CheckWakeFacts, PatchWakeFacts, DeleteRcNodeFacts, RemoveNodeFacts,
       CreateRcNodeFacts, SetDesiredFacts, ControllerAssumption
    DEF Outside
  <2>5. CASE UNCHANGED vars
    BY <2>5 DEF vars, IInv, Facts, NodeBacked, CopiesCurrent, ReportsHonest,
                LagHarmless, CallsJustified
  <2> QED BY <2>1, <2>2, <2>3, <2>4, <2>5 DEF Next
<1> QED BY <1>1, <1>2 DEF IInv, Facts

LEMMA Initially == Init => IInv
BY AbsentTypeOK DEF Init, IInv, TypeOK, NodeBacked, CopiesCurrent, ReportsHonest,
   LagHarmless, CallsJustified, Absent, Wanted, Powered, ApiCalls, Joining

\* The inductive invariant holds of every behaviour of the controller, for any
\* number of RcNodes and any owners.
THEOREM Invariant == Spec => []IInv
BY Initially, Inductive, PTL DEF Spec

\* A Kubernetes Node never outlives its machine: it exists only while an RcNode
\* guarded by the finalizer reports Booting or Online, for any number of RcNodes
\* and any owners (rcnode_controller.go:151-290).
THEOREM NodesBacked == Spec => []NodeBacked
<1>1. IInv => NodeBacked
  BY DEF IInv
<1> QED BY <1>1, Invariant, PTL

\* A Node is only ever created once the boot delay recorded by the API server
\* has run out, for any number of RcNodes (checkBootComplete, ensureNodeExists).
THEOREM BootsRespected == Spec => BootRespected
<1>1. ASSUME IInv, [Next]_vars
      PROVE  \A n \in Nodes : n \in nodes' \ nodes => Ripe(api[n])
  <2> SUFFICES ASSUME NEW n \in Nodes, n \in nodes', n \notin nodes
               PROVE  Ripe(api[n])
    OBVIOUS
  <2>1. CreateNode(n)
    <3>1. UNCHANGED nodes => FALSE
      OBVIOUS
    <3>2. ~Restart /\ ~UNCHANGED vars
      BY <3>1 DEF Restart, server, vars
    <3>3. PICK m \in Nodes : Work(m) \/ Machinery(m) \/ Outside(m)
      BY <1>1, <3>2 DEF Next
    <3>4. ~Machinery(m)
      BY <3>1 DEF Machinery, CacheSync, NodeCacheSync, TimerFires, BootTick, server
    <3>5. ~Outside(m)
      BY DEF Outside, CheckWake, PatchWake, DeleteRcNode, RemoveNode,
             CreateRcNode, SetDesired, server
    <3>6. Work(m)
      BY <3>3, <3>4, <3>5
    <3>7. CreateNode(m)
      BY <3>6 DEF Work, Dequeue, AddFinalizer, Refetch, StartBooting, Promote,
        RefetchPromoted, SetOnline, EnsureNodeExists, DeleteNode, SetOffline,
        RemoveFinalizer, Fail, server
    <3>8. m = n
      BY <3>7 DEF CreateNode
    <3> QED BY <3>7, <3>8
  <2> QED BY <1>1, <2>1 DEF CreateNode, IInv, CallsJustified, Joining
<1>2. IInv /\ [Next]_vars => [\A n \in Nodes : n \in nodes' \ nodes => Ripe(api[n])]_vars
  BY <1>1
<1> QED BY <1>2, Invariant, PTL DEF Spec, BootRespected
(****************************************************************************)
(* Refinement: every step of the controller is a step of NodeLifecycle, or  *)
(* changes nothing that module sees.                                        *)
(****************************************************************************)
Wish == [n \in Nodes |-> api[n].desired]
Report == [n \in Nodes |-> IF api[n].up THEN api[n].current ELSE "gone"]

LEMMA WriteMaps ==
  ASSUME TypeOK, NEW n \in Nodes, NEW o \in RcNodes, Write(n, o)
  PROVE  /\ Wish' = [Wish EXCEPT ![n] = o.desired]
         /\ Report' = [Report EXCEPT ![n] = IF o.up THEN o.current ELSE "gone"]
BY DEF Write, TypeOK, Wish, Report

\* A write that keeps the wish, or the report, is not seen in it.
LEMMA WriteKeeps ==
  ASSUME TypeOK, NEW n \in Nodes, NEW o \in RcNodes, Write(n, o)
  PROVE  /\ o.desired = api[n].desired => UNCHANGED Wish
         /\ o.up = api[n].up /\ o.current = api[n].current => UNCHANGED Report
<1>1. \A m \in Nodes : api'[m] = IF m = n THEN o ELSE api[m]
  BY DEF Write, TypeOK
<1>2. ASSUME o.desired = api[n].desired PROVE UNCHANGED Wish
  <2>1. \A m \in Nodes : api'[m].desired = api[m].desired
    BY <1>1, <1>2
  <2> QED BY <2>1 DEF Wish
<1>3. ASSUME o.up = api[n].up, o.current = api[n].current PROVE UNCHANGED Report
  <2>1. \A m \in Nodes : api'[m].up = api[m].up /\ api'[m].current = api[m].current
    BY <1>1, <1>3
  <2> QED BY <2>1 DEF Report
<1> QED BY <1>2, <1>3

\* A write that boots, promotes or powers off n, as NodeLifecycle sees it.
LEMMA WriteReports ==
  ASSUME TypeOK, NEW n \in Nodes, NEW o \in RcNodes, Write(n, o),
         o.up, o.desired = api[n].desired
  PROVE  Life!Report(n, o.current) /\ UNCHANGED [m \in Nodes |-> api[m].desired]
<1>1. UNCHANGED Wish
  BY WriteKeeps
<1>2. Report' = [Report EXCEPT ![n] = o.current]
  BY WriteMaps
<1>3. Life!Report(n, o.current)
  BY <1>2 DEF Life!Report, Report
<1>4. UNCHANGED [m \in Nodes |-> api[m].desired]
  BY <1>1 DEF Wish
<1> QED BY <1>3, <1>4

LEMMA WriteWishes ==
  ASSUME TypeOK, NEW n \in Nodes, NEW o \in RcNodes, Write(n, o),
         o.up = api[n].up, o.current = api[n].current
  PROVE  /\ [m \in Nodes |-> api[m].desired]'
              = [[m \in Nodes |-> api[m].desired] EXCEPT ![n] = o.desired]
         /\ UNCHANGED [m \in Nodes |-> IF api[m].up THEN api[m].current ELSE "gone"]
<1>1. UNCHANGED Report
  BY WriteKeeps
<1>2. Wish' = [Wish EXCEPT ![n] = o.desired]
  BY WriteMaps
<1>3. [m \in Nodes |-> api[m].desired]'
        = [[m \in Nodes |-> api[m].desired] EXCEPT ![n] = o.desired]
  BY <1>2 DEF Wish
<1>4. UNCHANGED [m \in Nodes |-> IF api[m].up THEN api[m].current ELSE "gone"]
  BY <1>1 DEF Report
<1> QED BY <1>3, <1>4

LEMMA StepRefines ==
  ASSUME IInv, [Next]_vars
  PROVE  [Life!LifeNext]_(Life!lifeVars)
<1> DEFINE Goal == [Life!LifeNext]_(Life!lifeVars)
<1> USE DEF Life!LifeNext, Life!lifeVars
<1>0. ASSUME UNCHANGED <<api, nodes>> PROVE Goal
  BY <1>0
<1>a. ASSUME NEW n \in Nodes, Life!ControllerStep(n) \/ Life!OwnerStep(n) PROVE Goal
  BY <1>a
<1>1. CASE Restart
  BY <1>0, <1>1 DEF Restart, server
<1>2. ASSUME NEW n \in Nodes, Work(n) PROVE Goal
  <2> USE DEF IInv
  <2>1. CASE Dequeue(n) \/ Refetch(n) \/ RefetchPromoted(n) \/ EnsureNodeExists(n) \/ Fail(n)
    BY <1>0, <2>1 DEF Dequeue, Refetch, RefetchPromoted, EnsureNodeExists, Fail, server
  <2>2. CASE StartBooting(n)
    <3> DEFINE o == [obj[n] EXCEPT !.current = "Booting", !.boot = "early"]
    <3>1. /\ o \in RcNodes
          /\ o.up = obj[n].up /\ o.desired = obj[n].desired /\ o.current = "Booting"
      BY DEF TypeOK, RcNodes, BootAges
    <3>2. /\ pc[n] = "StartBooting" /\ obj[n] = api[n] /\ Write(n, o) /\ UNCHANGED nodes
      BY <2>2 DEF StartBooting, CopiesCurrent
    <3>3. api[n].up /\ api[n].desired \in Powered /\ api[n].current # "Online"
      BY <3>2 DEF CallsJustified, ApiCalls
    <3> HIDE DEF o
    <3>4. CASE api[n].current = "Booting"
      BY <3>1, <3>2, <3>3, <3>4, WriteKeeps DEF Wish, Report
    <3>5. CASE api[n].current # "Booting"
      <4>1. n \notin nodes
        BY <3>3, <3>5 DEF NodeBacked, Powered
      <4>2. api[n].current \in {"unset", "Offline"}
        BY <3>3, <3>5 DEF TypeOK, RcNodes
      <4>3. Life!BeginBoot(n)
        BY <3>1, <3>2, <3>3, <4>1, <4>2, WriteReports
        DEF Life!BeginBoot, Powered, Life!Powered
      <4> QED BY <4>3, <1>a DEF Life!ControllerStep
    <3> QED BY <3>4, <3>5
  <2>3. CASE AddFinalizer(n)
    <3> DEFINE o == [obj[n] EXCEPT !.finalizer = TRUE]
    <3>1. /\ o \in RcNodes
          /\ o.up = obj[n].up /\ o.desired = obj[n].desired /\ o.current = obj[n].current
      BY DEF TypeOK, RcNodes
    <3>2. obj[n] = api[n] /\ Write(n, o) /\ UNCHANGED nodes
      BY <2>3 DEF AddFinalizer, CopiesCurrent
    <3> HIDE DEF o
    <3> QED BY <3>1, <3>2, WriteKeeps DEF Wish, Report
  <2>4. CASE CreateNode(n)
    <3>1. api[n].up /\ api[n].current \in Powered /\ UNCHANGED api /\ nodes' = nodes \cup {n}
      BY <2>4 DEF CreateNode, CallsJustified, Joining, Alive
    <3>2. Life!Join(n)
      BY <3>1 DEF Life!Join, Powered, Life!Powered
    <3> QED BY <3>2, <1>a DEF Life!ControllerStep
  <2>5. CASE Promote(n)
    <3> DEFINE o == [obj[n] EXCEPT !.desired = "Online"]
    <3>1. /\ o \in RcNodes
          /\ o.up = obj[n].up /\ o.desired = "Online" /\ o.current = obj[n].current
      BY DEF TypeOK, RcNodes, Phases
    <3>2. pc[n] = "Promote" /\ obj[n] = api[n] /\ Write(n, o) /\ UNCHANGED nodes
      BY <2>5 DEF Promote, CopiesCurrent
    <3>3. api[n].up /\ api[n].desired = "Booting" /\ api[n].current = "Booting"
      BY <3>2 DEF CallsJustified, ApiCalls
    <3> HIDE DEF o
    <3>4. Life!Promote(n)
      BY <3>1, <3>2, <3>3, WriteWishes DEF Life!Promote
    <3> QED BY <3>4, <1>a DEF Life!ControllerStep
  <2>6. CASE SetOnline(n)
    <3> DEFINE o == [obj[n] EXCEPT !.current = "Online"]
    <3>1. /\ o \in RcNodes
          /\ o.up = obj[n].up /\ o.desired = obj[n].desired /\ o.current = "Online"
      BY DEF TypeOK, RcNodes
    <3>2. /\ pc[n] = "SetOnline" /\ n \in fresh /\ obj[n] = api[n]
          /\ Write(n, o) /\ UNCHANGED nodes
      BY <2>6 DEF SetOnline, CopiesCurrent
    <3>3. api[n].up /\ api[n].current = "Booting"
      BY <3>2 DEF CallsJustified, Joining, Alive
    <3> HIDE DEF o
    <3>4. Life!ComeOnline(n)
      BY <3>1, <3>2, <3>3, WriteReports DEF Life!ComeOnline
    <3> QED BY <3>4, <1>a DEF Life!ControllerStep
  <2>7. CASE DeleteNode(n)
    <3>1. Life!Leave(n)
      BY <2>7 DEF DeleteNode, Life!Leave
    <3> QED BY <3>1, <1>a DEF Life!ControllerStep
  <2>8. CASE SetOffline(n)
    <3> DEFINE o == [obj[n] EXCEPT !.current = "Offline"]
    <3>1. /\ o \in RcNodes
          /\ o.up = obj[n].up /\ o.desired = obj[n].desired /\ o.current = "Offline"
      BY DEF TypeOK, RcNodes
    <3>2. obj[n] = api[n] /\ Write(n, o) /\ UNCHANGED nodes
      BY <2>8 DEF SetOffline, CopiesCurrent
    <3> HIDE DEF o
    <3>3. CASE pc[n] = "SetOffline"
      <4>1. /\ api[n].up /\ api[n].desired = "Offline" /\ api[n].current \in Powered
            /\ n \notin nodes
        BY <3>2, <3>3 DEF CallsJustified, ApiCalls
      <4>2. Life!GoOffline(n)
        BY <3>1, <3>2, <4>1, WriteReports DEF Life!GoOffline, Powered, Life!Powered
      <4> QED BY <4>2, <1>a DEF Life!ControllerStep
    <3>4. CASE pc[n] = "InitOffline"
      <4>1. api[n].up /\ api[n].desired = "Offline" /\ api[n].current = "unset"
        BY <3>2, <3>4 DEF CallsJustified, ApiCalls
      <4>2. Life!InitOffline(n)
        BY <3>1, <3>2, <4>1, WriteReports DEF Life!InitOffline
      <4> QED BY <4>2, <1>a DEF Life!ControllerStep
    <3> QED BY <2>8, <3>3, <3>4 DEF SetOffline
  <2>9. CASE RemoveFinalizer(n)
    <3>1. /\ api[n].up /\ n \notin nodes
          /\ Write(n, Absent) /\ UNCHANGED nodes
      BY <2>9 DEF RemoveFinalizer, CopiesCurrent, CallsJustified, ApiCalls
    <3>2. api[n].current # "gone"
      BY DEF TypeOK, RcNodes
    <3>3. Life!Vanish(n)
      BY <3>1, <3>2, AbsentTypeOK, WriteMaps
         DEF Life!Vanish, Life!Report, Wish, Report, Absent
    <3> QED BY <3>3, <1>a DEF Life!ControllerStep
  <2> QED BY <1>2, <2>1, <2>2, <2>3, <2>4, <2>5, <2>6, <2>7, <2>8, <2>9 DEF Work
<1>3. ASSUME NEW n \in Nodes, Machinery(n) PROVE Goal
  <2>1. CASE CacheSync(n) \/ NodeCacheSync(n) \/ TimerFires(n)
    BY <1>0, <2>1 DEF CacheSync, NodeCacheSync, TimerFires, server
  <2>2. CASE BootTick(n)
    <3>1. /\ Age(api[n]).up = api[n].up /\ Age(api[n]).desired = api[n].desired
          /\ Age(api[n]).current = api[n].current
      BY AgeKeeps DEF IInv, TypeOK
    <3>2. UNCHANGED <<Wish, Report, nodes>>
      BY <2>2, <3>1 DEF BootTick, Wish, Report, IInv, TypeOK
    <3> QED BY <3>2 DEF Wish, Report
  <2> QED BY <1>3, <2>1, <2>2 DEF Machinery
<1>4. ASSUME NEW n \in Nodes, Outside(n) PROVE Goal
  <2> USE DEF IInv
  <2>0. api[n] \in RcNodes /\ api[n].current # "gone"
    BY DEF TypeOK, RcNodes
  <2>1. ASSUME NEW d \in Phases, api[n].up, Write(n, [api[n] EXCEPT !.desired = d]),
               UNCHANGED nodes
        PROVE  Goal
    <3> DEFINE o == [api[n] EXCEPT !.desired = d]
    <3>1. /\ o \in RcNodes
          /\ o.up = api[n].up /\ o.desired = d /\ o.current = api[n].current
      BY <2>0 DEF RcNodes
    <3> HIDE DEF o
    <3>2. Life!Want(n, d)
      BY <2>0, <2>1, <3>1, WriteWishes DEF Life!Want, o
    <3> QED BY <3>2, <1>a DEF Life!OwnerStep, Phases, Life!Phases
  <2>2. CASE CheckWake(n)
    BY <1>0, <2>2 DEF CheckWake, server
  <2>3. CASE PatchWake(n)
    <3>1. "Booting" \in Phases
      BY DEF Phases
    <3> QED BY <1>0, <2>1, <2>3, <3>1 DEF PatchWake
  <2>4. ASSUME NEW d \in UserPhases, SetDesired(n, d) PROVE Goal
    BY <2>1, <2>4, ControllerAssumption DEF SetDesired
  <2>5. ASSUME NEW d \in UserPhases, CreateRcNode(n, d) PROVE Goal
    <3> DEFINE o == [Absent EXCEPT !.up = TRUE, !.desired = d]
    <3>1. d \in Phases
      BY <2>5, ControllerAssumption
    <3>2. o \in RcNodes /\ o.up /\ o.desired = d /\ o.current = "unset"
      BY <3>1 DEF Absent, RcNodes, BootAges
    <3>3. ~api[n].up /\ Write(n, o) /\ UNCHANGED nodes
      BY <2>5 DEF CreateRcNode
    <3> HIDE DEF o
    <3>4. Life!Appear(n, d)
      BY <3>2, <3>3, WriteMaps DEF Life!Appear, Life!Report, Wish, Report
    <3> QED BY <3>1, <3>4, <1>a DEF Life!OwnerStep, Phases, Life!Phases
  <2>6. CASE DeleteRcNode(n)
    <3>1. CASE api[n].finalizer
      <4> DEFINE o == [api[n] EXCEPT !.deleting = TRUE]
      <4>1. /\ o \in RcNodes
            /\ o.up = api[n].up /\ o.desired = api[n].desired /\ o.current = api[n].current
        BY <2>0 DEF RcNodes
      <4>2. Write(n, o) /\ UNCHANGED nodes
        BY <2>6, <3>1 DEF DeleteRcNode
      <4> HIDE DEF o
      <4> QED BY <4>1, <4>2, WriteKeeps DEF Wish, Report
    <3>2. CASE ~api[n].finalizer
      <4>1. api[n].up /\ n \notin nodes /\ Write(n, Absent) /\ UNCHANGED nodes
        BY <2>6, <3>2 DEF DeleteRcNode, NodeBacked
      <4>2. Life!Vanish(n)
        BY <2>0, <4>1, AbsentTypeOK, WriteMaps
        DEF Life!Vanish, Life!Report, Wish, Report, Absent
      <4> QED BY <4>2, <1>a DEF Life!ControllerStep
    <3> QED BY <3>1, <3>2
  <2>7. CASE RemoveNode(n)
    <3>1. Life!Leave(n)
      BY <2>7 DEF RemoveNode, Life!Leave
    <3> QED BY <3>1, <1>a DEF Life!ControllerStep
  <2> QED BY <1>4, <2>2, <2>3, <2>4, <2>5, <2>6, <2>7 DEF Outside
<1>5. CASE UNCHANGED vars
  BY <1>0, <1>5 DEF vars
<1> QED BY <1>1, <1>2, <1>3, <1>4, <1>5 DEF Next

\* The controller, with its caches, retries, conflicts and crashes, implements
\* NodeLifecycle: every API call it makes is a step of the life cycle or a stutter.
THEOREM Refinement == Spec => ImplementsLifecycle
<1>1. Init => Life!LifeInit
  BY DEF Init, Absent, Life!LifeInit
<1>2. IInv /\ [Next]_vars => [Life!LifeNext]_(Life!lifeVars)
  BY StepRefines
<1> QED BY <1>1, <1>2, Invariant, PTL DEF Spec, ImplementsLifecycle, Life!LifeSpec
================================================================================
