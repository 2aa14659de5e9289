-------------------------------- MODULE Heartbeat --------------------------------
(****************************************************************************)
(* How ensureNodeExists of rcnode_controller.go keeps the simulated Node of *)
(* an Online machine alive, in seconds: a reconcile refreshes a heartbeat   *)
(* that is old enough, or creates the Node again if it is gone, and asks to *)
(* be called again.  Reconciles also come at any other moment, whenever     *)
(* somebody writes the RcNode.                                              *)
(*                                                                          *)
(* External: the node controller of the cluster, which gives up a Node      *)
(* whose heartbeat is too old; the users, who delete Nodes; and the work    *)
(* queue, which keeps the earliest of the delayed calls asked for.          *)
(****************************************************************************)
EXTENDS Integers

CONSTANTS RefreshAge,  \* a heartbeat older than this is refreshed: 20s
          Requeue,     \* RequeueAfter: 30s
          Delay,       \* how long a call that is due may wait for the worker
          Graces,      \* the grace periods of the node controller considered
          MaxMisses    \* bound: calls refused since the last one that succeeded

ASSUME HeartbeatAssumption ==
  /\ RefreshAge \in Nat /\ Requeue \in Nat /\ Delay \in Nat /\ MaxMisses \in Nat
  /\ Graces \subseteq Nat

VARIABLES grace,    \* node-monitor-grace-period
          present,  \* the Node exists
          absence,  \* how long it has not
          age,      \* the time since its LastHeartbeatTime
          ready,    \* its Ready condition
          due,      \* the time until the next delayed call, below zero if late
          misses    \* calls refused since the last heartbeat or the loss of the Node

node == <<present, absence, age, ready, misses>>
vars == <<grace, node, due>>

\* Mutants: a heartbeat is left alone for another round; a missing Node is not an
\* error; the new Node comes without conditions.
OldLate == age > RefreshAge + Requeue
RecreateNothing == ~present /\ UNCHANGED node
RecreateBare ==
  ~present /\ present' = TRUE /\ absence' = 0 /\ age' = 0 /\ ready' = FALSE /\ misses' = 0

Old == age > RefreshAge

Recreate ==
  ~present /\ present' = TRUE /\ absence' = 0 /\ age' = 0 /\ ready' = TRUE /\ misses' = 0

\* Every condition gets the time, none gets another status.
Refresh ==
  /\ present /\ Old
  /\ age' = 0 /\ misses' = 0
  /\ UNCHANGED <<present, absence, ready>>

LeaveAlone ==
  /\ present /\ ~Old
  /\ UNCHANGED node

Refused ==
  /\ misses < MaxMisses
  /\ misses' = misses + 1
  /\ UNCHANGED <<present, absence, age, ready>>

\* A refused refresh is only logged.  A refused read or creation is an error, and
\* the rate limiter calls again sooner than Requeue, for the first dozen of them.
EnsureNodeExists(latest) ==
  /\ \/ (Recreate \/ Refresh \/ LeaveAlone) /\ due' = latest
     \/ Refused /\ due' \in 0..latest
  /\ UNCHANGED grace

TimerReconcile == due <= 0 /\ EnsureNodeExists(Requeue)

EventReconcile == due > 0 /\ EnsureNodeExists(due)

Tick ==
  /\ due > -Delay
  /\ due' = due - 1
  /\ age' = IF present THEN age + 1 ELSE age
  /\ absence' = IF present THEN absence ELSE absence + 1
  /\ UNCHANGED <<grace, present, ready, misses>>

GiveUpNode ==
  /\ present /\ ready
  /\ age > grace
  /\ ready' = FALSE
  /\ UNCHANGED <<grace, present, absence, age, due, misses>>

LoseNode ==
  /\ present
  /\ present' = FALSE /\ absence' = 0 /\ age' = 0 /\ ready' = FALSE /\ misses' = 0
  /\ UNCHANGED <<grace, due>>

\* The status update that reported the machine Online brings the first call.
Init ==
  /\ grace \in Graces
  /\ present = TRUE /\ absence = 0 /\ age = 0 /\ ready = TRUE /\ misses = 0
  /\ due = 0

Next == TimerReconcile \/ EventReconcile \/ Tick \/ GiveUpNode \/ LoseNode

Spec == Init /\ [][Next]_vars

--------------------------------------------------------------------------------
Round == Requeue + Delay

TypeOK ==
  /\ grace \in Nat
  /\ present \in BOOLEAN /\ ready \in BOOLEAN
  /\ absence \in Nat /\ age \in Nat
  /\ due \in -Delay..Requeue
  /\ misses \in 0..MaxMisses

\* Why the ages are bounded: they never exceed what the next delayed call leaves.
InTime ==
  /\ present => age + due <= RefreshAge + Requeue + misses * Round
  /\ ~present => absence + due <= Requeue + misses * Round

\* The node controller has only ever given up a Node that was too old for it.
GivenUp ==
  present /\ ~ready => grace < RefreshAge + (MaxMisses + 1) * Round

IInv == TypeOK /\ InTime /\ GivenUp

\* No heartbeat gets older than the refresh age and one round of the worker, plus
\* one round for every refusal, whenever other events come between; so the age
\* seen can be 50s and not only the 30s of the re-queue (rcnode_controller.go:255,
\* 269).
AgeBounded == present => age <= RefreshAge + (misses + 1) * Round

\* A Node deleted behind the controller's back, which does not watch Nodes, is
\* back within one round, plus one for every refusal (rcnode_controller.go:236).
BackSoon == ~present => absence <= (misses + 1) * Round

\* "so the node-controller doesn't mark the simulated node as Unknown"
\* (rcnode_controller.go:231): with a grace period of at least the worst age.
StaysReady == grace >= RefreshAge + (MaxMisses + 1) * Round => (present => ready)

\* The same for the default grace period, "every 30s, well within 40s grace"
\* (rcnode_controller.go:268), does not hold, refusals and delays or not.
ReadyByDefault == grace = 40 /\ present => ready
================================================================================
