----------------------------- MODULE HeartbeatProofs -----------------------------
(****************************************************************************)
(* Heartbeat, for every refresh age, re-queue time, delay and number of     *)
(* refusals.  InTime is what makes the bounds inductive: an age and the     *)
(* time left to the next delayed call, taken together, do not grow.         *)
(****************************************************************************)
EXTENDS Heartbeat, TLAPS

\* One refusal more is one round more.
LEMMA OneMore ==
  ASSUME NEW m \in Nat
  PROVE  /\ Round \in Nat
         /\ m * Round \in Nat
         /\ (m + 1) * Round = m * Round + Round
  BY HeartbeatAssumption DEF Round

\* The worst case is that of the last refusal.
LEMMA Worst ==
  ASSUME NEW m \in 0..MaxMisses
  PROVE  m * Round <= MaxMisses * Round
<1>1. MaxMisses - m \in Nat /\ m \in Nat /\ MaxMisses \in Nat /\ Round \in Nat
  BY HeartbeatAssumption DEF Round
<1>2. MaxMisses * Round = m * Round + (MaxMisses - m) * Round
  BY <1>1
<1>3. (MaxMisses - m) * Round \in Nat /\ m * Round \in Nat
  BY <1>1
<1>4. \A a, b, c \in Nat : c = a + b => a <= c
  OBVIOUS
<1>5. MaxMisses * Round \in Nat
  BY <1>1
<1>. QED
  BY <1>2, <1>3, <1>4, <1>5

LEMMA Starts == Init => IInv
  BY HeartbeatAssumption, OneMore DEF Init, IInv, TypeOK, InTime, GivenUp, Round

--------------------------------------------------------------------------------
\* A call that comes no later than asked for, on time or at most Delay late.
LEMMA CallKeeps ==
  ASSUME IInv, NEW latest \in 0..Requeue, EnsureNodeExists(latest),
         latest = due \/ (due <= 0 /\ latest = Requeue)
  PROVE  IInv'
<1>. USE HeartbeatAssumption DEF IInv, EnsureNodeExists, node
<1>1. misses \in Nat /\ due \in Int /\ age \in Nat /\ absence \in Nat /\ due >= -Delay
  BY DEF TypeOK
<1>2. CASE Recreate /\ due' = latest
  BY <1>1, <1>2, OneMore DEF Recreate, TypeOK, InTime, GivenUp
<1>3. CASE Refresh /\ due' = latest
  BY <1>1, <1>3, OneMore DEF Refresh, TypeOK, InTime, GivenUp
<1>4. CASE LeaveAlone /\ due' = latest
  BY <1>1, <1>4, OneMore DEF LeaveAlone, Old, TypeOK, InTime, GivenUp
<1>5. CASE Refused /\ due' \in 0..latest
  <2>1. misses' = misses + 1 /\ misses' \in 0..MaxMisses
    BY <1>1, <1>5 DEF Refused, TypeOK
  <2>2. misses' * Round = misses * Round + Round /\ misses * Round \in Nat /\ Round \in Nat
    BY <1>1, <2>1, OneMore
  <2>3. due' \in 0..latest
    BY <1>5 DEF Refused
  <2>4. InTime'
    <3>1. Round = Requeue + Delay
      BY DEF Round
    <3>2. UNCHANGED <<present, absence, age>>
      BY <1>5 DEF Refused
    <3>. QED
      BY <1>1, <2>2, <2>3, <3>1, <3>2 DEF InTime
  <2>. QED
    BY <1>5, <2>1, <2>3, <2>4 DEF Refused, TypeOK, GivenUp
<1>. QED
  BY <1>2, <1>3, <1>4, <1>5

LEMMA Keeps == IInv /\ [Next]_vars => IInv'
<1>. SUFFICES ASSUME IInv, [Next]_vars PROVE IInv'
  OBVIOUS
<1>. USE HeartbeatAssumption
<1>0. misses \in Nat /\ due \in -Delay..Requeue
  BY DEF IInv, TypeOK
<1>1. CASE TimerReconcile
  BY <1>1, CallKeeps DEF TimerReconcile
<1>2. CASE EventReconcile
  <2>1. PICK left \in 0..Requeue : left = due
    BY <1>0, <1>2 DEF EventReconcile
  <2>2. EnsureNodeExists(left)
    BY <1>2, <2>1 DEF EventReconcile, EnsureNodeExists
  <2>. QED
    BY <2>1, <2>2, CallKeeps
<1>3. CASE Tick
  BY <1>0, <1>3, OneMore DEF Tick, IInv, TypeOK, InTime, GivenUp
<1>4. CASE GiveUpNode
  <2>1. misses * Round <= MaxMisses * Round /\ MaxMisses * Round \in Nat
    BY Worst, OneMore DEF IInv, TypeOK
  <2>2. (MaxMisses + 1) * Round = MaxMisses * Round + Round /\ Round = Requeue + Delay
    BY OneMore DEF Round
  <2>3. age <= RefreshAge + misses * Round + Requeue + Delay
    BY <1>0, <1>4, OneMore DEF GiveUpNode, IInv, TypeOK, InTime
  <2>4. grace < RefreshAge + (MaxMisses + 1) * Round
    BY <1>0, <1>4, <2>1, <2>2, <2>3, OneMore DEF GiveUpNode, IInv, TypeOK
  <2>. QED
    BY <1>4, <2>4 DEF GiveUpNode, IInv, TypeOK, InTime, GivenUp
<1>5. CASE LoseNode
  <2>1. present' = FALSE /\ ready' = FALSE /\ absence' = 0 /\ age' = 0 /\ misses' = 0
        /\ due' = due /\ grace' = grace
    BY <1>5 DEF LoseNode
  <2>2. 0 * Round = 0
    BY OneMore
  <2>3. InTime'
    BY <1>0, <2>1, <2>2 DEF InTime
  <2>4. GivenUp'
    BY <2>1 DEF GivenUp
  <2>5. TypeOK'
    <3>1. present' \in BOOLEAN /\ ready' \in BOOLEAN
      BY <2>1
    <3>2. grace' \in Nat /\ absence' \in Nat /\ age' \in Nat /\ due' \in -Delay..Requeue
      BY <1>0, <2>1 DEF IInv, TypeOK
    <3>3. misses' \in 0..MaxMisses
      BY <2>1
    <3>. QED
      BY <3>1, <3>2, <3>3 DEF TypeOK
  <2>. QED
    BY <2>3, <2>4, <2>5 DEF IInv
<1>6. CASE UNCHANGED vars
  BY <1>6 DEF vars, node, IInv, TypeOK, InTime, GivenUp
<1>. QED
  BY <1>1, <1>2, <1>3, <1>4, <1>5, <1>6 DEF Next

\* However the worker's delays and the refusals fall, a heartbeat's age and the time
\* to the next look at it stay within what is left of the refresh age, and a
\* Node is given up only past its grace (rcnode_controller.go:231-269).
THEOREM InTimeAlways == Spec => []IInv
  BY Starts, Keeps, PTL DEF Spec

--------------------------------------------------------------------------------
\* The age of a heartbeat is at most the refresh age and one round, plus one round
\* for every refused refresh (rcnode_controller.go:255, 269).
THEOREM AgesBounded == Spec => []AgeBounded
<1>1. IInv => AgeBounded
  BY OneMore, HeartbeatAssumption DEF IInv, TypeOK, InTime, AgeBounded, Round
<1>. QED
  BY <1>1, InTimeAlways, PTL

\* A Node that others delete is created again within one round, plus one for every
\* refusal (rcnode_controller.go:236-242).
THEOREM NodesReturn == Spec => []BackSoon
<1>1. IInv => BackSoon
  BY OneMore, HeartbeatAssumption DEF IInv, TypeOK, InTime, BackSoon, Round
<1>. QED
  BY <1>1, InTimeAlways, PTL

\* A grace period of the refresh age and one round for each call that may fail, and
\* one more, is enough for the Node to stay Ready (rcnode_controller.go:231-232).
THEOREM GraceSuffices == Spec => []StaysReady
<1>1. IInv => StaysReady
  <2>1. (MaxMisses + 1) * Round \in Nat
    BY OneMore, HeartbeatAssumption DEF Round
  <2>. QED
    BY <2>1, HeartbeatAssumption DEF IInv, TypeOK, GivenUp, StaysReady
<1>. QED
  BY <1>1, InTimeAlways, PTL
================================================================================
