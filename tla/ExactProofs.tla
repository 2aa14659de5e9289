------------------------------- MODULE ExactProofs -------------------------------
(****************************************************************************)
(* The branch and bound, for any finite sets of machines and pods: whatever *)
(* it tried and undid, and whenever its time runs out, what it counts as    *)
(* spent is what its path costs, and its answer is within the policy.       *)
(*                                                                          *)
(* SearchInv is inductive.  A call can undo what it did because each call   *)
(* above it is still as it was (TrialsHonest), and no two calls decide      *)
(* about the same pod (SortedOnce).                                         *)
(****************************************************************************)
EXTENDS SolverProofs

\* What is counted as left of a machine never drops below zero.
SearchTypes ==
  /\ at \in {"off", "given", "call", "try", "return", "done"}
  /\ stack \in Seq(Calls)
  /\ Len(stack) <= Len(Sorted)
  /\ at = "try" => stack # <<>>
  /\ path \in [Pods -> Nodes \cup {None}]
  /\ room \in [Nodes -> [Resources -> Nat]]
  /\ used \subseteq Nodes
  /\ spent \in Nat

PathWithinBudget == used \cap Offline(view) = {} \/ spent <= MaxPowerOns

SearchInv ==
  /\ SearchTypes
  /\ TrialsHonest
  /\ SpendingHonest
  /\ PathWithinBudget
  /\ at # "off" => left = {}
  /\ BestWithinBudget

--------------------------------------------------------------------------------
\* Every pod has one place in the order.
LEMMA SortedOnce ==
  /\ Sorted \in Seq(Pods)
  /\ DOMAIN Sorted = 1..Len(Sorted)
  /\ Len(Sorted) \in Nat
  /\ \A p \in Pods : \E i \in DOMAIN Sorted : Sorted[i] = p
  /\ \A i, j \in DOMAIN Sorted : Sorted[i] = Sorted[j] => i = j
<1>. DEFINE k == Cardinality(Pods)
<1>1. k \in Nat
  BY GreedyAssumption, FS_CardinalityType
<1>2. Sorted \in [1..k -> Pods]
  BY ExactAssumption
<1>3. Sorted \in Seq(Pods) /\ Len(Sorted) = k
  BY <1>1, <1>2
<1>4. Sorted \in Surjection(1..k, Pods)
  BY <1>2, ExactAssumption DEF Surjection
<1>5. IsFiniteSet(1..k) /\ Cardinality(1..k) = k
  BY <1>1, FS_Interval
<1>6. Sorted \in Injection(1..k, Pods)
  BY <1>4, <1>5, FS_Surjection
<1>. QED
  BY <1>1, <1>2, <1>3, <1>6, ExactAssumption DEF Injection, IsInjective

LEMMA ListedNodes ==
  /\ Cardinality(Nodes) \in Nat
  /\ \A i \in 1..Cardinality(Nodes) : Listed[i] \in Nodes /\ Listed[i] # None
  BY ContractAssumption, GreedyAssumption, FS_CardinalityType

\* The calls, by what they hold.
LEMMA CallsMean ==
  /\ \A i \in 1..LeaveOut : CallAt(i) \in Calls
  /\ \A c \in Calls : /\ c.next \in 1..LeaveOut
                      /\ c.fresh \in BOOLEAN
                      /\ c.paid \in {0, 1}
                      /\ c.next # LeaveOut => c.next \in 1..Cardinality(Nodes)
  BY ListedNodes DEF Calls, CallAt, LeaveOut

LEMMA OfflineMeans ==
  ASSUME TypeOK
  PROVE  /\ Offline(view) \subseteq Nodes
         /\ \A n \in Nodes : n \in Offline(view) <=> view[n].offline
  BY DEF TypeOK, Views, Offline

\* A machine is in use on a path just if one of its pods is there.
LEMMA UsedOnPath ==
  ASSUME NEW t \in [Pods -> Nodes \cup {None}]
  PROVE  /\ Used(t) \subseteq Nodes
         /\ \A n \in Nodes : n \in Used(t) <=> \E i \in DOMAIN Sorted : t[Sorted[i]] = n
<1>1. DOMAIN t = Pods /\ \A i \in DOMAIN Sorted : Sorted[i] \in Pods
  BY SortedOnce, ElementOfSeq
<1>. QED
  BY <1>1, SortedOnce, ContractAssumption DEF Used

LEMMA PopProperties ==
  ASSUME NEW S, NEW s \in Seq(S), s # <<>>
  PROVE  LET pop == SubSeq(s, 1, Len(s) - 1)
         IN  /\ pop \in Seq(S)
             /\ Len(pop) = Len(s) - 1
             /\ \A j \in 1..(Len(s) - 1) : pop[j] = s[j]
<1>1. Len(s) \in Nat /\ Len(s) >= 1
  BY EmptySeq
<1>2. PICK m \in Nat : m = Len(s) - 1
  BY <1>1
<1>3. \A j \in 1..m : s[j] \in S
  BY <1>1, <1>2, ElementOfSeq
<1>4. /\ SubSeq(s, 1, m) \in Seq(S)
      /\ Len(SubSeq(s, 1, m)) = m
      /\ \A j \in 1..m : SubSeq(s, 1, m)[j] = s[j]
  BY <1>3, SubSeqProperties
<1>. QED
  BY <1>2, <1>4

\* Above the top, and where nothing is chosen, a pod is nowhere.
LEMMA TopOfStack ==
  ASSUME SearchTypes, TrialsHonest, stack # <<>>
  PROVE  /\ Len(stack) \in DOMAIN Sorted /\ Len(stack) \in 1..Len(stack)
         /\ Top \in Calls
         /\ Pod \in Pods
         /\ \A j \in DOMAIN Sorted : j > Len(stack) => path[Sorted[j]] = None
         /\ at = "try" \/ Top.next = LeaveOut => path[Pod] = None
<1>1. Len(stack) \in Nat \ {0}
  BY EmptySeq DEF SearchTypes
<1>2. Len(stack) \in DOMAIN Sorted /\ Len(stack) \in 1..Len(stack)
  BY <1>1, SortedOnce DEF SearchTypes
<1>3. Top \in Calls /\ Pod \in Pods
  BY <1>2, SortedOnce, ElementOfSeq DEF SearchTypes, Top, Pod
<1>4. \A j \in DOMAIN Sorted : j > Len(stack) => path[Sorted[j]] = None
  BY <1>1, SortedOnce DEF TrialsHonest, TrialHonest, Chosen
<1>5. at = "try" \/ Top.next = LeaveOut => path[Pod] = None
  BY <1>1, <1>2 DEF TrialsHonest, TrialHonest, Chosen, Top, Pod
<1>. QED
  BY <1>2, <1>3, <1>4, <1>5

\* Whether the pods before the k-th use machine n.
UsedBefore(k, n) == \E j \in 1..(k - 1) : path[Sorted[j]] = n

LEMMA TryKeeps ==
  ASSUME TypeOK, SearchInv, NEW i \in 1..Cardinality(Nodes), Try(i), UNCHANGED vars
  PROVE  SearchInv'
<1>. DEFINE k == Len(stack)
            n == Listed[i]
            cost == IF Costs(n) THEN 1 ELSE 0
            e == [next |-> i, fresh |-> n \notin used, paid |-> cost]
<1>. USE DEF vars, inputs
<1>1. /\ stack # <<>> /\ at = "try" /\ at' = "call"
      /\ SearchTypes /\ TrialsHonest
      /\ view' = view /\ inFlight' = inFlight
      /\ UNCHANGED incumbent
  BY DEF Try, SearchInv, SearchTypes
<1>2. /\ k \in DOMAIN Sorted /\ k \in 1..Len(stack) /\ k \in Nat
      /\ Pod \in Pods /\ Pod = Sorted[k]
      /\ path[Pod] = None
      /\ \A j \in DOMAIN Sorted : j > k => path[Sorted[j]] = None
  BY <1>1, TopOfStack, SortedOnce DEF Pod
<1>3. n \in Nodes /\ n # None /\ i # LeaveOut /\ e \in Calls
  BY ListedNodes DEF Calls, LeaveOut
<1>4. /\ stack' \in Seq(Calls)
      /\ Len(stack') = k
      /\ \A j \in 1..k : stack'[j] = IF j = k THEN e ELSE stack[j]
  BY <1>1, <1>2, <1>3, ExceptSeq DEF Try, SearchTypes
<1>5. /\ path' = [path EXCEPT ![Pod] = n]
      /\ path' \in [Pods -> Nodes \cup {None}]
      /\ \A j \in DOMAIN Sorted : path'[Sorted[j]] = IF j = k THEN n ELSE path[Sorted[j]]
  BY <1>1, <1>2, <1>3, SortedOnce, ElementOfSeq DEF Try, SearchTypes
<1>6. n \in used <=> UsedBefore(k, n)
  <2>1. n \in used <=> \E j \in DOMAIN Sorted : path[Sorted[j]] = n
    BY <1>1, <1>3, UsedOnPath DEF SearchInv, SearchTypes, SpendingHonest
  <2>2. \A j \in DOMAIN Sorted : path[Sorted[j]] = n => j < k
    BY <1>2, <1>3, SortedOnce
  <2>3. \A j : j \in DOMAIN Sorted /\ j < k <=> j \in 1..(k - 1)
    BY <1>2, SortedOnce
  <2>. QED
    BY <2>1, <2>2, <2>3 DEF UsedBefore
<1>7. TrialsHonest'
  <2>. SUFFICES ASSUME NEW j \in DOMAIN Sorted PROVE TrialHonest(j)'
    BY DEF TrialsHonest
  <2>1. CASE j = k
    <3>1. stack'[j] = e /\ Chosen(j)' /\ path'[Sorted[j]] = n
      BY <1>1, <1>2, <1>4, <1>5, <2>1 DEF Chosen
    <3>2. e.fresh <=> \A l \in 1..(j - 1) : path'[Sorted[l]] # n
      <4>1. \A l \in 1..(k - 1) : path'[Sorted[l]] = path[Sorted[l]]
        <5>1. \A l \in 1..(k - 1) : l \in DOMAIN Sorted /\ l # k
          BY <1>2, SortedOnce
        <5>. QED
          BY <1>5, <5>1
      <4>2. n \notin used <=> \A l \in 1..(k - 1) : path'[Sorted[l]] # n
        BY <1>6, <4>1 DEF UsedBefore
      <4>. QED
        BY <2>1, <4>2
    <3>3. e.paid = IF e.fresh /\ view'[n].offline THEN 1 ELSE 0
      BY <1>1 DEF Costs
    <3>. QED
      BY <1>3, <3>1, <3>2, <3>3 DEF TrialHonest
  <2>2. CASE j < k
    <3>1. stack'[j] = stack[j] /\ Chosen(j) /\ Chosen(j)'
      BY <1>1, <1>2, <1>4, <2>2, SortedOnce DEF Chosen
    <3>2. \A l \in 1..j : path'[Sorted[l]] = path[Sorted[l]]
      BY <1>2, <1>5, <2>2, SortedOnce
    <3>3. j \in 1..j /\ \A l \in 1..(j - 1) : l \in 1..j
      BY SortedOnce
    <3>. QED
      BY <1>1, <3>1, <3>2, <3>3 DEF TrialsHonest, TrialHonest
  <2>3. CASE j > k
    BY <1>1, <1>2, <1>4, <1>5, <2>3, SortedOnce DEF Chosen, TrialHonest
  <2>. QED
    BY <1>2, <2>1, <2>2, <2>3, SortedOnce
<1>8. used' = Used(path') /\ used' = used \cup {n}
  BY <1>1, <1>2, <1>3, <1>5, ContractAssumption
     DEF Try, SearchInv, SearchTypes, SpendingHonest, Used
<1>9. /\ spent' \in Nat
      /\ spent' = inFlight + Cardinality(used' \cap Offline(view))
      /\ PathWithinBudget'
  <2>1. IsFiniteSet(used \cap Offline(view))
    BY <1>1, FS_Subset, ContractAssumption DEF SearchTypes
  <2>3. /\ spent = inFlight + Cardinality(used \cap Offline(view))
        /\ inFlight \in Nat /\ MaxPowerOns \in Nat /\ spent \in Nat
        /\ Cardinality(used \cap Offline(view)) \in Nat
    BY <2>1, FS_CardinalityType, GreedyAssumption
       DEF SearchInv, SearchTypes, SpendingHonest, TypeOK
  <2>4. CASE n \in Offline(view) /\ n \notin used
    <3>1. used' \cap Offline(view) = (used \cap Offline(view)) \cup {n}
      BY <1>8, <2>4
    <3>2. spent' = spent + 1 /\ spent < MaxPowerOns
      BY <1>3, <2>3, <2>4, OfflineMeans DEF Try, Open, Costs
    <3>3. Cardinality(used' \cap Offline(view)) = Cardinality(used \cap Offline(view)) + 1
      BY <2>1, <2>4, <3>1, FS_AddElement
    <3>. QED
      BY <1>1, <2>3, <3>2, <3>3 DEF PathWithinBudget
  <2>5. CASE n \notin Offline(view) \/ n \in used
    <3>1. used' \cap Offline(view) = used \cap Offline(view) /\ spent' = spent
      BY <1>3, <1>8, <2>3, <2>5, OfflineMeans DEF Try, Costs
    <3>. QED
      BY <1>1, <2>3, <3>1 DEF PathWithinBudget, SearchInv
  <2>. QED
    BY <2>4, <2>5
<1>10. room' \in [Nodes -> [Resources -> Nat]]
  <2>1. \A r \in Resources : Request[Pod][r] \in Nat /\ Request[Pod][r] <= room[n][r]
    BY <1>2, ContractAssumption DEF Try, Open, FitsHere
  <2>. QED
    BY <1>1, <1>3, <2>1 DEF Try, SearchTypes
<1>11. SearchTypes'
  BY <1>1, <1>2, <1>3, <1>4, <1>5, <1>8, <1>9, <1>10 DEF SearchTypes
<1>. QED
  BY <1>1, <1>7, <1>8, <1>9, <1>11 DEF SearchInv, SpendingHonest, BestWithinBudget, incumbent

LEMMA UndoKeeps ==
  ASSUME TypeOK, SearchInv, Undo, UNCHANGED vars
  PROVE  SearchInv'
<1>. DEFINE k == Len(stack)
            n == Listed[Top.next]
            e == CallAt(Top.next + 1)
<1>. USE DEF vars, inputs
<1>1. /\ stack # <<>> /\ at = "return" /\ at' = "try" /\ Top.next # LeaveOut
      /\ SearchTypes /\ TrialsHonest
      /\ view' = view /\ inFlight' = inFlight
      /\ UNCHANGED incumbent
  BY DEF Undo, SearchInv
<1>2. /\ k \in DOMAIN Sorted /\ k \in 1..Len(stack) /\ k \in Nat
      /\ Pod \in Pods /\ Pod = Sorted[k]
      /\ Top \in Calls /\ Top = stack[k]
      /\ \A j \in DOMAIN Sorted : j > k => path[Sorted[j]] = None
  BY <1>1, TopOfStack, SortedOnce DEF Pod, Top
<1>3. n \in Nodes /\ n # None /\ e \in Calls
  <2>1. Top.next \in 1..Cardinality(Nodes)
    BY <1>1, <1>2, CallsMean
  <2>2. Top.next + 1 \in 1..LeaveOut
    BY <2>1, ListedNodes DEF LeaveOut
  <2>. QED
    BY <2>1, <2>2, CallsMean, ListedNodes
<1>4. /\ stack' \in Seq(Calls)
      /\ Len(stack') = k
      /\ \A j \in 1..k : stack'[j] = IF j = k THEN e ELSE stack[j]
  BY <1>1, <1>2, <1>3, ExceptSeq DEF Undo, SearchTypes
<1>5. /\ path' = [path EXCEPT ![Pod] = None]
      /\ path' \in [Pods -> Nodes \cup {None}]
      /\ \A j \in DOMAIN Sorted : path'[Sorted[j]] = IF j = k THEN None ELSE path[Sorted[j]]
  <2>1. path' = [path EXCEPT ![Pod] = None] /\ path \in [Pods -> Nodes \cup {None}]
    BY <1>1 DEF Undo, SearchTypes
  <2>2. \A j \in DOMAIN Sorted : Sorted[j] \in Pods /\ (Sorted[j] = Pod <=> j = k)
    BY <1>2, SortedOnce, ElementOfSeq
  <2>. QED
    BY <1>2, <2>1, <2>2
<1>6. /\ path[Pod] = n
      /\ Top.fresh <=> ~UsedBefore(k, n)
      /\ Top.paid = IF Top.fresh /\ view[n].offline THEN 1 ELSE 0
  BY <1>1, <1>2 DEF TrialsHonest, TrialHonest, Chosen, UsedBefore
<1>7. TrialsHonest'
  <2>. SUFFICES ASSUME NEW j \in DOMAIN Sorted PROVE TrialHonest(j)'
    BY DEF TrialsHonest
  <2>1. CASE j = k
    BY <1>1, <1>2, <1>4, <1>5, <2>1 DEF Chosen, TrialHonest
  <2>2. CASE j < k
    <3>1. stack'[j] = stack[j] /\ Chosen(j) /\ Chosen(j)'
      BY <1>1, <1>2, <1>4, <2>2, SortedOnce DEF Chosen
    <3>2. \A l \in 1..j : path'[Sorted[l]] = path[Sorted[l]]
      BY <1>2, <1>5, <2>2, SortedOnce
    <3>3. j \in 1..j /\ \A l \in 1..(j - 1) : l \in 1..j
      BY SortedOnce
    <3>. QED
      BY <1>1, <3>1, <3>2, <3>3 DEF TrialsHonest, TrialHonest
  <2>3. CASE j > k
    BY <1>1, <1>2, <1>4, <1>5, <2>3, SortedOnce DEF Chosen, TrialHonest
  <2>. QED
    BY <1>2, <2>1, <2>2, <2>3, SortedOnce
<1>8. used' = Used(path') /\ used' = IF Top.fresh THEN used \ {n} ELSE used
  <2>1. used' = IF Top.fresh THEN used \ {n} ELSE used
    BY DEF Undo
  <2>2. used \subseteq Nodes /\ used = Used(path) /\ path \in [Pods -> Nodes \cup {None}]
    BY DEF SearchInv, SearchTypes, SpendingHonest
  <2>3. \A j \in DOMAIN Sorted : j < k => j \in 1..(k - 1)
    BY <1>2, SortedOnce
  <2>4. \A j \in 1..(k - 1) : j \in DOMAIN Sorted /\ j # k
    BY <1>2, SortedOnce
  <2>5. \A m \in Nodes : (\E j \in DOMAIN Sorted : path'[Sorted[j]] = m)
                           <=> IF m = n THEN UsedBefore(k, n)
                                        ELSE \E j \in DOMAIN Sorted : path[Sorted[j]] = m
    <3>. SUFFICES ASSUME NEW m \in Nodes
                  PROVE  (\E j \in DOMAIN Sorted : path'[Sorted[j]] = m)
                           <=> IF m = n THEN UsedBefore(k, n)
                                        ELSE \E j \in DOMAIN Sorted : path[Sorted[j]] = m
      OBVIOUS
    <3>1. m # None
      BY ContractAssumption
    <3>2. CASE m = n
      <4>1. \A j \in DOMAIN Sorted : path'[Sorted[j]] = m => j < k /\ path[Sorted[j]] = n
        BY <1>2, <1>5, <3>1, <3>2, SortedOnce
      <4>2. \A j \in 1..(k - 1) : path[Sorted[j]] = n => path'[Sorted[j]] = m
        BY <1>5, <2>4, <3>2
      <4>. QED
        BY <2>3, <2>4, <3>2, <4>1, <4>2 DEF UsedBefore
    <3>3. CASE m # n
      BY <1>2, <1>5, <1>6, <3>1, <3>3
    <3>. QED
      BY <3>2, <3>3
  <2>6. \A m \in Nodes : m \in used <=> \E j \in DOMAIN Sorted : path[Sorted[j]] = m
    BY <2>2, UsedOnPath
  <2>7. /\ Used(path') \subseteq Nodes
        /\ \A m \in Nodes :
             m \in Used(path') <=> \E j \in DOMAIN Sorted : path'[Sorted[j]] = m
    BY <1>5, UsedOnPath
  <2>8. n \in used
    BY <1>2, <1>3, <1>6, <2>6
  <2>9. \A m \in Nodes : m \in Used(path') <=> IF m = n THEN ~Top.fresh ELSE m \in used
    BY <1>6, <2>5, <2>6, <2>7
  <2>. QED
    BY <2>1, <2>2, <2>7, <2>8, <2>9
<1>9. /\ spent' \in Nat
      /\ spent' = inFlight + Cardinality(used' \cap Offline(view))
      /\ PathWithinBudget'
  <2>1. IsFiniteSet(used \cap Offline(view)) /\ IsFiniteSet(used' \cap Offline(view))
    BY <1>1, <1>8, FS_Subset, ContractAssumption DEF SearchTypes
  <2>2. /\ spent = inFlight + Cardinality(used \cap Offline(view))
        /\ inFlight \in Nat /\ MaxPowerOns \in Nat /\ spent \in Nat
        /\ Cardinality(used \cap Offline(view)) \in Nat
        /\ Cardinality(used' \cap Offline(view)) \in Nat
    BY <2>1, FS_CardinalityType, GreedyAssumption
       DEF SearchInv, SearchTypes, SpendingHonest, TypeOK
  <2>3. n \in used
    BY <1>3, <1>2, <1>6, UsedOnPath DEF SearchInv, SearchTypes, SpendingHonest
  <2>4. spent' = spent - Top.paid
    BY DEF Undo, Refund
  <2>5. CASE Top.fresh /\ n \in Offline(view)
    <3>1. used' \cap Offline(view) = (used \cap Offline(view)) \ {n}
      BY <1>8, <2>5
    <3>2. Cardinality(used' \cap Offline(view)) = Cardinality(used \cap Offline(view)) - 1
      BY <2>1, <2>3, <2>5, <3>1, FS_RemoveElement
    <3>3. spent' = spent - 1
      BY <1>3, <1>6, <2>4, <2>5, OfflineMeans
    <3>4. used \cap Offline(view) = {} \/ spent <= MaxPowerOns
      BY DEF SearchInv, PathWithinBudget
    <3>. QED
      BY <1>1, <2>2, <2>3, <2>5, <3>2, <3>3, <3>4 DEF PathWithinBudget
  <2>6. CASE ~(Top.fresh /\ n \in Offline(view))
    <3>1. used' \cap Offline(view) = used \cap Offline(view)
      BY <1>8, <2>6
    <3>2. spent' = spent
      BY <1>3, <1>6, <2>2, <2>4, <2>6, OfflineMeans
    <3>. QED
      BY <1>1, <2>2, <3>1, <3>2 DEF PathWithinBudget, SearchInv
  <2>. QED
    BY <2>5, <2>6
<1>10. room' \in [Nodes -> [Resources -> Nat]]
  <2>1. \A r \in Resources : Request[Pod][r] \in Nat
    BY <1>2, ContractAssumption
  <2>2. room \in [Nodes -> [Resources -> Nat]]
    BY <1>1 DEF SearchTypes
  <2>3. room' = [room EXCEPT ![n] = [r \in Resources |-> @[r] + Request[Pod][r]]]
    BY DEF Undo
  <2>4. [r \in Resources |-> room[n][r] + Request[Pod][r]] \in [Resources -> Nat]
    BY <1>3, <2>1, <2>2
  <2>. QED
    BY <1>3, <2>2, <2>3, <2>4
<1>11. stack' # <<>>
  BY <1>2, <1>4
<1>12. SearchTypes'
  BY <1>1, <1>4, <1>5, <1>8, <1>9, <1>10, <1>11 DEF SearchTypes
<1>. QED
  BY <1>1, <1>7, <1>8, <1>9, <1>12 DEF SearchInv, SpendingHonest, BestWithinBudget, incumbent

\* The steps that neither take nor undo a placement.
QuietStep ==
  \/ GiveUp \/ StartSearch
  \/ TimeOut \/ Improve \/ Prune \/ Branch
  \/ LeavePodOut \/ Abandon \/ Return \/ EndSearch

LEMMA QuietKeeps ==
  ASSUME TypeOK, SearchInv, QuietStep, UNCHANGED vars, left = {}
  PROVE  SearchInv'
<1>. USE DEF vars, inputs, search, incumbent
<1>0. /\ SearchTypes /\ TrialsHonest /\ SpendingHonest /\ PathWithinBudget
      /\ UNCHANGED <<view, inFlight, left, to>>
  BY DEF SearchInv
<1>1. UNCHANGED search
  BY DEF QuietStep, GiveUp, StartSearch, TimeOut, Improve, Prune, Branch, LeavePodOut,
         Abandon, Return, EndSearch
<1>2. SpendingHonest' /\ PathWithinBudget' /\ (at' # "off" => left' = {})
  BY <1>0, <1>1 DEF SpendingHonest, PathWithinBudget
<1>3. BestWithinBudget'
  <2>1. WithinBudget(path, Offline(view), MaxPowerOns - inFlight)
    <3>1. /\ used = Used(path)
          /\ spent = inFlight + Cardinality(used \cap Offline(view))
      BY <1>0 DEF SpendingHonest
    <3>2. IsFiniteSet(used \cap Offline(view))
      BY <1>0, FS_Subset, ContractAssumption DEF SearchTypes
    <3>3. /\ Cardinality(used \cap Offline(view)) \in Nat
          /\ inFlight \in Nat /\ MaxPowerOns \in Nat
      BY <3>2, FS_CardinalityType, GreedyAssumption DEF TypeOK
    <3>. QED
      BY <1>0, <3>1, <3>3 DEF PathWithinBudget, WithinBudget
  <2>2. CASE GiveUp
    BY <2>2 DEF GiveUp, BestWithinBudget
  <2>3. CASE StartSearch
    BY <1>0, <2>3 DEF StartSearch, Seed, BestWithinBudget
  <2>4. CASE Improve
    BY <1>0, <2>1, <2>4 DEF Improve, BestWithinBudget, SearchInv
  <2>5. CASE TimeOut \/ Prune \/ Branch \/ LeavePodOut \/ Abandon \/ Return \/ EndSearch
    BY <1>0, <2>5 DEF TimeOut, Prune, Branch, LeavePodOut, Abandon, Return, EndSearch,
                      BestWithinBudget, SearchInv
  <2>. QED
    BY <2>2, <2>3, <2>4, <2>5 DEF QuietStep
<1>4. /\ stack' \in Seq(Calls) /\ Len(stack') <= Len(Sorted)
      /\ at' = "try" => stack' # <<>>
      /\ TrialsHonest'
  <2>0. Len(stack) \in Nat /\ Len(Sorted) \in Nat
    BY <1>0, LenProperties, SortedOnce DEF SearchTypes
  <2>1. CASE UNCHANGED stack /\ (at = "try" <=> at' = "try")
    <3>1. \A j \in DOMAIN Sorted : TrialHonest(j) => TrialHonest(j)'
      BY <1>0, <1>1, <2>1 DEF TrialHonest, Chosen
    <3>. QED
      BY <1>0, <2>1, <3>1 DEF SearchTypes, TrialsHonest
  <2>2. CASE Branch
    <3>. DEFINE k == Len(stack)
    <3>1. /\ at = "call" /\ at' = "try"
          /\ stack' = Append(stack, CallAt(1)) /\ Len(stack) # Len(Sorted)
      BY <2>2 DEF Branch, AllDecided
    <3>2. /\ stack' \in Seq(Calls) /\ stack' # <<>>
          /\ Len(stack') = k + 1
          /\ \A j \in 1..k : stack'[j] = stack[j]
      <4>1. CallAt(1) \in Calls
        BY CallsMean, ListedNodes DEF LeaveOut
      <4>. QED
        BY <1>0, <3>1, <4>1, AppendProperties DEF SearchTypes
    <3>3. Len(stack') <= Len(Sorted)
      BY <1>0, <2>0, <3>1, <3>2 DEF SearchTypes
    <3>4. ASSUME NEW j \in DOMAIN Sorted PROVE TrialHonest(j)'
      <4>1. CASE j <= k
        <5>1. stack'[j] = stack[j] /\ Chosen(j) /\ Chosen(j)'
          BY <2>0, <3>1, <3>2, <4>1, SortedOnce DEF Chosen
        <5>. QED
          BY <1>0, <1>1, <5>1 DEF TrialsHonest, TrialHonest
      <4>2. CASE j > k
        BY <1>0, <1>1, <2>0, <3>1, <3>2, <4>2, SortedOnce
           DEF TrialsHonest, TrialHonest, Chosen
      <4>. QED
        BY <2>0, <4>1, <4>2, SortedOnce
    <3>. QED
      BY <3>2, <3>3, <3>4 DEF TrialsHonest
  <2>3. CASE LeavePodOut
    <3>. DEFINE k == Len(stack)
                e == [Top EXCEPT !.next = LeaveOut]
    <3>1. at = "try" /\ at' = "call" /\ stack # <<>>
      BY <1>0, <2>3 DEF LeavePodOut, SearchTypes
    <3>2. /\ k \in DOMAIN Sorted /\ k \in 1..k /\ k \in Nat
          /\ Top \in Calls /\ Top = stack[k]
          /\ Pod = Sorted[k] /\ path[Pod] = None
          /\ \A j \in DOMAIN Sorted : j > k => path[Sorted[j]] = None
      BY <1>0, <2>0, <3>1, TopOfStack DEF Top, Pod
    <3>3. e \in Calls /\ e.next = LeaveOut
      BY <3>2, ListedNodes DEF Calls, LeaveOut
    <3>4. stack' = [stack EXCEPT ![k] = e]
      BY <2>3, <3>2 DEF LeavePodOut
    <3>5. /\ stack' \in Seq(Calls)
          /\ Len(stack') = k
          /\ \A j \in 1..k : stack'[j] = IF j = k THEN e ELSE stack[j]
      BY <1>0, <3>2, <3>3, <3>4, ExceptSeq DEF SearchTypes
    <3>6. ASSUME NEW j \in DOMAIN Sorted PROVE TrialHonest(j)'
      <4>1. CASE j = k
        BY <1>1, <3>2, <3>3, <3>5, <4>1 DEF TrialHonest
      <4>2. CASE j < k
        <5>1. stack'[j] = stack[j] /\ Chosen(j) /\ Chosen(j)'
          BY <3>2, <3>5, <4>2, SortedOnce DEF Chosen
        <5>. QED
          BY <1>0, <1>1, <5>1 DEF TrialsHonest, TrialHonest
      <4>3. CASE j > k
        BY <1>1, <3>2, <3>5, <4>3, SortedOnce DEF Chosen, TrialHonest
      <4>. QED
        BY <3>2, <4>1, <4>2, <4>3, SortedOnce
    <3>. QED
      BY <1>0, <3>1, <3>5, <3>6 DEF SearchTypes, TrialsHonest
  <2>4. CASE Abandon \/ Return
    <3>. DEFINE k == Len(stack)
    <3>1. /\ stack # <<>> /\ stack' = SubSeq(stack, 1, k - 1)
          /\ at' = "return" /\ at \in {"try", "return"}
          /\ at = "try" \/ Top.next = LeaveOut
      BY <1>0, <2>4 DEF Abandon, Return, SearchTypes
    <3>2. /\ k \in DOMAIN Sorted /\ k \in 1..k /\ k \in Nat
          /\ Pod = Sorted[k] /\ path[Pod] = None
          /\ \A j \in DOMAIN Sorted : j > k => path[Sorted[j]] = None
      BY <1>0, <2>0, <3>1, TopOfStack DEF Pod
    <3>3. /\ stack' \in Seq(Calls)
          /\ Len(stack') = k - 1
          /\ \A j \in 1..(k - 1) : stack'[j] = stack[j]
      BY <1>0, <3>1, PopProperties DEF SearchTypes
    <3>4. ASSUME NEW j \in DOMAIN Sorted PROVE TrialHonest(j)'
      <4>1. CASE j < k
        <5>1. stack'[j] = stack[j] /\ Chosen(j) /\ Chosen(j)'
          BY <3>1, <3>2, <3>3, <4>1, SortedOnce DEF Chosen
        <5>. QED
          BY <1>0, <1>1, <5>1 DEF TrialsHonest, TrialHonest
      <4>2. CASE j >= k
        <5>1. path[Sorted[j]] = None /\ ~Chosen(j)'
          BY <3>2, <3>3, <4>2, SortedOnce DEF Chosen
        <5>. QED
          BY <1>1, <5>1 DEF TrialHonest
      <4>. QED
        BY <3>2, <4>1, <4>2, SortedOnce
    <3>. QED
      BY <1>0, <2>0, <3>1, <3>3, <3>4 DEF SearchTypes, TrialsHonest
  <2>5. CASE GiveUp \/ StartSearch \/ TimeOut \/ Improve \/ Prune \/ EndSearch
    BY <2>1, <2>5 DEF GiveUp, StartSearch, TimeOut, Improve, Prune, EndSearch
  <2>. QED
    BY <2>2, <2>3, <2>4, <2>5 DEF QuietStep
<1>5. at' \in {"off", "given", "call", "try", "return", "done"}
  BY <1>0 DEF QuietStep, GiveUp, StartSearch, TimeOut, Improve, Prune, Branch, LeavePodOut,
              Abandon, Return, EndSearch, SearchTypes
<1>6. SearchTypes'
  BY <1>0, <1>1, <1>4, <1>5 DEF SearchTypes
<1>. QED
  BY <1>2, <1>3, <1>4, <1>6 DEF SearchInv

--------------------------------------------------------------------------------
LEMMA SearchStarts == SolverInit => SearchInv
<1>. SUFFICES ASSUME SolverInit PROVE SearchInv
  OBVIOUS
<1>. USE DEF SolverInit, Init, ExactInit
<1>1. Used(path) = {}
  BY DEF Used
<1>2. SearchTypes
  BY EmptySeq, SortedOnce, ContractAssumption, GreedyAssumption DEF SearchTypes
<1>3. Cardinality(Used(path) \cap Offline(view)) = 0
  BY <1>1, FS_EmptySet
<1>4. SpendingHonest /\ PathWithinBudget
  BY <1>1, <1>2, <1>3 DEF SpendingHonest, PathWithinBudget, SearchTypes
<1>5. TrialsHonest
  <2>1. Len(stack) = 0
    BY EmptySeq
  <2>2. \A i \in DOMAIN Sorted : ~Chosen(i) /\ Sorted[i] \in Pods
    BY <2>1, SortedOnce, ElementOfSeq DEF Chosen
  <2>. QED
    BY <2>2 DEF TrialsHonest, TrialHonest
<1>. QED
  BY <1>2, <1>4, <1>5 DEF SearchInv, BestWithinBudget

LEMMA SearchKeeps == SolverInv /\ SearchInv /\ [SolverNext]_solverVars => SearchInv'
<1>. SUFFICES ASSUME SolverInv, SearchInv, [SolverNext]_solverVars PROVE SearchInv'
  OBVIOUS
<1>1. TypeOK
  BY DEF SolverInv, IInv
<1>2. CASE UNCHANGED <<exactVars, view, inFlight, left, to>>
  <2>1. \A j \in DOMAIN Sorted : TrialHonest(j)' <=> TrialHonest(j)
    BY <1>2 DEF exactVars, search, TrialHonest, Chosen
  <2>2. SearchTypes' /\ TrialsHonest'
    BY <1>2, <2>1 DEF exactVars, search, SearchInv, SearchTypes, TrialsHonest
  <2>. QED
    BY <1>2, <2>2 DEF exactVars, search, incumbent, SearchInv, SpendingHonest,
                      PathWithinBudget, BestWithinBudget
<1>3. CASE Next /\ UNCHANGED exactVars
  <2>1. at = "off" /\ UNCHANGED <<view, inFlight>>
    BY <1>3 DEF Next, Consider, inputs, SearchInv
  <2>2. \A j \in DOMAIN Sorted : TrialHonest(j)' <=> TrialHonest(j)
    BY <1>3, <2>1 DEF exactVars, search, TrialHonest, Chosen
  <2>3. SearchTypes' /\ TrialsHonest'
    BY <1>3, <2>2 DEF exactVars, search, SearchInv, SearchTypes, TrialsHonest
  <2>. QED
    BY <1>3, <2>1, <2>3 DEF exactVars, search, incumbent, SearchInv, SpendingHonest,
                            PathWithinBudget, BestWithinBudget
<1>4. CASE left = {} /\ ExactStep /\ UNCHANGED vars
  BY <1>1, <1>4, TryKeeps, UndoKeeps, QuietKeeps DEF ExactStep, QuietStep
<1>5. CASE UNCHANGED <<vars, exactVars>>
  BY <1>2, <1>5 DEF vars, inputs
<1>. QED
  BY <1>3, <1>4, <1>5 DEF SolverNext, solverVars, FallBack

LEMMA SearchAlways == SolverSpec => []SearchInv
  BY SolverAlways, SearchStarts, SearchKeeps, PTL DEF SolverSpec

\* However deep the search is, whatever it tried and undid: what a call is about to
\* undo is what it did, and the machines in use and the power-ons spent are those of
\* the path (exact.go:284-310).
THEOREM SearchHonest == SolverSpec => [](TrialsHonest /\ SpendingHonest)
<1>1. SearchInv => TrialsHonest /\ SpendingHonest
  BY DEF SearchInv
<1>. QED
  BY <1>1, SearchAlways, PTL

\* The answer of the search wakes no more machines than the policy allows, or is
\* that of greedy, also when the time runs out in the middle of the tree
\* (exact.go:259-300).
THEOREM AnswerWithinBudget == SolverSpec => []BestWithinBudget
<1>1. SearchInv => BestWithinBudget
  BY DEF SearchInv
<1>. QED
  BY <1>1, SearchAlways, PTL
================================================================================
