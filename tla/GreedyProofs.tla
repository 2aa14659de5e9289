------------------------------ MODULE GreedyProofs ------------------------------
(****************************************************************************)
(* Greedy: for any finite sets of machines and pods, any requests and       *)
(* capacities, any machine order and any budget, the plan in the making     *)
(* never overdraws a machine, keeps the power budget, asks for each wake    *)
(* exactly once and leaves a pod out only for want of room or budget.  All  *)
(* follow from IInv: Charged says that the running count and the running    *)
(* flags tell the truth about the plan, Accounted that what is counted as   *)
(* left of a machine is its capacity less the requests of its pods, and     *)
(* SkippedForCause that a pod once skipped would be skipped again.          *)
(****************************************************************************)
EXTENDS Greedy, SumTheorems, TLAPS

\* Placements of this problem.
Layouts == [Pods -> Nodes \cup {None}]

--------------------------------------------------------------------------------
\* What pods ask for, in numbers.
LEMMA RequestNat ==
  ASSUME NEW p \in Pods, NEW r \in Resources
  PROVE  Request[p][r] \in Nat
  BY ContractAssumption

LEMMA DemandSummable ==
  ASSUME NEW ps, ps \subseteq Pods, NEW r \in Resources
  PROVE  Summable([p \in Pods |-> Request[p][r]], ps)
<1>1. IsFiniteSet(ps) /\ \A p \in ps : [q \in Pods |-> Request[q][r]][p] \in Int
  BY RequestNat, GreedyAssumption, FS_Subset
<1>. QED
  BY <1>1 DEF Summable

LEMMA DemandNat ==
  ASSUME NEW ps, ps \subseteq Pods, NEW r \in Resources
  PROVE  Demand(ps, r) \in Nat
<1>. DEFINE f == [p \in Pods |-> Request[p][r]]
<1>1. IsFiniteSet(ps) /\ \A p \in ps : f[p] \in Nat
  BY RequestNat, GreedyAssumption, FS_Subset
<1>. HIDE DEF f
<1>2. SumFunctionOnSet(f, ps) \in Nat
  BY <1>1, SumNat
<1>. QED
  BY <1>2 DEF Demand, f

LEMMA DemandEmpty == ASSUME NEW r PROVE Demand({}, r) = 0
  BY SumEmpty DEF Demand

LEMMA DemandUnion ==
  ASSUME NEW ps, ps \subseteq Pods, NEW qs, qs \subseteq Pods, ps \cap qs = {},
         NEW r \in Resources
  PROVE  Demand(ps \cup qs, r) = Demand(ps, r) + Demand(qs, r)
  BY DemandSummable, SumUnion DEF Demand

LEMMA DemandOne ==
  ASSUME NEW p \in Pods, NEW r \in Resources
  PROVE  Demand({p}, r) = Request[p][r]
<1>. DEFINE f == [q \in Pods |-> Request[q][r]]
<1>1. Summable(f, {p}) /\ {p} \ {p} = {} /\ f[p] = Request[p][r]
  BY DemandSummable
<1>. HIDE DEF f
<1>2. SumFunctionOnSet(f, {p}) = f[p] + SumFunctionOnSet(f, {})
  BY <1>1, SumRemove
<1>3. SumFunctionOnSet(f, {}) = 0
  BY SumEmpty
<1>4. SumFunctionOnSet(f, {p}) = Request[p][r]
  BY <1>1, <1>2, <1>3, RequestNat
<1>. QED
  BY <1>4 DEF Demand, f

LEMMA DemandSubset ==
  ASSUME NEW qs, qs \subseteq Pods, NEW ps, ps \subseteq qs, NEW r \in Resources
  PROVE  Demand(ps, r) <= Demand(qs, r)
<1>1. qs \ ps \subseteq Pods /\ ps \subseteq Pods
  OBVIOUS
<1>2. ps \cap (qs \ ps) = {} /\ ps \cup (qs \ ps) = qs
  OBVIOUS
<1>3. Demand(qs, r) = Demand(ps, r) + Demand(qs \ ps, r)
  BY <1>1, <1>2, DemandUnion
<1>. QED
  BY <1>1, <1>3, DemandNat

\* What a layout leaves of a machine.
LEMMA OnMeans ==
  ASSUME NEW t \in Layouts
  PROVE  /\ \A n : On(t, n) = {p \in Pods : t[p] = n} /\ On(t, n) \subseteq Pods
         /\ Used(t) \subseteq Nodes
         /\ \A n \in Nodes : n \in Used(t) <=> \E p \in Pods : t[p] = n
  BY ContractAssumption DEF Layouts, On, Used

LEMMA RemainingInt ==
  ASSUME NEW t \in Layouts, NEW n \in Nodes, NEW r \in Resources
  PROVE  /\ Remaining(t, n, r) \in Int
         /\ Remaining(t, n, r) = Capacity[n][r] - Demand(On(t, n), r)
         /\ Capacity[n][r] \in Nat /\ Demand(On(t, n), r) \in Nat
<1>1. Demand(On(t, n), r) \in Nat /\ Capacity[n][r] \in Nat
  BY OnMeans, DemandNat, ContractAssumption
<1>. QED
  BY <1>1 DEF Remaining

\* One pod more on a machine takes what it asks for.
LEMMA RemainingPlace ==
  ASSUME NEW t \in Layouts, NEW u \in Layouts, NEW p \in Pods, t[p] = None, NEW n \in Nodes,
         \A q \in Pods : u[q] = IF q = p THEN n ELSE t[q]
  PROVE  /\ On(u, n) = On(t, n) \cup {p} /\ p \notin On(t, n)
         /\ \A m \in Nodes \ {n} : On(u, m) = On(t, m)
         /\ Used(u) = Used(t) \cup {n}
         /\ \A m \in Nodes, r \in Resources :
              Remaining(u, m, r) =
                IF m = n THEN Remaining(t, m, r) - Request[p][r] ELSE Remaining(t, m, r)
<1>1. /\ \A m : On(t, m) = {q \in Pods : t[q] = m} /\ On(u, m) = {q \in Pods : u[q] = m}
      /\ Used(t) \subseteq Nodes /\ Used(u) \subseteq Nodes
      /\ \A m \in Nodes : m \in Used(t) <=> \E q \in Pods : t[q] = m
      /\ \A m \in Nodes : m \in Used(u) <=> \E q \in Pods : u[q] = m
  BY OnMeans
<1>2. /\ On(u, n) = On(t, n) \cup {p} /\ p \notin On(t, n)
      /\ \A m \in Nodes \ {n} : On(u, m) = On(t, m)
  <2>1. p \notin On(t, n)
    BY <1>1, ContractAssumption
  <2>2. ASSUME NEW m \in Nodes PROVE On(u, m) = IF m = n THEN On(t, m) \cup {p} ELSE On(t, m)
    <3>1. m # None
      BY ContractAssumption
    <3>2. On(t, m) = {q \in Pods : t[q] = m} /\ On(u, m) = {q \in Pods : u[q] = m}
      BY <1>1
    <3>. QED
      BY <3>1, <3>2
  <2>. QED
    BY <2>1, <2>2
<1>3. Used(u) = Used(t) \cup {n}
  <2>1. ASSUME NEW m \in Nodes PROVE m \in Used(u) <=> m \in Used(t) \/ m = n
    <3>1. (\E q \in Pods : u[q] = m) <=> (\E q \in Pods : t[q] = m) \/ m = n
      BY ContractAssumption
    <3>. QED
      BY <1>1, <3>1
  <2>. QED
    BY <1>1, <2>1
<1>4. ASSUME NEW m \in Nodes, NEW r \in Resources
      PROVE  Remaining(u, m, r) =
               IF m = n THEN Remaining(t, m, r) - Request[p][r] ELSE Remaining(t, m, r)
  <2>1. CASE m = n
    <3>1. Demand(On(u, n), r) = Demand(On(t, n), r) + Request[p][r]
      <4>1. On(t, n) \subseteq Pods /\ {p} \subseteq Pods /\ On(t, n) \cap {p} = {}
        BY <1>1, <1>2
      <4>2. Demand(On(t, n) \cup {p}, r) = Demand(On(t, n), r) + Demand({p}, r)
        BY <4>1, DemandUnion
      <4>. QED
        BY <1>2, <4>2, DemandOne
    <3>. QED
      BY <2>1, <3>1, RemainingInt, RequestNat
  <2>2. CASE m # n
    BY <1>2, <2>2 DEF Remaining
  <2>. QED
    BY <2>1, <2>2
<1>. QED
  BY <1>2, <1>3, <1>4

--------------------------------------------------------------------------------
\* The machines the plan wakes.
Woken == Used(to) \cap Cold(view)

\* Cold machines are machines, and so are those used.
LEMMA Names ==
  ASSUME TypeOK
  PROVE  /\ Cold(view) = {n \in Nodes : view[n].offline /\ ~view[n].ready}
         /\ Used(to) = {to[p] : p \in Pods} \ {None}
         /\ Used(to) \subseteq Nodes
         /\ \A n \in Nodes : n \in Used(to) <=> \E p \in Pods : to[p] = n
         /\ \A n : On(to, n) = {p \in Pods : to[p] = n}
         /\ IsFiniteSet(Woken)
<1>1. DOMAIN view = Nodes /\ DOMAIN to = Pods
  BY DEF TypeOK
<1>2. Cold(view) = {n \in Nodes : view[n].offline /\ ~view[n].ready}
  BY <1>1 DEF Cold, Offline
<1>3. Used(to) = {to[p] : p \in Pods} \ {None}
  BY <1>1 DEF Used
<1>4. Used(to) \subseteq Nodes
  BY <1>3 DEF TypeOK
<1>6. \A n \in Nodes : n \in Used(to) <=> \E p \in Pods : to[p] = n
  BY <1>3, ContractAssumption
<1>5. IsFiniteSet(Woken)
  <2>1. Woken \subseteq Nodes
    BY <1>4 DEF Woken
  <2>. QED
    BY <2>1, FS_Subset, ContractAssumption
<1>. QED
  BY <1>1, <1>2, <1>3, <1>4, <1>5, <1>6 DEF On

\* A machine needs a wake iff it is cold and the plan does not use it yet.
LEMMA NeedsWakeMeans ==
  ASSUME TypeOK, Charged, NEW n \in Nodes
  PROVE  NeedsWake(n) <=> n \in Cold(view) \ Used(to)
<1>1. n \in Cold(view) <=> view[n].offline /\ ~view[n].ready
  BY Names
<1>2. flags[n] = IF n \in Used(to) \cap Cold(view) THEN [ready |-> TRUE, offline |-> FALSE]
                                                   ELSE view[n]
  BY DEF Charged
<1>3. CASE n \in Used(to) \cap Cold(view)
  BY <1>2, <1>3 DEF NeedsWake
<1>4. CASE n \notin Used(to) \cap Cold(view)
  BY <1>1, <1>2, <1>4 DEF NeedsWake
<1>. QED
  BY <1>3, <1>4

LEMMA Initially == Init => IInv
<1>. SUFFICES ASSUME Init PROVE IInv
  OBVIOUS
<1>1. TypeOK
  BY ContractAssumption, GreedyAssumption DEF Init, TypeOK
<1>2. NeverOverdrawn
  BY ContractAssumption DEF Init, NeverOverdrawn
<1>3. Used(to) = {}
  BY <1>1, Names DEF Init
<1>4. BudgetKept
  BY <1>3 DEF BudgetKept, WithinBudget
<1>5. WakesOnce
  BY <1>3 DEF WakesOnce, OneFlagEach, Init
<1>6. Charged
  <2>1. Cardinality(Used(to) \cap Cold(view)) = 0
    BY <1>3, FS_EmptySet
  <2>2. powerOns = inFlight + Cardinality(Used(to) \cap Cold(view))
    BY <1>1, <2>1 DEF Init, TypeOK
  <2>. QED
    BY <1>3, <2>2 DEF Init, Charged
<1>7. Accounted
  <2>1. \A n \in Nodes : On(to, n) = {}
    BY ContractAssumption DEF Init, On
  <2>2. \A n \in Nodes, r \in Resources : Remaining(to, n, r) = Capacity[n][r] - 0
    BY <2>1, DemandEmpty DEF Remaining
  <2>3. \A n \in Nodes, r \in Resources : Capacity[n][r] \in Nat
    BY ContractAssumption
  <2>. QED
    BY <2>2, <2>3 DEF Init, Accounted
<1>8. SkippedForCause
  BY DEF Init, SkippedForCause, On
<1>. QED
  BY <1>1, <1>2, <1>4, <1>5, <1>6, <1>7, <1>8 DEF IInv

\* Placing a pod adds its machine to those used, and nothing else.
LEMMA PlaceEffect ==
  ASSUME IInv, NEW p \in left, NEW n \in Nodes, Place(p, n),
         left' = left \ {p}, UNCHANGED inputs
  PROVE  /\ TypeOK'
         /\ p \in Pods /\ to[p] = None
         /\ Cold(view)' = Cold(view)
         /\ Used(to)' = Used(to) \cup {n}
         /\ On(to, n)' = On(to, n) \cup {p}
         /\ \A m \in Nodes \ {n} : On(to, m)' = On(to, m)
         /\ p \notin wake
<1>. USE ContractAssumption
<1>1. p \in Pods /\ to[p] = None
  BY DEF IInv, TypeOK, Charged
<1>2. TypeOK'
  <2>1. to' \in [Pods -> Nodes \cup {None}] /\ wake' \subseteq Pods
    BY <1>1 DEF IInv, TypeOK, Place
  <2>2. remaining' \in [Nodes -> [Resources -> Int]]
    <3>1. remaining \in [Nodes -> [Resources -> Int]]
      BY DEF IInv, TypeOK
    <3>2. [r \in Resources |-> remaining[n][r] - Request[p][r]] \in [Resources -> Int]
      <4>. SUFFICES ASSUME NEW r \in Resources
                    PROVE  remaining[n][r] - Request[p][r] \in Int
        OBVIOUS
      <4>1. remaining[n][r] \in Int /\ Request[p][r] \in Nat
        BY <1>1, <3>1
      <4>. QED
        BY <4>1
    <3>3. remaining' = [remaining EXCEPT ![n] =
                          [r \in Resources |-> remaining[n][r] - Request[p][r]]]
      BY <3>1 DEF Place
    <3>. QED
      BY <3>1, <3>2, <3>3
  <2>3. flags' \in [Nodes -> Views] /\ powerOns' \in Nat
    <3>1. flags \in [Nodes -> Views] /\ powerOns \in Nat /\ Mark(n)
      BY DEF IInv, TypeOK, Place
    <3>2. [ready |-> TRUE, offline |-> FALSE] \in Views
      BY DEF Views
    <3>3. CASE NeedsWake(n)
      <4>1. powerOns' = powerOns + 1
        BY <3>1, <3>3, Zenon DEF Mark
      <4>2. flags' = [flags EXCEPT ![n] = [ready |-> TRUE, offline |-> FALSE]]
        BY <3>1, <3>3, Zenon DEF Mark
      <4>. QED
        BY <3>1, <3>2, <4>1, <4>2
    <3>4. CASE ~NeedsWake(n)
      <4>1. powerOns' = powerOns /\ flags' = flags
        BY <3>1, <3>4, Zenon DEF Mark
      <4>. QED
        BY <3>1, <4>1
    <3>. QED
      BY <3>3, <3>4
  <2>. QED
    BY <2>1, <2>2, <2>3 DEF IInv, TypeOK, inputs
<1>3. TypeOK /\ to' = [to EXCEPT ![p] = n] /\ view' = view
  BY DEF IInv, Place, inputs
<1>4. Cold(view)' = Cold(view)
  BY <1>3 DEF Cold, Offline
<1>5. DOMAIN to' = Pods /\ \A q \in Pods : to'[q] = IF q = p THEN n ELSE to[q]
  BY <1>1, <1>3 DEF TypeOK
<1>6. Used(to') = {to'[q] : q \in Pods} \ {None}
  BY <1>5 DEF Used
<1>7. Used(to)' = Used(to) \cup {n}
  <2>1. \A m \in Nodes : m \in Used(to') <=> m \in Used(to) \/ m = n
    <3>. SUFFICES ASSUME NEW m \in Nodes PROVE m \in Used(to') <=> m \in Used(to) \/ m = n
      OBVIOUS
    <3>1. m \in Used(to) <=> \E q \in Pods : to[q] = m
      BY <1>3, Names
    <3>2. m \in Used(to') <=> \E q \in Pods : to'[q] = m
      BY <1>6
    <3>3. (\E q \in Pods : to'[q] = m) <=> (\E q \in Pods : to[q] = m) \/ m = n
      BY <1>1, <1>5
    <3>. QED
      BY <3>1, <3>2, <3>3
  <2>2. Used(to') \subseteq Nodes
    <3>1. \A q \in Pods : to'[q] \in Nodes \cup {None}
      BY <1>2 DEF TypeOK
    <3>. QED
      BY <1>6, <3>1
  <2>. QED
    BY <1>3, <2>1, <2>2, Names
<1>8. \A m \in Nodes : On(to', m) = IF m = n THEN On(to, m) \cup {p} ELSE On(to, m)
  BY <1>1, <1>3, <1>5, Names DEF On
<1>9. p \notin wake
  BY <1>1, <1>3, Names DEF IInv, WakesOnce, OneFlagEach
<1>. QED
  BY <1>1, <1>2, <1>4, <1>7, <1>8, <1>9

\* A placement keeps the invariant, whether or not it wakes its machine.
LEMMA PlaceKeeps ==
  ASSUME IInv, NEW p \in left, NEW n \in Nodes, Place(p, n),
         left' = left \ {p}, UNCHANGED inputs
  PROVE  IInv'
<1>1. /\ TypeOK'
      /\ p \in Pods /\ to[p] = None
      /\ Cold(view)' = Cold(view)
      /\ Used(to)' = Used(to) \cup {n}
      /\ On(to, n)' = On(to, n) \cup {p}
      /\ \A m \in Nodes \ {n} : On(to, m)' = On(to, m)
      /\ p \notin wake
  BY PlaceEffect
<1>2. /\ TypeOK /\ Charged /\ NeverOverdrawn /\ BudgetKept /\ WakesOnce
      /\ Accounted /\ SkippedForCause
  BY DEF IInv
<1>3. NeverOverdrawn'
  <2>1. \A r \in Resources : Request[p][r] <= remaining[n][r] /\ Request[p][r] \in Nat
    BY <1>1, ContractAssumption DEF Place, Usable, Fits
  <2>2. \A m \in Nodes, r \in Resources :
          remaining'[m][r] = IF m = n THEN remaining[n][r] - Request[p][r] ELSE remaining[m][r]
    BY <1>2 DEF Place, TypeOK
  <2>3. \A m \in Nodes, r \in Resources : remaining[m][r] \in Int /\ remaining[m][r] >= 0
    BY <1>2 DEF TypeOK, NeverOverdrawn
  <2>. QED
    BY <2>1, <2>2, <2>3 DEF NeverOverdrawn
<1>4. NeedsWake(n) <=> n \in Cold(view) \ Used(to)
  BY <1>2, NeedsWakeMeans
<1>5. n \in Used(to) <=> On(to, n) # {}
  <2>1. On(to, n) = {q \in Pods : to[q] = n}
    BY <1>2, Names
  <2>. QED
    BY <1>2, <2>1, Names
<1>6. /\ inFlight' = inFlight /\ view' = view /\ inFlight \in Nat /\ powerOns \in Nat
      /\ MaxPowerOns \in Nat
      /\ powerOns = inFlight + Cardinality(Woken)
      /\ IsFiniteSet(Woken) /\ Cardinality(Woken) \in Nat
  BY <1>2, Names, FS_CardinalityType, GreedyAssumption DEF inputs, Charged, TypeOK, Woken
<1>7. \A q \in left' : to'[q] = None
  BY <1>2 DEF Charged, TypeOK, Place
<1>9. /\ to' = [to EXCEPT ![p] = n]
      /\ to \in Layouts /\ to' \in Layouts
  BY <1>1, <1>2 DEF Place, TypeOK, Layouts
<1>10. \A m \in Nodes, r \in Resources :
         Remaining(to', m, r) =
           IF m = n THEN Remaining(to, m, r) - Request[p][r] ELSE Remaining(to, m, r)
  <2>1. /\ to \in Layouts /\ to' \in Layouts
        /\ \A q \in Pods : to'[q] = IF q = p THEN n ELSE to[q]
    BY <1>9 DEF Layouts
  <2>2. p \in Pods /\ to[p] = None /\ n \in Nodes
    BY <1>1
  <2>. QED
    BY <2>1, <2>2, RemainingPlace
<1>11. Accounted'
  <2>1. \A m \in Nodes, r \in Resources :
          remaining'[m][r] = IF m = n THEN remaining[n][r] - Request[p][r] ELSE remaining[m][r]
    BY <1>2 DEF Place, TypeOK
  <2>2. \A m \in Nodes, r \in Resources : remaining[m][r] = Remaining(to, m, r)
    BY <1>2 DEF Accounted
  <2>3. \A m \in Nodes, r \in Resources : remaining'[m][r] = Remaining(to', m, r)
    BY <1>10, <2>1, <2>2
  <2>. QED
    BY <2>3 DEF Accounted
<1>12. SkippedForCause'
  <2>. SUFFICES ASSUME NEW q \in On(to', None) \ left', NEW m \in Nodes, CanFit(q, to', m)
                PROVE  m \in Cold(view) \ Used(to') /\ powerOns' >= MaxPowerOns
    BY <1>1 DEF SkippedForCause
  <2>1. q \in Pods /\ q # p /\ to[q] = None /\ q \in On(to, None) \ left
    <3>1. q \in Pods /\ to'[q] = None
      BY <1>9 DEF On, Layouts
    <3>2. q # p
      BY <1>1, <1>9, <3>1, ContractAssumption DEF Layouts
    <3>3. to[q] = None
      BY <1>9, <3>1, <3>2 DEF Layouts
    <3>4. q \in On(to, None)
      BY <1>9, <3>1, <3>3, OnMeans
    <3>. QED
      BY <3>1, <3>2, <3>3, <3>4
  <2>2. CanFit(q, to, m)
    <3>. SUFFICES ASSUME NEW r \in Resources PROVE Request[q][r] <= Remaining(to, m, r)
      BY DEF CanFit
    <3>1. Request[q][r] <= Remaining(to', m, r) /\ Request[p][r] \in Nat /\ Request[q][r] \in Nat
      BY <1>1, <2>1, RequestNat DEF CanFit
    <3>2. Remaining(to, m, r) \in Int
      BY <1>9, RemainingInt
    <3>3. Remaining(to', m, r) =
            IF m = n THEN Remaining(to, m, r) - Request[p][r] ELSE Remaining(to, m, r)
      BY <1>10
    <3>. QED
      BY <3>1, <3>2, <3>3
  <2>3. m \in Cold(view) \ Used(to) /\ powerOns >= MaxPowerOns
    BY <1>2, <2>1, <2>2 DEF SkippedForCause
  <2>4. m # n
    BY <1>2, <2>3, NeedsWakeMeans DEF Place, Usable, Blocked
  <2>5. powerOns' >= powerOns
    BY <1>2 DEF Place, Mark, TypeOK
  <2>6. powerOns' \in Nat /\ powerOns \in Nat
    BY <1>1, <1>2 DEF TypeOK
  <2>. QED
    BY <1>1, <2>3, <2>4, <2>5, <2>6, GreedyAssumption
<1>8. CASE NeedsWake(n)
  <2>1. Woken' = Woken \cup {n} /\ n \notin Woken
    BY <1>1, <1>4, <1>8 DEF Woken
  <2>2. Cardinality(Woken') = Cardinality(Woken) + 1
    BY <1>6, <2>1, FS_AddElement
  <2>3. powerOns' = powerOns + 1 /\ powerOns < MaxPowerOns
    BY <1>6, <1>8 DEF Place, Usable, Blocked, Mark
  <2>4. BudgetKept'
    BY <1>6, <2>2, <2>3 DEF BudgetKept, WithinBudget, Woken
  <2>5. wake' = wake \cup {p}
    BY <1>8 DEF Place
  <2>6. WakesOnce'
    <3>1. \A q \in wake' : to'[q] \in Cold(view)
      BY <1>1, <1>2, <1>4, <1>8, <2>5 DEF WakesOnce, OneFlagEach, Place, TypeOK
    <3>2. wake' \cap On(to, n)' = {p}
      BY <1>1, <1>4, <1>5, <1>8, <2>5
    <3>3. \A m \in Woken : Cardinality(wake' \cap On(to, m)') = 1
      <4>. SUFFICES ASSUME NEW m \in Woken PROVE Cardinality(wake' \cap On(to, m)') = 1
        OBVIOUS
      <4>1. m \in Nodes \ {n}
        BY <1>2, <2>1, Names DEF Woken
      <4>2. p \notin On(to, m)
        BY <1>1, <1>2, <4>1, Names, ContractAssumption
      <4>3. wake' \cap On(to, m)' = wake \cap On(to, m)
        BY <1>1, <2>5, <4>1, <4>2
      <4>. QED
        BY <1>2, <4>3 DEF WakesOnce, OneFlagEach, Woken
    <3>4. Cardinality(wake' \cap On(to, n)') = 1
      BY <3>2, FS_Singleton
    <3>5. \A m \in Woken' : Cardinality(wake' \cap On(to, m)') = 1
      BY <2>1, <3>3, <3>4
    <3>. QED
      BY <1>1, <3>1, <3>5 DEF WakesOnce, OneFlagEach, Woken
  <2>7. Charged'
    <3>1. powerOns' = inFlight + Cardinality(Woken')
      BY <1>6, <2>2, <2>3
    <3>2. \A m \in Nodes :
            flags'[m] = IF m \in Woken' THEN [ready |-> TRUE, offline |-> FALSE] ELSE view[m]
      BY <1>2, <1>8, <2>1 DEF Charged, TypeOK, Place, Mark, Woken
    <3>. QED
      BY <1>6, <1>7, <3>1, <3>2 DEF Charged, Woken
  <2>. QED
    BY <1>1, <1>3, <1>11, <1>12, <2>4, <2>6, <2>7 DEF IInv
<1>13. CASE ~NeedsWake(n)
  <2>1. Woken' = Woken
    BY <1>1, <1>4, <1>13 DEF Woken
  <2>2. UNCHANGED <<powerOns, flags, wake>>
    BY <1>13 DEF Place, Mark
  <2>3. BudgetKept'
    BY <1>2, <1>6, <2>1 DEF BudgetKept, WithinBudget, Woken
  <2>4. WakesOnce'
    <3>1. \A q \in wake' : to'[q] \in Cold(view)
      BY <1>1, <1>2, <2>2 DEF WakesOnce, OneFlagEach, Place, TypeOK
    <3>2. \A m \in Nodes : wake' \cap On(to, m)' = wake \cap On(to, m)
      BY <1>1, <2>2
    <3>3. \A m \in Woken : Cardinality(wake \cap On(to, m)) = 1 /\ m \in Nodes
      BY <1>2, Names DEF WakesOnce, OneFlagEach, Woken
    <3>. QED
      BY <1>1, <2>1, <3>1, <3>2, <3>3 DEF WakesOnce, OneFlagEach, Woken
  <2>5. Charged'
    BY <1>2, <1>6, <1>7, <2>1, <2>2 DEF Charged, Woken
  <2>. QED
    BY <1>1, <1>3, <1>11, <1>12, <2>3, <2>4, <2>5 DEF IInv
<1>. QED
  BY <1>8, <1>13

LEMMA Inductive == IInv /\ [Next]_vars => IInv'
<1>. SUFFICES ASSUME IInv, [Next]_vars PROVE IInv'
  OBVIOUS
<1>1. ASSUME NEW p \in Pods, Consider(p) PROVE IInv'
  <2>1. CASE Skip(p)
    <3>1. /\ left' = left \ {p} /\ UNCHANGED <<inputs, to, wake, remaining, powerOns, flags>>
          /\ p \in left /\ Usable(p) = {}
      BY <1>1, <2>1 DEF Consider, Skip
    <3>2. IInv
      OBVIOUS
    <3>3. /\ TypeOK' /\ NeverOverdrawn' /\ BudgetKept' /\ WakesOnce' /\ Charged'
          /\ Accounted'
      BY <3>1, <3>2 DEF inputs, IInv, TypeOK, NeverOverdrawn, BudgetKept, WakesOnce,
                        Charged, Accounted
    <3>4. SkippedForCause'
      <4>. SUFFICES ASSUME NEW q \in On(to, None) \ left', NEW n \in Nodes, CanFit(q, to, n)
                    PROVE  n \in Cold(view) \ Used(to) /\ powerOns >= MaxPowerOns
        BY <3>1 DEF SkippedForCause, inputs
      <4>1. CASE q # p
        BY <3>1, <3>2, <4>1 DEF IInv, SkippedForCause
      <4>2. CASE q = p
        <5>1. Fits(p, n)
          BY <3>2, <4>2 DEF IInv, Accounted, CanFit, Fits
        <5>2. Blocked(n)
          BY <3>1, <5>1 DEF Usable
        <5>. QED
          BY <3>2, <5>2, NeedsWakeMeans DEF IInv, Blocked
      <4>. QED
        BY <4>1, <4>2
    <3>. QED
      BY <3>3, <3>4 DEF IInv
  <2>2. ASSUME NEW n \in Nodes, Place(p, n) PROVE IInv'
    BY <1>1, <2>2, PlaceKeeps DEF Consider
  <2>. QED
    BY <1>1, <2>1, <2>2 DEF Consider
<1>2. CASE UNCHANGED vars
  BY <1>2 DEF vars, inputs, IInv, TypeOK, NeverOverdrawn, BudgetKept, WakesOnce, Charged,
              Accounted, SkippedForCause
<1>. QED
  BY <1>1, <1>2 DEF Next

\* With every pod considered, the plan is one the contract allows.
LEMMA GreedyAnswer ==
  ASSUME IInv, left = {}
  PROVE  GreedyPlan \in GreedyPlans(Pods, view, MaxPowerOns - inFlight)
<1>. DEFINE slack == MaxPowerOns - inFlight
<1>1. /\ TypeOK /\ NeverOverdrawn /\ BudgetKept /\ WakesOnce /\ Charged
      /\ Accounted /\ SkippedForCause
  BY DEF IInv
<1>2. GreedyPlan.to = to /\ GreedyPlan.wake = wake
  BY DEF GreedyPlan
<1>3. GreedyPlan \in [to : Placements(Pods, view), wake : SUBSET Pods]
  BY <1>1 DEF TypeOK, GreedyPlan, Placements
<1>4. WithinCapacity(to)
  <2>1. Used(to) \subseteq Nodes
    BY <1>1, Names
  <2>. QED
    BY <1>1, <2>1 DEF WithinCapacity, NeverOverdrawn, Accounted
<1>5. WithinBudget(to, Cold(view), slack)
  BY <1>1 DEF BudgetKept
<1>6. Maximal(to, view, slack)
  <2>. SUFFICES ASSUME NEW p \in On(to, None), NEW n \in DOMAIN view, CanFit(p, to, n)
                PROVE  /\ n \in Cold(view) \ Used(to)
                       /\ Cardinality(Used(to) \cap Cold(view)) >= slack
    BY DEF Maximal
  <2>1. n \in Nodes /\ p \in On(to, None) \ left
    BY <1>1 DEF TypeOK
  <2>2. n \in Cold(view) \ Used(to) /\ powerOns >= MaxPowerOns
    BY <1>1, <2>1 DEF SkippedForCause
  <2>3. /\ powerOns = inFlight + Cardinality(Woken)
        /\ inFlight \in Nat /\ MaxPowerOns \in Nat /\ Cardinality(Woken) \in Nat
    BY <1>1, Names, FS_CardinalityType, GreedyAssumption DEF Charged, TypeOK, Woken
  <2>4. Cardinality(Woken) >= slack
    BY <2>2, <2>3
  <2>. QED
    BY <2>2, <2>4 DEF Woken
<1>7. OneFlagEach(to, view, wake)
  BY <1>1 DEF WakesOnce
<1>. QED
  BY <1>2, <1>3, <1>4, <1>5, <1>6, <1>7 DEF GreedyPlans, IsGreedyPlan

\* Greedy never assigns a machine more than it declares allocatable: what it
\* counts as remaining stays at or above zero (greedy.go:84, 126-127).
THEOREM NoOverdraft == Spec => []NeverOverdrawn
<1>1. IInv => NeverOverdrawn
  BY DEF IInv
<1>. QED
  BY Initially, Inductive, <1>1, PTL DEF Spec

\* The machines a greedy plan wakes, with those in flight, are within
\* MaxConcurrentPowerOns; with the budget spent it wakes none (greedy.go:89-93).
THEOREM Budget == Spec => []BudgetKept
<1>1. IInv => BudgetKept
  BY DEF IInv
<1>. QED
  BY Initially, Inductive, <1>1, PTL DEF Spec

\* Every machine to wake has exactly one assignment with RequiresWake, so the
\* planner may rely on it and on nothing else for the wake (greedy.go:117-136).
THEOREM Wakes == Spec => []WakesOnce
<1>1. IInv => WakesOnce
  BY DEF IInv
<1>. QED
  BY Initially, Inductive, <1>1, PTL DEF Spec

\* Every greedy plan is one the planner may rely on: within the machines' capacity
\* and the power budget, one wake a machine, and a pod left out only if no machine
\* has room for it but those that the budget forbids to wake (greedy.go:75-157).
THEOREM GreedyContract ==
  Spec => [](left = {} => GreedyPlan \in GreedyPlans(Pods, view, MaxPowerOns - inFlight))
<1>1. IInv => (left = {} => GreedyPlan \in GreedyPlans(Pods, view, MaxPowerOns - inFlight))
  BY GreedyAnswer
<1>. QED
  BY Initially, Inductive, <1>1, PTL DEF Spec
================================================================================
