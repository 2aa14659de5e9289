------------------------------- MODULE AnswerProofs -------------------------------
(****************************************************************************)
(* What the solvers answer, for any finite sets of machines and pods: the   *)
(* branch and bound with the time to finish misses no better placement, its *)
(* answer is never worth less than the greedy seed, and the answer of every *)
(* algorithm is one the planner relies on.                                  *)
(*                                                                          *)
(* AnswerInv is inductive.  Its part NothingMissed says that a placement    *)
(* better than the incumbent is still ahead of the search: some call has    *)
(* chosen as the placement does above, and has its choice still to try.     *)
(****************************************************************************)
EXTENDS ExactProofs

\* Placement t has the first k pods where the path has them.
Follows(t, k) == \A j \in 1..k : t[Sorted[j]] = path[Sorted[j]]

\* The c-th choice of call i is that of t.
Chooses(t, i, c) == t[Sorted[i]] = IF c = LeaveOut THEN None ELSE Listed[c]

\* Call i has the choice of t still to try.
AheadAt(t, i) ==
  /\ Follows(t, i - 1)
  /\ \E c \in 1..LeaveOut :
       Chooses(t, i, c) /\ (c > stack[i].next \/ (c = stack[i].next /\ ~Chosen(i)))

Ahead(t) ==
  \/ at = "call" /\ Follows(t, Len(stack))
  \/ \E i \in 1..Len(stack) : AheadAt(t, i)

Better(t) == Feasible(t, view, MaxPowerOns - inFlight) /\ Value(t) > bestScore

NothingMissed ==
  at \notin {"off", "given"} /\ ~timedOut => \A t \in Layouts : Better(t) => Ahead(t)

RoomHonest == \A n \in Nodes, r \in Resources : room[n][r] = Remaining(path, n, r)
ScoreHonest == score = Value(path)

\* The answer so far is the seed, with greedy's own total, or better than that.
Incumbent ==
  at \notin {"off", "given"} =>
    /\ WithinCapacity(best)
    /\ \/ best = to /\ bestScore = GreedyTotal
       \/ bestScore = Value(best) /\ bestScore > GreedyTotal

BestTypes ==
  /\ best \in Layouts
  /\ bestScore \in Int
  /\ timedOut \in BOOLEAN

AnswerInv ==
  /\ BestTypes
  /\ at \in {"off", "done"} => stack = <<>>
  /\ RoomHonest
  /\ ScoreHonest
  /\ Incumbent
  /\ NothingMissed

--------------------------------------------------------------------------------
\* What a placement is worth, pod by pod.
Worths(t) == [p \in Pods |-> IF t[p] = None THEN 0 ELSE Worth(t[p])]

LEMMA WorthInt ==
  ASSUME TypeOK, NEW n \in Nodes
  PROVE  Worth(n) \in Int
  BY DEF TypeOK, Worth, Score, Bonus

LEMMA WorthsInt ==
  ASSUME TypeOK, NEW t \in Layouts
  PROVE  /\ \A p \in Pods : Worths(t)[p] \in Int
         /\ \A ps \in SUBSET Pods : Summable(Worths(t), ps)
         /\ Value(t) = SumFunctionOnSet(Worths(t), Pods)
         /\ Value(t) \in Int
<1>1. \A p \in Pods : Worths(t)[p] \in Int
  <2>. SUFFICES ASSUME NEW p \in Pods PROVE Worths(t)[p] \in Int
    OBVIOUS
  <2>1. t[p] = None \/ t[p] \in Nodes
    BY DEF Layouts
  <2>2. t[p] \in Nodes => Worth(t[p]) \in Int
    BY WorthInt
  <2>. QED
    BY <2>1, <2>2 DEF Worths
<1>2. \A ps \in SUBSET Pods : Summable(Worths(t), ps)
  <2>1. \A ps \in SUBSET Pods : IsFiniteSet(ps)
    BY FS_Subset, GreedyAssumption
  <2>. QED
    BY <1>1, <2>1 DEF Summable
<1>3. Value(t) = SumFunctionOnSet(Worths(t), Pods)
  BY DEF Value, Worths
<1>4. SumFunctionOnSet(Worths(t), Pods) \in Int
  BY <1>2, SumInt
<1>. QED
  BY <1>1, <1>2, <1>3, <1>4

\* One pod more on a machine adds what the machine is worth.
LEMMA ValuePlace ==
  ASSUME TypeOK, NEW t \in Layouts, NEW u \in Layouts,
         NEW p \in Pods, t[p] = None, NEW n \in Nodes,
         \A q \in Pods : u[q] = IF q = p THEN n ELSE t[q]
  PROVE  Value(u) = Value(t) + Worth(n)
<1>. DEFINE rest == Pods \ {p}
            f == Worths(t)
            g == Worths(u)
<1>1. \A q \in rest : f[q] = g[q]
  BY DEF Worths
<1>2. f[p] = 0 /\ g[p] = Worth(n)
  BY ContractAssumption DEF Worths
<1>3. Summable(f, Pods) /\ Summable(g, Pods) /\ Summable(f, rest)
  <2>1. rest \in SUBSET Pods /\ Pods \in SUBSET Pods
    OBVIOUS
  <2>. HIDE DEF rest
  <2>. QED
    BY <2>1, WorthsInt
<1>. HIDE DEF f, g
<1>4. SumFunctionOnSet(f, Pods) = f[p] + SumFunctionOnSet(f, rest)
  BY <1>3, SumRemove
<1>5. SumFunctionOnSet(g, Pods) = g[p] + SumFunctionOnSet(g, rest)
  BY <1>3, SumRemove
<1>6. SumFunctionOnSet(f, rest) = SumFunctionOnSet(g, rest)
  BY <1>1, <1>3, SumSame
<1>7. SumFunctionOnSet(f, rest) \in Int /\ Worth(n) \in Int
  BY <1>3, SumInt, WorthInt
<1>8. Value(t) = SumFunctionOnSet(f, Pods) /\ Value(u) = SumFunctionOnSet(g, Pods)
  BY WorthsInt DEF f, g
<1>. QED
  BY <1>2, <1>4, <1>5, <1>6, <1>7, <1>8

\* No pod anywhere is worth nothing.
LEMMA ValueNone ==
  ASSUME TypeOK, NEW t \in Layouts, Used(t) = {}
  PROVE  Value(t) = 0
<1>1. \A p \in Pods : t[p] = None
  BY OnMeans DEF Layouts
<1>2. \A p \in Pods : Worths(t)[p] = 0
  BY <1>1 DEF Worths
<1>3. SumFunctionOnSet(Worths(t), Pods) = 0
  BY <1>2, SumZero, GreedyAssumption
<1>. QED
  BY <1>3, WorthsInt

\* Greedy counts for each pod at least what the search does: a machine that was
\* ready is so to the end, and its pods wake nothing.
LEMMA GreedyCountsMore ==
  ASSUME IInv
  PROVE  /\ to \in Layouts
         /\ GreedyTotal \in Int
         /\ Value(to) <= GreedyTotal
<1>1. TypeOK /\ WakesOnce /\ Charged /\ to \in Layouts
  BY DEF IInv, TypeOK, Layouts
<1>. DEFINE f == Worths(to)
            g == [p \in Pods |-> GreedyScore(p)]
<1>2. ASSUME NEW p \in Pods
      PROVE  f[p] \in Int /\ g[p] \in Int /\ f[p] <= g[p]
  <2>1. CASE to[p] = None
    BY <2>1 DEF Worths, GreedyScore
  <2>2. CASE to[p] # None
    <3>. DEFINE n == to[p]
    <3>1. n \in Nodes /\ base[n] \in Int
      BY <1>1, <2>2 DEF TypeOK
    <3>2. view[n].ready => flags[n].ready /\ p \notin wake
      <4>1. n \in Cold(view) => ~view[n].ready
        BY <1>1, <3>1, Names
      <4>2. p \in wake => n \in Cold(view)
        BY <1>1 DEF WakesOnce, OneFlagEach
      <4>3. flags[n] = view[n] \/ n \in Cold(view)
        BY <1>1, <3>1 DEF Charged
      <4>. QED
        BY <4>1, <4>2, <4>3
    <3>3. /\ f[p] = base[n] + IF view[n].ready THEN 100 ELSE 0
          /\ g[p] = base[n] + IF flags[n].ready /\ p \notin wake THEN 100 ELSE 0
      BY <2>2 DEF Worths, Worth, GreedyScore, Score, Bonus
    <3>. QED
      BY <3>1, <3>2, <3>3
  <2>. QED
    BY <2>1, <2>2
<1>3. Summable(f, Pods) /\ Summable(g, Pods)
  BY <1>2, GreedyAssumption DEF Summable
<1>4. Value(to) = SumFunctionOnSet(f, Pods) /\ GreedyTotal = SumFunctionOnSet(g, Pods)
  BY <1>1, WorthsInt DEF GreedyTotal
<1>5. SumFunctionOnSet(f, Pods) <= SumFunctionOnSet(g, Pods)
  <2>. HIDE DEF f, g
  <2>. QED
    BY <1>2, <1>3, SumLeq
<1>6. SumFunctionOnSet(g, Pods) \in Int
  <2>. HIDE DEF g
  <2>. QED
    BY <1>3, SumInt
<1>. QED
  BY <1>1, <1>4, <1>5, <1>6

--------------------------------------------------------------------------------
\* The machines listed, each at one place.
LEMMA Choice ==
  ASSUME NEW t \in Layouts, NEW i \in DOMAIN Sorted
  PROVE  /\ t[Sorted[i]] \in Nodes \cup {None}
         /\ \E c \in 1..LeaveOut : Chooses(t, i, c)
<1>1. t[Sorted[i]] \in Nodes \cup {None}
  BY SortedOnce, ElementOfSeq DEF Layouts
<1>2. Cardinality(Nodes) \in Nat
  BY ListedNodes
<1>3. CASE t[Sorted[i]] = None
  BY <1>2, <1>3 DEF Chooses, LeaveOut
<1>4. CASE t[Sorted[i]] \in Nodes
  <2>1. PICK c \in DOMAIN Listed : Listed[c] = t[Sorted[i]]
    BY <1>4, GreedyAssumption
  <2>2. c \in 1..Cardinality(Nodes)
    BY <2>1, GreedyAssumption
  <2>3. c \in 1..LeaveOut /\ c # LeaveOut
    BY <1>2, <2>2 DEF LeaveOut
  <2>4. Chooses(t, i, c)
    BY <2>1, <2>3 DEF Chooses
  <2>. QED
    BY <1>1, <2>3, <2>4
<1>. QED
  BY <1>1, <1>3, <1>4

\* The pods not decided add at most their number times the best machine.
LEMMA BoundHolds ==
  ASSUME TypeOK, SearchTypes, TrialsHonest, at = "call", ScoreHonest,
         NEW t \in Layouts, Follows(t, Len(stack))
  PROVE  Bound \in Int /\ Value(t) <= score + Bound
<1>. DEFINE k == Len(stack)
            N == Len(Sorted)
            most == Max({0} \cup {Worth(n) : n \in Nodes})
            open == {Sorted[j] : j \in (k + 1)..N}
            done == Pods \ open
            f == Worths(t)
            g == Worths(path)
<1>1. k \in Nat /\ N \in Nat /\ k <= N
  BY LenProperties, SortedOnce DEF SearchTypes
<1>2. open \subseteq Pods
  BY <1>1, SortedOnce
<1>3. IsFiniteSet(open) /\ Cardinality(open) = N - k
  <2>. DEFINE h == [j \in (k + 1)..N |-> Sorted[j]]
  <2>1. h \in Surjection((k + 1)..N, open) /\ h \in Injection((k + 1)..N, open)
    <3>1. \A i, j \in (k + 1)..N : Sorted[i] = Sorted[j] => i = j
      BY <1>1, SortedOnce
    <3>. QED
      BY <3>1 DEF Surjection, Injection, IsInjective
  <2>2. IsFiniteSet((k + 1)..N) /\ Cardinality((k + 1)..N) = N - k
    <3>1. /\ k + 1 \in Int /\ N \in Int
          /\ IF k + 1 > N THEN N - k = 0 ELSE N - (k + 1) + 1 = N - k
      BY <1>1
    <3>. QED
      BY <3>1, FS_Interval
  <2>. HIDE DEF h, open
  <2>. QED
    BY <2>1, <2>2, FS_Surjection
<1>4. most \in Int /\ most >= 0 /\ \A n \in Nodes : Worth(n) <= most
  <2>. DEFINE S == {0} \cup {Worth(n) : n \in Nodes}
  <2>1. IsFiniteSet({Worth(n) : n \in Nodes})
    <3>. DEFINE T == {Worth(n) : n \in Nodes}
    <3>1. [n \in Nodes |-> Worth(n)] \in Surjection(Nodes, T)
      BY DEF Surjection
    <3>. HIDE DEF T
    <3>2. IsFiniteSet(T)
      BY <3>1, FS_Surjection, ContractAssumption
    <3>. QED
      BY <3>2 DEF T
  <2>2. IsFiniteSet(S) /\ S # {} /\ \A x \in S : x \in Int
    <3>1. IsFiniteSet(S)
      BY <2>1, FS_Singleton, FS_Union
    <3>. QED
      BY <3>1, WorthInt
  <2>3. Max(S) \in S /\ \A x \in S : x <= Max(S)
    <3>. HIDE DEF S
    <3>. QED
      BY <2>2, MaxIs
  <2>. QED
    BY <2>2, <2>3
<1>5. \A p \in Pods : p \in open <=> \A j \in 1..k : Sorted[j] # p
  BY <1>1, SortedOnce
<1>6. \A p \in done : f[p] = g[p]
  <2>. SUFFICES ASSUME NEW p \in done PROVE f[p] = g[p]
    OBVIOUS
  <2>1. PICK j \in 1..k : Sorted[j] = p
    BY <1>5
  <2>2. t[p] = path[p]
    BY <2>1 DEF Follows
  <2>. QED
    BY <2>2 DEF Worths
<1>7. \A p \in open : g[p] = 0
  <2>1. \A j \in DOMAIN Sorted : j > k => path[Sorted[j]] = None
    BY <1>1 DEF TrialsHonest, TrialHonest, Chosen
  <2>2. \A p \in open : path[p] = None
    BY <1>1, <2>1, SortedOnce
  <2>. QED
    BY <1>2, <2>2 DEF Worths
<1>8. \A p \in open : f[p] <= most
  <2>. SUFFICES ASSUME NEW p \in open PROVE f[p] <= most
    OBVIOUS
  <2>1. p \in Pods /\ (t[p] = None \/ t[p] \in Nodes)
    BY <1>2 DEF Layouts
  <2>. QED
    BY <1>4, <2>1 DEF Worths
<1>9. path \in Layouts
  BY DEF SearchTypes, Layouts
<1>10. /\ Summable(f, done) /\ Summable(f, open) /\ Summable(g, done) /\ Summable(g, open)
       /\ done \cap open = {} /\ done \cup open = Pods
  <2>1. done \in SUBSET Pods /\ open \in SUBSET Pods
    BY <1>2
  <2>2. done \cap open = {} /\ done \cup open = Pods
    BY <1>2
  <2>. HIDE DEF done, open
  <2>. QED
    BY <1>9, <2>1, <2>2, WorthsInt
<1>. HIDE DEF f, g, done, open, most
<1>11. /\ SumFunctionOnSet(f, Pods) = SumFunctionOnSet(f, done) + SumFunctionOnSet(f, open)
       /\ SumFunctionOnSet(g, Pods) = SumFunctionOnSet(g, done) + SumFunctionOnSet(g, open)
  BY <1>10, SumUnion
<1>12. SumFunctionOnSet(f, done) = SumFunctionOnSet(g, done)
  BY <1>6, <1>10, SumSame
<1>13. SumFunctionOnSet(g, open) = 0
  BY <1>3, <1>7, SumZero
<1>14. SumFunctionOnSet(f, open) <= (N - k) * most
  BY <1>3, <1>4, <1>8, <1>10, SumBound
<1>15. /\ SumFunctionOnSet(f, done) \in Int /\ SumFunctionOnSet(f, open) \in Int
       /\ (N - k) * most \in Int
  BY <1>1, <1>4, <1>10, SumInt
<1>16. Value(t) = SumFunctionOnSet(f, Pods) /\ score = SumFunctionOnSet(g, Pods)
  BY <1>9, WorthsInt DEF ScoreHonest, f, g
<1>17. Bound = (N - k) * most
  BY DEF Bound, most
<1>. QED
  BY <1>11, <1>12, <1>13, <1>14, <1>15, <1>16, <1>17

\* The search passes over no machine that a feasible placement needs: whatever the
\* placement puts on it, the path has put there less.
LEMMA FeasibleIsOpen ==
  ASSUME TypeOK, SearchInv, RoomHonest, at = "try",
         NEW t \in Layouts, Feasible(t, view, MaxPowerOns - inFlight),
         Follows(t, Len(stack) - 1),
         NEW c \in 1..Cardinality(Nodes), t[Pod] = Listed[c]
  PROVE  Open(c)
<1>. DEFINE n == Listed[c]
            k == Len(stack)
<1>1. /\ n \in Nodes /\ n # None /\ Pod \in Pods /\ Pod = Sorted[k]
      /\ k \in DOMAIN Sorted /\ k \in Nat
      /\ path \in Layouts /\ used = Used(path)
      /\ path[Pod] = None
      /\ \A j \in DOMAIN Sorted : j > k => path[Sorted[j]] = None
  BY ListedNodes, TopOfStack, SortedOnce
     DEF SearchInv, SearchTypes, SpendingHonest, Layouts, Pod
<1>2. \A q \in Pods : path[q] # None => path[q] = t[q]
  <2>. SUFFICES ASSUME NEW j \in DOMAIN Sorted, path[Sorted[j]] # None
                PROVE  path[Sorted[j]] = t[Sorted[j]]
    BY SortedOnce
  <2>1. j \in 1..(k - 1)
    BY <1>1, SortedOnce
  <2>. QED
    BY <2>1 DEF Follows
<1>3. /\ On(path, n) \subseteq Pods /\ On(t, n) \subseteq Pods
      /\ On(path, n) \cup {Pod} \subseteq On(t, n) /\ Pod \notin On(path, n)
  <2>1. On(path, n) = {q \in Pods : path[q] = n} /\ On(t, n) = {q \in Pods : t[q] = n}
    BY <1>1, OnMeans
  <2>. QED
    BY <1>1, <1>2, <2>1
<1>4. Used(path) \subseteq Used(t) /\ n \in Used(t) /\ Used(t) \subseteq Nodes
  <2>1. /\ Used(path) \subseteq Nodes /\ Used(t) \subseteq Nodes
        /\ \A m \in Nodes : m \in Used(path) <=> \E q \in Pods : path[q] = m
        /\ \A m \in Nodes : m \in Used(t) <=> \E q \in Pods : t[q] = m
    BY <1>1, OnMeans
  <2>2. \A m \in Nodes : m # None
    BY ContractAssumption
  <2>. QED
    BY <1>1, <1>2, <2>1, <2>2
<1>5. FitsHere(n)
  <2>. SUFFICES ASSUME NEW r \in Resources PROVE Request[Pod][r] <= room[n][r]
    BY DEF FitsHere
  <2>1. room[n][r] = Capacity[n][r] - Demand(On(path, n), r)
    BY <1>1 DEF RoomHonest, Remaining
  <2>2. Capacity[n][r] - Demand(On(t, n), r) >= 0
    BY <1>4 DEF Feasible, WithinCapacity, Remaining
  <2>3. Demand(On(path, n) \cup {Pod}, r) = Demand(On(path, n), r) + Request[Pod][r]
    <3>1. {Pod} \subseteq Pods /\ On(path, n) \cap {Pod} = {}
      BY <1>1, <1>3
    <3>2. Demand(On(path, n) \cup {Pod}, r) = Demand(On(path, n), r) + Demand({Pod}, r)
      BY <1>3, <3>1, DemandUnion
    <3>. QED
      BY <1>1, <3>2, DemandOne
  <2>4. Demand(On(path, n) \cup {Pod}, r) <= Demand(On(t, n), r)
    BY <1>3, DemandSubset
  <2>5. /\ Demand(On(path, n), r) \in Nat /\ Demand(On(t, n), r) \in Nat
        /\ Request[Pod][r] \in Nat /\ Capacity[n][r] \in Nat
    BY <1>1, <1>3, DemandNat, RequestNat, ContractAssumption
  <2>. QED
    BY <2>1, <2>2, <2>3, <2>4, <2>5
<1>6. ASSUME Costs(n), spent >= MaxPowerOns PROVE FALSE
  <2>. DEFINE have == Used(path) \cap Offline(view)
              need == Used(t) \cap Offline(view)
  <2>1. n \in Offline(view) /\ n \notin have
    BY <1>1, <1>6, OfflineMeans DEF Costs
  <2>2. have \cup {n} \subseteq need
    BY <1>4, <2>1
  <2>3. IsFiniteSet(need) /\ IsFiniteSet(have)
    BY <1>4, FS_Subset, ContractAssumption
  <2>4. Cardinality(have \cup {n}) = Cardinality(have) + 1
    <3>. HIDE DEF have
    <3>. QED
      BY <2>1, <2>3, FS_AddElement
  <2>5. Cardinality(have \cup {n}) <= Cardinality(need)
    <3>. HIDE DEF have, need
    <3>. QED
      BY <2>2, <2>3, FS_Subset
  <2>6. Cardinality(need) <= MaxPowerOns - inFlight
    BY <2>1, <2>2 DEF Feasible, WithinBudget
  <2>7. spent = inFlight + Cardinality(have)
    BY DEF SearchInv, SpendingHonest
  <2>8. /\ Cardinality(have) \in Nat /\ Cardinality(need) \in Nat
        /\ inFlight \in Nat /\ MaxPowerOns \in Nat
    BY <2>3, FS_CardinalityType, GreedyAssumption DEF TypeOK
  <2>. HIDE DEF have, need
  <2>. QED
    BY <1>6, <2>4, <2>5, <2>6, <2>7, <2>8
<1>. QED
  BY <1>5, <1>6 DEF Open

--------------------------------------------------------------------------------
\* The worth of a placement does not change, and what is ahead below stays so.
LEMMA SameValue ==
  ASSUME UNCHANGED <<base, view>>, NEW t
  PROVE  Value(t)' = Value(t)
  BY DEF Value, Worth, Score

LEMMA StillAhead ==
  ASSUME NEW t, NEW j \in Nat, AheadAt(t, j), Chosen(j), stack'[j] = stack[j],
         \A l \in 1..(j - 1) : path'[Sorted[l]] = path[Sorted[l]]
  PROVE  AheadAt(t, j)'
<1>1. Follows(t, j - 1)'
  BY DEF AheadAt, Follows
<1>2. PICK c \in 1..LeaveOut : Chooses(t, j, c) /\ c > stack[j].next
  BY DEF AheadAt
<1>3. Chooses(t, j, c)' /\ c > stack'[j].next
  BY <1>2 DEF Chooses
<1>. QED
  BY <1>1, <1>3 DEF AheadAt

LEMMA TryAnswer ==
  ASSUME TypeOK, SearchInv, AnswerInv, NEW i \in 1..Cardinality(Nodes), Try(i), UNCHANGED vars
  PROVE  AnswerInv'
<1>0. PICK k \in Nat : k = Len(stack)
  BY LenProperties DEF SearchInv, SearchTypes
<1>. DEFINE n == Listed[i]
            cost == IF Costs(n) THEN 1 ELSE 0
            e == [next |-> i, fresh |-> n \notin used, paid |-> cost]
<1>1. /\ stack # <<>> /\ at = "try" /\ at' = "call" /\ timedOut = FALSE
      /\ UNCHANGED <<best, bestScore, timedOut>>
      /\ UNCHANGED <<view, base, inFlight, to, wake, flags>>
      /\ SearchTypes
  BY DEF Try, SearchInv, SearchTypes, AnswerInv, BestTypes, incumbent, vars, inputs
<1>2. /\ k \in DOMAIN Sorted /\ k \in 1..k /\ k = Len(stack)
      /\ Pod \in Pods /\ Pod = Sorted[k] /\ Top = stack[k] /\ Top \in Calls
      /\ path[Pod] = None
  BY <1>0, <1>1, TopOfStack, SortedOnce DEF Pod, Top, SearchInv
<1>3. n \in Nodes /\ e \in Calls /\ i \in Nat
  BY ListedNodes DEF Calls, LeaveOut
<1>4. Len(stack') = k /\ \A j \in 1..k : stack'[j] = IF j = k THEN e ELSE stack[j]
  BY <1>1, <1>2, <1>3, ExceptSeq DEF Try, SearchTypes
<1>5. /\ path \in Layouts /\ path' \in Layouts
      /\ \A q \in Pods : path'[q] = IF q = Pod THEN n ELSE path[q]
  BY <1>1, <1>2, <1>3 DEF Try, SearchTypes, Layouts
<1>6. \A j \in DOMAIN Sorted : path'[Sorted[j]] = IF j = k THEN n ELSE path[Sorted[j]]
  BY <1>2, <1>5, SortedOnce
<1>7. RoomHonest'
  <2>1. \A m \in Nodes, r \in Resources :
          Remaining(path', m, r) =
            IF m = n THEN Remaining(path, m, r) - Request[Pod][r] ELSE Remaining(path, m, r)
    BY <1>2, <1>3, <1>5, RemainingPlace
  <2>2. \A m \in Nodes, r \in Resources :
          room'[m][r] = IF m = n THEN room[m][r] - Request[Pod][r] ELSE room[m][r]
    BY <1>1, <1>3 DEF Try, SearchTypes
  <2>3. \A m \in Nodes, r \in Resources : room[m][r] = Remaining(path, m, r)
    BY DEF AnswerInv, RoomHonest
  <2>4. \A m \in Nodes, r \in Resources : room'[m][r] = Remaining(path', m, r)
    BY <2>1, <2>2, <2>3
  <2>. QED
    BY <2>4 DEF RoomHonest
<1>8. ScoreHonest'
  <2>1. Value(path') = Value(path) + Worth(n)
    BY <1>2, <1>3, <1>5, ValuePlace
  <2>2. PICK u : u = path'
    OBVIOUS
  <2>3. Value(u)' = Value(u)
    BY <1>1, SameValue
  <2>4. score' = score + Worth(n) /\ score = Value(path)
    BY DEF Try, AnswerInv, ScoreHonest
  <2>. QED
    BY <2>1, <2>2, <2>3, <2>4 DEF ScoreHonest
<1>9. ASSUME NEW t \in Layouts, Better(t)' PROVE Ahead(t)'
  <2>1. Better(t)
    BY <1>1, <1>9, SameValue DEF Better
  <2>2. PICK j \in 1..k : AheadAt(t, j)
    BY <1>1, <1>2, <2>1 DEF AnswerInv, NothingMissed, Ahead
  <2>3. CASE j < k
    <3>1. j \in Nat /\ Chosen(j) /\ stack'[j] = stack[j]
      BY <1>2, <1>4, <2>3 DEF Chosen
    <3>2. \A l \in 1..(j - 1) : path'[Sorted[l]] = path[Sorted[l]]
      BY <1>2, <1>6, <2>3, SortedOnce
    <3>3. AheadAt(t, j)'
      BY <2>2, <3>1, <3>2, StillAhead
    <3>. QED
      BY <1>4, <3>3 DEF Ahead
  <2>4. CASE j = k
    <3>1. PICK c \in 1..LeaveOut : Chooses(t, k, c) /\ c >= Top.next
      BY <1>2, <2>2, <2>4, CallsMean DEF AheadAt
    <3>2. Follows(t, k - 1)
      BY <2>2, <2>4 DEF AheadAt
    <3>3. Follows(t, k - 1)'
      BY <1>2, <1>6, <3>2, SortedOnce DEF Follows
    <3>4. CASE c < i
      <4>1. c \in 1..Cardinality(Nodes) /\ c # LeaveOut
        BY <3>4, ListedNodes DEF LeaveOut
      <4>2. t[Pod] = Listed[c]
        BY <1>2, <3>1, <4>1 DEF Chooses
      <4>3. Open(c)
        BY <1>1, <1>2, <2>1, <3>2, <4>1, <4>2, FeasibleIsOpen DEF Better, AnswerInv
      <4>4. c \in Top.next..(i - 1)
        BY <1>2, <1>3, <3>1, <3>4, CallsMean
      <4>. QED
        BY <4>3, <4>4 DEF Try
    <3>5. CASE c = i
      <4>1. t[Sorted[k]] = n
        BY <3>1, <3>5, ListedNodes DEF Chooses, LeaveOut
      <4>2. Follows(t, k)'
        BY <1>2, <1>6, <3>3, <4>1 DEF Follows
      <4>. QED
        BY <1>1, <1>4, <4>2 DEF Ahead
    <3>6. CASE c > i
      <4>1. stack'[k].next = i
        BY <1>2, <1>4
      <4>2. Chooses(t, k, c)'
        BY <3>1 DEF Chooses
      <4>3. AheadAt(t, k)'
        BY <3>3, <3>6, <4>1, <4>2 DEF AheadAt
      <4>. QED
        BY <1>2, <1>4, <4>3 DEF Ahead
    <3>. QED
      BY <1>3, <3>4, <3>5, <3>6, ListedNodes DEF LeaveOut
  <2>. QED
    BY <1>2, <2>3, <2>4
<1>10. BestTypes' /\ at' \notin {"off", "done"}
  BY <1>1 DEF AnswerInv, BestTypes
<1>11. Incumbent'
  <2>1. GreedyTotal' = GreedyTotal
    BY <1>1 DEF GreedyTotal, GreedyScore, Score
  <2>2. PICK b : b = best
    OBVIOUS
  <2>3. Value(b)' = Value(b) /\ best' = b
    BY <1>1, <2>2, SameValue
  <2>. QED
    BY <1>1, <2>1, <2>2, <2>3 DEF AnswerInv, Incumbent
<1>. QED
  BY <1>7, <1>8, <1>9, <1>10, <1>11 DEF AnswerInv, NothingMissed

LEMMA UndoAnswer ==
  ASSUME TypeOK, SearchInv, AnswerInv, Undo, UNCHANGED vars
  PROVE  AnswerInv'
<1>0. PICK k \in Nat : k = Len(stack)
  BY LenProperties DEF SearchInv, SearchTypes
<1>. DEFINE n == Listed[Top.next]
            e == CallAt(Top.next + 1)
<1>1. /\ stack # <<>> /\ at = "return" /\ at' = "try" /\ Top.next # LeaveOut
      /\ UNCHANGED <<best, bestScore, timedOut>>
      /\ UNCHANGED <<view, base, inFlight, to, wake, flags>>
      /\ SearchTypes
  BY DEF Undo, SearchInv, AnswerInv, incumbent, vars, inputs
<1>2. /\ k \in DOMAIN Sorted /\ k \in 1..k /\ k = Len(stack)
      /\ Pod \in Pods /\ Pod = Sorted[k] /\ Top = stack[k] /\ Top \in Calls
  BY <1>0, <1>1, TopOfStack, SortedOnce DEF Pod, Top, SearchInv
<1>3. /\ Top.next \in 1..Cardinality(Nodes) /\ n \in Nodes
      /\ e \in Calls /\ e.next = Top.next + 1
  <2>1. Top.next \in 1..Cardinality(Nodes)
    BY <1>1, <1>2, CallsMean
  <2>2. Top.next + 1 \in 1..LeaveOut
    BY <2>1, ListedNodes DEF LeaveOut
  <2>. QED
    BY <2>1, <2>2, CallsMean, ListedNodes DEF CallAt
<1>4. Len(stack') = k /\ \A j \in 1..k : stack'[j] = IF j = k THEN e ELSE stack[j]
  BY <1>1, <1>2, <1>3, ExceptSeq DEF Undo, SearchTypes
<1>5. path[Pod] = n
  BY <1>1, <1>2 DEF SearchInv, TrialsHonest, TrialHonest, Chosen
<1>6. /\ path \in Layouts /\ path' \in Layouts
      /\ \A q \in Pods : path'[q] = IF q = Pod THEN None ELSE path[q]
  BY <1>1, <1>2 DEF Undo, SearchTypes, Layouts
<1>7. path'[Pod] = None /\ \A q \in Pods : path[q] = IF q = Pod THEN n ELSE path'[q]
  BY <1>2, <1>5, <1>6
<1>8. RoomHonest'
  <2>1. \A m \in Nodes, r \in Resources :
          Remaining(path, m, r) =
            IF m = n THEN Remaining(path', m, r) - Request[Pod][r] ELSE Remaining(path', m, r)
    BY <1>2, <1>3, <1>6, <1>7, RemainingPlace
  <2>2. \A m \in Nodes, r \in Resources :
          room'[m][r] = IF m = n THEN room[m][r] + Request[Pod][r] ELSE room[m][r]
    BY <1>1, <1>3 DEF Undo, SearchTypes
  <2>3. \A m \in Nodes, r \in Resources : room[m][r] = Remaining(path, m, r)
    BY DEF AnswerInv, RoomHonest
  <2>4. \A m \in Nodes, r \in Resources :
          Remaining(path', m, r) \in Int /\ Request[Pod][r] \in Nat
    BY <1>2, <1>6, RemainingInt, RequestNat
  <2>5. \A m \in Nodes, r \in Resources : room'[m][r] = Remaining(path', m, r)
    BY <2>1, <2>2, <2>3, <2>4
  <2>. QED
    BY <2>5 DEF RoomHonest
<1>9. ScoreHonest'
  <2>1. Value(path) = Value(path') + Worth(n)
    BY <1>2, <1>3, <1>6, <1>7, ValuePlace
  <2>2. PICK u : u = path'
    OBVIOUS
  <2>3. Value(u)' = Value(u)
    BY <1>1, SameValue
  <2>4. score' = score - Worth(n) /\ score = Value(path)
    BY DEF Undo, AnswerInv, ScoreHonest
  <2>5. Value(path') \in Int /\ Worth(n) \in Int
    BY <1>3, <1>6, WorthInt, WorthsInt
  <2>. QED
    BY <2>1, <2>2, <2>3, <2>4, <2>5 DEF ScoreHonest
<1>10. ASSUME NEW t \in Layouts, Better(t)', timedOut = FALSE PROVE Ahead(t)'
  <2>1. Better(t)
    BY <1>1, <1>10, SameValue DEF Better
  <2>2. PICK j \in 1..k : AheadAt(t, j)
    BY <1>1, <1>2, <1>10, <2>1 DEF AnswerInv, NothingMissed, Ahead
  <2>3. \A l \in 1..(k - 1) : path'[Sorted[l]] = path[Sorted[l]]
    <3>1. \A l \in 1..(k - 1) : l \in DOMAIN Sorted /\ Sorted[l] \in Pods /\ Sorted[l] # Pod
      BY <1>2, SortedOnce
    <3>. QED
      BY <1>6, <3>1
  <2>4. Chosen(j)
    BY <1>1, <1>2 DEF Chosen
  <2>5. CASE j < k
    <3>1. j \in Nat /\ stack'[j] = stack[j] /\ \A l \in 1..(j - 1) : l \in 1..(k - 1)
      BY <1>4, <2>5
    <3>2. AheadAt(t, j)'
      BY <2>2, <2>3, <2>4, <3>1, StillAhead
    <3>. QED
      BY <1>4, <3>2 DEF Ahead
  <2>6. CASE j = k
    <3>1. PICK c \in 1..LeaveOut : Chooses(t, k, c) /\ c > Top.next
      BY <1>2, <2>2, <2>4, <2>6 DEF AheadAt
    <3>2. Follows(t, k - 1)'
      BY <2>2, <2>3, <2>6 DEF AheadAt, Follows
    <3>3. stack'[k].next = Top.next + 1 /\ ~Chosen(k)'
      BY <1>1, <1>2, <1>3, <1>4 DEF Chosen
    <3>4. c > stack'[k].next \/ c = stack'[k].next
      BY <1>3, <3>1, <3>3, ListedNodes DEF LeaveOut
    <3>5. Chooses(t, k, c)'
      BY <3>1 DEF Chooses
    <3>6. AheadAt(t, k)'
      BY <3>2, <3>3, <3>4, <3>5 DEF AheadAt
    <3>. QED
      BY <1>2, <1>4, <3>6 DEF Ahead
  <2>. QED
    BY <1>2, <2>5, <2>6
<1>11. BestTypes' /\ at' \notin {"off", "done"}
  BY <1>1 DEF AnswerInv, BestTypes
<1>12. Incumbent'
  <2>1. GreedyTotal' = GreedyTotal
    BY <1>1 DEF GreedyTotal, GreedyScore, Score
  <2>2. PICK b : b = best
    OBVIOUS
  <2>3. Value(b)' = Value(b) /\ best' = b
    BY <1>1, <2>2, SameValue
  <2>. QED
    BY <1>1, <2>1, <2>2, <2>3 DEF AnswerInv, Incumbent
<1>13. NothingMissed'
  BY <1>1, <1>10 DEF AnswerInv, BestTypes, NothingMissed
<1>. QED
  BY <1>8, <1>9, <1>11, <1>12, <1>13 DEF AnswerInv

\* A step that leaves the path, the stack and the incumbent as they are.
LEMMA StaysAhead ==
  ASSUME UNCHANGED <<path, stack, base, view, inFlight, bestScore>>,
         at \notin {"off", "given", "try"}, timedOut = FALSE,
         AnswerInv, SearchTypes, NEW t \in Layouts, Better(t)'
  PROVE  /\ Better(t)
         /\ (at = "call" /\ Follows(t, Len(stack))) \/ \E j \in 1..Len(stack) : AheadAt(t, j)'
<1>1. Better(t)
  BY SameValue DEF Better
<1>2. ASSUME NEW j \in 1..Len(stack), AheadAt(t, j) PROVE AheadAt(t, j)'
  <2>1. j \in Nat /\ Chosen(j)
    BY LenProperties DEF Chosen, SearchTypes
  <2>. QED
    BY <1>2, <2>1, StillAhead
<1>3. Ahead(t)
  BY <1>1 DEF AnswerInv, NothingMissed
<1>. QED
  BY <1>1, <1>2, <1>3 DEF Ahead

LEMMA BranchAhead ==
  ASSUME Branch, UNCHANGED <<path, base, view, inFlight>>, SearchTypes, AnswerInv,
         timedOut = FALSE, NEW t \in Layouts, Better(t)
  PROVE  Ahead(t)'
<1>1. PICK k \in Nat : k = Len(stack)
  BY LenProperties DEF SearchTypes
<1>2. /\ at = "call" /\ at' = "try" /\ k # Len(Sorted)
      /\ stack' = Append(stack, CallAt(1))
  BY <1>1 DEF Branch, AllDecided
<1>3. /\ Len(stack') = k + 1
      /\ \A j \in 1..k : stack'[j] = stack[j]
      /\ stack'[k + 1] = CallAt(1)
  <2>1. CallAt(1) \in Calls
    BY CallsMean, ListedNodes DEF LeaveOut
  <2>. QED
    BY <1>1, <1>2, <2>1, AppendProperties DEF SearchTypes
<1>4. CASE Follows(t, k)
  <2>1. k + 1 \in DOMAIN Sorted
    <3>1. /\ Len(stack) <= Len(Sorted) /\ Len(Sorted) \in Nat
          /\ DOMAIN Sorted = 1..Len(Sorted)
      BY SortedOnce DEF SearchTypes
    <3>2. k <= Len(Sorted) /\ k # Len(Sorted)
      BY <1>1, <1>2, <3>1
    <3>3. \A N \in Nat : k <= N /\ k # N => k + 1 \in 1..N
      OBVIOUS
    <3>. QED
      BY <3>1, <3>2, <3>3
  <2>2. PICK c \in 1..LeaveOut : Chooses(t, k + 1, c)
    BY <2>1, Choice
  <2>3. c > 1 \/ c = 1
    BY ListedNodes DEF LeaveOut
  <2>4. stack'[k + 1].next = 1 /\ ~Chosen(k + 1)'
    BY <1>2, <1>3 DEF CallAt, Chosen
  <2>5. Follows(t, (k + 1) - 1)' /\ Chooses(t, k + 1, c)'
    BY <1>4, <2>2 DEF Follows, Chooses
  <2>6. AheadAt(t, k + 1)'
    BY <2>3, <2>4, <2>5 DEF AheadAt
  <2>7. k + 1 \in 1..Len(stack')
    BY <1>3
  <2>. QED
    BY <2>6, <2>7 DEF Ahead
<1>5. CASE \E j \in 1..k : AheadAt(t, j)
  <2>1. PICK j \in 1..k : AheadAt(t, j)
    BY <1>5
  <2>2. j \in Nat /\ Chosen(j) /\ stack'[j] = stack[j]
    BY <1>1, <1>2, <1>3 DEF Chosen
  <2>3. AheadAt(t, j)'
    BY <2>1, <2>2, StillAhead
  <2>4. j \in 1..Len(stack')
    BY <1>3
  <2>. QED
    BY <2>3, <2>4 DEF Ahead
<1>. QED
  BY <1>1, <1>2, <1>4, <1>5 DEF AnswerInv, NothingMissed, Ahead

LEMMA LeaveAhead ==
  ASSUME LeavePodOut, UNCHANGED <<path, base, view, inFlight>>, TypeOK, SearchInv, AnswerInv,
         timedOut = FALSE, NEW t \in Layouts, Better(t)
  PROVE  Ahead(t)'
<1>1. PICK k \in Nat : k = Len(stack)
  BY LenProperties DEF SearchInv, SearchTypes
<1>2. /\ at = "try" /\ at' = "call"
      /\ stack' = [stack EXCEPT ![k].next = LeaveOut]
      /\ \A j \in Top.next..Cardinality(Nodes) : ~Open(j)
      /\ SearchTypes /\ stack # <<>>
  BY <1>1 DEF LeavePodOut, SearchInv, SearchTypes
<1>3. /\ k \in DOMAIN Sorted /\ k \in 1..k
      /\ Pod = Sorted[k] /\ Top = stack[k] /\ Top \in Calls
      /\ path[Pod] = None
  BY <1>1, <1>2, TopOfStack, SortedOnce DEF Pod, Top, SearchInv
<1>4. Len(stack') = k /\ \A j \in 1..(k - 1) : stack'[j] = stack[j]
  <2>1. [Top EXCEPT !.next = LeaveOut] \in Calls
    BY <1>3, ListedNodes DEF Calls, LeaveOut
  <2>2. stack' = [stack EXCEPT ![k] = [Top EXCEPT !.next = LeaveOut]]
    BY <1>2, <1>3
  <2>3. stack \in Seq(Calls) /\ k \in 1..Len(stack)
    BY <1>1, <1>2, <1>3 DEF SearchTypes
  <2>. QED
    BY <1>1, <2>1, <2>2, <2>3, ExceptSeq
<1>5. PICK j \in 1..k : AheadAt(t, j)
  BY <1>1, <1>2 DEF AnswerInv, NothingMissed, Ahead
<1>6. CASE j < k
  <2>1. j \in Nat /\ Chosen(j) /\ stack'[j] = stack[j]
    BY <1>1, <1>4, <1>6 DEF Chosen
  <2>2. AheadAt(t, j)'
    BY <1>5, <2>1, StillAhead
  <2>. QED
    BY <1>4, <2>2 DEF Ahead
<1>7. CASE j = k
  <2>1. PICK c \in 1..LeaveOut : Chooses(t, k, c) /\ c >= Top.next
    BY <1>3, <1>5, <1>7, CallsMean DEF AheadAt
  <2>2. Follows(t, k - 1)
    BY <1>5, <1>7 DEF AheadAt
  <2>3. c = LeaveOut
    <3>. SUFFICES ASSUME c # LeaveOut PROVE FALSE
      OBVIOUS
    <3>1. c \in 1..Cardinality(Nodes) /\ c \in Top.next..Cardinality(Nodes)
      BY <1>3, <2>1, CallsMean, ListedNodes DEF LeaveOut
    <3>2. t[Pod] = Listed[c]
      BY <1>3, <2>1 DEF Chooses
    <3>3. Open(c)
      BY <1>1, <1>2, <2>2, <3>1, <3>2, FeasibleIsOpen DEF Better, AnswerInv
    <3>. QED
      BY <1>2, <3>1, <3>3
  <2>4. t[Sorted[k]] = path[Sorted[k]]
    BY <1>3, <2>1, <2>3 DEF Chooses
  <2>5. Follows(t, k)'
    BY <2>2, <2>4 DEF Follows
  <2>. QED
    BY <1>2, <1>4, <2>5 DEF Ahead
<1>. QED
  BY <1>6, <1>7

LEMMA ReturnAhead ==
  ASSUME Return, UNCHANGED <<path, base, view, inFlight>>, SearchInv, AnswerInv,
         timedOut = FALSE, NEW t \in Layouts, Better(t)
  PROVE  Ahead(t)'
<1>1. PICK k \in Nat : k = Len(stack)
  BY LenProperties DEF SearchInv, SearchTypes
<1>2. /\ at = "return" /\ at' = "return" /\ Top.next = LeaveOut
      /\ stack' = SubSeq(stack, 1, k - 1)
      /\ SearchTypes /\ stack # <<>>
  BY <1>1 DEF Return, SearchInv
<1>3. Len(stack') = k - 1 /\ \A j \in 1..(k - 1) : stack'[j] = stack[j]
  BY <1>1, <1>2, PopProperties DEF SearchTypes
<1>4. PICK j \in 1..k : AheadAt(t, j)
  BY <1>1, <1>2 DEF AnswerInv, NothingMissed, Ahead
<1>5. Chosen(j)
  BY <1>1, <1>2 DEF Chosen
<1>6. j # k
  <2>1. \A c \in 1..LeaveOut : ~(c > LeaveOut)
    BY ListedNodes DEF LeaveOut
  <2>. QED
    BY <1>1, <1>2, <1>4, <1>5, <2>1 DEF AheadAt, Top
<1>7. j \in 1..(k - 1) /\ stack'[j] = stack[j]
  BY <1>3, <1>6
<1>8. AheadAt(t, j)'
  BY <1>4, <1>5, <1>7, StillAhead
<1>. QED
  BY <1>3, <1>7, <1>8 DEF Ahead

LEMMA QuietAnswer ==
  ASSUME IInv, left = {}, SearchInv, AnswerInv, QuietStep, UNCHANGED vars
  PROVE  AnswerInv'
<1>1. /\ UNCHANGED <<path, score, room, view, base, inFlight, to, wake, flags>>
      /\ SearchTypes /\ TrialsHonest /\ TypeOK
      /\ path \in Layouts
  BY DEF QuietStep, GiveUp, StartSearch, TimeOut, Improve, Prune, Branch, LeavePodOut,
         Abandon, Return, EndSearch, search, vars, inputs, SearchInv, SearchTypes, IInv,
         Layouts
<1>2. \A t : Value(t)' = Value(t)
  BY <1>1, SameValue
<1>3. GreedyTotal' = GreedyTotal /\ Value(to) <= GreedyTotal /\ GreedyTotal \in Int
      /\ to \in Layouts
  BY <1>1, GreedyCountsMore DEF GreedyTotal, GreedyScore, Score
<1>4. RoomHonest'
  BY <1>1 DEF AnswerInv, RoomHonest, Remaining, Demand
<1>5. ScoreHonest' /\ score = Value(path) /\ score \in Int
  <2>1. PICK u : u = path
    OBVIOUS
  <2>2. Value(u)' = Value(u) /\ path' = u
    BY <1>1, <1>2, <2>1
  <2>3. Value(path) \in Int /\ score = Value(path)
    BY <1>1, WorthsInt DEF AnswerInv, ScoreHonest
  <2>. QED
    BY <1>1, <2>1, <2>2, <2>3 DEF ScoreHonest
<1>6. CASE UNCHANGED <<best, bestScore>> /\ at \notin {"off", "given"}
  <2>1. Incumbent'
    <3>1. PICK b : b = best
      OBVIOUS
    <3>2. Value(b)' = Value(b) /\ best' = b
      BY <1>2, <1>6, <3>1
    <3>. QED
      BY <1>1, <1>3, <1>6, <3>1, <3>2 DEF AnswerInv, Incumbent
  <2>2. BestTypes'
    BY <1>6 DEF AnswerInv, BestTypes, QuietStep, GiveUp, StartSearch, TimeOut, Improve,
                Prune, Branch, LeavePodOut, Abandon, Return, EndSearch
  <2>3. at' \in {"off", "done"} => stack' = <<>>
    BY <1>6 DEF QuietStep, GiveUp, StartSearch, TimeOut, Improve,
                Prune, Branch, LeavePodOut, Abandon, Return, EndSearch
  <2>4. NothingMissed'
    <3>. SUFFICES ASSUME timedOut' = FALSE, NEW t \in Layouts, Better(t)' PROVE Ahead(t)'
      BY <2>2 DEF NothingMissed, BestTypes
    <3>1. timedOut = FALSE /\ bestScore' = bestScore /\ Better(t)
      BY <1>1, <1>6, SameValue
         DEF QuietStep, GiveUp, StartSearch, TimeOut, Improve, Prune, Branch, LeavePodOut,
             Abandon, Return, EndSearch, Better
    <3>2. CASE Improve
      <4>1. ~(score > bestScore) /\ AllDecided /\ at = "call" /\ UNCHANGED stack
            /\ at' = "return"
        BY <1>5, <1>6, <3>2 DEF Improve, AnswerInv, BestTypes
      <4>2. (at = "call" /\ Follows(t, Len(stack))) \/ \E j \in 1..Len(stack) : AheadAt(t, j)'
        BY <1>1, <3>1, <4>1, StaysAhead
      <4>3. ~Follows(t, Len(stack))
        <5>1. ASSUME Follows(t, Len(stack)) PROVE t = path
          <6>1. \A p \in Pods : t[p] = path[p]
            BY <4>1, <5>1, SortedOnce DEF Follows, AllDecided
          <6>. QED
            BY <1>1, <6>1 DEF Layouts
        <5>. QED
          BY <1>5, <3>1, <4>1, <5>1 DEF Better
      <4>. QED
        BY <4>1, <4>2, <4>3 DEF Ahead
    <3>3. CASE Prune
      <4>1. score + Bound <= bestScore /\ at = "call" /\ UNCHANGED stack /\ at' = "return"
        BY <3>3 DEF Prune
      <4>2. (at = "call" /\ Follows(t, Len(stack))) \/ \E j \in 1..Len(stack) : AheadAt(t, j)'
        BY <1>1, <3>1, <4>1, StaysAhead
      <4>3. Follows(t, Len(stack)) => Bound \in Int /\ Value(t) <= score + Bound
        BY <1>1, <4>1, BoundHolds DEF AnswerInv
      <4>4. Value(t) > bestScore /\ score + Bound <= bestScore
        BY <3>1, <4>1 DEF Better
      <4>5. Value(t) \in Int /\ score \in Int /\ bestScore \in Int
        BY <1>1, <1>5, WorthsInt DEF AnswerInv, BestTypes
      <4>6. ~Follows(t, Len(stack))
        BY <4>3, <4>4, <4>5
      <4>. QED
        BY <4>1, <4>2, <4>6 DEF Ahead
    <3>4. CASE Branch
      BY <1>1, <1>6, <3>1, <3>4, BranchAhead
    <3>5. CASE LeavePodOut
      BY <1>1, <1>6, <3>1, <3>5, LeaveAhead
    <3>6. CASE Return
      BY <1>1, <1>6, <3>1, <3>6, ReturnAhead
    <3>7. CASE EndSearch
      <4>1. stack = <<>> /\ at = "return" /\ UNCHANGED stack
        BY <3>7 DEF EndSearch
      <4>2. Len(stack) = 0
        BY <4>1, EmptySeq
      <4>3. (at = "call" /\ Follows(t, Len(stack))) \/ \E j \in 1..Len(stack) : AheadAt(t, j)'
        BY <1>1, <3>1, <4>1, StaysAhead
      <4>. QED
        BY <4>1, <4>2, <4>3
    <3>8. CASE GiveUp \/ StartSearch \/ TimeOut \/ Abandon
      BY <1>6, <3>1, <3>8 DEF GiveUp, StartSearch, TimeOut, Abandon
    <3>. QED
      BY <3>2, <3>3, <3>4, <3>5, <3>6, <3>7, <3>8 DEF QuietStep
  <2>. QED
    BY <1>4, <1>5, <2>1, <2>2, <2>3, <2>4 DEF AnswerInv
<1>7. CASE GiveUp
  <2>1. at' = "given" /\ BestTypes'
    BY <1>7 DEF GiveUp, incumbent, AnswerInv, BestTypes
  <2>. QED
    BY <1>4, <1>5, <2>1 DEF AnswerInv, Incumbent, NothingMissed
<1>8. CASE StartSearch
  <2>1. /\ at = "off" /\ at' = "call" /\ best' = to /\ bestScore' = GreedyTotal
        /\ UNCHANGED <<stack, timedOut>> /\ stack = <<>>
    BY <1>8 DEF StartSearch, Seed, AnswerInv
  <2>2. WithinCapacity(to)
    BY GreedyAnswer DEF GreedyPlans, IsGreedyPlan, GreedyPlan
  <2>3. BestTypes'
    BY <1>3, <2>1 DEF AnswerInv, BestTypes
  <2>4. Incumbent'
    BY <1>1, <1>3, <2>1, <2>2 DEF Incumbent
  <2>5. \A t \in Layouts : Ahead(t)'
    <3>1. Len(stack') = 0
      BY <2>1, EmptySeq
    <3>2. \A t : Follows(t, 0)'
      BY DEF Follows
    <3>. QED
      BY <2>1, <3>1, <3>2 DEF Ahead
  <2>. QED
    BY <1>4, <1>5, <2>1, <2>3, <2>4, <2>5 DEF AnswerInv, NothingMissed
<1>9. CASE Improve /\ score > bestScore
  <2>1. /\ at = "call" /\ at' = "return" /\ AllDecided
        /\ best' = path /\ bestScore' = score
        /\ UNCHANGED <<stack, timedOut>>
    BY <1>9 DEF Improve
  <2>2. WithinCapacity(path)
    <3>1. Used(path) \subseteq Nodes /\ room \in [Nodes -> [Resources -> Nat]]
      BY <1>1, OnMeans DEF SearchTypes
    <3>. QED
      BY <3>1 DEF WithinCapacity, AnswerInv, RoomHonest
  <2>3. BestTypes'
    BY <1>1, <1>5, <2>1 DEF AnswerInv, BestTypes
  <2>4. bestScore >= GreedyTotal
    BY <1>3, <2>1 DEF AnswerInv, Incumbent, BestTypes
  <2>5. Incumbent'
    <3>1. bestScore' > GreedyTotal
      BY <1>3, <1>5, <1>9, <2>1, <2>4 DEF AnswerInv, BestTypes
    <3>2. WithinCapacity(best)'
      BY <2>1, <2>2 DEF WithinCapacity, Remaining, Demand
    <3>3. bestScore' = Value(best)'
      <4>1. PICK u : u = path
        OBVIOUS
      <4>2. Value(u)' = Value(u) /\ best' = u
        BY <1>2, <2>1, <4>1
      <4>. QED
        BY <1>5, <2>1, <4>1, <4>2
    <3>. QED
      BY <1>3, <3>1, <3>2, <3>3 DEF Incumbent
  <2>6. NothingMissed'
    <3>. SUFFICES ASSUME timedOut' = FALSE, NEW t \in Layouts, Better(t)' PROVE Ahead(t)'
      BY <2>3 DEF NothingMissed, BestTypes
    <3>1. timedOut = FALSE /\ Value(t) > bestScore' /\ Better(t)
      BY <1>1, <1>2, <1>5, <1>9, <2>1, WorthsInt DEF Better, AnswerInv, BestTypes
    <3>2. ASSUME Follows(t, Len(stack)) PROVE FALSE
      <4>1. \A p \in Pods : t[p] = path[p]
        BY <2>1, <3>2, SortedOnce DEF Follows, AllDecided
      <4>2. t = path
        BY <1>1, <4>1 DEF Layouts
      <4>. QED
        BY <1>5, <2>1, <3>1, <4>2
    <3>3. PICK j \in 1..Len(stack) : AheadAt(t, j)
      BY <2>1, <3>1, <3>2 DEF AnswerInv, NothingMissed, Ahead
    <3>4. j \in Nat /\ Chosen(j)
      BY <1>1, <2>1, LenProperties DEF Chosen, SearchTypes
    <3>5. AheadAt(t, j)'
      BY <1>1, <2>1, <3>3, <3>4, StillAhead
    <3>. QED
      BY <2>1, <3>5 DEF Ahead
  <2>. QED
    BY <1>4, <1>5, <2>1, <2>3, <2>5, <2>6 DEF AnswerInv
<1>10. CASE UNCHANGED <<best, bestScore>> /\ at \in {"off", "given"}
  BY <1>7, <1>8, <1>10 DEF QuietStep, GiveUp, StartSearch, TimeOut, Improve, Prune, Branch,
                           LeavePodOut, Abandon, Return, EndSearch
<1>. QED
  BY <1>6, <1>7, <1>8, <1>9, <1>10
     DEF QuietStep, TimeOut, Improve, Prune, Branch, LeavePodOut, Abandon, Return, EndSearch,
         incumbent

--------------------------------------------------------------------------------
LEMMA AnswerStarts == SolverInit => AnswerInv
<1>. SUFFICES ASSUME SolverInit PROVE AnswerInv
  OBVIOUS
<1>. DEFINE nowhere == [p \in Pods |-> None]
<1>1. /\ at = "off" /\ stack = <<>> /\ timedOut = FALSE
      /\ path = nowhere /\ best = nowhere
      /\ score = 0 /\ bestScore = 0 /\ room = Capacity
  BY DEF SolverInit, ExactInit
<1>2. IInv
  BY Initially DEF SolverInit
<1>3. nowhere \in Layouts
  BY DEF Layouts
<1>4. Used(path) = {}
  BY <1>1 DEF Used
<1>5. RoomHonest
  <2>1. \A n \in Nodes : On(path, n) = {}
    BY <1>1, ContractAssumption DEF On
  <2>2. ASSUME NEW n \in Nodes, NEW r \in Resources PROVE room[n][r] = Remaining(path, n, r)
    <3>1. Demand(On(path, n), r) = 0
      BY <2>1, DemandEmpty
    <3>2. Capacity[n][r] \in Nat
      BY ContractAssumption
    <3>. QED
      BY <1>1, <3>1, <3>2 DEF Remaining
  <2>. QED
    BY <2>2 DEF RoomHonest
<1>. HIDE DEF nowhere
<1>6. BestTypes
  <2>1. best \in Layouts
    BY <1>1, <1>3
  <2>2. bestScore \in Int
    BY <1>1
  <2>3. timedOut \in BOOLEAN
    BY <1>1
  <2>. QED
    BY <2>1, <2>2, <2>3 DEF BestTypes
<1>7. ScoreHonest
  BY <1>1, <1>2, <1>3, <1>4, ValueNone DEF ScoreHonest, IInv
<1>. QED
  BY <1>1, <1>5, <1>6, <1>7 DEF AnswerInv, Incumbent, NothingMissed

\* While greedy runs there is no search; later nothing the search reads changes
\* but by its own steps.
LEMMA AnswerKeeps ==
  SolverInv /\ SearchInv /\ AnswerInv /\ [SolverNext]_solverVars => AnswerInv'
<1>. SUFFICES ASSUME SolverInv, SearchInv, AnswerInv, [SolverNext]_solverVars
              PROVE  AnswerInv'
  OBVIOUS
<1>1. IInv /\ TypeOK
  BY DEF SolverInv, IInv
<1>2. ASSUME UNCHANGED <<exactVars, view, base>>
      PROVE  /\ BestTypes' /\ RoomHonest' /\ ScoreHonest'
             /\ (at' \in {"off", "done"} => stack' = <<>>)
  <2>1. UNCHANGED <<at, stack, path, score, room, best, bestScore, timedOut, view, base>>
    BY <1>2 DEF exactVars, search, incumbent
  <2>2. PICK u : u = path
    OBVIOUS
  <2>3. Value(u)' = Value(u) /\ path' = u
    BY <2>1, <2>2, SameValue
  <2>. QED
    BY <2>1, <2>2, <2>3
       DEF AnswerInv, BestTypes, RoomHonest, ScoreHonest, Remaining, Demand
<1>3. CASE Next /\ UNCHANGED exactVars
  <2>1. at = "off" /\ at' = "off" /\ UNCHANGED <<view, base>>
    BY <1>3 DEF Next, Consider, inputs, SearchInv, exactVars
  <2>. QED
    BY <1>2, <1>3, <2>1 DEF AnswerInv, Incumbent, NothingMissed
<1>4. CASE left = {} /\ ExactStep /\ UNCHANGED vars
  BY <1>1, <1>4, TryAnswer, UndoAnswer, QuietAnswer DEF ExactStep, QuietStep
<1>5. CASE UNCHANGED <<vars, exactVars>>
  <2>1. /\ UNCHANGED <<exactVars, view, base, inFlight, to, wake, flags>>
        /\ UNCHANGED <<at, stack, path, best, bestScore, timedOut>>
    BY <1>5 DEF vars, inputs, exactVars, search, incumbent
  <2>2. GreedyTotal' = GreedyTotal
    BY <2>1 DEF GreedyTotal, GreedyScore, Score
  <2>3. Incumbent'
    <3>1. PICK b : b = best
      OBVIOUS
    <3>2. Value(b)' = Value(b) /\ best' = b
      BY <2>1, <3>1, SameValue
    <3>. QED
      BY <2>1, <2>2, <3>1, <3>2 DEF AnswerInv, Incumbent, WithinCapacity, Remaining, Demand
  <2>4. NothingMissed'
    <3>. SUFFICES ASSUME at \notin {"off", "given"}, ~timedOut,
                         NEW t \in Layouts, Better(t)'
                  PROVE  Ahead(t)'
      BY <2>1 DEF NothingMissed
    <3>1. Better(t)
      BY <2>1, SameValue DEF Better
    <3>2. Ahead(t)
      BY <3>1 DEF AnswerInv, NothingMissed
    <3>. QED
      BY <2>1, <3>2 DEF Ahead, AheadAt, Follows, Chooses, Chosen
  <2>. QED
    BY <1>2, <2>1, <2>3, <2>4 DEF AnswerInv
<1>. QED
  BY <1>3, <1>4, <1>5 DEF SolverNext, solverVars, FallBack

LEMMA AnswerAlways == SolverSpec => [](SolverInv /\ SearchInv /\ AnswerInv)
  BY AnswerStarts, AnswerKeeps, SolverAlways, SearchAlways, PTL DEF SolverSpec

--------------------------------------------------------------------------------
\* The stack never holds more calls than there are pods, and every variable of the
\* search keeps its type, wherever it is cut short (exact.go:212-310).
THEOREM SearchTyped == SolverSpec => []ExactTypeOK
<1>1. SearchInv /\ AnswerInv /\ SolverInv => ExactTypeOK
  <2>. SUFFICES ASSUME SearchInv, AnswerInv, SolverInv PROVE ExactTypeOK
    OBVIOUS
  <2>1. SearchTypes /\ BestTypes /\ TypeOK /\ path \in Layouts
    BY DEF SearchInv, SearchTypes, AnswerInv, SolverInv, IInv, Layouts
  <2>2. score \in Int
    BY <2>1, WorthsInt DEF AnswerInv, ScoreHonest
  <2>3. stack \in [1..Len(stack) -> Calls] /\ Len(stack) \in Nat
    BY <2>1, LenProperties DEF SearchTypes
  <2>4. Len(Sorted) = Cardinality(Pods)
    <3>1. Cardinality(Pods) \in Nat
      BY GreedyAssumption, FS_CardinalityType
    <3>. QED
      BY <3>1, ExactAssumption
  <2>5. room \in [Nodes -> [Resources -> Int]]
    BY <2>1 DEF SearchTypes
  <2>. QED
    BY <2>1, <2>2, <2>3, <2>4, <2>5 DEF ExactTypeOK, SearchTypes, BestTypes, Layouts
<1>. QED
  BY <1>1, AnswerAlways, PTL

\* However deep the search is and whatever it undid: its capacities and its score
\* are those of the path it is on (exact.go:284-310).
THEOREM PathIsHonest == SolverSpec => []PathHonest
<1>1. SearchInv /\ AnswerInv => PathHonest
  BY DEF SearchInv, AnswerInv, RoomHonest, ScoreHonest, PathHonest
<1>. QED
  BY <1>1, AnswerAlways, PTL

\* The incumbent is never too big and never worth less than the greedy seed, by the
\* search's own scores, also when the time runs out (exact.go:40-41).
THEOREM AtLeastGreedy == SolverSpec => []IncumbentSound
<1>1. SolverInv /\ AnswerInv => IncumbentSound
  <2>. SUFFICES ASSUME SolverInv, AnswerInv, at \notin {"off", "given"}
                PROVE  WithinCapacity(best) /\ Value(best) >= Value(to)
    BY DEF IncumbentSound
  <2>1. IInv /\ TypeOK /\ best \in Layouts /\ Incumbent
    BY DEF SolverInv, IInv, AnswerInv, BestTypes
  <2>2. /\ Value(to) <= GreedyTotal /\ GreedyTotal \in Int
        /\ Value(to) \in Int /\ Value(best) \in Int
    BY <2>1, GreedyCountsMore, WorthsInt
  <2>. QED
    BY <2>1, <2>2 DEF Incumbent
<1>. QED
  BY <1>1, AnswerAlways, PTL

\* With the time to finish, no feasible placement of the pods is worth more than the
\* score the search ends with: neither the pruning nor the order of the trials, nor
\* the way they are undone, loses one (exact.go:212-310).
THEOREM NothingBetter == SolverSpec => []Exhaustive
<1>1. SolverInv /\ SearchInv /\ AnswerInv => Exhaustive
  <2>. SUFFICES ASSUME SolverInv, SearchInv, AnswerInv, at = "done", timedOut = FALSE
                PROVE  /\ \A t \in Placements(Pods, view) :
                            Feasible(t, view, MaxPowerOns - inFlight) => Value(t) <= bestScore
                       /\ GreedyTotal = Value(to) => bestScore = Value(best)
    BY DEF Exhaustive, AnswerInv, BestTypes
  <2>1. IInv /\ TypeOK /\ BestTypes /\ Incumbent /\ NothingMissed /\ stack = <<>>
    BY DEF SolverInv, IInv, AnswerInv
  <2>2. Placements(Pods, view) = Layouts
    BY <2>1 DEF Placements, Layouts, TypeOK
  <2>3. Len(stack) = 0
    BY <2>1, EmptySeq
  <2>4. ASSUME NEW t \in Layouts, Feasible(t, view, MaxPowerOns - inFlight)
        PROVE  Value(t) <= bestScore
    <3>1. ~Ahead(t)
      BY <2>3 DEF Ahead
    <3>2. ~Better(t)
      BY <2>1, <3>1 DEF NothingMissed
    <3>. QED
      BY <2>1, <2>4, <3>2, WorthsInt DEF Better, BestTypes
  <2>5. GreedyTotal = Value(to) => bestScore = Value(best)
    BY <2>1 DEF Incumbent
  <2>. QED
    BY <2>2, <2>4, <2>5
<1>. QED
  BY <1>1, AnswerAlways, PTL

--------------------------------------------------------------------------------
\* The algorithm that runs is the one selected, or the heuristic in its place; and
\* what made it give way still holds.
HandOver ==
  /\ algorithm \in Algorithms
  /\ regime # algorithm =>
       /\ algorithm = "heuristic"
       /\ left = {}
       /\ Used(to) = {} \/ GreedyTotal < 0

LEMMA HandOverKeeps ==
  SolverInv /\ SearchInv /\ AnswerInv /\ HandOver /\ [SolverNext]_solverVars => HandOver'
<1>. SUFFICES ASSUME SolverInv, SearchInv, AnswerInv, HandOver, [SolverNext]_solverVars
              PROVE  HandOver'
  OBVIOUS
<1>1. CASE UNCHANGED <<vars, regime, algorithm>>
  <2>1. UNCHANGED <<to, wake, flags, base, left, regime, algorithm>>
    BY <1>1 DEF vars, inputs
  <2>2. GreedyTotal' = GreedyTotal
    BY <2>1 DEF GreedyTotal, GreedyScore, Score
  <2>. QED
    BY <2>1, <2>2 DEF HandOver
<1>2. CASE Next /\ UNCHANGED <<regime, algorithm>>
  <2>1. left # {}
    BY <1>2 DEF Next, Consider
  <2>. QED
    BY <1>2, <2>1 DEF HandOver
<1>3. CASE FallBack
  <2>1. /\ SearchDone /\ Used(ExactPlan.to) = {}
        /\ algorithm' = "heuristic"
        /\ UNCHANGED <<to, wake, flags, base, left, regime>>
    BY <1>3 DEF FallBack, vars, inputs
  <2>2. left' = {}
    BY <2>1 DEF SearchDone, SearchInv
  <2>3. Used(to) = {} \/ GreedyTotal < 0
    <3>1. CASE at = "given"
      BY <2>1, <3>1 DEF ExactPlan, GreedyPlan
    <3>2. CASE at = "done"
      <4>1. Used(best) = {}
        BY <2>1, <3>2 DEF ExactPlan
      <4>2. IInv /\ TypeOK /\ best \in Layouts /\ Incumbent
        BY DEF SolverInv, IInv, AnswerInv, BestTypes
      <4>3. Value(best) = 0 /\ GreedyTotal \in Int
        BY <4>1, <4>2, ValueNone, GreedyCountsMore
      <4>. QED
        BY <3>2, <4>1, <4>2, <4>3 DEF Incumbent
    <3>. QED
      BY <2>1, <3>1, <3>2 DEF SearchDone
  <2>4. GreedyTotal' = GreedyTotal
    BY <2>1 DEF GreedyTotal, GreedyScore, Score
  <2>. QED
    BY <2>1, <2>2, <2>3, <2>4 DEF HandOver, Algorithms
<1>. QED
  BY <1>1, <1>2, <1>3 DEF SolverNext, solverVars

LEMMA HandOverAlways == SolverSpec => []HandOver
<1>1. SolverInit => HandOver
  BY DEF SolverInit, HandOver
<1>. QED
  BY <1>1, HandOverKeeps, AnswerAlways, PTL DEF SolverSpec

\* The heuristic takes over only when greedy could place nothing, or what it could
\* place the policy's penalties make worth less than nothing (solver.go:110-114,
\* exact.go:243).
THEOREM FallBackJustified == SolverSpec => []FallsBackOnlyAtALoss
<1>1. HandOver => FallsBackOnlyAtALoss
  BY DEF HandOver, FallsBackOnlyAtALoss
<1>. QED
  BY <1>1, HandOverAlways, PTL

\* What the planner is told is what it relies on, whichever algorithm answers: this
\* is the contract the planner's own model takes plans from (solver.go:76-128).
THEOREM ContractKept == SolverSpec => []SolverKeepsContract
<1>1. SolverInv /\ SearchInv /\ AnswerInv /\ HandOver /\ HeuristicKeepsContract
        => SolverKeepsContract
  <2>. DEFINE slack == MaxPowerOns - inFlight
  <2>. SUFFICES ASSUME SolverInv, SearchInv, AnswerInv, HandOver, HeuristicKeepsContract,
                       Finished
                PROVE  Answer \in Plans(algorithm, Pods, view, slack)
    BY DEF SolverKeepsContract
  <2>1. IInv /\ TypeOK /\ left = {}
    BY DEF SolverInv, IInv, Finished
  <2>2. GreedyPlan \in GreedyPlans(Pods, view, slack) /\ GreedyPlan.to = to
    BY <2>1, GreedyAnswer DEF GreedyPlan
  <2>3. CASE algorithm = "greedy"
    BY <2>2, <2>3 DEF Answer, Plans
  <2>4. CASE algorithm = "exact"
    <3>1. ExactPlan \in ExactPlans(Pods, view, slack)
      <4>1. CASE at = "given"
        BY <2>2, <4>1 DEF ExactPlan, ExactPlans
      <4>2. CASE at = "done"
        <5>1. ExactPlan = [to |-> best, wake |-> {p \in Pods : best[p] \in Offline(view)}]
          BY <4>2 DEF ExactPlan, Flagged
        <5>2. CASE best = to
          BY <2>2, <5>1, <5>2 DEF ExactPlans
        <5>3. CASE best # to
          <6>1. Feasible(best, view, slack)
            BY <4>2, <5>3 DEF SearchInv, BestWithinBudget, AnswerInv, Incumbent, Feasible
          <6>2. best \in Placements(Pods, view)
            BY <2>1 DEF AnswerInv, BestTypes, Layouts, Placements, TypeOK
          <6>. QED
            BY <5>1, <6>1, <6>2 DEF ExactPlans
        <5>. QED
          BY <5>2, <5>3
      <4>. QED
        BY <2>4, <4>1, <4>2 DEF Finished, SearchDone
    <3>. QED
      BY <2>4, <3>1 DEF Answer, Plans
  <2>5. CASE algorithm = "heuristic"
    <3>1. IF Small(GreedyPlan) THEN HeuristicPlan = GreedyPlan
                               ELSE HeuristicPlan \in SearchedPlans(GreedyPlan, view)
      BY <2>5 DEF Finished, LocalDone, HeuristicKeepsContract
    <3>2. HeuristicPlan \in HeuristicPlans(Pods, view, slack)
      BY <2>2, <3>1 DEF HeuristicPlans
    <3>. QED
      BY <2>5, <3>2 DEF Answer, Plans
  <2>. QED
    BY <2>3, <2>4, <2>5 DEF HandOver, Algorithms
<1>. QED
  BY <1>1, AnswerAlways, HandOverAlways, LocalSearch, PTL
================================================================================
