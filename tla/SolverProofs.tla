------------------------------ MODULE SolverProofs ------------------------------
(****************************************************************************)
(* The solvers that start from the greedy plan, for any finite sets of      *)
(* machines and pods: greedy's own invariant still holds in their company,  *)
(* and the local search of the heuristic returns what the planner relies    *)
(* on, wherever the deadline stops it and however its accounts go wrong.    *)
(*                                                                          *)
(* LocalInv is inductive: the search moves only the pods greedy placed, and *)
(* never takes one off the machines.                                        *)
(****************************************************************************)
EXTENDS Solver, GreedyProofs, SequenceTheorems

\* The pods greedy placed are on some machine, the others on none.
SamePods ==
  /\ place \in [Pods -> Nodes \cup {None}]
  /\ \A p \in Pods : place[p] = None <=> to[p] = None
  /\ inUse \subseteq Nodes

\* What each pass of a round still has to look at are pods greedy placed.
Cursors ==
  /\ pass = "consolidate" => \A n \in DOMAIN loads : loads[n].pods \subseteq Movable
  /\ pass = "swap" => /\ home \in Nodes
                      /\ uids \in Seq(Movable) /\ uids # <<>>
                      /\ partners \in Seq(Movable)
  /\ pass = "relocate" => movers \subseteq Movable

LocalInv ==
  /\ pass \in {"off", "given", "round", "consolidate", "swap", "relocate", "done"}
  /\ pass # "off" => left = {}
  /\ pass = "given" => Cardinality(Movable) < 2
  /\ Searching => SamePods /\ Cursors /\ Cardinality(Movable) >= 2

SolverInv == IInv /\ LocalInv

--------------------------------------------------------------------------------
LEMMA SolverStarts == SolverInit => SolverInv
<1>. SUFFICES ASSUME SolverInit PROVE SolverInv
  OBVIOUS
<1>1. IInv
  BY Initially DEF SolverInit
<1>2. LocalInv
  BY DEF SolverInit, HeuristicInit, LocalInv, Searching
<1>. QED
  BY <1>1, <1>2 DEF SolverInv

\* The pods greedy placed, by the type of the plan.
LEMMA MovableMeans ==
  ASSUME TypeOK
  PROVE  /\ Movable \subseteq Pods
         /\ \A p \in Movable : to[p] \in Nodes
         /\ \A p \in Pods : p \in Movable <=> to[p] # None
         /\ IsFiniteSet(Movable)
<1>1. Movable \subseteq Pods /\ \A p \in Pods : p \in Movable <=> to[p] # None
  BY DEF Movable
<1>2. \A p \in Movable : to[p] \in Nodes
  BY <1>1 DEF TypeOK
<1>3. IsFiniteSet(Movable)
  BY <1>1, FS_Subset, GreedyAssumption
<1>. QED
  BY <1>1, <1>2, <1>3

\* Pods that moved to machines keep the division.
LEMMA RelocateKeeps ==
  ASSUME TypeOK, SamePods, NEW ps \in SUBSET Movable, NEW from,
         NEW target \in [ps -> Nodes], Relocate(ps, from, target), UNCHANGED to
  PROVE  SamePods'
<1>1. place' = [p \in Pods |-> IF p \in ps THEN target[p] ELSE place[p]]
  BY DEF Relocate
<1>2. \A p \in ps : to[p] # None /\ target[p] \in Nodes /\ target[p] # None
  BY MovableMeans, ContractAssumption
<1>3. place' \in [Pods -> Nodes \cup {None}]
  BY <1>1, <1>2 DEF SamePods
<1>4. \A p \in Pods : place'[p] = None <=> to[p] = None
  BY <1>1, <1>2 DEF SamePods
<1>5. inUse' \subseteq Nodes
  BY <1>2 DEF SamePods, Relocate
<1>. QED
  BY <1>3, <1>4, <1>5 DEF SamePods

LEMMA SwapKeeps ==
  ASSUME TypeOK, SamePods, NEW p \in Movable, NEW q \in Movable, home \in Nodes,
         ApplySwap(p, q, place[q]), UNCHANGED to
  PROVE  SamePods'
<1>1. place' = [place EXCEPT ![p] = place[q], ![q] = home]
  BY DEF ApplySwap
<1>2. /\ p \in Pods /\ to[p] # None
      /\ q \in Pods /\ to[q] # None
      /\ place[q] \in Nodes
      /\ home # None
  BY MovableMeans, ContractAssumption DEF SamePods
<1>3. inUse' = inUse
  BY DEF ApplySwap
<1>. QED
  BY <1>1, <1>2, <1>3, ContractAssumption DEF SamePods

--------------------------------------------------------------------------------
LEMMA LocalStep ==
  ASSUME TypeOK, LocalInv, HeuristicStep, UNCHANGED vars, left = {}
  PROVE  LocalInv'
<1>. USE DEF vars, inputs
<1>0. UNCHANGED to /\ Movable' = Movable /\ left' = {}
  BY DEF Movable
<1>1. CASE KeepGreedy
  BY <1>0, <1>1 DEF KeepGreedy, LocalInv, Searching
<1>2. CASE StartLocal
  <2>1. SamePods'
    BY <1>0, <1>2, Names DEF StartLocal, SamePods, TypeOK
  <2>. QED
    BY <1>0, <1>2, <2>1 DEF StartLocal, LocalInv, Searching, Cursors
<1>3. CASE Expire
  BY <1>0, <1>3 DEF Expire, LocalInv, Searching, Cursors, SamePods, layout, cursors
<1>4. CASE StartRound
  <2>1. SamePods' /\ Searching
    BY <1>0, <1>4 DEF StartRound, LocalInv, Searching, SamePods, layout
  <2>2. \A n \in DOMAIN loads' : loads'[n].pods \subseteq Movable
    <3>1. SamePods
      BY <1>4 DEF StartRound, LocalInv, Searching
    <3>2. \A n \in DOMAIN loads' : n \in inUse /\ loads'[n].pods = On(place, n)
      BY <1>4 DEF StartRound
    <3>3. \A n \in Nodes : On(place, n) = {p \in Pods : place[p] = n}
      BY <3>1 DEF SamePods, On
    <3>4. \A n \in Nodes : On(place, n) \subseteq Movable
      BY <3>1, <3>3, MovableMeans, ContractAssumption DEF SamePods
    <3>. QED
      BY <3>1, <3>2, <3>4 DEF SamePods
  <2>. QED
    BY <1>0, <1>4, <2>1, <2>2 DEF StartRound, LocalInv, Searching, Cursors
<1>5. ASSUME NEW n \in Nodes, Consolidate(n) PROVE LocalInv'
  <2>1. /\ pass = "consolidate" /\ pass' = pass /\ Searching /\ n \in DOMAIN loads
        /\ loads' = [m \in DOMAIN loads \ {n} |-> loads[m]]
    BY <1>5 DEF Consolidate, Searching
  <2>2. SamePods /\ Cursors /\ Cardinality(Movable) >= 2
    BY <2>1 DEF LocalInv
  <2>3. loads[n].pods \subseteq Movable
    BY <2>1, <2>2 DEF Cursors
  <2>4. SamePods'
    <3>1. CASE UNCHANGED layout
      BY <1>0, <2>2, <3>1 DEF SamePods, layout
    <3>2. ASSUME NEW target \in [loads[n].pods -> Nodes], Relocate(loads[n].pods, n, target)
          PROVE  SamePods'
      BY <1>0, <2>2, <2>3, <3>2, RelocateKeeps
    <3>. QED
      BY <1>5, <3>1, <3>2 DEF Consolidate
  <2>5. Cursors'
    BY <1>0, <2>1, <2>2 DEF Cursors
  <2>. QED
    BY <1>0, <2>1, <2>2, <2>4, <2>5 DEF LocalInv, Searching
<1>6. CASE StartSwaps
  <2>1. SamePods /\ Cardinality(Movable) >= 2 /\ UNCHANGED layout /\ pass' = "swap"
    BY <1>6 DEF StartSwaps, LocalInv, Searching
  <2>2. PICK order \in Orders(Movable) :
          uids' = order /\ home' = place[order[1]] /\ partners' = Tail(order)
    BY <1>6 DEF StartSwaps
  <2>3. /\ order \in Seq(Movable) /\ order # <<>>
        /\ order[1] \in Movable /\ Tail(order) \in Seq(Movable)
    <3>1. order \in [1..Cardinality(Movable) -> Movable] /\ Cardinality(Movable) \in Nat
      BY MovableMeans, FS_CardinalityType DEF Orders
    <3>2. order \in Seq(Movable) /\ Len(order) = Cardinality(Movable)
      BY <3>1, IsASeq, LenProperties
    <3>. QED
      BY <2>1, <3>1, <3>2, HeadTailProperties, EmptySeq
  <2>4. SamePods' /\ home' \in Nodes
    BY <1>0, <2>1, <2>2, <2>3, MovableMeans DEF SamePods, layout
  <2>. QED
    BY <1>0, <2>1, <2>2, <2>3, <2>4 DEF LocalInv, Searching, Cursors
<1>7. CASE TrySwap
  <2>1. /\ pass = "swap" /\ pass' = pass /\ Searching /\ partners # <<>>
        /\ partners' = Tail(partners) /\ UNCHANGED <<uids, home>>
    BY <1>7 DEF TrySwap, Searching
  <2>2. SamePods /\ Cursors /\ Cardinality(Movable) >= 2
    BY <2>1 DEF LocalInv
  <2>3. /\ uids \in Seq(Movable) /\ uids # <<>> /\ partners \in Seq(Movable)
        /\ home \in Nodes
    BY <2>1, <2>2 DEF Cursors
  <2>4. Head(uids) \in Movable /\ Head(partners) \in Movable /\ Tail(partners) \in Seq(Movable)
    BY <2>1, <2>3, HeadTailProperties
  <2>5. SamePods'
    <3>1. CASE UNCHANGED layout
      BY <1>0, <2>2, <3>1 DEF SamePods, layout
    <3>2. CASE ApplySwap(Head(uids), Head(partners), place[Head(partners)])
      BY <1>0, <2>2, <2>3, <2>4, <3>2, SwapKeeps
    <3>. QED
      BY <1>7, <3>1, <3>2 DEF TrySwap
  <2>. QED
    BY <1>0, <2>1, <2>2, <2>3, <2>4, <2>5 DEF LocalInv, Searching, Cursors
<1>8. CASE NextUid
  <2>1. /\ pass = "swap" /\ pass' = pass /\ Searching /\ Len(uids) > 1 /\ UNCHANGED layout
        /\ uids' = Tail(uids) /\ home' = place[uids[2]] /\ partners' = Tail(Tail(uids))
    BY <1>8 DEF NextUid, Searching
  <2>2. SamePods /\ uids \in Seq(Movable) /\ Cardinality(Movable) >= 2
    BY <2>1 DEF LocalInv, Cursors
  <2>3. /\ Tail(uids) \in Seq(Movable) /\ Tail(uids) # <<>>
        /\ Tail(Tail(uids)) \in Seq(Movable)
        /\ uids[2] \in Movable
    <3>1. uids # <<>> /\ Len(uids) \in Nat
      BY <2>1, <2>2, EmptySeq
    <3>2. Tail(uids) \in Seq(Movable) /\ Len(Tail(uids)) = Len(uids) - 1
      BY <2>2, <3>1, HeadTailProperties
    <3>3. Tail(uids) # <<>>
      <4>1. Len(Tail(uids)) > 0
        BY <2>1, <3>1, <3>2
      <4>2. Len(<< >>) = 0
        BY EmptySeq
      <4>. QED
        BY <4>1, <4>2
    <3>4. uids[2] \in Movable
      <4>1. 2 \in 1..Len(uids)
        BY <2>1, <3>1
      <4>. QED
        BY <2>2, <4>1, ElementOfSeq
    <3>. QED
      BY <3>2, <3>3, <3>4, HeadTailProperties
  <2>4. SamePods' /\ home' \in Nodes
    BY <1>0, <2>1, <2>2, <2>3, MovableMeans DEF SamePods, layout
  <2>. QED
    BY <1>0, <2>1, <2>2, <2>3, <2>4 DEF LocalInv, Searching, Cursors
<1>9. CASE StartMoves
  BY <1>0, <1>9 DEF StartMoves, LocalInv, Searching, SamePods, Cursors, layout
<1>10. ASSUME NEW p \in Pods, MovePod(p) PROVE LocalInv'
  <2>1. /\ pass = "relocate" /\ pass' = pass /\ Searching
        /\ p \in movers /\ movers' = movers \ {p}
    BY <1>10 DEF MovePod, Searching
  <2>2. SamePods /\ movers \subseteq Movable /\ Cardinality(Movable) >= 2
    BY <2>1 DEF LocalInv, Cursors
  <2>3. SamePods'
    <3>1. CASE UNCHANGED layout
      BY <1>0, <2>2, <3>1 DEF SamePods, layout
    <3>2. ASSUME NEW n \in Nodes, Relocate({p}, place[p], [q \in {p} |-> n]) PROVE SamePods'
      <4>1. [q \in {p} |-> n] \in [{p} -> Nodes] /\ {p} \in SUBSET Movable
        BY <2>1, <2>2, <3>2
      <4>. QED
        BY <1>0, <2>2, <3>2, <4>1, RelocateKeeps
    <3>3. \A choices \in SUBSET Nodes : FirstBest(choices) \subseteq Nodes
      BY DEF FirstBest
    <3>. QED
      BY <1>10, <3>1, <3>2, <3>3 DEF MovePod, Options
  <2>. QED
    BY <1>0, <2>1, <2>2, <2>3 DEF LocalInv, Searching, Cursors
<1>11. CASE EndRound
  BY <1>0, <1>11 DEF EndRound, LocalInv, Searching, SamePods, Cursors, layout
<1>12. CASE EndLocal
  BY <1>0, <1>12 DEF EndLocal, LocalInv, Searching, SamePods, Cursors, layout
<1>. QED
  BY <1>1, <1>2, <1>3, <1>4, <1>5, <1>6, <1>7, <1>8, <1>9, <1>10, <1>11, <1>12
  DEF HeuristicStep

LEMMA SolverKeeps == SolverInv /\ [SolverNext]_solverVars => SolverInv'
<1>. SUFFICES ASSUME SolverInv, [SolverNext]_solverVars PROVE SolverInv'
  OBVIOUS
<1>. USE DEF SolverInv
<1>1. TypeOK
  BY DEF IInv
<1>2. CASE Next /\ UNCHANGED heuristicVars
  <2>1. IInv'
    BY <1>2, Inductive
  <2>2. pass = "off"
    <3>1. left # {}
      BY <1>2 DEF Next, Consider
    <3>. QED
      BY <3>1 DEF LocalInv
  <2>. QED
    BY <1>2, <2>1, <2>2 DEF LocalInv, heuristicVars, Searching
<1>3. CASE UNCHANGED <<vars, heuristicVars>>
  <2>1. IInv'
    BY <1>3, Inductive
  <2>2. UNCHANGED <<pass, place, inUse, loads, uids, home, partners, movers, left, to>>
    BY <1>3 DEF heuristicVars, layout, cursors, vars
  <2>. QED
    BY <2>1, <2>2 DEF LocalInv, Searching, SamePods, Cursors, Movable
<1>4. CASE left = {} /\ HeuristicStep /\ UNCHANGED vars
  BY <1>1, <1>4, Inductive, LocalStep
<1>. QED
  BY <1>2, <1>3, <1>4 DEF SolverNext, FallBack, solverVars

LEMMA SolverAlways == SolverSpec => []SolverInv
  BY SolverStarts, SolverKeeps, PTL DEF SolverSpec

--------------------------------------------------------------------------------
\* A plan is small iff fewer than two pods have a machine.
LEMMA SmallMeans ==
  ASSUME TypeOK
  PROVE  Small(GreedyPlan) <=> Cardinality(Movable) < 2
<1>1. DOMAIN to = Pods /\ GreedyPlan.to = to
  BY DEF TypeOK, GreedyPlan
<1>2. On(to, None) = Pods \ Movable
  BY <1>1 DEF On, Movable
<1>3. Pods \cap Movable = Movable
  BY MovableMeans
<1>4. /\ IsFiniteSet(Pods)
      /\ Cardinality(Pods) \in Nat /\ Cardinality(Movable) \in Nat
      /\ Cardinality(Pods \ Movable) = Cardinality(Pods) - Cardinality(Movable)
  BY <1>3, MovableMeans, GreedyAssumption, FS_CardinalityType, FS_Difference
<1>. QED
  BY <1>1, <1>2, <1>4 DEF Small

LEMMA LocalPlan ==
  ASSUME SolverInv, pass = "done"
  PROVE  HeuristicPlan \in SearchedPlans(GreedyPlan, view)
<1>1. TypeOK /\ Charged /\ SamePods
  BY DEF SolverInv, IInv, LocalInv, Searching
<1>2. /\ DOMAIN to = Pods /\ DOMAIN place = Pods /\ DOMAIN view = Nodes
      /\ GreedyPlan.to = to
  BY <1>1 DEF TypeOK, SamePods, GreedyPlan
<1>3. place \in Placements(Pods, view) /\ On(place, None) = On(to, None)
  BY <1>1, <1>2 DEF Placements, On, SamePods
<1>4. {p \in Movable : Asks(p)} =
        {p \in Pods : place[p] \in Cold(view) \ (Used(to) \cap Cold(view))}
  <2>1. ASSUME NEW p \in Movable
        PROVE  Asks(p) <=> place[p] \in Cold(view) \ (Used(to) \cap Cold(view))
    <3>1. place[p] \in Nodes
      BY <1>1, MovableMeans DEF SamePods
    <3>. QED
      BY <1>1, <3>1, NeedsWakeMeans DEF Asks
  <2>2. ASSUME NEW p \in Pods, p \notin Movable PROVE place[p] \notin Cold(view)
    BY <1>1, <2>2, Names, MovableMeans, ContractAssumption DEF SamePods
  <2>. QED
    BY <1>1, <2>1, <2>2, MovableMeans
<1>. QED
  BY <1>2, <1>3, <1>4 DEF HeuristicPlan, SearchedPlans

\* Whatever the local search did before the deadline, its plan is one the planner
\* relies on: the greedy plan if that has fewer than two assignments, else the
\* same pods on other machines, and no second wake for a machine greedy woke
\* (heuristic.go:51-98, 486-525).
THEOREM LocalSearch == SolverSpec => []HeuristicKeepsContract
<1>1. SolverInv => HeuristicKeepsContract
  <2>. SUFFICES ASSUME SolverInv, pass \in {"given", "done"}
                PROVE  IF Small(GreedyPlan) THEN HeuristicPlan = GreedyPlan
                                            ELSE HeuristicPlan \in SearchedPlans(GreedyPlan, view)
    BY DEF HeuristicKeepsContract
  <2>1. Small(GreedyPlan) <=> Cardinality(Movable) < 2
    BY SmallMeans DEF SolverInv, IInv
  <2>2. Cardinality(Movable) \in Nat
    BY MovableMeans, FS_CardinalityType DEF SolverInv, IInv
  <2>3. CASE pass = "given"
    BY <2>1, <2>3 DEF SolverInv, LocalInv, HeuristicPlan
  <2>4. CASE pass = "done"
    BY <2>1, <2>2, <2>4, LocalPlan DEF SolverInv, LocalInv, Searching
  <2>. QED
    BY <2>3, <2>4
<1>. QED
  BY <1>1, SolverAlways, PTL

\* The solvers that start from greedy leave its plan alone: capacity, budget and
\* wakes of the seed are those proved for greedy.
THEOREM SeedUndisturbed == SolverSpec => []IInv
<1>1. SolverInv => IInv
  BY DEF SolverInv
<1>. QED
  BY <1>1, SolverAlways, PTL

--------------------------------------------------------------------------------
\* The accounts of the local search.  What a sum over the machines is when only one
\* of them, or two that even out, count.
LEMMA SumAtOne ==
  ASSUME NEW f, NEW x \in Nodes, f[x] \in Int, \A n \in Nodes \ {x} : f[n] = 0
  PROVE  SumFunctionOnSet(f, Nodes) = f[x] /\ Summable(f, Nodes)
<1>1. IsFiniteSet(Nodes) /\ IsFiniteSet(Nodes \ {x})
  BY ContractAssumption, FS_Subset
<1>2. Summable(f, Nodes)
  BY <1>1 DEF Summable
<1>3. SumFunctionOnSet(f, Nodes) = f[x] + SumFunctionOnSet(f, Nodes \ {x})
  BY <1>2, SumRemove
<1>4. SumFunctionOnSet(f, Nodes \ {x}) = 0
  BY <1>1, SumZero
<1>. QED
  BY <1>2, <1>3, <1>4

LEMMA SumOfTwo ==
  ASSUME NEW f, NEW x \in Nodes, NEW y \in Nodes \ {x}, NEW a \in Int,
         f[x] = a, f[y] = 0 - a, \A n \in Nodes \ {x, y} : f[n] = 0
  PROVE  SumFunctionOnSet(f, Nodes) = 0 /\ Summable(f, Nodes)
<1>. DEFINE rest == Nodes \ {x}
            none == rest \ {y}
<1>1. IsFiniteSet(Nodes) /\ IsFiniteSet(rest) /\ IsFiniteSet(none)
  BY ContractAssumption, FS_Subset
<1>2. Summable(f, Nodes) /\ Summable(f, rest)
  BY <1>1 DEF Summable
<1>3. \A n \in none : f[n] = 0
  OBVIOUS
<1>4. y \in rest
  OBVIOUS
<1>. HIDE DEF none
<1>5. SumFunctionOnSet(f, none) = 0
  BY <1>1, <1>3, SumZero
<1>6. SumFunctionOnSet(f, Nodes) = f[x] + SumFunctionOnSet(f, rest)
  BY <1>2, SumRemove
<1>7. SumFunctionOnSet(f, rest) = f[y] + SumFunctionOnSet(f, none)
  BY <1>2, <1>4, SumRemove DEF none
<1>. QED
  BY <1>2, <1>5, <1>6, <1>7

\* part says who of ps is where, g what those on each machine ask for.
Parts(part, ps, target) ==
  \A n \in Nodes : part[n] \subseteq ps /\ \A p \in ps : p \in part[n] <=> target[p] = n

Asked(g, part, r) == \A n \in Nodes : g[n] = Demand(part[n], r)

\* Pods counted by the machine each is on.
LEMMA DemandByNode ==
  ASSUME NEW ps, ps \subseteq Pods, NEW target, \A p \in ps : target[p] \in Nodes,
         NEW part, Parts(part, ps, target),
         NEW r \in Resources, NEW g, Asked(g, part, r)
  PROVE  /\ SumFunctionOnSet(g, Nodes) = Demand(ps, r)
         /\ Summable(g, Nodes)
         /\ \A n \in Nodes : g[n] \in Nat
<1>. DEFINE f == [p \in Pods |-> Request[p][r]]
<1>1. Summable(f, ps) /\ IsFiniteSet(Nodes)
  BY DemandSummable, ContractAssumption
<1>2. \A n \in Nodes : g[n] = SumFunctionOnSet(f, part[n])
  BY DEF Asked, Demand
<1>3. Demand(ps, r) = SumFunctionOnSet(f, ps)
  BY DEF Demand
<1>4. \A n \in Nodes : g[n] \in Nat
  <2>. SUFFICES ASSUME NEW n \in Nodes PROVE g[n] \in Nat
    OBVIOUS
  <2>1. part[n] \subseteq Pods
    BY DEF Parts
  <2>. QED
    BY <2>1, DemandNat DEF Asked
<1>5. Summable(g, Nodes)
  BY <1>1, <1>4 DEF Summable
<1>. HIDE DEF f
<1>6. SumFunctionOnSet(g, Nodes) = SumFunctionOnSet(f, ps)
  BY <1>1, <1>2, SumByKey DEF Parts
<1>. QED
  BY <1>3, <1>4, <1>5, <1>6

\* What all machines have left is their capacity without what the placed pods ask
\* for, wherever these are.
LEMMA RemainingSum ==
  ASSUME TypeOK, NEW t \in Layouts, \A p \in Pods : t[p] = None <=> to[p] = None,
         NEW r \in Resources
  PROVE  SumFunctionOnSet([n \in Nodes |-> Remaining(t, n, r)], Nodes) + Demand(Movable, r)
           = SumFunctionOnSet([n \in Nodes |-> Capacity[n][r]], Nodes)
<1>. DEFINE free == [n \in Nodes |-> Remaining(t, n, r)]
            part == [n \in Nodes |-> On(t, n)]
            taken == [n \in Nodes |-> Demand(part[n], r)]
            all == [n \in Nodes |-> Capacity[n][r]]
<1>1. Movable \subseteq Pods /\ \A p \in Movable : t[p] \in Nodes
  BY MovableMeans DEF Layouts
<1>2. Parts(part, Movable, t)
  BY <1>1, OnMeans, MovableMeans, ContractAssumption DEF Parts
<1>3. \A n \in Nodes : /\ free[n] \in Int /\ taken[n] \in Int
                       /\ all[n] = free[n] + taken[n]
  <2>. SUFFICES ASSUME NEW n \in Nodes
                PROVE  /\ free[n] \in Int /\ taken[n] \in Int
                       /\ all[n] = free[n] + taken[n]
    OBVIOUS
  <2>1. /\ Remaining(t, n, r) = Capacity[n][r] - Demand(On(t, n), r)
        /\ Capacity[n][r] \in Nat /\ Demand(On(t, n), r) \in Nat
    BY RemainingInt
  <2>2. /\ free[n] = Remaining(t, n, r) /\ taken[n] = Demand(On(t, n), r)
        /\ all[n] = Capacity[n][r]
    OBVIOUS
  <2>. HIDE DEF free, taken, all
  <2>. QED
    BY <2>1, <2>2
<1>4. Summable(free, Nodes)
  BY <1>3, ContractAssumption DEF Summable
<1>5. SumFunctionOnSet(taken, Nodes) = Demand(Movable, r) /\ Summable(taken, Nodes)
  <2>1. Asked(taken, part, r)
    BY DEF Asked
  <2>. HIDE DEF taken, part
  <2>. QED
    BY <1>1, <1>2, <2>1, DemandByNode
<1>. HIDE DEF free, taken, all
<1>6. SumFunctionOnSet(all, Nodes)
        = SumFunctionOnSet(free, Nodes) + SumFunctionOnSet(taken, Nodes)
  BY <1>3, <1>4, <1>5, SumPlus
<1>7. SumFunctionOnSet(all, Nodes) = SumFunctionOnSet(free, Nodes) + Demand(Movable, r)
  BY <1>5, <1>6
<1>. QED
  BY <1>7 DEF free, all

\* Pods that leave a machine for others take with them what they ask for: f has what
\* the machines had left, g what they have then.
MovesOut(f, g, ps, from, part, r) ==
  \A n \in Nodes :
    /\ f[n] \in Int
    /\ g[n] = f[n] + (IF n = from THEN Demand(ps, r) ELSE 0) - Demand(part[n], r)

LEMMA MoveSum ==
  ASSUME NEW ps, ps \subseteq Pods, NEW from \in Nodes,
         NEW target, \A p \in ps : target[p] \in Nodes,
         NEW part, Parts(part, ps, target),
         NEW r \in Resources, NEW f, NEW g, MovesOut(f, g, ps, from, part, r)
  PROVE  /\ SumFunctionOnSet(f, Nodes) = SumFunctionOnSet(g, Nodes)
         /\ \A n \in Nodes : g[n] \in Int
<1>. DEFINE out == [n \in Nodes |-> IF n = from THEN Demand(ps, r) ELSE 0]
            into == [n \in Nodes |-> Demand(part[n], r)]
            h == [n \in Nodes |-> f[n] + out[n]]
<1>1. Demand(ps, r) \in Nat
  BY DemandNat
<1>2. /\ SumFunctionOnSet(into, Nodes) = Demand(ps, r)
      /\ Summable(into, Nodes)
      /\ \A n \in Nodes : into[n] \in Nat
  <2>1. Asked(into, part, r)
    BY DEF Asked
  <2>. HIDE DEF into
  <2>. QED
    BY <2>1, DemandByNode
<1>3. \A n \in Nodes : g[n] \in Int /\ h[n] = f[n] + out[n] /\ h[n] = g[n] + into[n]
  <2>. SUFFICES ASSUME NEW n \in Nodes
                PROVE  g[n] \in Int /\ h[n] = f[n] + out[n] /\ h[n] = g[n] + into[n]
    OBVIOUS
  <2>1. g[n] = f[n] + out[n] - into[n] /\ h[n] = f[n] + out[n]
    BY DEF MovesOut
  <2>2. f[n] \in Int /\ out[n] \in Int /\ into[n] \in Nat
    BY <1>1, <1>2 DEF MovesOut
  <2>. HIDE DEF h, out, into
  <2>. QED
    BY <2>1, <2>2
<1>4. SumFunctionOnSet(out, Nodes) = Demand(ps, r) /\ Summable(out, Nodes)
  <2>1. out[from] = Demand(ps, r) /\ \A n \in Nodes \ {from} : out[n] = 0
    OBVIOUS
  <2>. HIDE DEF out
  <2>. QED
    BY <1>1, <2>1, SumAtOne
<1>5. Summable(f, Nodes) /\ Summable(g, Nodes)
  BY <1>3, ContractAssumption DEF Summable, MovesOut
<1>. HIDE DEF out, into, h
<1>6. SumFunctionOnSet(h, Nodes) = SumFunctionOnSet(f, Nodes) + SumFunctionOnSet(out, Nodes)
  BY <1>3, <1>4, <1>5, SumPlus
<1>7. SumFunctionOnSet(h, Nodes) = SumFunctionOnSet(g, Nodes) + SumFunctionOnSet(into, Nodes)
  BY <1>2, <1>3, <1>5, SumPlus
<1>8. SumFunctionOnSet(f, Nodes) \in Int /\ SumFunctionOnSet(g, Nodes) \in Int
  BY <1>5, SumInt
<1>9. SumFunctionOnSet(f, Nodes) = SumFunctionOnSet(g, Nodes)
  <2>1. SumFunctionOnSet(f, Nodes) + Demand(ps, r) = SumFunctionOnSet(g, Nodes) + Demand(ps, r)
    BY <1>2, <1>4, <1>6, <1>7
  <2>2. \A i, j \in Int, k \in Nat : i + k = j + k => i = j
    OBVIOUS
  <2>. QED
    BY <1>1, <1>8, <2>1, <2>2
<1>. QED
  BY <1>3, <1>9

\* So the machines lose and gain the same, whatever the accounts of each say.
LEMMA RelocateSum ==
  ASSUME spare \in [Nodes -> [Resources -> Int]],
         NEW ps, ps \subseteq Pods, NEW from \in Nodes,
         NEW target, \A p \in ps : target[p] \in Nodes,
         Relocate(ps, from, target), NEW r \in Resources
  PROVE  /\ SumFunctionOnSet([n \in Nodes |-> spare[n][r]], Nodes)
              = SumFunctionOnSet([n \in Nodes |-> spare'[n][r]], Nodes)
         /\ \A n \in Nodes : spare'[n][r] \in Int
<1>. DEFINE f == [n \in Nodes |-> spare[n][r]]
            g == [n \in Nodes |-> spare'[n][r]]
            part == [n \in Nodes |-> {p \in ps : target[p] = n}]
<1>1. Parts(part, ps, target)
  BY DEF Parts
<1>2. MovesOut(f, g, ps, from, part, r)
  BY DEF MovesOut, Relocate
<1>3. \A n \in Nodes : g[n] = spare'[n][r]
  OBVIOUS
<1>. HIDE DEF f, g, part
<1>4. SumFunctionOnSet(f, Nodes) = SumFunctionOnSet(g, Nodes) /\ \A n \in Nodes : g[n] \in Int
  BY <1>1, <1>2, MoveSum
<1>. QED
  BY <1>3, <1>4 DEF f, g

\* A swap evens out, also when one of the pods is no longer where it was.
LEMMA SwapSum ==
  ASSUME spare \in [Nodes -> [Resources -> Int]],
         NEW p \in Pods, NEW q \in Pods, home \in Nodes, NEW away \in Nodes, home # away,
         ApplySwap(p, q, away), NEW r \in Resources
  PROVE  /\ SumFunctionOnSet([n \in Nodes |-> spare[n][r]], Nodes)
              = SumFunctionOnSet([n \in Nodes |-> spare'[n][r]], Nodes)
         /\ \A n \in Nodes : spare'[n][r] \in Int
<1>. DEFINE a == Request[p][r] - Request[q][r]
            f == [n \in Nodes |-> spare[n][r]]
            g == [n \in Nodes |-> spare'[n][r]]
            d == [n \in Nodes |-> IF n = home THEN a ELSE IF n = away THEN 0 - a ELSE 0]
<1>1. /\ Request[p][r] \in Nat /\ Request[q][r] \in Nat
      /\ \A n \in Nodes : spare[n][r] \in Int
  BY RequestNat
<1>2. \A n \in Nodes :
        spare'[n][r] = IF n = home THEN spare[n][r] + Request[p][r] - Request[q][r]
                       ELSE IF n = away THEN spare[n][r] + Request[q][r] - Request[p][r]
                       ELSE spare[n][r]
  <2>1. spare' = Swapped(p, q, away)
    BY DEF ApplySwap
  <2>. QED
    BY <2>1 DEF Swapped
<1>3. \A n \in Nodes : /\ f[n] \in Int /\ d[n] \in Int
                       /\ spare'[n][r] \in Int
                       /\ g[n] = f[n] + d[n]
  BY <1>1, <1>2
<1>4. SumFunctionOnSet(d, Nodes) = 0 /\ Summable(d, Nodes)
  <2>1. a \in Int /\ d[home] = a /\ d[away] = 0 - a /\ \A n \in Nodes \ {home, away} : d[n] = 0
    BY <1>1
  <2>. HIDE DEF d, a
  <2>. QED
    BY <2>1, SumOfTwo
<1>5. Summable(f, Nodes)
  BY <1>3, ContractAssumption DEF Summable
<1>. HIDE DEF f, g, d
<1>6. SumFunctionOnSet(g, Nodes) = SumFunctionOnSet(f, Nodes) + SumFunctionOnSet(d, Nodes)
  BY <1>3, <1>4, <1>5, SumPlus
<1>7. SumFunctionOnSet(f, Nodes) \in Int
  BY <1>5, SumInt
<1>8. SumFunctionOnSet(f, Nodes) = SumFunctionOnSet(g, Nodes)
  BY <1>4, <1>6, <1>7
<1>. QED
  BY <1>3, <1>8 DEF f, g

--------------------------------------------------------------------------------
\* What a layout leaves of the machines when some pods of one go to others.
Coming(ps, target, n) == {p \in ps : target[p] = n}
MovedTo(u, t, ps, target) == \A p \in Pods : u[p] = IF p \in ps THEN target[p] ELSE t[p]

LEMMA MovedRemaining ==
  ASSUME NEW t \in Layouts, NEW u \in Layouts, NEW from \in Nodes,
         NEW ps, ps \subseteq On(t, from), NEW target,
         \A p \in ps : target[p] \in Nodes \ {from}, MovedTo(u, t, ps, target),
         NEW n \in Nodes, NEW r \in Resources
  PROVE  Remaining(u, n, r) =
           Remaining(t, n, r) + (IF n = from THEN Demand(ps, r) ELSE 0)
                              - Demand(Coming(ps, target, n), r)
<1>. DEFINE came == Coming(ps, target, n)
<1>1. /\ \A m : On(t, m) = {p \in Pods : t[p] = m} /\ On(t, m) \subseteq Pods
      /\ \A m : On(u, m) = {p \in Pods : u[p] = m} /\ On(u, m) \subseteq Pods
      /\ ps \subseteq Pods
  BY OnMeans
<1>2. /\ Remaining(t, n, r) = Capacity[n][r] - Demand(On(t, n), r)
      /\ Remaining(u, n, r) = Capacity[n][r] - Demand(On(u, n), r)
      /\ Capacity[n][r] \in Nat
  BY RemainingInt
<1>3. CASE n = from
  <2>1. came = {} /\ On(t, n) = On(u, n) \cup ps /\ On(u, n) \cap ps = {}
    BY <1>1, <1>3 DEF MovedTo, Coming
  <2>2. Demand(came, r) = 0
    BY <2>1, DemandEmpty
  <2>3. Demand(On(t, n), r) = Demand(On(u, n), r) + Demand(ps, r)
    BY <1>1, <2>1, DemandUnion
  <2>4. Demand(On(u, n), r) \in Nat /\ Demand(ps, r) \in Nat
    BY <1>1, DemandNat
  <2>. HIDE DEF came
  <2>5. Remaining(u, n, r) = Remaining(t, n, r) + Demand(ps, r) - Demand(came, r)
    BY <1>2, <2>2, <2>3, <2>4
  <2>. QED
    BY <1>3, <2>5 DEF came
<1>4. CASE n # from
  <2>1. came \subseteq Pods /\ On(u, n) = On(t, n) \cup came /\ On(t, n) \cap came = {}
    BY <1>1, <1>4 DEF MovedTo, Coming
  <2>. HIDE DEF came
  <2>2. Demand(On(u, n), r) = Demand(On(t, n), r) + Demand(came, r)
    BY <1>1, <2>1, DemandUnion
  <2>3. Demand(On(t, n), r) \in Nat /\ Demand(came, r) \in Nat
    BY <1>1, <2>1, DemandNat
  <2>4. Remaining(u, n, r) = Remaining(t, n, r) + 0 - Demand(came, r)
    BY <1>2, <2>2, <2>3
  <2>. QED
    BY <1>4, <2>4 DEF came
<1>. QED
  BY <1>3, <1>4

LEMMA MovedUsed ==
  ASSUME NEW t \in Layouts, NEW u \in Layouts, NEW from \in Nodes,
         NEW ps, ps \subseteq On(t, from), NEW target,
         \A p \in ps : target[p] \in Nodes \ {from}, MovedTo(u, t, ps, target)
  PROVE  Used(u) = (Used(t) \cup {target[p] : p \in ps})
                     \ (IF On(u, from) = {} THEN {from} ELSE {})
<1>1. /\ Used(t) \subseteq Nodes /\ \A n \in Nodes : n \in Used(t) <=> \E p \in Pods : t[p] = n
      /\ Used(u) \subseteq Nodes /\ \A n \in Nodes : n \in Used(u) <=> \E p \in Pods : u[p] = n
      /\ On(t, from) = {p \in Pods : t[p] = from} /\ On(u, from) = {p \in Pods : u[p] = from}
  BY OnMeans
<1>2. \A n \in Nodes \ {from} :
        n \in Used(u) <=> n \in Used(t) \/ \E p \in ps : target[p] = n
  BY <1>1 DEF MovedTo
<1>3. from \in Used(u) <=> On(u, from) # {}
  BY <1>1
<1>4. from \in Used(u) => from \in Used(t)
  BY <1>1 DEF MovedTo
<1>5. \A p \in ps : target[p] \in Nodes
  OBVIOUS
<1>. QED
  BY <1>1, <1>2, <1>3, <1>4, <1>5

\* Moved each to a machine of its own that had room, they fit.
LEMMA MovedFits ==
  ASSUME NEW t \in Layouts, NEW u \in Layouts, NEW from \in Nodes,
         NEW ps, ps \subseteq On(t, from), NEW target,
         \A p \in ps : target[p] \in Nodes \ {from}, MovedTo(u, t, ps, target),
         WithinCapacity(t),
         \A p \in ps, r \in Resources : Request[p][r] <= Remaining(t, target[p], r),
         \A p, q \in ps : p # q => target[p] # target[q]
  PROVE  WithinCapacity(u)
<1>. SUFFICES ASSUME NEW n \in Used(u), NEW r \in Resources PROVE Remaining(u, n, r) >= 0
  BY DEF WithinCapacity
<1>. DEFINE came == Coming(ps, target, n)
<1>1. /\ Used(t) \subseteq Nodes /\ \A m \in Nodes : m \in Used(t) <=> \E p \in Pods : t[p] = m
      /\ n \in Nodes /\ \E p \in Pods : u[p] = n
      /\ On(t, from) = {p \in Pods : t[p] = from}
      /\ ps \subseteq Pods
  BY OnMeans
<1>2. Remaining(u, n, r) = Remaining(t, n, r) + (IF n = from THEN Demand(ps, r) ELSE 0)
                                              - Demand(came, r)
  BY <1>1, MovedRemaining
<1>3. Remaining(t, n, r) \in Int /\ Demand(ps, r) \in Nat
  BY <1>1, RemainingInt, DemandNat
<1>4. CASE came = {}
  <2>1. n \in Used(t)
    BY <1>1, <1>4 DEF MovedTo, Coming
  <2>2. Remaining(t, n, r) >= 0
    BY <2>1 DEF WithinCapacity
  <2>3. Demand(came, r) = 0
    BY <1>4, DemandEmpty
  <2>. HIDE DEF came
  <2>. QED
    BY <1>2, <1>3, <2>2, <2>3
<1>5. CASE came # {}
  <2>1. PICK p \in ps : target[p] = n
    BY <1>5 DEF Coming
  <2>2. came = {p} /\ n # from /\ p \in Pods
    BY <1>1, <2>1 DEF Coming
  <2>3. Demand(came, r) = Request[p][r] /\ Request[p][r] \in Nat
    BY <2>2, DemandOne, RequestNat
  <2>4. Request[p][r] <= Remaining(t, n, r)
    BY <2>1
  <2>. HIDE DEF came
  <2>. QED
    BY <1>2, <1>3, <2>2, <2>3, <2>4
<1>. QED
  BY <1>4, <1>5

\* What it leaves when two pods of different machines change places.
Swaps(u, t, p, q) == \A x \in Pods : u[x] = IF x = p THEN t[q] ELSE IF x = q THEN t[p] ELSE t[x]

LEMMA DemandReplace ==
  ASSUME NEW ps, ps \subseteq Pods, NEW p \in ps, NEW q \in Pods \ ps, NEW r \in Resources
  PROVE  Demand((ps \ {p}) \cup {q}, r) = Demand(ps, r) - Request[p][r] + Request[q][r]
<1>. DEFINE rest == ps \ {p}
<1>1. /\ rest \subseteq Pods /\ p \in Pods /\ q \in Pods
      /\ {p} \subseteq Pods /\ {q} \subseteq Pods
      /\ rest \cap {p} = {} /\ rest \cup {p} = ps /\ rest \cap {q} = {}
  OBVIOUS
<1>. HIDE DEF rest
<1>2. Demand(ps, r) = Demand(rest, r) + Demand({p}, r)
  BY <1>1, DemandUnion
<1>3. Demand(rest \cup {q}, r) = Demand(rest, r) + Demand({q}, r)
  BY <1>1, DemandUnion
<1>4. /\ Demand({p}, r) = Request[p][r] /\ Demand({q}, r) = Request[q][r]
      /\ Request[p][r] \in Nat /\ Request[q][r] \in Nat /\ Demand(rest, r) \in Nat
  BY <1>1, DemandOne, DemandNat, RequestNat
<1>5. Demand(rest \cup {q}, r) = Demand(ps, r) - Request[p][r] + Request[q][r]
  BY <1>2, <1>3, <1>4
<1>. QED
  BY <1>5 DEF rest

LEMMA SwapRemaining ==
  ASSUME NEW t \in Layouts, NEW u \in Layouts, NEW p \in Pods, NEW q \in Pods,
         t[p] \in Nodes, t[q] \in Nodes, t[p] # t[q], Swaps(u, t, p, q)
  PROVE  /\ Used(u) = Used(t)
         /\ \A n \in Nodes, r \in Resources :
              Remaining(u, n, r) =
                IF n = t[p] THEN Remaining(t, n, r) + Request[p][r] - Request[q][r]
                ELSE IF n = t[q] THEN Remaining(t, n, r) + Request[q][r] - Request[p][r]
                ELSE Remaining(t, n, r)
<1>1. /\ \A m : On(t, m) = {x \in Pods : t[x] = m} /\ On(t, m) \subseteq Pods
      /\ \A m : On(u, m) = {x \in Pods : u[x] = m} /\ On(u, m) \subseteq Pods
      /\ Used(t) \subseteq Nodes /\ \A n \in Nodes : n \in Used(t) <=> \E x \in Pods : t[x] = n
      /\ Used(u) \subseteq Nodes /\ \A n \in Nodes : n \in Used(u) <=> \E x \in Pods : u[x] = n
  BY OnMeans
<1>2. Used(u) = Used(t)
  BY <1>1 DEF Swaps
<1>3. ASSUME NEW n \in Nodes, NEW r \in Resources
      PROVE  Remaining(u, n, r) =
               IF n = t[p] THEN Remaining(t, n, r) + Request[p][r] - Request[q][r]
               ELSE IF n = t[q] THEN Remaining(t, n, r) + Request[q][r] - Request[p][r]
               ELSE Remaining(t, n, r)
  <2>1. /\ Remaining(t, n, r) = Capacity[n][r] - Demand(On(t, n), r)
        /\ Remaining(u, n, r) = Capacity[n][r] - Demand(On(u, n), r)
        /\ Capacity[n][r] \in Nat /\ Demand(On(t, n), r) \in Nat
        /\ Request[p][r] \in Nat /\ Request[q][r] \in Nat
    BY RemainingInt, RequestNat
  <2>2. CASE n = t[p]
    <3>1. On(u, n) = (On(t, n) \ {p}) \cup {q} /\ p \in On(t, n) /\ q \in Pods \ On(t, n)
      BY <1>1, <2>2 DEF Swaps
    <3>2. Demand(On(u, n), r) = Demand(On(t, n), r) - Request[p][r] + Request[q][r]
      BY <1>1, <3>1, DemandReplace
    <3>. QED
      BY <2>1, <2>2, <3>2
  <2>3. CASE n = t[q]
    <3>1. On(u, n) = (On(t, n) \ {q}) \cup {p} /\ q \in On(t, n) /\ p \in Pods \ On(t, n)
      BY <1>1, <2>3 DEF Swaps
    <3>2. Demand(On(u, n), r) = Demand(On(t, n), r) - Request[q][r] + Request[p][r]
      BY <1>1, <3>1, DemandReplace
    <3>. QED
      BY <2>1, <2>3, <3>2
  <2>4. CASE n # t[p] /\ n # t[q]
    <3>1. On(u, n) = On(t, n)
      BY <1>1, <2>4 DEF Swaps
    <3>. QED
      BY <2>1, <2>4, <3>1
  <2>. QED
    BY <2>2, <2>3, <2>4
<1>. QED
  BY <1>2, <1>3

--------------------------------------------------------------------------------
\* Whatever the accounts of single machines, together they have what the placed pods
\* leave; and until a swap goes wrong each account agrees with its pods.
Weigh ==
  \A r \in Resources :
    SumFunctionOnSet([n \in Nodes |-> spare[n][r]], Nodes) + Demand(Movable, r)
      = SumFunctionOnSet([n \in Nodes |-> Capacity[n][r]], Nodes)

Honest ==
  ~stale =>
    /\ \A n \in Nodes, r \in Resources : spare[n][r] = Remaining(place, n, r)
    /\ inUse = Used(place)
    /\ crowded \/ WithinCapacity(place)

LayoutTypes ==
  /\ stale \in BOOLEAN /\ crowded \in BOOLEAN
  /\ spare \in [Nodes -> [Resources -> Int]]
  /\ scores \in [Pods -> Int]

\* The pods of a machine still to be emptied are still there.
LoadsThere == pass = "consolidate" => \A n \in DOMAIN loads : loads[n].pods \subseteq On(place, n)

LayoutInv == LayoutTypes /\ (Searching => Weigh /\ Honest) /\ LoadsThere

LEMMA MoveScoreInt ==
  ASSUME NEW n
  PROVE  MoveScore(n) \in Int
  BY DEF MoveScore, Score, Bonus

\* Pods that move together to machines with room for each of them.
LEMMA RelocateHonest ==
  ASSUME TypeOK, SamePods, LayoutTypes, Weigh, Honest, UNCHANGED vars,
         NEW from \in Nodes, NEW ps, ps \subseteq On(place, from), ps \subseteq Movable,
         NEW target \in [ps -> Nodes], \A p \in ps : target[p] \in Options(p),
         Relocate(ps, from, target)
  PROVE  LayoutTypes' /\ Weigh' /\ Honest'
<1>1. PICK t \in Layouts : t = place
  BY DEF SamePods, Layouts
<1>2. PICK u \in Layouts : u = place'
  <2>1. UNCHANGED to
    BY DEF vars
  <2>2. SamePods'
    BY <2>1, RelocateKeeps
  <2>. QED
    BY <2>2 DEF SamePods, Layouts
<1>3. ps \subseteq Pods /\ ps \subseteq On(t, from) /\ \A p \in ps : target[p] \in Nodes
  BY <1>1, MovableMeans
<1>4. \A p \in ps : target[p] \in Nodes \ {from} /\ FitsThere(p, target[p])
  <2>1. \A p \in ps : place[p] = from
    BY <1>1, <1>3, OnMeans
  <2>. QED
    BY <2>1 DEF Options
<1>5. MovedTo(u, t, ps, target)
  BY <1>1, <1>2 DEF MovedTo, Relocate
<1>6. ASSUME NEW r \in Resources
      PROVE  /\ SumFunctionOnSet([n \in Nodes |-> spare[n][r]], Nodes)
                  = SumFunctionOnSet([n \in Nodes |-> spare'[n][r]], Nodes)
             /\ \A n \in Nodes : spare'[n][r] \in Int
  BY <1>3, RelocateSum DEF LayoutTypes
<1>7. LayoutTypes'
  <2>1. spare' \in [Nodes -> [Resources -> Int]]
    <3>1. spare' = [n \in Nodes |-> [r \in Resources |-> spare'[n][r]]]
      BY DEF Relocate
    <3>. QED
      BY <1>6, <3>1
  <2>2. scores' \in [Pods -> Int]
    BY MoveScoreInt DEF Relocate, LayoutTypes
  <2>3. stale' \in BOOLEAN /\ crowded' \in BOOLEAN
    BY DEF Relocate, LayoutTypes
  <2>. QED
    BY <2>1, <2>2, <2>3 DEF LayoutTypes
<1>8. Weigh'
  <2>1. Movable' = Movable
    BY DEF Movable, vars
  <2>2. \A r \in Resources : Demand(Movable, r)' = Demand(Movable, r)
    BY <2>1 DEF Demand
  <2>. QED
    BY <1>6, <2>2 DEF Weigh
<1>9. Honest'
  <2>. SUFFICES ASSUME ~stale'
                PROVE  /\ \A n \in Nodes, r \in Resources : spare'[n][r] = Remaining(u, n, r)
                       /\ inUse' = Used(u)
                       /\ crowded' \/ WithinCapacity(u)
    BY <1>2 DEF Honest, Remaining, Demand, WithinCapacity
  <2>1. /\ \A n \in Nodes, r \in Resources : spare[n][r] = Remaining(t, n, r)
        /\ inUse = Used(t)
        /\ crowded \/ WithinCapacity(t)
    BY <1>1 DEF Relocate, Honest
  <2>2. ASSUME NEW n \in Nodes, NEW r \in Resources PROVE spare'[n][r] = Remaining(u, n, r)
    <3>1. Remaining(u, n, r) =
            Remaining(t, n, r) + (IF n = from THEN Demand(ps, r) ELSE 0)
                               - Demand(Coming(ps, target, n), r)
      BY <1>3, <1>4, <1>5, MovedRemaining
    <3>2. spare'[n][r] = spare[n][r] + (IF n = from THEN Demand(ps, r) ELSE 0)
                                     - Demand(Coming(ps, target, n), r)
      BY DEF Relocate, Coming
    <3>. QED
      BY <2>1, <3>1, <3>2
  <2>3. inUse' = Used(u)
    <3>1. Used(u) = (Used(t) \cup {target[p] : p \in ps})
                      \ (IF On(u, from) = {} THEN {from} ELSE {})
      BY <1>3, <1>4, <1>5, MovedUsed
    <3>. QED
      BY <1>2, <2>1, <3>1 DEF Relocate
  <2>4. ASSUME ~crowded' PROVE WithinCapacity(u)
    <3>1. ~crowded /\ \A p, q \in ps : p # q => target[p] # target[q]
      BY <2>4 DEF Relocate
    <3>2. \A p \in ps, r \in Resources : Request[p][r] <= Remaining(t, target[p], r)
      BY <1>4, <2>1 DEF FitsThere
    <3>. QED
      BY <1>3, <1>4, <1>5, <2>1, <3>1, <3>2, MovedFits
  <2>. QED
    BY <2>2, <2>3, <2>4
<1>. QED
  BY <1>7, <1>8, <1>9

\* Two pods that change places, the first of them perhaps not where it is taken from.
LEMMA SwapHonest ==
  ASSUME TypeOK, SamePods, LayoutTypes, Weigh, Honest, UNCHANGED vars,
         NEW p \in Movable, NEW q \in Movable, home \in Nodes, home # place[q],
         SwapFits(p, q, place[q]), ApplySwap(p, q, place[q])
  PROVE  LayoutTypes' /\ Weigh' /\ Honest'
<1>1. PICK t \in Layouts : t = place
  BY DEF SamePods, Layouts
<1>2. PICK u \in Layouts : u = place'
  <2>1. UNCHANGED to
    BY DEF vars
  <2>2. SamePods'
    BY <2>1, SwapKeeps
  <2>. QED
    BY <2>2 DEF SamePods, Layouts
<1>3. PICK away \in Nodes : away = place[q]
  BY MovableMeans DEF SamePods
<1>4. p \in Pods /\ q \in Pods
  BY MovableMeans
<1>5. ASSUME NEW r \in Resources
      PROVE  /\ SumFunctionOnSet([n \in Nodes |-> spare[n][r]], Nodes)
                  = SumFunctionOnSet([n \in Nodes |-> spare'[n][r]], Nodes)
             /\ \A n \in Nodes : spare'[n][r] \in Int
  BY <1>3, <1>4, SwapSum DEF LayoutTypes
<1>6. spare' = Swapped(p, q, away)
  BY <1>3 DEF ApplySwap
<1>7. LayoutTypes'
  <2>1. spare' \in [Nodes -> [Resources -> Int]]
    <3>1. \A n \in Nodes : spare'[n] = [r \in Resources |-> spare'[n][r]]
      BY <1>6 DEF Swapped, LayoutTypes
    <3>2. spare' = [n \in Nodes |-> spare'[n]]
      BY <1>6 DEF Swapped, LayoutTypes
    <3>. QED
      BY <1>5, <3>1, <3>2
  <2>2. scores' \in [Pods -> Int]
    BY <1>4, MoveScoreInt DEF ApplySwap, LayoutTypes
  <2>3. stale' \in BOOLEAN /\ crowded' \in BOOLEAN
    BY DEF ApplySwap, LayoutTypes
  <2>. QED
    BY <2>1, <2>2, <2>3 DEF LayoutTypes
<1>8. Weigh'
  <2>1. Movable' = Movable
    BY DEF Movable, vars
  <2>2. \A r \in Resources : Demand(Movable, r)' = Demand(Movable, r)
    BY <2>1 DEF Demand
  <2>. QED
    BY <1>5, <2>2 DEF Weigh
<1>9. Honest'
  <2>. SUFFICES ASSUME ~stale'
                PROVE  /\ \A n \in Nodes, r \in Resources : spare'[n][r] = Remaining(u, n, r)
                       /\ inUse' = Used(u)
                       /\ crowded' \/ WithinCapacity(u)
    BY <1>2 DEF Honest, Remaining, Demand, WithinCapacity
  <2>1. /\ \A n \in Nodes, r \in Resources : spare[n][r] = Remaining(t, n, r)
        /\ inUse = Used(t)
        /\ crowded \/ WithinCapacity(t)
        /\ t[p] = home /\ t[q] = away
        /\ inUse' = inUse /\ crowded' = crowded
    BY <1>1, <1>3 DEF ApplySwap, Honest
  <2>2. Swaps(u, t, p, q)
    <3>1. \A x \in Pods : place'[x] = IF x = q THEN home ELSE IF x = p THEN away ELSE place[x]
      BY <1>3, <1>4 DEF ApplySwap, SamePods
    <3>2. p # q
      BY <1>3, <2>1
    <3>. QED
      BY <1>1, <1>2, <2>1, <3>1, <3>2 DEF Swaps
  <2>3. /\ Used(u) = Used(t)
        /\ \A n \in Nodes, r \in Resources :
              Remaining(u, n, r) =
                IF n = t[p] THEN Remaining(t, n, r) + Request[p][r] - Request[q][r]
                ELSE IF n = t[q] THEN Remaining(t, n, r) + Request[q][r] - Request[p][r]
                ELSE Remaining(t, n, r)
    BY <1>3, <1>4, <2>1, <2>2, SwapRemaining
  <2>4. ASSUME NEW n \in Nodes, NEW r \in Resources
        PROVE  spare'[n][r] = IF n = home THEN spare[n][r] + Request[p][r] - Request[q][r]
                              ELSE IF n = away THEN spare[n][r] + Request[q][r] - Request[p][r]
                              ELSE spare[n][r]
    BY <1>3, <1>6 DEF Swapped, LayoutTypes
  <2>5. \A n \in Nodes, r \in Resources : spare'[n][r] = Remaining(u, n, r)
    BY <2>1, <2>3, <2>4
  <2>6. ASSUME WithinCapacity(t) PROVE WithinCapacity(u)
    <3>. SUFFICES ASSUME NEW n \in Used(u), NEW r \in Resources PROVE Remaining(u, n, r) >= 0
      BY DEF WithinCapacity
    <3>1. n \in Nodes /\ n \in Used(t)
      BY <2>3, OnMeans
    <3>2. /\ spare[home][r] + Request[p][r] - Request[q][r] >= 0
          /\ spare[away][r] + Request[q][r] - Request[p][r] >= 0
      BY <1>3 DEF SwapFits
    <3>3. Remaining(t, n, r) >= 0
      BY <2>6, <3>1 DEF WithinCapacity
    <3>. QED
      BY <2>1, <2>4, <2>5, <3>1, <3>2, <3>3
  <2>. QED
    BY <2>1, <2>3, <2>5, <2>6
<1>. QED
  BY <1>7, <1>8, <1>9

\* What the accounts are made of stays, and so do they.
LEMMA LayoutSame ==
  ASSUME LayoutTypes, UNCHANGED <<layout, history, to>>
  PROVE  /\ LayoutTypes'
         /\ Weigh => Weigh'
         /\ Honest => Honest'
<1>1. UNCHANGED <<place, spare, scores, inUse, stale, crowded, to>>
  BY DEF layout, history
<1>2. LayoutTypes'
  BY <1>1 DEF LayoutTypes
<1>3. Weigh => Weigh'
  BY <1>1 DEF Weigh, Movable, Demand
<1>4. Honest => Honest'
  BY <1>1 DEF Honest, Remaining, Demand, WithinCapacity
<1>. QED
  BY <1>2, <1>3, <1>4

LEMMA LayoutStep ==
  ASSUME IInv, left = {}, LocalInv, LayoutInv, HeuristicStep, UNCHANGED vars
  PROVE  LayoutInv'
<1>0. TypeOK /\ UNCHANGED to
  BY DEF IInv, vars
<1>1. ASSUME UNCHANGED <<layout, history>>, Searching, pass' # "consolidate"
      PROVE  LayoutInv'
  BY <1>0, <1>1, LayoutSame DEF LayoutInv, LoadsThere
<1>2. CASE KeepGreedy
  BY <1>0, <1>2, LayoutSame DEF KeepGreedy, LayoutInv, LoadsThere, Searching
<1>3. CASE StartLocal
  <2>1. /\ place' = to /\ inUse' = Used(to) /\ pass' = "round"
        /\ spare' = [n \in Nodes |-> [r \in Resources |-> Remaining(to, n, r)]]
        /\ scores' = [p \in Pods |-> GreedyScore(p)]
        /\ UNCHANGED <<stale, crowded>>
    BY <1>3 DEF StartLocal, history
  <2>2. PICK t \in Layouts : t = to
    BY <1>0 DEF TypeOK, Layouts
  <2>3. LayoutTypes'
    <3>1. \A n \in Nodes, r \in Resources : Remaining(to, n, r) \in Int
      BY <2>2, RemainingInt
    <3>2. \A p \in Pods : GreedyScore(p) \in Int
      BY <1>0 DEF GreedyScore, Score, Bonus, TypeOK
    <3>3. spare' \in [Nodes -> [Resources -> Int]]
      BY <2>1, <3>1
    <3>4. scores' \in [Pods -> Int]
      BY <2>1, <3>2
    <3>. QED
      BY <2>1, <3>3, <3>4 DEF LayoutInv, LayoutTypes
  <2>4. Weigh'
    <3>1. Movable' = Movable
      BY <1>0 DEF Movable
    <3>2. ASSUME NEW r \in Resources
          PROVE  SumFunctionOnSet([n \in Nodes |-> spare'[n][r]], Nodes) + Demand(Movable, r)
                   = SumFunctionOnSet([n \in Nodes |-> Capacity[n][r]], Nodes)
      <4>1. [n \in Nodes |-> spare'[n][r]] = [n \in Nodes |-> Remaining(t, n, r)]
        BY <2>1, <2>2
      <4>. QED
        BY <1>0, <2>2, <4>1, RemainingSum
    <3>. QED
      BY <3>1, <3>2 DEF Weigh, Demand
  <2>5. Honest'
    <3>1. WithinCapacity(t)
      BY <2>2, GreedyAnswer DEF GreedyPlans, IsGreedyPlan, GreedyPlan
    <3>2. \A n \in Nodes, r \in Resources : spare'[n][r] = Remaining(t, n, r)
      BY <2>1, <2>2
    <3>. QED
      BY <2>1, <2>2, <3>1, <3>2 DEF Honest, Remaining, Demand, WithinCapacity
  <2>. QED
    BY <2>1, <2>3, <2>4, <2>5 DEF LayoutInv, LoadsThere
<1>4. CASE Expire
  <2>1. UNCHANGED <<layout, history, loads, pass>> /\ Searching
    BY <1>4 DEF Expire, Searching, cursors
  <2>2. LoadsThere'
    BY <2>1 DEF layout, LayoutInv, LoadsThere
  <2>. QED
    BY <1>0, <2>1, <2>2, LayoutSame DEF LayoutInv
<1>5. CASE StartRound
  <2>1. UNCHANGED <<layout, history>> /\ Searching
    BY <1>5 DEF StartRound, Searching
  <2>2. LoadsThere'
    BY <1>5, <2>1 DEF StartRound, LoadsThere, layout
  <2>. QED
    BY <1>0, <2>1, <2>2, LayoutSame DEF LayoutInv
<1>6. ASSUME NEW n \in Nodes, Consolidate(n) PROVE LayoutInv'
  <2>1. /\ pass = "consolidate" /\ pass' = pass /\ Searching /\ n \in DOMAIN loads
        /\ loads' = [m \in DOMAIN loads \ {n} |-> loads[m]]
        /\ SamePods /\ LayoutTypes /\ Weigh /\ Honest
        /\ \A m \in DOMAIN loads : /\ loads[m].pods \subseteq On(place, m)
                                   /\ loads[m].pods \subseteq Movable
    BY <1>6 DEF Consolidate, Searching, LocalInv, LayoutInv, LoadsThere, Cursors
  <2>2. CASE UNCHANGED <<layout, history>>
    <3>1. LoadsThere'
      BY <2>1, <2>2 DEF layout, LoadsThere
    <3>. QED
      BY <1>0, <2>1, <2>2, <3>1, LayoutSame DEF LayoutInv
  <2>3. ASSUME NEW target \in [loads[n].pods -> Nodes],
               \A p \in loads[n].pods : target[p] \in FirstBest(Options(p)),
               Relocate(loads[n].pods, n, target)
        PROVE  LayoutInv'
    <3>1. \A p \in loads[n].pods : target[p] \in Options(p)
      BY <2>3 DEF FirstBest
    <3>2. LayoutTypes' /\ Weigh' /\ Honest'
      BY <1>0, <2>1, <2>3, <3>1, RelocateHonest
    <3>3. LoadsThere'
      <4>. SUFFICES ASSUME NEW m \in DOMAIN loads, m # n
                    PROVE  loads[m].pods \subseteq On(place', m)
        BY <2>1 DEF LoadsThere
      <4>1. DOMAIN place = Pods /\ DOMAIN place' = Pods
        BY <2>1, <2>3 DEF SamePods, Relocate
      <4>2. \A p \in loads[m].pods : p \in Pods /\ place[p] = m
        BY <2>1, <4>1 DEF On
      <4>3. \A p \in loads[n].pods : place[p] = n
        BY <2>1, <4>1 DEF On
      <4>4. \A p \in loads[m].pods : place'[p] = m
        BY <2>3, <4>2, <4>3 DEF Relocate
      <4>. QED
        BY <4>1, <4>2, <4>4 DEF On
    <3>. QED
      BY <3>2, <3>3 DEF LayoutInv
  <2>. QED
    BY <1>6, <2>2, <2>3 DEF Consolidate
<1>7. CASE TrySwap
  <2>1. /\ pass = "swap" /\ pass' = pass /\ Searching /\ partners # <<>>
        /\ SamePods /\ LayoutTypes /\ Weigh /\ Honest
        /\ uids \in Seq(Movable) /\ uids # <<>> /\ partners \in Seq(Movable) /\ home \in Nodes
    BY <1>7 DEF TrySwap, Searching, LocalInv, LayoutInv, Cursors
  <2>2. Head(uids) \in Movable /\ Head(partners) \in Movable
    BY <2>1, HeadTailProperties
  <2>3. CASE UNCHANGED <<layout, history>>
    BY <1>1, <2>1, <2>3
  <2>4. CASE /\ home # place[Head(partners)]
             /\ SwapFits(Head(uids), Head(partners), place[Head(partners)])
             /\ ApplySwap(Head(uids), Head(partners), place[Head(partners)])
    <3>1. LayoutTypes' /\ Weigh' /\ Honest'
      BY <1>0, <2>1, <2>2, <2>4, SwapHonest
    <3>. QED
      BY <2>1, <3>1 DEF LayoutInv, LoadsThere
  <2>. QED
    BY <1>7, <2>3, <2>4 DEF TrySwap
<1>8. ASSUME NEW p \in Pods, MovePod(p) PROVE LayoutInv'
  <2>1. /\ pass = "relocate" /\ pass' = pass /\ Searching /\ p \in Movable
        /\ SamePods /\ LayoutTypes /\ Weigh /\ Honest
    BY <1>8 DEF MovePod, Searching, LocalInv, LayoutInv, Cursors
  <2>2. CASE UNCHANGED <<layout, history>>
    BY <1>1, <2>1, <2>2
  <2>3. ASSUME NEW n \in FirstBest({m \in Options(p) : Gain(p, m) > 0}),
               Relocate({p}, place[p], [q \in {p} |-> n])
        PROVE  LayoutInv'
    <3>1. n \in Options(p) /\ n \in Nodes
      BY <2>3 DEF FirstBest, Options
    <3>2. place[p] \in Nodes /\ {p} \subseteq On(place, place[p]) /\ {p} \subseteq Movable
      BY <1>0, <2>1, MovableMeans DEF SamePods, On
    <3>3. /\ [q \in {p} |-> n] \in [{p} -> Nodes]
          /\ \A q \in {p} : [x \in {p} |-> n][q] \in Options(q)
      BY <3>1
    <3>4. LayoutTypes' /\ Weigh' /\ Honest'
      BY <1>0, <2>1, <2>3, <3>2, <3>3, RelocateHonest
    <3>. QED
      BY <2>1, <3>4 DEF LayoutInv, LoadsThere
  <2>. QED
    BY <1>8, <2>2, <2>3 DEF MovePod
<1>9. CASE StartSwaps \/ NextUid \/ StartMoves \/ EndRound \/ EndLocal
  BY <1>1, <1>9 DEF StartSwaps, NextUid, StartMoves, EndRound, EndLocal, Searching
<1>. QED
  BY <1>2, <1>3, <1>4, <1>5, <1>6, <1>7, <1>8, <1>9 DEF HeuristicStep

--------------------------------------------------------------------------------
\* The types of what each pass still has to look at.
CursorTypes ==
  /\ improved \in BOOLEAN /\ expired \in BOOLEAN
  /\ place \in [Pods -> Nodes \cup {None}]
  /\ inUse \subseteq Nodes
  /\ DOMAIN loads \subseteq Nodes
  /\ loads \in [DOMAIN loads -> [pods : SUBSET Pods, cpu : Int]]
  /\ uids \in Seq(Pods) /\ partners \in Seq(Pods)
  /\ home \in Nodes \cup {None}
  /\ movers \subseteq Pods

LEMMA CursorStep ==
  ASSUME TypeOK, LocalInv, LocalInv', LayoutInv, CursorTypes, HeuristicStep, UNCHANGED vars
  PROVE  CursorTypes'
<1>1. Searching' => place' \in [Pods -> Nodes \cup {None}] /\ inUse' \subseteq Nodes
  BY DEF LocalInv, SamePods
<1>2. CASE KeepGreedy
  BY <1>2 DEF KeepGreedy, CursorTypes, layout, cursors
<1>3. CASE StartLocal \/ Expire \/ EndLocal
  <2>1. /\ UNCHANGED <<loads, uids, partners, home, movers>> /\ Searching'
        /\ improved' \in BOOLEAN /\ expired' \in BOOLEAN
    BY <1>3 DEF StartLocal, Expire, EndLocal, cursors, CursorTypes, Searching
  <2>. QED
    BY <1>1, <2>1 DEF CursorTypes
<1>4. CASE StartRound
  <2>1. /\ UNCHANGED <<uids, partners, home, movers, expired>> /\ improved' \in BOOLEAN
        /\ loads' = [n \in {m \in inUse : On(place, m) # {}} |->
                 [pods |-> On(place, n), cpu |-> Capacity[n]["cpu"] - spare[n]["cpu"]]]
        /\ Searching'
    BY <1>4 DEF StartRound, Searching
  <2>2. DOMAIN loads' \subseteq Nodes
    BY <2>1 DEF CursorTypes
  <2>3. ASSUME NEW n \in DOMAIN loads'
        PROVE  loads'[n] \in [pods : SUBSET Pods, cpu : Int]
    <3>1. On(place, n) \subseteq Pods
      BY DEF On, CursorTypes
    <3>2. Capacity[n]["cpu"] \in Int /\ spare[n]["cpu"] \in Int
      BY <2>2, ContractAssumption, GreedyAssumption DEF LayoutInv, LayoutTypes
    <3>3. loads'[n] = [pods |-> On(place, n), cpu |-> Capacity[n]["cpu"] - spare[n]["cpu"]]
      BY <2>1
    <3>. QED
      BY <3>1, <3>2, <3>3
  <2>4. loads' \in [DOMAIN loads' -> [pods : SUBSET Pods, cpu : Int]]
    BY <2>1, <2>3
  <2>. QED
    BY <1>1, <2>1, <2>2, <2>4 DEF CursorTypes
<1>5. ASSUME NEW n \in Nodes, Consolidate(n) PROVE CursorTypes'
  <2>1. /\ UNCHANGED <<uids, partners, home, movers, expired>> /\ improved' \in BOOLEAN
        /\ loads' = [m \in DOMAIN loads \ {n} |-> loads[m]]
        /\ Searching'
    BY <1>5 DEF Consolidate, Searching, CursorTypes
  <2>2. /\ DOMAIN loads' \subseteq Nodes
        /\ loads' \in [DOMAIN loads' -> [pods : SUBSET Pods, cpu : Int]]
    BY <2>1 DEF CursorTypes
  <2>. QED
    BY <1>1, <2>1, <2>2 DEF CursorTypes
<1>6. CASE StartSwaps
  <2>1. /\ UNCHANGED <<loads, movers, expired, improved>> /\ pass' = "swap" /\ Searching'
    BY <1>6 DEF StartSwaps, Searching
  <2>2. \A s : s \in Seq(Movable)' => s \in Seq(Pods)
    <3>1. Movable' \subseteq Pods
      BY DEF Movable
    <3>. QED
      BY <3>1
  <2>3. uids' \in Seq(Pods) /\ partners' \in Seq(Pods) /\ home' \in Nodes
    BY <2>1, <2>2 DEF LocalInv, Cursors
  <2>. QED
    BY <1>1, <2>1, <2>3 DEF CursorTypes
<1>7. CASE TrySwap
  <2>1. /\ UNCHANGED <<loads, uids, home, movers, expired>> /\ improved' \in BOOLEAN
        /\ partners' = Tail(partners) /\ partners # <<>> /\ Searching'
    BY <1>7 DEF TrySwap, Searching, CursorTypes
  <2>2. partners' \in Seq(Pods)
    BY <2>1, HeadTailProperties DEF CursorTypes
  <2>. QED
    BY <1>1, <2>1, <2>2 DEF CursorTypes
<1>8. CASE NextUid
  <2>1. /\ UNCHANGED <<loads, movers, expired, improved>> /\ pass' = "swap" /\ Searching'
    BY <1>8 DEF NextUid, Searching
  <2>2. \A s : s \in Seq(Movable)' => s \in Seq(Pods)
    <3>1. Movable' \subseteq Pods
      BY DEF Movable
    <3>. QED
      BY <3>1
  <2>3. uids' \in Seq(Pods) /\ partners' \in Seq(Pods) /\ home' \in Nodes
    BY <2>1, <2>2 DEF LocalInv, Cursors
  <2>. QED
    BY <1>1, <2>1, <2>3 DEF CursorTypes
<1>9. CASE StartMoves
  <2>1. /\ UNCHANGED <<loads, uids, home, partners, expired, improved>>
        /\ movers' = Movable /\ Searching'
    BY <1>9 DEF StartMoves, Searching
  <2>. QED
    BY <1>1, <2>1 DEF CursorTypes, Movable
<1>10. ASSUME NEW p \in Pods, MovePod(p) PROVE CursorTypes'
  <2>1. /\ UNCHANGED <<loads, uids, home, partners, expired>> /\ improved' \in BOOLEAN
        /\ movers' = movers \ {p} /\ Searching'
    BY <1>10 DEF MovePod, Searching, CursorTypes
  <2>. QED
    BY <1>1, <2>1 DEF CursorTypes
<1>11. CASE EndRound
  <2>1. /\ UNCHANGED <<improved, expired>> /\ Searching'
        /\ loads' = <<>> /\ uids' = <<>> /\ home' = None /\ partners' = <<>> /\ movers' = {}
    BY <1>11 DEF EndRound, Searching
  <2>2. /\ DOMAIN loads' = {}
        /\ loads' \in [DOMAIN loads' -> [pods : SUBSET Pods, cpu : Int]]
    BY <2>1
  <2>3. << >> \in Seq(Pods)
    BY EmptySeq
  <2>. QED
    BY <1>1, <2>1, <2>2, <2>3 DEF CursorTypes
<1>. QED
  BY <1>2, <1>3, <1>4, <1>5, <1>6, <1>7, <1>8, <1>9, <1>10, <1>11 DEF HeuristicStep

LEMMA LayoutKeeps ==
  SolverInv /\ LayoutInv /\ CursorTypes /\ [SolverNext]_solverVars => LayoutInv' /\ CursorTypes'
<1>. SUFFICES ASSUME SolverInv, LayoutInv, CursorTypes, [SolverNext]_solverVars
              PROVE  LayoutInv' /\ CursorTypes'
  OBVIOUS
<1>1. IInv /\ TypeOK /\ LocalInv /\ LocalInv'
  BY SolverKeeps DEF SolverInv, IInv
<1>2. CASE left = {} /\ HeuristicStep /\ UNCHANGED vars
  BY <1>1, <1>2, LayoutStep, CursorStep
<1>3. CASE UNCHANGED heuristicVars
  <2>1. UNCHANGED <<pass, improved, expired, place, inUse, loads, uids, home, partners, movers>>
    BY <1>3 DEF heuristicVars, layout, cursors
  <2>2. CursorTypes'
    BY <2>1 DEF CursorTypes
  <2>3. CASE Searching
    <3>1. UNCHANGED to
      <4>1. left = {}
        BY <1>1, <2>3 DEF LocalInv, Searching
      <4>2. ~Next
        BY <4>1 DEF Next, Consider
      <4>. QED
        BY <4>2 DEF SolverNext, solverVars, vars, FallBack
    <3>2. LoadsThere'
      BY <2>1 DEF LayoutInv, LoadsThere
    <3>. QED
      BY <1>3, <2>1, <2>2, <2>3, <3>1, <3>2, LayoutSame DEF heuristicVars, LayoutInv, Searching
  <2>4. CASE ~Searching
    <3>1. UNCHANGED <<spare, scores, stale, crowded>>
      BY <1>3 DEF heuristicVars, layout, history
    <3>. QED
      BY <2>1, <2>2, <2>4, <3>1 DEF LayoutInv, LayoutTypes, LoadsThere, Searching
  <2>. QED
    BY <2>3, <2>4
<1>. QED
  BY <1>2, <1>3 DEF SolverNext, solverVars, FallBack

LEMMA LayoutStarts == SolverInit => LayoutInv /\ CursorTypes
<1>. SUFFICES ASSUME SolverInit PROVE LayoutInv /\ CursorTypes
  OBVIOUS
<1>1. /\ pass = "off" /\ improved = FALSE /\ expired = FALSE /\ stale = FALSE /\ crowded = FALSE
      /\ place = [p \in Pods |-> None] /\ spare = Capacity /\ scores = [p \in Pods |-> 0]
      /\ inUse = {} /\ loads = <<>> /\ uids = <<>> /\ home = None /\ partners = <<>>
      /\ movers = {}
  BY DEF SolverInit, HeuristicInit
<1>2. Capacity \in [Nodes -> [Resources -> Int]]
  BY ContractAssumption
<1>3. LayoutTypes
  <2>1. stale \in BOOLEAN /\ crowded \in BOOLEAN
    BY <1>1
  <2>2. spare \in [Nodes -> [Resources -> Int]]
    BY <1>1, <1>2
  <2>3. scores \in [Pods -> Int]
    BY <1>1
  <2>. QED
    BY <2>1, <2>2, <2>3 DEF LayoutTypes
<1>4. /\ DOMAIN loads = {}
      /\ loads \in [DOMAIN loads -> [pods : SUBSET Pods, cpu : Int]]
      /\ << >> \in Seq(Pods)
  BY <1>1, EmptySeq
<1>5. CursorTypes
  BY <1>1, <1>4 DEF CursorTypes
<1>. QED
  BY <1>1, <1>3, <1>5 DEF LayoutInv, LoadsThere, Searching

LEMMA LayoutAlways == SolverSpec => [](SolverInv /\ LayoutInv /\ CursorTypes)
  BY SolverAlways, LayoutStarts, LayoutKeeps, PTL DEF SolverSpec

\* Every variable of the local search keeps its type, whatever it moved
\* (heuristic.go:100-380).
THEOREM LocalTyped == SolverSpec => []HeuristicTypeOK
<1>1. SolverInv /\ LayoutInv /\ CursorTypes => HeuristicTypeOK
  <2>. SUFFICES ASSUME SolverInv, LayoutInv, CursorTypes PROVE HeuristicTypeOK
    OBVIOUS
  <2>1. pass = "swap" => home # None
    BY ContractAssumption DEF SolverInv, LocalInv, Cursors, Searching
  <2>. QED
    BY <2>1 DEF HeuristicTypeOK, SolverInv, LocalInv, LayoutInv, LayoutTypes, CursorTypes
<1>. QED
  BY <1>1, LayoutAlways, PTL

\* No move of the local search loses or invents capacity, also when it goes by accounts
\* that are no longer right (heuristic.go:375-434).
THEOREM NothingLost == SolverSpec => []Conserved
<1>1. SolverInv /\ LayoutInv => Conserved
  <2>. SUFFICES ASSUME SolverInv, LayoutInv, Searching, NEW r \in Resources
                PROVE  SumFunctionOnSet([n \in Nodes |-> spare[n][r]], Nodes) =
                         SumFunctionOnSet([n \in Nodes |-> Remaining(place, n, r)], Nodes)
    BY DEF Conserved
  <2>. DEFINE f == [n \in Nodes |-> spare[n][r]]
              g == [n \in Nodes |-> Remaining(place, n, r)]
  <2>1. TypeOK /\ SamePods /\ Weigh /\ LayoutTypes /\ place \in Layouts
    BY DEF SolverInv, IInv, LocalInv, LayoutInv, SamePods, Layouts
  <2>2. SumFunctionOnSet(f, Nodes) + Demand(Movable, r)
          = SumFunctionOnSet(g, Nodes) + Demand(Movable, r)
    <3>1. PICK t \in Layouts : t = place
      BY <2>1
    <3>2. SumFunctionOnSet([n \in Nodes |-> Remaining(t, n, r)], Nodes) + Demand(Movable, r)
            = SumFunctionOnSet([n \in Nodes |-> Capacity[n][r]], Nodes)
      BY <2>1, <3>1, RemainingSum DEF SamePods
    <3>. QED
      BY <2>1, <3>1, <3>2 DEF Weigh
  <2>3. \A n \in Nodes : f[n] \in Int /\ g[n] \in Int
    BY <2>1, RemainingInt DEF LayoutTypes
  <2>4. Summable(f, Nodes) /\ Summable(g, Nodes)
    BY <2>3, ContractAssumption DEF Summable
  <2>5. Demand(Movable, r) \in Nat
    BY <2>1, MovableMeans, DemandNat
  <2>. HIDE DEF f, g
  <2>6. SumFunctionOnSet(f, Nodes) \in Int /\ SumFunctionOnSet(g, Nodes) \in Int
    BY <2>4, SumInt
  <2>7. SumFunctionOnSet(f, Nodes) = SumFunctionOnSet(g, Nodes)
    <3>1. \A i, j \in Int, k \in Nat : i + k = j + k => i = j
      OBVIOUS
    <3>. QED
      BY <2>2, <2>5, <2>6, <3>1
  <2>. QED
    BY <2>7 DEF f, g
<1>. QED
  BY <1>1, LayoutAlways, PTL

\* Until a swap is made from a home its pod has left, the accounts of each machine are
\* right; and until pods are moved into one machine together, none is overfilled
\* (heuristic.go:244, 355).
THEOREM AccountsRight == SolverSpec => []AccountsHonest
<1>1. LayoutInv => AccountsHonest
  BY DEF LayoutInv, Honest, AccountsHonest
<1>. QED
  BY <1>1, LayoutAlways, PTL
================================================================================
