-------------------------------- MODULE Heuristic --------------------------------
(****************************************************************************)
(* internal/solver/heuristic.go: a local search that starts from the greedy *)
(* plan.  Rounds of three passes - empty a machine, swap two pods, move one *)
(* pod - are repeated until a round improves nothing or the time is up.     *)
(*                                                                          *)
(* The scores of the moves are those of machines without a base score:      *)
(* greedy computes base scores in a copy of its own, and the search copies  *)
(* the input.  The maps of pods are iterated in any order.                  *)
(****************************************************************************)
EXTENDS Greedy, Sequences

VARIABLES pass,       \* what the search does next
          improved,   \* improved, of the round
          place,      \* podAssignment
          spare,      \* the RemainingCPU and RemainingMemory of nodes
          scores,     \* scores
          inUse,      \* nodesUsed
          loads,      \* loads: the pods and the cpu of the machines to be emptied
          uids,       \* the pods still to be swapped, in the order of the pass
          home,       \* nodeAName: where the first of them was
          partners,   \* the pods it is still to be swapped with
          movers,     \* the pods still to be moved
          expired,    \* the deadline has passed
          stale,      \* history: a swap was made from a home its pod had left
          crowded     \* history: a machine was emptied into one the pods only fit one by one

layout == <<place, spare, scores, inUse>>
cursors == <<loads, uids, home, partners, movers>>
history == <<stale, crowded>>
heuristicVars == <<pass, improved, layout, cursors, expired, history>>

\* Mutant: the pods greedy could not place are looked at as well.
Everything == Pods

Movable == {p \in Pods : to[p] # None}
Orders(S) == {f \in [1..Cardinality(S) -> S] :
                \A i, j \in DOMAIN f : i # j => f[i] # f[j]}

\* ComputeAssignmentScore of a move; the machines greedy woke count as ready.
MoveScore(n) == Score(0, flags[n].ready)

\* Mutant: memory is not looked at.
FitsTherePartly(p, n) == Request[p]["cpu"] <= spare[n]["cpu"]

FitsThere(p, n) == \A r \in Resources : Request[p][r] <= spare[n][r]
Options(p) == {n \in Nodes \ {place[p]} : FitsThere(p, n)}

\* The first listed machine with the highest score.
ListedBefore(m, n) == \E i, j \in DOMAIN Listed : i < j /\ Listed[i] = m /\ Listed[j] = n
FirstBest(choices) ==
  {n \in choices : \A m \in choices \ {n} :
     \/ MoveScore(n) > MoveScore(m)
     \/ MoveScore(n) = MoveScore(m) /\ ListedBefore(n, m)}

\* applyRelocate, for each of the pods of one machine.
Relocate(ps, from, target) ==
  /\ place' = [p \in Pods |-> IF p \in ps THEN target[p] ELSE place[p]]
  /\ spare' = [n \in Nodes |-> [r \in Resources |->
                 spare[n][r] + (IF n = from THEN Demand(ps, r) ELSE 0)
                             - Demand({p \in ps : target[p] = n}, r)]]
  /\ scores' = [p \in Pods |-> IF p \in ps THEN MoveScore(target[p]) ELSE scores[p]]
  /\ inUse' = (inUse \cup {target[p] : p \in ps})
                \ (IF On(place', from) = {} THEN {from} ELSE {})
  /\ crowded' = (crowded \/ \E p, q \in ps : p # q /\ target[p] = target[q])
  /\ UNCHANGED stale

--------------------------------------------------------------------------------
\* Fewer than two assignments: nothing to improve.
KeepGreedy ==
  /\ pass = "off"
  /\ Cardinality(Movable) < 2
  /\ pass' = "given"
  /\ UNCHANGED <<improved, layout, cursors, expired, history>>

\* buildSearchState.
StartLocal ==
  /\ pass = "off"
  /\ Cardinality(Movable) >= 2
  /\ pass' = "round"
  /\ improved' = TRUE
  /\ place' = to
  /\ spare' = [n \in Nodes |-> [r \in Resources |-> Remaining(to, n, r)]]
  /\ scores' = [p \in Pods |-> GreedyScore(p)]
  /\ inUse' = Used(to)
  /\ UNCHANGED <<cursors, expired, history>>

\* Mutant: no deadline.
ExpireNever == FALSE /\ UNCHANGED heuristicVars

\* The deadline passes; every loop looks at the clock before its next turn.
Expire ==
  /\ pass \notin {"off", "given", "done"}
  /\ ~expired
  /\ expired' = TRUE
  /\ UNCHANGED <<pass, improved, layout, cursors, history>>

StartRound ==
  /\ pass = "round"
  /\ improved /\ ~expired
  /\ pass' = "consolidate"
  /\ improved' = FALSE
  /\ loads' = [n \in {m \in inUse : On(place, m) # {}} |->
                 [pods |-> On(place, n), cpu |-> Capacity[n]["cpu"] - spare[n]["cpu"]]]
  /\ UNCHANGED <<layout, uids, home, partners, movers, expired, history>>

\* tryConsolidate: the lightest machine next.  Every pod gets its target before
\* any of them moves, and all move or none.
Consolidate(n) ==
  /\ pass = "consolidate" /\ ~expired
  /\ n \in DOMAIN loads
  /\ \A m \in DOMAIN loads : loads[n].cpu <= loads[m].cpu
  /\ loads' = [m \in DOMAIN loads \ {n} |-> loads[m]]
  /\ IF \A p \in loads[n].pods : Options(p) # {}
       THEN /\ \E target \in [loads[n].pods -> Nodes] :
                 /\ \A p \in loads[n].pods : target[p] \in FirstBest(Options(p))
                 /\ Relocate(loads[n].pods, n, target)
            /\ improved' = TRUE
       ELSE UNCHANGED <<improved, layout, history>>
  /\ UNCHANGED <<pass, uids, home, partners, movers, expired>>

StartSwaps ==
  /\ pass = "consolidate" /\ ~expired
  /\ DOMAIN loads = {}
  /\ pass' = "swap"
  /\ \E order \in Orders(Movable) :
       /\ uids' = order
       /\ home' = place[order[1]]
       /\ partners' = Tail(order)
  /\ UNCHANGED <<improved, layout, loads, movers, expired, history>>

\* swapFeasible.
SwapFits(p, q, away) ==
  \A r \in Resources :
    /\ spare[home][r] + Request[p][r] - Request[q][r] >= 0
    /\ spare[away][r] + Request[q][r] - Request[p][r] >= 0
SwapPays(p, q, away) == MoveScore(away) + MoveScore(home) > scores[p] + scores[q]

\* Mutant: the other machine keeps its account.
SwappedOnce(p, q, away) ==
  [spare EXCEPT ![home] = [r \in Resources |-> @[r] + Request[p][r] - Request[q][r]]]

Swapped(p, q, away) ==
  [spare EXCEPT ![home] = [r \in Resources |-> @[r] + Request[p][r] - Request[q][r]],
                ![away] = [r \in Resources |-> @[r] + Request[q][r] - Request[p][r]]]

\* applySwap: home is where p was when its turn began.
ApplySwap(p, q, away) ==
  /\ place' = [place EXCEPT ![p] = away, ![q] = home]
  /\ spare' = Swapped(p, q, away)
  /\ scores' = [scores EXCEPT ![p] = MoveScore(away), ![q] = MoveScore(home)]
  /\ stale' = (stale \/ place[p] # home)
  /\ UNCHANGED <<inUse, crowded>>

TrySwap ==
  /\ pass = "swap" /\ ~expired
  /\ partners # <<>>
  /\ LET p == Head(uids)
         q == Head(partners)
         away == place[q]
     IN  IF home # away /\ SwapFits(p, q, away) /\ SwapPays(p, q, away)
           THEN ApplySwap(p, q, away) /\ improved' = TRUE
           ELSE UNCHANGED <<improved, layout, history>>
  /\ partners' = Tail(partners)
  /\ UNCHANGED <<pass, loads, uids, home, movers, expired>>

NextUid ==
  /\ pass = "swap" /\ ~expired
  /\ partners = <<>> /\ Len(uids) > 1
  /\ uids' = Tail(uids)
  /\ home' = place[uids[2]]
  /\ partners' = Tail(Tail(uids))
  /\ UNCHANGED <<pass, improved, layout, loads, movers, expired, history>>

StartMoves ==
  /\ pass = "swap" /\ ~expired
  /\ partners = <<>> /\ Len(uids) = 1
  /\ pass' = "relocate"
  /\ movers' = Movable
  /\ UNCHANGED <<improved, layout, loads, uids, home, partners, expired, history>>

\* tryRelocations: worth it for a higher score, or to free the machine.
Gain(p, n) ==
  MoveScore(n) - scores[p] + IF On(place, place[p]) = {p} THEN Bonus \div 2 ELSE 0

MovePod(p) ==
  /\ pass = "relocate" /\ ~expired
  /\ p \in movers
  /\ movers' = movers \ {p}
  /\ LET better == {n \in Options(p) : Gain(p, n) > 0}
     IN  IF better # {}
           THEN /\ \E n \in FirstBest(better) : Relocate({p}, place[p], [q \in {p} |-> n])
                /\ improved' = TRUE
           ELSE UNCHANGED <<improved, layout, history>>
  /\ UNCHANGED <<pass, loads, uids, home, partners, expired>>

EndRound ==
  /\ pass \in {"consolidate", "swap", "relocate"}
  /\ expired \/ (pass = "relocate" /\ movers = {})
  /\ pass' = "round"
  /\ loads' = <<>> /\ uids' = <<>> /\ home' = None /\ partners' = <<>> /\ movers' = {}
  /\ UNCHANGED <<improved, layout, expired, history>>

EndLocal ==
  /\ pass = "round"
  /\ ~improved \/ expired
  /\ pass' = "done"
  /\ UNCHANGED <<improved, layout, cursors, expired, history>>

HeuristicInit ==
  /\ pass = "off"
  /\ improved = FALSE
  /\ place = [p \in Pods |-> None]
  /\ spare = Capacity
  /\ scores = [p \in Pods |-> 0]
  /\ inUse = {}
  /\ loads = <<>> /\ uids = <<>> /\ home = None /\ partners = <<>> /\ movers = {}
  /\ expired = FALSE
  /\ stale = FALSE /\ crowded = FALSE

HeuristicStep ==
  \/ KeepGreedy \/ StartLocal \/ Expire \/ StartRound
  \/ \E n \in Nodes : Consolidate(n)
  \/ StartSwaps \/ TrySwap \/ NextUid \/ StartMoves
  \/ \E p \in Pods : MovePod(p)
  \/ EndRound \/ EndLocal

\* Mutant: the flag of the machine as it was given.
AsksAgain(p) == view[place[p]].offline

Asks(p) == NeedsWake(place[p])

\* stateToOutput.
HeuristicPlan ==
  IF pass = "given" THEN GreedyPlan
  ELSE [to |-> place, wake |-> {p \in Movable : Asks(p)}]

--------------------------------------------------------------------------------
Searching == pass \notin {"off", "given"}

HeuristicTypeOK ==
  /\ pass \in {"off", "given", "round", "consolidate", "swap", "relocate", "done"}
  /\ improved \in BOOLEAN /\ expired \in BOOLEAN /\ stale \in BOOLEAN /\ crowded \in BOOLEAN
  /\ place \in [Pods -> Nodes \cup {None}]
  /\ spare \in [Nodes -> [Resources -> Int]]
  /\ scores \in [Pods -> Int]
  /\ inUse \subseteq Nodes
  /\ DOMAIN loads \subseteq Nodes
  /\ loads \in [DOMAIN loads -> [pods : SUBSET Pods, cpu : Int]]
  /\ uids \in Seq(Pods) /\ partners \in Seq(Pods)
  /\ home \in Nodes \cup {None}
  /\ pass = "swap" => home # None
  /\ movers \subseteq Pods

\* Nothing is lost or gained over any number of moves: what all machines together
\* have left is what the placement leaves them, even where the accounts of two
\* machines no longer agree with their pods (heuristic.go:375-434).
Conserved ==
  Searching =>
    \A r \in Resources :
      SumFunctionOnSet([n \in Nodes |-> spare[n][r]], Nodes) =
        SumFunctionOnSet([n \in Nodes |-> Remaining(place, n, r)], Nodes)

\* The accounts of each machine agree with its pods, and with the machines counted
\* as used, as long as no swap is made from a home its pod has left
\* (heuristic.go:244); and no machine is filled beyond what it declares unless
\* several pods were moved into one together (heuristic.go:355).
AccountsHonest ==
  Searching /\ ~stale =>
    /\ \A n \in Nodes, r \in Resources : spare[n][r] = Remaining(place, n, r)
    /\ inUse = Used(place)
    /\ crowded \/ WithinCapacity(place)

\* What the planner relies on: the pods greedy placed, on any machines, and the
\* machines greedy woke are not asked for again.
HeuristicKeepsContract ==
  pass \in {"given", "done"} =>
    IF Small(GreedyPlan) THEN HeuristicPlan = GreedyPlan
                         ELSE HeuristicPlan \in SearchedPlans(GreedyPlan, view)

\* "Check capacity on target" (heuristic.go:199), "Check if swap is
\* capacity-feasible" (heuristic.go:260): no machine gets more than it declares.
NeverOverfilled == pass = "done" => WithinCapacity(place)
================================================================================
