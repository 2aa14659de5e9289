---------------------------------- MODULE Exact ----------------------------------
(****************************************************************************)
(* internal/solver/exact.go: branch and bound over all placements, seeded   *)
(* with the greedy plan.  A call of branch decides about one pod; it tries  *)
(* the machines in the order they were listed, undoes each trial, and last  *)
(* leaves the pod out.  One step enters a call, tries a machine, or returns *)
(* from a call.                                                             *)
(*                                                                          *)
(* The clock is read at some of the calls; that it runs out is possible at  *)
(* any of them.                                                             *)
(****************************************************************************)
EXTENDS Greedy, Sequences

CONSTANT Sorted  \* the pods, in the order of sortPodsByDemand

ASSUME ExactAssumption ==
  /\ Sorted \in [1..Cardinality(Pods) -> Pods]
  /\ \A p \in Pods : \E i \in DOMAIN Sorted : Sorted[i] = p
  /\ \A i, j \in DOMAIN Sorted : i < j => ~Before(Sorted[j], Sorted[i])

VARIABLES at,         \* what the search does next
          stack,      \* the calls of branch that are trying machines
          path,       \* assignments
          score,      \* currentScore
          room,       \* the RemainingCPU and RemainingMemory of its own copies
          used,       \* nodesUsed
          spent,      \* powerOnsUsed
          best,       \* bestAssign
          bestScore,  \* bestScore
          timedOut    \* timedOut

search == <<path, score, room, used, spent>>
incumbent == <<best, bestScore>>
exactVars == <<at, stack, search, incumbent, timedOut>>

\* A call is trying Listed[next], or leaves its pod out; fresh and paid are what
\* the trial changed of nodesUsed and powerOnsUsed.
LeaveOut == Cardinality(Nodes) + 1
Calls == [next : 1..LeaveOut, fresh : BOOLEAN, paid : 0..1]
CallAt(i) == [next |-> i, fresh |-> FALSE, paid |-> 0]

Top == stack[Len(stack)]
Pod == Sorted[Len(stack)]
AllDecided == Len(stack) = Len(Sorted)

\* scoreMatrix: the flags are those of the input, and no pod prefers a machine.
Worth(n) == Score(base[n], view[n].ready)
Value(t) ==
  SumFunctionOnSet([p \in Pods |-> IF t[p] = None THEN 0 ELSE Worth(t[p])], Pods)

\* Mutant: the bound of the machines seen first.
BoundFirst == (Len(Sorted) - Len(stack)) * Worth(Listed[1])

\* suffixBound: what the pods not yet decided may add at most.
Bound == (Len(Sorted) - Len(stack)) * Max({0} \cup {Worth(n) : n \in Nodes})

\* Mutant: memory is not looked at.
FitsHereCpu(n) == Request[Pod]["cpu"] <= room[n]["cpu"]

FitsHere(n) == \A r \in Resources : Request[Pod][r] <= room[n][r]

\* Mutants: a machine in use is charged again; none is charged.
CostsAgain(n) == view[n].offline
CostsNothing(n) == FALSE

Costs(n) == view[n].offline /\ n \notin used
Open(i) ==
  /\ FitsHere(Listed[i])
  /\ ~(Costs(Listed[i]) /\ spent >= MaxPowerOns)

\* Mutant: every machine that is not wanted gives its power-on back.
RefundOffline == IF view[Listed[Top.next]].offline THEN 1 ELSE 0

\* powerOnDelta.
Refund == Top.paid

\* Mutant: the seed is a score without a placement.
Unseeded == [p \in Pods |-> None]

Seed == to

--------------------------------------------------------------------------------
\* With no time left the greedy plan is the answer.
GiveUp ==
  /\ at = "off"
  /\ at' = "given"
  /\ timedOut' = TRUE
  /\ UNCHANGED <<stack, search, incumbent>>

StartSearch ==
  /\ at = "off"
  /\ at' = "call"
  /\ best' = Seed
  /\ bestScore' = GreedyTotal
  /\ UNCHANGED <<stack, search, timedOut>>

TimeOut ==
  /\ at = "call"
  /\ timedOut' = TRUE
  /\ at' = "return"
  /\ UNCHANGED <<stack, search, incumbent>>

Improve ==
  /\ at = "call"
  /\ AllDecided
  /\ IF score > bestScore THEN best' = path /\ bestScore' = score
                          ELSE UNCHANGED incumbent
  /\ at' = "return"
  /\ UNCHANGED <<stack, search, timedOut>>

Prune ==
  /\ at = "call"
  /\ ~AllDecided
  /\ score + Bound <= bestScore
  /\ at' = "return"
  /\ UNCHANGED <<stack, search, incumbent, timedOut>>

Branch ==
  /\ at = "call"
  /\ ~AllDecided
  /\ score + Bound > bestScore
  /\ stack' = Append(stack, CallAt(1))
  /\ at' = "try"
  /\ UNCHANGED <<search, incumbent, timedOut>>

\* The next machine with room and within the budget.
Try(i) ==
  /\ at = "try" /\ ~timedOut
  /\ i >= Top.next /\ Open(i)
  /\ \A j \in Top.next..(i - 1) : ~Open(j)
  /\ LET n == Listed[i]
     IN  /\ stack' = [stack EXCEPT ![Len(stack)] =
                        [next |-> i, fresh |-> n \notin used,
                         paid |-> IF Costs(n) THEN 1 ELSE 0]]
         /\ path' = [path EXCEPT ![Pod] = n]
         /\ score' = score + Worth(n)
         /\ room' = [room EXCEPT ![n] = [r \in Resources |-> @[r] - Request[Pod][r]]]
         /\ used' = used \cup {n}
         /\ spent' = spent + IF Costs(n) THEN 1 ELSE 0
  /\ at' = "call"
  /\ UNCHANGED <<incumbent, timedOut>>

\* Every machine was tried; also after a timeout in the trial of the last one.
LeavePodOut ==
  /\ at = "try"
  /\ ~timedOut \/ Top.next = LeaveOut
  /\ \A j \in Top.next..Cardinality(Nodes) : ~Open(j)
  /\ stack' = [stack EXCEPT ![Len(stack)].next = LeaveOut]
  /\ at' = "call"
  /\ UNCHANGED <<search, incumbent, timedOut>>

Abandon ==
  /\ at = "try" /\ timedOut
  /\ Top.next # LeaveOut
  /\ stack' = SubSeq(stack, 1, Len(stack) - 1)
  /\ at' = "return"
  /\ UNCHANGED <<search, incumbent, timedOut>>

Undo ==
  /\ at = "return" /\ stack # <<>>
  /\ Top.next # LeaveOut
  /\ LET n == Listed[Top.next]
     IN  /\ path' = [path EXCEPT ![Pod] = None]
         /\ score' = score - Worth(n)
         /\ room' = [room EXCEPT ![n] = [r \in Resources |-> @[r] + Request[Pod][r]]]
         /\ used' = IF Top.fresh THEN used \ {n} ELSE used
         /\ spent' = spent - Refund
  /\ stack' = [stack EXCEPT ![Len(stack)] = CallAt(Top.next + 1)]
  /\ at' = "try"
  /\ UNCHANGED <<incumbent, timedOut>>

Return ==
  /\ at = "return" /\ stack # <<>>
  /\ Top.next = LeaveOut
  /\ stack' = SubSeq(stack, 1, Len(stack) - 1)
  /\ UNCHANGED <<at, search, incumbent, timedOut>>

EndSearch ==
  /\ at = "return" /\ stack = <<>>
  /\ at' = "done"
  /\ UNCHANGED <<stack, search, incumbent, timedOut>>

ExactInit ==
  /\ at = "off"
  /\ stack = <<>>
  /\ path = [p \in Pods |-> None]
  /\ score = 0
  /\ room = Capacity
  /\ used = {}
  /\ spent = inFlight
  /\ best = [p \in Pods |-> None]
  /\ bestScore = 0
  /\ timedOut = FALSE

ExactStep ==
  \/ GiveUp \/ StartSearch
  \/ TimeOut \/ Improve \/ Prune \/ Branch
  \/ \E i \in 1..Cardinality(Nodes) : Try(i)
  \/ LeavePodOut \/ Abandon \/ Undo \/ Return \/ EndSearch

Flagged(t) == {p \in Pods : t[p] \in Offline(view)}
ExactPlan == IF at = "given" THEN GreedyPlan ELSE [to |-> best, wake |-> Flagged(best)]

--------------------------------------------------------------------------------
ExactTypeOK ==
  /\ at \in {"off", "given", "call", "try", "return", "done"}
  /\ Len(stack) <= Cardinality(Pods)
  /\ stack \in [1..Len(stack) -> Calls]
  /\ path \in [Pods -> Nodes \cup {None}]
  /\ score \in Int
  /\ room \in [Nodes -> [Resources -> Int]]
  /\ used \subseteq Nodes
  /\ spent \in Nat
  /\ best \in [Pods -> Nodes \cup {None}]
  /\ bestScore \in Int
  /\ timedOut \in BOOLEAN

\* A call has chosen when it waits for the call below: the pods above the top of
\* the stack are where the calls put them, all others are nowhere; and what a call
\* is going to undo is what it did.
Chosen(i) == i < Len(stack) \/ (i = Len(stack) /\ at # "try")
TrialHonest(i) ==
  IF Chosen(i) /\ stack[i].next # LeaveOut
    THEN LET n == Listed[stack[i].next]
         IN  /\ path[Sorted[i]] = n
             /\ stack[i].fresh <=> \A j \in 1..(i - 1) : path[Sorted[j]] # n
             /\ stack[i].paid = IF stack[i].fresh /\ view[n].offline THEN 1 ELSE 0
    ELSE path[Sorted[i]] = None

TrialsHonest == \A i \in DOMAIN Sorted : TrialHonest(i)

\* However deep the search is and whatever it undid on the way, the machines it
\* counts as used and the power-ons it counts as spent are those of the path it is
\* on (exact.go:284-310).
SpendingHonest ==
  /\ used = Used(path)
  /\ spent = inFlight + Cardinality(Used(path) \cap Offline(view))

\* Every call above the current one is as it was, and the capacity left and the
\* score are those of the path as well.
PathHonest ==
  at # "off" =>
    /\ TrialsHonest
    /\ \A n \in Nodes, r \in Resources : room[n][r] = Remaining(path, n, r)
    /\ score = Value(path)

\* Out of time or not, the answer of the search wakes no more than the policy
\* allows, every machine not wanted counted, unless it is the seed, for which greedy
\* counted the cold ones.
BestWithinBudget ==
  at \notin {"off", "given"} =>
    best = to \/ WithinBudget(best, Offline(view), MaxPowerOns - inFlight)

\* The search never takes a placement that is too big, also when it runs out of
\* time, and its answer is worth at least as much as the greedy seed, by its own
\* scores: "which is at least as good as greedy" (exact.go:40-41).
IncumbentSound ==
  at \notin {"off", "given"} => WithinCapacity(best) /\ Value(best) >= Value(to)

\* "Finds the optimal pod-to-node assignment" (exact.go:39): with the time to
\* finish, pruning and all, no feasible placement beats the score to beat, which
\* is that of the answer whenever greedy's total was that of its placement.
Exhaustive ==
  at = "done" /\ ~timedOut =>
    /\ \A t \in Placements(Pods, view) :
         Feasible(t, view, MaxPowerOns - inFlight) => Value(t) <= bestScore
    /\ GreedyTotal = Value(to) => bestScore = Value(best)

\* The same without the condition, which does not hold: greedy counts the bonus of
\* a machine it has just decided to wake, the search does not (exact.go:116).
Optimal ==
  at = "done" /\ ~timedOut =>
    \A t \in Placements(Pods, view) :
      Feasible(t, view, MaxPowerOns - inFlight) => Value(t) <= Value(best)
================================================================================
