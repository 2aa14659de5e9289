-------------------------------- MODULE MCSolver --------------------------------
(* Instances of the solvers for TLC. *)
EXTENDS Solver, TLC

CONSTANTS n1, n2, n3, p1, p2, p3

TwoNodes == {n1, n2}
ThreeNodes == {n1, n2, n3}
NodeList == <<n1, n2, n3>>
ThreePods == {p1, p2, p3}
PodList == <<p1, p2, p3>>
Both == {"cpu", "memory"}
Of(c, m) == [r \in Resources |-> IF r = "cpu" THEN c ELSE m]

\* One pod that asks for twice the cpu, and two alike.
MixedRequests == (p1 :> Of(2, 1)) @@ (p2 :> Of(1, 1)) @@ (p3 :> Of(1, 1))

\* Two short of memory, one with room for most.
MixedCapacity == (n1 :> Of(2, 1)) @@ (n2 :> Of(2, 2)) @@ (n3 :> Of(2, 1))

\* A policy that favours one machine and penalizes another more than readiness
\* makes up for.
Policy == {(n1 :> -120) @@ (n2 :> 120) @@ (n3 :> 40)}
================================================================================
