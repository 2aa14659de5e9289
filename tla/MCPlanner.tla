------------------------------- MODULE MCPlanner -------------------------------
(* Instances of Planner for TLC. *)
EXTENDS Planner, TLC

CONSTANTS n1, n2, n3, p1, p2

TwoNodes == {n1, n2}
ThreeNodes == {n1, n2, n3}
OneNode == {n1}
OnePod == {p1}
TwoPods == {p1, p2}
Symmetry == Permutations(Nodes) \cup Permutations(Pods)

\* What owners and the autoscaler write.
SwitchOn == {"Online"}
SwitchOnAndOff == {"Online", "Offline"}

\* A machine holds one pod, so that two pods need two machines; or both.
Cpu == {"cpu"}
OneEach == [p \in Pods |-> [r \in Resources |-> 1]]
RoomForOne == [n \in Nodes |-> [r \in Resources |-> 1]]
RoomForTwo == [n \in Nodes |-> [r \in Resources |-> 2]]
================================================================================
