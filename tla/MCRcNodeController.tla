--------------------------- MODULE MCRcNodeController ---------------------------
(* Instances of RcNodeController for TLC. *)
EXTENDS RcNodeController, TLC

CONSTANTS r1, r2

OneNode == {r1}
TwoNodes == {r1, r2}

\* Every value of the enum, and the two the other components write.
AnyPhase == Phases
WakeAndSleep == {"Offline", "Online"}
OnlineOnly == {"Online"}

================================================================================
