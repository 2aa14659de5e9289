----------------------------- MODULE NodeLifecycle -----------------------------
(****************************************************************************)
(* What the RcNode controller promises about each simulated machine, seen   *)
(* through three facts only: the phase its owner wants (spec.desiredPhase), *)
(* the phase the controller reports (status.currentPhase), and whether the  *)
(* Kubernetes Node of the same name exists.  Caches, work queue, finalizer, *)
(* conflicts, retries and crashes of RcNodeController are not visible here. *)
(* RcNodeController implements this module; Planner builds on it.           *)
(****************************************************************************)
EXTENDS Naturals

CONSTANT Nodes                 \* names of RcNodes

VARIABLES desired,             \* desired[n]: spec.desiredPhase of n
          phase,               \* phase[n]: status.currentPhase, or "gone"
          up                   \* the names whose Kubernetes Node exists

lifeVars == <<desired, phase, up>>

\* "Error" stands for both enum values no transition mentions.
Phases == {"Offline", "Booting", "Online", "Error"}
Reported == {"unset", "Offline", "Booting", "Online"}
Powered == {"Booting", "Online"}

LifeTypeOK ==
  /\ desired \in [Nodes -> Phases]
  /\ phase \in [Nodes -> Reported \cup {"gone"}]
  /\ up \subseteq Nodes

LifeInit ==
  /\ desired = [n \in Nodes |-> "Offline"]
  /\ phase = [n \in Nodes |-> "gone"]
  /\ up = {}

Report(n, p) == phase' = [phase EXCEPT ![n] = p]

(****************************************************************************)
(* The owner: a user, the planner's wake, or the cluster autoscaler.        *)
(****************************************************************************)
Appear(n, d) ==
  /\ phase[n] = "gone"
  /\ Report(n, "unset")
  /\ desired' = [desired EXCEPT ![n] = d]
  /\ UNCHANGED up

Want(n, d) ==
  /\ phase[n] # "gone"
  /\ desired' = [desired EXCEPT ![n] = d]
  /\ UNCHANGED <<phase, up>>

(****************************************************************************)
(* The controller.                                                          *)
(****************************************************************************)
InitOffline(n) ==
  /\ phase[n] = "unset"
  /\ desired[n] = "Offline"
  /\ Report(n, "Offline")
  /\ UNCHANGED <<desired, up>>

BeginBoot(n) ==
  /\ phase[n] \in {"unset", "Offline"}
  /\ desired[n] \in Powered
  /\ n \notin up
  /\ Report(n, "Booting")
  /\ UNCHANGED <<desired, up>>

Join(n) ==
  /\ phase[n] \in Powered
  /\ up' = up \cup {n}
  /\ UNCHANGED <<desired, phase>>

Promote(n) ==
  /\ phase[n] = "Booting"
  /\ desired[n] = "Booting"
  /\ desired' = [desired EXCEPT ![n] = "Online"]
  /\ UNCHANGED <<phase, up>>

ComeOnline(n) ==
  /\ phase[n] = "Booting"
  /\ Report(n, "Online")
  /\ UNCHANGED <<desired, up>>

\* The Node goes: by the controller's shutdown, or behind its back.
Leave(n) ==
  /\ up' = up \ {n}
  /\ UNCHANGED <<desired, phase>>

GoOffline(n) ==
  /\ phase[n] \in Powered
  /\ desired[n] = "Offline"
  /\ n \notin up
  /\ Report(n, "Offline")
  /\ UNCHANGED <<desired, up>>

\* The RcNode disappears, never before its Node.
Vanish(n) ==
  /\ phase[n] # "gone"
  /\ n \notin up
  /\ Report(n, "gone")
  /\ desired' = [desired EXCEPT ![n] = "Offline"]
  /\ UNCHANGED up

ControllerStep(n) ==
  \/ InitOffline(n) \/ BeginBoot(n) \/ Join(n) \/ Promote(n) \/ ComeOnline(n)
  \/ Leave(n) \/ GoOffline(n) \/ Vanish(n)

OwnerStep(n) == \E d \in Phases : Appear(n, d) \/ Want(n, d)

LifeNext == \E n \in Nodes : ControllerStep(n) \/ OwnerStep(n)

LifeSpec == LifeInit /\ [][LifeNext]_lifeVars
================================================================================
