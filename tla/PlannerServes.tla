----------------------------- MODULE PlannerServes -----------------------------
(****************************************************************************)
(* Whether Planner ever releases what it assigns.  A pod is labelled once   *)
(* and its machine is woken once; a history variable tells the machines     *)
(* apart whose wake did not arrive.                                         *)
(****************************************************************************)
EXTENDS Planner

VARIABLE missed  \* machines whose wake was refused, or lost with a pod or a process

servesVars == <<vars, missed>>

RememberMisses ==
  missed' = missed \cup {n \in Nodes : PatchWakeFails(n)}
                   \cup {plan.to[p] : p \in {q \in plan.wake : PatchPodFails(q)}}
                   \cup CASE ~Restart        -> {}
                          [] pc = "apply"    -> Targets(plan)
                          [] OTHER           -> toWake \cup ({waking} \ {None})

ServesInit == Init /\ missed = {}

\* A release that is tried again and again, tick after tick, is granted.
ServesSpec ==
  /\ ServesInit
  /\ [][Next /\ RememberMisses]_servesVars
  /\ Fairness
  /\ \A p \in Pods : SF_vars(Release(p))

--------------------------------------------------------------------------------
\* A pod that has a target is released, so its machine is woken in time and no
\* label is ever given away for nothing, whatever gates of other controllers it was
\* created with (ApplyAssignments, processAssignedPods, addSchedulingGate), if ticks
\* get as far as the release pass again and again.  It waits for ever only if its
\* Node is there and not Ready (periodic_reconciler.go:561), or if a wake of its
\* machine did not arrive, as nothing repeats it (assignment_applier.go:95, 101,
\* 102).  Not so in namespace monitoring, whose pods the webhook does not gate but
\* the planner assigns if they have a gate of their own (periodic_reconciler.go:642).
AssignedIsReleased ==
  []<>(pc = "release") =>
    \A p \in Pods :
      (pods[p].ns = "user" /\ p \in Assigned(pods))
        ~> (\/ ~pods[p].up \/ pods[p].selector # None
            \/ pods[p].label \in (up \ ready) \cup missed)
================================================================================
