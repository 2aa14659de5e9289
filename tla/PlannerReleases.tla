---------------------------- MODULE PlannerReleases ----------------------------
(****************************************************************************)
(* The release pass of Planner works from lists of pods and Nodes that may  *)
(* be a solver run old.  Two history variables say what became of them.     *)
(****************************************************************************)
EXTENDS Planner

VARIABLES lost,     \* listed Nodes that have been Ready and have ceased to be since
          replaced  \* listed pods that have been deleted since

releaseVars == <<vars, lost, replaced>>

RememberLosses ==
  /\ lost' = seen'.nodes \cap (lost \cup (ready \ ready'))
  /\ replaced' = {p \in Pods : /\ seen'.pods[p].up
                               /\ p \in replaced \/ (pods[p].up /\ ~pods'[p].up)}

ReleaseInit == Init /\ lost = {} /\ replaced = {}

ReleaseSpec == ReleaseInit /\ [][Next /\ RememberLosses]_releaseVars

--------------------------------------------------------------------------------
\* "When the target K8s Node exists and is Ready, it ... removes the gate"
\* (periodic_reconciler.go:519-520): a pod loses its gate only for a Node that is
\* Ready, or was when the tick listed it and has been lost since; and only for its
\* own target, unless it was deleted since and this is another pod of its name.
ReleasedToNode ==
  [][\A p \in Pods : p \in Held(pods) /\ pods'[p].up /\ p \notin Held(pods')
       => /\ pods'[p].selector \in ready \cup lost
          /\ pods'[p].selector = pods[p].label \/ p \in replaced]_vars

\* Why: the only ways in which what the lists said of Nodes and of targets becomes
\* wrong before it is used.
ListsHold ==
  /\ seen.nodes \subseteq ready \cup lost
  /\ \A ps \in {pods, seen.pods}, p \in Pods : ps[p].label # None => ps[p].up
  /\ \A p \in Pods :
       seen.pods[p].label # None => pods[p].label = seen.pods[p].label \/ p \in replaced
  /\ pc = "release" => \A p \in todo : seen.pods[p].label \in seen.nodes

ReleaseInv == LabelInv /\ ListsHold
================================================================================
