------------------------- MODULE MCKubernetesRunner -------------------------
(***************************************************************************)
(* Instances of KubernetesRunner for TLC.                                  *)
(***************************************************************************)
EXTENDS KubernetesRunner

(* The second test run may wait for the first, and the first may be run    *)
(* twice. No two deployments exist at once: they would share their name.   *)
Sequential(p) ==
  /\ p.after[1] = None /\ p.after[2] # 2
  /\ p.iterations[2] = 1
  /\ (\A t \in Tests : p.kind[t] = "dynamographdeployment") => p.after[2] = 1

SequentialPlans == {p \in Plan : Sequential(p)}

=============================================================================
