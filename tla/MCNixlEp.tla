------------------------------ MODULE MCNixlEp ------------------------------
(* Every plan of up to three phases with two ranks, on one or two nodes;   *)
(* and longer or wider ones that grow, shrink, hand over to other ranks,   *)
(* leave a node without ranks, or start nothing in a phase.                *)
EXTENDS NixlEp

C(plan, nodes, per_node) == [plan |-> plan, nodes |-> nodes, per_node |-> per_node]

Small == {C(p, n, m) : p \in UNION {[1 .. k -> SUBSET {0, 1}] : k \in 1 .. 3}, n \in 1 .. 2, m \in 1 .. 2}

MCConfigs == Small \union {
  C(<<{0, 1}>>, 1, 2), C(<<{0, 1}>>, 1, 1),
  C(<<{0, 1}, {0, 1, 2}>>, 2, 2), C(<<{0, 1}, {0, 1, 2}>>, 2, 1),
  C(<<{0, 1}, {0}, {0, 1}>>, 2, 2), C(<<{0, 1}, {0}, {0, 1}>>, 1, 3),
  C(<<{0}, {1}>>, 2, 1), C(<<{0}, {0, 1}>>, 3, 1),
  C(<<{0, 1, 2}, {0}, {0}, {0, 1}>>, 2, 2),
  C(<<{}, {0, 1}>>, 2, 1)}
=============================================================================
