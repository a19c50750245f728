----------------------------- MODULE MCAiDynamo -----------------------------
(***************************************************************************)
(* Instances of AiDynamo for TLC.                                          *)
(***************************************************************************)
EXTENDS AiDynamo

W(nodes, tp, pp, several) ==
  [num_nodes |-> nodes, tp |-> tp, pp |-> pp, multiple |-> several]
C(b, gpus, decode, prefill) ==
  [backend |-> b, gpus |-> gpus,
   roles |-> [r \in Role |-> IF r = "decode" THEN decode ELSE prefill]]

(* Nodes of two GPUs: two nodes for a role, a node without a role, no      *)
(* prefill, no decode, more nodes asked for than listed, more GPUs asked   *)
(* for than there are, and several workers for a node, which none gets.    *)
Several ==
  {C("vllm", 2, W(2, 2, 1, TRUE), W(1, 1, 2, TRUE)),
   C("vllm", 2, W(1, 1, 1, TRUE), W(1, 1, 1, FALSE)),
   C("sglang", 2, W(2, 1, 1, FALSE), W(0, 1, 1, FALSE)),
   C("vllm", 2, W(0, 1, 1, FALSE), W(3, 1, 1, FALSE)),
   C("vllm", 2, W(1, 2, 2, TRUE), W(1, 2, 2, TRUE)),
   C("vllm", 2, W(2, 1, 1, TRUE), W(2, 1, 1, TRUE)),
   C("sglang_dsr1", 2, W(2, 1, 1, FALSE), W(1, 1, 1, FALSE))}
=============================================================================
