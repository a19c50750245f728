---------------------------- MODULE MCLlmServing ----------------------------
(***************************************************************************)
(* Instances of LlmServing for TLC.                                        *)
(***************************************************************************)
EXTENDS LlmServing

Run(w, d, n, gpus, p, tp, dp, fi) ==
  [workload |-> w, disaggregated |-> d, nodes |-> n, gpus_per_node |-> gpus[1],
   prefill_ids |-> gpus[2], decode_ids |-> gpus[3], visible |-> gpus[4], port |-> p,
   tp |-> tp, dp |-> dp, flashinfer_ep |-> fi]

(* GPUs of a node, the ids of prefill and decode, not set, apart or the    *)
(* same, and CUDA_VISIBLE_DEVICES.                                         *)
Gpus == {<<g, <<>>, <<>>, <<>>>> : g \in 1 .. 3}
        \union {<<4, <<>>, <<>>, <<1, 2, 3>>>>, <<2, <<0>>, <<1>>, <<>>>>,
                <<2, <<0>>, <<0>>, <<>>>>, <<3, <<0, 1>>, <<2>>, <<>>>>}

DecodeGpus == {<<g, <<>>, ids, v>> : g \in {2, 4}, ids \in {<<>>, <<1>>}, v \in {<<>>, <<1>>}}

AllConfigs ==
  {Run(w, TRUE, n, gpus, 65335, 1, dp, FALSE) :
     w \in {"vLLM", "SGLang"}, n \in {1, 2}, gpus \in Gpus, dp \in {1, 2}}
  \union
  {Run(w, FALSE, n, gpus, 65535, tp, dp, fi) :
     w \in {"vLLM", "SGLang"}, n \in {1, 3}, gpus \in DecodeGpus,
     tp \in {1, 2}, dp \in {1, 2}, fi \in BOOLEAN}

=============================================================================
