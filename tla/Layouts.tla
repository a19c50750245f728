------------------------------ MODULE Layouts -------------------------------
(***************************************************************************)
(* constraint_check of the workloads that have one: which points of a      *)
(* design space are tried. A layout is a record of the parameters; 0 is a  *)
(* size left out where the code takes None and 0 for the same, None a      *)
(* parameter left out where it does not.                                   *)
(***************************************************************************)
EXTENDS Integers

CONSTANT None

NeMoRunLayout ==
  [nnodes : Nat \ {0}, tp : Nat \ {0}, pp : Nat \ {0}, cp : Nat \ {0}, vp : {None} \cup (Nat \ {0}),
   num_layers : {None} \cup Nat, mbs : Nat \ {0}, gbs : Nat \ {0}]

MegatronBridgeLayout ==
  [num_gpus : Nat \ {0}, tp : Nat, pp : Nat, cp : Nat, vp : {None} \cup Nat, mb : Nat, gb : Nat,
   et : {None} \cup Nat, ep : {None} \cup Nat, fsdp : BOOLEAN, ndo : Nat, offload : Nat, overlap : BOOLEAN,
   deepseek_v3 : BOOLEAN, cuda_graph_impl : STRING, scopes : SUBSET STRING, recompute : SUBSET STRING]

Or1(x) == IF x = 0 THEN 1 ELSE x

(* NIXL perftest: as many tensor-parallel ranks per decode node as per     *)
(* prefill node.                                                           *)
perftest_admits(a) == a.decode_tp * a.prefill_nodes = a.prefill_tp * a.decode_nodes

-----------------------------------------------------------------------------
(* NeMo 2.0. The check takes every node to have eight GPUs; the trainer is *)
(* started with the gpus_per_node of the system.                           *)

AssumedGpusPerNode == 8

(* What the trainer is started with, whatever the test asks for.           *)
trainer_gpus(a, gpus_per_node) == a.nnodes * gpus_per_node

(* num_layers may be left out, and None // pp is a TypeError.              *)
nemo_run_raises(a) == a.vp # None /\ a.num_layers = None

Mutant_nemo_run_admits(a) ==
  LET num_gpus == a.nnodes * AssumedGpusPerNode
      dp       == num_gpus \div (a.tp * a.pp * a.cp)
  IN  /\ num_gpus % (a.tp * a.pp * a.cp) = 0
      /\ a.vp # None => (a.num_layers \div a.pp) % a.vp = 0
      /\ dp # 0
      /\ a.gbs % a.mbs = 0

nemo_run_admits(a) ==
  LET num_gpus == a.nnodes * AssumedGpusPerNode
      dp       == num_gpus \div (a.tp * a.pp * a.cp)
  IN  /\ num_gpus % (a.tp * a.pp * a.cp) = 0
      /\ a.vp # None => (a.num_layers \div a.pp) % a.vp = 0
      /\ dp # 0
      /\ a.gbs % (a.mbs * dp) = 0

-----------------------------------------------------------------------------
(* Megatron-Bridge. The numbers are those of the constraints in the code;  *)
(* 2 and 8 are always satisfied there.                                     *)

denom(a) == Or1(a.tp) * Or1(a.pp) * Or1(a.cp)
dp(a)    == a.num_gpus \div denom(a)

graph_impl(a)  == a.cuda_graph_impl \notin {"", "none"}
cuda_graphs(a) == graph_impl(a) /\ a.scopes # {}

model_divides(a) ==                                                \* 1, 3
  a.num_gpus % denom(a) = 0 /\ dp(a) # 0

batch_divides(a) ==                                                \* 4
  (a.mb # 0 /\ a.gb # 0) =>
    LET divisor == a.mb * dp(a) * (IF a.fsdp THEN Or1(a.ndo) ELSE 1)
    IN  divisor # 0 /\ a.gb % divisor = 0

fsdp_plain(a) ==                                                   \* 5, 6
  a.fsdp => ~cuda_graphs(a) /\ Or1(a.pp) = 1 /\ Or1(a.cp) = 1 /\ a.vp \in {1, None}

experts_divide(a) ==                                               \* 7
  (a.et # None /\ a.ep # None) =>
    LET moe == a.et * a.ep * Or1(a.pp)
    IN  moe # 0 /\ a.num_gpus % moe = 0

offload_alone(a) ==                                                \* 9, 10, 11, 12
  /\ a.ndo > 1 => a.fsdp
  /\ ~(Or1(a.pp) > 1 /\ a.offload > 0)
  /\ ~(graph_impl(a) /\ a.overlap)
  /\ ~(cuda_graphs(a) /\ a.offload > 0)

scopes_known(a) ==                                                 \* 13, 14
  /\ a.cuda_graph_impl \in {"", "none", "transformer_engine", "local"}
  /\ a.cuda_graph_impl = "local" => a.scopes \in {{}, {"full_iteration"}}
  /\ a.cuda_graph_impl = "transformer_engine" =>
       a.scopes \subseteq {"attn", "mlp", "moe", "moe_router", "moe_preprocess", "mamba"}

scopes_agree(a) ==                                                 \* 15, 16
  /\ ~({"moe", "moe_router"} \subseteq a.scopes)
  /\ "moe_preprocess" \in a.scopes => "moe_router" \in a.scopes

recompute_apart(a) ==                                              \* 17
  LET Clash(scope, modules) == scope \in a.scopes /\ modules \intersect a.recompute # {}
  IN  /\ ~Clash("attn", {"core_attn", "mla_up_proj"})
      /\ ~Clash("mlp", {"mlp"})
      /\ ~Clash("moe", {"moe_act", "moe", "shared_experts"})
      /\ ~Clash("moe_router", {"moe", "shared_experts"})
      /\ ~(/\ "layernorm" \in a.recompute
           /\ {"attn", "mlp"} \subseteq a.scopes
           /\ {"moe", "moe_router"} \intersect a.scopes # {})

pipeline_known(a) ==                                               \* 18
  a.deepseek_v3 =>
    <<Or1(a.pp), IF a.vp = None THEN 1 ELSE a.vp>> \in
      {<<1, 1>>, <<4, 1>>, <<8, 1>>, <<4, 2>>, <<16, 1>>, <<8, 2>>, <<4, 4>>}

megatron_bridge_admits(a) ==
  /\ model_divides(a)  /\ batch_divides(a) /\ fsdp_plain(a)
  /\ experts_divide(a) /\ offload_alone(a) /\ scopes_known(a)
  /\ scopes_agree(a)   /\ recompute_apart(a) /\ pipeline_known(a)
=============================================================================
