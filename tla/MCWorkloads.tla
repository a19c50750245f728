---------------------------- MODULE MCWorkloads -----------------------------
(* Every workload alone, and points of the design spaces of the three that *)
(* check their layouts.                                                    *)
EXTENDS Workloads

Plain == [workload |-> "NcclTest", option |-> "none", nodes |-> 1, steps |-> 2,
          layout |-> None, dse |-> FALSE, filepath |-> FALSE, devices |-> <<>>]

Simple ==
  [Plain EXCEPT !.workload = "NcclTest"] :> {1, 2} @@ [Plain EXCEPT !.workload = "DDLBTest"] :> {1}
    @@ [Plain EXCEPT !.workload = "OSUBench", !.option = "osu_bw"] :> {2}
    @@ [Plain EXCEPT !.workload = "OSUBench", !.option = "osu_hello"] :> {1}
    @@ [Plain EXCEPT !.workload = "UCCTest"] :> {2} @@ [Plain EXCEPT !.workload = "DeepEP"] :> {2} @@ [Plain EXCEPT !.workload = "ChakraReplay"] :> {2}
    @@ [Plain EXCEPT !.workload = "NeMoLauncher", !.option = "mock"] :> {2, 4}
    @@ [Plain EXCEPT !.workload = "NeMoLauncher", !.option = "no data"] :> {1}
    @@ [Plain EXCEPT !.workload = "NeMoLauncher", !.option = "no tokenizer"] :> {1}
    @@ [Plain EXCEPT !.workload = "Aiconfigurator"] :> {1}
    @@ [Plain EXCEPT !.workload = "MegatronRun"] :> {1, 2, 3}
    @@ [Plain EXCEPT !.workload = "MegatronRun", !.option = "evaluate"] :> {2}
    @@ [Plain EXCEPT !.workload = "NixlPerftest"] :> {1}
    @@ [Plain EXCEPT !.workload = "TritonInference", !.nodes = 2] :> {1}
    @@ [Plain EXCEPT !.workload = "TritonInference", !.nodes = 3] :> {1}

Singles == UNION {{[c EXCEPT !.steps = s] : s \in Simple[c]} : c \in DOMAIN Simple}

(* Names that collide, also with the numbers given to others.              *)
Devices == {<<>>, << <<0>>, <<0>> >>, << <<0, 1>>, <<0>>, <<0>> >>, << <<0>>, <<0>>, <<0>> >>}

Nixl ==
  {[Plain EXCEPT !.workload = w, !.option = o, !.nodes = n, !.filepath = f, !.devices = d] :
     w \in {"NIXLBench", "NIXLKVBench"}, o \in {"UCX", "POSIX"}, n \in 1..2, f \in BOOLEAN, d \in Devices}

Perftest ==
  {[Plain EXCEPT !.workload = "NixlPerftest", !.dse = TRUE, !.layout =
      [prefill_tp |-> p, prefill_nodes |-> 1, decode_tp |-> d, decode_nodes |-> n]] :
     p \in {1, 2}, d \in {2, 4}, n \in {1, 2}}

NemoLayout == [nnodes |-> 1, tp |-> 1, pp |-> 1, cp |-> 1, vp |-> None, num_layers |-> 4, gbs |-> 8, mbs |-> 1]

Nemo ==
  {[Plain EXCEPT !.workload = "NeMoRun", !.dse = d, !.layout = l] :
     d \in BOOLEAN,
     l \in {[NemoLayout EXCEPT !.nnodes = n, !.tp = t, !.pp = p, !.gbs = g, !.mbs = m] :
              n \in {1, 2}, t \in {1, 3, 4}, p \in {1, 4}, g \in {8, 12}, m \in {1, 3}}}
  \cup {[Plain EXCEPT !.workload = "NeMoRun", !.dse = TRUE, !.layout =
           [NemoLayout EXCEPT !.num_layers = n, !.vp = 2, !.pp = 2]] : n \in {None, 4, 6}}
  \cup {[Plain EXCEPT !.workload = "NeMoRun", !.layout = NemoLayout, !.steps = s] : s \in {1, 3, 4}}

BridgeLayout ==
  [num_gpus |-> 8, tp |-> 0, pp |-> 0, cp |-> 0, vp |-> None, mb |-> 1, gb |-> 8, et |-> None, ep |-> None,
   fsdp |-> FALSE, ndo |-> 0, offload |-> 0, overlap |-> FALSE, deepseek_v3 |-> FALSE,
   cuda_graph_impl |-> "none", scopes |-> {}, recompute |-> {}]

Bridge ==
  {[Plain EXCEPT !.workload = "MegatronBridge", !.dse = TRUE, !.steps = s, !.layout = l] :
     s \in {2},
     l \in {[BridgeLayout EXCEPT !.tp = t, !.pp = p, !.mb = m, !.gb = g] :
              t \in {0, 2, 3}, p \in {0, 4}, m \in {0, 1, 3}, g \in {0, 8, 12}}
           \cup {[BridgeLayout EXCEPT !.et = 1, !.ep = e, !.pp = p] : e \in {2, 3, 8}, p \in {0, 2}}
           \cup {[BridgeLayout EXCEPT !.cuda_graph_impl = i, !.scopes = sc, !.recompute = r, !.fsdp = f,
                                      !.offload = o, !.overlap = o = 1] :
                   i \in {"none", "local", "transformer_engine"}, sc \in {{}, {"attn"}, {"moe", "moe_router"}},
                   r \in {{}, {"core_attn"}}, f \in BOOLEAN, o \in {0, 1}}
           \cup {[BridgeLayout EXCEPT !.deepseek_v3 = TRUE, !.pp = p, !.vp = v] : p \in {2, 4}, v \in {None, 1, 2}}}
  \cup {[Plain EXCEPT !.workload = "MegatronBridge", !.steps = 3, !.layout = BridgeLayout]}

Jax == {[Plain EXCEPT !.workload = "JaxToolboxGPT", !.option = "GPT"]}

All == Singles \cup Nixl \cup Perftest \cup Nemo \cup Bridge \cup Jax
=============================================================================
