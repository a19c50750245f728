------------------------------ MODULE Registry ------------------------------
(***************************************************************************)
(* The implementations CloudAI knows (_core/registry.py), as register_all  *)
(* leaves them (registration.py). A class is named like what it is for; a  *)
(* workload has the test_template_name of its test definition.             *)
(***************************************************************************)
EXTENDS Naturals, Sequences, SequencesExt, TLC

(* add_X raises ValueError for a key that is taken, update_X replaces.     *)
update(map, key, value) == (key :> value) @@ map

add(map, key, value) ==
  IF Assert(key \notin DOMAIN map, "Duplicating implementation") THEN update(map, key, value) ELSE map

(* One call of add_X after the other.                                      *)
register(calls) == FoldLeft(LAMBDA map, c : add(map, c[1], c[2]), <<>>, calls)

-----------------------------------------------------------------------------
runners_map == register(<<
  <<"slurm", "SlurmRunner">>, <<"kubernetes", "KubernetesRunner">>, <<"standalone", "StandaloneRunner">>,
  <<"lsf", "LSFRunner">>, <<"runai", "RunAIRunner">>>>)

OnSlurm == <<
  "Sleep", "MegatronRun", "NcclTest", "DDLBTest", "MegatronBridge", "NeMoLauncher", "NeMoRun", "NIXLBench",
  "NixlEP", "JaxToolboxGPT", "JaxToolboxGrok", "JaxToolboxNemotron", "UCCTest", "ChakraReplay", "DeepEP",
  "SlurmContainer", "TritonInference", "NixlPerftest", "AIDynamo", "BashCmd", "NIXLKVBench", "OSUBench",
  "sglang", "vllm">>

command_gen_strategies_map == register(
  <<<<<<"standalone", "Sleep">>, "Sleep">>, <<<<"lsf", "Sleep">>, "Sleep">>,
    <<<<"standalone", "Aiconfigurator">>, "Aiconfigurator">>>>
  \o [i \in DOMAIN OnSlurm |-> <<<<"slurm", OnSlurm[i]>>, OnSlurm[i]>>])

test_definitions_map == register(
  <<<<"Aiconfigurator", "Aiconfigurator">>>> \o [i \in DOMAIN OnSlurm |-> <<OnSlurm[i], OnSlurm[i]>>])

(* Reports are sets: a second one of a workload is added to the first, in  *)
(* whatever order the calls come.                                          *)
add_report(calls) ==
  [workload \in {c[1] : c \in calls} |-> {c[2] : c \in {d \in calls : d[1] = workload}}]

report_calls == {
  <<"ChakraReplay", "ChakraReplay">>, <<"DeepEP", "DeepEP">>, <<"JaxToolboxGPT", "JaxToolbox">>,
  <<"JaxToolboxGrok", "JaxToolbox">>, <<"MegatronRun", "CheckpointTiming">>, <<"MegatronRun", "MegatronRun">>,
  <<"MegatronBridge", "MegatronBridge">>, <<"NcclTest", "NcclTestPerformance">>, <<"NeMoLauncher", "NeMoLauncher">>,
  <<"NeMoRun", "NeMoRun">>, <<"NeMoRun", "NeMoRunDataStore">>, <<"JaxToolboxNemotron", "JaxToolbox">>,
  <<"UCCTest", "UCCTest">>, <<"TritonInference", "TritonInference">>, <<"NIXLBench", "NIXLBench">>,
  <<"NixlEP", "NixlEP">>, <<"AIDynamo", "AIDynamo">>, <<"Aiconfigurator", "Aiconfigurator">>,
  <<"NixlPerftest", "NIXLKVBenchDummy">>, <<"OSUBench", "OSUBench">>, <<"sglang", "SGLangBench">>,
  <<"vllm", "VLLMBench">>}

reports_map == add_report(report_calls)

(* Those that have the metric "default".                                   *)
DefaultMetric == {"NcclTestPerformance", "UCCTest", "NeMoRun", "MegatronRun", "MegatronBridge", "NIXLBench",
                  "NixlEP", "NIXLKVBenchDummy", "SGLangBench", "VLLMBench", "Aiconfigurator"}
=============================================================================
