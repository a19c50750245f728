----------------------------- MODULE LlmServing -----------------------------
(***************************************************************************)
(* The job of a vLLM or SGLang test run (workloads/common/llm_serving,     *)
(* workloads/vllm, workloads/sglang): the batch script the strategies      *)
(* generate starts one server, or a prefill and a decode server and a      *)
(* router on one or two nodes, waits until they are healthy, runs the      *)
(* benchmark and ends the servers; afterwards the logs decide whether the  *)
(* run was successful. Servers and benchmark are external.                 *)
(***************************************************************************)
EXTENDS FiniteSets, SequencesExt

CONSTANTS
  Configs,    \* the test runs, each one of Config
  MaxChecks,  \* bound: health checks that fit into serve_wait_seconds
  Faults      \* which of "crash", "stubborn", "nodes", "bench", "kill" may happen

(* A test run and its system: Slurm nodes, GPUs per node, GPU ids of       *)
(* prefill, decode and CUDA_VISIBLE_DEVICES (empty if not set), the port   *)
(* and, for vLLM, the sizes that matter to its constraints.                *)
Ids == Seq(Nat)
Config == [workload : {"vLLM", "SGLang"}, disaggregated : BOOLEAN, nodes : Nat \ {0},
           gpus_per_node : Nat \ {0}, prefill_ids : Ids, decode_ids : Ids, visible : Ids,
           port : Nat \ {0}, tp : Nat \ {0}, dp : Nat \ {0}, flashinfer_ep : BOOLEAN]

(* What the validators of the models and of the strategy accept.           *)
check_gpu_ids_setup(c) ==
  c.disaggregated => (c.prefill_ids = <<>>) = (c.decode_ids = <<>>)
port_in_range(c) == c.port <= 65535
validate_disaggregated_port(c) == c.disaggregated => c.port <= 65335
nodes_supported(c) == c.disaggregated => c.nodes <= 2

ASSUME ConfigsAssumption ==
  \A c \in Configs :
    /\ c \in Config /\ check_gpu_ids_setup(c) /\ nodes_supported(c)
    /\ port_in_range(c) /\ validate_disaggregated_port(c)
ASSUME MaxChecksAssumption == MaxChecks \in Nat \ {0}

VARIABLES
  config,   \* the test run, never changes
  pc,       \* where the script is
  waits,    \* endpoints the script has still to wait for
  checks,   \* health checks left for the first of them
  pids,     \* servers whose PID the script knows
  server,   \* state of each server
  stubborn, \* servers that do not end when they are told to
  awaited,  \* servers cleanup() has still to wait for
  cleanups, \* how often cleanup() was entered
  output,   \* what the benchmark left: log and result file
  faults    \* what went wrong so far

script  == <<pc, waits, checks, pids, awaited, cleanups>>
cluster == <<server, stubborn, output, faults>>
vars    == <<config, script, cluster>>

Servers == {"serve", "prefill", "decode", "router"}

Launch == {"setup", "start", "start_router"}
Wait   == {"wait", "wait_router"}

Endpoints == {<<n, p>> : n \in {1, 2}, p \in {config.port + d : d \in {0, 100, 200}}}

(* The requests the log of the benchmark counts, and its result file.      *)
Output == [completed : {"no log", "none", "zero", "some"}, result_file : BOOLEAN]

TypeOK ==
  /\ config \in Config
  /\ pc \in Launch \union Wait \union {"bench", "cleanup", "exit", "over"}
  /\ waits \in Seq(Endpoints) /\ Len(waits) <= 2
  /\ checks \in 0 .. MaxChecks
  /\ pids \in SUBSET Servers /\ awaited \in Seq(Servers)
  /\ server \in [Servers -> {"none", "starting", "ready", "terminating", "dead"}]
  /\ \A s \in Servers \ pids : server[s] = "none"
  /\ stubborn \in SUBSET Servers
  /\ cleanups \in 0 .. 2
  /\ output \in Output
  /\ faults \in SUBSET {"crash", "timeout", "nodes", "bench", "kill"}

-----------------------------------------------------------------------------
(* Where the servers are placed.                                           *)

all_gpu_ids(c) ==
  IF c.disaggregated /\ c.prefill_ids # <<>> /\ c.decode_ids # <<>>
    THEN c.prefill_ids \o c.decode_ids
    ELSE IF c.visible # <<>> THEN c.visible
    ELSE [i \in 1 .. c.gpus_per_node |-> i - 1]

mid(c) == Len(all_gpu_ids(c)) \div 2

calculate_prefill_gpu_ids(c) ==
  IF ~c.disaggregated THEN <<>>
  ELSE IF c.prefill_ids # <<>> THEN c.prefill_ids
  ELSE IF c.nodes = 2 THEN all_gpu_ids(c)
  ELSE SubSeq(all_gpu_ids(c), 1, mid(c))

Mutant_calculate_decode_gpu_ids(c) ==
  IF c.decode_ids # <<>> THEN c.decode_ids ELSE all_gpu_ids(c)

calculate_decode_gpu_ids(c) ==
  IF c.decode_ids # <<>> THEN c.decode_ids
  ELSE IF ~c.disaggregated \/ c.nodes = 2 THEN all_gpu_ids(c)
  ELSE SubSeq(all_gpu_ids(c), mid(c) + 1, Len(all_gpu_ids(c)))

is_two_node_disaggregated(c) == c.disaggregated /\ c.nodes = 2

(* The ids in CUDA_VISIBLE_DEVICES of a server. Without disaggregation     *)
(* vLLM leaves the environment as it is: what decode asks for is ignored.  *)
visible_gpus(c, s) ==
  CASE s = "prefill" -> calculate_prefill_gpu_ids(c)
    [] s = "decode"  -> calculate_decode_gpu_ids(c)
    [] s = "serve"   -> all_gpu_ids(c)
    [] s = "router"  -> <<>>

role_host(c, s) == IF s = "decode" /\ is_two_node_disaggregated(c) THEN 2 ELSE 1

service_port(c, s) ==
  CASE s = "prefill" -> c.port + 100 [] s = "decode" -> c.port + 200 [] OTHER -> c.port

endpoint(c, s) == <<role_host(c, s), service_port(c, s)>>

(* vLLM's side channels: one port for every GPU of prefill, from a port    *)
(* that depends on the job; those of decode come after all of them.        *)
nixl_port(c, s) == IF s = "decode" THEN Len(all_gpu_ids(c)) ELSE 0
nixl_ports(c, s) ==
  IF c.workload = "SGLang" \/ s \notin {"prefill", "decode"} THEN {}
  ELSE nixl_port(c, s) .. nixl_port(c, s) + Len(visible_gpus(c, s)) - 1

(* _validate_vllm_parallelism_constraints.                                 *)
fits(c, gpus) == c.tp * c.dp <= Len(gpus) /\ ~(c.flashinfer_ep /\ c.dp > 1)

constraint_check(c) ==
  IF c.disaggregated
    THEN fits(c, calculate_prefill_gpu_ids(c)) /\ fits(c, calculate_decode_gpu_ids(c))
    ELSE fits(c, all_gpu_ids(c))

(* used_gpus_count: what the throughput is divided by.                     *)
used_gpus_count(c) ==
  IF ~c.disaggregated \/ c.nodes <= 1 THEN Len(all_gpu_ids(c))
  ELSE IF c.prefill_ids # <<>> /\ c.decode_ids # <<>>
    THEN Len(c.prefill_ids) + Len(c.decode_ids)
  ELSE Len(all_gpu_ids(c)) * c.nodes

-----------------------------------------------------------------------------
Roles(c) == IF c.disaggregated THEN {"prefill", "decode"} ELSE {"serve"}
AllServers(c) == Roles(c) \union (IF c.disaggregated THEN {"router"} ELSE {})

Init ==
  /\ config \in Configs
  /\ pc = IF config.disaggregated THEN "setup" ELSE "start"
  /\ waits = <<>> /\ checks = 0 /\ pids = {} /\ awaited = <<>> /\ cleanups = 0
  /\ server = [s \in Servers |-> "none"]
  /\ stubborn \in IF "stubborn" \in Faults THEN SUBSET AllServers(config) ELSE {{}}
  /\ output = [completed |-> "no log", result_file |-> FALSE]
  /\ faults = {}

(* generate_disaggregated_node_setup: exit 1 without a node for each role. *)
NodeSetup ==
  /\ pc = "setup"
  /\ \/ pc' = "start" /\ UNCHANGED faults
     \/ "nodes" \in Faults /\ pc' = "exit" /\ faults' = faults \union {"nodes"}
  /\ UNCHANGED <<config, waits, checks, pids, awaited, cleanups, server, stubborn, output>>

StartServers(S, endpoints, next) ==
  /\ server' = [s \in Servers |-> IF s \in S THEN "starting" ELSE server[s]]
  /\ pids' = pids \union S
  /\ waits' = endpoints /\ checks' = MaxChecks /\ pc' = next
  /\ UNCHANGED <<config, awaited, cleanups, stubborn, output, faults>>

Start ==
  /\ pc = "start"
  /\ StartServers(Roles(config),
                  IF config.disaggregated
                    THEN <<endpoint(config, "prefill"), endpoint(config, "decode")>>
                    ELSE <<endpoint(config, "serve")>>, "wait")

StartRouter ==
  /\ pc = "start_router"
  /\ StartServers({"router"}, <<endpoint(config, "router")>>, "wait_router")

healthy(e) == \E s \in Servers : server[s] = "ready" /\ endpoint(config, s) = e

AfterWait == IF pc = "wait" /\ config.disaggregated THEN "start_router" ELSE "bench"

(* wait_for_health for one endpoint after the other, each with a deadline  *)
(* of its own; nobody looks whether the server is still there.             *)
Healthy ==
  /\ pc \in Wait /\ checks > 0
  /\ healthy(Head(waits))
  /\ waits' = Tail(waits)
  /\ pc' = IF Len(waits) = 1 THEN AfterWait ELSE pc
  /\ checks' = MaxChecks
  /\ UNCHANGED <<config, pids, awaited, cleanups, cluster>>

NotHealthy ==
  /\ pc \in Wait /\ checks > 0
  /\ ~healthy(Head(waits))
  /\ checks' = checks - 1
  /\ UNCHANGED <<config, pc, waits, pids, awaited, cleanups, cluster>>

(* External: a server becomes ready only with enough GPUs and ports of its *)
(* own.                                                                    *)
Conflict(s, t) ==
  /\ role_host(config, s) = role_host(config, t) /\ server[t] \in {"starting", "ready"}
  /\ \/ service_port(config, s) = service_port(config, t)
     \/ nixl_ports(config, s) \intersect nixl_ports(config, t) # {}
     \/ ToSet(visible_gpus(config, s)) \intersect ToSet(visible_gpus(config, t)) # {}

Starts(s) ==
  /\ s = "router" \/ /\ config.tp * config.dp <= Len(visible_gpus(config, s))
                     /\ ~(config.flashinfer_ep /\ config.dp > 1)
  /\ \A t \in Servers \ {s} : ~Conflict(s, t)

(* Whether the server that is waited for was only too slow.                *)
Slow == \E s \in Servers : /\ endpoint(config, s) = Head(waits)
                           /\ server[s] \in {"starting", "ready"} /\ Starts(s)

(* wait_for_health "..." || exit 1                                         *)
HealthTimeout ==
  /\ pc \in Wait /\ checks = 0
  /\ pc' = "exit"
  /\ faults' = IF Slow THEN faults \union {"timeout"} ELSE faults
  /\ UNCHANGED <<config, waits, checks, pids, awaited, cleanups, server, stubborn, output>>

AllReady == \A s \in AllServers(config) : server[s] = "ready"

(* The benchmark, at --base-url; its exit status is ignored. It writes a   *)
(* log and, in the end, the result file.                                   *)
Benchmark ==
  /\ pc = "bench"
  /\ \E completed \in {"none", "zero", "some"}, written \in BOOLEAN :
       /\ completed = "some" => AllReady /\ healthy(<<1, config.port>>)
       /\ written => completed # "none"
       /\ completed # "some" \/ ~written => "bench" \in Faults \/ ~AllReady
       /\ output' = [completed |-> completed, result_file |-> written]
       /\ faults' = IF AllReady /\ (completed # "some" \/ ~written)
                      THEN faults \union {"bench"} ELSE faults
  /\ pc' = "cleanup"
  /\ UNCHANGED <<config, waits, checks, pids, awaited, cleanups, server, stubborn>>

Terminated(s) == IF s \in pids /\ server[s] \in {"starting", "ready"} THEN "terminating"
                 ELSE server[s]

LeaveCleanup == pc' = IF pc = "exit" THEN "over" ELSE "exit"

(* The known PIDs, in the order in which the servers are started.          *)
Known(s) == IF s \in pids THEN <<s>> ELSE <<>>
PidList == Known("serve") \o Known("prefill") \o Known("decode") \o Known("router")

Mutant_Cleanup ==
  /\ pc \in {"cleanup", "exit"} /\ awaited = <<>>
  /\ server' = [s \in Servers |-> IF s = "router" THEN server[s] ELSE Terminated(s)]
  /\ awaited' = PidList
  /\ cleanups' = cleanups + 1
  /\ IF pids = {} THEN LeaveCleanup ELSE UNCHANGED pc
  /\ UNCHANGED <<config, waits, checks, pids, stubborn, output, faults>>

(* cleanup(): TERM for every PID, then it waits for one after the other.   *)
(* It is called at the end of the script and again by the trap on EXIT.    *)
Cleanup ==
  /\ pc \in {"cleanup", "exit"} /\ awaited = <<>>
  /\ server' = [s \in Servers |-> Terminated(s)]
  /\ awaited' = PidList
  /\ cleanups' = cleanups + 1
  /\ IF pids = {} THEN LeaveCleanup ELSE UNCHANGED pc
  /\ UNCHANGED <<config, waits, checks, pids, stubborn, output, faults>>

Mutant_CleanupWaits ==
  /\ pc \in {"cleanup", "exit"} /\ awaited # <<>>
  /\ server[Head(awaited)] = "dead"
  /\ awaited' = Tail(awaited)
  /\ IF awaited' = <<>> THEN LeaveCleanup ELSE UNCHANGED pc
  /\ UNCHANGED <<config, waits, checks, pids, cleanups, cluster>>

(* A server that is gone; or the first that is still there after the       *)
(* timeout, which ends cleanup() and the waiting for all others.           *)
CleanupWaits ==
  /\ pc \in {"cleanup", "exit"} /\ awaited # <<>>
  /\ \/ /\ server[Head(awaited)] = "dead"
        /\ awaited' = Tail(awaited)
        /\ IF awaited' = <<>> THEN LeaveCleanup ELSE UNCHANGED pc
     \/ /\ Head(awaited) \in stubborn /\ server[Head(awaited)] # "dead"
        /\ awaited' = <<>> /\ LeaveCleanup
  /\ UNCHANGED <<config, waits, checks, pids, cleanups, cluster>>

-----------------------------------------------------------------------------
(* External: the servers and Slurm.                                        *)

ServerReady(s) ==
  /\ server[s] = "starting" /\ Starts(s)
  /\ server' = [server EXCEPT ![s] = "ready"]
  /\ UNCHANGED <<config, script, stubborn, output, faults>>

ServerCrashes(s) ==
  /\ server[s] \in {"starting", "ready"}
  /\ \/ "crash" \in Faults /\ faults' = faults \union {"crash"}
     \/ server[s] = "starting" /\ ~Starts(s) /\ UNCHANGED faults
  /\ server' = [server EXCEPT ![s] = "dead"]
  /\ UNCHANGED <<config, script, stubborn, output>>

ServerEnds(s) ==
  /\ server[s] = "terminating" /\ s \notin stubborn
  /\ server' = [server EXCEPT ![s] = "dead"]
  /\ UNCHANGED <<config, script, stubborn, output, faults>>

(* Time limit or scancel: everything ends, no trap is run.                 *)
Killed ==
  /\ "kill" \in Faults /\ pc # "over"
  /\ pc' = "over" /\ faults' = faults \union {"kill"}
  /\ server' = [s \in Servers |-> IF server[s] = "none" THEN "none" ELSE "dead"]
  /\ UNCHANGED <<config, waits, checks, pids, awaited, cleanups, stubborn, output>>

Script ==
  \/ NodeSetup \/ Start \/ StartRouter \/ Healthy \/ NotHealthy \/ HealthTimeout
  \/ Benchmark \/ Cleanup \/ CleanupWaits

Next ==
  \/ Script \/ Killed
  \/ \E s \in Servers : ServerReady(s) \/ ServerCrashes(s) \/ ServerEnds(s)

Spec == Init /\ [][Next]_vars

(* The shell goes on, and a server that is told to end and not stubborn    *)
(* ends. Whether a server becomes ready is not assumed.                    *)
FairSpec == Spec /\ WF_vars(Script) /\ \A s \in Servers : WF_vars(ServerEnds(s))

-----------------------------------------------------------------------------
(* The verdict and the metrics, from what the benchmark left.              *)

was_run_successful(c) ==
  IF c.workload = "vLLM" THEN output.completed = "some"
                         ELSE output.completed = "some" /\ output.result_file

(* get_metric finds a result: SGLang's parser refuses one of no requests.  *)
has_metric(c) == output.result_file /\ (c.workload = "SGLang" => output.completed = "some")

-----------------------------------------------------------------------------
(* Correctness properties.                                                 *)

(* On every way out of the script, through a failed wait as well as after  *)
(* the benchmark, no server is left that was not told to end.              *)
NoServerLeft ==
  pc = "over" => \A s \in Servers : server[s] \in {"none", "dead", "terminating"}

(* A user may give prefill and decode the same GPU of one node: nothing    *)
(* refuses it.                                                             *)
GpusGivenTwice(c) ==
  /\ ~is_two_node_disaggregated(c)
  /\ ToSet(c.prefill_ids) \intersect ToSet(c.decode_ids) # {}

GpusGiven(c) == UNION {{<<role_host(c, s), g>> : g \in ToSet(visible_gpus(c, s))} : s \in AllServers(c)}

(* A test run that passes the constraints of vLLM is served: when nothing  *)
(* goes wrong and every server is given the time it needs, its run is      *)
(* successful and has metrics, and the throughput per GPU counts the GPUs  *)
(* the servers were given, each once. GPUs, ports, hosts and sizes agree,  *)
(* and nothing is started before what it needs.                            *)
AdmittedServes ==
  /\ pc = "over" /\ faults = {} /\ config.workload = "vLLM"
  /\ constraint_check(config) /\ ~GpusGivenTwice(config)
  => /\ was_run_successful(config) /\ has_metric(config)
     /\ used_gpus_count(config) = Cardinality(GpusGiven(config))

(* The script ends, whatever becomes of the servers.                       *)
ScriptEnds == <>(pc = "over")

=============================================================================
