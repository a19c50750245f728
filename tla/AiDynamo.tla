------------------------------ MODULE AiDynamo ------------------------------
(***************************************************************************)
(* One run of the AI Dynamo workload: ai_dynamo.sh, started by srun once   *)
(* on every node of the job (workloads/ai_dynamo/). The copies of the      *)
(* script agree on who does what from their arguments alone, and meet on a *)
(* shared results directory: the log files of the workers, a success and a *)
(* failure marker, and the report. The first decode node is the frontend:  *)
(* it starts etcd, which the workers of every node wait for, and runs the  *)
(* benchmark when every worker has logged that it is initialised. Every    *)
(* node then waits for the success marker and leaves early if a fatal      *)
(* error is found in any log. What CloudAI makes of the directory at the   *)
(* end is was_run_successful.                                              *)
(*                                                                         *)
(* Nodes are numbered in the order of DYNAMO_NODELIST.                     *)
(***************************************************************************)
EXTENDS Integers, FiniteSets

CONSTANTS
  NumNodes,   \* nodes of the Slurm job
  Configs,    \* what the test may ask for
  MaxBroken,  \* bound: how many workers break
  Faults      \* which of "environment", "worker" may happen

Nodes == 1 .. NumNodes
Role == {"prefill", "decode"}
Backend == {"vllm", "sglang", "sglang_dsr1"}

(* AIDynamoArgs and WorkerConfig: the backend, the number of visible GPUs  *)
(* of a node, and for every role how many nodes, tensor and pipeline       *)
(* parallel sizes, and whether a node is to hold several workers.          *)
Worker == [num_nodes : 0 .. NumNodes, tp : Nat \ {0}, pp : Nat \ {0}, multiple : BOOLEAN]
Config == [backend : Backend, gpus : Nat \ {0}, roles : [Role -> Worker]]

ASSUME NodesAssumption == NumNodes \in Nat \ {0}
ASSUME ConfigsAssumption ==
  \A c \in Configs : /\ c.backend \in Backend /\ c.gpus \in Nat \ {0}
                     /\ \A r \in Role : /\ c.roles[r].num_nodes \in 0 .. NumNodes
                                        /\ c.roles[r].tp \in Nat \ {0}
                                        /\ c.roles[r].pp \in Nat \ {0}
                                        /\ c.roles[r].multiple \in BOOLEAN

-----------------------------------------------------------------------------
(* parse_args: the same result on every node.                              *)

(* get_cached_nodes_spec: the script is started on as many nodes as the    *)
(* roles ask for together, of those there are.                             *)
job_nodes(c) ==
  {n \in Nodes : n <= c.roles["prefill"].num_nodes + c.roles["decode"].num_nodes}

(* _populate_nodelist: the first num nodes of the list that are not        *)
(* excluded, or fewer.                                                     *)
populate_nodelist(num, exclude) ==
  {n \in Nodes \ exclude : Cardinality({m \in Nodes \ exclude : m <= n}) <= num}

(* _set_nodelists: decode first. The script takes a list as given only     *)
(* under the key node-list, which the command line never has: the "nodes"  *)
(* of a worker arrive under the key nodes.                                 *)
decode_list(c) == populate_nodelist(c.roles["decode"].num_nodes, {})
node_list(c, r) ==
  IF r = "decode" THEN decode_list(c)
  ELSE populate_nodelist(c.roles["prefill"].num_nodes, decode_list(c))
nodelists_valid(c) == \A r \in Role : Cardinality(node_list(c, r)) = c.roles[r].num_nodes

(* _patch_dynamo_args: the first node of the decode list.                  *)
is_frontend_node(c, n) ==
  n \in node_list(c, "decode") /\ \A m \in node_list(c, "decode") : n <= m

(* _get_toml_args writes str(v), the way Python writes a truth value.      *)
rendered(v) == IF v THEN "True" ELSE "False"

(* _compute_worker_allocation: a worker takes a whole node unless several  *)
(* may share it, which the script reads in lower case.                     *)
gpus_per_worker(c, r) ==
  IF c.backend = "sglang_dsr1" \/ rendered(c.roles[r].multiple) # "true" THEN c.gpus
  ELSE c.roles[r].tp * c.roles[r].pp
workers_per_node(c, r) == c.gpus \div gpus_per_worker(c, r)

(* A worker is its role, its node and its number there.                    *)
workers_of(c, r) ==
  {<<r, n, i>> : n \in node_list(c, r), i \in 0 .. workers_per_node(c, r) - 1}
Workers(c) == workers_of(c, "decode") \union workers_of(c, "prefill")
workers_on(c, n) == {w \in Workers(c) : w[2] = n}

(* _expected_ready_prefill, _expected_ready_decode.                        *)
Mutant_expected_ready(c, r) == workers_per_node(c, r)   \* the nodes forgotten

expected_ready(c, r) ==
  IF c.backend = "sglang_dsr1" THEN 1 ELSE c.roles[r].num_nodes * workers_per_node(c, r)

(* constraint_check, which only design space exploration applies: the part *)
(* about GPUs (the other compares the two tensor parallel sizes).          *)
constraint_check(c) == \A r \in Role : c.roles[r].tp * c.roles[r].pp <= c.gpus

-----------------------------------------------------------------------------
VARIABLES
  config,       \* never changes
  main,         \* main() on each node; "dying" once it has failed, then "exit_0" or "exit_1"
  monitor,      \* log_gpu_utilization on each node
  launcher,     \* launch_decode or launch_prefill on each node
  bench,        \* launch_workloads on the frontend
  etcd,         \* the etcd of the frontend
  cache_clean,  \* the storage cache of the frontend has been emptied
  started,      \* workers started
  initialised,  \* workers whose log says they are initialised
  broken,       \* workers whose log holds a fatal error
  report,       \* the benchmark has written its report
  done, failure \* the markers

files == <<initialised, broken, report, done, failure>>
vars == <<config, main, monitor, launcher, bench, etcd, cache_clean, started, files>>

Exited(n) == main[n] \in {"exit_0", "exit_1"}
AllExited == \A n \in job_nodes(config) : Exited(n)

Init ==
  /\ config \in Configs
  /\ main = [n \in Nodes |-> "start"]
  /\ monitor = [n \in Nodes |-> "none"] /\ launcher = [n \in Nodes |-> "none"]
  /\ bench = "none" /\ etcd = "none" /\ cache_clean = FALSE
  /\ started = {} /\ initialised = {} /\ broken = {}
  /\ report = FALSE /\ done = FALSE /\ failure = FALSE

(* wait_for_dynamo_frontend: enough log files with the line looked for.    *)
frontend_ready ==
  \A r \in Role :
    Cardinality({w \in initialised : w[1] = r}) >= expected_ready(config, r)

(* _detect_fatal_once: the logs of all nodes; never for sglang_dsr1.       *)
fatal == config.backend # "sglang_dsr1" /\ broken # {}

(* exit_on_error: the success marker is looked for after the logs.         *)
Mutant_exit_on_error == fatal   \* the marker is not looked for

exit_on_error == fatal /\ ~done

(* When the script of a node ends, what it started there ends with it.     *)
NodeEnds(n, code) ==
  /\ main' = [main EXCEPT ![n] = code]
  /\ monitor' = [monitor EXCEPT ![n] = "gone"]
  /\ launcher' = [launcher EXCEPT ![n] = "gone"]
  /\ IF is_frontend_node(config, n)
       THEN bench' = (IF bench = "done" THEN "done" ELSE "gone") /\ etcd' = "gone"
       ELSE UNCHANGED <<bench, etcd>>

Goto(n, step) == main' = [main EXCEPT ![n] = step]

(* parse_args, validate_environment, then log_gpu_utilization in the       *)
(* background.                                                             *)
StartNode(n) ==
  /\ main[n] = "start" /\ nodelists_valid(config)
  /\ Goto(n, IF is_frontend_node(config, n) THEN "setup" ELSE "roles")
  /\ monitor' = [monitor EXCEPT ![n] = "wait"]
  /\ UNCHANGED <<config, launcher, bench, etcd, cache_clean, started, files>>

(* The lists do not have the nodes asked for.                              *)
NodeListError(n) ==
  /\ main[n] = "start" /\ ~nodelists_valid(config)
  /\ NodeEnds(n, "exit_1")
  /\ UNCHANGED <<config, cache_clean, started, files>>

(* A missing command, a port in use, a directory that cannot be written.   *)
EnvironmentError(n) ==
  /\ "environment" \in Faults /\ main[n] = "start" /\ nodelists_valid(config)
  /\ NodeEnds(n, "exit_1")
  /\ UNCHANGED <<config, cache_clean, started, files>>

(* setup_lmcache, setup_kvbm: the storage cache is emptied.                *)
SetupCache(n) ==
  /\ main[n] = "setup"
  /\ cache_clean' = TRUE /\ Goto(n, "launch_etcd")
  /\ UNCHANGED <<config, monitor, launcher, bench, etcd, started, files>>

LaunchEtcd(n) ==
  /\ main[n] = "launch_etcd"
  /\ etcd' = "starting" /\ Goto(n, "wait_etcd")
  /\ UNCHANGED <<config, monitor, launcher, bench, cache_clean, started, files>>

EtcdReady ==
  /\ etcd = "starting" /\ etcd' = "ready"
  /\ UNCHANGED <<config, main, monitor, launcher, bench, cache_clean, started, files>>

(* wait_for_etcd in main().                                                *)
WaitForEtcd(n) ==
  /\ main[n] = "wait_etcd" /\ etcd = "ready"
  /\ Goto(n, "roles")
  /\ UNCHANGED <<config, monitor, launcher, bench, etcd, cache_clean, started, files>>

(* launch_decode, launch_prefill and launch_workloads in the background.   *)
StartRoles(n) ==
  /\ main[n] = "roles"
  /\ Goto(n, "poll")
  /\ launcher' = [launcher EXCEPT ![n] =
                    IF \E r \in Role : n \in node_list(config, r) THEN "wait_etcd" ELSE "none"]
  /\ bench' = IF is_frontend_node(config, n) THEN "wait" ELSE bench
  /\ UNCHANGED <<config, monitor, etcd, cache_clean, started, files>>

LaunchWorkers(n) ==
  /\ launcher[n] = "wait_etcd" /\ etcd = "ready"
  /\ launcher' = [launcher EXCEPT ![n] = "done"]
  /\ started' = started \union workers_on(config, n)
  /\ UNCHANGED <<config, main, monitor, bench, etcd, cache_clean, files>>

(* wait_for_frontend_marker.                                               *)
MainDone(n) ==
  /\ main[n] = "poll" /\ done
  /\ NodeEnds(n, "exit_0")
  /\ UNCHANGED <<config, cache_clean, started, files>>

MainFatal(n) ==
  /\ main[n] = "poll" /\ exit_on_error
  /\ Goto(n, "dying")
  /\ UNCHANGED <<config, monitor, launcher, bench, etcd, cache_clean, started, files>>

(* A second later: the failure marker, and the end of the node.            *)
Mutant_MainDies(n) ==   \* the script ends before the marker is written
  /\ main[n] = "dying"
  /\ NodeEnds(n, "exit_1")
  /\ UNCHANGED <<config, cache_clean, started, files>>

MainDies(n) ==
  /\ main[n] = "dying"
  /\ failure' = TRUE /\ NodeEnds(n, "exit_1")
  /\ UNCHANGED <<config, cache_clean, started, initialised, broken, report, done>>

(* log_gpu_utilization waits as the benchmark does and checks for errors.  *)
MonitorStarts(n) ==
  /\ monitor[n] = "wait"
  /\ \/ frontend_ready /\ monitor' = [monitor EXCEPT ![n] = "monitor"]
     \/ ~frontend_ready /\ exit_on_error /\ monitor' = [monitor EXCEPT ![n] = "dying"]
  /\ UNCHANGED <<config, main, launcher, bench, etcd, cache_clean, started, files>>

MonitorDies(n) ==
  /\ monitor[n] = "dying"
  /\ failure' = TRUE /\ monitor' = [monitor EXCEPT ![n] = "gone"]
  /\ UNCHANGED <<config, main, launcher, bench, etcd, cache_clean, started,
                 initialised, broken, report, done>>

(* launch_workloads.                                                       *)
BenchStarts ==
  /\ bench = "wait" /\ frontend_ready
  /\ bench' = "run"
  /\ UNCHANGED <<config, main, monitor, launcher, etcd, cache_clean, started, files>>

BenchFatal ==
  /\ bench = "wait" /\ ~frontend_ready /\ exit_on_error
  /\ bench' = "dying"
  /\ UNCHANGED <<config, main, monitor, launcher, etcd, cache_clean, started, files>>

BenchDies ==
  /\ bench = "dying"
  /\ failure' = TRUE /\ bench' = "gone"
  /\ UNCHANGED <<config, main, monitor, launcher, etcd, cache_clean, started,
                 initialised, broken, report, done>>

(* launch_workload: genai_perf.sh writes a report if it finds a profile;   *)
(* whether it fails is not looked at.                                      *)
Mutant_BenchEnds ==   \* no marker when the benchmark fails
  /\ bench = "run"
  /\ report' \in BOOLEAN /\ bench' = IF report' THEN "mark" ELSE "gone"
  /\ UNCHANGED <<config, main, monitor, launcher, etcd, cache_clean, started,
                 initialised, broken, done, failure>>

BenchEnds ==
  /\ bench = "run"
  /\ report' \in BOOLEAN /\ bench' = "mark"
  /\ UNCHANGED <<config, main, monitor, launcher, etcd, cache_clean, started,
                 initialised, broken, done, failure>>

MarkDone ==
  /\ bench = "mark"
  /\ done' = TRUE /\ bench' = "done"
  /\ UNCHANGED <<config, main, monitor, launcher, etcd, cache_clean, started,
                 initialised, broken, report, failure>>

(* The workers.                                                            *)

WorkerInitialised(w) ==
  /\ w \in started \ (initialised \union broken) /\ ~Exited(w[2])
  /\ initialised' = initialised \union {w}
  /\ UNCHANGED <<config, main, monitor, launcher, bench, etcd, cache_clean, started,
                 broken, report, done, failure>>

WorkerBreaks(w) ==
  /\ "worker" \in Faults /\ w \in started \ broken /\ ~Exited(w[2])
  /\ Cardinality(broken) < MaxBroken
  /\ broken' = broken \union {w}
  /\ UNCHANGED <<config, main, monitor, launcher, bench, etcd, cache_clean, started,
                 initialised, report, done, failure>>

MainStepOf(n) ==
  \/ StartNode(n) \/ NodeListError(n) \/ SetupCache(n) \/ LaunchEtcd(n)
  \/ WaitForEtcd(n) \/ StartRoles(n) \/ MainDone(n) \/ MainFatal(n) \/ MainDies(n)
BenchStep == BenchStarts \/ BenchFatal \/ BenchDies \/ BenchEnds \/ MarkDone

Next ==
  \/ \E n \in job_nodes(config) :
                      \/ MainStepOf(n) \/ EnvironmentError(n) \/ LaunchWorkers(n)
                      \/ MonitorStarts(n) \/ MonitorDies(n)
  \/ EtcdReady \/ BenchStep
  \/ \E w \in Workers(config) : WorkerInitialised(w) \/ WorkerBreaks(w)

Spec == Init /\ [][Next]_vars

(* Some process that can step does in the end, etcd starts, a worker that  *)
(* is neither initialised nor broken becomes one of them, and the          *)
(* benchmark ends. Every process takes boundedly many steps, so that all   *)
(* of them come to their end.                                              *)
FairSpec ==
  /\ Spec
  /\ WF_vars(\E n \in job_nodes(config) : MainStepOf(n) \/ LaunchWorkers(n))
  /\ WF_vars(EtcdReady) /\ WF_vars(BenchStep)
  /\ WF_vars(\E w \in Workers(config) : WorkerInitialised(w))

-----------------------------------------------------------------------------
(* was_run_successful, once the job has ended.                             *)
was_run_successful == ~failure /\ done /\ report

(* A configuration that the constraints allow, with a decode worker, run   *)
(* by a backend whose logs are watched. Without a decode node there is no  *)
(* frontend.                                                               *)
Sound(c) ==
  /\ nodelists_valid(c) /\ constraint_check(c)
  /\ c.roles["decode"].num_nodes > 0 /\ c.backend # "sglang_dsr1"

(* When the benchmark ends before any worker has broken, its report alone  *)
(* decides the run from then on: the nodes leave one after another, up to  *)
(* half a minute apart, and what the workers of some log meanwhile, when   *)
(* the frontend and its etcd are gone, is no failure to those that still   *)
(* poll.                                                                   *)
LateErrorsIgnored == [](done /\ broken = {} => [](was_run_successful <=> report))

(* No worker runs before the frontend has emptied the storage cache, which *)
(* only the wait for etcd brings about, and the benchmark runs only when   *)
(* every worker of every node has been initialised, and there is one.      *)
StartedInOrder ==
  /\ started # {} => cache_clean
  /\ Sound(config) /\ (bench \in {"run", "mark", "done"} \/ report \/ done) =>
       initialised = Workers(config) /\ Workers(config) # {}

(* If any node gave up, because of an error in a log or before it began,   *)
(* the run is reported as failed, even when the benchmark ended meanwhile  *)
(* and its report and the success marker are there.                        *)
FailedNodeFailsRun ==
  Sound(config) /\ (\E n \in Nodes : main[n] = "exit_1") => ~was_run_successful

(* Every node leaves in the end: no node waits for a marker that nobody    *)
(* will write, whichever workers break and however the benchmark ends. Not *)
(* so when a node could not even start (it leaves no failure marker), or   *)
(* when the errors of the backend are not watched.                         *)
NodeRefused == \E n \in Nodes : main[n] = "exit_1" /\ ~failure
EveryNodeExits == Sound(config) => <>(AllExited \/ NodeRefused)
=============================================================================
