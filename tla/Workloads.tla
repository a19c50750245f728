----------------------------- MODULE Workloads ------------------------------
(***************************************************************************)
(* One test run of one workload on Slurm, from the check of its layout to  *)
(* the metric of its report: SlurmRunner with the command generation of    *)
(* the workload, the commands its script runs, the files it leaves, and    *)
(* what is read in them. Serving and NIXL EP have modules of their own.    *)
(*                                                                         *)
(* A configuration is a record                                             *)
(*   workload, option   which of its modes: the benchmark of OSU, the      *)
(*                      NIXL backend, "evaluate" for Megatron, the data    *)
(*                      and tokenizer of NeMo launcher                     *)
(*   nodes, steps       how many nodes, how many rows it reports           *)
(*   layout, dse        its parameters (Layouts), explored or given        *)
(*   filepath, devices  NIXL: is a directory mounted; the device files,    *)
(*                      each with the last part of its path: a sequence,   *)
(*                      to which a number is added where it is taken       *)
(* The faults are those of the jobs and services, which are external.      *)
(***************************************************************************)
EXTENDS Layouts, Verdicts, FiniteSets

CONSTANTS
  Configs,
  GpusPerNode,   \* of the system
  Retries,       \* jobs that the Megatron-Bridge launcher may submit
  Mishaps        \* of "crash", "etcd", "stubborn", "pip", "matgen", "cut", "status"

ASSUME ConfigsAssumption ==
  \A c \in Configs :
    /\ c.nodes \in Nat \ {0} /\ c.steps \in Nat \ {0} /\ c.devices \in Seq(Seq(Nat))
    /\ c.workload = "NeMoRun" => c.layout \in NeMoRunLayout
    /\ c.workload = "MegatronBridge" => c.layout \in MegatronBridgeLayout
ASSUME RetriesAssumption == Retries \in Nat

VARIABLES
  config, phase,
  line,        \* the command of the script that is next, or being run
  procs,       \* the processes of its programs, and their states
  printed,     \* how much of its output the benchmark has written
  log,         \* the files of the run
  job_ids,     \* the ids in the launcher's log
  exit_code,
  submitted,   \* the jobs submitted for it, and their states
  tracked,     \* the job that CloudAI polls, 0 if none
  artifacts,   \* the mount directories in the output path
  verdict, metric, report,
  trouble      \* the faults there have been

running == <<procs, printed, log, exit_code>>
slurm   == <<submitted, job_ids, tracked>>
judged  == <<verdict, metric, report>>
run_vars == <<config, phase, line, running, slurm, artifacts, judged, trouble>>

-----------------------------------------------------------------------------
(* The local files that stand for the device files of NIXL.               *)

unique_file_name(name, used) ==
  IF name \notin used THEN name
  ELSE Append(name, CHOOSE i \in 1..(Cardinality(used) + 1) :
                      /\ Append(name, i) \notin used
                      /\ \A j \in 1..(i - 1) : Append(name, j) \in used)

device_files(devices) ==
  LET used[n \in 0..Len(devices)] ==
        IF n = 0 THEN <<>> ELSE Append(used[n - 1], unique_file_name(devices[n], ToSet(used[n - 1])))
  IN  used[Len(devices)]

mounts(c) == (IF c.filepath THEN {"filepath_mount"} ELSE {})
               \cup (IF c.devices # <<>> THEN {"device_list_mounts"} ELSE {})

Mutant_cleanup_targets(c) == IF c.filepath THEN {"filepath_mount"} ELSE {}

cleanup_targets(c) == mounts(c)

-----------------------------------------------------------------------------
(* The commands of a script. A process is named by its program and a       *)
(* number.                                                                 *)

One(program) == <<program, 1>>

Start(p) == <<"start", p>>     \* in the background
Run(p)   == <<"run", p>>       \* in the foreground
Must(p)  == <<"must", p>>      \* in the foreground; the script exits if it fails

etcd     == One("etcd")
main     == One("main")
launcher == One("launcher")

Mutant_gen_etcd_srun_command == <<Run(etcd), <<"healthy", etcd>>>>

gen_etcd_srun_command == <<Start(etcd), <<"healthy", etcd>>>>

gen_kill_and_wait_cmd == <<<<"kill", etcd>>>>

(* Both ends of a UCX transfer are benchmarks, also on a single node; the  *)
(* other backends need only one.                                           *)
bench_count(c) == IF c.option # "UCX" THEN 1 ELSE IF c.nodes > 1 THEN c.nodes ELSE 2

Bench(i) == <<"bench", i>>

Benches(c) == IF c.workload \in {"NIXLBench", "NIXLKVBench"}
              THEN {Bench(i) : i \in 1..bench_count(c)} ELSE {main}

Processes(c) == {One(p) : p \in {"etcd", "main", "launcher", "matgen", "server", "hostname", "pip"}} \cup Benches(c)

nixlbench_script(c) ==
  gen_etcd_srun_command
    \o [i \in 1..(bench_count(c) - 1) |-> Start(Bench(i))]
    \o <<Run(Bench(bench_count(c)))>> \o gen_kill_and_wait_cmd

perftest_script == <<Run(One("matgen"))>> \o gen_etcd_srun_command \o <<Run(main)>> \o gen_kill_and_wait_cmd

triton_script == <<Start(One("server")), Run(main)>>

srun_script == <<Run(main)>>

deepep_script == <<Run(One("hostname")), Run(main)>>

(* The wrapper runs on the submit node; the launcher stays attached to the *)
(* job until it has ended.                                                 *)
nemo_launcher_command == <<<<"launch", launcher>>, <<"job id", launcher>>>>

bridge_wrapper == <<Must(One("pip")), <<"launch", launcher>>, <<"job id", launcher>>>>

script(c) ==
  CASE c.workload \in {"NIXLBench", "NIXLKVBench"} -> nixlbench_script(c)
    [] c.workload = "NixlPerftest"   -> perftest_script
    [] c.workload = "TritonInference"          -> triton_script
    [] c.workload = "DeepEP"          -> deepep_script
    [] c.workload = "MegatronBridge" -> bridge_wrapper
    [] c.workload = "NeMoLauncher"    -> nemo_launcher_command
    [] OTHER                          -> srun_script

IsBridge == config.workload = "MegatronBridge"

(* A launcher submits the job, where there is no batch script.             *)
Launched == IsBridge \/ config.workload = "NeMoLauncher"

-----------------------------------------------------------------------------
(* What makes the generation of the commands raise. JaxToolbox reads its   *)
(* arguments under the name of the model, which only gen_exec_command      *)
(* looks up: in store_test_run the name is still empty.                    *)
jax_raises(test_name, c) == c.workload = "JaxToolboxGPT" /\ test_name # c.option

triton_raises(c) == c.workload = "TritonInference" /\ c.nodes < 3

(* get_command_gen_strategy: nothing generates it for Slurm.               *)
no_strategy(c) == <<"slurm", c.workload>> \notin DOMAIN command_gen_strategies_map

generation_raises(test_name, c) == no_strategy(c) \/ jax_raises(test_name, c) \/ triton_raises(c)

(* Only gen_exec_command of NeMo launcher looks at its data and tokenizer. *)
submission_raises(c) == c.workload = "NeMoLauncher" /\ c.option \in {"no data", "no tokenizer"}

constraint_check(c) ==
  CASE c.workload = "NeMoRun"        -> nemo_run_admits(c.layout)
    [] c.workload = "MegatronBridge" -> megatron_bridge_admits(c.layout)
    [] c.workload = "NixlPerftest"   -> perftest_admits(c.layout)
    [] OTHER                          -> TRUE

-----------------------------------------------------------------------------
(* The programs. What they write, as was_run_successful and the reports    *)
(* expect it, and which layouts they accept: as many ranks as GPUs, the    *)
(* batch split evenly over the replicas, the experts over the ranks.       *)

rows(c, f) == [i \in 1..c.steps |-> <<f, "row">>]

output(c) ==
  CASE c.workload = "NcclTest" -> rows(c, "stdout") \o <<<<"stdout", "# Out of bounds values">>, <<"stdout", "# Avg bus bandwidth">>>>
    [] c.workload = "DDLBTest" -> <<<<"stdout", "Benchmark Results">>>>
    [] c.workload = "OSUBench"  -> (IF c.option = "osu_hello" THEN <<>> ELSE <<<<"stdout", "# Size">>>>) \o rows(c, "stdout")
    [] c.workload = "NeMoRun" -> <<<<"stderr", "max_steps=">>>> \o rows(c, "stdout") \o <<<<"stderr", "reached">>>>
    [] c.workload = "MegatronRun" -> IF c.option = "evaluate" THEN <<<<"stdout", "validation loss at iteration">>>>
                                                               ELSE rows(c, "stdout")
    [] c.workload = "MegatronBridge" -> rows(c, "launcher")
    [] c.workload \in {"NIXLBench", "NIXLKVBench"} -> <<<<"stdout", "header">>>> \o rows(c, "stdout")
    [] c.workload = "ChakraReplay" -> <<<<"stdout", "Hello from Rank">>>> \o rows(c, "stdout")
                                        \o <<<<"stdout", "Performance of replayed comms">>>> \o rows(c, "stdout")
    [] c.workload = "DeepEP"       -> rows(c, "results") \o <<<<"results", "end of JSON">>>>
    [] c.workload = "NeMoLauncher" -> rows(c, "run") \o <<<<"run", "train_step_timing">>>>
    [] OTHER -> rows(c, "stdout")

files(c) ==
  CASE c.workload = "MegatronBridge" -> {"launcher"}
    [] c.workload = "NeMoLauncher"   -> {"run"}
    [] c.workload = "DeepEP"         -> {"stdout", "stderr", "results"}
    [] OTHER                         -> {"stdout", "stderr"}

error_line(c) == CASE c.workload = "NcclTest" -> "Test failure" [] c.workload = "DDLBTest" -> "Error" [] OTHER -> "traceback"

Split(total, part) == \E k \in 1..total : total = k * part

Fits(c) ==
  LET a == c.layout IN
  CASE c.workload = "NeMoRun" ->
         \E d \in 1..trainer_gpus(a, GpusPerNode) :
           /\ a.tp * a.pp * a.cp * d = trainer_gpus(a, GpusPerNode)
           /\ Split(a.gbs, a.mbs * d)
    [] c.workload = "MegatronBridge" ->
         /\ \E d \in 1..a.num_gpus : /\ Or1(a.tp) * Or1(a.pp) * Or1(a.cp) * d = a.num_gpus
                                     /\ (a.mb # 0 /\ a.gb # 0) => Split(a.gb, a.mb * d)
         /\ (a.et # None /\ a.ep # None) => Split(a.num_gpus, a.et * a.ep * Or1(a.pp))
    [] OTHER -> TRUE

(* Two devices in one local file would overwrite each other.               *)
Runs(c) == Fits(c) /\ Cardinality(ToSet(device_files(c.devices))) = Len(c.devices)

-----------------------------------------------------------------------------
RunInit ==
  /\ config \in Configs
  /\ phase = "check"
  /\ line = 1 /\ procs = [p \in Processes(config) |-> "none"] /\ printed = 0 /\ log = <<>> /\ exit_code = 0
  /\ submitted = <<>> /\ job_ids = <<>> /\ tracked = 0 /\ artifacts = {}
  /\ verdict = FALSE /\ metric = METRIC_ERROR /\ report = FALSE
  /\ trouble = {}

Check ==
  /\ phase = "check"
  /\ phase' = IF ~config.dse THEN "store"
              ELSE IF config.workload = "NeMoRun" /\ nemo_run_raises(config.layout) THEN "raised"
              ELSE IF constraint_check(config) THEN "store" ELSE "rejected"
  /\ UNCHANGED <<config, line, running, slurm, artifacts, judged, trouble>>

(* on_job_submit, outside the try of submit_test. Generating the command   *)
(* makes the mount directories.                                            *)
StoreTestRun ==
  /\ phase = "store"
  /\ IF generation_raises("", config)
     THEN phase' = "raised" /\ UNCHANGED artifacts
     ELSE phase' = "submit" /\ artifacts' = artifacts \cup mounts(config)
  /\ UNCHANGED <<config, line, running, slurm, judged, trouble>>

(* gen_exec_command, and sbatch, or the wrapper in its place.              *)
SubmitTest ==
  /\ phase = "submit"
  /\ IF submission_raises(config)
     THEN phase' = "raised" /\ UNCHANGED <<log, submitted, tracked>>
     ELSE /\ phase' = "running"
          /\ log' = [f \in files(config) |-> <<>>]
          /\ IF Launched THEN UNCHANGED <<submitted, tracked>> ELSE submitted' = <<"running">> /\ tracked' = 1
  /\ UNCHANGED <<config, line, procs, printed, exit_code, job_ids, artifacts, judged, trouble>>

-----------------------------------------------------------------------------
(* The script.                                                             *)

Executing   == phase = "running" /\ line <= Len(script(config))
Command     == script(config)[line][1]
Arg         == script(config)[line][2]
Returned(p) == procs[p] \in {"done", "failed"}

ExitScript(code) ==
  /\ exit_code' = code
  /\ phase' = IF ~Launched THEN "ended" ELSE IF code = 0 THEN "polling" ELSE "exited"
  /\ submitted' = IF Launched THEN submitted ELSE <<"over">>

StartsProcess ==
  /\ Executing /\ Command \in {"start", "run", "must"} /\ procs[Arg] = "none"
  /\ procs' = [procs EXCEPT ![Arg] = "running"]
  /\ line' = IF Command = "start" THEN line + 1 ELSE line
  /\ UNCHANGED <<config, phase, printed, log, exit_code, slurm, artifacts, judged, trouble>>

ProcessReturns ==
  /\ Executing /\ Command \in {"run", "must"} /\ Returned(Arg)
  /\ IF Command = "must" /\ procs[Arg] = "failed"
     THEN ExitScript(1) /\ UNCHANGED line
     ELSE /\ line' = line + 1 /\ exit_code' = (IF procs[Arg] = "done" THEN 0 ELSE 1)
          /\ UNCHANGED <<phase, submitted>>
  /\ UNCHANGED <<config, procs, printed, log, job_ids, tracked, artifacts, judged, trouble>>

EtcdAnswers ==
  /\ Executing /\ Command = "healthy" /\ procs[Arg] = "healthy"
  /\ line' = line + 1 /\ exit_code' = 0
  /\ UNCHANGED <<config, phase, procs, printed, log, slurm, artifacts, judged, trouble>>

EtcdTimesOut ==
  /\ Executing /\ Command = "healthy" /\ "etcd" \in trouble
  /\ ExitScript(1)
  /\ UNCHANGED <<config, line, procs, printed, log, job_ids, tracked, artifacts, judged, trouble>>

KillsEtcd ==
  /\ Executing /\ Command = "kill"
  /\ line' = line + 1 /\ exit_code' = 0
  /\ procs' = [procs EXCEPT ![Arg] = "done"]
  /\ UNCHANGED <<config, phase, printed, log, slurm, artifacts, judged, trouble>>

EtcdStubborn ==
  /\ Executing /\ Command = "kill" /\ "stubborn" \in Mishaps
  /\ ExitScript(1)
  /\ trouble' = trouble \cup {"stubborn"}
  /\ UNCHANGED <<config, line, procs, printed, log, job_ids, tracked, artifacts, judged>>

LastCommandDone ==
  /\ phase = "running" /\ line > Len(script(config))
  /\ ExitScript(exit_code)
  /\ UNCHANGED <<config, line, procs, printed, log, job_ids, tracked, artifacts, judged, trouble>>

-----------------------------------------------------------------------------
(* The launcher of Megatron-Bridge submits a job and stays with it; it may *)
(* submit another when that one has failed, and it may die by itself. Its  *)
(* own end is a failure in any case. NeMo launcher submits one job and     *)
(* ends.                                                                   *)

LauncherRuns == Executing /\ Command = "launch" /\ ~Returned(launcher)
Alive(j)     == j \in DOMAIN submitted /\ submitted[j] = "running"
JobAlive     == \E j \in DOMAIN submitted : Alive(j)

LauncherSubmits ==
  /\ LauncherRuns /\ ~JobAlive /\ Len(submitted) < (IF IsBridge THEN Retries ELSE 1)
  /\ submitted # <<>> => submitted[Len(submitted)] = "failed"
  /\ submitted' = Append(submitted, "running") /\ printed' = 0
  /\ procs' = [procs EXCEPT ![main] = "running"]
  /\ job_ids' = Append(job_ids, Len(submitted) + 1)
  /\ UNCHANGED <<config, phase, line, log, exit_code, tracked, artifacts, judged, trouble>>

LauncherEnds ==
  /\ LauncherRuns
  /\ IF submitted = <<>> \/ (IsBridge /\ JobAlive)
     THEN "crash" \in Mishaps /\ trouble' = trouble \cup {"launcher"}
     ELSE UNCHANGED trouble
  /\ procs' = [procs EXCEPT ![launcher] = "failed"]
  /\ line' = line + 1 /\ exit_code' = 0
  /\ UNCHANGED <<config, phase, printed, log, slurm, artifacts, judged>>

(* The last id in the launcher's log is printed for SlurmRunner. Without   *)
(* one, the JobIdRetrievalError ends CloudAI with exit(1).                 *)
ReadsJobId ==
  /\ Executing /\ Command = "job id"
  /\ IF job_ids = <<>> THEN ExitScript(1) /\ UNCHANGED tracked
     ELSE ExitScript(0) /\ tracked' = Last(job_ids)
  /\ UNCHANGED <<config, line, procs, printed, log, job_ids, artifacts, judged, trouble>>

JobOver ==
  /\ phase = "polling" /\ ~Alive(tracked)
  /\ phase' = "ended"
  /\ UNCHANGED <<config, line, running, slurm, artifacts, judged, trouble>>

-----------------------------------------------------------------------------
(* The programs and services.                                              *)

Working    == phase \in {"running", "polling"}
Writing(c) == \A b \in Benches(c) : procs[b] = "running"

EtcdReady ==
  /\ Working /\ procs[etcd] = "running"
  /\ procs' = [procs EXCEPT ![etcd] = "healthy"]
  /\ UNCHANGED <<config, phase, line, printed, log, exit_code, slurm, artifacts, judged, trouble>>

EtcdDies ==
  /\ "etcd" \in Mishaps /\ Working /\ procs[etcd] \in {"running", "healthy"}
  /\ procs' = [procs EXCEPT ![etcd] = "failed"]
  /\ trouble' = trouble \cup {"etcd"}
  /\ UNCHANGED <<config, phase, line, printed, log, exit_code, slurm, artifacts, judged>>

(* The launcher copies the log of the job only while it is attached.       *)
Detached == IsBridge /\ Returned(launcher)

Writes ==
  /\ Working /\ Writing(config) /\ Runs(config) /\ printed < Len(output(config))
  /\ LET text == output(config)[printed + 1] IN
     log' = IF Detached THEN log ELSE [log EXCEPT ![text[1]] = Append(@, text[2])]
  /\ printed' = printed + 1
  /\ UNCHANGED <<config, phase, line, procs, exit_code, slurm, artifacts, judged, trouble>>

EndOfJob(state) ==
  submitted' = IF Launched /\ JobAlive THEN [submitted EXCEPT ![Len(submitted)] = state] ELSE submitted

Completes(b) ==
  /\ Working /\ procs[b] = "running" /\ Runs(config) /\ printed = Len(output(config))
  /\ procs' = [procs EXCEPT ![b] = "done"]
  /\ EndOfJob("over")
  /\ UNCHANGED <<config, phase, line, printed, log, exit_code, job_ids, tracked, artifacts, judged, trouble>>

error_file(c) ==
  CASE c.workload = "MegatronBridge" -> "launcher" [] c.workload = "NeMoLauncher" -> "run" [] OTHER -> "stdout"

Breaks(b) ==
  /\ Working /\ procs[b] = "running"
  /\ IF Runs(config) THEN "crash" \in Mishaps /\ trouble' = trouble \cup {"crash"}
                     ELSE UNCHANGED trouble
  /\ procs' = [procs EXCEPT ![b] = "failed"]
  /\ EndOfJob("failed")
  /\ log' = IF Detached THEN log ELSE [log EXCEPT ![error_file(config)] = Append(@, error_line(config))]
  /\ UNCHANGED <<config, phase, line, printed, exit_code, job_ids, tracked, artifacts, judged>>

(* Single commands that prepare something.                                 *)
Prepared ==
  \E p \in {"matgen", "hostname", "pip"} :
    /\ Working /\ procs[One(p)] = "running"
    /\ \/ procs' = [procs EXCEPT ![One(p)] = "done"] /\ UNCHANGED trouble
       \/ /\ p \in Mishaps
          /\ procs' = [procs EXCEPT ![One(p)] = "failed"] /\ trouble' = trouble \cup {p}
    /\ UNCHANGED <<config, phase, line, printed, log, exit_code, slurm, artifacts, judged>>

(* At its time limit the job is ended, with an exit code of 0.             *)
Cut ==
  /\ "cut" \in Mishaps /\ phase = "running" /\ ~Launched
  /\ phase' = "ended" /\ exit_code' = 0 /\ submitted' = <<"over">>
  /\ trouble' = trouble \cup {"cut"}
  /\ UNCHANGED <<config, line, procs, printed, log, job_ids, tracked, artifacts, judged>>

-----------------------------------------------------------------------------
(* on_job_completion: the metadata holds the command, which is generated   *)
(* anew, before the directories are removed. Without an answer of sacct    *)
(* the metadata cannot be made, and nothing after it is done.              *)
Collect ==
  /\ phase = "ended"
  /\ \/ /\ phase' = "collected"
        /\ LET stored == artifacts \cup mounts(config) IN artifacts' = stored \ cleanup_targets(config)
        /\ UNCHANGED trouble
     \/ /\ "status" \in Mishaps
        /\ phase' = "raised" /\ trouble' = trouble \cup {"status"} /\ UNCHANGED artifacts
  /\ UNCHANGED <<config, line, running, slurm, judged>>

Judge ==
  /\ phase = "collected"
  /\ phase' = "judged"
  /\ verdict' = was_run_successful(config.workload, config.option, log, exit_code)
  /\ metric' = get_metric(config.workload, log)
  /\ report' = (samples(config.workload, log) # 0)
  /\ UNCHANGED <<config, line, running, slurm, artifacts, trouble>>

Finished == phase \in {"rejected", "raised", "exited", "judged"}

Terminated == Finished /\ UNCHANGED run_vars

Starts  == Check \/ StoreTestRun \/ SubmitTest
Script  == StartsProcess \/ ProcessReturns \/ EtcdAnswers \/ EtcdTimesOut \/ KillsEtcd
             \/ EtcdStubborn \/ LastCommandDone \/ ReadsJobId
Program == EtcdReady \/ Writes \/ Prepared \/ (\E b \in Benches(config) : Completes(b))
Ends    == JobOver \/ Collect \/ Judge

RunNext ==
  \/ Starts \/ Script \/ Program \/ Ends
  \/ LauncherSubmits \/ LauncherEnds
  \/ EtcdDies \/ Cut \/ \E b \in Benches(config) : Breaks(b)
  \/ Terminated

RunSpec == RunInit /\ [][RunNext]_run_vars

(* CloudAI and the shell go on by themselves, and so do programs that      *)
(* nothing happens to. A program that cannot run with its layout ends.     *)
FairRunSpec ==
  /\ RunSpec
  /\ WF_run_vars(Starts) /\ WF_run_vars(Script) /\ WF_run_vars(Program) /\ WF_run_vars(Ends)
  /\ WF_run_vars(LauncherSubmits)
  /\ WF_run_vars(LauncherEnds /\ submitted # <<>> /\ (IsBridge => ~JobAlive))
  /\ WF_run_vars(~Runs(config) /\ \E b \in Benches(config) : Breaks(b))

-----------------------------------------------------------------------------
(* A run is called successful only if the benchmark came to its end: for   *)
(* NCCL, DDLB, NeMo 2.0 and Megatron, whose checks look for the last thing *)
(* printed or at the exit code. Megatron is taken at the word of sacct,    *)
(* and a job that was cut has an exit code of 0. (OSU, NIXL and            *)
(* Megatron-Bridge accept partial output.) A run to which nothing happened *)
(* is called successful, if its layout was known to fit or was admitted by *)
(* constraint_check; for NeMo 2.0 this needs the eight GPUs that its check *)
(* takes a node to have.                                                   *)
HonestVerdict ==
  phase = "judged" =>
    /\ /\ verdict
       /\ config.workload \in {"NcclTest", "DDLBTest", "NeMoRun", "MegatronRun"}
       /\ ~(config.workload = "MegatronRun" /\ "cut" \in trouble)
       => printed = Len(output(config))
    /\ /\ trouble = {}
       /\ config.dse \/ Fits(config)
       /\ GpusPerNode = AssumedGpusPerNode
       => verdict

(* A successful run of at least two steps has a report, and a metric that  *)
(* a reward can be computed of, in the workloads that have them: what the  *)
(* verdict, the report and the metric look for in the files is not the     *)
(* same. (The metric of UCC is a text.) Chakra replay, DeepEP and NeMo     *)
(* launcher are always called successful; they have a report when nothing  *)
(* happened to them.                                                       *)
ResultsOfSuccess ==
  phase = "judged" /\ verdict /\ config.steps >= 2 =>
    /\ \/ config.workload \in {"NcclTest", "NeMoRun", "NIXLBench", "MegatronBridge"}
       \/ config.workload = "MegatronRun" /\ config.option # "evaluate"
       => report /\ metric = "number"
    /\ config.workload \in {"ChakraReplay", "DeepEP", "NeMoLauncher"} /\ trouble = {} => report

(* No job of the test run is still running when its results are read: with *)
(* several jobs submitted by one launcher, the right one is polled. And    *)
(* the mount directories of NIXL, which may hold files of gigabytes, are   *)
(* gone when the job has been collected, although collecting it makes them *)
(* once more.                                                              *)
NothingLeftOver ==
  /\ phase \in {"ended", "collected", "judged"} => ~JobAlive
  /\ phase \in {"collected", "judged"} => artifacts = {}

(* A script to which nothing happens comes to its end, and its test run is *)
(* judged: no command waits for something that is not there.               *)
ScriptEnds == <>(Finished \/ trouble # {})

=============================================================================
