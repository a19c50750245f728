# CloudAI: specifications, model checking and proofs

CloudAI runs benchmark scenarios on clusters. A scenario is a list of test runs with
dependencies and iterations; CloudAI installs what the tests need, submits their
jobs to a scheduler (Slurm, LSF, Kubernetes, RunAI, or plain processes), polls them,
reacts to completions and failures, and reports. This directory holds TLA+ models of
the parts of it whose correctness depends on the order in which things happen or on
parts that have to agree, TLC configurations that check them on small instances, and
proofs of the main invariants for every value of the constants.

Source paths below are relative to `src/cloudai/` of the repository, unless they
begin with `doc/`, `.github/`, `tests/` or `README.md`.

- [1. Inventory](#1-inventory)
- [2. Modules and plan](#2-modules-and-plan)
- [3. From the code to the models](#3-from-the-code-to-the-models)
- [4. Runs, bounds and what they show](#4-runs-bounds-and-what-they-show)
- [5. Fairness](#5-fairness)
- [6. Proofs](#6-proofs)
- [7. Where code and documentation disagree, and other observations](#7-where-code-and-documentation-disagree-and-other-observations)
- [8. What is not modelled, and what is only model-checked](#8-what-is-not-modelled-and-what-is-only-model-checked)

To repeat the checks, in this directory:

    tlc -config MCBaseRunner_runner.cfg MCBaseRunner   # and so on, one cfg per module
    tlc -config MCJobPolling_polls.cfg JobPolling      # this one has no MC module
    tlapm BaseRunnerProofs.tla                         # and the other *Proofs modules

## 1. Inventory

### Components, their state and operations

| Component | Code | State | Operations |
|---|---|---|---|
| Scenario runner | `_core/base_runner.py`, `_core/base_job.py` | `jobs`, `testrun_to_job_map`, `shutting_down`, `current_iteration` of each test run | `run`, `submit_test`, `check_start_post_init_dependencies`, `monitor_jobs`, `handle_job_completion`, `handle_dependencies`, `shutdown` |
| Process and signals | `_core/runner.py`, `cli/handlers.py`, `cli/cli.py` | the signal handlers of the process | `run`, `cancel_on_signal`, one handler per command |
| Scenario and test run | `_core/test_scenario.py`, `models/scenario.py`, `test_scenario_parser.py`, `parser.py` | dependencies, hooks, iterations, step | parsing and validation, `has_more_iterations`, `all_combinations` |
| Slurm node selection | `systems/slurm/slurm_system.py`, `slurm_runner.py`, `slurm_command_gen_strategy.py` | `group_allocated`, node states, a cache of resolved requests | `update`, `group_nodes_by_state`, `allocate_nodes`, `complete_job` |
| Status polling | `slurm_system.py`, `systems/{lsf,runai,standalone}` | none beyond the answers of the back end | `is_job_running`, `is_job_completed`, retries, `kill` |
| Single-sbatch runner | `systems/slurm/single_sbatch_runner.py` | one job for the whole scenario | unrolling, submission, completion, `handle_dse`, shutdown |
| Kubernetes | `systems/kubernetes` | `_genai_perf_completed`, deployments, port-forward process | create, poll, delete; the Dynamo deployment with its benchmark pod |
| Installation | `_core/base_installer.py`, `_core/installables/*` | directories under `install_path` | `install`, `uninstall`, `is_installed`, `mark_as_installed`, each with a thread per item |
| Docker image cache | `systems/slurm/docker_image_cache_manager.py`, `slurm_installer.py` | image files | check, import, uninstall |
| Design space exploration | `cli/handlers.py`, `configurator/*` | agent index, trajectory, environment's test run | `select_action`, `step`, `get_observation`, `write_trajectory` |
| AI Dynamo launch | `workloads/ai_dynamo/ai_dynamo.sh` | log and marker files on a shared file system | roles, readiness, failure and end markers |
| LLM serving | `workloads/common/llm_serving.py`, `workloads/{vllm,sglang}` | processes and pids of a generated script | start, wait for health, benchmark, cleanup |
| NIXL EP | `workloads/nixl_ep` | launches and logs of a generated script | plan validation, packing, phases, follow-up launches |
| Other workloads | `workloads/*` | files of a run | scripts, constraint checks, verdicts, metrics |
| Reports | `report_generator/*`, `reporter.py`, `_core/base_reporter.py`, reporters of the workloads | none | reading outputs, comparing, writing tables |
| Registry | `_core/registry.py`, `registration.py` | dictionaries filled at import | add, update, add a report |

### How they interact

`Runner.run` installs the signal handlers and calls `BaseRunner.run`, one thread
that calls the system object (`submit`, `is_job_running`, `is_job_completed`,
`kill`) and its own hooks (`on_job_submit`, `on_job_completion`). The Slurm runner's
hooks and its command generation resolve the node request of a test run against the
state kept in `SlurmSystem`. `handle_dse_job` drives `CloudAIGymEnv.step`, which
clears and re-uses the same runner for each trial and reads results from disk. The
single-sbatch runner replaces the loop by one job with the commands of all test runs
in it. The scripts that are submitted run beside the process and are seen only
through the scheduler and their files; reports read those files when the session is
over. The installer runs before, in its own process or ahead of the run, and shares
nothing with the runner but the disk.

### What is hard, and what makes each part correct

- *Runner.* The signal handler interrupts the thread between any two steps; jobs
  start and end between any two polls; three dependency types, iterations and
  failures all change the list the loop is walking over. It is correct if `jobs` and
  `testrun_to_job_map` agree, no job on the scheduler is forgotten, a test run never
  has two jobs at once, iterations and dependents start in the order that was asked
  for, kills have a reason, and the loop ends with everything done.
- *Slurm nodes.* What is booked when a request is resolved and what is released when
  a job completes are computed in different places, from different sources, up to
  three times for one job. It is correct if every job gets what it asked for,
  bookings go away only by a completion and nobody starves.
- *Exploration.* Errors of a trial are swallowed, the runner's state is reset under
  a job that may still exist, parameter sets repeat or are infeasible. It is correct
  if no parameter set is run twice, the trajectory describes finished jobs, and the
  whole space is tried.
- *Installation.* Threads meet on directories, commands fail half way, the process
  may be killed. It is correct if success means that everything is there and
  complete, failure leaves nothing that later counts as installed and stays with its
  item, and repeating a failed installation succeeds.
- *Polling.* Time-outs are retried, states are lists of names, jobs are requeued,
  suspended and forgotten, and one job that cannot be judged must not stop the
  others. It is correct if completion means that a job is over and every end that is
  documented is noticed.
- *Kubernetes.* Completion is deduced from conditions, pods and one flag; the
  benchmark runs inside a poll. It is correct if the cluster is clean in the end,
  the runner causes no conflict itself, and completion means that the benchmark of
  this test run has run.
- *Launch scripts* (AI Dynamo, LLM serving, NIXL EP, others). Processes on several
  nodes meet on files, ports and logs, any of them may die, and no supervisor
  watches. They are correct if resources are split without overlap, nothing starts
  before what it needs, every script ends, nothing is left running, and the logs
  tell success from failure.
- *Sessions and reports.* The scenario is unrolled in two quite different ways,
  results lie in directories that several readers interpret. They are correct if
  everything accepted is run in a job that is big enough for it, and if reports
  agree with each other and with what was run.

`PROJECT.json` lists every hazard with its line and the properties that address it.

## 2. Modules and plan

| Module | Component | MC module, run | Proofs |
|---|---|---|---|
| `BaseRunner` | scenario runner, signals, scheduler | `MCBaseRunner`, `runner` | `BaseRunnerProofs` |
| `ScenarioExec` | abstract specification of a scenario, implemented by `BaseRunner` | checked in `runner` | `BaseRunnerProofs` |
| `SlurmNodes` | Slurm node selection | `MCSlurmNodes`, `nodes` | `SystemProofs` |
| `DseGym` | design space exploration | `MCDseGym`, `dse` | `TrialProofs` |
| `Installer` | installation and image cache | `MCInstaller`, `installer` | `InstallerProofs` |
| `JobPolling` | status polling of Slurm, LSF, standalone and RunAI | `JobPolling` itself, `job_polling` | `SystemProofs` |
| `KubernetesRunner` | Kubernetes back end | `MCKubernetesRunner`, `kubernetes_kinds` | `KubernetesRunnerProofs` |
| `LlmServing` | batch script of vLLM and SGLang | `MCLlmServing`, `llm_serving` | `LlmServingProofs` |
| `AiDynamo` | launch script of AI Dynamo | `MCAiDynamo`, `ai_dynamo_launch` | `AiDynamoProofs` |
| `NixlEp` | batch script of NIXL EP | `MCNixlEp`, `nixl_ep` | `NixlEpProofs` |
| `Scenarios`, `SbatchScript`, `DseReport`, `Comparison`, `Session` | parsing, batch scripts, reports on explorations, comparison reports, and the session that composes them; each extends the one before | `MCSession`, `session` | |
| `Registry` | runners, and strategies, definitions and reports of the workloads; extended by `Scenarios` and `Verdicts` | in `session`, `workloads` | |
| `Layouts`, `Verdicts`, `Workloads` | constraint checks, verdicts and metrics as operators; the scripts of the other workloads, which use both | `MCWorkloads`, `workloads` | `TrialProofs` |
| `VerifyConfigs` | `cloudai verify-configs` | `MCVerifyConfigs`, `verify_exit` | |

How they fit together: `SlurmNodes`, `DseGym`, `JobPolling` and `Session` each stand
beside `BaseRunner` and use what it guarantees. `SlurmNodes` names a job by its test
run, which is sound because `BaseRunner` never has two jobs of a test run on the
scheduler (theorem `OneLiveJob`), and lets submissions and completions come in any
order, which includes every order `BaseRunner` produces. `DseGym` sees
`BaseRunner.run` from outside as one job submitted and polled to its end, which is
what `BaseRunner` does with a scenario of one test run without dependencies (`dse`
in its scenarios). `JobPolling` opens what `BaseRunner` takes as one answer of the
back end, for jobs already submitted. `KubernetesRunner` repeats the loop, with
`start_post_comp` dependencies and iterations, because there a poll changes the
cluster. `Session` composes parser, installer (as success or failure), both ways of
running and all reports; one test run follows another in it, since jobs side by side
are the subject of `BaseRunner`. The scripts of `LlmServing`, `NixlEp`, `AiDynamo`
and `Workloads` are what one job of `BaseRunner` does on the cluster; `Session`
keeps of them whether a block leaves the script it shares.

The number of runs is kept small on purpose: one per module or composition, with
safety and liveness under the same faults.

What remains worth doing, in this order: `ScriptFits` of `Session` by proof, whose
sizes are folds over sequences; several deployments at once in the run of
`KubernetesRunner`; the maps of `Registry` that no module reads.

## 3. From the code to the models

Every definition that stands for code is listed in `PROJECT.json` under `map` with
its file and lines. What follows says how state and actions correspond.

### BaseRunner

One action is what the thread does between two points where something else can
happen: a sleep, a scheduler command, a signal. Program counter and loop variables
are explicit because the signal handler sees the state between them.

| Code | Model |
|---|---|
| `run` up to the loop; loop test | `Run`, `While` |
| `submit_test`: `_submit_test`, then `jobs.append` and the map entry | `SubmitTest`, `RecordJob`: two steps, a signal may fall between them; `SubmitError` is `exit(1)` |
| `check_start_post_init_dependencies` | `CheckItem` per job, `CheckEnd` |
| `monitor_jobs` on a copy of `jobs` | `MonitorSkip`, `MonitorCompleted`, `MonitorEnd` |
| `handle_job_completion` with iterations and `start_post_comp` dependents | in `MonitorCompleted`; the submissions that follow are `SubmitTest` steps fed by `to_submit` |
| `end_post_comp` dependents | `KillDependents` |
| failed job with `job_status_check` | `JobFailure` |
| a status query that fails after its retries | `StatusError` |
| `cancel_on_signal`, `shutdown` | `CancelOnSignal`, enabled at every step |
| the scheduler, from what `is_job_running`, `is_job_completed` and `kill` show of it | `JobStarts`, `JobEnds`, `JobCancelled` |

A test run is its position in the scenario, a job its submission number: both Python
loops and dictionaries keep insertion order, so a loop is "the smallest left". A
scenario has at most one dependency per type because the parser stores them in a
dictionary by type. In dry-run nothing reaches the scheduler.

`ScenarioExec` is the scenario without jobs, lists, maps and polls: test runs are
open, live, begun, told to stop, told to end by a dependency, done. It says when a
test run may start (what it waits for is done or has begun, or its next iteration is
due), that it never overlaps itself, that it is ended only by a shutdown, a failure
or the test run it is to end with, and when the run may be called done. `BaseRunner`
computes those sets from its own state and checks `Exec!Spec` as a property.

### SlurmNodes

`get_nodes_by_spec` is the set of answers a request may get. `allocate_nodes` takes
nodes state by state in the order of `preference`; which node of a state comes first
depends on the iteration order of a Python set of strings and is left open. A
request is resolved in `OnJobSubmit`, in `SubmitTest` and in `StoreSrunCommand`,
each time against the current `update` (sinfo, overlaid by squeue, overlaid by
`group_allocated`) and each time booking the answer. `CompleteJob` releases the
nodes the job ran on. `NoNodes` is the `ValueError` of an empty answer. The cluster
is external: `JobTakesNodes`, `JobLeavesNodes`, `JobCancelled`, `NodeFreed` (a node
comes back through COMPLETING), `NodeDown`, `NodeUp`.

### DseGym

`pc` walks through one trial: `select_action` of the grid agent, `step` (infeasible
or already tried: `StepSkipped`; otherwise `StepRun`, which resets the runner),
`run` (`RunReturns` when a signal came first, `RunSubmits`, `SubmitError`), polling
(`RunCompletes`, `StatusError`), `Observe` (read the metric, append to the
trajectory), and `NextTestRun` when the grid is exhausted. The disk is the field
`output` of a job: nothing yet, an unfinished output, or the metric. `signalled` is
a history variable, read by no action: `GridExplored` uses it to say which trials
may have been cut short.

### Installer

State is what the threads decide by: the head and submodules of each checkout,
whether an environment is absent, bare or complete, whether a file is absent,
partial or complete. `Install` and `Uninstall` start a command: a new process, with
nothing remembered but the disk. `Start` is a pool thread taking an item; the other
actions are the steps of a thread, one external command each, which may fail.
`Killed` ends the process between two steps. Items whose `__eq__` holds are
deduplicated by `all_items`; a repository mounted by one test and a Python
executable built from it are not equal, and work on one directory.

Class by class: `Verify`, `CloneBegins`, `CloneEnds`, `CheckOut`,
`EnsureSubmodules`, `CheckoutGone` for `GitRepo`; `CreateVenv`,
`InstallDependencies` for `PythonExecutable` and `PythonEnvironment`; `Import` for
images and files, also of a model snapshot; `RemoveTree`, `Remove` for
uninstallation. `prerequisites` is what the Slurm installer checks before any thread
starts.

### JobPolling

What a back end reports of a job is a set of words (`shown`), what has become of it
a state of its own (`life`): the two are related by `Reports`, which is external.
The pass asks `IsRunning` and then `IsCompleted` of every job (the release of
`start_post_init` dependents), then `Monitor` (the completion check). What follows a
completion is `CompletionHandled`, or `StoreJobMetadata` first on Slurm and
`StoreLogs` on RunAI. `TimesOut` is a timeout of sacct or squeue within the retries
of a query, `QueryFails` every other error. `CancelOnSignal` is the shutdown of all
back ends but RunAI, whose `kill` raises in the middle (`RunAIKill`). The back ends
start, end, suspend, resume, requeue and forget jobs at any time; `TokenExpires` is
RunAI's.

### KubernetesRunner

The resource of a job is known by its name; all deployments of AI Dynamo have the
same (`Dgd`). `object` is the condition that is true of a resource, `deleting` its
foreground deletion, `pods` the pods of a deployment. `SubmitTest`, `CreateObject`
and `Observe` are `create_job`: a deployment of the same name is deleted first, and
the new object is waited for. `PollJob` decides for jobs, `PollDynamo` for
deployments: it may enter the benchmark (`BenchmarkStarts`, `Benchmark`,
`BenchmarkFails`), which runs inside the poll and sets the one completion flag.
`Completion` is `on_job_completion`, which deletes the object, and the loop's
iterations and dependents. Requests may be refused (`ApiError`), which ends the run.

### LlmServing

A configuration fixes nodes, GPUs, ids and sizes; `all_gpu_ids`,
`calculate_prefill_gpu_ids`, `calculate_decode_gpu_ids`, `nixl_ports` and
`constraint_check` are translated operators on it. `pc` is the place in the
generated script: `NodeSetup`, `Start`, the waits for health in order (`Healthy`,
`NotHealthy`, `HealthTimeout`, `AfterWait`), `StartRouter`, `Benchmark`, and the
cleanup that the trap runs on every way out (`Cleanup`, `CleanupWaits`,
`LeaveCleanup`). A server is starting, ready, told to end, or dead; it crashes at
any time, and cannot start where another one holds its GPU or port (`Conflict`).

### AiDynamo

Every node runs the same script and works out node lists and the number of its workers
alone from its arguments (`node_list`, `workers_per_node`). A truth value reaches the
script the way Python writes it (`rendered`), so that no node has several workers for
a role. `main` is where the script of a node is: `StartNode` or an error before
(`NodeListError`, `EnvironmentError`), `SetupCache` and `LaunchEtcd` on the frontend,
`WaitForEtcd`, `StartRoles`, then the wait for the end (`MainDone`, `MainFatal`,
`MainDies`). What it leaves in the background are the launch of workers
(`LaunchWorkers`), the monitor (`MonitorStarts`, `MonitorDies`) and on the frontend
the benchmark (`BenchStarts`, `BenchEnds`, `BenchFatal`, `BenchDies`, `MarkDone`).
`exit_on_error` looks for fatal lines in the logs, which workers write
(`WorkerInitialised`, `WorkerBreaks`).

### NixlEp

`new_ranks`, `allocate_stage_launches` and `validate_requested_processes` say which
launches a plan becomes, or that it is refused. Where the code loops over nodes and
over stages with a running count, there is a function of the number of rounds:
`remaining_processes` inside a stage, `remaining_capacity` from stage to stage, whose
last values `plan_stages` uses. The script: `Generate`,
`StartPrimary`, `ServicesReady` or `ServicesTimeOut`, `StartFollowers`, and for
every later phase the wait `GrepLog` then `ProbePrimary` (two commands, between
which the primary may end), `StartStage`; `WaitAll` in the end. A launch asks the
rank server for its ranks (`GetRanks`), meets the others in a phase (`PhaseMet`,
`EndPhase`), crashes or gives up. `Judge` reads the logs of nodes.

### Scenarios, SbatchScript, Session, DseReport, Comparison

`Scenarios` holds the validators and what the parser makes of a document.
`SbatchScript` unrolls test runs, iterations and parameter sets into the lines of a
script with its directives, for one job per test run and for one job in all. `Session`
is the process: `Parse`, `Install`, then `DispatchSingle` or `Dispatch`; per job
`SubmitTest`, `JobDone`, `AllDone`, with trials skipped and observed on the way
(`Skipped`, `Entry`). A rejected submission ends every session (`SubmitError`,
`SubmitErrorSingle`), an error before it (`NoNodes`, `NoStrategy`) or a failed job
whose status is checked (`JobFails`) all but explorations, which go on; `PollSingle`,
`HandleDse`, `HandleDseEnd` for the one job, whose trials are observed only
afterwards; `GenerateReports`. The job runs its script beside it: `RunLine`, `RunGate`
(the test of `PRE_TEST_SUCCESS`), `JobCut`. `DseReport` says what reports read off the
directories that are left: loaded test runs, rewards, summary, best configuration,
chart, tarball. `Comparison` groups and joins the tables that NCCL, NIXL and OSU
reports compare.

### Registry

The class dictionaries of `Registry` are what `register_all` leaves in them: `add`
refuses a key that is taken, `update` replaces its value; reports are sets, and
`add_report` gives what a set of calls (`report_calls`) leaves in whatever order.
A class is named like what it is for, a workload by the `test_template_name` of its
definition. `SbatchScript` and `Scenarios` look up definitions and strategies,
`Verdicts` the reports that a workload has and whether they offer the metric that is
asked for.

### Workloads, Layouts, Verdicts

`Layouts` are the constraint checks of the workloads as conjunctions of named parts;
`Verdicts` are `was_run_successful` and `get_metric` on abstracted log lines; rows of
results are counted, since which numbers are in them makes no difference to either.
`Workloads` runs one test run from `Check` (only in an exploration), `StoreTestRun`
and `SubmitTest` (command generation, which may raise) through its script, a sequence
of commands (start in the background, run, wait for etcd, kill and wait, remove) of
which `line` is the next, to `JobOver`, `Collect` and `Judge`. `Fits` says which
layouts a benchmark really runs with and is external; etcd, the benchmarks and the
launcher of Megatron Bridge, which submits the job itself, are external too.

### VerifyConfigs

`Expand` lists the files, `load_tomls_by_type` sorts them; `verify_system_configs`,
`verify_test_configs` and `verify_test_scenarios` count what is wrong in each kind;
the command then exits.

## 4. Runs, bounds and what they show

| Run | Instance | Shows |
|---|---|---|
| `runner` | 3 test runs, the first twice; up to two dependencies of any type between the first two, circular ones too, the third after the second; run and dry-run; with and without status check; the exploration scenario; signals, submission and status errors at every step | `ImplementsScenarioExec`, `OneLiveJobPerTest`, `NothingLeftBehind`, `EveryTestEventuallyRuns` |
| `nodes` | 3 nodes, idle or reserved at first, 2 test runs, every pair of four requests, 2 rounds, one node down at a time | `RequestHonoured`, `OnlyCompletionUnlocks`, `EveryRequestServed` |
| `dse` | 2 test runs, all 40 grids of up to three out of three parameter sets, one infeasible, for the first; signals, submission and status errors | `EachParameterSetOnce`, `ObservationsFinal`, `GridExplored` |
| `installer` | every choice of 3 of 7 items, two of them over one repository, 2 threads, 2 failing commands, 1 kill, with and without prerequisites, any order of install and uninstall | `SuccessIsTrue`, `NothingHalfMade`, `FailuresStayApart`, `RetriesSucceed` |
| `job_polling` | 2 jobs on each of four back ends, all faults | `CompletionMeansOver`, `GivesUpOnlyAfterRetries`, `EndedJobsHandled` |
| `kubernetes_kinds` | 2 test runs of three kinds, one after the other or at once, the first once or twice; two deployments only one after the other | `NothingLeftInCluster`, `NoSelfInflictedError`, `CompletedMeansOver`, `EveryTestRuns` |
| `llm_serving` | both servers, aggregated on 1 or 3 nodes and disaggregated on 1 or 2, up to 4 GPUs, ids given, apart, the same, or from the environment | `NoServerLeft`, `AdmittedServes`, `ScriptEnds` |
| `ai_dynamo_launch` | 7 configurations on up to 3 nodes of 2 GPUs: a role on two nodes, a node without a role, no prefill, no decode, more GPUs asked for than there are, several workers asked for on a node, too few nodes; nodes that cannot start, one worker that breaks at any time, also after the benchmark | `StartedInOrder`, `FailedNodeFailsRun`, `LateErrorsIgnored`, `EveryNodeExits` |
| `nixl_ep` | every plan of up to three phases over two ranks on 1 or 2 nodes of 1 or 2 processes, and ten longer or wider ones; crashes, the job killed at any time | `PlanPacked`, `LaunchedInOrder`, `HonestVerdict`, `ScriptEnds` |
| `session` | 509 scenarios, each in one script and with a job per test run: sweeps of up to three sets, two sweeps with hooks, two tests of three kinds with hooks, limits and hosts, benchmarks to compare, documents to refuse; failing installation and submission, cut jobs, signals | `ScriptFits`, `ReportsAgree`, `ComparisonComplete`, `EveryTestRuns` |
| `workloads` | every workload with a script of its own, device lists whose names collide, points of three design spaces; processes and etcd that die, stubborn ones, cut jobs, a launcher that submits twice | `HonestVerdict`, `ResultsOfSuccess`, `NothingLeftOver`, `ScriptEnds` |
| `verify_exit` | a good tree of six files, and each of them missing or wrong; with and without a directory of tests | counterexample to `SuccessMeansValid` (section 7) |

Each run has between 37 thousand and 1.1 million distinct states, except
`verify_exit` (132), and takes from seconds to two minutes. The ideas behind the
properties are in the comments above them; the ones that take most thought:

- `ImplementsScenarioExec` contains the ordering of iterations and of both kinds of
  starting dependencies, that a test run is ended only with a cause, that every
  iteration is run once (in scenarios without `start_post_init`, section 7), and
  that an `end_post_comp` dependent is ended before the next completion is noticed.
- `GridExplored` and `ObservationsFinal` hold although errors are swallowed: an
  error is followed by an observation, of whatever there is.
- `SuccessIsTrue` speaks of what earlier runs, failed or killed, have left behind;
  `RetriesSucceed` of a user who repeats a failed installation.
- `EndedJobsHandled` is per job: a job the polls never recognise does not keep them
  from the others.
- `CompletedMeansOver` for deployments: the one flag never vouches for another test
  run or an earlier iteration.
- `HonestVerdict` of NIXL EP and of the workloads compares what really happened on
  the cluster with what the logs allow CloudAI to conclude.
- `ReportsAgree` compares three computations of "the best step" in different files,
  and names the two cases in which the code lets them differ: a failed trial whose
  reward is as high as that of the best successful one (the outcomes and the reward
  function of the run make some that are), and infeasible steps before the best.
- `LateErrorsIgnored` is about the half minute between two looks of a node for the
  success marker, in which the first nodes to leave take their workers with them.
- `AdmittedServes` puts placement, ports, waits and verdict together: whatever the
  constraint check admits comes to a result.

What is bounded, by which constant, and why it is enough:

- `MaxJobs` (BaseRunner): submissions. Four leave room for three test runs, one of
  them twice, and for the resubmission that `start_post_init` causes; where the
  bound is reached the model stops submitting, safety is checked up to there, and
  `EveryTestEventuallyRuns` excuses a run that needs more. The theorems of section 6
  hold for any number of test runs and jobs.
- `Rounds`, `MaxDown` (SlurmNodes): a second round is the first in which a booking
  left over from an earlier job of the same test run matters. Three nodes make
  "some, but not enough" possible.
- `MaxSteps` (DseGym): grids of three hold a repetition that follows, precedes or
  surrounds another parameter set. Two test runs exercise the change of environment.
- `MaxFailures`, `MaxCrashes`, `Workers` (Installer): two failures hit the two items
  over one repository in one run, or one item in two runs; three items with two
  threads let one wait for a thread while two meet.
- `NumJobs` (JobPolling): two jobs, one of which is not recognised. Retries are
  bounded by the code.
- `NumTests` (KubernetesRunner): two test runs share the flag, or follow each other.
- `MaxChecks` (LlmServing, NixlEp): how often a wait looks before it times out; the
  code's number is a parameter, what matters is before, at and after the last look.
- `MaxBroken` (AiDynamo): one broken worker is enough for every node to have to
  leave.
- `Retries`, `Window`, `LateFrom`, `LateTo`, `LateEnough` (Workloads): the tries of
  the wait for etcd, and which of the last steps a metric is averaged over; the
  code's are larger, runs of one to three steps fall short of, meet and exceed
  these.
- `TasksPerNode`, `Hooks`, `Outcomes` (Session): successes with two different
  metrics, and failures with a metric and without, tell best from others; both kinds of hooks, checked and unchecked.

Where a cfg has `CHECK_DEADLOCK FALSE`, states without a successor are those where
the program has ended (or, in `BaseRunner`, where `MaxJobs` is used up). The other
modules have an explicit step for "over", or a user who can always start another
command, and there deadlock is checked.

Properties are chosen to relate several actors or several moments; each one can be
broken by a plausible slip in the code, kept beside the definition it varies as
`Mutant_...`. Those operators are never part of a specification.

## 5. Fairness

- BaseRunner, SlurmNodes, JobPolling, KubernetesRunner (`Runner`), DseGym
  (`Handler`): one thread without locks, which sleeps for a bounded time and goes
  on.
- BaseRunner, DseGym: `WF(JobStarts)`, `WF(JobEnds)`. The scheduler starts what
  stays startable and ends what runs; time limits bound every job. A pending job may
  be cancelled, it need not be.
- SlurmNodes: `SF(JobTakesNodes)`, since the nodes of a pending job are free now and
  then and the scheduler does not pass it over for ever; `WF(JobLeavesNodes)`;
  `WF(NodeFreed)` and `WF(NodeUp)`: Slurm leaves COMPLETING and nodes are repaired.
- JobPolling: jobs start, are resumed and, where they are processes, reaped;
  `SF(JobEnds)` since suspension interrupts but does not prolong a job for ever; and
  the handling of an ended job is strongly fair, which says that `bjobs` and the
  others do not fail every time they are asked about it.
- KubernetesRunner: the controllers move on, objects in deletion disappear, pods
  start, become ready and end. A suspended job is resumed, as queueing controllers
  do.
- LlmServing: the shell goes on, and a server that was told to end and is not
  stubborn ends. That a server becomes healthy is not assumed.
- AiDynamo: the scripts of the nodes together, etcd, the benchmark, and the workers
  together.
- NixlEp: the shell; and some launch that can go on does: a phase that has its ranks
  is finished or times out.
- Session: the process, and the script of the job.
- Workloads: CloudAI, the shell, programs to which nothing happens, the launcher;
  and a benchmark started with a layout it cannot run with breaks.
- Installer: pool threads go on and a command ends. The user repeats a failed
  installation; `RetriesSucceed` speaks only of users who stop uninstalling.

Signals, errors, kills, crashes and nodes going down are never fair: they may
happen, or not.

## 6. Proofs

The proofs hold for every value of the constants that satisfies the named
assumptions of the module (`NumTests` positive, `MaxJobs` natural, scenarios well
typed without self-dependencies; finitely many nodes; grids that are sequences of
parameter sets no longer than `MaxSteps`; finitely many items of known kinds; and so
on). TLC evaluates the assumptions in every run. The listed theorems:

| Module | Theorems |
|---|---|
| `BaseRunnerProofs` | `Inductive`, `TypeCorrect`, `JobsAlwaysMatchMap`, `LiveJobsTracked`, `OneLiveJob`, `LeavesNothingBehind`, `Refinement`, `RunnerKeepsPromise` |
| `SystemProofs` | of `SlurmNodes`: `NodesTypeCorrect`, `RequestsHonoured`, `UnlockedByCompletion`, `DownNodesOnlyIfBooked`; of `JobPolling`: `PollingTypeCorrect`, `RetriesUsed`, `CompletionSound` |
| `TrialProofs` | of `DseGym`: `TypeCorrect`, `ParameterSetsOnce`, `ObservationsAreFinal`; of `Workloads`: `RunInvariance`, `NothingIsLeftOver`, `VerdictsHonest`, `ResultsFollow` |
| `InstallerProofs` | `TypeCorrect`, `LeavesNothingHalfMade`, `FailuresApart`, `VerdictsAreTrue` |
| `KubernetesRunnerProofs` | `TypeCorrect`, `ClusterClean`, `CompletionSound`, `RunnerNotRefused`, `DeploymentsInTurn` |
| `LlmServingProofs` | `TypeCorrect`, `ServersEnded`, `AdmittedAreServed` |
| `NixlEpProofs` | `TypeCorrect`, `PlansPacked`, `PhasesInOrder`, `VerdictHonest` |
| `AiDynamoProofs` | `TypeCorrect`, `StartsInOrder`, `FailedNodesCount`, `LateErrorsDoNotCount` |

**BaseRunnerProofs.** None of the invariants is inductive alone. `Bookkeeping` is
the strengthening: job numbers are handed out in order, the loop's copy only holds
recorded jobs, a test run about to be submitted has no map entry, and what is on the
scheduler is in `jobs` or in the hands of `_submit_test`. Together with `TypeOK` and
`JobsMatchMap` it is inductive (`Inductive`). The central step is
`MonitorCompleted`: removing a job from `jobs` and its entry from the map keeps the
correspondence because a completed job is not live, and the dependents it computes
are unmapped because they are read from the map after the removal. `OneLiveJob` then
follows: two live jobs of one test run would both be in the map under the same key,
or one would be in submission while the other is mapped. `LeavesNothingBehind`
follows from `jobs` being empty when `run` returns and from `shutdown` killing
exactly `jobs` when it fails.

`Refinement` is in the same module. The mapping is in `BaseRunner`: `open` is what
the map lists or is being submitted, `live` and `begun` are read off the jobs'
states, `stopped` and `ended` off their flags, `done` is what has a final job that
has left `jobs`, `due` the test run whose completion is being worked off. The proof
needs `Promised` besides the invariant above: jobs in `jobs` carry the current
iteration, test runs in `to_submit` may start, and without `start_post_init` nothing
that is done is on the way again. `StepRefines` has one step per action;
`MonitorCompleted` maps to the abstract completion, the loop's own moves to
stutters. As the mapping is now a theorem, what `ScenarioExec` promises of its own
state is proved there (`ExecStepsKeepPromise`) and carried over to the runner's:
`RunnerKeepsPromise` says that nothing runs on when the run is done, that what a
done test run waited for is done, and that what was ended had a cause.

**SystemProofs**, of `SlurmNodes`. `AnswerFacts` says what any answer to a request is:
non-empty, in the group, not excluded, of the right size. `RequestsHonoured` follows
because the node list of a job is written once, when it is submitted, and nothing else
writes it. `UnlockedByCompletion` is an action property from `NodesTypeOK`.
`DownNodesOnlyIfBooked` needs `RunningAlone`, that running jobs hold disjoint nodes
which sinfo shows as ALLOCATED: without it a node could be down and be shown as
allocated by squeue.

Of `JobPolling`: `Words` relates what a back end reports to what has become of the
job; `SlurmWords`, `LsfWords`, `StandaloneWords`, `RunaiWords` say which words each
poll takes for what. `RetriesUsed` compares the code's counter with the history of
silences.

**TrialProofs**, of `DseGym`. `ParameterSetsOnce` rests on `Observed`: every submitted job has
its parameters in the trajectory or is the job of the current step, and a step about
to run has parameters that are not in the trajectory. It holds with failing status
queries too, when the job itself may outlive its step: what counts is that the
swallowed error is followed by an observation. `ObservationsAreFinal` rests on
`Forward`: jobs exist only for steps up to the current one, so a new entry is that
of the job just polled, and older entries are of jobs that can no longer move.

Of `Workloads`: the invariant `RunInvariant` has a conjunct per part of the run, and
lemmas about scripts, outputs, device names and layouts carry what they say of every
workload and every size. `OneJobAtATime`: the jobs of a launcher have failed but for
the last, whose id is the last in the log and whose state is that of the benchmark,
so the job that is polled is the one that can still run (`NothingIsLeftOver`).
`Works` ties the benchmarks to what was printed, `Progress` the line of the script
to what has returned and the exit code to the benchmark, `Logged` the files to what
was printed: every line there was printed or is that of an error, every line printed
is there, and lines of a file are in the order of printing. `Judged`: the files are
no longer written when they are read. A verdict that looks for the last line then
means that all was printed (`SuccessIsEnd`), and without faults all is printed
(`CameToEnd`), so every check finds what it looks for (`JudgedSuccessful`).

Three facts carry most of the rest. Device files have different names although the
code numbers them one after the other (`DevicesDistinct`): among more numbers than
names one is new, and the recursion over the list is shown to have a value by the
well-foundedness of the naturals (`Recursion`), as the provers have no induction.
What `constraint_check` admits has a data parallel size that the batch is split over
(`AdmittedNeMoRun`, `AdmittedMegatronBridge`); for NeMo 2.0 on nodes of the eight
GPUs that its check has built in, which is a hypothesis of `HonestVerdict` itself.
Two rows of NeMo 2.0 leave a timing whatever the bounds of the late steps are
(`LateSteps`), because `LateEnough` is positive. The assumptions: positive numbers of
nodes and steps, layouts whose sizes are positive (NeMo 2.0) or natural, where 0
stands for "not given" (Megatron Bridge), devices that are sequences, and `Window`
and `LateEnough` positive. Sizes of zero or less, which the fields would take, are
left out.

**InstallerProofs.** `IInv` has one conjunct per idea: `Course` (a thread is at a
step of its item's class and of the command), `Cloning` (who is between the
beginning and the end of a clone, and that the directory is then what that thread
has made of it), `Tended` (whatever is half made has a thread that will finish or
remove it, unless something was killed or written with an error), `Undisturbed` (an
item alone on its directory finds it as it saw it last), `Blame` (a failed item is
in `blamed`, or shares its repository), `Limit` (no more threads than `Workers`,
with the cardinality facts of `FiniteSetTheorems`). The steps of a thread are
treated by what they do to its own program counter (`ThreadMoves`), to repositories
(`ThreadHeads`), to the other files (`ThreadRest`) and to the blame
(`ThreadBlamed`).

`VerdictsAreTrue` has a second invariant beside it, `SInv`. A verdict is true when
every item of the scenario has what it asked for, but the command works on one item
of each class of equal ones (`Chosen`), a thread looks at the disk long before the
verdict is given, and earlier commands have left what they have left. So `Owned`
says that what is on disk belongs to an item of the scenario, `Classes` which steps
an item may be at, `Repositories` what a thread that has left a checkout behind it
may count on although another thread works on the same directory, and `Achieved` and
`Removed` that what a thread has called done stays done until the verdict. The
argument is one lemma per class of step: a thread touches its own place only
(`ThreadTouches`), and the one other item over that place (`Twins`) does not undo
it. The theorem assumes `Unambiguous`: items over one directory are a repository and
the executable built from it, and want the same submodules. It is needed, because
`GitRepo.__eq__` ignores `init_submodules` and two files of one name collide
(section 7); all scenarios of the run satisfy it.

**KubernetesRunnerProofs.** `IInv` says that the loop visits jobs and creates what
is to be submitted (`Loop`), that iterations are used up in order (`Iterations`),
and that every object of the cluster belongs to a job, is in deletion, or is the one
being created (`InCluster`), whence `ClusterClean`. `CompletionSound` adds what
conditions say of an object (`Conditions`) and what the flag says (`FlagTrue`: once
it is set and deployments remain, a deployment in `jobs` has had its benchmark). It
assumes `[]OneDeployment`, that no two deployments are in `jobs` at once, which
plans with dependencies guarantee and parallel ones do not (section 7).

`RunnerNotRefused` is under the same assumption. A request is refused (404, 409)
when the runner deletes or polls what is not there or creates what is, so `Refusals`
follows the one name all deployments share: as long as nothing else went wrong
(`Calm`), there is an object under it whenever a deployment is in `jobs`, except
while the next one is being created, and none when the deletion that precedes a
creation has been waited for. `DeploymentsInTurn` puts a condition on the scenario
in the place of that on the behaviour: of two deployments one awaits the other.
`Awaits` is reachability along dependencies, stated as membership in every set that
is closed under them, so that the proof instantiates it with the set of finished
test runs and needs no induction (`AwaitedFinished`); that this set is closed is
part of `Iterations`.

**LlmServingProofs.** `Ending` says that after the cleanup every server of the
configuration is down; `Course` that a pid is in the list the cleanup works off from
the moment the server is started, also when a second cleanup follows the first from
the trap.

`AdmittedAreServed` needs `Serving`, the course of a script in which nothing has
gone wrong: which servers it has started, in which order it waits for them, that
those it no longer waits for are ready, and that the output is complete when it
leaves. The rest is about placement. `AllStart` says that no server of a
configuration that passes `constraint_check` stands in the way of another: the GPUs
of prefill and decode are apart (`Disaggregated`, `Halves`), and so are the
endpoints (`EndpointsApart`). `GpusCount` says that the divisor of the throughput,
computed from list lengths, is the number of different GPUs; for that a list must
not name a GPU twice (`NoRepeats`), which nothing in the code checks and the theorem
assumes.

**NixlEpProofs.** The first part is about plans and has no steps in it.
`PlansPacked` is an induction over the nodes of a stage and over the stages of a
plan. The provers have no induction over a predicate, so it is done as a least
counterexample: a set of natural numbers has a least element (`LeastElement`, from
well-foundedness), hence a set that has 0 and with a number the next is all of them
(`Upto`). The same way functions defined by recursion are shown to exist
(`Recursion`), and the sum of a finite family not to depend on the order in which
`SumFunction` takes it (`SumFacts`). `Packing` then says: before every stage the
capacity that is left on all nodes is what the plan may have in all minus what the
stages so far have started, so the validation of the total leaves room for every
stage. The `ValueError` the code raises when a stage cannot be packed is unreachable
once `validate_requested_processes` has passed.

The second part is `IInv`, one conjunct per idea: the plan is that of the
configuration (`Plan`); what has been started is exactly what is planned up to the
script's stage (`Script_at`); launches of a phase share out its new ranks without
overlap and are active in every phase they have ended (`RanksOf`); a log holds the
phases that the launches on its node have ended, no more and no less, which is where
appending matters (`Logs`); what is known of failures and exits (`Outcome`); and the
order itself (`Order`). `VerdictHonest` adds the step from launches to phases: at a
good end every new rank of a phase has been given to some launch, because disjoint
sets of the planned sizes use up the set they are taken from (`PartsCover`,
`RanksGiven`); a rank that is in a phase was new in one of the phases up to it
(`Arrival`); so the launch that has it has ended that phase (`EveryPhaseEnded`,
`PassedPhases`). Plans are assumed to be sequences of finite sets of ranks, nothing
else.

**AiDynamoProofs.** The first half is about the configuration alone, which each node
reads by itself. `OneWorker` is the fact about the command line: neither way Python
writes a truth value is the one the script compares with, so that a node has one
worker of a role. `NodeLists` and `EveryNodeWorks` say that the lists share out the
nodes of the job and that each of them has a worker, `AllAreReady` that the number of
initialised workers the frontend waits for is that of all workers.

The second half is about the launch. `StartedInOrder` and `FailedNodeFailsRun` are
not inductive: the first sees only workers and the benchmark, the second only
markers and exit codes. `CacheFirst` adds the way from the emptied cache over etcd
to the workers; `BenchLast` that once the benchmark may run all workers are ready
and stay so; `Refusal` that a node which left without a marker never starts a
worker, so that the benchmark waits in vain. One lemma per part of the script
(`MainKeeps`, `LaunchKeeps`, `MonitorKeeps`, `BenchKeeps`, `WorkerKeeps`) shows that
its steps preserve them.

`LateErrorsIgnored` speaks of all that follows a moment. Its proof needs what is true
of that moment: nobody is about to give up, since that takes an error in a log
(`ErrorFound`), and what keeps it so: whoever begins to give up looks for the success
marker after the logs (`GivesUp`), and the marker stays (`FilesStay`).

"The first left" of a set of numbers exists by the well-foundedness of the naturals
(`WFMin`); these lemmas instantiate a relation, not an operator.

## 7. Where code and documentation disagree, and other observations

Shown by a run:

- `verify_exit`: `.github/workflows/ci.yml:94` says of the command it calls "this
  checks that all TOMLs are valid", and the job relies on its exit status.
  `verify-configs` counts the files that are wrong and logs them, but the command
  drops the count (`cli/cli.py:245`): it exits with 0 whatever it finds.

Seen while modelling; the properties are stated so that they hold with it, and say
so where they exempt it. *Runner and exploration:*

- `shutting_down` is documented as "preventing the start of new tests"
  (`_core/base_runner.py:49`), but it is read once, when `run` begins. Iterations
  and dependents are submitted after a signal.
- `doc/USER_GUIDE.rst:161` says that a `start_post_init` test starts after the prior
  test begins; one whose prior test begins and ends between two polls is never
  started, and `run` ends as if all was done. One that completes while the other job
  still runs is submitted again on the next pass (`CheckItem`).
- Circular dependencies pass the validator of the same name, which looks for
  self-dependencies; nothing is submitted and `run` ends. A test with two
  dependencies of one type keeps the last.
- A job cancelled while pending counts as completed and starts its `start_post_init`
  dependents.
- An `end_post_comp` dependent submitted after the other job has completed is never
  ended.
- "all cases run consecutively" (`cli/handlers.py:129`): after a failed status query
  the next trial is submitted while the job of the last one is still on the
  scheduler. A signal ends the current trial, and the next one starts: `step` resets
  `shutting_down`.

*Slurm nodes and polling:*

- `max_avail` books all free nodes when the test run is stored and finds none for
  the script (`NoNodes`). Three bookings are made per job where tests and a
  docstring expect one; two jobs can be queued on one node while others are free.
  The extra ones are not released by `complete_job`; they starve nobody
  (`EveryRequestServed`), since booked nodes are still eligible after free ones. A
  booked node that goes down still counts as allocated.
- OUT_OF_MEMORY, NODE_FAIL and PREEMPTED are not among the completed states of
  Slurm, nor Failed among RunAI's: such a job is polled for ever. A suspended job
  with an ended step is taken for completed.
- On RunAI `kill` asks the body of a response for its `status_code`
  (`systems/runai/runai_system.py`): the first deletion of a shutdown raises.

*Kubernetes:*

- A batch job never has the condition Created that the poll looks for: one that is
  suspended or ending counts as completed. As its specification removes it at once
  when it has finished, it may be gone before the first look, and `create_job` times
  out.
- Iterations of a job create the next object while the last one is still in
  foreground deletion, and are refused (409).
- Two parallel Dynamo jobs share name, flag and pods. A deleted deployment is polled
  into an uncaught 404. A benchmark that cannot be started leaves its deployment
  behind.
- The overrides of `kill_job` are never called, and logs of batch jobs never stored.

*Installation:*

- After a kill, a half-filled environment, a partial image or an incomplete model
  snapshot is taken for installed, as only its existence is looked at;
  `SuccessIsTrue` says "wherever anything more than its existence is looked at".
- A script installed by `File` is not removed by uninstall in a new process.
- Two `GitRepo` items that differ only in `init_submodules` are equal, and one of
  them is taken for installed; two `File` items of one name and different contents
  are copied to the same place. The items of the run contain no such pairs, and
  `VerdictsAreTrue` excludes them.

*AI Dynamo:*

- `nodes` given for a worker never reaches the script's `node-list`.
- `multiple_workers_per_node` has no effect on Slurm: the command line carries "True"
  (`workloads/ai_dynamo/slurm_command_gen_strategy.py:71-75`), the script compares
  with "true" (`ai_dynamo.sh:309,313`). A worker always takes its whole node,
  whatever its parallel sizes.
- Decode nodes are "optional" (`doc/workloads/ai_dynamo.rst:52`); without one there
  is no frontend, and all nodes wait for ever. So they do when one node fails
  `validate_environment`, which leaves no marker.
- Errors of `sglang_dsr1` are never looked for. The failure marker may come after
  the success marker.

*LLM serving and NIXL EP:*

- GPU ids of prefill and decode may overlap; one node with one GPU leaves prefill
  none; aggregated vLLM ignores the ids of decode. Waits do not notice that a server
  is dead. The cleanup tells all servers to end, and gives up waiting at the first
  one that does not.
- NIXL EP greps for the end of a phase and then probes the primary with `kill -0`:
  when the primary ends its phase and itself in between, the script gives up. A plan
  that leaves a node without ranks passes validation and is always judged failed; so
  is one whose first phase has only negative ranks. "Timed out waiting for phase" is
  no failure pattern. The report counts the phases of one node's log.

*Sessions and reports:*

- `iterations` of a DSE test has no effect, since trials are never run again
  (`_core/base_runner.py:313`), and neither has that of any test in single-sbatch
  mode.
- In single-sbatch mode: the metadata is written only to the scenario's root, so
  that DSE jobs have no summary and no best configuration, and MegatronRun is always
  judged failed; excluded nodes are not excluded; directories of infeasible trials
  show up as failed rows; a signal kills nothing.
- The best step of the chart is wrong after infeasible steps; the configuration that
  is saved may be that of a failed trial, as verdicts are not looked at; a sweep over the
  number of nodes only has no best configuration. With the default `metric_failure`
  of -1 the negative reward of a failure is +1, better than that of any success. If
  every trial is infeasible, the report raises `StopIteration`.
- "Each next case starts after the previous one completes"
  (`doc/USER_GUIDE.rst:386`): the blocks of LLM serving and NIXL EP leave the script
  they share.
- A hook test without a success check leaves `PRE_TEST_SUCCESS` at 0.
- Comparison reports join rows by their index
  (`report_generator/comparison_report.py:172`), so tables with different sizes show
  values of one size beside another's; grouping fails where test runs have different
  keys; one NCCL run without data loses the whole comparison, one OSU table is
  dropped silently. Errors of a reporter are logged and swallowed.

*Other workloads and `verify-configs`:*

- UCC's metric is a text. NIXL bench ignores `wait_etcd_for`. The NCCL verdict looks
  only for "# Out of bounds values". OSU, NIXL and Megatron Bridge take partial
  output for success; a Triton server is never checked; the job that the Megatron
  Bridge launcher submits is unknown to shutdown while the launcher is attached.
  NeMo's check has eight GPUs per node built in. Constraint checks are applied in
  explorations only.
- JaxToolbox is listed as supported (`README.md:37`), and generating its command
  raises a `KeyError` when the test run is stored.
- An error in command generation ends the whole run, with jobs of other test runs on
  the cluster.
- Two tests of one name in different directories fail all scenarios that are
  verified with them; hooks count as tests when they lie under the directory of
  tests.

## 8. What is not modelled, and what is only model-checked

Not modelled:

- Of the registry: systems, installers, agents, JSON generators, reward functions
  and reports of a scenario, one class per name, which no model looks up.
- The text of configurations, commands, tables and charts: TOML, CSV, HTML,
  tarballs' contents, the output of `sinfo`, `squeue`, `sacct` and node list syntax
  are abstracted to their meaning.
- `workloads/nemo_run/cloudai_nemorun.py`, a file of recipes of another framework
  that is run by it; predictors; detection of low thread counts.
- RunAI's REST client beyond the calls the runner makes: some forty end points that
  nothing else in the code calls. LSF's node ranges.
- `mark_as_installed` (sets paths, does not touch the disk); loading of agents other
  than the grid search, which come from other packages; verdicts of JaxToolbox,
  which are never reached.

Only model-checked:

- All liveness and everything under fairness (`EveryTestEventuallyRuns`,
  `EveryRequestServed`, `GridExplored`, `RetriesSucceed`, `EndedJobsHandled`,
  `EveryTestRuns`, `ScriptEnds`, `EveryNodeExits`), which is out of the prover's
  reach.
- `ScriptFits`, `ReportsAgree` and `ComparisonComplete` of `Session`: sizes, best
  steps and joined tables are folds over sequences. What `NixlEpProofs` does for
  sums over numbers would have to be done for each of these folds.
- `VerifyConfigs`, whose one property is violated.
