------------------------------- MODULE NixlEp -------------------------------
(***************************************************************************)
(* The job of a NIXL EP test run (workloads/nixl_ep): the ranks of an      *)
(* elastic plan are packed onto the nodes; the batch script starts those   *)
(* of the first phase and, whenever a phase has ended, those that are new  *)
(* in a later one; in the end the logs decide whether the run succeeded.   *)
(* The benchmark, elastic.py with its rank server on the master node, is   *)
(* external. Phases and nodes are counted from 1.                          *)
(***************************************************************************)
EXTENDS Integers, FiniteSets, FiniteSetsExt, SequencesExt

CONSTANTS
  Configs,    \* the test runs, each one of Config
  MaxChecks   \* bound: polls that fit into a timeout of the script

(* The plan as the non-negative ranks of every phase. A rank that is       *)
(* negative or left out does not run in the phase.                         *)
Config == [plan : Seq(SUBSET Nat), nodes : Nat \ {0}, per_node : Nat \ {0}]

ASSUME ConfigsAssumption ==
  \A c \in Configs : c \in Config /\ \A k \in DOMAIN c.plan : IsFiniteSet(c.plan[k])
ASSUME MaxChecksAssumption == MaxChecks \in Nat \ {0}

Phases(c) == 1 .. Len(c.plan)
Nodes(c)  == 1 .. c.nodes

-----------------------------------------------------------------------------
(* Packing the plan.                                                       *)

(* _new_process_counts_by_phase.                                           *)
new_ranks(c, k) == c.plan[k] \ (IF k = 1 THEN {} ELSE c.plan[k - 1])
total(c) == SumFunction([k \in Phases(c) |-> Cardinality(new_ranks(c, k))])

validate_requested_processes(c) ==
  IF c.nodes = 1 THEN c.per_node = total(c) ELSE total(c) <= c.per_node * c.nodes

(* _allocate_stage_launches: of m processes each node in turn takes what   *)
(* its remaining capacity allows.                                          *)
remaining_processes(cap, m) ==
  LET left[n \in 0 .. Len(cap)] == IF n = 0 THEN m ELSE left[n - 1] - Min({cap[n], left[n - 1]})
  IN  left

Mutant_allocate_stage_launches(cap, m) == [n \in DOMAIN cap |-> Min({cap[n], m})]

allocate_stage_launches(cap, m) == [n \in DOMAIN cap |-> Min({cap[n], remaining_processes(cap, m)[n - 1]})]

(* plan_stages: the processes started on every node in every phase. What a *)
(* node has started is never given back, though its ranks may have left.   *)
stage_launches(c, k, cap) == allocate_stage_launches(cap, Cardinality(new_ranks(c, k)))

remaining_capacity(c) ==
  LET left[k \in 0 .. Len(c.plan)] ==
        IF k = 0 THEN [n \in Nodes(c) |-> c.per_node]
        ELSE [n \in Nodes(c) |-> left[k - 1][n] - stage_launches(c, k, left[k - 1])[n]]
  IN  left

plan_stages(c) == [k \in Phases(c) |-> stage_launches(c, k, remaining_capacity(c)[k - 1])]

-----------------------------------------------------------------------------
VARIABLES
  config,
  procs,     \* procs[k][n]: the processes that phase k starts on node n
  pc,        \* where the script, and then the check of the logs, stands
  stage,     \* the phase whose launches were started last
  checks,    \* polls made in the current wait
  launch,    \* state of the launch of phase k on node n
  ranks,     \* the ranks it has been given by the rank server
  at,        \* the last phase it has ended
  log,       \* what its node's log shows
  stdout,    \* TRUE: stdout or stderr of the job shows a failure
  rc,        \* exit code of the script
  verdict    \* what was_run_successful said

vars == <<config, procs, pc, stage, checks, launch, ranks, at, log, stdout, rc, verdict>>

script    == <<pc, stage, checks>>
benchmark == <<launch, ranks, at, log>>
outcome   == <<stdout, rc, verdict>>

Launches == Phases(config) \X Nodes(config)
Planned  == {l \in Launches : procs # <<>> /\ procs[l[1]][l[2]] > 0}
StageOf(k) == {l \in Planned : l[1] = k}
StageIdxs  == {l[1] : l \in Planned}

primary       == CHOOSE l \in Planned : \A m \in Planned : l[1] < m[1] \/ (l[1] = m[1] /\ l[2] <= m[2])
has_followers == \E l \in Planned : l[2] # 1
later_stages(k) == {j \in StageIdxs : j > k}

include_tcp_server(l) == l[1] # 1 \/ l[2] # 1

Mutant_append_output(l) == FALSE

append_output(l) == l[1] # 1

Up == {l \in Launches : launch[l] = "up"}

EmptyLog == [exists |-> FALSE, ended |-> {}, sample |-> FALSE, failure |-> "none"]

Init ==
  /\ config \in Configs
  /\ procs = <<>>
  /\ pc = "generate"
  /\ stage = 0 /\ checks = 0
  /\ launch = [l \in Launches |-> "none"]
  /\ ranks = [l \in Launches |-> {}]
  /\ at = [l \in Launches |-> 0]
  /\ log = [n \in Nodes(config) |-> EmptyLog]
  /\ stdout = FALSE /\ rc = 0 /\ verdict = "none"

-----------------------------------------------------------------------------
(* The benchmark. A launch keeps the ranks it has been given for as long   *)
(* as the plan keeps them; a phase is a barrier of all its ranks.          *)

active(l, k) ==
  IF k > Len(config.plan) THEN {}
  ELSE {r \in ranks[l] : \A i \in l[1] .. k : r \in config.plan[i]}

Serving == launch[primary] = "up" /\ ~include_tcp_server(primary)

GetRanks(l) ==
  /\ launch[l] = "up" /\ ranks[l] = {}
  /\ include_tcp_server(l) => Serving /\ ranks[primary] # {}
  /\ \E R \in kSubset(procs[l[1]][l[2]],
                      new_ranks(config, l[1]) \ UNION {ranks[m] : m \in StageOf(l[1])}) :
       ranks' = [ranks EXCEPT ![l] = R]
  /\ UNCHANGED <<config, procs, script, launch, at, log, outcome>>

PhaseMet(k) ==
  \A r \in config.plan[k] : \E m \in Launches :
     r \in active(m, k) /\ (at[m] >= k \/ (at[m] = k - 1 /\ launch[m] = "up"))

EndPhase(l) ==
  LET k == at[l] + 1 IN
  /\ launch[l] = "up" /\ ranks[l] # {} /\ PhaseMet(k)
  /\ at' = [at EXCEPT ![l] = k]
  /\ log' = [log EXCEPT ![l[2]].ended = @ \union {k},
                        ![l[2]].sample = @ \/ active(l, k) # active(l, k + 1)]
  /\ launch' = [launch EXCEPT ![l] = IF active(l, k + 1) = {} THEN "done" ELSE @]
  /\ UNCHANGED <<config, procs, script, ranks, outcome>>

(* srun reports a failed launch in the job's stderr; its own log may show  *)
(* one of the failures that are looked for.                                *)
Fails(l) ==
  /\ launch' = [launch EXCEPT ![l] = "failed"]
  /\ stdout' = TRUE
  /\ \E f \in {"none", "error", "no_phases"} :
       log' = [log EXCEPT ![l[2]].failure = IF @ = "none" THEN f ELSE @]
  /\ UNCHANGED <<config, procs, script, ranks, at, rc, verdict>>

Crash(l) == launch[l] = "up" /\ Fails(l)

(* A worker waits for its peers and for the rank server with a timeout.    *)
GiveUp(l) ==
  /\ launch[l] = "up"
  /\ IF ranks[l] = {} THEN include_tcp_server(l) /\ ~Serving
     ELSE ~PhaseMet(at[l] + 1) /\ \E m \in Launches : launch[m] = "failed"
  /\ Fails(l)

-----------------------------------------------------------------------------
(* The batch script.                                                       *)

Go(to) == pc' = to /\ checks' = 0

(* Nothing outlives the script; what srun says of steps that are killed    *)
(* with it may count as a failure.                                         *)
Exit(code, shown) ==
  /\ pc' = "exited" /\ rc' = code
  /\ stdout' \in IF Up = {} THEN {shown} ELSE {shown, TRUE}
  /\ launch' = [l \in Launches |-> IF launch[l] = "up" THEN "killed" ELSE launch[l]]
  /\ UNCHANGED <<config, procs, stage, checks, ranks, at, log, verdict>>

(* --output without --open-mode=append empties the log.                    *)
Start(S) ==
  /\ launch' = [l \in Launches |-> IF l \in S THEN "up" ELSE launch[l]]
  /\ at' = [l \in Launches |-> IF l \in S THEN l[1] - 1 ELSE at[l]]
  /\ log' = [n \in Nodes(config) |->
               IF \E l \in S : l[2] = n /\ ~append_output(l) THEN [EmptyLog EXCEPT !.exists = TRUE]
               ELSE [log[n] EXCEPT !.exists = @ \/ \E l \in S : l[2] = n]]
  /\ UNCHANGED <<config, procs, ranks, outcome>>

Generate ==
  /\ pc = "generate"
  /\ IF validate_requested_processes(config) /\ total(config) > 0
     THEN procs' = plan_stages(config) /\ Go("primary")
     ELSE UNCHANGED procs /\ Go("refused")
  /\ UNCHANGED <<config, stage, benchmark, outcome>>

StartPrimary ==
  /\ pc = "primary"
  /\ Start({primary})
  /\ stage' = primary[1]
  /\ Go(IF has_followers THEN "services" ELSE "rest")

(* wait_for_master_services.                                               *)
ServicesReady ==
  /\ pc = "services" /\ Serving /\ ranks[primary] # {}
  /\ Go("rest")
  /\ UNCHANGED <<config, procs, stage, benchmark, outcome>>

Mutant_ServicesTimeOut ==
  /\ pc = "services" /\ ~(Serving /\ ranks[primary] # {})
  /\ checks < MaxChecks
  /\ checks' = checks + 1 /\ UNCHANGED <<config, procs, pc, stage, benchmark, outcome>>

ServicesTimeOut ==
  /\ pc = "services" /\ ~(Serving /\ ranks[primary] # {})
  /\ IF checks < MaxChecks
     THEN checks' = checks + 1 /\ UNCHANGED <<config, procs, pc, stage, benchmark, outcome>>
     ELSE Exit(1, TRUE)

NextWait == IF later_stages(stage) = {} THEN "final" ELSE "grep"

StartFollowers ==
  /\ pc = "rest"
  /\ Start(StageOf(stage) \ {primary})
  /\ Go(NextWait) /\ UNCHANGED stage

Mutant_wait_phase == stage
wait_phase == Min(later_stages(stage)) - 1

(* wait_for_phase_completion: the log is read first, and only then is the  *)
(* primary launch looked at.                                               *)
GrepLog ==
  /\ pc = "grep"
  /\ CASE wait_phase \in log[1].ended -> Go("stage") /\ UNCHANGED <<config, procs, stage, benchmark, outcome>>
       [] wait_phase \notin log[1].ended /\ log[1].failure = "no_phases" -> Exit(1, stdout)
       [] OTHER -> pc' = "probe" /\ UNCHANGED <<config, procs, stage, checks, benchmark, outcome>>

ProbePrimary ==
  /\ pc = "probe"
  /\ CASE launch[primary] # "up" -> Exit(1, TRUE)
       [] launch[primary] = "up" /\ checks = MaxChecks -> Exit(1, stdout)
       [] OTHER -> /\ pc' = "grep" /\ checks' = checks + 1
                   /\ UNCHANGED <<config, procs, stage, benchmark, outcome>>

StartStage ==
  LET k == Min(later_stages(stage)) IN
  /\ pc = "stage"
  /\ Start(StageOf(k))
  /\ stage' = k
  /\ Go(IF later_stages(k) = {} THEN "final" ELSE "grep")

WaitAll ==
  /\ pc = "final" /\ Up = {}
  /\ Exit(IF \E l \in Launches : launch[l] = "failed" THEN 1 ELSE 0, stdout)

(* The time limit of the job, or somebody, ends it.                        *)
JobKilled ==
  /\ pc \in {"primary", "services", "rest", "grep", "probe", "stage", "final"}
  /\ Exit(1, stdout)

(* Every node of the test run must have a log, with a sample in it.        *)
was_run_successful ==
  /\ ~stdout
  /\ \A n \in Nodes(config) : log[n].exists /\ log[n].failure = "none" /\ log[n].sample

Judge ==
  /\ pc = "exited"
  /\ Go("judged")
  /\ verdict' = IF was_run_successful THEN "success" ELSE "failed"
  /\ UNCHANGED <<config, procs, stage, benchmark, stdout, rc>>

(* The report shows every phase of the plan for every node, green or red,  *)
(* and counts those that the master node has ended. There is one, with a   *)
(* metric, as soon as a log has a sample.                                  *)
can_handle_directory == \E n \in Nodes(config) : log[n].sample
phase_cell(n)        == [k \in Phases(config) |-> IF k \in log[n].ended THEN "green" ELSE "red"]
passed               == {k \in Phases(config) : phase_cell(1)[k] = "green"}
get_metric           == IF can_handle_directory THEN "number" ELSE "METRIC_ERROR"

Over == pc \in {"refused", "judged"} /\ UNCHANGED vars

Script ==
  \/ Generate \/ StartPrimary \/ ServicesReady \/ ServicesTimeOut \/ StartFollowers
  \/ GrepLog \/ ProbePrimary \/ StartStage \/ WaitAll \/ Judge

Worker(l) == GetRanks(l) \/ EndPhase(l) \/ GiveUp(l)

Next ==
  \/ Script
  \/ \E l \in Launches : Worker(l) \/ Crash(l)
  \/ JobKilled
  \/ Over

(* The shell goes on, and the benchmark either finishes a phase that has   *)
(* all its ranks or times out.                                             *)
Fairness == WF_vars(Script) /\ WF_vars(\E l \in Launches : Worker(l))

Spec == Init /\ [][Next]_vars /\ Fairness

-----------------------------------------------------------------------------
(* Properties.                                                             *)

(* A plan that passes the validation can be packed: every rank that is new *)
(* in a phase gets its process, and no node starts more processes than it  *)
(* may in all phases together (_allocate_stage_launches).                  *)
PlanPacked ==
  procs # <<>> =>
    /\ \A k \in Phases(config) : SumFunction(procs[k]) = Cardinality(new_ranks(config, k))
    /\ \A n \in Nodes(config) : SumFunction([k \in Phases(config) |-> procs[k][n]]) <= config.per_node

(* The ranks of a later phase are started only after the phase before has  *)
(* ended, the phases that start nothing included; and no worker looks for  *)
(* a rank server that is not there yet: what is started before the master  *)
(* serves gives the run up.                                                *)
LaunchedInOrder ==
  \A l \in Launches : launch[l] # "none" =>
    /\ l[1] # primary[1] => \E m \in Launches : at[m] >= l[1] - 1 /\ m[2] = 1
    /\ l # primary /\ ~include_tcp_server(primary) => ranks[primary] # {}

(* A run that is reported as successful had no failed launch, and unless   *)
(* the script was cut off by a timeout or with the job, it ended every     *)
(* phase of its plan, and its report shows as passed the phases that the   *)
(* master node had a part in. A run whose every launch ended well is       *)
(* reported as failed only when its plan leaves a node without any rank,   *)
(* which the validation allows.                                            *)
HonestVerdict ==
  /\ verdict = "success" =>
       /\ get_metric = "number"
       /\ \A l \in Launches : launch[l] # "failed"
       /\ rc = 0 => /\ \A k \in Phases(config) : config.plan[k] # {} => \E n \in Nodes(config) : k \in log[n].ended
                    /\ passed = {k \in Phases(config) : \E j \in 1..k : active(<<j, 1>>, k) # {}}
  /\ verdict = "failed" /\ rc = 0 => \E n \in Nodes(config) : \A l \in Launches : l[2] = n => l \notin Planned

(* The script ends, and its logs are judged.                               *)
ScriptEnds == <>(pc \in {"refused", "judged"})

=============================================================================
