----------------------------- MODULE BaseRunner -----------------------------
(***************************************************************************)
(* The scenario runner of CloudAI: BaseRunner (_core/base_runner.py), the  *)
(* thread that submits the test runs of a scenario, polls their jobs and   *)
(* acts on the dependencies between them; the signal handler of Runner     *)
(* (_core/runner.py), which interrupts that thread between any two of its  *)
(* steps; and the batch scheduler the jobs run on, modelled from what      *)
(* is_job_running, is_job_completed and kill of the systems observe of it. *)
(*                                                                         *)
(* A test run is its position in TestScenario.test_runs, so the loops over *)
(* test_runs visit test runs in increasing order. A job is its submission  *)
(* number, so the loops over the list jobs and over the items of the       *)
(* dictionary testrun_to_job_map, both in insertion order, visit jobs in   *)
(* increasing order.                                                       *)
(***************************************************************************)
EXTENDS Naturals

CONSTANTS
  NumTests,   \* number of test runs in the scenario
  MaxJobs,    \* bound: submissions after which the model stops submitting
  Scenarios,  \* the scenarios the run starts from, each one of Scenario
  Faults      \* which of "signal", "submit", "status" may happen

Tests == 1 .. NumTests
JobId == 1 .. MaxJobs
None  == 0     \* no test run, no job

DepType == {"start_post_init", "start_post_comp", "end_post_comp"}

(***************************************************************************)
(* A TestScenario after parsing. dependencies[t] is TestRun.dependencies:  *)
(* a dictionary keyed by type, hence at most one prior test run per type.  *)
(* dse is "step > 0": the scenario CloudAIGymEnv.step builds, one test run *)
(* without dependencies.                                                   *)
(***************************************************************************)
Scenario ==
  [dependencies : [Tests -> [DepType -> Tests \union {None}]],
   iterations : [Tests -> Nat],
   job_status_check : BOOLEAN,
   mode : {"run", "dry-run"},
   dse : BOOLEAN]

(* TestScenarioModel.check_no_self_dependency. That every dependency is    *)
(* known and every id is unique is part of the type of dependencies.       *)
check_no_self_dependency(s) ==
  \A t \in Tests, d \in DepType : s.dependencies[t][d] # t

ASSUME NumTestsAssumption == NumTests \in Nat \ {0}
ASSUME MaxJobsAssumption == MaxJobs \in Nat
ASSUME ScenariosAssumption ==
  /\ Scenarios \subseteq Scenario
  /\ \A s \in Scenarios : check_no_self_dependency(s)

VARIABLES
  scenario,            \* the scenario that is run; never changes
  pc,                  \* where run() is
  snapshot,            \* jobs the for loop at pc has still to visit
  to_submit,           \* test runs the current call has still to submit
  submitting,          \* job returned by _submit_test, not yet recorded
  ending,              \* test run whose end_post_comp dependents are to be killed
  failing,             \* shutdown and JobFailureError are due
  jobs,                \* BaseRunner.jobs
  testrun_to_job_map,  \* BaseRunner.testrun_to_job_map
  shutting_down,       \* BaseRunner.shutting_down
  current_iteration,   \* TestRun.current_iteration
  njobs,               \* number of submissions so far
  job                  \* every job ever submitted, as the scheduler knows it

ctl == <<pc, snapshot, to_submit, submitting, ending, failing>>
run == <<jobs, testrun_to_job_map, shutting_down, current_iteration>>
vars == <<scenario, ctl, run, njobs, job>>

JobState == {"NONE", "DRY", "PENDING", "RUNNING", "COMPLETED", "CANCELLED"}

Job == [test : Tests \union {None}, iteration : Nat, state : JobState,
        killed : BOOLEAN, terminated_by_dependency : BOOLEAN, ok : BOOLEAN]

Active == {"run", "loop", "check", "monitor"}       \* run() has not ended
Over   == {"done", "failed", "exited", "crashed"}   \* how it may end

TypeOK ==
  /\ scenario \in Scenario
  /\ pc \in Active \union Over
  /\ snapshot \in SUBSET JobId
  /\ to_submit \in SUBSET Tests
  /\ submitting \in JobId \union {None}
  /\ ending \in Tests \union {None}
  /\ failing \in BOOLEAN
  /\ jobs \in SUBSET JobId
  /\ testrun_to_job_map \in [Tests -> JobId \union {None}]
  /\ shutting_down \in BOOLEAN
  /\ current_iteration \in [Tests -> Nat]
  /\ njobs \in Nat
  /\ job \in [JobId -> Job]

-----------------------------------------------------------------------------
Dependency(t, d) == scenario.dependencies[t][d]
Mapped(t)        == testrun_to_job_map[t] # None

(* TestRun.has_more_iterations.                                            *)
has_more_iterations(t) == current_iteration[t] + 1 < scenario.iterations[t]

find_dependency_free_tests ==
  {t \in Tests : /\ Dependency(t, "start_post_comp") = None
                 /\ Dependency(t, "start_post_init") = None}

Mutant_Dependents(p, d, map) == {t \in Tests : Dependency(t, d) = p}
Mutant_ForwardDependents(p, d, map) ==
  {t \in Tests : map[t] = None /\ t > p /\ Dependency(t, d) = p}

(* Test runs that are not in the map and depend on p in the given way.     *)
Dependents(p, d, map) == {t \in Tests : map[t] = None /\ Dependency(t, d) = p}

Live(j)  == job[j].state \in {"PENDING", "RUNNING"}
Ended(j) == job[j].state \in {"COMPLETED", "CANCELLED"}

(* What the polls of a system see of a job: external.                      *)
is_job_running(j)   == job[j].state = "RUNNING"
is_job_completed(j) == Ended(j)

(* system.kill on a set of jobs. Killing what has ended changes nothing on *)
(* the scheduler.                                                          *)
kill(S, by_dependency) ==
  [j \in JobId |->
     IF j \in S
       THEN [job[j] EXCEPT !.killed = TRUE,
                           !.terminated_by_dependency = @ \/ by_dependency]
       ELSE job[j]]

(* The next element a loop visits.                                         *)
First(x, S) == \A y \in S : x <= y

(* The current turn of the loop at pc has nothing left to do.              *)
NoWork == /\ to_submit = {} /\ submitting = None
          /\ ending = None  /\ ~failing

-----------------------------------------------------------------------------
Init ==
  /\ scenario \in Scenarios
  /\ pc = "run" /\ snapshot = {} /\ to_submit = {}
  /\ submitting = None /\ ending = None /\ failing = FALSE
  /\ jobs = {}
  /\ testrun_to_job_map = [t \in Tests |-> None]
  /\ shutting_down = FALSE
  /\ current_iteration = [t \in Tests |-> 0]
  /\ njobs = 0
  /\ job = [j \in JobId |-> [test |-> None, iteration |-> 0, state |-> "NONE",
                             killed |-> FALSE, ok |-> FALSE,
                             terminated_by_dependency |-> FALSE]]

(* run(): returns at once after a shutdown, else submits the test runs     *)
(* that wait for no other and enters the monitoring loop.                  *)
Run ==
  /\ pc = "run"
  /\ \/ shutting_down /\ pc' = "done" /\ UNCHANGED to_submit
     \/ ~shutting_down /\ pc' = "loop" /\ to_submit' = find_dependency_free_tests
  /\ UNCHANGED <<scenario, snapshot, submitting, ending, failing, run, njobs, job>>

(* "while self.jobs": leave run(), or start check_start_post_init_dependencies *)
(* on a copy of the items of the map.                                      *)
While ==
  /\ pc = "loop" /\ NoWork
  /\ \/ jobs = {} /\ pc' = "done" /\ UNCHANGED snapshot
     \/ /\ jobs # {} /\ pc' = "check"
        /\ snapshot' = {testrun_to_job_map[t] : t \in {u \in Tests : Mapped(u)}}
  /\ UNCHANGED <<scenario, to_submit, submitting, ending, failing, run, njobs, job>>

(* One turn of the loop of check_start_post_init_dependencies. Reading     *)
(* is_job_running and then is_job_completed gives what one atomic read at  *)
(* one of the two instants would give, so the read is one step.            *)
CheckItem ==
  /\ pc = "check" /\ NoWork
  /\ \E j \in snapshot :
     /\ First(j, snapshot)
     /\ snapshot' = snapshot \ {j}
     /\ to_submit' =
          IF scenario.mode = "dry-run" \/ is_job_running(j) \/ is_job_completed(j)
            THEN Dependents(job[j].test, "start_post_init", testrun_to_job_map)
            ELSE {}
  /\ UNCHANGED <<scenario, pc, submitting, ending, failing, run, njobs, job>>

(* The items are exhausted: monitor_jobs starts on a copy of jobs.         *)
CheckEnd ==
  /\ pc = "check" /\ NoWork /\ snapshot = {}
  /\ pc' = "monitor" /\ snapshot' = jobs
  /\ UNCHANGED <<scenario, to_submit, submitting, ending, failing, run, njobs, job>>

(* One turn of the loop of monitor_jobs on a job that has not completed.   *)
MonitorSkip ==
  /\ pc = "monitor" /\ NoWork
  /\ \E j \in snapshot :
     /\ First(j, snapshot)
     /\ scenario.mode = "run" /\ ~is_job_completed(j)
     /\ snapshot' = snapshot \ {j}
  /\ UNCHANGED <<scenario, pc, to_submit, submitting, ending, failing, run, njobs, job>>

(* One turn of the loop of monitor_jobs on a completed job, with its call  *)
(* of handle_job_completion up to the first submission. The submissions,   *)
(* the kills of handle_dependencies and the failure follow, each in a step *)
(* of its own since time.sleep or a scheduler command separates them.      *)
MonitorCompleted ==
  /\ pc = "monitor" /\ NoWork
  /\ \E j \in snapshot :
     LET t == job[j].test
         map == [testrun_to_job_map EXCEPT ![t] = None]
         again == ~job[j].terminated_by_dependency /\ has_more_iterations(t)
     IN
     /\ First(j, snapshot)
     /\ scenario.mode = "dry-run" \/ is_job_completed(j)
     /\ snapshot' = snapshot \ {j}
     /\ jobs' = jobs \ {j}
     /\ testrun_to_job_map' = map
     /\ failing' = /\ scenario.mode = "run" /\ scenario.job_status_check
                   /\ ~job[j].ok
     /\ \/ /\ scenario.dse
           /\ UNCHANGED <<current_iteration, to_submit, ending>>
        \/ /\ ~scenario.dse /\ again
           /\ current_iteration' = [current_iteration EXCEPT ![t] = @ + 1]
           /\ to_submit' = {t}
           /\ UNCHANGED ending
        \/ /\ ~scenario.dse /\ ~again
           /\ to_submit' = Dependents(t, "start_post_comp", map)
           /\ ending' = t
           /\ UNCHANGED current_iteration
  /\ UNCHANGED <<scenario, pc, submitting, shutting_down, njobs, job>>

(* monitor_jobs returns; run() sleeps and tests the loop condition.        *)
MonitorEnd ==
  /\ pc = "monitor" /\ NoWork /\ snapshot = {}
  /\ pc' = "loop"
  /\ UNCHANGED <<scenario, snapshot, to_submit, submitting, ending, failing, run, njobs, job>>

(* submit_test up to the return of _submit_test: the scheduler has the job, *)
(* the runner has not recorded it. Nothing reaches the scheduler in dry-run. *)
SubmitTest ==
  /\ pc \in Active /\ submitting = None
  /\ njobs < MaxJobs
  /\ \E t \in to_submit :
     /\ First(t, to_submit)
     /\ to_submit' = to_submit \ {t}
     /\ njobs' = njobs + 1
     /\ submitting' = njobs + 1
     /\ job' = [job EXCEPT ![njobs + 1] =
                  [test |-> t, iteration |-> current_iteration[t],
                   state |-> IF scenario.mode = "run" THEN "PENDING" ELSE "DRY",
                   killed |-> FALSE, ok |-> FALSE,
                   terminated_by_dependency |-> FALSE]]
  /\ UNCHANGED <<scenario, pc, snapshot, ending, failing, run>>

(* submit_test, from the return of _submit_test on.                        *)
RecordJob ==
  /\ pc \in Active /\ submitting # None
  /\ jobs' = jobs \union {submitting}
  /\ testrun_to_job_map' =
       [testrun_to_job_map EXCEPT ![job[submitting].test] = submitting]
  /\ submitting' = None
  /\ UNCHANGED <<scenario, pc, snapshot, to_submit, ending, failing,
                 shutting_down, current_iteration, njobs, job>>

(* _submit_test raises JobSubmissionError: exit(1).                        *)
SubmitError ==
  /\ "submit" \in Faults
  /\ pc \in Active /\ to_submit # {} /\ submitting = None
  /\ pc' = "exited"
  /\ UNCHANGED <<scenario, snapshot, to_submit, submitting, ending, failing, run, njobs, job>>

Mutant_KillDependentsAny ==
  /\ pc = "monitor" /\ to_submit = {} /\ submitting = None /\ ending # None
  /\ job' = kill({testrun_to_job_map[t] : t \in {u \in Tests :
                    Mapped(u) /\ Dependency(u, "end_post_comp") # None}}, TRUE)
  /\ ending' = None
  /\ UNCHANGED <<scenario, pc, snapshot, to_submit, submitting, failing, run, njobs>>

(* The second half of handle_dependencies: every job in the map whose test *)
(* run has an end_post_comp dependency on the completed one is killed.     *)
KillDependents ==
  /\ pc = "monitor" /\ to_submit = {} /\ submitting = None /\ ending # None
  /\ job' = kill({testrun_to_job_map[t] : t \in {u \in Tests :
                    Mapped(u) /\ Dependency(u, "end_post_comp") = ending}}, TRUE)
  /\ ending' = None
  /\ UNCHANGED <<scenario, pc, snapshot, to_submit, submitting, failing, run, njobs>>

Mutant_JobFailureNoShutdown ==
  /\ pc = "monitor" /\ to_submit = {} /\ submitting = None
  /\ ending = None /\ failing
  /\ pc' = "failed" /\ failing' = FALSE
  /\ UNCHANGED <<scenario, snapshot, to_submit, submitting, ending, run, njobs, job>>

(* shutdown() and JobFailureError at the end of monitor_jobs' failure case; *)
(* Runner.run swallows the error.                                          *)
JobFailure ==
  /\ pc = "monitor" /\ to_submit = {} /\ submitting = None
  /\ ending = None /\ failing
  /\ pc' = "failed" /\ failing' = FALSE
  /\ shutting_down' = TRUE
  /\ job' = kill(jobs, FALSE)
  /\ UNCHANGED <<scenario, snapshot, to_submit, submitting, ending, jobs,
                 testrun_to_job_map, current_iteration, njobs>>

(* A status query fails after its retries: the RuntimeError leaves run().  *)
StatusError ==
  /\ "status" \in Faults
  /\ pc \in {"check", "monitor"} /\ NoWork /\ snapshot # {}
  /\ scenario.mode = "run"
  /\ pc' = "crashed"
  /\ UNCHANGED <<scenario, snapshot, to_submit, submitting, ending, failing, run, njobs, job>>

(* cancel_on_signal, between any two steps of the thread: shutdown().      *)
CancelOnSignal ==
  /\ "signal" \in Faults
  /\ pc \in Active
  /\ shutting_down' = TRUE
  /\ job' = kill(jobs, FALSE)
  /\ UNCHANGED <<scenario, ctl, jobs, testrun_to_job_map, current_iteration, njobs>>

-----------------------------------------------------------------------------
(* The scheduler. A job that is killed before it starts ends without       *)
(* having run; a job that runs ends by itself, by the kill or by its time  *)
(* limit, and what was_run_successful later says of it is open.            *)
JobStarts(j) ==
  /\ job[j].state = "PENDING"
  /\ job' = [job EXCEPT ![j].state = "RUNNING"]
  /\ UNCHANGED <<scenario, ctl, run, njobs>>

JobEnds(j) ==
  /\ job[j].state = "RUNNING"
  /\ \E ok \in BOOLEAN :
       job' = [job EXCEPT ![j].state = "COMPLETED", ![j].ok = ok]
  /\ UNCHANGED <<scenario, ctl, run, njobs>>

JobCancelled(j) ==
  /\ job[j].state = "PENDING" /\ job[j].killed
  /\ \E ok \in BOOLEAN :
       job' = [job EXCEPT ![j].state = "CANCELLED", ![j].ok = ok]
  /\ UNCHANGED <<scenario, ctl, run, njobs>>

Runner ==
  \/ Run \/ While \/ CheckItem \/ CheckEnd
  \/ MonitorSkip \/ MonitorCompleted \/ MonitorEnd
  \/ SubmitTest \/ RecordJob \/ SubmitError
  \/ KillDependents \/ JobFailure \/ StatusError

Scheduler == \E j \in JobId : JobStarts(j) \/ JobEnds(j) \/ JobCancelled(j)

Next == Runner \/ CancelOnSignal \/ Scheduler

Spec == Init /\ [][Next]_vars

(* The thread never stops between two steps, and the scheduler starts what *)
(* is pending and ends what is running (time limits bound every job).      *)
FairSpec ==
  /\ Spec /\ WF_vars(Runner)
  /\ \A j \in JobId : WF_vars(JobStarts(j)) /\ WF_vars(JobEnds(j))
-----------------------------------------------------------------------------
(* Correctness properties.                                                 *)

Submitted == 1 .. njobs

(* The list jobs and the map testrun_to_job_map always agree: the map holds *)
(* exactly the listed jobs, each under the test run it was submitted for.  *)
(* handle_job_completion raises ValueError or KeyError where they differ.  *)
JobsMatchMap ==
  /\ jobs = {testrun_to_job_map[t] : t \in {u \in Tests : Mapped(u)}}
  /\ \A t \in Tests : Mapped(t) => job[testrun_to_job_map[t]].test = t

(* However submissions, completions, kills and signals interleave, the     *)
(* runner never lets go of a job that is still on the scheduler: it is in  *)
(* jobs, or _submit_test has just returned it.                             *)
NoLiveJobForgotten ==
  \A j \in Submitted : Live(j) => j \in jobs \union {submitting}

(* What makes the three properties around it inductive: job numbers are    *)
(* given out in order, loops only visit recorded jobs, and a test run that *)
(* is about to be submitted or just was has no entry in the map.           *)
Bookkeeping ==
  /\ njobs <= MaxJobs
  /\ \A j \in JobId : job[j].test # None <=> j \in Submitted
  /\ \A j \in JobId : Live(j) => j \in jobs \union {submitting}
  /\ scenario.mode = "dry-run" => \A j \in JobId : ~Live(j)
  /\ jobs \subseteq Submitted /\ snapshot \subseteq jobs
  /\ \A t \in to_submit : ~Mapped(t)
  /\ submitting # None =>
       /\ submitting \in Submitted \ jobs
       /\ ~Mapped(job[submitting].test) /\ job[submitting].test \notin to_submit
  /\ pc \in {"run", "done"} => jobs = {} /\ submitting = None
  /\ pc = "run" => to_submit = {}
  /\ pc = "failed" => /\ submitting = None
                      /\ \A j \in jobs : job[j].killed

(* No test run ever has two jobs on the scheduler at once, be it through   *)
(* its iterations or through several dependencies that start it.           *)
OneLiveJobPerTest ==
  \A i, j \in Submitted :
    i # j /\ job[i].test = job[j].test /\ Live(i) => ~Live(j)

(* The last job of its test run in this scenario: no iteration follows it. *)
Final(j) == \/ job[j].terminated_by_dependency
            \/ job[j].iteration + 1 >= scenario.iterations[job[j].test]

(* When run() returns nothing it submitted is still on the scheduler, and  *)
(* when it fails because of a job, every job that still is has been killed. *)
NothingLeftBehind ==
  \A j \in Submitted :
    /\ pc = "done" => ~Live(j)
    /\ pc = "failed" => ~Live(j) \/ job[j].killed

(* Every iteration of t has been run to its end, or a dependency ended t;  *)
(* in a scenario of a design space exploration there is one iteration.     *)
HasRun(t) ==
  \E j \in Submitted :
    job[j].test = t /\ ~Live(j) /\ j \notin jobs /\ (Final(j) \/ scenario.dse)

(* run() ends. Unless it was shut down or left through a failed command,   *)
(* every test run has then run, except where what it waits for did not     *)
(* happen before it: the prior test run was not run either (a circle), or  *)
(* its start was to be seen by a poll. (A scenario that needs more than    *)
(* MaxJobs submissions is only followed up to that bound.)                 *)
EveryTestEventuallyRuns ==
  <>[](/\ pc \in Over \/ (njobs = MaxJobs /\ to_submit # {})
       /\ pc = "done" /\ ~shutting_down =>
            \A t \in Tests :
              \/ HasRun(t)
              \/ LET p == Dependency(t, "start_post_comp")
                     q == Dependency(t, "start_post_init")
                 IN (p # None \/ q # None) /\ (p # None => ~HasRun(p)))

-----------------------------------------------------------------------------
(* The scenario as ScenarioExec sees it: its variables by the same names.  *)
TestsOf(J) == {job[j].test : j \in J}
Listed     == {t \in Tests : Mapped(t)}
JobOf(t)   == job[testrun_to_job_map[t]]

status  == IF pc \in Active THEN "running"
           ELSE IF pc \in {"done", "failed"} THEN pc ELSE "aborted"
open    == Listed \union TestsOf({submitting} \ {None})
live    == TestsOf({j \in Submitted : Live(j)})
begun   == TestsOf({j \in Submitted : job[j].state # "PENDING"})
stopped == {t \in Listed : JobOf(t).killed}
ended   == {t \in Listed : JobOf(t).terminated_by_dependency}
done    == TestsOf({j \in Submitted \ (jobs \union {submitting}) : Final(j)})
due     == {t \in Tests : t = ending /\ \E u \in Tests : Dependency(u, "end_post_comp") = t}

Exec == INSTANCE ScenarioExec WITH failure <- failing, round <- current_iteration

(* The runner keeps what ScenarioExec promises of a scenario: test runs    *)
(* start only after what they wait for and one iteration after the other,  *)
(* a test run ends early only by a shutdown, a failure or the test run it  *)
(* is to end with, the consequences of one completion are drawn before the *)
(* next one is noticed, and the run is done only when nothing is left.     *)
ImplementsScenarioExec == Exec!Spec

WaitsForStart == \E t \in Tests : Dependency(t, "start_post_init") # None

(* What the proof of it needs besides Bookkeeping: test runs about to be   *)
(* submitted may start, and without start_post_init dependencies nothing   *)
(* that is done is on the way again.                                       *)
Promised ==
  /\ scenario \in Scenarios
  /\ pc = "run" => njobs = 0 /\ ending = None /\ ~failing
  /\ \A j \in jobs \union ({submitting} \ {None}) :
       job[j].iteration = current_iteration[job[j].test]
  /\ submitting # None => /\ ~job[submitting].killed
                          /\ ~job[submitting].terminated_by_dependency
  /\ \A t \in to_submit : Exec!MayStart(t)
  /\ ~WaitsForStart =>
       /\ (to_submit \union open) \intersect done = {}
       /\ \A t \in to_submit \union open \union done :
            Dependency(t, "start_post_comp") \in done \union {None}

=============================================================================
