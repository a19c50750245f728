------------------------------- MODULE DseGym -------------------------------
(***************************************************************************)
(* Design space exploration: handle_dse_job (cli/handlers.py) explores the *)
(* parameter space of each test run of the scenario in turn; the grid      *)
(* search agent proposes one parameter set after the other, and            *)
(* CloudAIGymEnv.step (configurator/cloudai_gym.py) runs it as a scenario  *)
(* of one test run on the shared runner, reads the metric the job left in  *)
(* its output directory and appends it to the trajectory.                  *)
(*                                                                         *)
(* BaseRunner.run is seen here from outside: one job without dependencies, *)
(* submitted and polled until it has ended. A job is named by its test run *)
(* and its step, as its output directory is.                               *)
(***************************************************************************)
EXTENDS Naturals, Sequences

CONSTANTS
  NumTests,   \* number of test runs of the scenario
  Actions,    \* parameter sets
  Grids,      \* the assignments of grids to test runs the model starts from
  Feasible,   \* parameter sets that pass constraint_check
  MaxSteps,   \* bound: length of the longest grid
  Faults      \* which of "signal", "submit", "status" may happen

TestRuns == 1 .. NumTests
Steps    == 1 .. MaxSteps

(* GridSearchAgent.action_combinations: the parameter sets of a test run   *)
(* in the order they are tried. Values that occur twice in a parameter     *)
(* list give parameter sets that occur twice.                              *)
IsGrid(g) == /\ g \in [1 .. Len(g) -> Actions]
             /\ Len(g) \in 0 .. MaxSteps

ASSUME NumTestsAssumption == NumTests \in Nat \ {0}
ASSUME MaxStepsAssumption == MaxSteps \in Nat
ASSUME GridsAssumption ==
  \A g \in Grids : DOMAIN g = TestRuns /\ \A t \in TestRuns : IsGrid(g[t])

VARIABLES
  grid,              \* action_combinations of each test run; never changes
  job_status_check,  \* TestScenario.job_status_check; never changes
  pc,                \* where handle_dse_job is
  tr,                \* the test run whose space is explored
  index,             \* GridSearchAgent.index, which is also the step
  trajectory,        \* CloudAIGymEnv.trajectory and trajectory.csv of each test run
  jobs,              \* BaseRunner.jobs
  shutting_down,     \* BaseRunner.shutting_down
  job,               \* every job ever submitted, as scheduler and disk know it
  signalled,         \* history: whether a signal has come
  unanswered         \* history: the jobs a status query about failed

history == <<signalled, unanswered>>
vars == <<grid, job_status_check, pc, tr, index, trajectory, jobs, shutting_down, job,
          history>>

(* What a job has left in its output directory, and what get_observation   *)
(* reads there: nothing (rewards.metric_failure), a value computed from an *)
(* unfinished output, or the metric.                                       *)
Output == {"metric_failure", "partial", "metric"}

TrajectoryEntry == [step : Steps, action : Actions, observation : Output]

JobName == TestRuns \X Steps
Job == [state : {"NONE", "PENDING", "RUNNING", "ENDED"}, output : Output,
        killed : BOOLEAN, ok : BOOLEAN]

Active == {"select", "step", "run", "poll", "observe"}
Over   == {"done", "exited"}

TypeOK ==
  /\ pc \in Active \union Over
  /\ tr \in 1 .. NumTests + 1
  /\ index \in 0 .. MaxSteps
  /\ \A t \in TestRuns : \A i \in DOMAIN trajectory[t] :
       trajectory[t][i] \in TrajectoryEntry
  /\ jobs \subseteq JobName
  /\ shutting_down \in BOOLEAN /\ signalled \in BOOLEAN
  /\ unanswered \subseteq JobName
  /\ job \in [JobName -> Job]

-----------------------------------------------------------------------------
Current == <<tr, index>>
action  == grid[tr][index]
Live(j) == job[j].state \in {"PENDING", "RUNNING"}

Mutant_get_cached_trajectory_result(a) ==
  \E i \in DOMAIN trajectory[tr] :
    trajectory[tr][i].action = a /\ trajectory[tr][i].observation = "metric"

(* An entry of the current trajectory has exactly this action.             *)
get_cached_trajectory_result(a) ==
  \E i \in DOMAIN trajectory[tr] : trajectory[tr][i].action = a

Init ==
  /\ grid \in Grids
  /\ job_status_check \in BOOLEAN
  /\ pc = "select" /\ tr = 1 /\ index = 0
  /\ trajectory = [t \in TestRuns |-> << >>]
  /\ jobs = {} /\ shutting_down = FALSE
  /\ signalled = FALSE /\ unanswered = {}
  /\ job = [j \in JobName |-> [state |-> "NONE", output |-> "metric_failure",
                               killed |-> FALSE, ok |-> FALSE]]

(* The agent's next parameter set; the loop is bounded by agent.max_steps, *)
(* the number of parameter sets.                                           *)
select_action ==
  /\ pc = "select" /\ tr <= NumTests /\ index < Len(grid[tr])
  /\ index' = index + 1
  /\ pc' = "step"
  /\ UNCHANGED <<grid, job_status_check, history, tr, trajectory, jobs, shutting_down, job>>

(* The grid is exhausted: a new environment and agent for the next test    *)
(* run, or the reports.                                                    *)
NextTestRun ==
  /\ pc = "select" /\ tr <= NumTests /\ index = Len(grid[tr])
  /\ tr' = tr + 1 /\ index' = 0
  /\ pc' = IF tr < NumTests THEN "select" ELSE "done"
  /\ UNCHANGED <<grid, job_status_check, history, trajectory, jobs, shutting_down, job>>

(* step: the result is in the trajectory, or the constraint check fails.   *)
(* Either way nothing runs and nothing is recorded.                        *)
StepSkipped ==
  /\ pc = "step"
  /\ get_cached_trajectory_result(action) \/ action \notin Feasible
  /\ pc' = "select"
  /\ UNCHANGED <<grid, job_status_check, history, tr, index, trajectory, jobs, shutting_down, job>>

Mutant_StepRun ==
  /\ pc = "step"
  /\ ~get_cached_trajectory_result(action) /\ action \in Feasible
  /\ jobs' = {}
  /\ pc' = "run"
  /\ UNCHANGED <<grid, job_status_check, history, tr, index, trajectory, shutting_down, job>>

(* step: the runner is made ready for a new scenario of one test run.      *)
StepRun ==
  /\ pc = "step"
  /\ ~get_cached_trajectory_result(action) /\ action \in Feasible
  /\ shutting_down' = FALSE
  /\ jobs' = {}
  /\ pc' = "run"
  /\ UNCHANGED <<grid, job_status_check, history, tr, index, trajectory, job>>

(* BaseRunner.run: nothing after a shutdown, else the job is submitted.    *)
RunReturns ==
  /\ pc = "run" /\ shutting_down
  /\ pc' = "observe"
  /\ UNCHANGED <<grid, job_status_check, history, tr, index, trajectory, jobs, shutting_down, job>>

RunSubmits ==
  /\ pc = "run" /\ ~shutting_down
  /\ job' = [job EXCEPT ![Current].state = "PENDING"]
  /\ jobs' = {Current}
  /\ pc' = "poll"
  /\ UNCHANGED <<grid, job_status_check, history, tr, index, trajectory, shutting_down>>

(* _submit_test raises JobSubmissionError; the SystemExit of exit(1) is    *)
(* not an Exception and passes the handler in step.                        *)
SubmitError ==
  /\ "submit" \in Faults
  /\ pc = "run" /\ ~shutting_down
  /\ pc' = "exited"
  /\ UNCHANGED <<grid, job_status_check, history, tr, index, trajectory, jobs, shutting_down, job>>

Mutant_RunCompletes ==
  /\ pc = "poll" /\ job[Current].state \in {"RUNNING", "ENDED"}
  /\ jobs' = {}
  /\ shutting_down' = (shutting_down \/ (job_status_check /\ ~job[Current].ok))
  /\ pc' = "observe"
  /\ UNCHANGED <<grid, job_status_check, history, tr, index, trajectory, job>>

(* The job is seen to have ended. If it failed and that is checked, the    *)
(* runner shuts down and raises JobFailureError, which step swallows.      *)
RunCompletes ==
  /\ pc = "poll" /\ job[Current].state = "ENDED"
  /\ jobs' = {}
  /\ shutting_down' = (shutting_down \/ (job_status_check /\ ~job[Current].ok))
  /\ pc' = "observe"
  /\ UNCHANGED <<grid, job_status_check, history, tr, index, trajectory, job>>

(* The status query fails after its retries; step swallows the error.      *)
StatusError ==
  /\ "status" \in Faults /\ pc = "poll"
  /\ pc' = "observe"
  /\ unanswered' = unanswered \union {Current}
  /\ UNCHANGED <<grid, job_status_check, signalled, tr, index, trajectory, jobs, shutting_down, job>>

(* get_observation on the output directory of the step, write_trajectory.  *)
Observe ==
  /\ pc = "observe"
  /\ trajectory' = [trajectory EXCEPT ![tr] =
       Append(@, [step |-> index, action |-> action,
                  observation |-> job[Current].output])]
  /\ pc' = "select"
  /\ UNCHANGED <<grid, job_status_check, history, tr, index, jobs, shutting_down, job>>

(* cancel_on_signal: shutdown kills what is in jobs.                       *)
CancelOnSignal ==
  /\ "signal" \in Faults /\ pc \in Active
  /\ shutting_down' = TRUE /\ signalled' = TRUE
  /\ job' = [j \in JobName |-> IF j \in jobs THEN [job[j] EXCEPT !.killed = TRUE]
                                             ELSE job[j]]
  /\ UNCHANGED <<grid, job_status_check, unanswered, pc, tr, index, trajectory, jobs>>

-----------------------------------------------------------------------------
(* The scheduler and the job itself.                                       *)
JobStarts(j) ==
  /\ job[j].state = "PENDING"
  /\ job' = [job EXCEPT ![j].state = "RUNNING", ![j].output = "partial"]
  /\ UNCHANGED <<grid, job_status_check, history, pc, tr, index, trajectory, jobs, shutting_down>>

JobEnds(j) ==
  /\ job[j].state = "RUNNING"
  /\ \E ok \in BOOLEAN :
       job' = [job EXCEPT ![j].state = "ENDED", ![j].ok = ok,
                          ![j].output = IF ok THEN "metric" ELSE "metric_failure"]
  /\ UNCHANGED <<grid, job_status_check, history, pc, tr, index, trajectory, jobs, shutting_down>>

JobCancelled(j) ==
  /\ job[j].state = "PENDING" /\ job[j].killed
  /\ job' = [job EXCEPT ![j].state = "ENDED"]
  /\ UNCHANGED <<grid, job_status_check, history, pc, tr, index, trajectory, jobs, shutting_down>>

Handler ==
  \/ select_action \/ NextTestRun
  \/ StepSkipped \/ StepRun
  \/ RunReturns \/ RunSubmits \/ RunCompletes \/ Observe

Scheduler == \E j \in JobName : JobStarts(j) \/ JobEnds(j) \/ JobCancelled(j)

Next == Handler \/ SubmitError \/ StatusError \/ CancelOnSignal \/ Scheduler

Spec == Init /\ [][Next]_vars

(* The handler's thread goes on, and the scheduler starts and ends jobs.   *)
FairSpec ==
  /\ Spec /\ WF_vars(Handler)
  /\ \A j \in JobName : WF_vars(JobStarts(j)) /\ WF_vars(JobEnds(j))

-----------------------------------------------------------------------------
(* Correctness properties.                                                 *)

Submitted == {j \in JobName : job[j].state # "NONE"}
ActionOf(j) == grid[j[1]][j[2]]

(* No parameter set of a test run is run twice, and none that fails the    *)
(* constraint check is run, whatever errors, kills and signals the earlier *)
(* steps met.                                                              *)
EachParameterSetOnce ==
  \A i, j \in Submitted :
    /\ ActionOf(i) \in Feasible
    /\ i # j /\ i[1] = j[1] => ActionOf(i) # ActionOf(j)

(* What the trajectory says of a step is what the job of that step left    *)
(* behind: it is not read from another job's output or before the job has  *)
(* ended, and it does not change afterwards, unless a status query about   *)
(* that job failed: then step reads whatever there is. As the trial that   *)
(* follows is submitted after that, trials run one after the other         *)
(* (handle_dse_job: "all cases run consecutively").                        *)
ObservationsFinal ==
  \A t \in TestRuns : \A i \in DOMAIN trajectory[t] :
    LET j == <<t, trajectory[t][i].step>> IN
    /\ trajectory[t][i].action = ActionOf(j)
    /\ j \notin unanswered => /\ ~Live(j)
                             /\ trajectory[t][i].observation = job[j].output

(* The exploration ends. Unless the process left through exit(1), every    *)
(* feasible parameter set of every test run is in the trajectory by then,  *)
(* also after failed jobs, failed queries and signals, and, unless a       *)
(* signal came, its job has been run to its end.                           *)
GridExplored ==
  <>[](\/ pc = "exited"
       \/ /\ pc = "done"
          /\ \A t \in TestRuns : \A s \in 1 .. Len(grid[t]) : grid[t][s] \in Feasible =>
               \E i \in DOMAIN trajectory[t] :
                 /\ trajectory[t][i].action = grid[t][s]
                 /\ signalled \/ job[<<t, trajectory[t][i].step>>].state = "ENDED")

=============================================================================
