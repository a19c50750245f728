-------------------------- MODULE BaseRunnerProofs --------------------------
(***************************************************************************)
(* Proofs about BaseRunner for every number of test runs, every bound on   *)
(* the submissions, every set of scenarios and every choice of faults.     *)
(***************************************************************************)
EXTENDS BaseRunner, TLAPS

(* kill changes no more than two flags of the jobs in the set.             *)
LEMMA KillFacts ==
  ASSUME job \in [JobId -> Job], NEW S, NEW b \in BOOLEAN
  PROVE  /\ kill(S, b) \in [JobId -> Job]
         /\ \A j \in JobId : /\ kill(S, b)[j].test = job[j].test
                             /\ kill(S, b)[j].state = job[j].state
                             /\ kill(S, b)[j].iteration = job[j].iteration
                             /\ kill(S, b)[j].ok = job[j].ok
                             /\ job[j].killed => kill(S, b)[j].killed
                             /\ j \in S => kill(S, b)[j].killed
  BY DEF kill, Job

LEMMA InitTypeOK == Init => TypeOK
<1> SUFFICES ASSUME Init PROVE TypeOK
  OBVIOUS
<1>1. scenario \in Scenario
  BY ScenariosAssumption DEF Init
<1>2. job \in [JobId -> Job]
  BY DEF Init, Job, JobState
<1>3. testrun_to_job_map \in [Tests -> JobId \union {None}]
  BY DEF Init
<1>4. failing \in BOOLEAN /\ shutting_down \in BOOLEAN
  BY DEF Init
<1>5. current_iteration \in [Tests -> Nat] /\ njobs \in Nat
  BY DEF Init
<1> QED
  BY <1>1, <1>2, <1>3, <1>4, <1>5 DEF Init, TypeOK, Active

(* Types alone are not inductive: that handle_job_completion resubmits a   *)
(* test run of the scenario needs the loops to visit submitted jobs only.  *)
LEMMA NextTypeOK == TypeOK /\ Bookkeeping /\ [Next]_vars => TypeOK'
<1> SUFFICES ASSUME TypeOK, Bookkeeping, [Next]_vars PROVE TypeOK'
  OBVIOUS
<1> USE DEF TypeOK
<1>1. CASE Run
  BY <1>1 DEF Run, run, find_dependency_free_tests, Active, Over
<1>2. CASE While
  BY <1>2 DEF While, run, Active, Over, Mapped
<1>3. CASE CheckItem
  BY <1>3 DEF CheckItem, run, Dependents
<1>4. CASE CheckEnd
  BY <1>4 DEF CheckEnd, run, Active
<1>5. CASE MonitorSkip
  BY <1>5 DEF MonitorSkip, run
<1>6. CASE MonitorCompleted
  <2>1. PICK j \in snapshot : MonitorCompleted!2!(j)
    BY <1>6 DEF MonitorCompleted
  <2>2. job[j].test \in Tests
    BY DEF Job, Bookkeeping
  <2>3. failing' \in BOOLEAN
    BY <2>1
  <2>4. snapshot' \in SUBSET JobId /\ jobs' \in SUBSET JobId
    BY <2>1
  <2>5. testrun_to_job_map' \in [Tests -> JobId \union {None}]
    BY <2>1
  <2>6. /\ current_iteration' \in [Tests -> Nat]
        /\ ending' \in Tests \union {None}
        /\ to_submit' \in SUBSET Tests
    BY <2>1, <2>2 DEF Dependents
  <2> QED
    BY <1>6, <2>3, <2>4, <2>5, <2>6 DEF MonitorCompleted
<1>7. CASE MonitorEnd
  BY <1>7 DEF MonitorEnd, run, Active
<1>8. CASE SubmitTest
  BY <1>8, MaxJobsAssumption DEF SubmitTest, run, Job, JobState, JobId
<1>9. CASE RecordJob
  BY <1>9 DEF RecordJob, None
<1>10. CASE SubmitError
  BY <1>10 DEF SubmitError, run, Over
<1>11. CASE KillDependents
  BY <1>11, KillFacts DEF KillDependents, run
<1>12. CASE JobFailure
  BY <1>12, KillFacts DEF JobFailure, Over
<1>13. CASE StatusError
  BY <1>13 DEF StatusError, run, Over
<1>14. CASE CancelOnSignal
  BY <1>14, KillFacts DEF CancelOnSignal, ctl
<1>15. CASE Scheduler
  BY <1>15 DEF Scheduler, JobStarts, JobEnds, JobCancelled, ctl, run, Job, JobState
<1>16. CASE UNCHANGED vars
  BY <1>16 DEF vars, ctl, run
<1> QED
  BY <1>1, <1>2, <1>3, <1>4, <1>5, <1>6, <1>7, <1>8, <1>9, <1>10, <1>11,
     <1>12, <1>13, <1>14, <1>15, <1>16 DEF Next, Runner

-----------------------------------------------------------------------------
LEMMA InitBookkeeping == Init => JobsMatchMap /\ Bookkeeping
<1> SUFFICES ASSUME Init PROVE JobsMatchMap /\ Bookkeeping
  OBVIOUS
<1>1. JobsMatchMap
  BY DEF Init, JobsMatchMap, Mapped
<1>2. Bookkeeping
  BY MaxJobsAssumption
     DEF Init, Bookkeeping, Mapped, Live, Submitted, None, JobId
<1> QED
  BY <1>1, <1>2

(* What a kill of some recorded jobs preserves: it removes nothing.        *)
LEMMA KillKeepsBookkeeping ==
  ASSUME TypeOK, JobsMatchMap, Bookkeeping, NEW S, NEW b \in BOOLEAN,
         job' = kill(S, b),
         UNCHANGED <<scenario, snapshot, to_submit, submitting, jobs,
                     testrun_to_job_map, njobs>>,
         pc' = pc \/ (pc' = "failed" /\ submitting = None /\ jobs \subseteq S)
  PROVE  JobsMatchMap' /\ Bookkeeping'
<1>1. \A j \in JobId : /\ job'[j].test = job[j].test
                       /\ job'[j].state = job[j].state
                       /\ job[j].killed => job'[j].killed
                       /\ j \in S => job'[j].killed
  BY KillFacts DEF TypeOK
<1>2. JobsMatchMap'
  BY <1>1 DEF JobsMatchMap, Mapped, TypeOK
<1>3. \A j \in JobId : Live(j)' <=> Live(j)
  BY <1>1 DEF Live
<1>4. submitting # None => job'[submitting].test = job[submitting].test
  BY <1>1 DEF TypeOK
<1>5. pc' = "failed" => submitting' = None /\ \A j \in jobs' : job'[j].killed
  BY <1>1 DEF Bookkeeping, TypeOK
<1>6. Submitted' = Submitted
  BY DEF Submitted
<1> QED
  BY <1>1, <1>2, <1>3, <1>4, <1>5, <1>6 DEF Bookkeeping, Mapped

(* A step of the thread that touches neither the jobs nor the map.         *)
LEMMA ControlStep ==
  ASSUME TypeOK, JobsMatchMap, Bookkeeping,
         UNCHANGED <<scenario, submitting, jobs, testrun_to_job_map, njobs, job>>,
         snapshot' \subseteq jobs,
         \A t \in to_submit' : testrun_to_job_map[t] = None,
         submitting = None \/ to_submit' = to_submit,
         pc' \in {"run", "failed"} => UNCHANGED <<pc, to_submit>>,
         pc' = "done" => pc = "done" \/ (jobs = {} /\ submitting = None)
  PROVE  JobsMatchMap' /\ Bookkeeping'
<1>1. JobsMatchMap'
  BY DEF JobsMatchMap, Mapped
<1>2. Submitted' = Submitted
  BY DEF Submitted
<1>3. \A j \in JobId : Live(j)' <=> Live(j)
  BY DEF Live
<1>4. /\ \A t \in to_submit' : ~Mapped(t)'
      /\ submitting' # None => ~Mapped(job[submitting].test)'
  BY DEF Mapped, Bookkeeping
<1> QED
  BY <1>1, <1>2, <1>3, <1>4 DEF Bookkeeping

LEMMA NextBookkeeping ==
  TypeOK /\ JobsMatchMap /\ Bookkeeping /\ [Next]_vars
    => JobsMatchMap' /\ Bookkeeping'
<1> SUFFICES ASSUME TypeOK, JobsMatchMap, Bookkeeping, [Next]_vars
             PROVE  JobsMatchMap' /\ Bookkeeping'
  OBVIOUS
<1>1. CASE Run
  <2>1. \A t \in Tests : testrun_to_job_map[t] = None
    BY <1>1 DEF Run, Bookkeeping, JobsMatchMap, Mapped
  <2>2. /\ UNCHANGED <<scenario, snapshot, submitting, jobs, testrun_to_job_map,
                       njobs, job>>
        /\ to_submit' \subseteq Tests /\ pc' \in {"done", "loop"}
        /\ submitting = None /\ jobs = {} /\ snapshot \subseteq jobs
    BY <1>1 DEF Run, run, find_dependency_free_tests, TypeOK, Bookkeeping
  <2> QED
    BY <2>1, <2>2, ControlStep
<1>2. CASE While
  <2>1. snapshot' \subseteq jobs
    BY <1>2 DEF While, JobsMatchMap, Bookkeeping
  <2>2. /\ UNCHANGED <<scenario, to_submit, submitting, jobs,
                       testrun_to_job_map, njobs, job>>
        /\ submitting = None /\ to_submit = {}
    BY <1>2 DEF While, run, NoWork
  <2>3. pc' \in {"done", "check"} /\ (pc' = "done" => jobs = {})
    BY <1>2 DEF While
  <2> QED
    BY <2>1, <2>2, <2>3, ControlStep
<1>3. CASE CheckItem
  <2>1. snapshot' \subseteq jobs /\ \A t \in to_submit' : testrun_to_job_map[t] = None
    BY <1>3 DEF CheckItem, Dependents, Bookkeeping
  <2>2. /\ UNCHANGED <<scenario, pc, submitting, jobs, testrun_to_job_map, njobs, job>>
        /\ submitting = None /\ pc = "check"
    BY <1>3 DEF CheckItem, run, NoWork
  <2> QED
    BY <2>1, <2>2, ControlStep
<1>4. CASE CheckEnd
  <2>1. /\ UNCHANGED <<scenario, to_submit, submitting, jobs, testrun_to_job_map,
                       njobs, job>>
        /\ snapshot' \subseteq jobs /\ pc' = "monitor"
        /\ \A t \in to_submit : testrun_to_job_map[t] = None
    BY <1>4 DEF CheckEnd, run, Bookkeeping, Mapped
  <2> QED
    BY <2>1, ControlStep
<1>5. CASE MonitorSkip
  <2>1. /\ UNCHANGED <<scenario, to_submit, submitting, jobs, testrun_to_job_map,
                       njobs, job>>
        /\ snapshot' \subseteq jobs /\ pc' = "monitor"
        /\ \A t \in to_submit : testrun_to_job_map[t] = None
    BY <1>5 DEF MonitorSkip, run, Bookkeeping, Mapped
  <2> QED
    BY <2>1, ControlStep
<1>6. CASE MonitorCompleted
  <2>1. PICK j \in snapshot : MonitorCompleted!2!(j)
    BY <1>6 DEF MonitorCompleted
  <2> DEFINE t == job[j].test
  <2>2. j \in jobs /\ j \in JobId /\ t \in Tests /\ testrun_to_job_map[t] = j
    BY DEF Bookkeeping, JobsMatchMap, Mapped, TypeOK, Job
  <2>3. /\ submitting' = None /\ submitting = None /\ to_submit = {} /\ pc' = "monitor"
        /\ UNCHANGED <<job, njobs>>
    BY <1>6 DEF MonitorCompleted, NoWork
  <2>4. /\ jobs' = jobs \ {j} /\ snapshot' = snapshot \ {j}
        /\ testrun_to_job_map' = [testrun_to_job_map EXCEPT ![t] = None]
    BY <2>1
  <2>5. ~Live(j) /\ UNCHANGED scenario
    BY <1>6, <2>1, <2>2 DEF MonitorCompleted, Bookkeeping, is_job_completed, Ended, Live
  <2>6. \A u \in to_submit' : ~Mapped(u)'
    BY <2>1, <2>2, <2>3, <2>4 DEF Dependents, Mapped, TypeOK
  <2>7. JobsMatchMap'
    BY <2>2, <2>3, <2>4 DEF JobsMatchMap, Mapped, TypeOK, None, JobId
  <2> QED
    BY <2>2, <2>3, <2>4, <2>5, <2>6, <2>7 DEF Bookkeeping, Live, Submitted
<1>7. CASE MonitorEnd
  <2>1. /\ UNCHANGED <<scenario, to_submit, submitting, jobs, testrun_to_job_map,
                       njobs, job>>
        /\ snapshot' \subseteq jobs /\ pc' = "loop"
        /\ \A t \in to_submit : testrun_to_job_map[t] = None
    BY <1>7 DEF MonitorEnd, run, Bookkeeping, Mapped
  <2> QED
    BY <2>1, ControlStep
<1>8. CASE SubmitTest
  <2>1. PICK t \in to_submit : SubmitTest!3!(t)
    BY <1>8 DEF SubmitTest
  <2> DEFINE n == njobs + 1
  <2>2. /\ UNCHANGED <<scenario, pc, snapshot, jobs, testrun_to_job_map>>
        /\ submitting = None /\ pc \in Active /\ njobs < MaxJobs
    BY <1>8 DEF SubmitTest, run
  <2>3. /\ n \in JobId /\ n \notin Submitted /\ t \in Tests /\ t # None
        /\ Submitted' = Submitted \union {n} /\ n # None
    BY <2>1, <2>2, MaxJobsAssumption DEF TypeOK, JobId, Submitted, Tests, None
  <2>4. /\ submitting' = n /\ njobs' = n /\ to_submit' = to_submit \ {t}
        /\ job'[n].test = t
        /\ scenario.mode = "dry-run" => job'[n].state = "DRY"
        /\ \A j \in JobId : j # n => job'[j] = job[j]
    BY <2>1, <2>3 DEF TypeOK
  <2>5. JobsMatchMap'
    BY <2>2, <2>3, <2>4 DEF JobsMatchMap, Mapped, TypeOK, Bookkeeping
  <2>6. \A j \in JobId : j # n => (Live(j)' <=> Live(j))
    BY <2>4 DEF Live
  <2>10. \A j \in JobId : job'[j].test # None <=> j \in Submitted'
    <3> SUFFICES ASSUME NEW j \in JobId
                 PROVE  job'[j].test # None <=> j \in Submitted'
      OBVIOUS
    <3>1. CASE j = n
      BY <3>1, <2>3, <2>4
    <3>2. CASE j # n
      BY <3>2, <2>3, <2>4 DEF Bookkeeping
    <3> QED
      BY <3>1, <3>2
  <2>11. \A j \in JobId : Live(j)' => j \in jobs' \union {submitting'}
    BY <2>6, <2>2, <2>3, <2>4 DEF Bookkeeping, JobId, None
  <2>12. scenario'.mode = "dry-run" => \A j \in JobId : ~Live(j)'
    <3>1. scenario.mode = "dry-run" =>
            \A j \in JobId : j = n => ~Live(j)'
      BY <2>4 DEF Live
    <3>2. scenario.mode = "dry-run" => \A j \in JobId : ~Live(j)
      BY DEF Bookkeeping
    <3> QED
      BY <2>6, <2>2, <3>1, <3>2
  <2>7. /\ submitting' \in Submitted' \ jobs'
        /\ testrun_to_job_map'[job'[submitting'].test] = None
        /\ job'[submitting'].test \notin to_submit'
    BY <2>2, <2>3, <2>4 DEF Bookkeeping, Mapped
  <2>8. \A u \in to_submit' : testrun_to_job_map'[u] = None
    BY <2>2, <2>4 DEF Bookkeeping, Mapped
  <2>9. /\ njobs' <= MaxJobs /\ jobs' \subseteq Submitted' /\ snapshot' \subseteq jobs'
        /\ pc' \notin {"run", "done", "failed"}
    BY <2>2, <2>3, <2>4, <1>8, MaxJobsAssumption DEF Bookkeeping, Active, TypeOK
  <2> QED
    BY <2>5, <2>10, <2>11, <2>12, <2>7, <2>8, <2>9 DEF Bookkeeping, Mapped
<1>9. CASE RecordJob
  <2> DEFINE t == job[submitting].test
  <2>1. /\ UNCHANGED <<scenario, pc, snapshot, to_submit, njobs, job>>
        /\ jobs' = jobs \union {submitting} /\ submitting' = None
        /\ testrun_to_job_map' = [testrun_to_job_map EXCEPT ![t] = submitting]
        /\ submitting # None /\ pc \in Active
    BY <1>9 DEF RecordJob
  <2>2. submitting \in Submitted \ jobs /\ submitting \in JobId /\ t \in Tests
    BY <2>1 DEF Bookkeeping, TypeOK, Job
  <2>3. JobsMatchMap'
    BY <2>1, <2>2 DEF JobsMatchMap, Mapped, TypeOK, Bookkeeping
  <2>4. \A u \in to_submit' : ~Mapped(u)'
    BY <2>1, <2>2 DEF Bookkeeping, Mapped, TypeOK
  <2> QED
    BY <2>1, <2>2, <2>3, <2>4 DEF Bookkeeping, Active, Live, Submitted
<1>10. CASE SubmitError
  <2>1. /\ UNCHANGED <<scenario, to_submit, submitting, jobs, testrun_to_job_map,
                       njobs, job>>
        /\ snapshot' \subseteq jobs /\ pc' = "exited"
        /\ \A t \in to_submit : testrun_to_job_map[t] = None
    BY <1>10 DEF SubmitError, run, Bookkeeping, Mapped
  <2> QED
    BY <2>1, ControlStep
<1>11. CASE KillDependents
  <2>1. PICK S : job' = kill(S, TRUE)
    BY <1>11 DEF KillDependents
  <2>2. UNCHANGED <<scenario, pc, snapshot, to_submit, submitting, jobs,
                    testrun_to_job_map, njobs>>
    BY <1>11 DEF KillDependents, run
  <2> QED
    BY <2>1, <2>2, KillKeepsBookkeeping
<1>12. CASE JobFailure
  <2>1. job' = kill(jobs, FALSE)
    BY <1>12 DEF JobFailure
  <2>2. /\ UNCHANGED <<scenario, snapshot, to_submit, submitting, jobs,
                       testrun_to_job_map, njobs>>
        /\ submitting = None /\ pc' = "failed"
    BY <1>12 DEF JobFailure
  <2> QED
    BY <2>1, <2>2, KillKeepsBookkeeping
<1>14. CASE CancelOnSignal
  <2>1. job' = kill(jobs, FALSE)
    BY <1>14 DEF CancelOnSignal
  <2>2. UNCHANGED <<scenario, pc, snapshot, to_submit, submitting, jobs,
                    testrun_to_job_map, njobs>>
    BY <1>14 DEF CancelOnSignal, ctl
  <2> QED
    BY <2>1, <2>2, KillKeepsBookkeeping
<1>15. CASE Scheduler
  <2>1. UNCHANGED <<scenario, pc, snapshot, to_submit, submitting, jobs,
                    testrun_to_job_map, njobs>>
    BY <1>15 DEF Scheduler, JobStarts, JobEnds, JobCancelled, ctl, run
  <2>2. \A j \in JobId : /\ job'[j].test = job[j].test
                         /\ job'[j].killed = job[j].killed
                         /\ Live(j)' => Live(j)
    BY <1>15 DEF Scheduler, JobStarts, JobEnds, JobCancelled, Live, TypeOK, Job
  <2>3. JobsMatchMap'
    BY <2>1, <2>2 DEF JobsMatchMap, Mapped, TypeOK
  <2>4. submitting # None => job'[submitting].test = job[submitting].test
    BY <2>2 DEF TypeOK
  <2>5. pc' = "failed" => \A j \in jobs' : job'[j].killed
    BY <2>1, <2>2 DEF Bookkeeping, TypeOK
  <2>6. Submitted' = Submitted
    BY <2>1 DEF Submitted
  <2> QED
    BY <2>1, <2>2, <2>3, <2>4, <2>5, <2>6 DEF Bookkeeping, Mapped
<1>13. CASE StatusError
  <2>1. /\ UNCHANGED <<scenario, to_submit, submitting, jobs, testrun_to_job_map,
                       njobs, job>>
        /\ snapshot' \subseteq jobs /\ pc' = "crashed"
        /\ \A t \in to_submit : testrun_to_job_map[t] = None
    BY <1>13 DEF StatusError, run, Bookkeeping, Mapped
  <2> QED
    BY <2>1, ControlStep
<1>16. CASE UNCHANGED vars
  <2>1. UNCHANGED <<scenario, pc, snapshot, to_submit, submitting, jobs,
                    testrun_to_job_map, njobs, job>>
    BY <1>16 DEF vars, ctl, run
  <2> QED
    BY <2>1 DEF JobsMatchMap, Bookkeeping, Mapped, Live, Submitted, TypeOK
<1> QED
  BY <1>1, <1>2, <1>3, <1>4, <1>5, <1>6, <1>7, <1>8, <1>9, <1>10, <1>11,
     <1>12, <1>14, <1>15,
     <1>13, <1>16 DEF Next, Runner

(* The inductive invariant.                                                *)
THEOREM Inductive == Spec => [](TypeOK /\ JobsMatchMap /\ Bookkeeping)
<1> DEFINE IInv == TypeOK /\ JobsMatchMap /\ Bookkeeping
<1>1. Init => IInv
  BY InitTypeOK, InitBookkeeping
<1>2. IInv /\ [Next]_vars => IInv'
  BY NextTypeOK, NextBookkeeping
<1> QED
  BY <1>1, <1>2, PTL DEF Spec

(* Type correctness of the runner, its control state and the job records.  *)
THEOREM TypeCorrect == Spec => []TypeOK
  BY Inductive, PTL

(* The list of jobs and the map of test runs agree in every reachable      *)
(* state, so the removals of handle_job_completion never raise.            *)
THEOREM JobsAlwaysMatchMap == Spec => []JobsMatchMap
  BY Inductive, PTL

(* No interleaving of submissions, polls, kills and signals makes the      *)
(* runner forget a job that is on the scheduler.                           *)
THEOREM LiveJobsTracked == Spec => []NoLiveJobForgotten
<1>1. TypeOK /\ Bookkeeping => NoLiveJobForgotten
  BY MaxJobsAssumption
     DEF TypeOK, Bookkeeping, NoLiveJobForgotten, Submitted, JobId
<1> QED
  BY <1>1, Inductive, PTL

(* No test run has two jobs on the scheduler at once.                      *)
THEOREM OneLiveJob == Spec => []OneLiveJobPerTest
<1>1. TypeOK /\ JobsMatchMap /\ Bookkeeping => OneLiveJobPerTest
  <2> SUFFICES ASSUME TypeOK, JobsMatchMap, Bookkeeping,
                      NEW i \in Submitted, NEW j \in Submitted,
                      i # j, job[i].test = job[j].test, Live(i), Live(j)
               PROVE  FALSE
    BY DEF OneLiveJobPerTest
  <2>1. i \in JobId /\ j \in JobId
    BY MaxJobsAssumption DEF TypeOK, Bookkeeping, Submitted, JobId
  <2>2. i \in jobs \union {submitting} /\ j \in jobs \union {submitting}
    BY <2>1 DEF Bookkeeping
  <2>3. \A k \in jobs : testrun_to_job_map[job[k].test] = k
    BY DEF JobsMatchMap
  <2>4. \A k \in jobs : k \in JobId /\ k # None
    BY DEF TypeOK, JobId, None
  <2>5. submitting # None => testrun_to_job_map[job[submitting].test] = None
    BY DEF Bookkeeping, Mapped
  <2>6. i # None /\ j # None
    BY <2>1 DEF JobId, None
  <2> QED
    BY <2>2, <2>3, <2>4, <2>5, <2>6
<1> QED
  BY <1>1, Inductive, PTL

(* When run() returns, everything it submitted has left the scheduler; when *)
(* it fails, what has not was killed.                                      *)
THEOREM LeavesNothingBehind == Spec => []NothingLeftBehind
<1>1. TypeOK /\ Bookkeeping => NothingLeftBehind
  <2> SUFFICES ASSUME TypeOK, Bookkeeping, NEW j \in Submitted, Live(j)
               PROVE  pc # "done" /\ (pc = "failed" => job[j].killed)
    BY DEF NothingLeftBehind
  <2>1. j \in JobId /\ j # None
    BY MaxJobsAssumption DEF TypeOK, Bookkeeping, Submitted, JobId, None
  <2> QED
    BY <2>1 DEF Bookkeeping
<1> QED
  BY <1>1, Inductive, PTL

-----------------------------------------------------------------------------
(* BaseRunner implements ScenarioExec: the initial states of the runner    *)
(* are initial states of the scenario it executes, and every step of the   *)
(* runner, of the scheduler and of the signal handler is a step or a       *)
(* stutter of that scenario.                                               *)

Sound == TypeOK /\ JobsMatchMap /\ Bookkeeping

(* The map, its inverse, and what they mean for open and live.             *)
LEMMA MapFacts ==
  ASSUME Sound
  PROVE  /\ \A t \in Listed : /\ testrun_to_job_map[t] \in jobs
                              /\ JobOf(t).test = t
         /\ \A j \in jobs : /\ job[j].test \in Listed
                            /\ testrun_to_job_map[job[j].test] = j
         /\ submitting # None => /\ submitting \in Submitted \ jobs
                                 /\ job[submitting].test \in Tests \ Listed
         /\ open \subseteq Tests
<1>1. \A t \in Listed : testrun_to_job_map[t] \in jobs /\ JobOf(t).test = t
  BY DEF Sound, JobsMatchMap, Listed, JobOf
<1>2. \A j \in jobs : \E t \in Listed : testrun_to_job_map[t] = j
  BY DEF Sound, JobsMatchMap, Listed
<1>3. \A j \in jobs : job[j].test \in Listed /\ testrun_to_job_map[job[j].test] = j
  BY <1>1, <1>2 DEF JobOf
<1>4. submitting # None => /\ submitting \in Submitted \ jobs
                           /\ job[submitting].test \in Tests \ Listed
  BY DEF Sound, Bookkeeping, Listed, TypeOK, Job
<1> QED
  BY <1>1, <1>3, <1>4 DEF open, TestsOf, Listed

(* A test run is live by one job only, which is listed or being recorded.  *)
LEMMA LiveFacts ==
  ASSUME Sound, NEW j \in JobId, Live(j)
  PROVE  /\ j \in Submitted /\ job[j].test \in live /\ job[j].test \in open
         /\ j \in jobs \union {submitting}
         /\ \A i \in JobId : Live(i) /\ job[i].test = job[j].test => i = j
<1>1. \A i \in JobId : Live(i) =>
        i \in Submitted /\ i \in jobs \union {submitting} /\ i # None
  BY MapFacts DEF Sound, Bookkeeping, Live, None, JobId, Submitted
<1>2. \A i \in JobId : Live(i) => job[i].test \in live /\ job[i].test \in open
  BY <1>1, MapFacts DEF open, live, TestsOf
<1>3. \A i \in JobId : Live(i) /\ job[i].test = job[j].test => i = j
  BY <1>1, MapFacts
<1> QED
  BY <1>1, <1>2, <1>3

(* Steps that touch neither jobs nor records leave the picture as it is.   *)
LEMMA QuietFacts ==
  ASSUME UNCHANGED <<scenario, jobs, submitting, njobs, job, testrun_to_job_map>>
  PROVE  UNCHANGED <<open, live, begun, stopped, ended, done>>
BY DEF open, live, begun, stopped, ended, done, TestsOf, Listed, JobOf, Mapped,
       Submitted, Live, Final

(* What may start stays startable while more is done and begun.            *)
LEMMA MayStartStays ==
  ASSUME NEW t \in Tests, Exec!MayStart(t), UNCHANGED scenario,
         done \subseteq done', begun \subseteq begun',
         current_iteration'[t] = current_iteration[t]
  PROVE  Exec!MayStart(t)'
BY DEF Exec!MayStart

-----------------------------------------------------------------------------
LEMMA InitRefines == Init => Exec!Init /\ Promised
<1> SUFFICES ASSUME Init PROVE Exec!Init /\ Promised
  OBVIOUS
<1>1. /\ open = {} /\ live = {} /\ begun = {} /\ stopped = {} /\ ended = {}
      /\ done = {} /\ due = {} /\ status = "running"
  BY DEF Init, open, live, begun, stopped, ended, done, due, status, Listed,
         TestsOf, Mapped, Submitted, Active, None, Tests
<1>2. Exec!Init
  BY <1>1 DEF Exec!Init, Init
<1>3. Promised
  BY <1>1 DEF Promised, Init, None
<1> QED
  BY <1>2, <1>3

(* Steps of the thread between the jobs: the run goes on or is over.       *)
LEMMA ControlRefines ==
  ASSUME Sound, Promised,
         UNCHANGED <<scenario, jobs, submitting, njobs, job, testrun_to_job_map,
                     ending, failing, current_iteration>>,
         pc # "run" => pc' # "run",
         \A t \in to_submit' : Exec!MayStart(t),
         ~WaitsForStart => to_submit' \intersect done = {},
         ~WaitsForStart => \A t \in to_submit' :
            Dependency(t, "start_post_comp") \in done \union {None}
  PROVE  Promised' /\ UNCHANGED <<open, live, begun, stopped, ended, done, due>>
<1>1. UNCHANGED <<open, live, begun, stopped, ended, done>>
  BY QuietFacts
<1>2. UNCHANGED due
  BY DEF due, Dependency
<1>3. \A t \in to_submit' : Exec!MayStart(t)'
  BY <1>1 DEF Exec!MayStart
<1>4. WaitsForStart' = WaitsForStart
  BY DEF WaitsForStart, Dependency
<1>5. \A t : Dependency(t, "start_post_comp")' = Dependency(t, "start_post_comp")
  BY DEF Dependency
<1> QED
  BY <1>1, <1>2, <1>3, <1>4, <1>5 DEF Promised

LEMMA RunRefines ==
  ASSUME Sound, Promised, Run
  PROVE  Promised' /\ (Exec!Finish \/ UNCHANGED Exec!vars)
<1>1. done = {} /\ open = {} /\ due = {} /\ ~failing /\ status = "running"
  <2>1. njobs = 0 /\ submitting = None /\ jobs = {} /\ ending = None /\ ~failing
    BY DEF Run, Promised, Sound, Bookkeeping
  <2>2. Listed = {}
    BY <2>1, MapFacts
  <2> QED
    BY <2>1, <2>2 DEF done, open, due, TestsOf, Submitted, None, Tests, status, Active, Run
<1>2. \A t \in find_dependency_free_tests : Exec!MayStart(t)
  BY DEF find_dependency_free_tests, Exec!MayStart, Dependency
<1>3. Promised' /\ UNCHANGED <<open, live, begun, stopped, ended, done, due>>
  <2>1. to_submit = {}
    BY DEF Run, Sound, Bookkeeping
  <2>2. \A t \in to_submit' : t \in find_dependency_free_tests
    BY <2>1 DEF Run
  <2> QED
    BY <1>1, <1>2, <2>2, ControlRefines DEF Run, run, find_dependency_free_tests
<1>4. CASE shutting_down
  BY <1>1, <1>3, <1>4 DEF Run, Exec!Finish, Exec!tests, status, Active, run
<1>5. CASE ~shutting_down
  BY <1>1, <1>3, <1>5 DEF Run, Exec!vars, Exec!tests, status, Active, run
<1> QED
  BY <1>3, <1>4, <1>5

LEMMA WhileRefines ==
  ASSUME Sound, Promised, While
  PROVE  Promised' /\ (Exec!Finish \/ UNCHANGED Exec!vars)
<1>1. Promised' /\ UNCHANGED <<open, live, begun, stopped, ended, done, due>>
  BY ControlRefines DEF While, NoWork, run
<1>2. CASE jobs = {}
  <2>1. Listed = {}
    BY <1>2, MapFacts
  <2>2. open = {} /\ due = {} /\ ~failing
    BY <2>1 DEF While, NoWork, open, due, TestsOf, None, Tests
  <2> QED
    BY <1>1, <1>2, <2>2 DEF While, Exec!Finish, Exec!tests, status, Active, run
<1>3. CASE jobs # {}
  BY <1>1, <1>3 DEF While, Exec!vars, Exec!tests, status, Active, run
<1> QED
  BY <1>1, <1>2, <1>3

(* Dependents of a job that was seen off the queue may start.              *)
LEMMA CheckItemRefines ==
  ASSUME Sound, Promised, CheckItem
  PROVE  Promised' /\ UNCHANGED Exec!vars
<1>1. PICK j \in snapshot : CheckItem!2!(j)
  BY DEF CheckItem
<1>2. j \in jobs /\ j \in JobId /\ j \in Submitted /\ job[j].test \in Tests
  BY DEF Sound, Bookkeeping, TypeOK, Job
<1>3. \A t \in to_submit' : /\ t \in Tests
                            /\ Dependency(t, "start_post_init") = job[j].test
                            /\ job[j].test \in begun
  <2>1. CASE to_submit' = {}
    BY <2>1
  <2>2. CASE to_submit' # {}
    <3>1. job[j].state # "PENDING"
      BY <1>1, <1>2, <2>2
         DEF is_job_running, is_job_completed, Ended, Sound, Bookkeeping, Live
    <3> QED
      BY <1>1, <1>2, <2>2, <3>1 DEF Dependents, begun, TestsOf
  <2> QED
    BY <2>1, <2>2
<1>4. \A t \in to_submit' : Exec!MayStart(t)
  BY <1>3 DEF Exec!MayStart, Dependency
<1>5. ~WaitsForStart => to_submit' = {}
  BY <1>2, <1>3 DEF WaitsForStart, None, Tests
<1>6. Promised' /\ UNCHANGED <<open, live, begun, stopped, ended, done, due>>
  BY <1>4, <1>5, ControlRefines DEF CheckItem, run
<1> QED
  BY <1>6 DEF CheckItem, Exec!vars, Exec!tests, status, run

LEMMA PassRefines ==
  ASSUME Sound, Promised, CheckEnd \/ MonitorSkip \/ MonitorEnd
  PROVE  Promised' /\ UNCHANGED Exec!vars
<1>1. /\ UNCHANGED <<scenario, to_submit, submitting, ending, failing, run, njobs, job>>
      /\ pc \in Active /\ pc' \in Active \ {"run"}
  BY DEF CheckEnd, MonitorSkip, MonitorEnd, Active
<1>2. Promised' /\ UNCHANGED <<open, live, begun, stopped, ended, done, due>>
  BY <1>1, ControlRefines DEF run, Promised
<1> QED
  BY <1>1, <1>2 DEF Exec!vars, Exec!tests, status, run

(* A submission or a status query that fails ends the run where it is.     *)
LEMMA ErrorRefines ==
  ASSUME Sound, Promised, SubmitError \/ StatusError
  PROVE  Promised' /\ Exec!Abort
<1>1. /\ UNCHANGED <<scenario, to_submit, submitting, ending, failing, run, njobs, job>>
      /\ pc \in Active /\ pc' \in {"exited", "crashed"}
  BY DEF SubmitError, StatusError, Active
<1>2. Promised' /\ UNCHANGED <<open, live, begun, stopped, ended, done, due>>
  BY <1>1, ControlRefines DEF run, Promised
<1> QED
  BY <1>1, <1>2 DEF Exec!Abort, Exec!tests, status, run, Active

-----------------------------------------------------------------------------
(* Steps of the scheduler and kills change states and flags of jobs only.  *)
LEMMA PromisedStays ==
  ASSUME Promised, Sound,
         UNCHANGED <<scenario, to_submit, jobs, submitting, current_iteration, njobs>>,
         ending' = None \/ ending' = ending,
         UNCHANGED <<open, done>>, begun \subseteq begun',
         \A j \in jobs \union ({submitting} \ {None}) :
           job'[j].iteration = job[j].iteration /\ job'[j].test = job[j].test,
         submitting # None =>
           /\ job'[submitting].killed = job[submitting].killed
           /\ job'[submitting].terminated_by_dependency
                = job[submitting].terminated_by_dependency,
         pc' = "run" => pc = "run", failing' => failing
  PROVE  Promised'
<1>1. \A t \in to_submit' : Exec!MayStart(t)'
  <2> SUFFICES ASSUME NEW t \in to_submit PROVE Exec!MayStart(t)'
    OBVIOUS
  <2>1. t \in Tests /\ Exec!MayStart(t)
    BY DEF Sound, TypeOK, Promised
  <2> QED
    BY <2>1, MayStartStays
<1>2. /\ WaitsForStart' = WaitsForStart
      /\ \A t : Dependency(t, "start_post_comp")' = Dependency(t, "start_post_comp")
  BY DEF WaitsForStart, Dependency
<1>3. \A j \in jobs' \union ({submitting'} \ {None}) :
        job'[j].iteration = current_iteration'[job'[j].test]
  BY DEF Promised
<1> QED
  BY <1>1, <1>2, <1>3 DEF Promised

LEMMA KillPicture ==
  ASSUME Sound, NEW S \in SUBSET jobs, NEW b \in BOOLEAN, job' = kill(S, b),
         UNCHANGED <<scenario, jobs, submitting, njobs, testrun_to_job_map>>
  PROVE  /\ UNCHANGED <<open, live, begun, done>>
         /\ stopped' = stopped \union TestsOf(S)
         /\ ended' = ended \union (IF b THEN TestsOf(S) ELSE {})
<1>1. \A j \in JobId :
        /\ job'[j].test = job[j].test /\ job'[j].state = job[j].state
        /\ job'[j].iteration = job[j].iteration
        /\ j \notin S => job'[j] = job[j]
        /\ job'[j].killed <=> job[j].killed \/ j \in S
        /\ job'[j].terminated_by_dependency <=>
             job[j].terminated_by_dependency \/ (b /\ j \in S)
  BY ZenonT(60) DEF kill, Sound, TypeOK, Job
<1>2. Submitted \subseteq JobId /\ jobs \subseteq JobId
  BY MaxJobsAssumption DEF Submitted, JobId, Sound, Bookkeeping, TypeOK
<1>3. \A j \in {submitting} \ {None} : job'[j].test = job[j].test
  BY <1>1, <1>2, MapFacts
<1>4. UNCHANGED <<open, live, begun>>
  BY <1>1, <1>2, <1>3
     DEF open, live, begun, TestsOf, Listed, Mapped, Submitted, Live
<1>5. \A j \in Submitted \ (jobs \union {submitting}) : job'[j] = job[j]
  BY <1>1, <1>2
<1>6. done' = done
  BY <1>5 DEF done, TestsOf, Final, Submitted
<1>7. \A t \in Listed : testrun_to_job_map[t] \in S <=> t \in TestsOf(S)
  BY MapFacts, <1>2 DEF TestsOf, JobOf
<1>8. Listed' = Listed /\ \A t \in Listed : testrun_to_job_map[t] \in JobId
  BY MapFacts, <1>2 DEF Listed, Mapped
<1>9. TestsOf(S) \subseteq Listed
  BY MapFacts DEF TestsOf
<1>10. stopped' = stopped \union TestsOf(S)
  BY <1>1, <1>7, <1>8, <1>9 DEF stopped, JobOf
<1>11. ended' = ended \union (IF b THEN TestsOf(S) ELSE {})
  BY <1>1, <1>7, <1>8, <1>9 DEF ended, JobOf
<1> QED
  BY <1>4, <1>6, <1>10, <1>11

LEMMA KillPromised ==
  ASSUME Sound, Promised, NEW S \in SUBSET jobs, NEW b \in BOOLEAN,
         job' = kill(S, b), pc' = "run" => pc = "run", failing' => failing,
         ending' = None \/ ending' = ending,
         UNCHANGED <<scenario, jobs, submitting, njobs, testrun_to_job_map,
                     to_submit, current_iteration>>
  PROVE  Promised'
<1>1. UNCHANGED <<open, done, begun>>
  BY KillPicture
<1>2. \A j \in JobId : /\ job'[j].test = job[j].test
                       /\ job'[j].iteration = job[j].iteration
                       /\ j \notin S => job'[j] = job[j]
  BY DEF kill, Sound, TypeOK, Job
<1>3. jobs \union ({submitting} \ {None}) \subseteq JobId
  BY MapFacts, MaxJobsAssumption DEF Submitted, JobId, Sound, Bookkeeping, TypeOK
<1>4. submitting # None => job'[submitting] = job[submitting]
  BY <1>2, <1>3, MapFacts
<1> QED
  BY <1>1, <1>2, <1>3, <1>4, PromisedStays

(* The end_post_comp dependents of the completed test run are told to end. *)
LEMMA KillDependentsRefines ==
  ASSUME Sound, Promised, KillDependents
  PROVE  Promised' /\ ((\E p \in Tests : Exec!EndDependents(p)) \/ UNCHANGED Exec!vars)
<1> DEFINE K == {t \in Listed : Dependency(t, "end_post_comp") = ending}
           S == {testrun_to_job_map[t] : t \in K}
<1>1. S \in SUBSET jobs /\ TestsOf(S) = K
  BY MapFacts DEF TestsOf, JobOf
<1>2. job' = kill(S, TRUE)
  BY DEF KillDependents, Listed
<1>3. /\ UNCHANGED <<open, live, begun, done>>
      /\ stopped' = stopped \union K /\ ended' = ended \union K
  BY <1>1, <1>2, KillPicture DEF KillDependents, run
<1>4. Promised'
  BY <1>1, <1>2, KillPromised DEF KillDependents, run
<1>5. due' = {} /\ open = Listed /\ status = "running" /\ status' = "running"
  BY DEF KillDependents, due, open, TestsOf, status, Active, None, Tests
<1>6. ending \in Tests
  BY DEF KillDependents, Sound, TypeOK
<1>7. CASE due = {}
  <2>1. K = {}
    BY <1>6, <1>7 DEF due, Listed
  <2> QED
    BY <1>3, <1>4, <1>5, <1>7, <2>1
       DEF KillDependents, Exec!vars, Exec!tests, run
<1>8. CASE due # {}
  <2>1. ending \in due
    BY <1>8 DEF due
  <2>2. K = open \intersect Exec!Dependents(ending, "end_post_comp")
    BY <1>5 DEF Exec!Dependents, Dependency, Listed
  <2>3. Exec!EndDependents(ending)
    BY <1>3, <1>5, <2>1, <2>2 DEF KillDependents, Exec!EndDependents, run
  <2> QED
    BY <1>4, <1>6, <2>3
<1> QED
  BY <1>7, <1>8

LEMMA JobFailureRefines ==
  ASSUME Sound, Promised, JobFailure
  PROVE  Promised' /\ Exec!Fail
<1>1. /\ UNCHANGED <<open, live, begun, done>>
      /\ stopped' = stopped \union TestsOf(jobs) /\ ended' = ended
  BY KillPicture DEF JobFailure
<1>2. Promised'
  BY KillPromised DEF JobFailure
<1>3. TestsOf(jobs) = Listed
  BY MapFacts DEF TestsOf, JobOf
<1>4. open = Listed /\ stopped \subseteq Listed /\ due = {} /\ UNCHANGED due
  BY DEF JobFailure, open, TestsOf, stopped, due, None, Tests, Dependency
<1> QED
  BY <1>1, <1>2, <1>3, <1>4 DEF JobFailure, Exec!Fail, status, Active

(* The handler tells every listed job to end: only the test run that is    *)
(* being recorded is missed.                                               *)
LEMMA CancelOnSignalRefines ==
  ASSUME Sound, Promised, CancelOnSignal
  PROVE  Promised' /\ Exec!Shutdown
<1>1. /\ UNCHANGED <<open, live, begun, done>>
      /\ stopped' = stopped \union TestsOf(jobs) /\ ended' = ended
  BY KillPicture DEF CancelOnSignal, ctl
<1>2. Promised'
  BY KillPromised DEF CancelOnSignal, ctl
<1>3. TestsOf(jobs) = Listed
  BY MapFacts DEF TestsOf, JobOf
<1>4. \E t \in open \union {None} : Listed = open \ {t}
  <2>1. CASE submitting = None
    BY <2>1 DEF open, TestsOf, Listed, None, Tests
  <2>2. CASE submitting # None
    BY <2>2, MapFacts DEF open, TestsOf
  <2> QED
    BY <2>1, <2>2
<1>5. UNCHANGED due /\ status = "running" /\ UNCHANGED status
  BY DEF CancelOnSignal, ctl, due, Dependency, status
<1> QED
  BY <1>1, <1>2, <1>3, <1>4, <1>5 DEF CancelOnSignal, Exec!Shutdown, ctl

-----------------------------------------------------------------------------
(* The scheduler: one job changes its state.                               *)
LEMMA JobPicture ==
  ASSUME Sound, NEW j \in JobId, Live(j),
         UNCHANGED <<scenario, ctl, run, njobs>>,
         \A i \in JobId : /\ job'[i].test = job[i].test
                          /\ job'[i].iteration = job[i].iteration
                          /\ job'[i].killed = job[i].killed
                          /\ job'[i].terminated_by_dependency = job[i].terminated_by_dependency
                          /\ i # j => job'[i].state = job[i].state,
         job'[j].state \in {"RUNNING", "COMPLETED", "CANCELLED"}
  PROVE  /\ UNCHANGED <<open, stopped, ended, done, due, status>>
         /\ begun' = begun \union {job[j].test}
         /\ live' = IF job'[j].state = "RUNNING" THEN live ELSE live \ {job[j].test}
         /\ job[j].test \in live /\ job[j].test \in Tests
         /\ Promised => Promised'
<1>1. Submitted \subseteq JobId /\ jobs \subseteq JobId
  BY MaxJobsAssumption DEF Submitted, JobId, Sound, Bookkeeping, TypeOK
<1>2. open' = open
  BY <1>1, MapFacts DEF open, TestsOf, Listed, Mapped, ctl, run
<1>3. stopped' = stopped /\ ended' = ended
  BY <1>1, MapFacts DEF stopped, ended, Listed, Mapped, JobOf, ctl, run
<1>4. done' = done
  BY <1>1 DEF done, TestsOf, Final, Submitted, ctl, run
<1>5. due' = due /\ status' = status
  BY DEF due, status, Dependency, ctl
<1>6. j \in Submitted /\ job[j].test \in live /\ job[j].test \in open
  BY LiveFacts
<1>7. job[j].test \in Tests
  BY <1>6, MapFacts
<1>8. begun' = begun \union {job[j].test}
  BY <1>1, <1>6 DEF begun, TestsOf, Submitted
<1>9. live' = IF job'[j].state = "RUNNING" THEN live ELSE live \ {job[j].test}
  <2>1. CASE job'[j].state = "RUNNING"
    <3>1. \A i \in Submitted : Live(i)' <=> Live(i)
      BY <1>1, <2>1 DEF Live
    <3>2. live' = live
      BY <1>1, <3>1 DEF live, TestsOf, Submitted
    <3> QED
      BY <2>1, <3>2
  <2>2. CASE job'[j].state # "RUNNING"
    <3>1. \A i \in Submitted : Live(i)' <=> Live(i) /\ i # j
      BY <1>1, <2>2 DEF Live
    <3>2. \A i \in Submitted : Live(i) /\ i # j => job[i].test # job[j].test
      BY <1>1, LiveFacts
    <3>3. live' = live \ {job[j].test}
      BY <1>1, <1>6, <3>1, <3>2 DEF live, TestsOf, Submitted
    <3> QED
      BY <2>2, <3>3
  <2> QED
    BY <2>1, <2>2
<1>10. Promised => Promised'
  <2> SUFFICES ASSUME Promised PROVE Promised'
    OBVIOUS
  <2>1. jobs \union ({submitting} \ {None}) \subseteq JobId
    BY <1>1, MapFacts
  <2> QED
    BY <1>2, <1>4, <1>8, <2>1, PromisedStays DEF ctl, run
<1> QED
  BY <1>2, <1>3, <1>4, <1>5, <1>6, <1>7, <1>8, <1>9, <1>10

LEMMA SchedulerRefines ==
  ASSUME Sound, Promised, NEW j \in JobId,
         JobStarts(j) \/ JobEnds(j) \/ JobCancelled(j)
  PROVE  Promised' /\ \E t \in Tests : Exec!Begin(t) \/ Exec!End(t)
<1>1. /\ Live(j) /\ UNCHANGED <<scenario, ctl, run, njobs>>
      /\ \A i \in JobId : /\ job'[i].test = job[i].test
                          /\ job'[i].iteration = job[i].iteration
                          /\ job'[i].killed = job[i].killed
                          /\ job'[i].terminated_by_dependency = job[i].terminated_by_dependency
                          /\ i # j => job'[i].state = job[i].state
      /\ job'[j].state \in {"RUNNING", "COMPLETED", "CANCELLED"}
      /\ JobStarts(j) <=> job'[j].state = "RUNNING"
  BY DEF JobStarts, JobEnds, JobCancelled, Live, Sound, TypeOK, Job
<1> DEFINE t == job[j].test
<1>2. /\ UNCHANGED <<open, stopped, ended, done, due, status>>
      /\ begun' = begun \union {t}
      /\ live' = IF job'[j].state = "RUNNING" THEN live ELSE live \ {t}
      /\ t \in live /\ t \in Tests /\ Promised'
  BY <1>1, JobPicture
<1>3. CASE JobStarts(j)
  <2>1. Exec!Begin(t)
    BY <1>1, <1>2, <1>3 DEF Exec!Begin, ctl, run
  <2> QED
    BY <1>2, <2>1
<1>4. CASE JobEnds(j) \/ JobCancelled(j)
  <2>1. t \in begun \union stopped
    <3>1. j \in Submitted /\ j \in jobs \union {submitting}
      BY <1>1, LiveFacts
    <3>2. CASE JobEnds(j)
      BY <3>1, <3>2 DEF JobEnds, begun, TestsOf
    <3>3. CASE JobCancelled(j)
      <4>1. job[j].killed /\ j \in jobs
        BY <3>1, <3>3 DEF JobCancelled, Promised, None, JobId
      <4> QED
        BY <4>1, MapFacts DEF stopped, JobOf
    <3> QED
      BY <1>4, <3>2, <3>3
  <2>2. job'[j].state # "RUNNING"
    BY <1>4 DEF JobEnds, JobCancelled, Sound, TypeOK, Job
  <2>3. Exec!End(t)
    BY <1>1, <1>2, <2>1, <2>2 DEF Exec!End, ctl, run
  <2> QED
    BY <1>2, <2>3
<1> QED
  BY <1>3, <1>4

-----------------------------------------------------------------------------
(* A job is submitted: its test run is open, but not yet listed.           *)
LEMMA SubmitTestRefines ==
  ASSUME Sound, Promised, SubmitTest
  PROVE  Promised' /\ \E t \in Tests : Exec!Start(t)
<1>1. PICK t \in to_submit :
        /\ to_submit' = to_submit \ {t}
        /\ njobs' = njobs + 1 /\ submitting' = njobs + 1
        /\ job' = [job EXCEPT ![njobs + 1] =
                     [test |-> t, iteration |-> current_iteration[t],
                      state |-> IF scenario.mode = "run" THEN "PENDING" ELSE "DRY",
                      killed |-> FALSE, ok |-> FALSE,
                      terminated_by_dependency |-> FALSE]]
  BY DEF SubmitTest
<1>0. PICK j \in Nat : j = njobs + 1
  BY DEF Sound, TypeOK
<1>2. /\ j \in JobId /\ submitting' = j /\ njobs' = j /\ Submitted' = Submitted \union {j} /\ j \notin Submitted
      /\ Submitted \subseteq JobId /\ jobs \subseteq Submitted /\ j # None
      /\ \A i \in JobId : i # j => job'[i] = job[i]
      /\ submitting = None /\ status = "running" /\ status' = "running"
  BY <1>0, <1>1, MaxJobsAssumption
     DEF SubmitTest, Submitted, JobId, None, Sound, Bookkeeping, TypeOK, status
<1>3. /\ job'[j].test = t /\ job'[j].iteration = current_iteration[t]
      /\ ~job'[j].killed /\ ~job'[j].terminated_by_dependency
      /\ job'[j].state = IF scenario.mode = "run" THEN "PENDING" ELSE "DRY"
  BY <1>0, <1>1, <1>2 DEF Sound, TypeOK
<1>4. t \in Tests /\ t \notin open /\ open = Listed
  BY <1>2 DEF Sound, TypeOK, Bookkeeping, open, TestsOf, Listed
<1>5. open' = open \union {t}
  BY <1>1, <1>2, <1>3, <1>4 DEF SubmitTest, run, open, TestsOf, Listed, Mapped
<1>6. stopped' = stopped /\ ended' = ended
  BY <1>2, MapFacts DEF SubmitTest, run, stopped, ended, JobOf, Listed, Mapped
<1>7. done' = done
  <2>1. Submitted' \ (jobs' \union {submitting'}) = Submitted \ (jobs \union {submitting})
    BY <1>1, <1>2 DEF SubmitTest, run, None, Submitted
  <2>2. \A i \in Submitted : Final(i)' = Final(i) /\ job'[i].test = job[i].test
    BY <1>2 DEF Final, SubmitTest
  <2> QED
    BY <2>1, <2>2 DEF done, TestsOf
<1>8. \A i \in Submitted : /\ Live(i)' = Live(i)
                           /\ job'[i].test = job[i].test
                           /\ job'[i].state = job[i].state
  BY <1>2 DEF Live
<1>9. scenario.mode \in {"run", "dry-run"}
  BY DEF Sound, TypeOK, Scenario
<1>10. /\ scenario.mode = "run" => live' = live \union {t} /\ begun' = begun
       /\ scenario.mode = "dry-run" => begun' = begun \union {t} /\ live' = live
  <2>1. CASE scenario.mode = "run"
    <3>1. Live(j)' /\ job'[j].state = "PENDING"
      BY <1>3, <2>1 DEF Live
    <3>2. live' = live \union {t}
      BY <1>2, <1>3, <1>8, <3>1 DEF live, TestsOf
    <3>3. begun' = begun
      BY <1>2, <1>3, <1>8, <3>1 DEF begun, TestsOf
    <3> QED
      BY <2>1, <3>2, <3>3
  <2>2. CASE scenario.mode = "dry-run"
    <3>1. ~Live(j)' /\ job'[j].state # "PENDING"
      BY <1>3, <2>2 DEF Live
    <3> QED
      BY <1>2, <1>3, <1>8, <2>2, <3>1 DEF live, begun, TestsOf
  <2> QED
    BY <1>9, <2>1, <2>2
<1>11. UNCHANGED due
  BY DEF SubmitTest, due, Dependency
<1>12. Exec!MayStart(t)
  BY DEF Promised
<1>13. t \in done => \E u \in Tests : scenario.dependencies[u]["start_post_init"] # None
  BY <1>4 DEF Promised, WaitsForStart, Dependency
<1>14. Exec!Start(t)
  BY <1>2, <1>4, <1>5, <1>6, <1>7, <1>9, <1>10, <1>11, <1>12, <1>13
     DEF Exec!Start, SubmitTest, run
<1>15. Promised'
  <2>1. \A u \in to_submit' : Exec!MayStart(u)'
    <3> SUFFICES ASSUME NEW u \in to_submit PROVE Exec!MayStart(u)'
      BY <1>1
    <3>1. u \in Tests /\ Exec!MayStart(u)
      BY DEF Sound, TypeOK, Promised
    <3> QED
      BY <1>7, <1>9, <1>10, <3>1, MayStartStays DEF SubmitTest, run
  <2>2. /\ WaitsForStart' = WaitsForStart
        /\ \A u : Dependency(u, "start_post_comp")' = Dependency(u, "start_post_comp")
    BY DEF WaitsForStart, Dependency, SubmitTest
  <2>3. \A i \in jobs' \union ({submitting'} \ {None}) :
          job'[i].iteration = current_iteration'[job'[i].test]
    <3>1. \A i \in jobs : job'[i] = job[i]
      BY <1>2
    <3> QED
      BY <1>1, <1>2, <1>3, <3>1 DEF Promised, SubmitTest, run
  <2>4. ~WaitsForStart => (to_submit' \union open') \intersect done' = {}
    BY <1>1, <1>5, <1>7 DEF Promised
  <2>5. ~WaitsForStart => \A u \in to_submit' \union open' \union done' :
           Dependency(u, "start_post_comp") \in done' \union {None}
    BY <1>1, <1>5, <1>7 DEF Promised
  <2>6. pc' # "run"
    BY DEF SubmitTest, Sound, Bookkeeping
  <2>7. scenario' \in Scenarios
    BY DEF Promised, SubmitTest
  <2> QED
    BY <1>1, <1>2, <1>3, <2>1, <2>2, <2>3, <2>4, <2>5, <2>6, <2>7 DEF Promised
<1> QED
  BY <1>4, <1>14, <1>15

(* The job is recorded: nothing changes for the scenario.                  *)
LEMMA RecordJobRefines ==
  ASSUME Sound, Promised, RecordJob
  PROVE  Promised' /\ UNCHANGED Exec!vars
<1>0. PICK t, j : t = job[submitting].test /\ j = submitting
  OBVIOUS
<1>1. /\ submitting \in Submitted \ jobs /\ t \in Tests \ Listed
      /\ submitting # None /\ submitting' = None
      /\ testrun_to_job_map' = [testrun_to_job_map EXCEPT ![t] = submitting]
      /\ jobs' = jobs \union {submitting}
      /\ UNCHANGED <<scenario, pc, to_submit, ending, failing, current_iteration, njobs, job>>
  BY <1>0, MapFacts DEF RecordJob
<1>2. Listed' = Listed \union {t}
  BY <1>0, <1>1 DEF Listed, Mapped, Sound, TypeOK
<1>3. open' = open
  BY <1>0, <1>1, <1>2 DEF open, TestsOf
<1>4. JobOf(t)' = job[j] /\ \A u \in Listed : JobOf(u)' = JobOf(u)
  BY <1>0, <1>1 DEF JobOf, Sound, TypeOK, Listed
<1>5. stopped' = stopped /\ ended' = ended
  BY <1>0, <1>1, <1>2, <1>4 DEF stopped, ended, Promised
<1>6. live' = live /\ begun' = begun /\ UNCHANGED due /\ UNCHANGED status
  BY <1>1 DEF live, begun, TestsOf, Submitted, Live, due, Dependency, status
<1>7. done' = done
  <2>1. Submitted' \ (jobs' \union {submitting'}) = Submitted \ (jobs \union {submitting})
    BY <1>1 DEF None, Submitted
  <2> QED
    BY <1>1, <2>1 DEF done, TestsOf, Final
<1>8. \A u \in Tests : Exec!MayStart(u)' <=> Exec!MayStart(u)
  BY <1>1, <1>6, <1>7 DEF Exec!MayStart
<1>9. Promised'
  <2>1. \A u \in to_submit' : Exec!MayStart(u)'
    BY <1>1, <1>8 DEF Promised, Sound, TypeOK
  <2>2. /\ WaitsForStart' = WaitsForStart
        /\ \A u : Dependency(u, "start_post_comp")' = Dependency(u, "start_post_comp")
    BY <1>1 DEF WaitsForStart, Dependency
  <2>3. \A i \in jobs' \union ({submitting'} \ {None}) :
          job'[i].iteration = current_iteration'[job'[i].test]
    BY <1>1 DEF Promised
  <2> QED
    BY <1>1, <1>3, <1>7, <2>1, <2>2, <2>3 DEF Promised
<1> QED
  BY <1>1, <1>3, <1>5, <1>6, <1>7, <1>9 DEF Exec!vars, Exec!tests

-----------------------------------------------------------------------------
(* A completed job is noticed: its test run has another iteration or is    *)
(* done.                                                                   *)
LEMMA MonitorCompletedRefines ==
  ASSUME Sound, Promised, MonitorCompleted
  PROVE  Promised' /\ \E t \in Tests : Exec!Complete(t)
<1>1. PICK j \in snapshot : MonitorCompleted!2!(j)
  BY DEF MonitorCompleted
<1>2. PICK t \in Tests : t = job[j].test
  BY DEF Sound, Bookkeeping, TypeOK, Job
<1> DEFINE map == [testrun_to_job_map EXCEPT ![t] = None]
           again == ~job[j].terminated_by_dependency /\ has_more_iterations(t)
<1>3. /\ j \in jobs /\ j \in JobId /\ j \in Submitted /\ t \in Listed
      /\ testrun_to_job_map[t] = j /\ job[j].iteration = current_iteration[t]
      /\ submitting = None /\ to_submit = {} /\ ending = None /\ ~failing
      /\ status = "running" /\ status' = "running" /\ pc' # "run"
  BY <1>2, MapFacts DEF MonitorCompleted, NoWork, Sound, Bookkeeping, TypeOK,
       Promised, status, Active
<1>4. /\ jobs' = jobs \ {j} /\ testrun_to_job_map' = map
      /\ UNCHANGED <<scenario, pc, submitting, njobs, job>>
  BY <1>1, <1>2 DEF MonitorCompleted
<1>5. Listed' = Listed \ {t} /\ open = Listed /\ open' = open \ {t}
  <2>1. Listed' = Listed \ {t}
    BY <1>4 DEF Listed, Mapped, Sound, TypeOK
  <2> QED
    BY <1>3, <1>4, <2>1 DEF open, TestsOf
<1>6. stopped' = stopped \ {t} /\ ended' = ended \ {t}
  <2>1. \A u \in Listed' : JobOf(u)' = JobOf(u)
    BY <1>4, <1>5 DEF JobOf, Sound, TypeOK, Listed
  <2> QED
    BY <1>5, <2>1 DEF stopped, ended
<1>7. UNCHANGED <<live, begun>>
  BY <1>4 DEF live, begun, TestsOf, Submitted, Live
<1>8. t \notin live
  <2>1. ~Live(j)
    BY <1>1, <1>3 DEF is_job_completed, Ended, Live, Sound, Bookkeeping
  <2>2. \A i \in Submitted : Live(i) => i \in JobId /\ i \in jobs
    BY <1>3, MaxJobsAssumption DEF Sound, Bookkeeping, Submitted, JobId, None, TypeOK
  <2> QED
    BY <1>2, <1>3, <2>1, <2>2, MapFacts DEF live, TestsOf
<1>9. done' = IF Final(j) THEN done \union {t} ELSE done
  <2>1. \A i \in JobId : Final(i)' = Final(i)
    BY <1>4 DEF Final
  <2>2. Submitted' \ (jobs' \union {submitting'})
          = (Submitted \ (jobs \union {submitting})) \union {j}
    BY <1>3, <1>4 DEF Submitted, None, Sound, Bookkeeping
  <2>3. Submitted \subseteq JobId
    BY MaxJobsAssumption DEF Submitted, JobId, Sound, Bookkeeping, TypeOK
  <2> QED
    BY <1>2, <1>3, <1>4, <2>1, <2>2, <2>3 DEF done, TestsOf
<1>10. Final(j) <=> ~again
  BY <1>2, <1>3 DEF Final, has_more_iterations, Sound, TypeOK, Scenario
<1>11. /\ t \in ended <=> job[j].terminated_by_dependency
       /\ again <=> t \notin ended /\ current_iteration[t] + 1 < scenario.iterations[t]
       /\ ~again <=> t \in ended \/ current_iteration[t] + 1 >= scenario.iterations[t]
  BY <1>3 DEF ended, JobOf, has_more_iterations, Sound, TypeOK, Scenario
<1>12. failing' \in {FALSE, scenario.job_status_check /\ scenario.mode = "run"}
  <2>1. failing' <=> scenario.mode = "run" /\ scenario.job_status_check /\ ~job[j].ok
    BY <1>1
  <2>2. failing' \in BOOLEAN
    BY <1>1
  <2> QED
    BY <2>1, <2>2
<1>13. due = {}
  BY <1>3 DEF due, None, Tests
<1>14. /\ WaitsForStart' = WaitsForStart
       /\ \A u, d : Dependency(u, d)' = Dependency(u, d)
  BY <1>4 DEF WaitsForStart, Dependency
<1>15. \A i \in jobs' : i \in jobs /\ job[i].test # t
  BY <1>2, <1>3, <1>4, MapFacts
<1>16. ASSUME \A u \in Tests \ {t} : current_iteration'[u] = current_iteration[u],
              \A u \in to_submit' : Exec!MayStart(u)',
              ~WaitsForStart => to_submit' \intersect done' = {},
              ~WaitsForStart => \A u \in to_submit' :
                 Dependency(u, "start_post_comp") \in done' \union {None}
       PROVE  Promised'
  <2>1. \A i \in jobs' \union ({submitting'} \ {None}) :
          job'[i].iteration = current_iteration'[job'[i].test]
    <3>1. \A i \in jobs : job[i].test \in Tests
      BY MapFacts DEF Listed
    <3> QED
      BY <1>3, <1>4, <1>15, <1>16, <3>1 DEF Promised
  <2>2. ~WaitsForStart =>
          /\ open' \intersect done' = {}
          /\ \A u \in open' \union done' :
               Dependency(u, "start_post_comp") \in done' \union {None}
    BY <1>3, <1>5, <1>9 DEF Promised
  <2> QED
    BY <1>3, <1>4, <1>14, <1>16, <2>1, <2>2 DEF Promised
<1>17. CASE scenario.dse
  <2>1. UNCHANGED <<current_iteration, to_submit, ending>>
    BY <1>1, <1>17
  <2>2. due' = {}
    BY <1>3, <2>1 DEF due, None, Tests
  <2>3. Exec!Complete(t)
    BY <1>3, <1>4, <1>5, <1>6, <1>7, <1>8, <1>9, <1>10, <1>11, <1>12, <1>13, <1>17,
       <2>1, <2>2 DEF Exec!Complete
  <2> QED
    BY <1>3, <1>16, <2>1, <2>3
<1>18. CASE ~scenario.dse /\ again
  <2>1. /\ current_iteration' = [current_iteration EXCEPT ![t] = @ + 1]
        /\ to_submit' = {t} /\ ending' = ending
    BY <1>1, <1>2, <1>18
  <2>2. due' = {}
    BY <1>3, <2>1 DEF due, None, Tests
  <2>3. Exec!Complete(t)
    BY <1>3, <1>4, <1>5, <1>6, <1>7, <1>8, <1>9, <1>10, <1>11, <1>12, <1>13, <1>18,
       <2>1, <2>2 DEF Exec!Complete
  <2>4. Exec!MayStart(t)'
    BY <2>1 DEF Exec!MayStart, Sound, TypeOK
  <2> QED
    BY <1>3, <1>5, <1>9, <1>10, <1>16, <1>18, <2>1, <2>3, <2>4 DEF Promised, Sound, TypeOK
<1>19. CASE ~scenario.dse /\ ~again
  <2>1. /\ current_iteration' = current_iteration /\ ending' = t
        /\ to_submit' = Dependents(t, "start_post_comp", map)
    BY <1>1, <1>2, <1>19
  <2>2. due' = IF Exec!Dependents(t, "end_post_comp") # {} THEN {t} ELSE {}
    BY <1>4, <2>1 DEF due, Exec!Dependents, Dependency
  <2>3. Exec!Complete(t)
    BY <1>3, <1>4, <1>5, <1>6, <1>7, <1>8, <1>9, <1>10, <1>11, <1>12, <1>13, <1>19,
       <2>1, <2>2 DEF Exec!Complete
  <2>4. \A u \in to_submit' : /\ u \in Tests \ {t} /\ t \in done'
                             /\ Dependency(u, "start_post_comp") = t
    BY <1>9, <1>10, <1>19, <2>1, ScenariosAssumption
       DEF Dependents, Dependency, Promised, check_no_self_dependency, DepType
  <2>5. \A u \in to_submit' : Exec!MayStart(u)'
    BY <1>4, <2>4 DEF Exec!MayStart, Dependency
  <2>6. ~WaitsForStart => to_submit' \intersect done' = {}
    BY <1>3, <1>5, <1>9, <2>4 DEF Promised, None, Tests
  <2> QED
    BY <1>16, <2>1, <2>3, <2>4, <2>5, <2>6
<1> QED
  BY <1>17, <1>18, <1>19

-----------------------------------------------------------------------------
LEMMA StepRefines ==
  ASSUME Sound, Promised, [Next]_vars
  PROVE  Promised' /\ [Exec!Next]_Exec!vars
<1> SUFFICES Promised' /\ (Exec!Next \/ UNCHANGED Exec!vars)
  OBVIOUS
<1>1. CASE Run \/ While
  BY <1>1, RunRefines, WhileRefines DEF Exec!Next
<1>2. CASE CheckItem \/ CheckEnd \/ MonitorSkip \/ MonitorEnd
  BY <1>2, CheckItemRefines, PassRefines
<1>3. CASE MonitorCompleted
  BY <1>3, MonitorCompletedRefines DEF Exec!Next
<1>4. CASE SubmitTest
  BY <1>4, SubmitTestRefines DEF Exec!Next
<1>5. CASE RecordJob
  BY <1>5, RecordJobRefines
<1>6. CASE SubmitError \/ StatusError
  BY <1>6, ErrorRefines DEF Exec!Next
<1>7. CASE KillDependents
  BY <1>7, KillDependentsRefines DEF Exec!Next
<1>8. CASE JobFailure
  BY <1>8, JobFailureRefines DEF Exec!Next
<1>9. CASE CancelOnSignal
  BY <1>9, CancelOnSignalRefines DEF Exec!Next
<1>10. CASE Scheduler
  BY <1>10, SchedulerRefines DEF Scheduler, Exec!Next
<1>11. CASE UNCHANGED vars
  <2>1. UNCHANGED <<open, live, begun, stopped, ended, done>>
    BY <1>11, QuietFacts DEF vars, run, ctl
  <2>2. UNCHANGED due /\ UNCHANGED status
    BY <1>11 DEF vars, ctl, due, Dependency, status
  <2>3. Promised'
    BY <1>11, <2>1, PromisedStays DEF vars, ctl, run
  <2> QED
    BY <1>11, <2>1, <2>2, <2>3 DEF vars, ctl, run, Exec!vars, Exec!tests
<1> QED
  BY <1>1, <1>2, <1>3, <1>4, <1>5, <1>6, <1>7, <1>8, <1>9, <1>10, <1>11 DEF Next, Runner

LEMMA SoundAndPromised == Spec => [](Sound /\ Promised)
<1>1. Spec => []Sound
  BY Inductive DEF Sound
<1>2. Sound /\ Promised /\ [Next]_vars => Promised'
  BY StepRefines
<1> QED
  BY <1>1, <1>2, InitRefines, PTL DEF Spec

(* The runner keeps the promises of ScenarioExec, for every number of test *)
(* runs, every set of scenarios and every choice of faults.                *)
THEOREM Refinement == Spec => ImplementsScenarioExec
<1>1. Sound /\ Promised /\ [Next]_vars => [Exec!Next]_Exec!vars
  BY StepRefines
<1> QED
  BY <1>1, SoundAndPromised, InitRefines, PTL DEF Spec, ImplementsScenarioExec, Exec!Spec

-----------------------------------------------------------------------------
(* What a user relies on holds of every run that ScenarioExec allows, and  *)
(* so of every run of the runner.                                          *)
Promise == Exec!NothingRunsOn /\ Exec!PriorsDone /\ Exec!EndedWithCause

LEMMA ExecStepsKeepPromise ==
  ASSUME Sound, Promise, [Exec!Next]_Exec!vars
  PROVE  Promise'
<1> USE DEF Promise, Exec!NothingRunsOn, Exec!PriorsDone, Exec!EndedWithCause
<1>1. None \notin Tests /\ begun \subseteq Tests
  <2>1. \A j \in Submitted : job[j].test \in Tests
    BY MaxJobsAssumption DEF Submitted, JobId, Sound, Bookkeeping, TypeOK, Job
  <2> QED
    BY <2>1 DEF None, Tests, begun, TestsOf
<1>2. current_iteration \in [Tests -> Nat]
  BY DEF Sound, TypeOK
<1>3. ASSUME NEW t \in Tests, Exec!Start(t) PROVE Promise'
  <2>1. Exec!NothingRunsOn' /\ Exec!EndedWithCause'
    BY <1>3 DEF Exec!Start
  <2>2. Exec!PriorsDone'
    BY <1>1, <1>3 DEF Exec!Start, Exec!MayStart
  <2> QED
    BY <2>1, <2>2
<1>4. ASSUME NEW t \in Tests, Exec!Begin(t) \/ Exec!End(t) PROVE Promise'
  BY <1>4 DEF Exec!Begin, Exec!End
<1>5. ASSUME NEW t \in Tests, Exec!Complete(t) PROVE Promise'
  <2>1. Exec!NothingRunsOn'
    BY <1>5 DEF Exec!Complete
  <2>2. Exec!PriorsDone'
    BY <1>2, <1>5 DEF Exec!Complete
  <2>3. Exec!EndedWithCause'
    BY <1>5 DEF Exec!Complete
  <2> QED
    BY <2>1, <2>2, <2>3
<1>6. ASSUME NEW t \in Tests, Exec!EndDependents(t) PROVE Promise'
  BY <1>6 DEF Exec!EndDependents, Exec!Dependents
<1>7. ASSUME Exec!Shutdown PROVE Promise'
  BY <1>7 DEF Exec!Shutdown
<1>8. ASSUME Exec!Finish \/ Exec!Abort PROVE Promise'
  BY <1>8 DEF Exec!Finish, Exec!Abort, Exec!tests
<1>9. ASSUME Exec!Fail PROVE Promise'
  BY <1>9 DEF Exec!Fail
<1>10. ASSUME UNCHANGED Exec!vars PROVE Promise'
  BY <1>10 DEF Exec!vars, Exec!tests
<1> QED
  BY <1>3, <1>4, <1>5, <1>6, <1>7, <1>8, <1>9, <1>10 DEF Exec!Next

(* What BaseRunner.run promises, seen through the refinement mapping: the  *)
(* cluster has nothing left when it is done, no test run starts before the *)
(* one whose completion it waits for, and none loses iterations unless     *)
(* end_post_comp ended it.                                                 *)
THEOREM RunnerKeepsPromise == Spec => []Promise
<1>1. Init => Promise
  BY InitRefines DEF Exec!Init, Promise, Exec!NothingRunsOn, Exec!PriorsDone,
                     Exec!EndedWithCause, Tests
<1>2. Sound /\ Promised /\ Promise /\ [Next]_vars => Promise'
  BY StepRefines, ExecStepsKeepPromise
<1>3. Spec => [](Sound /\ Promised)
  BY SoundAndPromised
<1> QED
  BY <1>1, <1>2, <1>3, PTL DEF Spec
=============================================================================
