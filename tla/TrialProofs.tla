---------------------------- MODULE TrialProofs -----------------------------
(***************************************************************************)
(* Proofs about the trials of design space exploration and what comes of   *)
(* each. DseGym, for every number of test runs, every grid and every set   *)
(* of faults: no parameter set of a test run is run twice, and what is     *)
(* recorded of a step is final. Workloads, for every set of                *)
(* configurations and faults: nothing of a test run is left over when its  *)
(* results are read, its verdict is that of a run that came to its end,    *)
(* and a successful run has the results that the exploration computes its  *)
(* reward of.                                                              *)
(***************************************************************************)
EXTENDS DseGym, Workloads, TLAPS, FiniteSetTheorems, WellFoundedInduction

-----------------------------------------------------------------------------
(* DseGym.                                                                 *)

(* The type invariant, with the trajectories as sequences and the bounds   *)
(* that keep the step inside the grid.                                     *)
Types ==
  /\ grid \in Grids
  /\ pc \in Active \union Over
  /\ tr \in Nat /\ index \in Nat
  /\ pc \in Active => tr \in TestRuns /\ index \in 0 .. Len(grid[tr])
  /\ pc \in {"step", "run", "poll", "observe"} => index # 0
  /\ trajectory \in [TestRuns -> Seq(TrajectoryEntry)]
  /\ job \in [JobName -> Job]

(* The strengthening of EachParameterSetOnce. The job of a step that was   *)
(* observed has its parameters in the trajectory; the only other job is    *)
(* that of the current step; and a step about to run has new parameters.   *)
Tried(t, a) == \E i \in DOMAIN trajectory[t] : trajectory[t][i].action = a

Observed ==
  /\ \A j \in Submitted :
       /\ j[2] \in 1 .. Len(grid[j[1]])
       /\ ActionOf(j) \in Feasible
       /\ \/ Tried(j[1], ActionOf(j))
          \/ pc \in {"poll", "observe"} /\ j = Current
  /\ pc \in {"run", "poll", "observe"} =>
       action \in Feasible /\ ~Tried(tr, action)

(* A grid is a sequence of parameter sets within the bound.                *)
LEMMA GridFacts ==
  ASSUME grid \in Grids, NEW t \in TestRuns
  PROVE  /\ Len(grid[t]) \in 0 .. MaxSteps
         /\ \A s \in 1 .. Len(grid[t]) : s \in Steps /\ grid[t][s] \in Actions
  BY GridsAssumption, MaxStepsAssumption DEF IsGrid, Steps

(* The initial states have the types above, and nothing was submitted.     *)
LEMMA InitTypes == Init => Types /\ Observed
  <1> SUFFICES ASSUME Init PROVE Types /\ Observed
    OBVIOUS
  <1>1. tr \in TestRuns /\ index \in 0 .. Len(grid[tr])
    BY NumTestsAssumption, GridFacts DEF Init, TestRuns
  <1>2. job \in [JobName -> Job]
    BY DEF Init, Job, Output
  <1>3. Types
    BY <1>1, <1>2 DEF Init, Types, Active, Over
  <1>4. Observed
    BY DEF Init, Observed, Submitted
  <1> QED
    BY <1>3, <1>4

(* Every step keeps the types.                                             *)
LEMMA NextTypes == Types /\ [Next]_vars => Types'
  <1> SUFFICES ASSUME Types, [Next]_vars PROVE Types'
    OBVIOUS
  <1> USE DEF Types
  <1>0. tr \in TestRuns => Len(grid[tr]) \in Nat /\ Len(grid[tr]) <= MaxSteps
    BY GridFacts, MaxStepsAssumption
  <1>1. CASE select_action
    BY <1>0, <1>1 DEF select_action, Active, Over
  <1>2. CASE NextTestRun
    <2>1. CASE tr < NumTests
      <3>1. tr + 1 \in TestRuns
        BY <2>1, <1>2, NumTestsAssumption DEF TestRuns, NextTestRun
      <3>2. 0 \in 0 .. Len(grid[tr + 1])
        BY <3>1, GridFacts
      <3> QED
        BY <2>1, <3>1, <3>2, <1>2 DEF NextTestRun, Active, Over
    <2>2. CASE ~(tr < NumTests)
      BY <2>2, <1>2 DEF NextTestRun, Active, Over
    <2> QED
      BY <2>1, <2>2
  <1>3. CASE StepSkipped \/ StepRun \/ RunReturns \/ RunCompletes \/ StatusError
    BY <1>3 DEF StepSkipped, StepRun, RunReturns, RunCompletes, StatusError, Active, Over
  <1>4. CASE SubmitError
    BY <1>4 DEF SubmitError, Active, Over
  <1>5. CASE RunSubmits
    <2>1. job' \in [JobName -> Job]
      BY <1>5 DEF RunSubmits, Job
    <2> QED
      BY <1>5, <2>1 DEF RunSubmits, Active, Over
  <1>6. CASE Observe
    <2>1. /\ tr \in TestRuns /\ index \in 1 .. Len(grid[tr])
          /\ index \in Steps /\ action \in Actions
      BY <1>0, <1>6, GridFacts DEF Observe, Active, action
    <2>2. job[Current].output \in Output
      BY <2>1 DEF Current, JobName, Job
    <2>3. [step |-> index, action |-> action, observation |-> job[Current].output]
            \in TrajectoryEntry
      BY <2>1, <2>2 DEF TrajectoryEntry
    <2>4. trajectory' \in [TestRuns -> Seq(TrajectoryEntry)]
      BY <2>1, <2>3, <1>6 DEF Observe
    <2> QED
      BY <1>6, <2>4 DEF Observe, Active, Over
  <1>7. CASE CancelOnSignal
    <2>1. job' \in [JobName -> Job]
      BY <1>7 DEF CancelOnSignal, Job
    <2> QED
      BY <1>7, <2>1 DEF CancelOnSignal
  <1>8. ASSUME NEW j \in JobName, JobStarts(j) \/ JobEnds(j) \/ JobCancelled(j)
        PROVE  Types'
    <2>1. job' \in [JobName -> Job]
      <3>1. ASSUME JobStarts(j) PROVE job' \in [JobName -> Job]
        BY <3>1, ZenonT(60) DEF JobStarts, Job, Output
      <3>2. ASSUME JobEnds(j) PROVE job' \in [JobName -> Job]
        <4>1. PICK ok \in BOOLEAN :
                job' = [job EXCEPT ![j].state = "ENDED", ![j].ok = ok,
                          ![j].output = IF ok THEN "metric" ELSE "metric_failure"]
          BY <3>2 DEF JobEnds
        <4> DEFINE o == IF ok THEN "metric" ELSE "metric_failure"
        <4>2. o \in Output
          BY DEF Output
        <4> HIDE DEF o
        <4>3. job' = [job EXCEPT ![j].state = "ENDED", ![j].ok = ok, ![j].output = o]
          BY <4>1 DEF o
        <4> QED
          BY <4>2, <4>3, ZenonT(60) DEF Job
      <3>3. ASSUME JobCancelled(j) PROVE job' \in [JobName -> Job]
        BY <3>3 DEF JobCancelled, Job
      <3> QED
        BY <1>8, <3>1, <3>2, <3>3
    <2> QED
      BY <1>8, <2>1 DEF JobStarts, JobEnds, JobCancelled
  <1>9. CASE UNCHANGED vars
    BY <1>9 DEF vars
  <1> QED
    BY <1>1, <1>2, <1>3, <1>4, <1>5, <1>6, <1>7, <1>8, <1>9
       DEF Next, Handler, Scheduler

(* Steps that leave the step, the trajectories and the set of submitted    *)
(* jobs alone keep Observed, unless they move the handler.                 *)
LEMMA QuietStep ==
  ASSUME Observed, UNCHANGED <<grid, tr, index, trajectory, pc>>, Submitted' = Submitted
  PROVE  Observed'
  BY DEF Observed, Tried, ActionOf, Current, action

(* The scheduler and the signal handler submit nothing.                    *)
LEMMA SameJobs ==
  ASSUME Types, NEW j \in JobName,
         JobStarts(j) \/ JobEnds(j) \/ JobCancelled(j) \/ CancelOnSignal
  PROVE  Submitted' = Submitted
  <1> USE DEF Types, Submitted
  <1>1. CASE JobStarts(j)
    BY <1>1 DEF JobStarts, Job
  <1>2. CASE JobEnds(j)
    <2>1. PICK ok \in BOOLEAN :
            job' = [job EXCEPT ![j].state = "ENDED", ![j].ok = ok,
                      ![j].output = IF ok THEN "metric" ELSE "metric_failure"]
      BY <1>2 DEF JobEnds
    <2> DEFINE o == IF ok THEN "metric" ELSE "metric_failure"
    <2> HIDE DEF o
    <2>2. job' = [job EXCEPT ![j].state = "ENDED", ![j].ok = ok, ![j].output = o]
      BY <2>1 DEF o
    <2>3. job[j].state = "RUNNING"
      BY <1>2 DEF JobEnds
    <2> QED
      BY <2>2, <2>3 DEF Job
  <1>3. CASE JobCancelled(j)
    BY <1>3 DEF JobCancelled, Job
  <1>4. CASE CancelOnSignal
    BY <1>4 DEF CancelOnSignal, Job
  <1> QED
    BY <1>1, <1>2, <1>3, <1>4

(* Every step keeps Observed.                                              *)
LEMMA NextObserved == Types /\ Observed /\ [Next]_vars => Observed'
  <1> SUFFICES ASSUME Types, Observed, [Next]_vars PROVE Observed'
    OBVIOUS
  <1>1. CASE select_action
    <2>1. Submitted' = Submitted /\ \A j \in Submitted : Tried(j[1], ActionOf(j))
      BY <1>1 DEF select_action, Observed, Submitted
    <2> QED
      BY <1>1, <2>1 DEF select_action, Observed, Tried, ActionOf
  <1>2. CASE NextTestRun
    <2>1. Submitted' = Submitted /\ \A j \in Submitted : Tried(j[1], ActionOf(j))
      BY <1>2 DEF NextTestRun, Observed, Submitted
    <2>2. pc' \notin {"run", "poll", "observe"}
      BY <1>2 DEF NextTestRun
    <2> QED
      BY <1>2, <2>1, <2>2 DEF NextTestRun, Observed, Tried, ActionOf
  <1>3. CASE StepSkipped
    <2>1. Submitted' = Submitted /\ \A j \in Submitted : Tried(j[1], ActionOf(j))
      BY <1>3 DEF StepSkipped, Observed, Submitted
    <2> QED
      BY <1>3, <2>1 DEF StepSkipped, Observed, Tried, ActionOf
  <1>4. CASE StepRun
    <2>1. Submitted' = Submitted /\ \A j \in Submitted : Tried(j[1], ActionOf(j))
      BY <1>4 DEF StepRun, Observed, Submitted
    <2>2. action \in Feasible /\ ~Tried(tr, action)
      BY <1>4 DEF StepRun, get_cached_trajectory_result, Tried
    <2> QED
      BY <1>4, <2>1, <2>2 DEF StepRun, Observed, Tried, ActionOf, action
  <1>5. CASE RunReturns \/ SubmitError \/ RunCompletes \/ StatusError
    <2>1. Submitted' = Submitted
      BY <1>5 DEF RunReturns, SubmitError, RunCompletes, StatusError, Submitted
    <2> QED
      BY <1>5, <2>1 DEF RunReturns, SubmitError, RunCompletes, StatusError, Observed,
           Tried, ActionOf, Current, action
  <1>6. CASE RunSubmits
    <2>1. Submitted' \subseteq Submitted \union {Current}
      BY <1>6 DEF RunSubmits, Submitted, Types
    <2>2. /\ Current[1] = tr /\ Current[2] = index
          /\ index \in 1 .. Len(grid[tr]) /\ ActionOf(Current) \in Feasible
      <3>1. tr \in TestRuns /\ index \in 0 .. Len(grid[tr]) /\ index # 0
        BY <1>6 DEF RunSubmits, Types, Active
      <3>2. Len(grid[tr]) \in Nat
        BY <3>1, GridFacts, MaxStepsAssumption DEF Types
      <3> QED
        BY <3>1, <3>2, <1>6 DEF RunSubmits, Observed, Current, ActionOf, action
    <2>3. \A j \in Submitted : Tried(j[1], ActionOf(j))
      BY <1>6 DEF RunSubmits, Observed
    <2> QED
      BY <1>6, <2>1, <2>2, <2>3 DEF RunSubmits, Observed, Tried, ActionOf, Current, action
  <1>7. CASE Observe
    <2> DEFINE e == [step |-> index, action |-> action,
                     observation |-> job[Current].output]
    <2>1. tr \in TestRuns
      BY <1>7 DEF Observe, Types, Active
    <2>2. trajectory' = [trajectory EXCEPT ![tr] = Append(@, e)]
      BY <1>7 DEF Observe
    <2>3. \A t \in TestRuns : \A a : Tried(t, a) => Tried(t, a)'
      <3>1. ASSUME NEW t \in TestRuns, NEW a, Tried(t, a) PROVE Tried(t, a)'
        <4>1. PICK i \in DOMAIN trajectory[t] : trajectory[t][i].action = a
          BY <3>1 DEF Tried
        <4>2. i \in DOMAIN trajectory'[t] /\ trajectory'[t][i] = trajectory[t][i]
          BY <2>1, <2>2, <4>1 DEF Types
        <4> QED
          BY <4>1, <4>2 DEF Tried
      <3> QED
        BY <3>1
    <2>4. Tried(tr, action)'
      <3> DEFINE s == trajectory[tr]
      <3> HIDE DEF e
      <3>1. s \in Seq(TrajectoryEntry) /\ trajectory'[tr] = Append(s, e)
        BY <2>1, <2>2 DEF Types
      <3>2. Len(s) + 1 \in DOMAIN Append(s, e) /\ Append(s, e)[Len(s) + 1] = e
        BY <3>1
      <3>3. e.action = action /\ tr' = tr /\ action' = action
        BY <1>7 DEF e, Observe, action
      <3> QED
        BY <3>1, <3>2, <3>3 DEF Tried
    <2>5. Submitted' = Submitted /\ \A j \in Submitted : j[1] \in TestRuns
      BY <1>7 DEF Observe, Submitted, JobName
    <2>6. \A j \in Submitted : Tried(j[1], ActionOf(j))'
      <3>1. ASSUME NEW j \in Submitted PROVE Tried(j[1], ActionOf(j))'
        <4>1. CASE Tried(j[1], ActionOf(j))
          BY <1>7, <2>3, <2>5, <4>1 DEF Observe, ActionOf, Tried
        <4>2. CASE j = Current
          BY <1>7, <2>4, <4>2 DEF Observe, ActionOf, Current, action, Tried
        <4> QED
          BY <4>1, <4>2 DEF Observed
      <3> QED
        BY <3>1
    <2> QED
      BY <1>7, <2>5, <2>6 DEF Observe, Observed, ActionOf
  <1>8. CASE CancelOnSignal
    <2>1. Submitted' = Submitted
      BY <1>8 DEF Types, Submitted, CancelOnSignal, Job
    <2> QED
      BY <1>8, <2>1, QuietStep DEF CancelOnSignal
  <1>9. ASSUME NEW j \in JobName, JobStarts(j) \/ JobEnds(j) \/ JobCancelled(j)
        PROVE  Observed'
    BY <1>9, SameJobs, QuietStep DEF JobStarts, JobEnds, JobCancelled
  <1>10. CASE UNCHANGED vars
    BY <1>10, QuietStep DEF vars, Submitted
  <1> QED
    BY <1>1, <1>2, <1>3, <1>4, <1>5, <1>6, <1>7, <1>8, <1>9, <1>10
       DEF Next, Handler, Scheduler

(* A new job has parameters that no earlier job of its test run had.       *)
LEMMA NextOnce ==
  Types /\ Observed /\ EachParameterSetOnce /\ [Next]_vars => EachParameterSetOnce'
  <1> SUFFICES ASSUME Types, Observed, EachParameterSetOnce, [Next]_vars
               PROVE  EachParameterSetOnce'
    OBVIOUS
  <1>1. CASE RunSubmits
    <2>1. Submitted' \subseteq Submitted \union {Current}
      BY <1>1 DEF RunSubmits, Submitted, Types
    <2>2. /\ action \in Feasible /\ ~Tried(tr, action)
          /\ Current[1] = tr /\ ActionOf(Current) = action
      BY <1>1 DEF RunSubmits, Observed, Current, ActionOf, action
    <2>3. \A j \in Submitted : Tried(j[1], ActionOf(j))
      BY <1>1 DEF RunSubmits, Observed
    <2>4. \A j \in Submitted : j[1] = tr => ActionOf(j) # action
      BY <2>2, <2>3
    <2>5. grid' = grid
      BY <1>1 DEF RunSubmits
    <2> QED
      BY <2>1, <2>2, <2>4, <2>5 DEF EachParameterSetOnce, ActionOf
  <1>2. CASE ~RunSubmits
    <2>1. Submitted' = Submitted
      <3>1. CASE UNCHANGED job
        BY <3>1 DEF Submitted
      <3>2. CASE CancelOnSignal
        BY <3>2 DEF Types, Submitted, CancelOnSignal, Job
      <3>3. ASSUME NEW j \in JobName, JobStarts(j) \/ JobEnds(j) \/ JobCancelled(j)
            PROVE  Submitted' = Submitted
        BY <3>3, SameJobs, SMTT(40)
      <3> QED
        BY <1>2, <3>1, <3>2, <3>3 DEF Next, Handler, Scheduler, select_action, NextTestRun,
             StepSkipped, StepRun, RunReturns, RunCompletes, Observe, SubmitError,
             StatusError, vars
    <2>2. grid' = grid
      BY DEF Next, Handler, Scheduler, select_action, NextTestRun, StepSkipped, StepRun,
           RunReturns, RunSubmits, RunCompletes, Observe, SubmitError, StatusError,
           CancelOnSignal, JobStarts, JobEnds, JobCancelled, vars
    <2> QED
      BY <2>1, <2>2 DEF EachParameterSetOnce, ActionOf
  <1> QED
    BY <1>1, <1>2

(* Whatever fails, is killed or is cut short by a signal, no parameter set *)
(* is run twice and none that fails the constraint check is run.           *)
THEOREM ParameterSetsOnce == Spec => []EachParameterSetOnce
  <1>1. Init => EachParameterSetOnce
    BY DEF Init, EachParameterSetOnce, Submitted
  <1> QED
    BY <1>1, InitTypes, NextTypes, NextObserved, NextOnce, PTL DEF Spec

-----------------------------------------------------------------------------
(* The rest of TypeOK.                                                     *)
Bookkept ==
  /\ tr \in 1 .. NumTests + 1 /\ index \in 0 .. MaxSteps
  /\ jobs \subseteq JobName /\ unanswered \subseteq JobName
  /\ shutting_down \in BOOLEAN /\ signalled \in BOOLEAN

(* Nothing is kept at first.                                               *)
LEMMA InitBookkept == Init => Bookkept
  <1> SUFFICES ASSUME Init PROVE Bookkept
    OBVIOUS
  <1>1. tr \in 1 .. NumTests + 1 /\ index \in 0 .. MaxSteps
    BY NumTestsAssumption, MaxStepsAssumption DEF Init
  <1>2. shutting_down \in BOOLEAN /\ signalled \in BOOLEAN
    BY DEF Init
  <1>3. jobs \subseteq JobName /\ unanswered \subseteq JobName
    BY DEF Init
  <1> QED
    BY <1>1, <1>2, <1>3 DEF Bookkept

(* An entry of a trajectory names a job.                                   *)
LEMMA EntryFacts ==
  ASSUME Types, NEW t \in TestRuns, NEW i \in DOMAIN trajectory[t]
  PROVE  /\ trajectory[t][i] \in TrajectoryEntry
         /\ trajectory[t][i].step \in Steps
         /\ <<t, trajectory[t][i].step>> \in JobName
  <1>1. trajectory[t] \in Seq(TrajectoryEntry)
    BY DEF Types
  <1>2. trajectory[t][i] \in TrajectoryEntry
    BY <1>1
  <1>3. trajectory[t][i].step \in Steps
    BY <1>2 DEF TrajectoryEntry
  <1> QED
    BY <1>2, <1>3 DEF JobName

(* The step that runs has a job's name.                                    *)
LEMMA CurrentIsAName ==
  ASSUME Types, pc \in {"step", "run", "poll", "observe"}
  PROVE  Current \in JobName /\ tr \in TestRuns /\ index \in Steps /\ index \in 1 .. Len(grid[tr])
  <1>1. tr \in TestRuns /\ index \in 0 .. Len(grid[tr]) /\ index # 0
    BY DEF Types, Active
  <1>2. Len(grid[tr]) \in 0 .. MaxSteps
    BY <1>1, GridFacts DEF Types
  <1> QED
    BY <1>1, <1>2, MaxStepsAssumption DEF Current, JobName, Steps

(* Every step keeps the bookkeeping of the runner well typed.              *)
LEMMA NextBookkept == Types /\ Bookkept /\ [Next]_vars => Bookkept'
  <1> SUFFICES ASSUME Types, Bookkept, [Next]_vars PROVE Bookkept'
    OBVIOUS
  <1> USE DEF Bookkept
  <1>1. CASE select_action
    <2>1. index < Len(grid[tr]) /\ Len(grid[tr]) \in 0 .. MaxSteps
      BY <1>1, GridFacts DEF select_action, Types, Active
    <2> QED
      BY <1>1, <2>1, MaxStepsAssumption DEF select_action, history
  <1>2. CASE NextTestRun
    <2>1. tr' \in 1 .. NumTests + 1 /\ index' \in 0 .. MaxSteps
      BY <1>2, NumTestsAssumption, MaxStepsAssumption DEF NextTestRun
    <2> QED
      BY <1>2, <2>1 DEF NextTestRun, history
  <1>3. CASE StepSkipped \/ StepRun \/ RunReturns \/ SubmitError \/ Observe
    BY <1>3 DEF StepSkipped, StepRun, RunReturns, SubmitError, Observe, history
  <1>4. CASE RunSubmits
    BY <1>4, CurrentIsAName DEF RunSubmits, history
  <1>5. CASE RunCompletes
    <2>1. shutting_down' \in BOOLEAN
      BY <1>5 DEF RunCompletes
    <2> QED
      BY <1>5, <2>1 DEF RunCompletes, history
  <1>6. CASE StatusError
    BY <1>6, CurrentIsAName DEF StatusError
  <1>7. CASE CancelOnSignal
    BY <1>7 DEF CancelOnSignal
  <1>8. ASSUME NEW j \in JobName, JobStarts(j) \/ JobEnds(j) \/ JobCancelled(j) PROVE Bookkept'
    BY <1>8 DEF JobStarts, JobEnds, JobCancelled, history
  <1>9. CASE UNCHANGED vars
    BY <1>9 DEF vars, history
  <1> QED
    BY <1>1, <1>2, <1>3, <1>4, <1>5, <1>6, <1>7, <1>8, <1>9 DEF Next, Handler, Scheduler

(* Every reachable state of the exploration is well typed.                 *)
THEOREM TypeCorrect == Spec => []TypeOK
  <1>1. Init => Bookkept
    BY InitBookkept
  <1>2. Types /\ Bookkept => TypeOK
    BY DEF Types, Bookkept, TypeOK
  <1> QED
    BY <1>1, <1>2, InitTypes, NextTypes, NextBookkept, PTL DEF Spec

-----------------------------------------------------------------------------
(* The strengthening of ObservationsFinal: the exploration only goes       *)
(* forward. Every job and every entry belongs to a step that was taken, so *)
(* that a step about to run has neither; and when a step is observed its   *)
(* job has ended or was never submitted, unless its query failed.          *)
Taken(t, s, here) == t < tr \/ (t = tr /\ (s < index \/ (s = index /\ here)))

Forward ==
  /\ \A j \in Submitted : Taken(j[1], j[2], pc \notin {"step", "run"})
  /\ \A t \in TestRuns : \A i \in DOMAIN trajectory[t] :
       Taken(t, trajectory[t][i].step, pc = "select")
  /\ pc = "observe" /\ Current \notin unanswered => ~Live(Current)

Invariant == Types /\ Bookkept /\ Forward /\ ObservationsFinal

(* A step of the handler that submits and records nothing keeps both.      *)
LEMMA HandlerMovesOn ==
  ASSUME Invariant, UNCHANGED <<grid, trajectory, job>>, unanswered \subseteq unanswered',
         \A t \in TestRuns, s \in Steps :
           /\ Taken(t, s, pc \notin {"step", "run"}) => Taken(t, s, pc \notin {"step", "run"})'
           /\ Taken(t, s, pc = "select") => Taken(t, s, pc = "select")',
         pc' = "observe" /\ Current' \notin unanswered' => ~Live(Current)'
  PROVE  Forward' /\ ObservationsFinal'
  <1>1. \A j \in Submitted : j[1] \in TestRuns /\ j[2] \in Steps
    BY DEF Submitted, JobName
  <1>2. \A t \in TestRuns : \A i \in DOMAIN trajectory[t] : trajectory[t][i].step \in Steps
    BY EntryFacts DEF Invariant
  <1>3. Forward'
    BY <1>1, <1>2 DEF Invariant, Forward, Submitted
  <1>4. ObservationsFinal'
    BY DEF Invariant, ObservationsFinal, ActionOf, Live
  <1> QED
    BY <1>3, <1>4

(* A step that leaves the handler where it is and what jobs that are over  *)
(* have left as it is keeps both.                                          *)
LEMMA JobsGoOn ==
  ASSUME Invariant, UNCHANGED <<grid, pc, tr, index, trajectory, unanswered>>,
         job' \in [JobName -> Job], Submitted' = Submitted,
         \A j \in JobName : ~Live(j) => ~Live(j)' /\ job'[j].output = job[j].output
  PROVE  Forward' /\ ObservationsFinal'
  <1>1. Forward'
    <2>1. pc = "observe" => Current \in JobName /\ Current' = Current
      BY CurrentIsAName DEF Invariant, Current
    <2>2. ~Live(Current)' <=> ~(job'[Current'].state \in {"PENDING", "RUNNING"})
      BY DEF Live
    <2>3. pc' = "observe" /\ Current' \notin unanswered' => ~Live(Current)'
      BY <2>1, <2>2 DEF Invariant, Forward, Live
    <2> QED
      BY <2>3 DEF Invariant, Forward, Taken
  <1>2. ObservationsFinal'
    <2>1. \A t \in TestRuns : \A i \in DOMAIN trajectory[t] : <<t, trajectory[t][i].step>> \in JobName
      BY EntryFacts DEF Invariant
    <2> QED
      BY <2>1 DEF Invariant, ObservationsFinal, ActionOf, Live
  <1> QED
    BY <1>1, <1>2

(* Every step keeps the invariant.                                         *)
LEMMA NextFinal == Invariant /\ [Next]_vars => Forward' /\ ObservationsFinal'
  <1> SUFFICES ASSUME Invariant, [Next]_vars PROVE Forward' /\ ObservationsFinal'
    OBVIOUS
  <1>0. Types /\ Bookkept /\ Forward /\ ObservationsFinal
        /\ tr \in Nat /\ index \in Nat /\ \A s \in Steps : s \in Nat
    BY NumTestsAssumption DEF Invariant, Bookkept, Steps
  <1>1. CASE select_action
    BY <1>0, <1>1, HandlerMovesOn DEF select_action, history, Taken, TestRuns
  <1>2. CASE NextTestRun
    BY <1>0, <1>2, HandlerMovesOn, NumTestsAssumption DEF NextTestRun, history, Taken, TestRuns
  <1>3. CASE StepSkipped \/ StepRun \/ SubmitError
    BY <1>0, <1>3, HandlerMovesOn DEF StepSkipped, StepRun, SubmitError, history, Taken
  <1>4. CASE RunReturns
    <2>1. ~Live(Current)
      BY <1>0, <1>4, CurrentIsAName DEF RunReturns, Forward, Taken, Current, Submitted, Live
    <2> QED
      BY <1>0, <1>4, <2>1, HandlerMovesOn DEF RunReturns, history, Taken, Live, Current
  <1>5. CASE RunCompletes
    BY <1>0, <1>5, HandlerMovesOn DEF RunCompletes, history, Taken, Live, Current
  <1>6. CASE StatusError
    BY <1>0, <1>6, HandlerMovesOn DEF StatusError, Taken, Live, Current
  <1>7. CASE RunSubmits
    <2>1. Submitted' \subseteq Submitted \union {Current} /\ Current[1] = tr /\ Current[2] = index
      BY <1>0, <1>7 DEF RunSubmits, Submitted, Types, Current
    <2>2. pc = "run" /\ pc' = "poll" /\ UNCHANGED <<grid, tr, index, trajectory, unanswered>>
          /\ job' = [job EXCEPT ![Current].state = "PENDING"]
      BY <1>7 DEF RunSubmits, history
    <2>3. Forward'
      BY <1>0, <2>1, <2>2 DEF Forward, Taken
    <2>4. ASSUME NEW t \in TestRuns, NEW i \in DOMAIN trajectory[t]
          PROVE  /\ <<t, trajectory[t][i].step>> # Current
                 /\ <<t, trajectory[t][i].step>> \in JobName
      <3>1. trajectory[t][i].step \in Steps /\ <<t, trajectory[t][i].step>> \in JobName
        BY <1>0, <2>4, EntryFacts
      <3>2. Taken(t, trajectory[t][i].step, pc = "select")
        BY <1>0, <2>4 DEF Forward
      <3>3. t \in Nat
        BY DEF TestRuns
      <3> QED
        BY <1>0, <2>2, <3>1, <3>2, <3>3 DEF Taken, Current
    <2>5. \A j \in JobName : j # Current => job'[j] = job[j]
      BY <1>0, <2>2 DEF Types
    <2>6. ObservationsFinal'
      BY <1>0, <2>2, <2>4, <2>5 DEF ObservationsFinal, ActionOf, Live
    <2> QED
      BY <2>3, <2>6
  <1>8. CASE Observe
    <2> DEFINE e == [step |-> index, action |-> action, observation |-> job[Current].output]
    <2>1. /\ pc = "observe" /\ pc' = "select" /\ UNCHANGED <<grid, tr, index, unanswered, job>>
          /\ trajectory' = [trajectory EXCEPT ![tr] = Append(@, e)]
      BY <1>8 DEF Observe, history
    <2>2. tr \in TestRuns /\ trajectory \in [TestRuns -> Seq(TrajectoryEntry)]
      BY <1>0, <2>1, CurrentIsAName DEF Types
    <2>3. e.step = index /\ e.action = action /\ e.observation = job[Current].output
      OBVIOUS
    <2> HIDE DEF e
    <2>4. ASSUME NEW t \in TestRuns, NEW i \in DOMAIN trajectory'[t]
          PROVE  \/ i \in DOMAIN trajectory[t] /\ trajectory'[t][i] = trajectory[t][i]
                 \/ t = tr /\ trajectory'[t][i] = e
      <3>1. CASE t = tr
        <4> DEFINE s == trajectory[tr]
        <4>1. s \in Seq(TrajectoryEntry) /\ trajectory'[tr] = Append(s, e)
          BY <2>1, <2>2
        <4>2. i \in 1 .. Len(s) + 1 /\ Len(s) \in Nat
          BY <2>4, <3>1, <4>1
        <4>3. i \in 1 .. Len(s) => i \in DOMAIN s /\ Append(s, e)[i] = s[i]
          BY <4>1
        <4>4. i = Len(s) + 1 => Append(s, e)[i] = e
          BY <4>1
        <4> QED
          BY <3>1, <4>1, <4>2, <4>3, <4>4
      <3>2. CASE t # tr
        BY <2>1, <2>2, <2>4, <3>2
      <3> QED
        BY <3>1, <3>2
    <2>5. Forward'
      <3>1. \A j \in Submitted' : Taken(j[1], j[2], pc \notin {"step", "run"})'
        BY <1>0, <2>1 DEF Forward, Taken, Submitted
      <3>2. ASSUME NEW t \in TestRuns, NEW i \in DOMAIN trajectory'[t]
            PROVE  Taken(t, trajectory[t][i].step, pc = "select")'
        BY <1>0, <2>1, <2>3, <2>4, <3>2 DEF Forward, Taken
      <3> QED
        BY <2>1, <3>1, <3>2 DEF Forward
    <2>6. ASSUME NEW t \in TestRuns, NEW i \in DOMAIN trajectory'[t]
          PROVE  LET j == <<t, trajectory'[t][i].step>> IN
                 /\ trajectory'[t][i].action = ActionOf(j)
                 /\ j \notin unanswered => ~Live(j) /\ trajectory'[t][i].observation = job[j].output
      <3>1. CASE i \in DOMAIN trajectory[t] /\ trajectory'[t][i] = trajectory[t][i]
        BY <1>0, <3>1 DEF ObservationsFinal
      <3>2. CASE t = tr /\ trajectory'[t][i] = e
        <4>1. <<t, trajectory'[t][i].step>> = Current
          BY <2>3, <3>2 DEF Current
        <4>2. action = ActionOf(Current)
          BY DEF action, ActionOf, Current
        <4> QED
          BY <1>0, <2>1, <2>3, <3>2, <4>1, <4>2 DEF Forward
      <3> QED
        BY <2>4, <2>6, <3>1, <3>2
    <2>7. ObservationsFinal'
      BY <2>1, <2>6, SMTT(40) DEF ObservationsFinal, ActionOf, Live
    <2> QED
      BY <2>5, <2>7
  <1>9. CASE CancelOnSignal
    <2>1. Submitted' = Submitted /\ job' \in [JobName -> Job]
      BY <1>0, <1>9 DEF Types, Submitted, CancelOnSignal, Job
    <2>2. \A j \in JobName : job'[j].state = job[j].state /\ job'[j].output = job[j].output
      BY <1>0, <1>9 DEF Types, CancelOnSignal, Job
    <2> QED
      BY <1>9, <2>1, <2>2, JobsGoOn DEF CancelOnSignal, Live
  <1>10. ASSUME NEW j \in JobName, JobStarts(j) \/ JobEnds(j) \/ JobCancelled(j)
         PROVE  Forward' /\ ObservationsFinal'
    <2>1. Submitted' = Submitted /\ job' \in [JobName -> Job]
      BY <1>0, <1>10, SameJobs, NextTypes DEF Types, Next, Scheduler
    <2>2. Live(j) /\ \A k \in JobName : k # j => job'[k] = job[k]
      BY <1>0, <1>10 DEF JobStarts, JobEnds, JobCancelled, Live, Types
    <2>3. UNCHANGED <<grid, pc, tr, index, trajectory, unanswered>>
      BY <1>10 DEF JobStarts, JobEnds, JobCancelled, history
    <2> QED
      BY <2>1, <2>2, <2>3, JobsGoOn DEF Live
  <1>11. CASE UNCHANGED vars
    <2>1. job \in [JobName -> Job] /\ UNCHANGED <<grid, pc, tr, index, trajectory, unanswered, job>>
      BY <1>0, <1>11 DEF Types, vars, history
    <2> QED
      BY <2>1, JobsGoOn DEF Live, Submitted
  <1> QED
    BY <1>1, <1>2, <1>3, <1>4, <1>5, <1>6, <1>7, <1>8, <1>9, <1>10, <1>11
       DEF Next, Handler, Scheduler

(* What the trajectory says of a step is the final result of the job of    *)
(* that step, unless a query about that job failed, after any failures,    *)
(* kills and signals.                                                      *)
THEOREM ObservationsAreFinal == Spec => []ObservationsFinal
  <1>1. Init => Invariant
    <2> SUFFICES ASSUME Init PROVE Invariant
      OBVIOUS
    <2>1. Types /\ Bookkept
      BY InitTypes, InitBookkept
    <2>2. Forward /\ ObservationsFinal
      BY DEF Init, Forward, ObservationsFinal, Submitted
    <2> QED
      BY <2>1, <2>2 DEF Invariant
  <1>2. Invariant /\ [Next]_vars => Invariant'
    BY NextTypes, NextBookkept, NextFinal DEF Invariant
  <1>3. Invariant => ObservationsFinal
    BY DEF Invariant
  <1> QED
    BY <1>1, <1>2, <1>3, PTL DEF Spec

-----------------------------------------------------------------------------
(* The scripts of Workloads.                                               *)

(* Where there is a launcher instead of a batch script.                    *)
Bridged(c) == c.workload \in {"MegatronBridge", "NeMoLauncher"}

(* A sequence put together of four parts, with every part where it is.     *)
Parts(S, s, s1, s2, s3, s4) ==
  s1 \in Seq(S) /\ s2 \in Seq(S) /\ s3 \in Seq(S) /\ s4 \in Seq(S) /\ s = ((s1 \o s2) \o s3) \o s4

(* Where its elements are.                                                 *)
LEMMA PartsFacts ==
  ASSUME NEW S, NEW s, NEW s1, NEW s2, NEW s3, NEW s4, Parts(S, s, s1, s2, s3, s4)
  PROVE  /\ s \in Seq(S) /\ Len(s) = Len(s1) + Len(s2) + Len(s3) + Len(s4)
         /\ \A i \in 1 .. Len(s1) : s[i] = s1[i]
         /\ \A i \in 1 .. Len(s2) : s[Len(s1) + i] = s2[i]
         /\ \A i \in 1 .. Len(s3) : s[Len(s1) + Len(s2) + i] = s3[i]
         /\ \A i \in 1 .. Len(s4) : s[Len(s1) + Len(s2) + Len(s3) + i] = s4[i]
  <1>1. s1 \in Seq(S) /\ s2 \in Seq(S) /\ s3 \in Seq(S) /\ s4 \in Seq(S) /\ s = ((s1 \o s2) \o s3) \o s4
    BY DEF Parts
  <1> DEFINE v == ((s1 \o s2) \o s3) \o s4
  <1>2. /\ v \in Seq(S) /\ Len(v) = Len(s1) + Len(s2) + Len(s3) + Len(s4)
        /\ \A i \in 1 .. Len(s1) : v[i] = s1[i]
        /\ \A i \in 1 .. Len(s2) : v[Len(s1) + i] = s2[i]
        /\ \A i \in 1 .. Len(s3) : v[Len(s1) + Len(s2) + i] = s3[i]
        /\ \A i \in 1 .. Len(s4) : v[Len(s1) + Len(s2) + Len(s3) + i] = s4[i]
    BY <1>1
  <1> QED
    BY <1>1, <1>2

LEMMA Pair ==
  ASSUME NEW S, NEW T, NEW s \in S \X T
  PROVE  s = <<s[1], s[2]>> /\ s[1] \in S /\ s[2] \in T
  OBVIOUS

(* The script, the processes and the benchmarks of each workload.          *)
LEMMA ScriptIs ==
  ASSUME NEW c
  PROVE  /\ c.workload \in {"NIXLBench", "NIXLKVBench"} => script(c) = nixlbench_script(c)
         /\ c.workload = "NixlPerftest" => script(c) = perftest_script
         /\ c.workload = "TritonInference" => script(c) = triton_script
         /\ c.workload = "DeepEP" => script(c) = deepep_script
         /\ c.workload = "MegatronBridge" => script(c) = bridge_wrapper
         /\ c.workload = "NeMoLauncher" => script(c) = nemo_launcher_command
         /\ c.workload \notin {"NIXLBench", "NIXLKVBench", "NixlPerftest", "TritonInference", "DeepEP",
                               "MegatronBridge", "NeMoLauncher"} => script(c) = srun_script
  BY Zenon DEF script

LEMMA ProcessFacts ==
  ASSUME NEW c \in Configs
  PROVE  /\ {etcd, main, launcher, One("matgen"), One("server"), One("hostname"), One("pip")} \subseteq Processes(c)
         /\ Benches(c) \subseteq Processes(c)
         /\ etcd \notin Benches(c) /\ launcher \notin Benches(c)
         /\ \A p \in {"matgen", "hostname", "pip"} : One(p) \notin Benches(c)
         /\ c.workload \notin {"NIXLBench", "NIXLKVBench"} => Benches(c) = {main}
         /\ etcd # main /\ launcher # main /\ launcher # etcd
         /\ \A p \in {"matgen", "hostname", "pip"} : One(p) \notin {main, launcher, etcd}
  BY DEF Processes, Benches, etcd, main, launcher, One, Bench

(* What a script may hold.                                                 *)
Commands(c) ==
  {s \in {"start", "run", "must", "healthy", "kill", "launch", "job id"} \X Processes(c) :
    /\ s[1] \in {"healthy", "kill"} => s[2] = etcd
    /\ s[1] \in {"launch", "job id"} => s[2] = launcher
    /\ s[1] \in {"launch", "job id"} => Bridged(c)
    /\ s[1] = "must" => s[2] = One("pip") /\ Bridged(c)}

LEMMA CommandFacts ==
  ASSUME NEW c \in Configs
  PROVE  /\ \A p \in Processes(c) : Start(p) \in Commands(c) /\ Run(p) \in Commands(c)
         /\ <<"healthy", etcd>> \in Commands(c) /\ <<"kill", etcd>> \in Commands(c)
         /\ Bridged(c) => /\ <<"launch", launcher>> \in Commands(c) /\ <<"job id", launcher>> \in Commands(c)
                          /\ Must(One("pip")) \in Commands(c)
         /\ \A s \in Commands(c) : s = <<s[1], s[2]>> /\ s[2] \in Processes(c)
  <1>1. \A p \in Processes(c) : Start(p) \in Commands(c) /\ Run(p) \in Commands(c)
    BY DEF Commands, Start, Run
  <1>2. <<"healthy", etcd>> \in Commands(c) /\ <<"kill", etcd>> \in Commands(c)
    BY ProcessFacts DEF Commands
  <1>3. Bridged(c) => <<"launch", launcher>> \in Commands(c) /\ <<"job id", launcher>> \in Commands(c)
    BY ProcessFacts DEF Commands
  <1>4. Bridged(c) => Must(One("pip")) \in Commands(c)
    <2>1. One("pip") \in Processes(c)
      BY ProcessFacts
    <2> QED
      BY <2>1 DEF Commands, Must
  <1>5. \A s \in Commands(c) : s = <<s[1], s[2]>> /\ s[2] \in Processes(c)
    <2> SUFFICES ASSUME NEW s \in Commands(c) PROVE s = <<s[1], s[2]>> /\ s[2] \in Processes(c)
      OBVIOUS
    <2>1. s \in {"start", "run", "must", "healthy", "kill", "launch", "job id"} \X Processes(c)
      BY DEF Commands
    <2> QED
      BY <2>1, Pair
  <1> QED
    BY <1>1, <1>2, <1>3, <1>4, <1>5

(* The scripts of NIXL bench and NIXL perftest are put together of parts:  *)
(* the last benchmark is in the foreground, and etcd is killed after it.   *)
LEMMA NixlScript ==
  ASSUME NEW c \in Configs, c.workload \in {"NIXLBench", "NIXLKVBench"}
  PROVE  /\ bench_count(c) \in Nat \ {0}
         /\ script(c) \in Seq(Commands(c)) /\ Len(script(c)) = bench_count(c) + 3
         /\ script(c)[bench_count(c) + 2] = Run(Bench(bench_count(c)))
  <1> DEFINE N == bench_count(c)
             s == script(c)
             s1 == gen_etcd_srun_command
             s2 == [i \in 1 .. N - 1 |-> Start(Bench(i))]
             s3 == <<Run(Bench(N))>>
             s4 == gen_kill_and_wait_cmd
  <1>1. N \in Nat \ {0}
    BY ConfigsAssumption DEF bench_count
  <1>2. N - 1 \in Nat
    BY <1>1
  <1>3. s = ((s1 \o s2) \o s3) \o s4
    BY ScriptIs DEF nixlbench_script
  <1>4. \A i \in 1 .. N : Bench(i) \in Processes(c)
    BY DEF Processes, Benches, One, Bench
  <1>5. \A i \in 1 .. N : Start(Bench(i)) \in Commands(c) /\ Run(Bench(i)) \in Commands(c)
    <2> HIDE DEF N
    <2> QED
      BY <1>4, CommandFacts
  <1>6. s1 \in Seq(Commands(c)) /\ Len(s1) = 2
    <2>1. Start(etcd) \in Commands(c) /\ <<"healthy", etcd>> \in Commands(c)
      BY CommandFacts, ProcessFacts
    <2> QED
      BY <2>1 DEF gen_etcd_srun_command
  <1>7. s2 \in Seq(Commands(c)) /\ Len(s2) = N - 1
    <2>1. \A i \in 1 .. N - 1 : Start(Bench(i)) \in Commands(c)
      <3> HIDE DEF N
      <3> QED
        BY <1>1, <1>5
    <2> HIDE DEF N
    <2> QED
      BY <1>2, <2>1
  <1>8. s3 \in Seq(Commands(c)) /\ Len(s3) = 1 /\ s3[1] = Run(Bench(N))
    <2>1. Run(Bench(N)) \in Commands(c)
      <3> HIDE DEF N
      <3> QED
        BY <1>1, <1>5
    <2> QED
      BY <2>1
  <1>9. s4 \in Seq(Commands(c)) /\ Len(s4) = 1
    <2>1. <<"kill", etcd>> \in Commands(c)
      BY CommandFacts
    <2> QED
      BY <2>1 DEF gen_kill_and_wait_cmd
  <1> HIDE DEF s, s1, s2, s3, s4, N
  <1>10. Parts(Commands(c), s, s1, s2, s3, s4)
    BY <1>3, <1>6, <1>7, <1>8, <1>9, Zenon DEF Parts
  <1>11. /\ s \in Seq(Commands(c)) /\ Len(s) = Len(s1) + Len(s2) + Len(s3) + Len(s4)
         /\ \A i \in 1 .. Len(s3) : s[Len(s1) + Len(s2) + i] = s3[i]
    BY <1>10, PartsFacts
  <1>12. s \in Seq(Commands(c)) /\ Len(s) = N + 3 /\ s[N + 2] = Run(Bench(N))
    BY <1>1, <1>6, <1>7, <1>8, <1>9, <1>11
  <1> QED
    BY <1>1, <1>12, Zenon DEF N, s

LEMMA PerftestScript ==
  ASSUME NEW c \in Configs
  PROVE  perftest_script \in Seq(Commands(c)) /\ Len(perftest_script) = 5 /\ perftest_script[4] = Run(main)
  <1> DEFINE s == perftest_script
             s1 == <<Run(One("matgen"))>>
             s2 == gen_etcd_srun_command
             s3 == <<Run(main)>>
             s4 == gen_kill_and_wait_cmd
  <1>1. s = ((s1 \o s2) \o s3) \o s4
    BY Zenon DEF perftest_script
  <1>2. s1 \in Seq(Commands(c)) /\ Len(s1) = 1
    <2>1. Run(One("matgen")) \in Commands(c)
      BY CommandFacts, ProcessFacts
    <2> QED
      BY <2>1
  <1>3. s2 \in Seq(Commands(c)) /\ Len(s2) = 2
    <2>1. Start(etcd) \in Commands(c) /\ <<"healthy", etcd>> \in Commands(c)
      BY CommandFacts, ProcessFacts
    <2> QED
      BY <2>1 DEF gen_etcd_srun_command
  <1>4. s3 \in Seq(Commands(c)) /\ Len(s3) = 1 /\ s3[1] = Run(main)
    <2>1. Run(main) \in Commands(c)
      BY CommandFacts, ProcessFacts
    <2> QED
      BY <2>1
  <1>5. s4 \in Seq(Commands(c)) /\ Len(s4) = 1
    <2>1. <<"kill", etcd>> \in Commands(c)
      BY CommandFacts
    <2> QED
      BY <2>1 DEF gen_kill_and_wait_cmd
  <1> HIDE DEF s, s1, s2, s3, s4
  <1>6. Parts(Commands(c), s, s1, s2, s3, s4)
    BY <1>1, <1>2, <1>3, <1>4, <1>5, Zenon DEF Parts
  <1>7. /\ s \in Seq(Commands(c)) /\ Len(s) = Len(s1) + Len(s2) + Len(s3) + Len(s4)
        /\ \A i \in 1 .. Len(s3) : s[Len(s1) + Len(s2) + i] = s3[i]
    BY <1>6, PartsFacts
  <1>8. s \in Seq(Commands(c)) /\ Len(s) = 5 /\ s[4] = Run(main)
    BY <1>2, <1>3, <1>4, <1>5, <1>7
  <1> QED
    BY <1>8, Zenon DEF s

(* A launcher is started, and its id read, at the end of its script; in    *)
(* the other scripts the last benchmark runs in the foreground.            *)
LEMMA BatchScript ==
  ASSUME NEW c \in Configs, ~Bridged(c)
  PROVE  /\ script(c) \in Seq(Commands(c)) /\ Len(script(c)) \in Nat \ {0}
         /\ \E n \in 1 .. Len(script(c)) : \E b \in Benches(c) : script(c)[n] = Run(b)
  <1> DEFINE s == script(c)
  <1>1. CASE c.workload \in {"NIXLBench", "NIXLKVBench"}
    <2> DEFINE N == bench_count(c)
    <2>1. N \in Nat \ {0} /\ s \in Seq(Commands(c)) /\ Len(s) = N + 3 /\ s[N + 2] = Run(Bench(N))
      BY <1>1, NixlScript
    <2>2. N + 2 \in 1 .. Len(s) /\ N \in 1 .. N
      BY <2>1
    <2>3. Bench(N) \in Benches(c)
      BY <1>1, <2>2 DEF Benches
    <2>4. Len(s) \in Nat \ {0}
      BY <2>1
    <2> HIDE DEF N, s
    <2> QED
      BY <2>1, <2>2, <2>3, <2>4, Zenon DEF s
  <1>2. CASE c.workload = "NixlPerftest"
    <2>1. s = perftest_script /\ main \in Benches(c)
      BY <1>2, ScriptIs, ProcessFacts
    <2>2. s \in Seq(Commands(c)) /\ Len(s) = 5 /\ s[4] = Run(main)
      BY <2>1, PerftestScript
    <2>3. Len(s) \in Nat \ {0} /\ 4 \in 1 .. Len(s)
      BY <2>2
    <2> HIDE DEF s
    <2> QED
      BY <2>1, <2>2, <2>3, Zenon DEF s
  <1>3. CASE c.workload \in {"TritonInference", "DeepEP"}
    <2>1. /\ Start(One("server")) \in Commands(c) /\ Run(One("hostname")) \in Commands(c)
          /\ Run(main) \in Commands(c) /\ main \in Benches(c)
      BY <1>3, ProcessFacts, CommandFacts
    <2>2. s \in {triton_script, deepep_script}
      BY <1>3, ScriptIs
    <2> HIDE DEF s
    <2>3. s \in Seq(Commands(c)) /\ Len(s) = 2 /\ s[2] = Run(main)
      <3>1. CASE s = triton_script
        BY <2>1, <3>1 DEF triton_script
      <3>2. CASE s = deepep_script
        BY <2>1, <3>2 DEF deepep_script
      <3> QED
        BY <2>2, <3>1, <3>2
    <2>4. Len(s) \in Nat \ {0} /\ 2 \in 1 .. Len(s)
      BY <2>3
    <2> QED
      BY <2>1, <2>3, <2>4, Zenon DEF s
  <1>4. CASE c.workload \notin {"NIXLBench", "NIXLKVBench", "NixlPerftest", "TritonInference", "DeepEP",
                                "MegatronBridge", "NeMoLauncher"}
    <2>1. Run(main) \in Commands(c) /\ main \in Benches(c)
      BY <1>4, ProcessFacts, CommandFacts
    <2>2. s = srun_script
      BY <1>4, ScriptIs
    <2> HIDE DEF s
    <2>3. s \in Seq(Commands(c)) /\ Len(s) = 1 /\ s[1] = Run(main)
      BY <2>1, <2>2 DEF srun_script
    <2>4. Len(s) \in Nat \ {0} /\ 1 \in 1 .. Len(s)
      BY <2>3
    <2> QED
      BY <2>1, <2>3, <2>4, Zenon DEF s
  <1> QED
    BY <1>1, <1>2, <1>3, <1>4 DEF Bridged

(* The wrapper of a launcher launches it and then asks for the job id.     *)
LEMMA LauncherScript ==
  ASSUME NEW c \in Configs, Bridged(c)
  PROVE  /\ script(c) \in Seq(Commands(c)) /\ Len(script(c)) \in {2, 3}
         /\ script(c)[Len(script(c))] = <<"job id", launcher>>
         /\ script(c)[Len(script(c)) - 1] = <<"launch", launcher>>
         /\ Len(script(c)) = 3 => script(c)[1] = Must(One("pip"))
  <1> DEFINE s == script(c)
             install == Must(One("pip"))
             start == <<"launch", launcher>>
             read == <<"job id", launcher>>
  <1>1. install \in Commands(c) /\ start \in Commands(c) /\ read \in Commands(c)
    BY CommandFacts
  <1>2. s = <<install, start, read>> \/ s = <<start, read>>
    BY ScriptIs DEF Bridged, bridge_wrapper, nemo_launcher_command
  <1> HIDE DEF s, install, start, read
  <1>3. /\ s \in Seq(Commands(c)) /\ Len(s) \in {2, 3} /\ s[Len(s)] = read /\ s[Len(s) - 1] = start
        /\ Len(s) = 3 => s[1] = install
    <2>1. CASE s = <<install, start, read>>
      <3>1. /\ s \in Seq(Commands(c)) /\ Len(s) = 3
            /\ s[1] = install /\ s[2] = start /\ s[3] = read
        BY <1>1, <2>1
      <3> QED
        BY <3>1
    <2>2. CASE s = <<start, read>>
      <3>1. s \in Seq(Commands(c)) /\ Len(s) = 2 /\ s[1] = start /\ s[2] = read
        BY <1>1, <2>2
      <3> QED
        BY <3>1
    <2> QED
      BY <1>2, <2>1, <2>2
  <1> QED
    BY <1>3, Zenon DEF s, install, start, read

(* Every script is a non-empty sequence of commands; kill and healthy are  *)
(* about etcd, must is about pip, and only launchers are launched.         *)
LEMMA ScriptFacts ==
  ASSUME NEW c \in Configs
  PROVE  /\ Len(script(c)) \in Nat \ {0}
         /\ \A n \in 1 .. Len(script(c)) : LET s == script(c)[n] IN
              /\ s = <<s[1], s[2]>>
              /\ s[1] \in {"start", "run", "must", "healthy", "kill", "launch", "job id"}
              /\ s[2] \in Processes(c)
              /\ s[1] \in {"healthy", "kill"} => s[2] = etcd
              /\ s[1] \in {"launch", "job id"} => s[2] = launcher
              /\ s[1] = "must" => s[2] = One("pip")
              /\ s[1] \in {"launch", "job id", "must"} => Bridged(c)
  <1>1. script(c) \in Seq(Commands(c)) /\ Len(script(c)) \in Nat \ {0}
    <2>1. CASE ~Bridged(c)
      BY <2>1, BatchScript
    <2>2. CASE Bridged(c)
      <3>1. script(c) \in Seq(Commands(c)) /\ Len(script(c)) \in {2, 3}
        BY <2>2, LauncherScript
      <3> QED
        BY <3>1
    <2> QED
      BY <2>1, <2>2
  <1>2. \A s \in Commands(c) :
          /\ s = <<s[1], s[2]>>
          /\ s[1] \in {"start", "run", "must", "healthy", "kill", "launch", "job id"}
          /\ s[2] \in Processes(c)
          /\ s[1] \in {"healthy", "kill"} => s[2] = etcd
          /\ s[1] \in {"launch", "job id"} => s[2] = launcher
          /\ s[1] = "must" => s[2] = One("pip")
          /\ s[1] \in {"launch", "job id", "must"} => Bridged(c)
    <2> SUFFICES ASSUME NEW s \in Commands(c)
                 PROVE  /\ s = <<s[1], s[2]>>
                        /\ s[1] \in {"start", "run", "must", "healthy", "kill", "launch", "job id"}
                        /\ s[2] \in Processes(c)
                        /\ s[1] \in {"healthy", "kill"} => s[2] = etcd
                        /\ s[1] \in {"launch", "job id"} => s[2] = launcher
                        /\ s[1] = "must" => s[2] = One("pip")
                        /\ s[1] \in {"launch", "job id", "must"} => Bridged(c)
      OBVIOUS
    <2>1. s \in {"start", "run", "must", "healthy", "kill", "launch", "job id"} \X Processes(c)
      BY DEF Commands
    <2>2. /\ s = <<s[1], s[2]>>
          /\ s[1] \in {"start", "run", "must", "healthy", "kill", "launch", "job id"}
          /\ s[2] \in Processes(c)
      BY <2>1, Pair
    <2>3. /\ s[1] \in {"healthy", "kill"} => s[2] = etcd
          /\ s[1] \in {"launch", "job id"} => s[2] = launcher
          /\ s[1] = "must" => s[2] = One("pip")
          /\ s[1] \in {"launch", "job id", "must"} => Bridged(c)
      BY DEF Commands
    <2> QED
      BY <2>2, <2>3
  <1>3. \A n \in 1 .. Len(script(c)) : script(c)[n] \in Commands(c)
    BY <1>1
  <1> QED
    BY <1>1, <1>2, <1>3

-----------------------------------------------------------------------------
(* What the programs of Workloads print.                                   *)

(* Sequences put together of two parts, of an element and a sequence, or   *)
(* of a sequence and one or two elements, and where their elements are.    *)
Concat(S, s, s1, s2) == s1 \in Seq(S) /\ s2 \in Seq(S) /\ s = s1 \o s2

LEMMA Joined ==
  ASSUME NEW S, NEW s, NEW s1, NEW s2, Concat(S, s, s1, s2)
  PROVE  /\ s \in Seq(S) /\ Len(s) = Len(s1) + Len(s2)
         /\ \A i \in 1 .. Len(s1) : s[i] = s1[i]
         /\ \A i \in 1 .. Len(s2) : s[Len(s1) + i] = s2[i]
  <1>1. s1 \in Seq(S) /\ s2 \in Seq(S) /\ s = s1 \o s2
    BY DEF Concat
  <1> DEFINE v == s1 \o s2
  <1>2. /\ v \in Seq(S) /\ Len(v) = Len(s1) + Len(s2)
        /\ \A i \in 1 .. Len(s1) : v[i] = s1[i]
        /\ \A i \in 1 .. Len(s2) : v[Len(s1) + i] = s2[i]
    BY <1>1
  <1> QED
    BY <1>1, <1>2

HeadOf(S, s, x, r) == x \in S /\ r \in Seq(S) /\ s = <<x>> \o r
TailOf(S, s, r, x) == x \in S /\ r \in Seq(S) /\ s = r \o <<x>>
TailsOf(S, s, r, x, y) == x \in S /\ y \in S /\ r \in Seq(S) /\ s = r \o <<x, y>>

LEMMA Headed ==
  ASSUME NEW S, NEW x, NEW r, NEW s, HeadOf(S, s, x, r)
  PROVE  /\ s \in Seq(S) /\ Len(s) = Len(r) + 1 /\ s[1] = x /\ Len(r) \in Nat
         /\ \A i \in 1 .. Len(r) : s[i + 1] = r[i]
  <1> DEFINE w == <<x>>
  <1>1. w \in Seq(S) /\ Len(w) = 1 /\ w[1] = x
    BY DEF HeadOf
  <1>2. Len(r) \in Nat
    BY DEF HeadOf
  <1> HIDE DEF w
  <1>3. Concat(S, s, w, r)
    BY <1>1, Zenon DEF w, Concat, HeadOf
  <1>4. /\ s \in Seq(S) /\ Len(s) = Len(w) + Len(r)
        /\ \A i \in 1 .. Len(w) : s[i] = w[i]
        /\ \A i \in 1 .. Len(r) : s[Len(w) + i] = r[i]
    BY <1>3, Joined
  <1> QED
    BY <1>1, <1>2, <1>4

LEMMA Tailed ==
  ASSUME NEW S, NEW x, NEW r, NEW s, TailOf(S, s, r, x)
  PROVE  /\ s \in Seq(S) /\ Len(s) = Len(r) + 1 /\ s[Len(r) + 1] = x /\ Len(r) \in Nat
         /\ \A i \in 1 .. Len(r) : s[i] = r[i]
  <1> DEFINE w == <<x>>
  <1>1. w \in Seq(S) /\ Len(w) = 1 /\ w[1] = x
    BY DEF TailOf
  <1>2. Len(r) \in Nat
    BY DEF TailOf
  <1> HIDE DEF w
  <1>3. Concat(S, s, r, w)
    BY <1>1, Zenon DEF w, Concat, TailOf
  <1>4. /\ s \in Seq(S) /\ Len(s) = Len(r) + Len(w)
        /\ \A i \in 1 .. Len(r) : s[i] = r[i]
        /\ \A i \in 1 .. Len(w) : s[Len(r) + i] = w[i]
    BY <1>3, Joined
  <1> QED
    BY <1>1, <1>2, <1>4

LEMMA TailedTwice ==
  ASSUME NEW S, NEW x, NEW y, NEW r, NEW s, TailsOf(S, s, r, x, y)
  PROVE  /\ s \in Seq(S) /\ Len(s) = Len(r) + 2 /\ s[Len(r) + 1] = x /\ s[Len(r) + 2] = y /\ Len(r) \in Nat
         /\ \A i \in 1 .. Len(r) : s[i] = r[i]
  <1> DEFINE w == <<x, y>>
  <1>1. w \in Seq(S) /\ Len(w) = 2 /\ w[1] = x /\ w[2] = y
    BY DEF TailsOf
  <1>2. Len(r) \in Nat
    BY DEF TailsOf
  <1> HIDE DEF w
  <1>3. Concat(S, s, r, w)
    BY <1>1, Zenon DEF w, Concat, TailsOf
  <1>4. /\ s \in Seq(S) /\ Len(s) = Len(r) + Len(w)
        /\ \A i \in 1 .. Len(r) : s[i] = r[i]
        /\ \A i \in 1 .. Len(w) : s[Len(r) + i] = w[i]
    BY <1>3, Joined
  <1> QED
    BY <1>1, <1>2, <1>4

(* What output, files and error_line are for each workload.                *)
LEMMA OutputIs ==
  ASSUME NEW c
  PROVE  /\ c.workload = "NcclTest" => output(c) = rows(c, "stdout")
              \o <<<<"stdout", "# Out of bounds values">>, <<"stdout", "# Avg bus bandwidth">>>>
         /\ c.workload = "DDLBTest" => output(c) = <<<<"stdout", "Benchmark Results">>>>
         /\ c.workload = "OSUBench" => output(c) =
              (IF c.option = "osu_hello" THEN <<>> ELSE <<<<"stdout", "# Size">>>>) \o rows(c, "stdout")
         /\ c.workload = "NeMoRun" => output(c) =
              <<<<"stderr", "max_steps=">>>> \o rows(c, "stdout") \o <<<<"stderr", "reached">>>>
         /\ c.workload = "MegatronRun" => output(c) =
              IF c.option = "evaluate" THEN <<<<"stdout", "validation loss at iteration">>>> ELSE rows(c, "stdout")
         /\ c.workload = "MegatronBridge" => output(c) = rows(c, "launcher")
         /\ c.workload \in {"NIXLBench", "NIXLKVBench"} => output(c) =
              <<<<"stdout", "header">>>> \o rows(c, "stdout")
         /\ c.workload = "ChakraReplay" => output(c) =
              <<<<"stdout", "Hello from Rank">>>> \o rows(c, "stdout")
                \o <<<<"stdout", "Performance of replayed comms">>>> \o rows(c, "stdout")
         /\ c.workload = "DeepEP" => output(c) = rows(c, "results") \o <<<<"results", "end of JSON">>>>
         /\ c.workload = "NeMoLauncher" => output(c) = rows(c, "run") \o <<<<"run", "train_step_timing">>>>
         /\ c.workload \notin {"NcclTest", "DDLBTest", "OSUBench", "NeMoRun", "MegatronRun", "MegatronBridge",
                               "NIXLBench", "NIXLKVBench", "ChakraReplay", "DeepEP", "NeMoLauncher"}
              => output(c) = rows(c, "stdout")
  <1> QED BY Zenon DEF output

(* The file that results are reported in.                                  *)
Results(c) ==
  IF c.workload = "MegatronBridge" THEN "launcher" ELSE
  IF c.workload = "NeMoLauncher" THEN "run" ELSE
  IF c.workload = "DeepEP" THEN "results" ELSE "stdout"

LEMMA FilesAre ==
  ASSUME NEW c
  PROVE  /\ Results(c) \in files(c) /\ error_file(c) \in files(c)
         /\ c.workload \notin {"MegatronBridge", "NeMoLauncher"} => "stdout" \in files(c) /\ "stderr" \in files(c)
         /\ files(c) \subseteq {"launcher", "run", "stdout", "stderr", "results"}
  <1>1. /\ c.workload = "MegatronBridge" => files(c) = {"launcher"} /\ error_file(c) = "launcher"
        /\ c.workload = "NeMoLauncher" => files(c) = {"run"} /\ error_file(c) = "run"
        /\ c.workload = "DeepEP" => files(c) = {"stdout", "stderr", "results"} /\ error_file(c) = "stdout"
        /\ c.workload \notin {"MegatronBridge", "NeMoLauncher", "DeepEP"} =>
             files(c) = {"stdout", "stderr"} /\ error_file(c) = "stdout"
    BY Zenon DEF files, error_file
  <1> QED
    BY <1>1 DEF Results

LEMMA ErrorLineIs ==
  ASSUME NEW c
  PROVE  /\ c.workload = "NcclTest" => error_line(c) = "Test failure"
         /\ c.workload = "DDLBTest" => error_line(c) = "Error"
         /\ c.workload \notin {"NcclTest", "DDLBTest"} => error_line(c) = "traceback"
  BY Zenon DEF error_line

(* What a program may print.                                               *)
Printable ==
  {"row", "# Out of bounds values", "# Avg bus bandwidth", "Benchmark Results", "# Size", "max_steps=", "reached",
   "validation loss at iteration", "header", "Hello from Rank", "Performance of replayed comms", "end of JSON",
   "train_step_timing"}

Text(c) == {<<f, t>> : f \in files(c), t \in Printable}

(* The lines of a program's output name a file of the run.                 *)
LEMMA TextFacts ==
  ASSUME NEW c
  PROVE  /\ \A f \in files(c) : \A t \in Printable : <<f, t>> \in Text(c)
         /\ \A x \in Text(c) : x = <<x[1], x[2]>> /\ x[1] \in files(c) /\ x[2] \in Printable
         /\ \A x \in Text(c) : x[2] # error_line(c)
  <1>1. \A f \in files(c) : \A t \in Printable : <<f, t>> \in Text(c)
    BY DEF Text
  <1>2. \A x \in Text(c) : x = <<x[1], x[2]>> /\ x[1] \in files(c) /\ x[2] \in Printable
    BY DEF Text
  <1>3. error_line(c) \in {"Test failure", "Error", "traceback"}
    BY ErrorLineIs
  <1>4. \A t \in Printable : t # error_line(c)
    BY <1>3 DEF Printable
  <1> QED
    BY <1>1, <1>2, <1>4, Zenon

LEMMA RowsFacts ==
  ASSUME NEW c \in Configs, NEW f \in files(c)
  PROVE  /\ rows(c, f) \in Seq(Text(c)) /\ Len(rows(c, f)) = c.steps /\ c.steps \in Nat \ {0}
         /\ \A i \in 1 .. c.steps : rows(c, f)[i] = <<f, "row">>
  <1>1. c.steps \in Nat \ {0}
    BY ConfigsAssumption
  <1>2. <<f, "row">> \in Text(c)
    BY DEF Text, Printable
  <1> DEFINE n == c.steps
             r == <<f, "row">>
  <1> HIDE DEF n, r
  <1>3. n \in Nat \ {0} /\ r \in Text(c)
    BY <1>1, <1>2 DEF n, r
  <1>4. /\ [i \in 1 .. n |-> r] \in Seq(Text(c)) /\ Len([i \in 1 .. n |-> r]) = n
        /\ \A i \in 1 .. n : [j \in 1 .. n |-> r][i] = r
    BY <1>3
  <1> QED
    BY <1>1, <1>4, Zenon DEF rows, n, r

(* What the programs print, line by line.                                  *)
LEMMA NcclOutput ==
  ASSUME NEW c \in Configs, c.workload = "NcclTest"
  PROVE  /\ output(c) \in Seq(Text(c)) /\ Len(output(c)) = c.steps + 2
         /\ \A i \in 1 .. c.steps : output(c)[i] = <<"stdout", "row">>
         /\ output(c)[c.steps + 1] = <<"stdout", "# Out of bounds values">>
         /\ output(c)[c.steps + 2] = <<"stdout", "# Avg bus bandwidth">>
  <1> DEFINE o == output(c)
             r == rows(c, "stdout")
             x == <<"stdout", "# Out of bounds values">>
             y == <<"stdout", "# Avg bus bandwidth">>
  <1>1. x \in Text(c) /\ y \in Text(c) /\ "stdout" \in files(c)
    BY FilesAre, TextFacts DEF Printable
  <1>2. r \in Seq(Text(c)) /\ Len(r) = c.steps /\ \A i \in 1 .. c.steps : r[i] = <<"stdout", "row">>
    BY <1>1, RowsFacts
  <1>3. o = r \o <<x, y>>
    BY OutputIs
  <1> HIDE DEF o, r, x, y
  <1>4. TailsOf(Text(c), o, r, x, y)
    BY <1>1, <1>2, <1>3, Zenon DEF TailsOf
  <1>5. /\ o \in Seq(Text(c)) /\ Len(o) = Len(r) + 2 /\ o[Len(r) + 1] = x /\ o[Len(r) + 2] = y
        /\ \A i \in 1 .. Len(r) : o[i] = r[i]
    BY <1>4, TailedTwice
  <1> QED
    BY <1>2, <1>5, Zenon DEF o, x, y

LEMMA DdlbOutput ==
  ASSUME NEW c \in Configs, c.workload = "DDLBTest"
  PROVE  /\ output(c) \in Seq(Text(c)) /\ Len(output(c)) = 1
         /\ output(c)[1] = <<"stdout", "Benchmark Results">>
  <1> DEFINE x == <<"stdout", "Benchmark Results">>
  <1>1. x \in Text(c)
    BY FilesAre, TextFacts DEF Printable
  <1>2. output(c) = <<x>>
    BY OutputIs
  <1> HIDE DEF x
  <1>3. output(c) \in Seq(Text(c)) /\ Len(output(c)) = 1 /\ output(c)[1] = x
    BY <1>1, <1>2
  <1> QED
    BY <1>3 DEF x

LEMMA OsuOutput ==
  ASSUME NEW c \in Configs, c.workload = "OSUBench"
  PROVE  /\ output(c) \in Seq(Text(c)) /\ Len(output(c)) \in Nat \ {0}
         /\ c.option # "osu_hello" => output(c)[1] = <<"stdout", "# Size">>
         /\ \A i \in 1 .. Len(output(c)) : output(c)[i][1] = "stdout"
  <1> DEFINE o == output(c)
             r == rows(c, "stdout")
             x == <<"stdout", "# Size">>
  <1>1. x \in Text(c) /\ "stdout" \in files(c)
    BY FilesAre, TextFacts DEF Printable
  <1>2. /\ r \in Seq(Text(c)) /\ Len(r) = c.steps /\ c.steps \in Nat \ {0}
        /\ \A i \in 1 .. c.steps : r[i] = <<"stdout", "row">>
    BY <1>1, RowsFacts
  <1>3. \A i \in 1 .. Len(r) : r[i][1] = "stdout"
    BY <1>2
  <1>4. CASE c.option = "osu_hello"
    <2>1. o = <<>> \o r
      BY <1>4, OutputIs
    <2> HIDE DEF o, r
    <2>2. o = r
      BY <1>2, <2>1
    <2> QED
      BY <1>2, <1>3, <1>4, <2>2 DEF o
  <1>5. CASE c.option # "osu_hello"
    <2>1. o = <<x>> \o r
      BY <1>5, OutputIs
    <2>2. x[1] = "stdout"
      OBVIOUS
    <2> HIDE DEF o, r, x
    <2>3. HeadOf(Text(c), o, x, r)
      BY <1>1, <1>2, <2>1, Zenon DEF HeadOf
    <2>4. /\ o \in Seq(Text(c)) /\ Len(o) = Len(r) + 1 /\ o[1] = x /\ Len(r) \in Nat
          /\ \A i \in 1 .. Len(r) : o[i + 1] = r[i]
      BY <2>3, Headed
    <2>5. \A i \in 1 .. Len(o) : o[i][1] = "stdout"
      <3> TAKE i \in 1 .. Len(o)
      <3>1. CASE i = 1
        BY <2>2, <2>4, <3>1
      <3>2. CASE i # 1
        <4>1. i - 1 \in 1 .. Len(r) /\ i = (i - 1) + 1
          BY <2>4, <3>2
        <4> QED
          BY <1>3, <2>4, <4>1, ZenonT(60)
      <3> QED
        BY <3>1, <3>2
    <2>6. Len(o) \in Nat \ {0}
      BY <2>4
    <2> QED
      BY <2>4, <2>5, <2>6, Zenon DEF o, x
  <1> QED
    BY <1>4, <1>5

LEMMA NemoRunOutput ==
  ASSUME NEW c \in Configs, c.workload = "NeMoRun"
  PROVE  /\ output(c) \in Seq(Text(c)) /\ Len(output(c)) = c.steps + 2
         /\ output(c)[1] = <<"stderr", "max_steps=">>
         /\ \A i \in 1 .. c.steps : output(c)[i + 1] = <<"stdout", "row">>
         /\ output(c)[c.steps + 2] = <<"stderr", "reached">>
  <1> DEFINE o == output(c)
             r == rows(c, "stdout")
             x == <<"stderr", "max_steps=">>
             y == <<"stderr", "reached">>
             t == <<x>> \o r
  <1>1. x \in Text(c) /\ y \in Text(c) /\ "stdout" \in files(c)
    BY FilesAre, TextFacts DEF Printable
  <1>2. /\ r \in Seq(Text(c)) /\ Len(r) = c.steps /\ c.steps \in Nat \ {0}
        /\ \A i \in 1 .. c.steps : r[i] = <<"stdout", "row">>
    BY <1>1, RowsFacts
  <1>3. o = t \o <<y>>
    BY OutputIs
  <1> HIDE DEF o, r, x, y
  <1>4. HeadOf(Text(c), t, x, r)
    BY <1>1, <1>2, Zenon DEF HeadOf
  <1> HIDE DEF t
  <1>5. /\ t \in Seq(Text(c)) /\ Len(t) = Len(r) + 1 /\ t[1] = x
        /\ \A i \in 1 .. Len(r) : t[i + 1] = r[i]
    BY <1>4, Headed
  <1>6. TailOf(Text(c), o, t, y)
    BY <1>1, <1>3, <1>5, Zenon DEF TailOf
  <1>7. /\ o \in Seq(Text(c)) /\ Len(o) = Len(t) + 1 /\ o[Len(t) + 1] = y
        /\ \A i \in 1 .. Len(t) : o[i] = t[i]
    BY <1>6, Tailed
  <1>8. /\ Len(t) = c.steps + 1 /\ 1 \in 1 .. Len(t) /\ Len(t) + 1 = c.steps + 2
        /\ \A i \in 1 .. c.steps : i + 1 \in 1 .. Len(t)
    BY <1>2, <1>5
  <1> QED
    BY <1>2, <1>5, <1>7, <1>8, Zenon DEF o, x, y

LEMMA MegatronOutput ==
  ASSUME NEW c \in Configs, c.workload = "MegatronRun"
  PROVE  /\ output(c) \in Seq(Text(c)) /\ Len(output(c)) \in Nat \ {0}
         /\ c.option = "evaluate" => output(c)[1] = <<"stdout", "validation loss at iteration">>
         /\ c.option # "evaluate" => \A i \in 1 .. Len(output(c)) : output(c)[i] = <<"stdout", "row">>
  <1> DEFINE x == <<"stdout", "validation loss at iteration">>
  <1>1. x \in Text(c) /\ "stdout" \in files(c)
    BY FilesAre, TextFacts DEF Printable
  <1>2. CASE c.option = "evaluate"
    <2>1. output(c) = <<x>>
      BY <1>2, OutputIs
    <2> HIDE DEF x
    <2>2. output(c) \in Seq(Text(c)) /\ Len(output(c)) = 1 /\ output(c)[1] = x
      BY <1>1, <2>1
    <2>3. 1 \in Nat \ {0}
      OBVIOUS
    <2> QED
      BY <1>2, <2>2, <2>3, Zenon DEF x
  <1>3. CASE c.option # "evaluate"
    <2>1. output(c) = rows(c, "stdout")
      BY <1>3, OutputIs
    <2> QED
      BY <1>1, <1>3, <2>1, RowsFacts
  <1> QED
    BY <1>2, <1>3

LEMMA NixlOutput ==
  ASSUME NEW c \in Configs, c.workload \in {"NIXLBench", "NIXLKVBench"}
  PROVE  /\ output(c) \in Seq(Text(c)) /\ Len(output(c)) \in Nat \ {0, 1}
         /\ output(c)[1] = <<"stdout", "header">> /\ output(c)[2] = <<"stdout", "row">>
  <1> DEFINE o == output(c)
             r == rows(c, "stdout")
             x == <<"stdout", "header">>
  <1>1. x \in Text(c) /\ "stdout" \in files(c)
    BY FilesAre, TextFacts DEF Printable
  <1>2. /\ r \in Seq(Text(c)) /\ Len(r) = c.steps /\ c.steps \in Nat \ {0}
        /\ \A i \in 1 .. c.steps : r[i] = <<"stdout", "row">>
    BY <1>1, RowsFacts
  <1>3. o = <<x>> \o r
    BY OutputIs
  <1> HIDE DEF o, r, x
  <1>4. HeadOf(Text(c), o, x, r)
    BY <1>1, <1>2, <1>3, Zenon DEF HeadOf
  <1>5. /\ o \in Seq(Text(c)) /\ Len(o) = Len(r) + 1 /\ o[1] = x
        /\ \A i \in 1 .. Len(r) : o[i + 1] = r[i]
    BY <1>4, Headed
  <1>6. 1 \in 1 .. Len(r) /\ 1 \in 1 .. c.steps /\ 2 = 1 + 1 /\ Len(o) \in Nat \ {0, 1}
    BY <1>2, <1>5
  <1>7. o[2] = <<"stdout", "row">>
    BY <1>2, <1>5, <1>6, Zenon
  <1> QED
    BY <1>5, <1>6, <1>7, Zenon DEF o, x

LEMMA ChakraOutput ==
  ASSUME NEW c \in Configs, c.workload = "ChakraReplay"
  PROVE  /\ output(c) \in Seq(Text(c)) /\ Len(output(c)) \in Nat \ {0, 1}
         /\ output(c)[1] = <<"stdout", "Hello from Rank">> /\ output(c)[2] = <<"stdout", "row">>
  <1> DEFINE o == output(c)
             r == rows(c, "stdout")
             x == <<"stdout", "Hello from Rank">>
             y == <<"stdout", "Performance of replayed comms">>
             t == <<x>> \o r
             u == t \o <<y>>
  <1>1. x \in Text(c) /\ y \in Text(c) /\ "stdout" \in files(c)
    BY FilesAre, TextFacts DEF Printable
  <1>2. /\ r \in Seq(Text(c)) /\ Len(r) = c.steps /\ c.steps \in Nat \ {0}
        /\ \A i \in 1 .. c.steps : r[i] = <<"stdout", "row">>
    BY <1>1, RowsFacts
  <1>3. o = u \o r
    BY OutputIs
  <1> HIDE DEF o, r, x, y
  <1>4. HeadOf(Text(c), t, x, r)
    BY <1>1, <1>2, Zenon DEF HeadOf
  <1> HIDE DEF t
  <1>5. /\ t \in Seq(Text(c)) /\ Len(t) = Len(r) + 1 /\ t[1] = x
        /\ \A i \in 1 .. Len(r) : t[i + 1] = r[i]
    BY <1>4, Headed
  <1>6. TailOf(Text(c), u, t, y)
    BY <1>1, <1>5, Zenon DEF TailOf
  <1> HIDE DEF u
  <1>7. u \in Seq(Text(c)) /\ Len(u) = Len(t) + 1 /\ \A i \in 1 .. Len(t) : u[i] = t[i]
    BY <1>6, Tailed
  <1>8. Concat(Text(c), o, u, r)
    BY <1>2, <1>3, <1>7, Zenon DEF Concat
  <1>9. o \in Seq(Text(c)) /\ Len(o) = Len(u) + Len(r) /\ \A i \in 1 .. Len(u) : o[i] = u[i]
    BY <1>8, Joined
  <1>10. /\ 1 \in 1 .. Len(u) /\ 2 \in 1 .. Len(u) /\ 1 \in 1 .. Len(t) /\ 2 \in 1 .. Len(t)
         /\ 1 \in 1 .. Len(r) /\ 1 \in 1 .. c.steps /\ 2 = 1 + 1 /\ Len(o) \in Nat \ {0, 1}
    <2> DEFINE n == Len(r)
               lt == Len(t)
               lu == Len(u)
               lo == Len(o)
    <2>1. n \in Nat \ {0} /\ n = c.steps /\ lt = n + 1 /\ lu = lt + 1 /\ lo = lu + n
      BY <1>2, <1>5, <1>7, <1>9
    <2> HIDE DEF n, lt, lu, lo
    <2>2. /\ 1 \in 1 .. lu /\ 2 \in 1 .. lu /\ 1 \in 1 .. lt /\ 2 \in 1 .. lt
          /\ 1 \in 1 .. n /\ 1 \in 1 .. c.steps /\ 2 = 1 + 1 /\ lo \in Nat \ {0, 1}
      BY <2>1
    <2> QED
      BY <2>2 DEF n, lt, lu, lo
  <1>a. o[1] = u[1] /\ o[2] = u[2]
    BY <1>9, <1>10, Zenon
  <1>b. u[1] = t[1] /\ u[2] = t[2]
    BY <1>7, <1>10, Zenon
  <1>c. t[1] = x /\ t[1 + 1] = r[1] /\ r[1] = <<"stdout", "row">>
    BY <1>2, <1>5, <1>10, Zenon
  <1>11. o[1] = x /\ o[2] = <<"stdout", "row">>
    BY <1>10, <1>a, <1>b, <1>c, Zenon
  <1> QED
    BY <1>9, <1>10, <1>11, Zenon DEF o, x

LEMMA DeepEpOutput ==
  ASSUME NEW c \in Configs, c.workload = "DeepEP"
  PROVE  /\ output(c) \in Seq(Text(c)) /\ Len(output(c)) \in Nat \ {0, 1}
         /\ output(c)[1] = <<"results", "row">>
         /\ output(c)[Len(output(c))] = <<"results", "end of JSON">>
  <1> DEFINE o == output(c)
             r == rows(c, "results")
             x == <<"results", "end of JSON">>
  <1>1. x \in Text(c) /\ "results" \in files(c)
    BY FilesAre, TextFacts DEF Printable, Results
  <1>2. /\ r \in Seq(Text(c)) /\ Len(r) = c.steps /\ c.steps \in Nat \ {0}
        /\ \A i \in 1 .. c.steps : r[i] = <<"results", "row">>
    BY <1>1, RowsFacts
  <1>3. o = r \o <<x>>
    BY OutputIs
  <1> HIDE DEF o, r, x
  <1>4. TailOf(Text(c), o, r, x)
    BY <1>1, <1>2, <1>3, Zenon DEF TailOf
  <1>5. /\ o \in Seq(Text(c)) /\ Len(o) = Len(r) + 1 /\ o[Len(r) + 1] = x
        /\ \A i \in 1 .. Len(r) : o[i] = r[i]
    BY <1>4, Tailed
  <1>6. 1 \in 1 .. Len(r) /\ 1 \in 1 .. c.steps /\ Len(o) \in Nat \ {0, 1}
    BY <1>2, <1>5
  <1>7. o[1] = <<"results", "row">> /\ o[Len(o)] = x
    BY <1>2, <1>5, <1>6, Zenon
  <1> QED
    BY <1>5, <1>6, <1>7, Zenon DEF o, x

LEMMA LauncherOutput ==
  ASSUME NEW c \in Configs, c.workload = "NeMoLauncher"
  PROVE  /\ output(c) \in Seq(Text(c)) /\ Len(output(c)) \in Nat \ {0, 1}
         /\ output(c)[1] = <<"run", "row">>
         /\ output(c)[Len(output(c))] = <<"run", "train_step_timing">>
  <1> DEFINE o == output(c)
             r == rows(c, "run")
             x == <<"run", "train_step_timing">>
  <1>1. x \in Text(c) /\ "run" \in files(c)
    BY FilesAre, TextFacts DEF Printable, Results
  <1>2. /\ r \in Seq(Text(c)) /\ Len(r) = c.steps /\ c.steps \in Nat \ {0}
        /\ \A i \in 1 .. c.steps : r[i] = <<"run", "row">>
    BY <1>1, RowsFacts
  <1>3. o = r \o <<x>>
    BY OutputIs
  <1> HIDE DEF o, r, x
  <1>4. TailOf(Text(c), o, r, x)
    BY <1>1, <1>2, <1>3, Zenon DEF TailOf
  <1>5. /\ o \in Seq(Text(c)) /\ Len(o) = Len(r) + 1 /\ o[Len(r) + 1] = x
        /\ \A i \in 1 .. Len(r) : o[i] = r[i]
    BY <1>4, Tailed
  <1>6. 1 \in 1 .. Len(r) /\ 1 \in 1 .. c.steps /\ Len(o) \in Nat \ {0, 1}
    BY <1>2, <1>5
  <1>7. o[1] = <<"run", "row">> /\ o[Len(o)] = x
    BY <1>2, <1>5, <1>6, Zenon
  <1> QED
    BY <1>5, <1>6, <1>7, Zenon DEF o, x

LEMMA RowsOutput ==
  ASSUME NEW c \in Configs,
         c.workload \notin {"NcclTest", "DDLBTest", "OSUBench", "NeMoRun", "MegatronRun",
                            "NIXLBench", "NIXLKVBench", "ChakraReplay", "DeepEP", "NeMoLauncher"}
  PROVE  /\ output(c) \in Seq(Text(c)) /\ Len(output(c)) \in Nat \ {0}
         /\ \A i \in 1 .. Len(output(c)) : output(c)[i] = <<Results(c), "row">>
  <1>1. output(c) = rows(c, Results(c))
    BY OutputIs DEF Results
  <1>2. Results(c) \in files(c)
    BY FilesAre
  <1> HIDE DEF Results
  <1>3. /\ rows(c, Results(c)) \in Seq(Text(c)) /\ Len(rows(c, Results(c))) = c.steps /\ c.steps \in Nat \ {0}
        /\ \A i \in 1 .. c.steps : rows(c, Results(c))[i] = <<Results(c), "row">>
    BY <1>2, RowsFacts
  <1> QED
    BY <1>1, <1>3

(* Every line goes to one of the files of the run.                         *)
LEMMA OutputText ==
  ASSUME NEW c \in Configs
  PROVE  output(c) \in Seq(Text(c)) /\ Len(output(c)) \in Nat \ {0}
  <1>1. CASE c.workload = "NcclTest"
    <2>1. c.steps \in Nat
      BY ConfigsAssumption
    <2>2. output(c) \in Seq(Text(c)) /\ Len(output(c)) = c.steps + 2
      BY <1>1, NcclOutput
    <2>3. c.steps + 2 \in Nat \ {0}
      BY <2>1
    <2> QED
      BY <2>2, <2>3
  <1>2. CASE c.workload = "NeMoRun"
    <2>1. c.steps \in Nat
      BY ConfigsAssumption
    <2>2. output(c) \in Seq(Text(c)) /\ Len(output(c)) = c.steps + 2
      BY <1>2, NemoRunOutput
    <2>3. c.steps + 2 \in Nat \ {0}
      BY <2>1
    <2> QED
      BY <2>2, <2>3
  <1>3. CASE c.workload = "DDLBTest"
    <2>1. output(c) \in Seq(Text(c)) /\ Len(output(c)) = 1
      BY <1>3, DdlbOutput
    <2> QED
      BY <2>1
  <1>4. CASE c.workload \in {"OSUBench", "MegatronRun"}
    BY <1>4, OsuOutput, MegatronOutput
  <1>5. CASE c.workload \in {"NIXLBench", "NIXLKVBench"}
    BY <1>5, NixlOutput
  <1>6. CASE c.workload \in {"ChakraReplay", "DeepEP", "NeMoLauncher"}
    BY <1>6, ChakraOutput, DeepEpOutput, LauncherOutput
  <1>7. CASE c.workload \notin {"NcclTest", "DDLBTest", "OSUBench", "NeMoRun", "MegatronRun",
                                "NIXLBench", "NIXLKVBench", "ChakraReplay", "DeepEP", "NeMoLauncher"}
    BY <1>7, RowsOutput
  <1> QED
    BY <1>1, <1>2, <1>3, <1>4, <1>5, <1>6, <1>7

-----------------------------------------------------------------------------
(* The device files of NIXL.                                               *)

(* Natural numbers. A set of them has a least element, so that a set that  *)
(* holds 0 and with every number the next one holds them all; and what is  *)
(* defined from number to number exists.                                   *)

(* Two facts that induction over the numbers would give, from the well-    *)
(* founded order of Nat: a set of numbers that is not empty has a least    *)
(* element, and a set that holds 0 and, with a number, the next one holds  *)
(* all.                                                                    *)
Less == {ss \in Nat \X Nat : ss[1] < ss[2]}

LEMMA LeastElement ==
  ASSUME NEW S \in SUBSET Nat, S # {}
  PROVE  \E x \in S : \A y \in S : x <= y
  <1>1. IsWellFoundedOn(Less, Nat)
    BY NatLessThanWellFounded DEF OpToRel, Less
  <1>2. PICK x \in S : \A y \in S : <<y, x>> \notin Less
    BY <1>1, WFMin
  <1>3. ASSUME NEW y \in S PROVE x <= y
    <2>1. x \in Nat /\ y \in Nat /\ <<y, x>> \notin Less
      BY <1>2
    <2> QED
      BY <2>1 DEF Less
  <1> QED
    BY <1>3

LEMMA Upto ==
  ASSUME NEW N \in Nat, NEW P, 0 \in P, \A n \in 0 .. N - 1 : n \in P => n + 1 \in P
  PROVE  \A n \in 0 .. N : n \in P
  <1> SUFFICES ASSUME (0 .. N) \ P # {} PROVE FALSE
    OBVIOUS
  <1> DEFINE S == (0 .. N) \ P
  <1>0. S \in SUBSET Nat /\ S # {}
    OBVIOUS
  <1>1. PICK x \in S : \A y \in S : x <= y
    <2> HIDE DEF S
    <2> QED
      BY <1>0, LeastElement
  <1>2. x # 0 /\ x - 1 \in 0 .. N - 1 /\ x - 1 \in P
    BY <1>1
  <1> QED
    BY <1>1, <1>2

(* A function defined by recursion on 0 .. N exists: from its first value  *)
(* and its steps. device_files is one.                                     *)
StepsOf(N, V, F) == F \in [(1 .. N) \X V -> V]
Course(N, V, v0, F, g) ==
  g \in [0 .. N -> V] /\ g[0] = v0 /\ \A n \in 1 .. N : g[n] = F[<<n, g[n - 1]>>]

LEMMA Recursion ==
  ASSUME NEW N \in Nat, NEW V, NEW v0 \in V, NEW F, StepsOf(N, V, F)
  PROVE  \E g : Course(N, V, v0, F, g)
  <1> DEFINE P == {n \in 0 .. N : \E g \in [0 .. n -> V] :
                     g[0] = v0 /\ \A i \in 1 .. n : g[i] = F[<<i, g[i - 1]>>]}
  <1>0. F \in [(1 .. N) \X V -> V]
    BY DEF StepsOf
  <1>1. 0 \in P
    <2> DEFINE h == [n \in 0 .. 0 |-> v0]
    <2>1. h \in [0 .. 0 -> V] /\ h[0] = v0 /\ \A i \in 1 .. 0 : h[i] = F[<<i, h[i - 1]>>]
      OBVIOUS
    <2>2. 0 \in 0 .. N
      OBVIOUS
    <2> HIDE DEF h
    <2> QED
      BY <2>1, <2>2
  <1>2. ASSUME NEW n \in 0 .. N - 1, n \in P PROVE n + 1 \in P
    <2>1. PICK g \in [0 .. n -> V] : g[0] = v0 /\ \A i \in 1 .. n : g[i] = F[<<i, g[i - 1]>>]
      BY <1>2
    <2> DEFINE h == [i \in 0 .. n + 1 |-> IF i = n + 1 THEN F[<<n + 1, g[n]>>] ELSE g[i]]
    <2>2. h \in [0 .. n + 1 -> V]
      BY <1>0, <2>1
    <2>3. ASSUME NEW i \in 1 .. n + 1 PROVE h[i] = F[<<i, h[i - 1]>>]
      <3>1. i - 1 \in 0 .. n /\ h[i - 1] = g[i - 1]
        BY <2>1
      <3>2. CASE i = n + 1
        <4>1. h[i] = F[<<n + 1, g[n]>>] /\ h[i - 1] = g[n]
          BY <3>1, <3>2
        <4> HIDE DEF h
        <4> QED
          BY <3>2, <4>1
      <3>3. CASE i # n + 1
        BY <2>1, <3>1, <3>3
      <3> QED
        BY <3>2, <3>3
    <2>4. h[0] = v0 /\ n + 1 \in 0 .. N
      BY <2>1
    <2> HIDE DEF h
    <2> QED
      BY <2>2, <2>3, <2>4
  <1> HIDE DEF P
  <1>3. N \in P
    BY <1>1, <1>2, Upto
  <1> QED
    BY <1>3 DEF P, Course


(* The name of a device file is new among those given before.              *)
Names == Seq(Nat)

(* Among more numbers than there are names, one gives a new name; the      *)
(* least of them is the one unique_file_name takes.                        *)
LEMMA NewNumber ==
  ASSUME NEW name \in Names, NEW used, IsFiniteSet(used)
  PROVE  \E i \in 1 .. Cardinality(used) + 1 :
           Append(name, i) \notin used /\ \A j \in 1 .. i - 1 : Append(name, j) \in used
  <1> DEFINE K == Cardinality(used)
             J == {i \in 1 .. K + 1 : Append(name, i) \notin used}
  <1>1. K \in Nat
    BY FS_CardinalityType
  <1>2. J # {}
    <2> SUFFICES ASSUME \A i \in 1 .. K + 1 : Append(name, i) \in used PROVE FALSE
      OBVIOUS
    <2> DEFINE f == [i \in 1 .. K + 1 |-> Append(name, i)]
    <2>1. f \in [1 .. K + 1 -> used]
      OBVIOUS
    <2>2. IsFiniteSet(1 .. K + 1) /\ Cardinality(1 .. K + 1) = K + 1
      <3>1. 1 \in Int /\ K + 1 \in Int /\ ~(1 > K + 1) /\ (K + 1) - 1 + 1 = K + 1
        BY <1>1
      <3> HIDE DEF K
      <3> QED
        BY <3>1, FS_Interval
    <2>3. Cardinality(used) < Cardinality(1 .. K + 1)
      BY <1>1, <2>2
    <2>4. \A i, j \in 1 .. K + 1 : f[i] = f[j] => i = j
      <3> SUFFICES ASSUME NEW i \in 1 .. K + 1, NEW j \in 1 .. K + 1, Append(name, i) = Append(name, j)
                   PROVE  i = j
        OBVIOUS
      <3>1. name \in Seq(Nat) /\ i \in Nat /\ j \in Nat
        BY <1>1 DEF Names
      <3>2. Append(name, i)[Len(name) + 1] = i /\ Append(name, j)[Len(name) + 1] = j
        BY <3>1
      <3> QED
        BY <3>2
    <2> HIDE DEF f, K
    <2>5. \E i, j \in 1 .. K + 1 : i # j /\ f[i] = f[j]
      BY <2>1, <2>2, <2>3, FS_PigeonHole
    <2> QED
      BY <2>4, <2>5
  <1>3. J \in SUBSET Nat
    BY <1>1
  <1>4. PICK i \in J : \A j \in J : i <= j
    <2> HIDE DEF J
    <2> QED
      BY <1>2, <1>3, LeastElement
  <1>5. \A j \in 1 .. i - 1 : Append(name, j) \in used
    <2> TAKE j \in 1 .. i - 1
    <2>1. j \in 1 .. K + 1 /\ ~(i <= j)
      BY <1>1, <1>4
    <2> QED
      BY <1>4, <2>1
  <1> QED
    BY <1>4, <1>5

LEMMA UniqueName ==
  ASSUME NEW name \in Names, NEW used \in SUBSET Names, IsFiniteSet(used)
  PROVE  unique_file_name(name, used) \in Names /\ unique_file_name(name, used) \notin used
  <1>1. CASE name \notin used
    BY <1>1 DEF unique_file_name
  <1>2. CASE name \in used
    <2> DEFINE New(i) == /\ Append(name, i) \notin used
                         /\ \A j \in 1 .. (i - 1) : Append(name, j) \in used
               n == CHOOSE i \in 1 .. (Cardinality(used) + 1) : New(i)
    <2>1. \E i \in 1 .. (Cardinality(used) + 1) : New(i)
      BY NewNumber
    <2>2. n \in 1 .. (Cardinality(used) + 1) /\ New(n)
      <3> HIDE DEF New
      <3> QED
        BY <2>1
    <2>3. unique_file_name(name, used) = Append(name, n)
      BY <1>2 DEF unique_file_name
    <2>4. Append(name, n) \notin used /\ n \in Nat
      <3>1. Cardinality(used) \in Nat
        BY FS_CardinalityType
      <3> QED
        BY <2>2, <3>1
    <2> HIDE DEF n
    <2>5. Append(name, n) \in Names
      BY <2>4 DEF Names
    <2> QED
      BY <2>3, <2>4, <2>5
  <1> QED
    BY <1>1, <1>2

(* No two device files of a test run have the same name.                   *)
LEMMA DevicesDistinct ==
  ASSUME NEW devices \in Seq(Names)
  PROVE  Cardinality(ToSet(device_files(devices))) = Len(devices)
  <1> DEFINE N == Len(devices)
             V == Seq(Names)
             F == [x \in (1 .. N) \X V |-> Append(x[2], unique_file_name(devices[x[1]], ToSet(x[2])))]
             Given(g) == g = [n \in 0 .. N |-> IF n = 0 THEN <<>>
                                ELSE Append(g[n - 1], unique_file_name(devices[n], ToSet(g[n - 1])))]
  <1>1. N \in Nat /\ \A n \in 1 .. N : devices[n] \in Names
    OBVIOUS
  <1>2. ASSUME NEW s \in V PROVE ToSet(s) \in SUBSET Names /\ IsFiniteSet(ToSet(s))
    <2>1. ToSet(s) \in SUBSET Names
      BY DEF ToSet
    <2>2. Len(s) \in Nat /\ s \in [1 .. Len(s) -> Names]
      OBVIOUS
    <2>3. IsFiniteSet(1 .. Len(s))
      BY <2>2, FS_Interval
    <2>4. s \in Surjection(1 .. Len(s), ToSet(s))
      BY <2>2 DEF ToSet, Surjection
    <2>5. IsFiniteSet(ToSet(s))
      BY <2>3, <2>4, FS_Surjection
    <2> QED
      BY <2>1, <2>5
  <1>3. ASSUME NEW n \in 1 .. N, NEW s \in V
        PROVE  /\ unique_file_name(devices[n], ToSet(s)) \in Names
               /\ unique_file_name(devices[n], ToSet(s)) \notin ToSet(s)
    BY <1>1, <1>2, UniqueName
  <1>4. StepsOf(N, V, F)
    <2>1. \A x \in (1 .. N) \X V :
            Append(x[2], unique_file_name(devices[x[1]], ToSet(x[2]))) \in V
      <3> TAKE x \in (1 .. N) \X V
      <3>1. x[1] \in 1 .. N /\ x[2] \in Seq(Names)
        OBVIOUS
      <3>2. unique_file_name(devices[x[1]], ToSet(x[2])) \in Names
        BY <1>3, <3>1
      <3> QED
        BY <3>1, <3>2
    <2> HIDE DEF N, V
    <2> QED
      BY <2>1 DEF StepsOf
  <1>5. PICK g : Course(N, V, <<>>, F, g)
    <2>1. <<>> \in V
      OBVIOUS
    <2> HIDE DEF F, V, N
    <2> QED
      BY <1>1, <1>4, <2>1, Recursion
  <1>6. g \in [0 .. N -> V] /\ g[0] = <<>>
    BY <1>5 DEF Course
  <1>7. \A n \in 1 .. N : g[n] = Append(g[n - 1], unique_file_name(devices[n], ToSet(g[n - 1])))
    <2> TAKE n \in 1 .. N
    <2>1. n - 1 \in 0 .. N
      BY <1>1
    <2>2. g[n - 1] \in V
      <3> HIDE DEF V, N, F
      <3> QED
        BY <2>1, <1>6
    <2>3. g[n] = F[<<n, g[n - 1]>>]
      <3> HIDE DEF V, N, F
      <3> QED
        BY <1>5 DEF Course
    <2> HIDE DEF V, N
    <2> QED
      BY <2>2, <2>3
  <1>8. Given(g)
    <2>1. g = [n \in 0 .. N |-> g[n]]
      BY <1>6
    <2>2. \A n \in 0 .. N : g[n] = IF n = 0 THEN <<>>
                                    ELSE Append(g[n - 1], unique_file_name(devices[n], ToSet(g[n - 1])))
      BY <1>1, <1>6, <1>7
    <2> QED
      BY <2>1, <2>2
  <1> DEFINE h == CHOOSE u : Given(u)
  <1>9. Given(h)
    <2> HIDE DEF Given
    <2> QED
      BY <1>8
  <1>10. device_files(devices) = h[N]
    BY DEF device_files
  <1> HIDE DEF h
  <1>11. \A n \in 0 .. N : h[n] = IF n = 0 THEN <<>>
                                   ELSE Append(h[n - 1], unique_file_name(devices[n], ToSet(h[n - 1])))
    BY <1>9
  <1> DEFINE P == {n \in 0 .. N : /\ h[n] \in V /\ Len(h[n]) = n
                                  /\ Cardinality(ToSet(h[n])) = n}
  <1>12. 0 \in P
    <2>1. h[0] = <<>> /\ 0 \in 0 .. N
      BY <1>1, <1>11
    <2>2. ToSet(<<>>) = {}
      BY DEF ToSet
    <2>3. <<>> \in V /\ Len(<<>>) = 0
      OBVIOUS
    <2> QED
      BY <2>1, <2>2, <2>3, FS_EmptySet
  <1>13. ASSUME NEW n \in 0 .. N - 1, n \in P PROVE n + 1 \in P
    <2> DEFINE x == unique_file_name(devices[n + 1], ToSet(h[n]))
    <2>1. n + 1 \in 1 .. N /\ n + 1 \in 0 .. N /\ (n + 1) - 1 = n /\ n + 1 # 0 /\ n \in Nat
      BY <1>1
    <2>2. h[n + 1] = Append(h[n], x)
      BY <1>11, <2>1
    <2>3. h[n] \in V /\ Len(h[n]) = n /\ Cardinality(ToSet(h[n])) = n
      BY <1>13
    <2>4. x \in Names /\ x \notin ToSet(h[n])
      BY <1>3, <2>1, <2>3
    <2>5. IsFiniteSet(ToSet(h[n]))
      BY <1>2, <2>3
    <2> HIDE DEF x
    <2>6. /\ Append(h[n], x) \in V /\ Len(Append(h[n], x)) = n + 1
          /\ ToSet(Append(h[n], x)) = ToSet(h[n]) \cup {x}
      <3> DEFINE s == h[n]
      <3>1. s \in Seq(Names) /\ Len(s) = n /\ n \in Nat
        BY <2>1, <2>3
      <3> HIDE DEF s
      <3>2. Append(s, x) \in Seq(Names) /\ Len(Append(s, x)) = n + 1
        BY <2>4, <3>1
      <3>3. ToSet(Append(s, x)) = ToSet(s) \cup {x}
        BY <2>4, <3>1 DEF ToSet
      <3> QED
        BY <3>2, <3>3 DEF s
    <2>7. Cardinality(ToSet(h[n]) \cup {x}) = n + 1
      BY <2>3, <2>4, <2>5, FS_AddElement
    <2> QED
      BY <2>1, <2>2, <2>6, <2>7
  <1>14. N \in P
    <2>1. \A n \in 0 .. N : n \in P
      <3> HIDE DEF P, N
      <3> QED
        BY <1>1, <1>12, <1>13, Upto
    <2> HIDE DEF P
    <2> QED
      BY <1>1, <2>1
  <1> QED
    BY <1>10, <1>14

-----------------------------------------------------------------------------
(* Layouts.                                                                *)

(* Division: what leaves no remainder divides.                             *)
LEMMA Division ==
  ASSUME NEW n \in Nat, NEW m \in Nat \ {0}, n % m = 0
  PROVE  n \div m \in Nat /\ n = m * (n \div m)
  <1>1. n \div m \in Nat
    OBVIOUS
  <1>2. n % m = n - m * (n \div m)
    BY Z3T(20)
  <1> DEFINE q == n \div m
  <1>3. q \in Nat /\ 0 = n - m * q
    BY <1>1, <1>2
  <1> HIDE DEF q
  <1>4. m * q \in Nat
    BY <1>3
  <1>5. n = m * q
    BY <1>3, <1>4
  <1> QED
    BY <1>3, <1>5 DEF q

LEMMA Factor ==
  ASSUME NEW k \in Nat, NEW m \in Nat \ {0}, NEW n \in Nat \ {0}, n = k * m
  PROVE  k \in 1 .. n
  <1>1. k # 0
    OBVIOUS
  <1>2. k * m >= k
    OBVIOUS
  <1> QED
    BY <1>1, <1>2

LEMMA Splits ==
  ASSUME NEW n \in Nat \ {0}, NEW m \in Nat \ {0}, n % m = 0
  PROVE  Split(n, m) /\ n \div m \in 1 .. n /\ n = m * (n \div m)
  <1> DEFINE k == n \div m
  <1>1. k \in Nat /\ n = m * k
    BY Division
  <1> HIDE DEF k
  <1>2. n = k * m
    BY <1>1
  <1>3. k \in 1 .. n
    BY <1>1, <1>2, Factor
  <1>4. Split(n, m)
    BY <1>2, <1>3 DEF Split
  <1> QED
    BY <1>1, <1>3, <1>4 DEF k

LEMMA SplitsPart ==
  ASSUME NEW n \in Nat \ {0}, NEW m \in Nat \ {0}, NEW l \in Nat \ {0}, Split(n, m * l)
  PROVE  Split(n, m)
  <1>1. PICK k \in 1 .. n : n = k * (m * l)
    BY DEF Split
  <1>2. k * l \in Nat /\ n = (k * l) * m
    BY <1>1
  <1>3. k * l \in 1 .. n
    <2> DEFINE q == k * l
    <2>1. q \in Nat /\ n = q * m
      BY <1>2
    <2> HIDE DEF q
    <2>2. q \in 1 .. n
      BY <2>1, Factor
    <2> QED
      BY <2>2 DEF q
  <1> QED
    BY <1>2, <1>3 DEF Split

LEMMA Product ==
  ASSUME NEW x \in Nat \ {0}, NEW y \in Nat \ {0}
  PROVE  x * y \in Nat \ {0}
  OBVIOUS

(* What constraint_check and Fits are, for the two workloads whose         *)
(* layouts are checked.                                                    *)
LEMMA LayoutChecks ==
  ASSUME NEW c
  PROVE  /\ c.workload = "NeMoRun" => constraint_check(c) = nemo_run_admits(c.layout)
         /\ c.workload = "MegatronBridge" => constraint_check(c) = megatron_bridge_admits(c.layout)
  BY Zenon DEF constraint_check

LEMMA FitsIs ==
  ASSUME NEW c
  PROVE  /\ c.workload = "NeMoRun" =>
              (Fits(c) <=> \E d \in 1 .. trainer_gpus(c.layout, GpusPerNode) :
                 /\ c.layout.tp * c.layout.pp * c.layout.cp * d = trainer_gpus(c.layout, GpusPerNode)
                 /\ Split(c.layout.gbs, c.layout.mbs * d))
         /\ c.workload = "MegatronBridge" =>
              (Fits(c) <=>
                 /\ \E d \in 1 .. c.layout.num_gpus :
                      /\ Or1(c.layout.tp) * Or1(c.layout.pp) * Or1(c.layout.cp) * d = c.layout.num_gpus
                      /\ (c.layout.mb # 0 /\ c.layout.gb # 0) => Split(c.layout.gb, c.layout.mb * d)
                 /\ (c.layout.et # None /\ c.layout.ep # None) =>
                      Split(c.layout.num_gpus, c.layout.et * c.layout.ep * Or1(c.layout.pp)))
         /\ c.workload \notin {"NeMoRun", "MegatronBridge"} => Fits(c)
  BY Zenon DEF Fits

(* What constraint_check admits has a data parallel size: the number of    *)
(* GPUs divided by the model parallel sizes; the batch is split over it.   *)
LEMMA AdmittedNeMoRun ==
  ASSUME NEW c \in Configs, c.workload = "NeMoRun", constraint_check(c), GpusPerNode = AssumedGpusPerNode
  PROVE  Fits(c)
  <1> DEFINE a == c.layout
             G == a.nnodes * 8
             M == a.tp * a.pp * a.cp
             d == G \div M
  <1>1. a \in NeMoRunLayout
    BY ConfigsAssumption
  <1>2. /\ a.tp \in Nat \ {0} /\ a.pp \in Nat \ {0} /\ a.cp \in Nat \ {0} /\ a.nnodes \in Nat \ {0}
        /\ a.mbs \in Nat \ {0} /\ a.gbs \in Nat \ {0}
    BY <1>1 DEF NeMoRunLayout
  <1>3. nemo_run_admits(a)
    BY LayoutChecks
  <1>4. G % M = 0 /\ d # 0 /\ a.gbs % (a.mbs * d) = 0
    BY <1>3 DEF nemo_run_admits, AssumedGpusPerNode
  <1>5. trainer_gpus(a, GpusPerNode) = G
    BY DEF trainer_gpus, AssumedGpusPerNode
  <1> HIDE DEF a
  <1>6. G \in Nat \ {0} /\ M \in Nat \ {0}
    <2>1. a.tp * a.pp \in Nat \ {0}
      BY <1>2, Product
    <2>2. M \in Nat \ {0}
      BY <1>2, <2>1, Product
    <2>3. G \in Nat \ {0}
      BY <1>2
    <2> QED
      BY <2>2, <2>3
  <1> HIDE DEF G, M
  <1>7. d \in 1 .. G /\ G = M * d
    BY <1>4, <1>6, Splits
  <1> HIDE DEF d
  <1>8. Split(a.gbs, a.mbs * d)
    <2>1. d \in Nat \ {0}
      BY <1>6, <1>7
    <2>2. a.mbs * d \in Nat \ {0}
      BY <1>2, <2>1, Product
    <2> QED
      BY <1>2, <1>4, <2>2, Splits
  <1>9. \E e \in 1 .. trainer_gpus(c.layout, GpusPerNode) :
           /\ c.layout.tp * c.layout.pp * c.layout.cp * e = trainer_gpus(c.layout, GpusPerNode)
           /\ Split(c.layout.gbs, c.layout.mbs * e)
    <2>1. d \in 1 .. trainer_gpus(a, GpusPerNode)
      BY <1>5, <1>7
    <2>2. a.tp * a.pp * a.cp * d = trainer_gpus(a, GpusPerNode)
      BY <1>5, <1>7 DEF M
    <2> QED
      BY <1>8, <2>1, <2>2 DEF a
  <1> QED
    BY <1>9, FitsIs

LEMMA AdmittedMegatronBridge ==
  ASSUME NEW c \in Configs, c.workload = "MegatronBridge", constraint_check(c)
  PROVE  Fits(c)
  <1> DEFINE a == c.layout
             G == a.num_gpus
             d == dp(a)
  <1>1. a \in MegatronBridgeLayout
    BY ConfigsAssumption
  <1>2. /\ G \in Nat \ {0} /\ a.tp \in Nat /\ a.pp \in Nat /\ a.cp \in Nat /\ a.mb \in Nat /\ a.gb \in Nat
        /\ a.et \in {None} \cup Nat /\ a.ep \in {None} \cup Nat /\ a.ndo \in Nat
    BY <1>1 DEF MegatronBridgeLayout
  <1>3. model_divides(a) /\ batch_divides(a) /\ experts_divide(a)
    BY LayoutChecks DEF megatron_bridge_admits
  <1> HIDE DEF a
  <1>4. Or1(a.tp) \in Nat \ {0} /\ Or1(a.pp) \in Nat \ {0} /\ Or1(a.cp) \in Nat \ {0} /\ Or1(a.ndo) \in Nat \ {0}
    BY <1>2 DEF Or1
  <1>5. denom(a) \in Nat \ {0}
    <2>1. Or1(a.tp) * Or1(a.pp) \in Nat \ {0}
      BY <1>4, Product
    <2>2. (Or1(a.tp) * Or1(a.pp)) * Or1(a.cp) \in Nat \ {0}
      BY <1>4, <2>1, Product
    <2> QED
      BY <2>2 DEF denom
  <1>6. d \in 1 .. G /\ G = denom(a) * d
    <2>1. G % denom(a) = 0 /\ d = G \div denom(a)
      BY <1>3 DEF model_divides, dp
    <2> HIDE DEF G, d
    <2> QED
      BY <1>2, <1>5, <2>1, Splits
  <1>7. a.mb # 0 /\ a.gb # 0 => Split(a.gb, a.mb * d)
    <2> SUFFICES ASSUME a.mb # 0, a.gb # 0 PROVE Split(a.gb, a.mb * d)
      OBVIOUS
    <2> DEFINE l == IF a.fsdp THEN Or1(a.ndo) ELSE 1
    <2>1. l \in Nat \ {0}
      BY <1>4
    <2>2. (a.mb * d) * l # 0 /\ a.gb % ((a.mb * d) * l) = 0
      BY <1>3 DEF batch_divides
    <2> HIDE DEF l
    <2>3. a.mb * d \in Nat \ {0}
      <3>1. a.mb \in Nat \ {0} /\ d \in Nat \ {0}
        BY <1>2, <1>6
      <3> HIDE DEF d
      <3> QED
        BY <3>1, Product
    <2>4. (a.mb * d) * l \in Nat \ {0}
      BY <2>1, <2>3, Product
    <2>5. a.gb \in Nat \ {0}
      BY <1>2
    <2>6. Split(a.gb, (a.mb * d) * l)
      BY <2>2, <2>4, <2>5, Splits
    <2> QED
      BY <2>1, <2>3, <2>5, <2>6, SplitsPart
  <1>8. a.et # None /\ a.ep # None => Split(a.num_gpus, a.et * a.ep * Or1(a.pp))
    <2> SUFFICES ASSUME a.et # None, a.ep # None PROVE Split(a.num_gpus, a.et * a.ep * Or1(a.pp))
      OBVIOUS
    <2> DEFINE moe == a.et * a.ep * Or1(a.pp)
    <2>1. moe # 0 /\ a.num_gpus % moe = 0
      BY <1>3 DEF experts_divide
    <2>2. moe \in Nat
      <3>1. a.et * a.ep \in Nat
        BY <1>2
      <3> QED
        BY <1>4, <3>1
    <2> HIDE DEF moe
    <2>3. Split(a.num_gpus, moe)
      BY <1>2, <2>1, <2>2, Splits
    <2> QED
      BY <2>3 DEF moe
  <1>9. \E e \in 1 .. c.layout.num_gpus :
           /\ Or1(c.layout.tp) * Or1(c.layout.pp) * Or1(c.layout.cp) * e = c.layout.num_gpus
           /\ (c.layout.mb # 0 /\ c.layout.gb # 0) => Split(c.layout.gb, c.layout.mb * e)
    <2>1. d \in 1 .. a.num_gpus
      BY <1>6
    <2>2. Or1(a.tp) * Or1(a.pp) * Or1(a.cp) * d = a.num_gpus
      BY <1>6 DEF denom
    <2> HIDE DEF d
    <2> QED
      BY <1>7, <2>1, <2>2 DEF a
  <1>10. (c.layout.et # None /\ c.layout.ep # None) =>
           Split(c.layout.num_gpus, c.layout.et * c.layout.ep * Or1(c.layout.pp))
    BY <1>8 DEF a
  <1> QED
    BY <1>9, <1>10, FitsIs

(* A layout that constraint_check admits fits, where its eight GPUs per    *)
(* node are right; and what fits runs.                                     *)
LEMMA AdmittedRuns ==
  ASSUME NEW c \in Configs
  PROVE  /\ constraint_check(c) /\ GpusPerNode = AssumedGpusPerNode => Fits(c)
         /\ Fits(c) => Runs(c)
  <1>1. constraint_check(c) /\ GpusPerNode = AssumedGpusPerNode => Fits(c)
    BY AdmittedNeMoRun, AdmittedMegatronBridge, FitsIs
  <1>2. c.devices \in Seq(Names)
    BY ConfigsAssumption DEF Names
  <1> QED
    BY <1>1, <1>2, DevicesDistinct DEF Runs

-----------------------------------------------------------------------------
(* The state of a run.                                                     *)

(* Before the job is submitted, since then, and after its end.             *)
Phases == {"check", "store", "submit", "running", "polling", "ended", "collected", "judged",
           "rejected", "raised", "exited"}
Before  == phase \in {"check", "store", "submit"}
Started == phase \in {"running", "polling", "ended", "collected", "judged", "exited"}
Left    == phase \in {"ended", "collected", "judged"}

ProcessStates == {"none", "running", "healthy", "done", "failed"}
JobStates     == {"running", "over", "failed"}
LogLine(c)    == Printable \cup {error_line(c)}

(* The types. There are files once the job has been submitted.             *)
RunTypes ==
  /\ config \in Configs
  /\ phase \in Phases
  /\ line \in 1 .. Len(script(config)) + 1
  /\ procs \in [Processes(config) -> ProcessStates]
  /\ printed \in 0 .. Len(output(config))
  /\ submitted \in Seq(JobStates) /\ job_ids \in Seq(Nat) /\ tracked \in Nat
  /\ artifacts \subseteq mounts(config)
  /\ Started => log \in [files(config) -> Seq(LogLine(config))]

LEMMA LaunchedIs == Launched <=> Bridged(config)
  BY DEF Launched, IsBridge, Bridged

(* The command that is next.                                               *)
LEMMA CommandIs ==
  ASSUME RunTypes, Executing
  PROVE  /\ line \in 1 .. Len(script(config)) /\ line + 1 \in 1 .. Len(script(config)) + 1
         /\ Command \in {"start", "run", "must", "healthy", "kill", "launch", "job id"}
         /\ Arg \in Processes(config)
         /\ Command \in {"healthy", "kill"} => Arg = etcd
         /\ Command \in {"launch", "job id"} => Arg = launcher
         /\ Command = "must" => Arg = One("pip")
         /\ Command \in {"launch", "job id", "must"} => Launched
  <1>1. config \in Configs /\ line \in 1 .. Len(script(config)) + 1
    BY DEF RunTypes
  <1>2. Len(script(config)) \in Nat
    BY <1>1, ScriptFacts
  <1>3. line <= Len(script(config))
    BY DEF Executing
  <1>4. line \in 1 .. Len(script(config)) /\ line + 1 \in 1 .. Len(script(config)) + 1
    BY <1>1, <1>2, <1>3
  <1> QED
    BY <1>1, <1>4, ScriptFacts, LaunchedIs DEF Command, Arg

(* What is printed goes to the files, and is not what an error leaves.     *)
LEMMA OutputFacts ==
  ASSUME RunTypes
  PROVE  /\ Len(output(config)) \in Nat \ {0} /\ Len(script(config)) \in Nat \ {0}
         /\ \A k \in 1 .. Len(output(config)) :
              /\ output(config)[k] = <<output(config)[k][1], output(config)[k][2]>>
              /\ output(config)[k][1] \in files(config) /\ output(config)[k][2] \in Printable
              /\ output(config)[k][2] # error_line(config)
  <1>1. config \in Configs
    BY DEF RunTypes
  <1>2. output(config) \in Seq(Text(config)) /\ Len(output(config)) \in Nat \ {0}
    BY <1>1, OutputText
  <1>3. \A k \in 1 .. Len(output(config)) : output(config)[k] \in Text(config)
    BY <1>2
  <1>4. Len(script(config)) \in Nat \ {0}
    BY <1>1, ScriptFacts
  <1> QED
    BY <1>2, <1>3, <1>4, TextFacts

(* A line added to a file.                                                 *)
Adds(F, T, l, f, t, m) == l \in [F -> Seq(T)] /\ f \in F /\ t \in T /\ m = [l EXCEPT ![f] = Append(@, t)]

LEMMA Appended ==
  ASSUME NEW F, NEW T, NEW l, NEW f, NEW t, NEW m, Adds(F, T, l, f, t, m)
  PROVE  /\ m \in [F -> Seq(T)]
         /\ \A g \in F \ {f} : m[g] = l[g]
         /\ Len(m[f]) = Len(l[f]) + 1 /\ Len(l[f]) \in Nat
         /\ \A i \in 1 .. Len(l[f]) : m[f][i] = l[f][i]
         /\ m[f][Len(l[f]) + 1] = t
  <1> USE DEF Adds
  <1>1. l[f] \in Seq(T) /\ m[f] = Append(l[f], t)
    OBVIOUS
  <1>2. Append(l[f], t) \in Seq(T)
    BY <1>1
  <1>3. m \in [F -> Seq(T)] /\ \A g \in F \ {f} : m[g] = l[g]
    BY <1>2
  <1>4. /\ Len(m[f]) = Len(l[f]) + 1 /\ Len(l[f]) \in Nat
        /\ \A i \in 1 .. Len(l[f]) : m[f][i] = l[f][i]
        /\ m[f][Len(l[f]) + 1] = t
    BY <1>1
  <1> QED
    BY <1>3, <1>4

(* What ExitScript does to the types.                                      *)
LEMMA ExitTypes ==
  ASSUME RunTypes, NEW code, ExitScript(code), phase = "running"
  PROVE  phase' \in {"ended", "polling", "exited"} /\ submitted' \in Seq(JobStates)
  <1>1. <<"over">> \in Seq(JobStates)
    BY DEF JobStates
  <1> QED
    BY <1>1 DEF ExitScript, RunTypes

LEMMA EndTypes ==
  ASSUME RunTypes, NEW state \in JobStates, EndOfJob(state)
  PROVE  submitted' \in Seq(JobStates)
  BY DEF EndOfJob, RunTypes, JobAlive, Alive

(* The types hold in every state of a run.                                 *)
LEMMA InitRunTypes == RunInit => RunTypes
  <1> SUFFICES ASSUME RunInit PROVE RunTypes
    OBVIOUS
  <1>1. config \in Configs
    BY DEF RunInit
  <1>2. Len(script(config)) \in Nat \ {0} /\ Len(output(config)) \in Nat \ {0}
    BY <1>1, ScriptFacts, OutputText
  <1>3. line \in 1 .. Len(script(config)) + 1 /\ printed \in 0 .. Len(output(config))
    BY <1>2 DEF RunInit
  <1>4. procs \in [Processes(config) -> ProcessStates]
    BY DEF RunInit, ProcessStates
  <1> QED
    BY <1>1, <1>3, <1>4 DEF RunInit, RunTypes, Phases, Started

LEMMA RunTypesKept == RunTypes /\ [RunNext]_run_vars => RunTypes'
  <1> SUFFICES ASSUME RunTypes, [RunNext]_run_vars PROVE RunTypes'
    OBVIOUS
  <1> DEFINE Kept == /\ config' = config /\ line' \in 1 .. Len(script(config)) + 1
                     /\ procs' \in [Processes(config) -> ProcessStates]
                     /\ printed' \in 0 .. Len(output(config))
                     /\ submitted' \in Seq(JobStates) /\ job_ids' \in Seq(Nat) /\ tracked' \in Nat
                     /\ artifacts' \subseteq mounts(config)
             Log == log \in [files(config) -> Seq(LogLine(config))]
  <1>0. /\ config \in Configs
        /\ phase \in Phases
        /\ line \in 1 .. Len(script(config)) + 1
        /\ procs \in [Processes(config) -> ProcessStates]
        /\ printed \in 0 .. Len(output(config))
        /\ submitted \in Seq(JobStates) /\ job_ids \in Seq(Nat) /\ tracked \in Nat
        /\ artifacts \subseteq mounts(config)
        /\ Started => Log
    BY DEF RunTypes
  <1>a. ASSUME Kept, phase' \in Phases, Started' => log' \in [files(config) -> Seq(LogLine(config))] PROVE RunTypes'
    BY <1>a DEF RunTypes
  <1>b. ASSUME Kept, phase' \in Phases, Started, log' = log PROVE RunTypes'
    BY <1>0, <1>a, <1>b
  <1>c. ASSUME Kept, phase' \in Phases, ~Started' PROVE RunTypes'
    BY <1>0, <1>a, <1>c
  <1>d. /\ One("matgen") \in Processes(config) /\ One("hostname") \in Processes(config)
        /\ One("pip") \in Processes(config) /\ etcd \in Processes(config) /\ main \in Processes(config)
        /\ launcher \in Processes(config) /\ Benches(config) \subseteq Processes(config)
    BY <1>0, ProcessFacts
  <1> HIDE DEF Kept, Log
  <1>1. CASE Check
    <2>1. Kept
      BY <1>0, <1>1 DEF Check, running, slurm, judged, Kept
    <2>2. phase' \in {"store", "raised", "rejected"}
      BY <1>1 DEF Check
    <2> QED
      BY <1>c, <2>1, <2>2 DEF Phases, Started
  <1>2. CASE StoreTestRun
    <2>1. Kept
      BY <1>0, <1>2 DEF StoreTestRun, running, slurm, judged, Kept
    <2>2. phase' \in {"raised", "submit"}
      BY <1>2 DEF StoreTestRun
    <2> QED
      BY <1>c, <2>1, <2>2 DEF Phases, Started
  <1>3. CASE SubmitTest
    <2>1. Kept
      <3>1. <<"running">> \in Seq(JobStates)
        BY DEF JobStates
      <3>2. \/ submitted' = submitted /\ tracked' = tracked
            \/ submitted' = <<"running">> /\ tracked' = 1
        BY <1>3 DEF SubmitTest
      <3>3. submitted' \in Seq(JobStates)
        <4> DEFINE one == <<"running">>
        <4> HIDE DEF one
        <4>1. one \in Seq(JobStates) /\ (submitted' = submitted \/ submitted' = one)
          BY <3>1, <3>2 DEF one
        <4> QED
          BY <1>0, <4>1
      <3>4. tracked' \in Nat
        BY <1>0, <3>2
      <3> QED
        BY <1>0, <1>3, <3>3, <3>4 DEF SubmitTest, running, slurm, judged, Kept
    <2>2. phase' \in Phases
      BY <1>3 DEF SubmitTest, Phases
    <2>3. CASE submission_raises(config)
      BY <1>c, <1>3, <2>1, <2>2, <2>3 DEF SubmitTest, Started
    <2>4. CASE ~submission_raises(config)
      <3>1. <<>> \in Seq(LogLine(config))
        OBVIOUS
      <3>2. log' = [f \in files(config) |-> <<>>]
        BY <1>3, <2>4 DEF SubmitTest
      <3>3. log' \in [files(config) -> Seq(LogLine(config))]
        BY <3>1, <3>2
      <3> QED
        BY <1>a, <2>1, <2>2, <3>3
    <2> QED
      BY <2>3, <2>4
  <1>4. CASE StartsProcess
    <2>1. Arg \in Processes(config) /\ line + 1 \in 1 .. Len(script(config)) + 1
      BY <1>4, CommandIs DEF StartsProcess
    <2>2. procs' \in [Processes(config) -> ProcessStates]
      BY <1>0, <1>4, <2>1 DEF StartsProcess, ProcessStates
    <2> HIDE DEF ProcessStates
    <2>3. Kept
      BY <1>0, <1>4, <2>1, <2>2 DEF StartsProcess, slurm, judged, Kept
    <2> QED
      BY <1>0, <1>4, <1>b, <2>3 DEF StartsProcess, Executing, Started, Phases
  <1>5. CASE ProcessReturns
    <2>1. line + 1 \in 1 .. Len(script(config)) + 1 /\ phase = "running"
      BY <1>5, CommandIs DEF ProcessReturns, Executing
    <2>2. submitted' \in Seq(JobStates) /\ phase' \in Phases
      <3>1. CASE Command = "must" /\ procs[Arg] = "failed"
        BY <1>5, <2>1, <3>1, ExitTypes DEF ProcessReturns, Phases
      <3>2. CASE ~(Command = "must" /\ procs[Arg] = "failed")
        BY <1>0, <1>5, <3>2 DEF ProcessReturns
      <3> QED
        BY <3>1, <3>2
    <2>3. Kept
      BY <1>0, <1>5, <2>1, <2>2 DEF ProcessReturns, judged, Kept
    <2> QED
      BY <1>5, <1>b, <2>1, <2>2, <2>3 DEF ProcessReturns, Started
  <1>6. CASE EtcdAnswers
    <2>1. line + 1 \in 1 .. Len(script(config)) + 1 /\ phase = "running"
      BY <1>6, CommandIs DEF EtcdAnswers, Executing
    <2>2. Kept
      BY <1>0, <1>6, <2>1 DEF EtcdAnswers, slurm, judged, Kept
    <2> QED
      BY <1>0, <1>6, <1>b, <2>1, <2>2 DEF EtcdAnswers, Started
  <1>7. CASE KillsEtcd
    <2>1. line + 1 \in 1 .. Len(script(config)) + 1 /\ phase = "running" /\ Arg \in Processes(config)
      BY <1>7, CommandIs DEF KillsEtcd, Executing
    <2>2. procs' \in [Processes(config) -> ProcessStates]
      BY <1>0, <1>7, <2>1 DEF KillsEtcd, ProcessStates
    <2>3. Kept
      BY <1>0, <1>7, <2>1, <2>2 DEF KillsEtcd, slurm, judged, Kept
    <2> QED
      BY <1>0, <1>7, <1>b, <2>1, <2>3 DEF KillsEtcd, Started
  <1>8. CASE EtcdTimesOut \/ EtcdStubborn \/ LastCommandDone
    <2>1. phase = "running" /\ \E code : ExitScript(code)
      BY <1>8 DEF EtcdTimesOut, EtcdStubborn, LastCommandDone, Executing
    <2>2. submitted' \in Seq(JobStates) /\ phase' \in Phases
      BY <2>1, ExitTypes DEF Phases
    <2>3. Kept
      BY <1>0, <1>8, <2>2 DEF EtcdTimesOut, EtcdStubborn, LastCommandDone, judged, Kept
    <2> QED
      BY <1>8, <1>b, <2>1, <2>2, <2>3 DEF EtcdTimesOut, EtcdStubborn, LastCommandDone, Started
  <1>9. CASE ReadsJobId
    <2>1. phase = "running" /\ \E code : ExitScript(code)
      BY <1>9 DEF ReadsJobId, Executing
    <2>2. submitted' \in Seq(JobStates) /\ phase' \in Phases
      BY <2>1, ExitTypes DEF Phases
    <2>3. tracked' \in Nat
      <3>1. job_ids # <<>> => Last(job_ids) \in Nat
        BY <1>0 DEF Last
      <3> QED
        BY <1>0, <1>9, <3>1 DEF ReadsJobId
    <2>4. Kept
      BY <1>0, <1>9, <2>2, <2>3 DEF ReadsJobId, judged, Kept
    <2> QED
      BY <1>9, <1>b, <2>1, <2>2, <2>4 DEF ReadsJobId, Started
  <1>10. CASE LauncherSubmits
    <2>1. procs' \in [Processes(config) -> ProcessStates]
      BY <1>0, <1>d, <1>10 DEF LauncherSubmits, ProcessStates
    <2>2. submitted' \in Seq(JobStates) /\ job_ids' \in Seq(Nat)
      <3>1. Append(submitted, "running") \in Seq(JobStates)
        BY <1>0 DEF JobStates
      <3>2. Append(job_ids, Len(submitted) + 1) \in Seq(Nat)
        BY <1>0
      <3> QED
        BY <1>10, <3>1, <3>2 DEF LauncherSubmits
    <2>3. printed' \in 0 .. Len(output(config))
      BY <1>10, OutputFacts DEF LauncherSubmits
    <2>4. Kept
      BY <1>0, <1>10, <2>1, <2>2, <2>3 DEF LauncherSubmits, judged, Kept
    <2> QED
      BY <1>0, <1>10, <1>b, <2>4 DEF LauncherSubmits, LauncherRuns, Executing, Started
  <1>11. CASE LauncherEnds
    <2>1. line + 1 \in 1 .. Len(script(config)) + 1 /\ phase = "running"
      BY <1>11, CommandIs DEF LauncherEnds, LauncherRuns, Executing
    <2>2. procs' \in [Processes(config) -> ProcessStates]
      BY <1>0, <1>d, <1>11 DEF LauncherEnds, ProcessStates
    <2>3. Kept
      BY <1>0, <1>11, <2>1, <2>2 DEF LauncherEnds, slurm, judged, Kept
    <2> QED
      BY <1>0, <1>11, <1>b, <2>1, <2>3 DEF LauncherEnds, Started
  <1>12. CASE JobOver \/ Collect \/ Judge
    <2>1. Kept
      BY <1>0, <1>12 DEF JobOver, Collect, Judge, running, slurm, judged, Kept
    <2>2. Started /\ log' = log /\ phase' \in Phases
      BY <1>12 DEF JobOver, Collect, Judge, running, Started, Phases
    <2> QED
      BY <1>b, <2>1, <2>2
  <1>13. CASE EtcdReady \/ EtcdDies
    <2>1. procs' \in [Processes(config) -> ProcessStates]
      BY <1>0, <1>d, <1>13 DEF EtcdReady, EtcdDies, ProcessStates
    <2>2. Kept
      BY <1>0, <1>13, <2>1 DEF EtcdReady, EtcdDies, slurm, judged, Kept
    <2> QED
      BY <1>0, <1>13, <1>b, <2>2 DEF EtcdReady, EtcdDies, Working, Started
  <1>14. CASE Prepared
    <2>1. PICK p \in {"matgen", "hostname", "pip"} :
            /\ Working /\ procs[One(p)] = "running"
            /\ \/ procs' = [procs EXCEPT ![One(p)] = "done"] /\ UNCHANGED trouble
               \/ /\ p \in Mishaps
                  /\ procs' = [procs EXCEPT ![One(p)] = "failed"] /\ trouble' = trouble \cup {p}
            /\ UNCHANGED <<config, phase, line, printed, log, exit_code, slurm, artifacts, judged>>
      BY <1>14 DEF Prepared
    <2>2. One(p) \in Processes(config)
      BY <1>d
    <2>3. procs' \in [Processes(config) -> ProcessStates]
      BY <1>0, <2>1, <2>2 DEF ProcessStates
    <2>4. Kept
      BY <1>0, <2>1, <2>3 DEF slurm, judged, Kept
    <2> QED
      BY <1>0, <2>1, <1>b, <2>4 DEF Working, Started
  <1>15. CASE Writes
    <2> DEFINE text == output(config)[printed + 1]
    <2>1. printed + 1 \in 1 .. Len(output(config)) /\ printed' = printed + 1 /\ Started
      BY <1>0, <1>15, OutputFacts DEF Writes, Working, Started
    <2>2. text[1] \in files(config) /\ text[2] \in LogLine(config)
      BY <2>1, OutputFacts DEF LogLine
    <2>3. log \in [files(config) -> Seq(LogLine(config))]
      BY <1>0, <2>1 DEF Log
    <2>4. log' = log \/ log' = [log EXCEPT ![text[1]] = Append(@, text[2])]
      BY <1>15 DEF Writes
    <2> HIDE DEF text
    <2>5. log' \in [files(config) -> Seq(LogLine(config))]
      <3>1. CASE log' = [log EXCEPT ![text[1]] = Append(@, text[2])]
        <4>1. Adds(files(config), LogLine(config), log, text[1], text[2], log')
          BY <2>2, <2>3, <3>1 DEF Adds
        <4> QED
          BY <4>1, Appended
      <3> QED
        BY <2>3, <2>4, <3>1
    <2>6. Kept
      BY <1>0, <1>15, <2>1 DEF Writes, slurm, judged, Kept
    <2>7. phase' \in Phases
      BY <1>0, <1>15 DEF Writes
    <2> QED
      BY <1>a, <2>5, <2>6, <2>7
  <1>16. ASSUME NEW b \in Benches(config), Completes(b) PROVE RunTypes'
    <2>1. procs' \in [Processes(config) -> ProcessStates]
      BY <1>0, <1>d, <1>16 DEF Completes, ProcessStates
    <2>2. submitted' \in Seq(JobStates)
      BY <1>16, EndTypes DEF Completes, JobStates
    <2>3. Kept
      BY <1>0, <1>16, <2>1, <2>2 DEF Completes, judged, Kept
    <2> QED
      BY <1>0, <1>16, <1>b, <2>3 DEF Completes, Working, Started
  <1>17. ASSUME NEW b \in Benches(config), Breaks(b) PROVE RunTypes'
    <2>1. procs' \in [Processes(config) -> ProcessStates]
      BY <1>0, <1>d, <1>17 DEF Breaks, ProcessStates
    <2>2. submitted' \in Seq(JobStates)
      BY <1>17, EndTypes DEF Breaks, JobStates
    <2>3. Kept
      BY <1>0, <1>17, <2>1, <2>2 DEF Breaks, judged, Kept
    <2>4. error_file(config) \in files(config) /\ error_line(config) \in LogLine(config)
      BY FilesAre DEF LogLine
    <2>5. log \in [files(config) -> Seq(LogLine(config))]
      BY <1>0, <1>17 DEF Log, Breaks, Working, Started
    <2>6. log' = log \/ log' = [log EXCEPT ![error_file(config)] = Append(@, error_line(config))]
      BY <1>17 DEF Breaks
    <2>7. log' \in [files(config) -> Seq(LogLine(config))]
      <3>1. CASE log' = [log EXCEPT ![error_file(config)] = Append(@, error_line(config))]
        <4>1. Adds(files(config), LogLine(config), log, error_file(config), error_line(config), log')
          BY <2>4, <2>5, <3>1 DEF Adds
        <4> QED
          BY <4>1, Appended
      <3> QED
        BY <2>5, <2>6, <3>1
    <2>8. phase' \in Phases
      BY <1>0, <1>17 DEF Breaks
    <2> QED
      BY <1>a, <2>3, <2>7, <2>8
  <1>18. CASE Cut
    <2>1. <<"over">> \in Seq(JobStates)
      BY DEF JobStates
    <2>2. Kept
      BY <1>0, <1>18, <2>1 DEF Cut, judged, Kept
    <2> QED
      BY <1>0, <1>18, <1>b, <2>2 DEF Cut, Started, Phases
  <1>19. CASE Terminated \/ UNCHANGED run_vars
    <2>1. UNCHANGED run_vars
      BY <1>19 DEF Terminated
    <2>2. Kept /\ phase' = phase /\ log' = log
      BY <1>0, <2>1 DEF run_vars, running, slurm, Kept
    <2> QED
      BY <1>0, <1>b, <1>c, <2>2 DEF Started
  <1> QED
    BY <1>1, <1>2, <1>3, <1>4, <1>5, <1>6, <1>7, <1>8, <1>9, <1>10, <1>11, <1>12, <1>13, <1>14, <1>15,
       <1>16, <1>17, <1>18, <1>19
    DEF RunNext, Starts, Script, Program, Ends

-----------------------------------------------------------------------------
(* The jobs of a run.                                                      *)

(* Nothing has happened before the job is submitted, and no directory is   *)
(* left once the job has been collected.                                   *)
Unstarted ==
  /\ Before => line = 1 /\ printed = 0 /\ submitted = <<>> /\ job_ids = <<>> /\ trouble = {}
               /\ procs = [p \in Processes(config) |-> "none"]
  /\ phase \in {"collected", "judged"} => artifacts = {}

(* The jobs of a launcher: as many ids as jobs, in the same order, and     *)
(* all but the last one have failed; the main process is that of the last  *)
(* one.                                                                    *)
AsMain(state) == IF state = "over" THEN "done" ELSE state

Jobs ==
  /\ line <= Len(script(config))
  /\ Len(job_ids) = Len(submitted) /\ \A i \in 1 .. Len(submitted) : job_ids[i] = i
  /\ \A i \in 1 .. Len(submitted) - 1 : submitted[i] = "failed"
  /\ procs[main] = IF submitted = <<>> THEN "none" ELSE AsMain(submitted[Len(submitted)])

(* The job that is polled is the last one, and it has ended when run()     *)
(* goes on. A launcher that nothing happened to ended after its last job.  *)
(* A batch job is over as soon as its script is left.                      *)
Tracked ==
  /\ phase = "polling" \/ Left => submitted # <<>> /\ tracked = Len(submitted)
  /\ Left => submitted[Len(submitted)] # "running"

Alone ==
  IsBridge /\ trouble = {} /\ Returned(launcher) => submitted # <<>> /\ submitted[Len(submitted)] # "running"

Batch == phase \notin {"polling", "exited"} /\ (Left => submitted = <<"over">>)

OneJobAtATime ==
  /\ ~Launched => Batch
  /\ Launched => Jobs /\ Tracked /\ Alone

(* A launcher's script installs, launches, and reads the id.               *)
LEMMA LauncherNext ==
  ASSUME RunTypes, Launched, Executing
  PROVE  /\ Command \in {"must", "launch", "job id"}
         /\ Command # "job id" => line + 1 <= Len(script(config))
         /\ Arg # main
         /\ Command = "must" => Arg # launcher
  <1>1. config \in Configs /\ Bridged(config) /\ line \in 1 .. Len(script(config))
    BY CommandIs, LaunchedIs DEF RunTypes
  <1> DEFINE s == script(config)
             N == Len(s)
             read == <<"job id", launcher>>
             start == <<"launch", launcher>>
             install == Must(One("pip"))
             u == s[line]
  <1>2. N \in {2, 3} /\ s[N] = read /\ s[N - 1] = start /\ (N = 3 => s[1] = install)
    BY <1>1, LauncherScript
  <1>3. line \in 1 .. N
    BY <1>1
  <1>4. launcher # main /\ One("pip") # main /\ One("pip") # launcher
    BY <1>1, ProcessFacts
  <1>5. Command = u[1] /\ Arg = u[2]
    BY DEF Command, Arg
  <1>6. read[1] = "job id" /\ read[2] = launcher /\ start[1] = "launch" /\ start[2] = launcher
        /\ install[1] = "must" /\ install[2] = One("pip")
    BY DEF Must
  <1> HIDE DEF N, read, start, install
  <1>7. /\ line = N => s[line] = read
        /\ line # N => line + 1 <= N /\ s[line] \in {start, install}
    <2> HIDE DEF s, u
    <2>1. CASE N = 2
      BY <2>1, <1>2, <1>3
    <2>2. CASE N = 3
      BY <2>2, <1>2, <1>3
    <2> QED
      BY <2>1, <2>2, <1>2
  <1>8. /\ line = N => u = read
        /\ line # N => line + 1 <= N /\ u \in {start, install}
    BY <1>7
  <1> HIDE DEF u, s
  <1>9. CASE u = read
    BY <1>4, <1>5, <1>6, <1>9
  <1>10. CASE u = start
    BY <1>4, <1>5, <1>6, <1>8, <1>10 DEF N, s
  <1>11. CASE u = install
    BY <1>4, <1>5, <1>6, <1>8, <1>11 DEF N, s
  <1> QED
    BY <1>8, <1>9, <1>10, <1>11

(* A job that runs is the last one.                                        *)
LEMMA AliveIs ==
  ASSUME RunTypes, Jobs
  PROVE  /\ Len(submitted) \in Nat
         /\ JobAlive <=> submitted # <<>> /\ submitted[Len(submitted)] = "running"
         /\ procs[main] = "running" => JobAlive
         /\ submitted # <<>> => Len(submitted) \in 1 .. Len(submitted)
  <1>1. submitted \in Seq(JobStates)
    BY DEF RunTypes
  <1>2. Len(submitted) \in Nat /\ DOMAIN submitted = 1 .. Len(submitted)
        /\ (submitted # <<>> => Len(submitted) \in 1 .. Len(submitted))
    BY <1>1
  <1>3. JobAlive <=> \E j \in 1 .. Len(submitted) : submitted[j] = "running"
    BY <1>2 DEF JobAlive, Alive
  <1>4. JobAlive => submitted # <<>> /\ submitted[Len(submitted)] = "running"
    <2> SUFFICES ASSUME NEW j \in 1 .. Len(submitted), submitted[j] = "running"
                 PROVE  submitted # <<>> /\ submitted[Len(submitted)] = "running"
      BY <1>3
    <2>1. j \notin 1 .. Len(submitted) - 1
      BY DEF Jobs
    <2>2. j = Len(submitted)
      <3> DEFINE n == Len(submitted)
      <3>1. n \in Nat /\ j \in 1 .. n /\ j \notin 1 .. n - 1
        BY <1>2, <2>1
      <3> HIDE DEF n
      <3>2. j = n
        BY <3>1
      <3> QED
        BY <3>2 DEF n
    <2>3. submitted # <<>>
      BY <1>2, <2>2
    <2> QED
      BY <2>2, <2>3
  <1>5. submitted # <<>> /\ submitted[Len(submitted)] = "running" => JobAlive
    BY <1>2, <1>3
  <1>6. procs[main] = "running" => submitted # <<>> /\ submitted[Len(submitted)] = "running"
    BY DEF Jobs, AsMain
  <1> QED
    BY <1>2, <1>4, <1>5, <1>6

(* The end of the job of a launcher.                                       *)
LEMMA JobIsOver ==
  ASSUME RunTypes, Jobs, Launched, NEW state \in {"over", "failed"}, EndOfJob(state),
         procs' = [procs EXCEPT ![main] = AsMain(state)], procs[main] = "running",
         UNCHANGED <<config, line, job_ids>>
  PROVE  /\ Jobs' /\ submitted' # <<>> /\ submitted'[Len(submitted')] # "running" /\ Len(submitted') = Len(submitted)
         /\ submitted # <<>>
  <1> DEFINE n == Len(submitted)
  <1>1. submitted \in Seq(JobStates) /\ config \in Configs /\ procs \in [Processes(config) -> ProcessStates]
    BY DEF RunTypes
  <1>2. n \in Nat /\ JobAlive /\ submitted # <<>> /\ n \in 1 .. n
    BY AliveIs
  <1>3. submitted' = [submitted EXCEPT ![n] = state]
    BY <1>2 DEF EndOfJob
  <1>4. state \in JobStates
    BY DEF JobStates
  <1>5. /\ Len(submitted') = n /\ submitted' # <<>> /\ submitted'[n] = state
        /\ \A i \in 1 .. n - 1 : submitted'[i] = submitted[i]
    BY <1>1, <1>2, <1>3, <1>4
  <1>6. procs'[main] = AsMain(state)
    <2>1. main \in Processes(config)
      BY <1>1, ProcessFacts
    <2> QED
      BY <1>1, <2>1
  <1> HIDE DEF n
  <1>7. Jobs'
    BY <1>5, <1>6 DEF Jobs, n
  <1>8. Len(submitted') = Len(submitted) /\ submitted'[Len(submitted')] # "running"
    BY <1>5 DEF n
  <1> QED
    BY <1>2, <1>5, <1>7, <1>8

(* These hold in every state.                                              *)
LEMMA InitOneJob == RunInit => Unstarted /\ OneJobAtATime
  <1> SUFFICES ASSUME RunInit PROVE Unstarted /\ OneJobAtATime
    OBVIOUS
  <1>1. config \in Configs /\ main \in Processes(config) /\ launcher \in Processes(config)
    BY ProcessFacts DEF RunInit
  <1>2. Len(script(config)) \in Nat \ {0}
    BY <1>1, ScriptFacts
  <1>3. procs[main] = "none" /\ procs[launcher] = "none"
    BY <1>1 DEF RunInit
  <1>4. line <= Len(script(config))
    BY <1>2 DEF RunInit
  <1>5. Jobs
    BY <1>3, <1>4 DEF Jobs, RunInit
  <1>6. Unstarted
    BY DEF Unstarted, RunInit
  <1>7. Tracked /\ Alone /\ Batch
    BY <1>3 DEF Tracked, Alone, Batch, Left, Returned, RunInit
  <1> QED
    BY <1>5, <1>6, <1>7 DEF OneJobAtATime

LEMMA UnstartedKept == RunTypes /\ Unstarted /\ [RunNext]_run_vars => Unstarted'
  <1> SUFFICES ASSUME RunTypes, Unstarted, [RunNext]_run_vars PROVE Unstarted'
    OBVIOUS
  <1>a. ASSUME phase' \notin {"check", "store", "submit", "collected", "judged"} PROVE Unstarted'
    BY <1>a DEF Unstarted, Before
  <1>b. ASSUME Started, phase' = phase, artifacts' = artifacts PROVE Unstarted'
    BY <1>b DEF Unstarted, Started, Before
  <1>1. CASE Check \/ StoreTestRun
    BY <1>1 DEF Check, StoreTestRun, Unstarted, Before, running, slurm, judged
  <1>2. CASE SubmitTest
    BY <1>a, <1>2 DEF SubmitTest
  <1>3. CASE \/ StartsProcess \/ EtcdAnswers \/ KillsEtcd \/ LauncherSubmits \/ LauncherEnds
    BY <1>b, <1>3 DEF StartsProcess, EtcdAnswers, KillsEtcd, LauncherSubmits, LauncherEnds, LauncherRuns, Executing, Started
  <1>4. CASE ProcessReturns
    <2>1. phase = "running" /\ artifacts' = artifacts /\ (phase' = phase \/ ExitScript(1))
      BY <1>4 DEF ProcessReturns, Executing
    <2> QED
      BY <1>a, <1>b, <2>1 DEF ExitScript, Started
  <1>5. CASE EtcdTimesOut \/ EtcdStubborn \/ LastCommandDone \/ ReadsJobId
    <2>1. \E code : ExitScript(code)
      BY <1>5 DEF EtcdTimesOut, EtcdStubborn, LastCommandDone, ReadsJobId
    <2> QED
      BY <1>a, <2>1 DEF ExitScript
  <1>6. CASE EtcdReady \/ EtcdDies \/ Prepared \/ Writes \/ \E b \in Benches(config) : Completes(b) \/ Breaks(b)
    BY <1>b, <1>6 DEF EtcdReady, EtcdDies, Prepared, Writes, Completes, Breaks, Working, Started
  <1>7. CASE JobOver \/ Cut
    BY <1>a, <1>7 DEF JobOver, Cut
  <1>8. CASE Collect
    <2>1. artifacts \subseteq mounts(config)
      BY DEF RunTypes
    <2> QED
      BY <1>8, <2>1 DEF Collect, Unstarted, Before, cleanup_targets
  <1>9. CASE Judge
    BY <1>9 DEF Judge, Unstarted, Before
  <1>10. CASE Terminated \/ UNCHANGED run_vars
    BY <1>10 DEF Terminated, run_vars, running, slurm, Unstarted, Before
  <1> QED
    BY <1>1, <1>2, <1>3, <1>4, <1>5, <1>6, <1>7, <1>8, <1>9, <1>10 DEF RunNext, Starts, Script, Program, Ends

LEMMA BatchKept == RunTypes /\ ~Launched /\ Batch /\ [RunNext]_run_vars => Batch'
  <1> SUFFICES ASSUME RunTypes, ~Launched, Batch, [RunNext]_run_vars PROVE Batch'
    OBVIOUS
  <1>a. ASSUME phase' \in {"check", "store", "submit", "running", "rejected", "raised"} PROVE Batch'
    BY <1>a DEF Batch, Left
  <1>b. ASSUME \E code : ExitScript(code) PROVE Batch'
    BY <1>b DEF ExitScript, Batch, Left
  <1>1. CASE Check \/ StoreTestRun \/ SubmitTest
    BY <1>a, <1>1 DEF Check, StoreTestRun, SubmitTest
  <1>2. CASE \/ StartsProcess \/ EtcdAnswers \/ KillsEtcd \/ LauncherSubmits \/ LauncherEnds
    BY <1>a, <1>2 DEF StartsProcess, EtcdAnswers, KillsEtcd, LauncherSubmits, LauncherEnds, LauncherRuns, Executing
  <1>3. CASE ProcessReturns
    BY <1>a, <1>b, <1>3 DEF ProcessReturns, Executing
  <1>4. CASE EtcdTimesOut \/ EtcdStubborn \/ LastCommandDone \/ ReadsJobId
    BY <1>b, <1>4 DEF EtcdTimesOut, EtcdStubborn, LastCommandDone, ReadsJobId
  <1>5. CASE EtcdReady \/ EtcdDies \/ Prepared \/ Writes \/ \E b \in Benches(config) : Completes(b) \/ Breaks(b)
    <2>1. Working /\ phase' = phase
      BY <1>5 DEF EtcdReady, EtcdDies, Prepared, Writes, Completes, Breaks
    <2>2. phase = "running"
      BY <2>1 DEF Working, Batch
    <2> QED
      BY <1>a, <2>1, <2>2
  <1>6. CASE JobOver
    BY <1>6 DEF JobOver, Batch
  <1>7. CASE Cut
    BY <1>7 DEF Cut, Batch, Left
  <1>8. CASE Collect \/ Judge
    BY <1>8 DEF Collect, Judge, Batch, Left, slurm
  <1>9. CASE Terminated \/ UNCHANGED run_vars
    BY <1>9 DEF Terminated, run_vars, slurm, Batch, Left
  <1> QED
    BY <1>1, <1>2, <1>3, <1>4, <1>5, <1>6, <1>7, <1>8, <1>9 DEF RunNext, Starts, Script, Program, Ends

LEMMA LauncherKept ==
  RunTypes /\ Unstarted /\ Launched /\ Jobs /\ Tracked /\ Alone /\ [RunNext]_run_vars => Jobs' /\ Tracked' /\ Alone'
  <1> SUFFICES ASSUME RunTypes, Unstarted, Launched, Jobs, Tracked, Alone, [RunNext]_run_vars
               PROVE  Jobs' /\ Tracked' /\ Alone'
    OBVIOUS
  <1>0. /\ config \in Configs /\ procs \in [Processes(config) -> ProcessStates]
        /\ submitted \in Seq(JobStates) /\ Len(submitted) \in Nat
    BY DEF RunTypes
  <1>p. /\ main \in Processes(config) /\ launcher \in Processes(config) /\ etcd \in Processes(config)
        /\ Benches(config) = {main} /\ main # launcher /\ main # etcd /\ launcher # etcd
        /\ \A p \in {"matgen", "hostname", "pip"} : One(p) # main /\ One(p) # launcher
    BY <1>0, ProcessFacts, LaunchedIs DEF Bridged
  <1>a. ASSUME UNCHANGED <<config, submitted, job_ids>>, procs'[main] = procs[main], line' <= Len(script(config))
        PROVE  Jobs'
    BY <1>a DEF Jobs
  <1>b. ASSUME UNCHANGED <<submitted, tracked>>, phase' \notin {"polling", "ended", "collected", "judged"} \/ phase' = phase
        PROVE  Tracked'
    BY <1>b DEF Tracked, Left
  <1>c. ASSUME UNCHANGED <<config, submitted>>, trouble \subseteq trouble', procs'[launcher] = procs[launcher]
        PROVE  Alone'
    BY <1>c DEF Alone, IsBridge, Returned
  <1>l. line <= Len(script(config))
    BY DEF Jobs
  <1>1. CASE Check \/ StoreTestRun
    BY <1>1, <1>a, <1>b, <1>c, <1>l DEF Check, StoreTestRun, running, slurm
  <1>2. CASE SubmitTest
    <2>1. UNCHANGED <<submitted, tracked, config, job_ids, procs, line, trouble>> /\ phase' \in {"raised", "running"}
      BY <1>2 DEF SubmitTest
    <2> QED
      BY <2>1, <1>a, <1>b, <1>c, <1>l
  <1>3. CASE StartsProcess
    <2>1. Command = "must" /\ Arg \in Processes(config) /\ Arg # main /\ Arg # launcher
      BY <1>3, CommandIs, LauncherNext DEF StartsProcess
    <2>2. procs'[main] = procs[main] /\ procs'[launcher] = procs[launcher]
      BY <1>0, <1>3, <1>p, <2>1 DEF StartsProcess
    <2>3. UNCHANGED <<config, submitted, job_ids, tracked, phase, trouble>> /\ line' = line
      BY <1>3, <2>1 DEF StartsProcess, slurm
    <2> QED
      BY <2>2, <2>3, <1>a, <1>b, <1>c, <1>l
  <1>4. CASE ProcessReturns
    <2>1. Command # "job id" /\ line + 1 <= Len(script(config))
      BY <1>4, LauncherNext DEF ProcessReturns
    <2>2. /\ UNCHANGED <<config, submitted, job_ids, tracked, trouble, procs>> /\ (phase' = phase \/ phase' = "exited")
          /\ (line' = line \/ line' = line + 1)
      BY <1>4 DEF ProcessReturns, ExitScript
    <2> QED
      BY <2>1, <2>2, <1>a, <1>b, <1>c, <1>l
  <1>5. CASE EtcdAnswers \/ EtcdTimesOut \/ KillsEtcd \/ EtcdStubborn
    BY <1>5, LauncherNext DEF EtcdAnswers, EtcdTimesOut, KillsEtcd, EtcdStubborn
  <1>6. CASE LastCommandDone
    <2> DEFINE n == Len(script(config))
    <2>1. n \in Nat /\ line \in 1 .. n + 1 /\ line > n
      <3>1. n \in Nat
        BY <1>0, ScriptFacts
      <3> QED
        BY <3>1, <1>6 DEF LastCommandDone, RunTypes
    <2> HIDE DEF n
    <2>2. ~(line <= n)
      BY <2>1
    <2> QED
      BY <1>l, <2>2 DEF n
  <1>7. CASE ReadsJobId
    <2>1. UNCHANGED <<config, submitted, job_ids, trouble, procs, line>>
      BY <1>7 DEF ReadsJobId, ExitScript
    <2>2. Jobs' /\ Alone'
      BY <2>1, <1>a, <1>c, <1>l
    <2>3. Tracked'
      <3>1. CASE job_ids = <<>>
        <4>1. phase' = "exited" /\ tracked' = tracked
          <5>1. ExitScript(1) /\ UNCHANGED tracked
            BY <1>7, <3>1, Zenon DEF ReadsJobId
          <5>2. 1 # 0
            OBVIOUS
          <5> QED
            BY <5>1, <5>2, Zenon DEF ExitScript
        <4> QED
          BY <2>1, <4>1, <1>b
      <3>2. CASE job_ids # <<>>
        <4>1. phase' = "polling" /\ tracked' = Last(job_ids)
          BY <1>7, <3>2 DEF ReadsJobId, ExitScript
        <4>2. job_ids \in Seq(Nat)
          BY DEF RunTypes
        <4>3. Len(job_ids) = Len(submitted) /\ \A i \in 1 .. Len(submitted) : job_ids[i] = i
          BY DEF Jobs
        <4>4. Last(job_ids) = Len(submitted) /\ submitted # <<>>
          <5>1. Len(job_ids) \in 1 .. Len(submitted)
            BY <3>2, <4>2, <4>3
          <5>2. job_ids[Len(job_ids)] = Len(submitted)
            BY <4>3, <5>1
          <5>3. submitted # <<>>
            BY <1>0, <5>1
          <5> QED
            BY <5>2, <5>3 DEF Last
        <4> QED
          BY <2>1, <4>1, <4>4 DEF Tracked, Left
      <3> QED
        BY <3>1, <3>2
    <2> QED
      BY <2>2, <2>3
  <1>8. CASE JobOver
    <2>1. UNCHANGED <<config, submitted, job_ids, trouble, procs, line, tracked>> /\ phase = "polling" /\ phase' = "ended"
      BY <1>8 DEF JobOver, slurm, running
    <2>2. submitted # <<>> /\ tracked = Len(submitted)
      BY <2>1 DEF Tracked
    <2>3. submitted[Len(submitted)] # "running"
      <3>1. Len(submitted) \in DOMAIN submitted
        BY <1>0, <2>2
      <3> QED
        BY <1>8, <2>2, <3>1 DEF JobOver, Alive
    <2>4. Tracked'
      BY <2>1, <2>2, <2>3 DEF Tracked
    <2> QED
      BY <2>1, <2>4, <1>a, <1>c, <1>l
  <1>9. CASE Collect \/ Judge
    <2>1. UNCHANGED <<config, submitted, job_ids, procs, line, tracked>> /\ phase \in {"ended", "collected"}
          /\ trouble \subseteq trouble'
      BY <1>9 DEF Collect, Judge, slurm, running
    <2>2. Tracked'
      BY <2>1 DEF Tracked, Left
    <2> QED
      BY <2>1, <2>2, <1>a, <1>c, <1>l
  <1>10. CASE LauncherSubmits
    <2> DEFINE n == Len(submitted)
    <2>1. /\ ~JobAlive /\ (submitted # <<>> => submitted[n] = "failed")
          /\ submitted' = Append(submitted, "running") /\ procs' = [procs EXCEPT ![main] = "running"]
          /\ job_ids' = Append(job_ids, n + 1) /\ UNCHANGED <<config, line, phase, trouble>>
          /\ phase = "running" /\ ~Returned(launcher)
      BY <1>10 DEF LauncherSubmits, LauncherRuns, Executing
    <2>2. /\ Len(submitted') = n + 1 /\ submitted' # <<>> /\ submitted'[n + 1] = "running"
          /\ \A i \in 1 .. n : submitted'[i] = submitted[i]
      BY <1>0, <2>1
    <2>3. Len(job_ids') = n + 1 /\ \A i \in 1 .. n + 1 : job_ids'[i] = i
      <3>1. job_ids \in Seq(Nat) /\ Len(job_ids) = n /\ \A i \in 1 .. n : job_ids[i] = i
        BY DEF RunTypes, Jobs
      <3> QED
        BY <1>0, <2>1, <3>1
    <2>4. \A i \in 1 .. n : submitted'[i] = "failed"
      <3>1. \A i \in 1 .. n : i \in 1 .. n - 1 \/ i = n
        BY <1>0
      <3>2. \A i \in 1 .. n : submitted # <<>>
        BY <1>0
      <3> QED
        BY <2>1, <2>2, <3>1, <3>2 DEF Jobs
    <2>5. procs'[main] = "running" /\ procs'[launcher] = procs[launcher]
      BY <1>0, <1>p, <2>1
    <2>6. n + 1 - 1 = n
      BY <1>0
    <2>a. line' <= Len(script(config'))
      BY <2>1, <1>l
    <2>b. procs'[main] = AsMain(submitted'[Len(submitted')])
      BY <2>2, <2>5 DEF AsMain
    <2>c. \A i \in 1 .. Len(submitted') - 1 : submitted'[i] = "failed"
      <3> DEFINE m == Len(submitted')
      <3>1. m = n + 1 /\ n \in Nat
        BY <1>0, <2>2
      <3> HIDE DEF n, m
      <3>2. m - 1 = n
        BY <3>1
      <3>3. \A i \in 1 .. n : submitted'[i] = "failed"
        BY <2>4
      <3>4. \A i \in 1 .. m - 1 : submitted'[i] = "failed"
        BY <3>2, <3>3, Zenon
      <3> QED
        BY <3>4 DEF m
    <2> HIDE DEF n
    <2>7. Jobs'
      BY <2>2, <2>3, <2>a, <2>b, <2>c DEF Jobs
    <2>8. Tracked' /\ Alone'
      BY <2>1, <2>5 DEF Tracked, Left, Alone, Returned
    <2> QED
      BY <2>7, <2>8
  <1>11. CASE LauncherEnds
    <2>1. line + 1 <= Len(script(config))
      BY <1>11, LauncherNext DEF LauncherEnds, LauncherRuns
    <2>2. /\ UNCHANGED <<config, submitted, job_ids, phase, tracked>> /\ line' = line + 1
          /\ procs' = [procs EXCEPT ![launcher] = "failed"] /\ phase = "running"
      BY <1>11 DEF LauncherEnds, LauncherRuns, Executing, slurm
    <2>3. procs'[main] = procs[main]
      BY <1>0, <1>p, <2>2
    <2>4. Alone'
      <3>1. CASE submitted = <<>> \/ (IsBridge /\ JobAlive)
        <4>1. trouble' # {}
          BY <1>11, <3>1 DEF LauncherEnds
        <4> QED
          BY <4>1 DEF Alone
      <3>2. CASE ~(submitted = <<>> \/ (IsBridge /\ JobAlive))
        <4>1. IsBridge => submitted # <<>> /\ submitted[Len(submitted)] # "running"
          BY <3>2, AliveIs
        <4> QED
          BY <2>2, <4>1 DEF Alone, IsBridge
      <3> QED
        BY <3>1, <3>2
    <2> QED
      BY <2>1, <2>2, <2>3, <2>4, <1>a, <1>b
  <1>12. CASE EtcdReady \/ EtcdDies
    <2>1. procs'[main] = procs[main] /\ procs'[launcher] = procs[launcher]
      BY <1>0, <1>p, <1>12 DEF EtcdReady, EtcdDies
    <2>2. UNCHANGED <<config, submitted, job_ids, phase, tracked, line>> /\ trouble \subseteq trouble'
      BY <1>12 DEF EtcdReady, EtcdDies, slurm
    <2> QED
      BY <2>1, <2>2, <1>a, <1>b, <1>c, <1>l
  <1>13. CASE Prepared
    <2>1. procs'[main] = procs[main] /\ procs'[launcher] = procs[launcher]
      BY <1>0, <1>p, <1>13 DEF Prepared
    <2>2. UNCHANGED <<config, submitted, job_ids, phase, tracked, line>> /\ trouble \subseteq trouble'
      BY <1>13 DEF Prepared, slurm
    <2> QED
      BY <2>1, <2>2, <1>a, <1>b, <1>c, <1>l
  <1>14. CASE Writes
    BY <1>14, <1>a, <1>b, <1>c, <1>l DEF Writes, slurm
  <1>15. ASSUME NEW b \in Benches(config), Completes(b) \/ Breaks(b) PROVE Jobs' /\ Tracked' /\ Alone'
    <2>1. PICK state \in {"over", "failed"} : EndOfJob(state) /\ procs' = [procs EXCEPT ![main] = AsMain(state)]
      BY <1>p, <1>15 DEF Completes, Breaks, AsMain
    <2>2. UNCHANGED <<config, line, job_ids, phase, tracked>> /\ procs[main] = "running" /\ Working
      BY <1>p, <1>15 DEF Completes, Breaks
    <2>3. /\ Jobs' /\ submitted' # <<>> /\ submitted'[Len(submitted')] # "running" /\ Len(submitted') = Len(submitted)
          /\ submitted # <<>>
      BY <2>1, <2>2, JobIsOver
    <2>4. Tracked'
      BY <2>2, <2>3 DEF Tracked, Left, Working
    <2>5. Alone'
      BY <2>3 DEF Alone
    <2> QED
      BY <2>3, <2>4, <2>5
  <1>16. CASE Cut
    BY <1>16 DEF Cut
  <1>17. CASE Terminated \/ UNCHANGED run_vars
    BY <1>17, <1>a, <1>b, <1>c, <1>l DEF Terminated, run_vars, running, slurm
  <1> QED
    BY <1>1, <1>2, <1>3, <1>4, <1>5, <1>6, <1>7, <1>8, <1>9, <1>10, <1>11, <1>12, <1>13, <1>14, <1>15, <1>16, <1>17
    DEF RunNext, Starts, Script, Program, Ends

LEMMA OneJobKept == RunTypes /\ Unstarted /\ OneJobAtATime /\ [RunNext]_run_vars => OneJobAtATime'
  <1> SUFFICES ASSUME RunTypes, Unstarted, OneJobAtATime, [RunNext]_run_vars PROVE OneJobAtATime'
    OBVIOUS
  <1>1. config' = config
    BY DEF RunNext, Starts, Script, Program, Ends, Terminated, run_vars, Check, StoreTestRun, SubmitTest, StartsProcess,
       ProcessReturns, EtcdAnswers, EtcdTimesOut, KillsEtcd, EtcdStubborn, LastCommandDone, ReadsJobId, EtcdReady, Writes,
       Prepared, Completes, JobOver, Collect, Judge, LauncherSubmits, LauncherEnds, EtcdDies, Cut, Breaks
  <1>2. Launched' <=> Launched
    BY <1>1 DEF Launched, IsBridge
  <1>3. CASE Launched
    BY <1>2, <1>3, LauncherKept DEF OneJobAtATime
  <1>4. CASE ~Launched
    BY <1>2, <1>4, BatchKept DEF OneJobAtATime
  <1> QED
    BY <1>3, <1>4

(* NothingLeftOver follows.                                                *)
LEMMA JobsEnded == RunTypes /\ Unstarted /\ OneJobAtATime => NothingLeftOver
  <1> SUFFICES ASSUME RunTypes, Unstarted, OneJobAtATime PROVE NothingLeftOver
    OBVIOUS
  <1>1. ASSUME Left PROVE ~JobAlive
    <2>1. CASE Launched
      BY <1>1, <2>1, AliveIs DEF OneJobAtATime, Tracked
    <2>2. CASE ~Launched
      <3>1. submitted = <<"over">>
        BY <1>1, <2>2 DEF OneJobAtATime, Batch
      <3> QED
        BY <3>1 DEF JobAlive, Alive
    <2> QED
      BY <2>1, <2>2
  <1>2. phase \in {"collected", "judged"} => artifacts = {}
    BY DEF Unstarted
  <1> QED
    BY <1>1, <1>2 DEF NothingLeftOver, Left

-----------------------------------------------------------------------------
(* The programs, the script and the exit code.                             *)

(* A benchmark that is done has printed all; one that failed could not     *)
(* run, or something happened to it. Nothing is printed by what cannot     *)
(* run.                                                                    *)
Works ==
  /\ \A b \in Benches(config) :
       /\ procs[b] = "done" => printed = Len(output(config)) /\ Runs(config)
       /\ procs[b] = "failed" => ~Runs(config) \/ trouble # {}
       /\ procs[b] = "none" => printed = 0
  /\ ~Runs(config) => printed = 0

(* The lines of a script above the one that is next have returned, and a   *)
(* script to which nothing happened came to its last line. The exit code   *)
(* is that of the benchmark where its line is the last one. What an        *)
(* exploration runs was admitted.                                          *)
LinesDone ==
  /\ \A n \in 1 .. Len(script(config)) :
       n < line /\ script(config)[n][1] \in {"run", "must"} => Returned(script(config)[n][2])
  /\ Left /\ trouble = {} => line > Len(script(config))

ExitCodeOfMain ==
  \/ phase = "running" /\ line > Len(script(config))
  \/ Left /\ "cut" \notin trouble
  => Returned(main) /\ exit_code = IF procs[main] = "done" THEN 0 ELSE 1

Admitted == config.dse /\ phase \notin {"check", "rejected", "raised"} => constraint_check(config)

Progress ==
  /\ ~Launched => LinesDone
  /\ config.workload = "MegatronRun" => ExitCodeOfMain
  /\ Admitted

(* The verdict, the metric and the report are made of the files as they    *)
(* are now: nothing writes to them any more.                               *)
Judged ==
  phase = "judged" =>
    /\ verdict = was_run_successful(config.workload, config.option, log, exit_code)
    /\ metric = get_metric(config.workload, log)
    /\ report = (samples(config.workload, log) # 0)

(* The configuration stays, and so do the faults; then each part of the    *)
(* invariant.                                                              *)
LEMMA ConfigKept == [RunNext]_run_vars => config' = config /\ trouble \subseteq trouble'
  BY DEF RunNext, Starts, Script, Program, Ends, Terminated, run_vars, Check, StoreTestRun, SubmitTest, StartsProcess,
     ProcessReturns, EtcdAnswers, EtcdTimesOut, KillsEtcd, EtcdStubborn, LastCommandDone, ReadsJobId, EtcdReady, Writes,
     Prepared, Completes, JobOver, Collect, Judge, LauncherSubmits, LauncherEnds, EtcdDies, Cut, Breaks

LEMMA InitWorks == RunInit => Works /\ Progress /\ Judged
  <1> SUFFICES ASSUME RunInit PROVE Works /\ Progress /\ Judged
    OBVIOUS
  <1>1. config \in Configs /\ Len(script(config)) \in Nat \ {0} /\ Benches(config) \subseteq Processes(config)
    BY ScriptFacts, ProcessFacts DEF RunInit
  <1>2. \A b \in Benches(config) : procs[b] = "none"
    BY <1>1 DEF RunInit
  <1>3. Works
    BY <1>2 DEF Works, RunInit
  <1>4. \A n \in 1 .. Len(script(config)) : ~(n < line)
    BY <1>1 DEF RunInit
  <1>5. Progress
    BY <1>4 DEF Progress, LinesDone, ExitCodeOfMain, Admitted, Left, RunInit
  <1> QED
    BY <1>3, <1>5 DEF Judged, RunInit

LEMMA JudgedKept == Judged /\ [RunNext]_run_vars => Judged'
  <1> SUFFICES ASSUME Judged, [RunNext]_run_vars PROVE Judged'
    OBVIOUS
  <1>1. CASE Judge
    BY <1>1 DEF Judge, Judged, running
  <1>2. CASE Terminated \/ UNCHANGED run_vars
    BY <1>2 DEF Terminated, run_vars, running, judged, Judged
  <1>a. ASSUME phase' # "judged" PROVE Judged'
    BY <1>a DEF Judged
  <1>3. CASE Check \/ StoreTestRun \/ SubmitTest \/ JobOver \/ Collect \/ Cut
    BY <1>a, <1>3 DEF Check, StoreTestRun, SubmitTest, JobOver, Collect, Cut
  <1>4. CASE \/ StartsProcess \/ EtcdAnswers \/ KillsEtcd \/ LauncherSubmits \/ LauncherEnds
             \/ EtcdReady \/ EtcdDies \/ Prepared \/ Writes \/ \E b \in Benches(config) : Completes(b) \/ Breaks(b)
    <2>1. phase' = phase /\ phase \in {"running", "polling"}
      BY <1>4 DEF StartsProcess, EtcdAnswers, KillsEtcd, LauncherSubmits, LauncherEnds, LauncherRuns, Executing,
         EtcdReady, EtcdDies, Prepared, Writes, Completes, Breaks, Working
    <2> QED
      BY <1>a, <2>1
  <1>5. CASE ProcessReturns \/ EtcdTimesOut \/ EtcdStubborn \/ LastCommandDone \/ ReadsJobId
    <2>1. phase' = "running" \/ \E code : ExitScript(code)
      BY <1>5 DEF ProcessReturns, EtcdTimesOut, EtcdStubborn, LastCommandDone, ReadsJobId, Executing
    <2> QED
      BY <1>a, <2>1 DEF ExitScript
  <1> QED
    BY <1>1, <1>2, <1>3, <1>4, <1>5 DEF RunNext, Starts, Script, Program, Ends

LEMMA WorksKept == RunTypes /\ OneJobAtATime /\ Works /\ [RunNext]_run_vars => Works'
  <1> SUFFICES ASSUME RunTypes, OneJobAtATime, Works, [RunNext]_run_vars PROVE Works'
    OBVIOUS
  <1>0. /\ config \in Configs /\ procs \in [Processes(config) -> ProcessStates]
        /\ printed \in 0 .. Len(output(config)) /\ Len(output(config)) \in Nat
    BY OutputFacts DEF RunTypes
  <1>p. /\ Benches(config) \subseteq Processes(config) /\ etcd \notin Benches(config) /\ launcher \notin Benches(config)
        /\ \A p \in {"matgen", "hostname", "pip"} : One(p) \notin Benches(config)
    BY <1>0, ProcessFacts
  <1>q. config' = config /\ trouble \subseteq trouble'
    BY ConfigKept
  <1>a. ASSUME printed' = printed,
               \A b \in Benches(config) : procs'[b] = procs[b] \/ procs'[b] \in {"running", "healthy"}
        PROVE  Works'
    BY <1>a, <1>q DEF Works
  <1>1. CASE \/ Check \/ StoreTestRun \/ SubmitTest \/ ProcessReturns \/ EtcdAnswers \/ EtcdTimesOut \/ EtcdStubborn
             \/ LastCommandDone \/ ReadsJobId \/ JobOver \/ Collect \/ Judge \/ Cut \/ Terminated \/ UNCHANGED run_vars
    BY <1>a, <1>1 DEF Check, StoreTestRun, SubmitTest, ProcessReturns, EtcdAnswers, EtcdTimesOut, EtcdStubborn,
       LastCommandDone, ReadsJobId, JobOver, Collect, Judge, Cut, Terminated, run_vars, running
  <1>2. CASE StartsProcess
    <2>1. Arg \in Processes(config) /\ procs' = [procs EXCEPT ![Arg] = "running"] /\ printed' = printed
      BY <1>2, CommandIs DEF StartsProcess
    <2>2. \A b \in Benches(config) : procs'[b] = procs[b] \/ procs'[b] = "running"
      BY <1>0, <1>p, <2>1
    <2> QED
      BY <1>a, <2>1, <2>2
  <1>3. CASE KillsEtcd
    <2>1. Arg = etcd /\ procs' = [procs EXCEPT ![Arg] = "done"] /\ printed' = printed
      BY <1>3, CommandIs DEF KillsEtcd
    <2>2. \A b \in Benches(config) : procs'[b] = procs[b]
      BY <1>0, <1>p, <2>1
    <2> QED
      BY <1>a, <2>1, <2>2
  <1>4. CASE LauncherEnds \/ EtcdReady \/ EtcdDies
    <2>1. printed' = printed /\ \A b \in Benches(config) : procs'[b] = procs[b]
      BY <1>0, <1>p, <1>4 DEF LauncherEnds, EtcdReady, EtcdDies
    <2> QED
      BY <1>a, <2>1
  <1>5. CASE Prepared
    <2>1. printed' = printed /\ \A b \in Benches(config) : procs'[b] = procs[b]
      BY <1>0, <1>p, <1>5 DEF Prepared
    <2> QED
      BY <1>a, <2>1
  <1>6. CASE LauncherSubmits
    <2>1. Launched
      BY <1>6, CommandIs DEF LauncherSubmits, LauncherRuns
    <2>2. Benches(config) = {main}
      BY <1>0, <2>1, ProcessFacts, LaunchedIs DEF Bridged
    <2>3. procs'[main] = "running" /\ printed' = 0
      BY <1>0, <1>p, <1>6, <2>2 DEF LauncherSubmits
    <2> QED
      BY <1>q, <2>2, <2>3 DEF Works
  <1>7. CASE Writes
    <2>1. \A b \in Benches(config) : procs'[b] = "running"
      BY <1>7 DEF Writes, Writing
    <2>2. Runs(config)
      BY <1>7 DEF Writes
    <2> QED
      BY <1>q, <2>1, <2>2 DEF Works
  <1>8. ASSUME NEW b \in Benches(config), Completes(b) PROVE Works'
    <2>1. /\ Runs(config) /\ printed = Len(output(config)) /\ printed' = printed
          /\ procs' = [procs EXCEPT ![b] = "done"]
      BY <1>8 DEF Completes
    <2>2. procs'[b] = "done" /\ \A d \in Benches(config) \ {b} : procs'[d] = procs[d]
      BY <1>0, <1>p, <2>1
    <2>3. ASSUME NEW d \in Benches(config), procs'[d] # "done" PROVE procs'[d] = procs[d]
      BY <2>2, <2>3
    <2> QED
      BY <1>q, <2>1, <2>3 DEF Works
  <1>9. ASSUME NEW b \in Benches(config), Breaks(b) PROVE Works'
    <2>1. /\ ~Runs(config) \/ trouble' # {}
          /\ printed' = printed
          /\ procs' = [procs EXCEPT ![b] = "failed"]
      BY <1>9 DEF Breaks
    <2>2. procs'[b] = "failed" /\ \A d \in Benches(config) \ {b} : procs'[d] = procs[d]
      BY <1>0, <1>p, <2>1
    <2>3. ASSUME NEW d \in Benches(config), procs'[d] # "failed" PROVE procs'[d] = procs[d]
      BY <2>2, <2>3
    <2>4. printed' = printed
      BY <1>9 DEF Breaks
    <2> QED
      BY <1>q, <2>1, <2>3, <2>4 DEF Works
  <1> QED
    BY <1>1, <1>2, <1>3, <1>4, <1>5, <1>6, <1>7, <1>8, <1>9 DEF RunNext, Starts, Script, Program, Ends

(* Outside of a launcher, a process that has returned stays so.            *)
LEMMA ReturnedKept ==
  ASSUME RunTypes, OneJobAtATime, ~Launched, [RunNext]_run_vars, NEW p \in Processes(config), Returned(p)
  PROVE  Returned(p)'
  <1>0. config \in Configs /\ procs \in [Processes(config) -> ProcessStates] /\ Benches(config) \subseteq Processes(config)
    BY ProcessFacts DEF RunTypes
  <1>p. {etcd, main, launcher, One("matgen"), One("hostname"), One("pip")} \subseteq Processes(config)
    BY <1>0, ProcessFacts
  <1>1. CASE \/ Check \/ StoreTestRun \/ SubmitTest \/ ProcessReturns \/ EtcdAnswers \/ EtcdTimesOut \/ EtcdStubborn
             \/ Writes \/ LastCommandDone \/ ReadsJobId \/ JobOver \/ Collect \/ Judge \/ Cut \/ Terminated \/ UNCHANGED run_vars
    BY <1>1 DEF Check, StoreTestRun, SubmitTest, ProcessReturns, EtcdAnswers, EtcdTimesOut, EtcdStubborn, Writes,
       LastCommandDone, ReadsJobId, JobOver, Collect, Judge, Cut, Terminated, run_vars, running, Returned
  <1>2. CASE StartsProcess \/ KillsEtcd
    BY <1>0, <1>2, CommandIs DEF StartsProcess, KillsEtcd, Returned
  <1>3. CASE LauncherSubmits
    BY <1>3, CommandIs DEF LauncherSubmits, LauncherRuns
  <1>4. CASE LauncherEnds \/ EtcdReady \/ EtcdDies
    BY <1>0, <1>p, <1>4 DEF LauncherEnds, EtcdReady, EtcdDies, Returned
  <1>5. CASE Prepared
    BY <1>0, <1>p, <1>5 DEF Prepared, Returned
  <1>6. ASSUME NEW b \in Benches(config), Completes(b) \/ Breaks(b) PROVE Returned(p)'
    BY <1>0, <1>6 DEF Completes, Breaks, Returned
  <1> QED
    BY <1>1, <1>2, <1>3, <1>4, <1>5, <1>6 DEF RunNext, Starts, Script, Program, Ends

(* How the line of a script moves, where there is no launcher.             *)
LEMMA LineMoves ==
  ASSUME RunTypes, OneJobAtATime, ~Launched, [RunNext]_run_vars
  PROVE  /\ \/ line' = line
            \/ Executing /\ line' = line + 1 /\ (Command \in {"run", "must"} => Returned(Arg))
         /\ Left' => \/ Left /\ line' = line
                     \/ trouble' # {}
                     \/ phase = "running" /\ line > Len(script(config)) /\ line' = line
  <1>b. phase # "polling"
    BY DEF OneJobAtATime, Batch
  <1>a. ASSUME phase' \notin {"ended", "collected", "judged"} PROVE ~Left'
    BY <1>a DEF Left
  <1>1. CASE Check \/ StoreTestRun \/ SubmitTest
    BY <1>1, <1>a DEF Check, StoreTestRun, SubmitTest
  <1>2. CASE StartsProcess
    <2>1. phase' = "running"
      BY <1>2 DEF StartsProcess, Executing
    <2> QED
      BY <1>2, <1>a, <2>1 DEF StartsProcess
  <1>3. CASE ProcessReturns
    <2>1. Command # "must" /\ Executing /\ Returned(Arg)
      BY <1>3, CommandIs DEF ProcessReturns
    <2>2. line' = line + 1 /\ phase' = "running"
      BY <1>3, <2>1 DEF ProcessReturns, Executing
    <2> QED
      BY <2>1, <2>2, <1>a
  <1>4. CASE EtcdAnswers \/ KillsEtcd
    <2>1. phase' = "running" /\ Executing /\ line' = line + 1 /\ Command \in {"healthy", "kill"}
      BY <1>4 DEF EtcdAnswers, KillsEtcd, Executing
    <2> QED
      BY <2>1, <1>a
  <1>5. CASE EtcdTimesOut \/ EtcdStubborn
    BY <1>5 DEF EtcdTimesOut, EtcdStubborn
  <1>6. CASE LastCommandDone
    BY <1>6 DEF LastCommandDone
  <1>7. CASE ReadsJobId \/ LauncherSubmits \/ LauncherEnds
    BY <1>7, CommandIs DEF ReadsJobId, LauncherSubmits, LauncherEnds, LauncherRuns
  <1>8. CASE EtcdReady \/ EtcdDies \/ Prepared \/ Writes \/ \E b \in Benches(config) : Completes(b) \/ Breaks(b)
    <2>1. line' = line /\ phase' = phase /\ Working
      BY <1>8 DEF EtcdReady, EtcdDies, Prepared, Writes, Completes, Breaks
    <2> QED
      BY <2>1, <1>a DEF Working
  <1>9. CASE JobOver
    BY <1>9, <1>b DEF JobOver
  <1>10. CASE Collect \/ Judge
    BY <1>10 DEF Collect, Judge, Left
  <1>11. CASE Cut
    BY <1>11 DEF Cut
  <1>12. CASE Terminated \/ UNCHANGED run_vars
    BY <1>12 DEF Terminated, run_vars, Left
  <1> QED
    BY <1>1, <1>2, <1>3, <1>4, <1>5, <1>6, <1>7, <1>8, <1>9, <1>10, <1>11, <1>12
    DEF RunNext, Starts, Script, Program, Ends

LEMMA LinesKept ==
  RunTypes /\ OneJobAtATime /\ ~Launched /\ LinesDone /\ [RunNext]_run_vars => LinesDone'
  <1> SUFFICES ASSUME RunTypes, OneJobAtATime, ~Launched, LinesDone, [RunNext]_run_vars PROVE LinesDone'
    OBVIOUS
  <1> DEFINE N == Len(script(config))
  <1>1. config' = config /\ trouble \subseteq trouble' /\ config \in Configs
    BY ConfigKept DEF RunTypes
  <1>2. N \in Nat \ {0} /\ line \in 1 .. N + 1 /\ \A n \in 1 .. N : script(config)[n][2] \in Processes(config)
    BY <1>1, ScriptFacts DEF RunTypes
  <1>3. ASSUME NEW n \in 1 .. N, n < line', script(config)[n][1] \in {"run", "must"}
        PROVE  Returned(script(config)[n][2])'
    <2>1. Returned(script(config)[n][2])
      <3>1. CASE n < line
        BY <1>3, <3>1 DEF LinesDone
      <3>2. CASE ~(n < line)
        <4>1. line' = line + 1 /\ (Command \in {"run", "must"} => Returned(Arg))
          BY <1>3, <3>2, LineMoves
        <4>2. n = line
          <5> HIDE DEF N
          <5> QED
            BY <1>2, <1>3, <3>2, <4>1
        <4> QED
          BY <1>3, <4>1, <4>2 DEF Command, Arg
      <3> QED
        BY <3>1, <3>2
    <2> QED
      BY <1>1, <1>2, <2>1, ReturnedKept
  <1>4. ASSUME Left', trouble' = {} PROVE line' > N
    <2>1. trouble = {}
      BY <1>1, <1>4
    <2> QED
      BY <1>4, <2>1, LineMoves DEF LinesDone
  <1> QED
    BY <1>1, <1>3, <1>4 DEF LinesDone

LEMMA ExitCodeKept ==
  RunTypes /\ Unstarted /\ OneJobAtATime /\ config.workload = "MegatronRun" /\ ExitCodeOfMain /\ [RunNext]_run_vars
    => ExitCodeOfMain'
  <1> SUFFICES ASSUME RunTypes, Unstarted, OneJobAtATime, config.workload = "MegatronRun", ExitCodeOfMain,
                      [RunNext]_run_vars
               PROVE  ExitCodeOfMain'
    OBVIOUS
  <1>0. /\ config \in Configs /\ procs \in [Processes(config) -> ProcessStates] /\ config' = config
        /\ trouble \subseteq trouble' /\ ~Launched /\ Benches(config) = {main} /\ main \in Processes(config)
        /\ etcd # main /\ \A p \in {"matgen", "hostname", "pip"} : One(p) # main
    BY ConfigKept, ProcessFacts DEF RunTypes, Launched, IsBridge
  <1>1. Len(script(config)) = 1 /\ script(config)[1] = <<"run", main>>
    <2>1. script(config) = srun_script
      BY ScriptIs
    <2> QED
      BY <2>1 DEF srun_script, Run
  <1>2. Executing => line = 1 /\ Command = "run" /\ Arg = main
    <2> SUFFICES ASSUME Executing PROVE line = 1 /\ Command = "run" /\ Arg = main
      OBVIOUS
    <2>1. line \in 1 .. 1
      BY <1>1, CommandIs
    <2>2. line = 1
      BY <2>1
    <2> QED
      BY <1>1, <2>2 DEF Command, Arg
  <1>3. phase # "polling"
    BY <1>0 DEF OneJobAtATime, Batch
  <1>a. ASSUME phase' \notin {"running", "ended", "collected", "judged"} PROVE ExitCodeOfMain'
    BY <1>a DEF ExitCodeOfMain, Left
  <1>b. ASSUME line' = line, phase' = phase, exit_code' = exit_code, procs'[main] = procs[main] PROVE ExitCodeOfMain'
    BY <1>0, <1>b DEF ExitCodeOfMain, Left, Returned
  <1>4. CASE Check \/ StoreTestRun
    BY <1>a, <1>4 DEF Check, StoreTestRun
  <1>5. CASE SubmitTest
    <2>1. phase' = "raised" \/ (phase' = "running" /\ line' = 1)
      BY <1>5 DEF SubmitTest, Unstarted, Before
    <2>2. CASE phase' = "running" /\ line' = 1
      BY <1>0, <1>1, <2>2 DEF ExitCodeOfMain, Left
    <2> QED
      BY <1>a, <2>1, <2>2
  <1>6. CASE StartsProcess
    <2>1. line' = 1 /\ phase' = "running"
      BY <1>2, <1>6 DEF StartsProcess, Executing
    <2> QED
      BY <1>0, <1>1, <2>1 DEF ExitCodeOfMain, Left
  <1>7. CASE ProcessReturns
    <2>1. Returned(main) /\ exit_code' = (IF procs[main] = "done" THEN 0 ELSE 1) /\ procs' = procs
      BY <1>2, <1>7 DEF ProcessReturns
    <2> QED
      BY <2>1 DEF ExitCodeOfMain, Returned
  <1>8. CASE EtcdAnswers \/ EtcdTimesOut \/ KillsEtcd \/ EtcdStubborn \/ ReadsJobId \/ LauncherSubmits \/ LauncherEnds
    BY <1>2, <1>8 DEF EtcdAnswers, EtcdTimesOut, KillsEtcd, EtcdStubborn, ReadsJobId, LauncherSubmits, LauncherEnds,
       LauncherRuns
  <1>9. CASE LastCommandDone
    <2>1. Returned(main) /\ exit_code = (IF procs[main] = "done" THEN 0 ELSE 1)
      BY <1>9 DEF LastCommandDone, ExitCodeOfMain
    <2>2. procs' = procs /\ exit_code' = exit_code
      BY <1>9 DEF LastCommandDone, ExitScript
    <2> QED
      BY <2>1, <2>2 DEF ExitCodeOfMain, Returned
  <1>10. CASE EtcdReady \/ EtcdDies \/ Prepared \/ Writes
    <2>1. line' = line /\ phase' = phase /\ exit_code' = exit_code
      BY <1>10 DEF EtcdReady, EtcdDies, Prepared, Writes
    <2>2. procs'[main] = procs[main]
      BY <1>0, <1>10 DEF EtcdReady, EtcdDies, Prepared, Writes
    <2> QED
      BY <1>b, <2>1, <2>2
  <1>11. ASSUME NEW b \in Benches(config), Completes(b) \/ Breaks(b) PROVE ExitCodeOfMain'
    <2>1. b = main /\ procs[main] = "running" /\ phase = "running" /\ phase' = phase /\ line' = line
      BY <1>0, <1>3, <1>11 DEF Completes, Breaks, Working
    <2>2. ~(line > Len(script(config)))
      BY <2>1 DEF ExitCodeOfMain, Returned
    <2> QED
      BY <1>0, <2>1, <2>2 DEF ExitCodeOfMain, Left
  <1>12. CASE JobOver
    BY <1>3, <1>12 DEF JobOver
  <1>13. CASE Collect \/ Judge
    <2>1. Left /\ exit_code' = exit_code /\ procs' = procs /\ phase' # "running"
      BY <1>13 DEF Collect, Judge, Left, running
    <2> QED
      BY <1>0, <2>1 DEF ExitCodeOfMain, Returned
  <1>14. CASE Cut
    <2>1. phase' = "ended" /\ "cut" \in trouble'
      BY <1>14 DEF Cut
    <2> QED
      BY <2>1 DEF ExitCodeOfMain
  <1>15. CASE Terminated \/ UNCHANGED run_vars
    BY <1>15, <1>b DEF Terminated, run_vars, running
  <1> QED
    BY <1>4, <1>5, <1>6, <1>7, <1>8, <1>9, <1>10, <1>11, <1>12, <1>13, <1>14, <1>15
    DEF RunNext, Starts, Script, Program, Ends

LEMMA AdmittedKept == Admitted /\ [RunNext]_run_vars => Admitted'
  <1> SUFFICES ASSUME Admitted, [RunNext]_run_vars PROVE Admitted'
    OBVIOUS
  <1>1. config' = config
    BY ConfigKept
  <1>2. CASE Check
    BY <1>1, <1>2 DEF Check, Admitted
  <1>3. CASE phase \notin {"check", "rejected", "raised"}
    BY <1>1, <1>3 DEF Admitted
  <1>4. CASE phase \in {"check", "rejected", "raised"} /\ ~Check
    <2>1. phase' = phase
      BY <1>4 DEF RunNext, Starts, Script, Program, Ends, Terminated, run_vars, StoreTestRun, SubmitTest, StartsProcess,
         ProcessReturns, EtcdAnswers, EtcdTimesOut, KillsEtcd, EtcdStubborn, LastCommandDone, ReadsJobId, EtcdReady, Writes,
         Prepared, Completes, JobOver, Collect, Judge, LauncherSubmits, LauncherEnds, LauncherRuns, EtcdDies, Cut, Breaks,
         Executing, Working
    <2> QED
      BY <1>4, <2>1 DEF Admitted
  <1> QED
    BY <1>2, <1>3, <1>4

LEMMA ProgressKept ==
  RunTypes /\ Unstarted /\ OneJobAtATime /\ Progress /\ [RunNext]_run_vars => Progress'
  <1> SUFFICES ASSUME RunTypes, Unstarted, OneJobAtATime, Progress, [RunNext]_run_vars PROVE Progress'
    OBVIOUS
  <1>1. config' = config /\ (Launched' <=> Launched)
    BY ConfigKept DEF Launched, IsBridge
  <1>2. ~Launched => LinesDone'
    BY LinesKept DEF Progress
  <1>3. config.workload = "MegatronRun" => ExitCodeOfMain'
    BY ExitCodeKept DEF Progress
  <1>4. Admitted'
    BY AdmittedKept DEF Progress
  <1> QED
    BY <1>1, <1>2, <1>3, <1>4 DEF Progress


(* What the files hold: each line was printed, or is that of an error      *)
(* (Sourced); each line printed is there (Filed), in the order of          *)
(* printing within its file (InOrder). The file that Chakra replay is      *)
(* judged by begins with the first two lines it prints (Opening). After a  *)
(* fault, the log of a detached Megatron-Bridge launcher may lack lines.   *)
Source(n, f, t) == \E k \in 1 .. n : output(config)[k] = <<f, t>>
ErrorOf(faults, t) == t = error_line(config) /\ (~Runs(config) \/ faults # {})

Sourced == \A f \in files(config) : \A i \in 1 .. Len(log[f]) : Source(printed, f, log[f][i]) \/ ErrorOf(trouble, log[f][i])

At(l, k, i) == LET f == output(config)[k][1] IN i \in 1 .. Len(l[f]) /\ l[f][i] = output(config)[k][2]

Filed == \A k \in 1 .. printed : \E i \in Nat : At(log, k, i)

InOrder ==
  \A k, m \in 1 .. printed :
    k < m /\ output(config)[k][1] = output(config)[m][1] => \E i, j \in Nat : i < j /\ At(log, k, i) /\ At(log, m, j)

Opening ==
  config.workload = "ChakraReplay" /\ trouble = {} /\ Runs(config) =>
    /\ printed < 2 => Len(log["stdout"]) = printed
    /\ printed >= 1 => Len(log["stdout"]) >= 1 /\ log["stdout"][1] = output(config)[1][2]
    /\ printed >= 2 => Len(log["stdout"]) >= 2 /\ log["stdout"][2] = output(config)[2][2]

Logged == Started /\ (IsBridge => trouble = {}) => Sourced /\ Filed /\ InOrder /\ Opening

-----------------------------------------------------------------------------
(* The files of a run.                                                     *)

LEMMA PairIs ==
  ASSUME NEW x, NEW a, NEW b, x = <<a, b>>
  PROVE  x[1] = a /\ x[2] = b
  OBVIOUS

(* The invariant of the files is kept: by steps that touch no file, by     *)
(* the submission, when the launcher submits a job again, by a line of     *)
(* output, and by a line of an error.                                      *)
LEMMA LogSame ==
  ASSUME Logged, Started, log' = log, printed' = printed, config' = config, trouble \subseteq trouble'
  PROVE  Logged'
  <1> SUFFICES ASSUME (IsBridge => trouble = {})' PROVE (Sourced /\ Filed /\ InOrder /\ Opening)'
    BY DEF Logged
  <1>1. IsBridge => trouble = {}
    BY DEF IsBridge
  <1>2. Sourced /\ Filed /\ InOrder /\ Opening
    BY <1>1 DEF Logged
  <1>3. Sourced'
    BY <1>2 DEF Sourced, Source, ErrorOf
  <1>4. Filed' /\ InOrder'
    BY <1>2 DEF Filed, InOrder, At
  <1>5. Opening'
    BY <1>2 DEF Opening
  <1> QED
    BY <1>3, <1>4, <1>5

LEMMA LogStarts ==
  ASSUME RunTypes, Unstarted, SubmitTest
  PROVE  Logged'
  <1> SUFFICES ASSUME Started' PROVE (Sourced /\ Filed /\ InOrder /\ Opening)'
    BY DEF Logged
  <1>1. log' = [f \in files(config) |-> <<>>] /\ printed' = 0 /\ config' = config
    BY DEF SubmitTest, Started, Unstarted, Before
  <1>2. \A f \in files(config) : Len(log'[f]) = 0
    BY <1>1
  <1>3. Sourced'
    BY <1>1, <1>2 DEF Sourced
  <1>4. Filed' /\ InOrder'
    BY <1>1 DEF Filed, InOrder
  <1>5. Opening'
    <2>1. config.workload = "ChakraReplay" => "stdout" \in files(config)
      BY FilesAre
    <2> QED
      BY <1>1, <1>2, <2>1 DEF Opening
  <1> QED
    BY <1>3, <1>4, <1>5

LEMMA LogRestarts ==
  ASSUME RunTypes, Unstarted, OneJobAtATime, Works, Logged, LauncherSubmits
  PROVE  Logged'
  <1>1. /\ config \in Configs /\ Launched /\ Started /\ Jobs /\ ~JobAlive /\ config' = config /\ trouble' = trouble
        /\ log' = log /\ printed' = 0
        /\ submitted # <<>> => submitted[Len(submitted)] = "failed"
        /\ submitted = <<>> \/ IsBridge
    <2>1. Executing /\ Command = "launch"
      BY DEF LauncherSubmits, LauncherRuns
    <2>2. Launched /\ phase = "running"
      BY <2>1, CommandIs DEF Executing
    <2>3. submitted = <<>> \/ IsBridge
      <3>1. ~IsBridge => Len(submitted) < 1
        BY DEF LauncherSubmits
      <3>2. submitted \in Seq(JobStates)
        BY DEF RunTypes
      <3> QED
        BY <3>1, <3>2
    <2> QED
      BY <2>2, <2>3 DEF LauncherSubmits, RunTypes, OneJobAtATime, Started
  <1>2. main \in Benches(config)
    BY <1>1, ProcessFacts, LaunchedIs DEF Bridged
  <1>3. (IsBridge => trouble = {}) => printed = 0
    <2>1. CASE submitted = <<>>
      <3>1. procs[main] = "none"
        BY <1>1, <2>1 DEF Jobs
      <3> QED
        BY <1>2, <3>1 DEF Works
    <2>2. CASE submitted # <<>>
      <3>1. procs[main] = "failed" /\ IsBridge
        BY <1>1, <2>2 DEF Jobs, AsMain
      <3> QED
        BY <1>2, <3>1 DEF Works
    <2> QED
      BY <2>1, <2>2
  <1>4. CASE IsBridge => trouble = {}
    BY <1>1, <1>3, <1>4, LogSame
  <1>5. CASE ~(IsBridge => trouble = {})
    BY <1>1, <1>5 DEF Logged, IsBridge
  <1> QED
    BY <1>4, <1>5

LEMMA LogGrows ==
  ASSUME RunTypes, OneJobAtATime, Works, Logged, Writes
  PROVE  Logged'
  <1> SUFFICES ASSUME (IsBridge => trouble = {})' PROVE (Sourced /\ Filed /\ InOrder /\ Opening)'
    BY DEF Logged
  <1> DEFINE k == printed + 1
             o == output(config)
             f == o[k][1]
             t == o[k][2]
  <1>1. /\ config' = config /\ trouble' = trouble /\ printed' = k /\ printed \in Nat /\ k \in 1 .. Len(o) /\ Started
        /\ Runs(config) /\ Working /\ Writing(config)
    BY OutputFacts DEF Writes, RunTypes, Working, Started
  <1>2. IsBridge => trouble = {}
    BY <1>1 DEF IsBridge
  <1>3. Sourced /\ Filed /\ InOrder /\ Opening
    BY <1>1, <1>2 DEF Logged
  <1>4. ~Detached
    <2> SUFFICES ASSUME Detached PROVE FALSE
      OBVIOUS
    <2>1. IsBridge /\ Launched /\ config \in Configs
      BY DEF Detached, Launched, RunTypes
    <2>2. submitted # <<>> /\ submitted[Len(submitted)] # "running"
      BY <1>2, <2>1 DEF OneJobAtATime, Alone, Detached
    <2>3. procs[main] # "running"
      BY <2>1, <2>2, AliveIs DEF OneJobAtATime
    <2>4. procs[main] = "running"
      <3>1. main \in Benches(config)
        BY <2>1, ProcessFacts DEF IsBridge
      <3> QED
        BY <1>1, <3>1 DEF Writing
    <2> QED
      BY <2>3, <2>4
  <1>5. o[k] = <<f, t>> /\ f \in files(config) /\ t \in LogLine(config)
    BY <1>1, OutputFacts DEF LogLine
  <1>6. log \in [files(config) -> Seq(LogLine(config))]
    BY <1>1 DEF RunTypes
  <1>7. Adds(files(config), LogLine(config), log, f, t, log')
    <2>1. log' = [log EXCEPT ![f] = Append(@, t)]
      BY <1>4 DEF Writes
    <2> HIDE DEF f, t
    <2> QED
      BY <1>5, <1>6, <2>1 DEF Adds
  <1> DEFINE n == Len(log[f]) + 1
  <1> HIDE DEF f, t
  <1>8. /\ log' \in [files(config) -> Seq(LogLine(config))]
        /\ \A g \in files(config) \ {f} : log'[g] = log[g]
        /\ Len(log'[f]) = n /\ Len(log[f]) \in Nat
        /\ \A i \in 1 .. Len(log[f]) : log'[f][i] = log[f][i]
        /\ log'[f][n] = t
    BY <1>7, Appended
  <1>9. /\ n \in Nat /\ n \in 1 .. n /\ \A i \in 1 .. Len(log[f]) : i \in 1 .. n /\ i < n
        /\ \A i \in 1 .. n : i # n => i \in 1 .. Len(log[f])
        /\ printed \in Nat /\ k \in 1 .. k /\ \A j \in 1 .. printed : j \in 1 .. k /\ j < k
        /\ \A j \in 1 .. k : j # k => j \in 1 .. printed
    <2> DEFINE l == Len(log[f])
    <2>1. l \in Nat /\ n = l + 1 /\ printed \in Nat /\ k = printed + 1
      BY <1>1, <1>8
    <2> HIDE DEF l, n, k
    <2>2. /\ n \in Nat /\ n \in 1 .. n /\ \A i \in 1 .. l : i \in 1 .. n /\ i < n
          /\ \A i \in 1 .. n : i # n => i \in 1 .. l
          /\ k \in 1 .. k /\ \A j \in 1 .. printed : j \in 1 .. k /\ j < k
          /\ \A j \in 1 .. k : j # k => j \in 1 .. printed
      BY <2>1
    <2> QED
      BY <2>1, <2>2 DEF l
  <1> HIDE DEF n, k
  <1>10. Sourced'
    <2> SUFFICES ASSUME NEW g \in files(config), NEW i \in 1 .. Len(log'[g])
                 PROVE  Source(k, g, log'[g][i]) \/ ErrorOf(trouble', log'[g][i])
      BY <1>1 DEF Sourced, Source, ErrorOf
    <2>1. ASSUME i \in 1 .. Len(log[g]), log'[g][i] = log[g][i]
          PROVE  Source(k, g, log'[g][i]) \/ ErrorOf(trouble', log'[g][i])
      <3>1. Source(printed, g, log[g][i]) \/ ErrorOf(trouble, log[g][i])
        BY <1>3, <2>1 DEF Sourced
      <3>2. ErrorOf(trouble, log[g][i]) => ErrorOf(trouble', log'[g][i])
        BY <1>1, <2>1 DEF ErrorOf
      <3>3. Source(printed, g, log[g][i]) => Source(k, g, log'[g][i])
        <4> SUFFICES ASSUME NEW j \in 1 .. printed, o[j] = <<g, log[g][i]>> PROVE Source(k, g, log'[g][i])
          BY DEF Source
        <4>1. j \in 1 .. k
          BY <1>9
        <4> QED
          BY <1>1, <2>1, <4>1 DEF Source
      <3> QED
        BY <3>1, <3>2, <3>3
    <2>2. CASE g # f
      BY <1>8, <2>1, <2>2
    <2>3. CASE g = f /\ i # n
      <3>1. i \in 1 .. Len(log[f])
        BY <1>8, <1>9, <2>3
      <3> QED
        BY <1>8, <2>1, <2>3, <3>1
    <2>4. CASE g = f /\ i = n
      <3>1. o[k] = <<g, log'[g][i]>>
        BY <1>5, <1>8, <2>4
      <3>2. Source(k, g, log'[g][i])
        BY <1>1, <1>9, <3>1 DEF Source
      <3> QED
        BY <3>2
    <2> QED
      BY <2>2, <2>3, <2>4
  <1>11. ASSUME NEW j \in 1 .. printed, NEW i \in Nat, At(log, j, i) PROVE At(log', j, i) /\ (o[j][1] = f => i < n)
    <2> DEFINE g == o[j][1]
    <2>1. g \in files(config)
      <3>1. j \in 1 .. Len(o)
        BY <1>1 DEF k
      <3> QED
        BY <3>1, OutputFacts
    <2>2. i \in 1 .. Len(log[g]) /\ log[g][i] = o[j][2]
      BY <1>11 DEF At
    <2> HIDE DEF g
    <2>3. CASE g # f
      BY <1>1, <1>8, <2>1, <2>2, <2>3 DEF At, g
    <2>4. CASE g = f
      <3>1. i \in 1 .. Len(log'[g]) /\ log'[g][i] = o[j][2] /\ i < n
        BY <1>8, <1>9, <2>2, <2>4
      <3> QED
        BY <1>1, <3>1 DEF At, g
    <2> QED
      BY <2>3, <2>4 DEF g
  <1>12. At(log', k, n)
    <2>1. o[k][1] = f /\ o[k][2] = t
      BY DEF f, t
    <2>2. At(log', k, n) <=> n \in 1 .. Len(log'[f]) /\ log'[f][n] = t
      BY <1>1, <2>1 DEF At
    <2> QED
      BY <1>8, <1>9, <2>2
  <1>13. Filed'
    <2> SUFFICES ASSUME NEW j \in 1 .. k PROVE \E i \in Nat : At(log', j, i)
      BY <1>1 DEF Filed, At
    <2>1. CASE j = k
      BY <1>9, <1>12, <2>1
    <2>2. CASE j # k
      BY <1>3, <1>9, <1>11, <2>2 DEF Filed
    <2> QED
      BY <2>1, <2>2
  <1>14. InOrder'
    <2> SUFFICES ASSUME NEW j \in 1 .. k, NEW m \in 1 .. k, j < m, o[j][1] = o[m][1]
                 PROVE  \E x, y \in Nat : x < y /\ At(log', j, x) /\ At(log', m, y)
      <3> SUFFICES \A j, m \in 1 .. printed' :
                     j < m /\ o[j][1] = o[m][1] => \E x, y \in Nat : x < y /\ At(log', j, x) /\ At(log', m, y)
        <4>1. config' = config
          BY <1>1
        <4> QED
          BY <4>1 DEF InOrder, At
      <3> QED
        BY <1>1
    <2>1. CASE m = k
      <3>1. j \in 1 .. printed
        BY <1>9, <2>1
      <3>2. PICK i \in Nat : At(log, j, i)
        BY <1>3, <3>1 DEF Filed
      <3>3. At(log', j, i) /\ i < n
        BY <1>11, <2>1, <3>1, <3>2 DEF f
      <3> QED
        BY <1>9, <1>12, <2>1, <3>3
    <2>2. CASE m # k
      <3>1. m \in 1 .. printed
        BY <1>9, <2>2
      <3>2. j \in 1 .. printed
        BY <1>9, <3>1
      <3>3. PICK x, y \in Nat : x < y /\ At(log, j, x) /\ At(log, m, y)
        BY <1>3, <3>1, <3>2 DEF InOrder
      <3> QED
        BY <1>11, <3>1, <3>2, <3>3
    <2> QED
      BY <2>1, <2>2
  <1>15. Opening'
    <2> SUFFICES ASSUME config.workload = "ChakraReplay", trouble = {}, Runs(config)
                 PROVE  /\ k < 2 => Len(log'["stdout"]) = k
                        /\ k >= 1 => Len(log'["stdout"]) >= 1 /\ log'["stdout"][1] = o[1][2]
                        /\ k >= 2 => Len(log'["stdout"]) >= 2 /\ log'["stdout"][2] = o[2][2]
      BY <1>1 DEF Opening
    <2> DEFINE l == Len(log["stdout"])
    <2>1. o[1][1] = "stdout" /\ o[2][1] = "stdout" /\ "stdout" \in files(config)
      <3>1. config \in Configs
        BY DEF RunTypes
      <3> QED
        <4>1. o[1] = <<"stdout", "Hello from Rank">> /\ o[2] = <<"stdout", "row">>
          BY <3>1, ChakraOutput
        <4>2. "stdout" \in files(config)
          BY FilesAre
        <4> QED
          BY <4>1, <4>2, PairIs
    <2>2. /\ printed < 2 => l = printed
          /\ printed >= 1 => l >= 1 /\ log["stdout"][1] = o[1][2]
          /\ printed >= 2 => l >= 2 /\ log["stdout"][2] = o[2][2]
          /\ l \in Nat
      BY <1>3, <1>6, <2>1 DEF Opening
    <2>3. /\ f = "stdout" => /\ Len(log'["stdout"]) = l + 1 /\ log'["stdout"][l + 1] = t
                             /\ \A i \in 1 .. l : log'["stdout"][i] = log["stdout"][i]
          /\ f # "stdout" => log'["stdout"] = log["stdout"]
      BY <1>8, <2>1 DEF n
    <2> HIDE DEF l
    <2>4. CASE printed = 0
      <3>1. k = 1 /\ f = "stdout" /\ t = o[1][2] /\ l = 0
        BY <2>1, <2>2, <2>4 DEF k, f, t
      <3> QED
        BY <2>3, <3>1
    <2>5. CASE printed = 1
      <3>1. k = 2 /\ f = "stdout" /\ t = o[2][2] /\ l = 1 /\ log["stdout"][1] = o[1][2]
        BY <2>1, <2>2, <2>5 DEF k, f, t
      <3>2. Len(log'["stdout"]) = 2 /\ log'["stdout"][2] = o[2][2] /\ log'["stdout"][1] = o[1][2]
        BY <2>3, <3>1
      <3> QED
        BY <3>1, <3>2
    <2>6. CASE printed \notin {0, 1}
      <3>1. printed >= 2 /\ k > 2 /\ k \in Nat /\ l >= 2
        BY <1>1, <2>2, <2>6 DEF k
      <3>2. Len(log'["stdout"]) >= 2 /\ log'["stdout"][1] = log["stdout"][1] /\ log'["stdout"][2] = log["stdout"][2]
        <4>1. 1 \in 1 .. l /\ 2 \in 1 .. l
          BY <2>2, <3>1
        <4>2. Len(log["stdout"]) = l
          BY DEF l
        <4> QED
          BY <2>2, <2>3, <3>1, <4>1, <4>2
      <3>3. log["stdout"][1] = o[1][2] /\ log["stdout"][2] = o[2][2]
        BY <2>2, <3>1, <1>1
      <3> QED
        BY <3>1, <3>2, <3>3
    <2> QED
      BY <2>4, <2>5, <2>6
  <1> QED
    BY <1>10, <1>13, <1>14, <1>15

LEMMA LogBreaks ==
  ASSUME RunTypes, OneJobAtATime, Works, Logged, NEW b \in Benches(config), Breaks(b)
  PROVE  Logged'
  <1> SUFFICES ASSUME (IsBridge => trouble = {})' PROVE (Sourced /\ Filed /\ InOrder /\ Opening)'
    BY DEF Logged
  <1> DEFINE f == error_file(config)
             t == error_line(config)
             o == output(config)
  <1>1. /\ config' = config /\ trouble \subseteq trouble' /\ printed' = printed /\ Started
        /\ ~Runs(config) \/ trouble' # {}
    BY DEF Breaks, Working, Started
  <1>2. IsBridge => trouble = {}
    BY <1>1 DEF IsBridge
  <1>3. Sourced /\ Filed /\ InOrder /\ Opening
    BY <1>1, <1>2 DEF Logged
  <1>4. CASE Detached
    <2>1. log' = log
      BY <1>4 DEF Breaks
    <2>2. Logged'
      BY <1>1, <2>1, LogSame
    <2>3. Started'
      BY DEF Breaks, Working, Started
    <2> QED
      BY <2>2, <2>3 DEF Logged
  <1>5. CASE ~Detached
    <2>1. f \in files(config) /\ t \in LogLine(config)
      BY FilesAre DEF LogLine
    <2>2. log \in [files(config) -> Seq(LogLine(config))]
      BY <1>1 DEF RunTypes
    <2>3. Adds(files(config), LogLine(config), log, f, t, log')
      <3>1. log' = [log EXCEPT ![f] = Append(@, t)]
        BY <1>5 DEF Breaks
      <3> HIDE DEF f, t
      <3> QED
        BY <2>1, <2>2, <3>1 DEF Adds
    <2> DEFINE n == Len(log[f]) + 1
    <2> HIDE DEF f, t
    <2>4. /\ log' \in [files(config) -> Seq(LogLine(config))]
          /\ \A g \in files(config) \ {f} : log'[g] = log[g]
          /\ Len(log'[f]) = n /\ Len(log[f]) \in Nat
          /\ \A i \in 1 .. Len(log[f]) : log'[f][i] = log[f][i]
          /\ log'[f][n] = t
      BY <2>3, Appended
    <2>5. /\ \A i \in 1 .. Len(log[f]) : i \in 1 .. n
          /\ \A i \in 1 .. n : i # n => i \in 1 .. Len(log[f])
      BY <2>4
    <2> HIDE DEF n
    <2>6. Sourced'
      <3> SUFFICES ASSUME NEW g \in files(config), NEW i \in 1 .. Len(log'[g])
                   PROVE  Source(printed, g, log'[g][i]) \/ ErrorOf(trouble', log'[g][i])
        BY <1>1 DEF Sourced, Source, ErrorOf
      <3>1. ASSUME i \in 1 .. Len(log[g]), log'[g][i] = log[g][i]
            PROVE  Source(printed, g, log'[g][i]) \/ ErrorOf(trouble', log'[g][i])
        <4>1. Source(printed, g, log[g][i]) \/ ErrorOf(trouble, log[g][i])
          BY <1>3, <3>1 DEF Sourced
        <4>2. ErrorOf(trouble, log[g][i]) => ErrorOf(trouble', log'[g][i])
          BY <1>1, <3>1 DEF ErrorOf
        <4>3. Source(printed, g, log[g][i]) => Source(printed, g, log'[g][i])
          BY <1>1, <3>1 DEF Source
        <4> QED
          BY <4>1, <4>2, <4>3
      <3>2. CASE g # f
        BY <2>4, <3>1, <3>2
      <3>3. CASE g = f /\ i # n
        BY <2>4, <2>5, <3>1, <3>3
      <3>4. CASE g = f /\ i = n
        BY <1>1, <2>4, <3>4 DEF ErrorOf, t
      <3> QED
        BY <3>2, <3>3, <3>4
    <2>7. ASSUME NEW j \in 1 .. printed, NEW i \in Nat, At(log, j, i) PROVE At(log', j, i)
      <3> DEFINE g == o[j][1]
      <3>1. g \in files(config)
        <4>1. j \in 1 .. Len(o)
          BY OutputFacts DEF RunTypes
        <4> QED
          BY <4>1, OutputFacts
      <3>2. i \in 1 .. Len(log[g]) /\ log[g][i] = o[j][2]
        BY <2>7 DEF At
      <3> HIDE DEF g
      <3>3. CASE g # f
        BY <1>1, <2>4, <3>1, <3>2, <3>3 DEF At, g
      <3>4. CASE g = f
        <4>1. i \in 1 .. Len(log'[g]) /\ log'[g][i] = o[j][2]
          BY <2>4, <2>5, <3>2, <3>4
        <4> QED
          BY <1>1, <4>1 DEF At, g
      <3> QED
        BY <3>3, <3>4
    <2>8. Filed'
      BY <1>1, <1>3, <2>7 DEF Filed, At
    <2>9. InOrder'
      <3> SUFFICES ASSUME NEW j \in 1 .. printed, NEW m \in 1 .. printed, j < m, o[j][1] = o[m][1]
                   PROVE  \E x, y \in Nat : x < y /\ At(log', j, x) /\ At(log', m, y)
        BY <1>1 DEF InOrder, At
      <3>1. PICK x, y \in Nat : x < y /\ At(log, j, x) /\ At(log, m, y)
        BY <1>3 DEF InOrder
      <3> QED
        BY <2>7, <3>1
    <2>10. Opening'
      BY <1>1 DEF Opening
    <2> QED
      BY <2>6, <2>8, <2>9, <2>10
  <1> QED
    BY <1>4, <1>5

LEMMA LoggedKept ==
  RunTypes /\ Unstarted /\ OneJobAtATime /\ Works /\ Logged /\ [RunNext]_run_vars => Logged'
  <1> SUFFICES ASSUME RunTypes, Unstarted, OneJobAtATime, Works, Logged, [RunNext]_run_vars PROVE Logged'
    OBVIOUS
  <1>0. config' = config /\ trouble \subseteq trouble'
    BY ConfigKept
  <1>a. ASSUME Started, log' = log, printed' = printed PROVE Logged'
    BY <1>0, <1>a, LogSame
  <1>b. ASSUME ~Started' PROVE Logged'
    BY <1>b DEF Logged
  <1>1. CASE Check \/ StoreTestRun
    BY <1>1, <1>b DEF Check, StoreTestRun, Started
  <1>2. CASE SubmitTest
    BY <1>2, LogStarts
  <1>3. CASE LauncherSubmits
    BY <1>3, LogRestarts
  <1>4. CASE Writes
    BY <1>4, LogGrows
  <1>5. CASE \E b \in Benches(config) : Breaks(b)
    BY <1>5, LogBreaks
  <1>6. CASE \/ StartsProcess \/ ProcessReturns \/ EtcdAnswers \/ EtcdTimesOut \/ KillsEtcd \/ EtcdStubborn
             \/ LastCommandDone \/ ReadsJobId \/ LauncherEnds
    <2>1. phase = "running" /\ log' = log /\ printed' = printed
      BY <1>6 DEF StartsProcess, ProcessReturns, EtcdAnswers, EtcdTimesOut, KillsEtcd, EtcdStubborn,
         LastCommandDone, ReadsJobId, LauncherEnds, LauncherRuns, Executing
    <2> QED
      BY <1>a, <2>1 DEF Started
  <1>7. CASE EtcdReady \/ EtcdDies \/ Prepared \/ \E b \in Benches(config) : Completes(b)
    <2>1. Working /\ log' = log /\ printed' = printed
      BY <1>7 DEF EtcdReady, EtcdDies, Prepared, Completes
    <2> QED
      BY <1>a, <2>1 DEF Started, Working
  <1>8. CASE JobOver \/ Collect \/ Judge \/ Cut
    <2>1. Started /\ log' = log /\ printed' = printed
      BY <1>8 DEF JobOver, Collect, Judge, Cut, running, Started
    <2> QED
      BY <1>a, <2>1
  <1>9. CASE Terminated \/ UNCHANGED run_vars
    <2>1. phase' = phase /\ log' = log /\ printed' = printed
      BY <1>9 DEF Terminated, run_vars, running
    <2> QED
      BY <1>a, <1>b, <2>1 DEF Started
  <1> QED
    BY <1>1, <1>2, <1>3, <1>4, <1>5, <1>6, <1>7, <1>8, <1>9 DEF RunNext, Starts, Script, Program, Ends

LEMMA InitLogged == RunInit => Logged
  BY DEF RunInit, Logged, Started

(* The inductive invariant: the types, what holds before the submission    *)
(* and after the collection, one job at a time, what the processes, the    *)
(* script and the files are like, and what the verdict is made of.         *)
RunInvariant == RunTypes /\ Unstarted /\ OneJobAtATime /\ Works /\ Progress /\ Logged /\ Judged

(* The invariant holds in every state of a run, whatever the               *)
(* configurations, the number of nodes, steps and devices, the retries of  *)
(* the launcher and the faults.                                            *)
THEOREM RunInvariance == RunSpec => []RunInvariant
  <1>1. RunInit => RunInvariant
    BY InitRunTypes, InitOneJob, InitWorks, InitLogged DEF RunInvariant
  <1>2. RunInvariant /\ [RunNext]_run_vars => RunInvariant'
    BY RunTypesKept, UnstartedKept, OneJobKept, WorksKept, ProgressKept, LoggedKept, JudgedKept DEF RunInvariant
  <1> QED
    BY <1>1, <1>2, PTL DEF RunSpec

(* When the results of a test run are read, none of its jobs is still      *)
(* running, however many jobs its launcher submitted (RunBridgeCommand,    *)
(* is_job_completed); and when the job has been collected, the mount       *)
(* directories of NIXL that on_job_completion removes are gone, although   *)
(* making its metadata makes them once more.                               *)
THEOREM NothingIsLeftOver == RunSpec => []NothingLeftOver
  <1>1. RunInvariant => NothingLeftOver
    BY JobsEnded DEF RunInvariant
  <1> QED
    BY <1>1, RunInvariance, PTL

-----------------------------------------------------------------------------
(* Verdicts and metrics.                                                   *)

(* What a workload is judged by.                                           *)
LEMMA VerdictIs ==
  ASSUME NEW w, NEW option, NEW l, NEW code
  PROVE  /\ w = "NcclTest" => was_run_successful(w, option, l, code) = nccl_successful(l)
         /\ w = "DDLBTest" => was_run_successful(w, option, l, code) = ddlb_successful(l)
         /\ w = "OSUBench" => was_run_successful(w, option, l, code) = osu_successful(l, option)
         /\ w = "NeMoRun" => was_run_successful(w, option, l, code) = nemo_run_successful(l)
         /\ w = "MegatronRun" => was_run_successful(w, option, l, code) = megatron_run_successful(l, code)
         /\ w \in {"NIXLBench", "NIXLKVBench"} => was_run_successful(w, option, l, code) = nixlbench_successful(l)
         /\ w = "MegatronBridge" => was_run_successful(w, option, l, code) = megatron_bridge_successful(l)
         /\ w \notin {"NcclTest", "DDLBTest", "OSUBench", "NeMoRun", "MegatronRun", "NIXLBench", "NIXLKVBench",
                      "MegatronBridge"} => was_run_successful(w, option, l, code) = TRUE
  BY Zenon DEF was_run_successful

LEMMA MegatronVerdict ==
  ASSUME NEW option, NEW l, NEW code
  PROVE  was_run_successful("MegatronRun", option, l, code) = megatron_run_successful(l, code)
  BY Zenon DEF was_run_successful

LEMMA SamplesAre ==
  ASSUME NEW w, NEW l
  PROVE  /\ w = "NcclTest" => samples(w, l) = nccl_rows(l)
         /\ w = "NeMoRun" => samples(w, l) = nemo_run_samples(l)
         /\ w = "MegatronRun" => samples(w, l) = megatron_run_rows(l)
         /\ w = "NIXLBench" => samples(w, l) = nixlbench_data(l)
         /\ w = "MegatronBridge" => samples(w, l) = mbridge_steps(l)
         /\ w = "NeMoLauncher" => samples(w, l) = nemo_launcher_rows(l)
         /\ w = "DeepEP" => samples(w, l) = deepep_rows(l)
         /\ w = "ChakraReplay" => samples(w, l) = IF chakra_handles(l) THEN tensor_sizes(l) ELSE 0
  BY Zenon DEF samples

(* The reports that are registered.                                        *)
LEMMA Added ==
  ASSUME NEW calls, NEW w, NEW r, <<w, r>> \in calls
  PROVE  w \in DOMAIN add_report(calls) /\ r \in add_report(calls)[w]
  <1> DEFINE p == <<w, r>>
  <1>1. p[1] = w /\ p[2] = r
    OBVIOUS
  <1> HIDE DEF p
  <1>2. p \in calls
    BY DEF p
  <1>3. w \in {c[1] : c \in calls} /\ r \in {c[2] : c \in {d \in calls : d[1] = w}}
    BY <1>1, <1>2
  <1> QED
    BY <1>3 DEF add_report

LEMMA Metrics ==
  ASSUME NEW w \in {"NcclTest", "NeMoRun", "MegatronRun", "NIXLBench", "MegatronBridge"}, NEW l
  PROVE  get_metric(w, l) = Mean(samples(w, l))
  <1>1. \E r \in DefaultMetric : w \in DOMAIN reports_map /\ r \in reports_map[w]
    <2>1. "NcclTest" \in DOMAIN reports_map /\ "NcclTestPerformance" \in reports_map["NcclTest"]
      <3>1. <<"NcclTest", "NcclTestPerformance">> \in report_calls
        BY Zenon DEF report_calls
      <3> QED
        BY <3>1, Added, Zenon DEF reports_map
    <2>2. "NeMoRun" \in DOMAIN reports_map /\ "NeMoRun" \in reports_map["NeMoRun"]
      <3>1. <<"NeMoRun", "NeMoRun">> \in report_calls
        BY Zenon DEF report_calls
      <3> QED
        BY <3>1, Added, Zenon DEF reports_map
    <2>3. "MegatronRun" \in DOMAIN reports_map /\ "MegatronRun" \in reports_map["MegatronRun"]
      <3>1. <<"MegatronRun", "MegatronRun">> \in report_calls
        BY Zenon DEF report_calls
      <3> QED
        BY <3>1, Added, Zenon DEF reports_map
    <2>4. "NIXLBench" \in DOMAIN reports_map /\ "NIXLBench" \in reports_map["NIXLBench"]
      <3>1. <<"NIXLBench", "NIXLBench">> \in report_calls
        BY Zenon DEF report_calls
      <3> QED
        BY <3>1, Added, Zenon DEF reports_map
    <2>5. "MegatronBridge" \in DOMAIN reports_map /\ "MegatronBridge" \in reports_map["MegatronBridge"]
      <3>1. <<"MegatronBridge", "MegatronBridge">> \in report_calls
        BY Zenon DEF report_calls
      <3> QED
        BY <3>1, Added, Zenon DEF reports_map
    <2> QED
      BY <2>1, <2>2, <2>3, <2>4, <2>5 DEF DefaultMetric
  <1>2. metric_reporters(w) # {}
    BY <1>1 DEF metric_reporters
  <1>3. w # "UCCTest"
    OBVIOUS
  <1> QED
    BY <1>2, <1>3, Zenon DEF get_metric

(* The rows of a file.                                                     *)
RowsOf(l, f) == {i \in DOMAIN l[f] : l[f][i] = "row"}

LEMMA CountsRows ==
  ASSUME NEW T, NEW F, NEW l \in [F -> Seq(T)], NEW f
  PROVE  /\ Rows(l, f) \in Nat
         /\ Rows(l, f) # 0 <=> Has(l, f, "row")
         /\ f \in F => IsFiniteSet(RowsOf(l, f)) /\ Rows(l, f) = Cardinality(RowsOf(l, f))
  <1>1. CASE f \notin F
    <2>1. f \notin DOMAIN l
      BY <1>1
    <2> QED
      BY <1>1, <2>1 DEF Rows, Has
  <1>2. CASE f \in F
    <2>1. f \in DOMAIN l /\ l[f] \in Seq(T)
      BY <1>2
    <2>2. Len(l[f]) \in Nat /\ DOMAIN l[f] = 1 .. Len(l[f])
      BY <2>1
    <2>3. IsFiniteSet(1 .. Len(l[f]))
      BY <2>2, FS_Interval
    <2>4. RowsOf(l, f) \in SUBSET (1 .. Len(l[f]))
      BY <2>2 DEF RowsOf
    <2>5. IsFiniteSet(RowsOf(l, f))
      BY <2>3, <2>4, FS_Subset
    <2>6. Rows(l, f) = Cardinality(RowsOf(l, f))
      BY <2>1 DEF Rows, RowsOf
    <2>7. Rows(l, f) \in Nat /\ (Rows(l, f) = 0 <=> RowsOf(l, f) = {})
      BY <2>5, <2>6, FS_CardinalityType, FS_EmptySet
    <2>8. RowsOf(l, f) # {} <=> Has(l, f, "row")
      BY <2>1 DEF RowsOf, Has
    <2> QED
      BY <2>5, <2>6, <2>7, <2>8
  <1> QED
    BY <1>1, <1>2

LEMMA TwoRows ==
  ASSUME NEW T, NEW F, NEW l \in [F -> Seq(T)], NEW f \in F,
         NEW i \in RowsOf(l, f), NEW j \in RowsOf(l, f), i # j
  PROVE  Rows(l, f) >= 2
  <1>1. IsFiniteSet(RowsOf(l, f)) /\ Rows(l, f) = Cardinality(RowsOf(l, f)) /\ Rows(l, f) \in Nat
    BY CountsRows
  <1>2. IsFiniteSet({i}) /\ Cardinality({i}) = 1
    BY FS_Singleton
  <1>3. Cardinality({i} \cup {j}) = 2
    <2>1. j \notin {i}
      OBVIOUS
    <2>2. Cardinality({i} \cup {j}) = Cardinality({i}) + 1
      BY <1>2, <2>1, FS_AddElement, Zenon
    <2> QED
      BY <1>2, <2>2
  <1>4. {i} \cup {j} \in SUBSET RowsOf(l, f)
    OBVIOUS
  <1>5. Cardinality({i} \cup {j}) <= Cardinality(RowsOf(l, f))
    BY <1>1, <1>4, FS_Subset
  <1> QED
    BY <1>1, <1>3, <1>5

LEMMA LateSteps ==
  ASSUME NEW n \in Nat, n >= 2
  PROVE  nemo_run_timings(n) # 0
  <1>1. late_steps(n) \in Nat
    <2>1. IsFiniteSet(1 .. n)
      BY FS_Interval
    <2>2. {i \in 1 .. n : LateFrom < i /\ i <= LateTo + 1} \in SUBSET (1 .. n)
      OBVIOUS
    <2>3. IsFiniteSet({i \in 1 .. n : LateFrom < i /\ i <= LateTo + 1})
      BY <2>1, <2>2, FS_Subset
    <2> QED
      BY <2>3, FS_CardinalityType DEF late_steps
  <1> DEFINE m == late_steps(n)
  <1> HIDE DEF m
  <1>2. m \in Nat
    BY <1>1 DEF m
  <1>3. (IF m < LateEnough THEN n - 1 ELSE m) # 0
    BY <1>2, LateAssumption
  <1> QED
    BY <1>3 DEF nemo_run_timings, m

(* What is in the files of a run, where they are complete: what was        *)
(* printed, and nothing else but the line of an error.                     *)
Readable == Started /\ (IsBridge => trouble = {})

LEMMA Shown ==
  ASSUME RunInvariant, Readable, NEW k \in 1 .. printed
  PROVE  Has(log, output(config)[k][1], output(config)[k][2])
  <1>1. RunTypes /\ Filed /\ log \in [files(config) -> Seq(LogLine(config))] /\ printed \in 0 .. Len(output(config))
    BY DEF RunInvariant, Logged, Readable, RunTypes
  <1>2. PICK i \in Nat : At(log, k, i)
    BY <1>1 DEF Filed
  <1>3. output(config)[k][1] \in files(config)
    <2>1. k \in 1 .. Len(output(config))
      BY <1>1, OutputFacts
    <2> QED
      BY <1>1, <2>1, OutputFacts
  <1> DEFINE f == output(config)[k][1]
  <1>4. f \in DOMAIN log /\ DOMAIN log[f] = 1 .. Len(log[f])
    BY <1>1, <1>3
  <1> QED
    BY <1>2, <1>4 DEF Has, At

LEMMA FromOutput ==
  ASSUME RunInvariant, Readable, NEW f, NEW t, Has(log, f, t)
  PROVE  \/ \E k \in 1 .. printed : output(config)[k] = <<f, t>>
         \/ t = error_line(config) /\ (~Runs(config) \/ trouble # {})
  <1>1. Sourced /\ log \in [files(config) -> Seq(LogLine(config))]
    BY DEF RunInvariant, Logged, Readable, RunTypes
  <1>2. f \in files(config) /\ \E i \in DOMAIN log[f] : log[f][i] = t
    BY <1>1 DEF Has
  <1>3. DOMAIN log[f] = 1 .. Len(log[f])
    BY <1>1, <1>2
  <1>4. \E i \in 1 .. Len(log[f]) : log[f][i] = t
    BY <1>2, <1>3
  <1> QED
    BY <1>1, <1>2, <1>4 DEF Sourced, Source, ErrorOf

(* A run to which nothing happened has printed all.                        *)
LEMMA CameToEnd ==
  ASSUME RunInvariant, Left, trouble = {}, Runs(config)
  PROVE  /\ printed = Len(output(config))
         /\ config.workload = "MegatronRun" => exit_code = 0
  <1>1. config \in Configs /\ RunTypes /\ Works /\ OneJobAtATime /\ Progress
    BY DEF RunInvariant, RunTypes
  <1>2. ASSUME NEW b \in Benches(config), Returned(b) PROVE procs[b] = "done" /\ printed = Len(output(config))
    BY <1>1, <1>2 DEF Works, Returned
  <1>3. CASE ~Launched
    <2>1. LinesDone /\ ~Bridged(config)
      BY <1>1, <1>3, LaunchedIs DEF Progress
    <2>2. PICK n \in 1 .. Len(script(config)) : \E b \in Benches(config) : script(config)[n] = Run(b)
      BY <1>1, <2>1, BatchScript
    <2>3. PICK b \in Benches(config) : script(config)[n] = Run(b)
      BY <2>2
    <2>4. n < line
      <3>1. line > Len(script(config))
        BY <2>1 DEF LinesDone
      <3>2. line \in 1 .. Len(script(config)) + 1 /\ Len(script(config)) \in Nat
        BY <1>1, ScriptFacts DEF RunTypes
      <3> QED
        BY <3>1, <3>2
    <2>5. script(config)[n][1] = "run" /\ script(config)[n][2] = b
      BY <2>3 DEF Run
    <2>6. Returned(b)
      BY <2>1, <2>4, <2>5 DEF LinesDone
    <2> QED
      <3>1. printed = Len(output(config))
        BY <1>2, <2>6
      <3>2. ASSUME config.workload = "MegatronRun" PROVE exit_code = 0
        <4>1. Returned(main) /\ exit_code = IF procs[main] = "done" THEN 0 ELSE 1
          BY <1>1, <3>2 DEF Progress, ExitCodeOfMain
        <4>2. main \in Benches(config)
          BY <1>1, <3>2, ProcessFacts
        <4> QED
          BY <1>2, <4>1, <4>2
      <3> QED
        BY <3>1, <3>2
  <1>4. CASE Launched
    <2>1. Jobs /\ Tracked /\ main \in Benches(config)
      BY <1>1, <1>4, ProcessFacts, LaunchedIs DEF OneJobAtATime, Bridged
    <2>2. submitted # <<>> /\ submitted[Len(submitted)] # "running"
      BY <2>1 DEF Tracked
    <2>3. submitted[Len(submitted)] \in {"over", "failed"}
      <3>1. submitted \in Seq(JobStates)
        BY <1>1 DEF RunTypes
      <3>2. submitted[Len(submitted)] \in JobStates
        BY <2>2, <3>1
      <3> QED
        BY <2>2, <3>2 DEF JobStates
    <2>4. Returned(main)
      BY <2>1, <2>2, <2>3 DEF Jobs, AsMain, Returned
    <2>5. config.workload # "MegatronRun"
      BY <1>4 DEF Launched, IsBridge
    <2> QED
      BY <1>2, <2>1, <2>4, <2>5
  <1> QED
    BY <1>3, <1>4

(* Where a successful run of these four has the last line it prints.       *)
LEMMA SuccessIsEnd ==
  ASSUME RunInvariant, phase = "judged", verdict,
         config.workload \in {"NcclTest", "DDLBTest", "NeMoRun", "MegatronRun"},
         ~(config.workload = "MegatronRun" /\ "cut" \in trouble)
  PROVE  printed = Len(output(config))
  <1>1. /\ config \in Configs /\ RunTypes /\ Works /\ Progress /\ Readable /\ printed \in 0 .. Len(output(config))
        /\ was_run_successful(config.workload, config.option, log, exit_code)
    BY DEF RunInvariant, RunTypes, Judged, Readable, Started, IsBridge
  <1>2. Len(output(config)) \in Nat \ {0}
    BY <1>1, OutputFacts
  <1>3. CASE config.workload = "NcclTest"
    <2>1. Has(log, "stdout", "# Avg bus bandwidth")
      BY <1>1, <1>3, VerdictIs DEF nccl_successful
    <2>2. error_line(config) # "# Avg bus bandwidth"
      BY <1>3, ErrorLineIs
    <2>a. \/ \E k \in 1 .. printed : output(config)[k] = <<"stdout", "# Avg bus bandwidth">>
          \/ "# Avg bus bandwidth" = error_line(config) /\ (~Runs(config) \/ trouble # {})
      BY <1>1, <2>1, FromOutput, Zenon
    <2>3. PICK k \in 1 .. printed : output(config)[k] = <<"stdout", "# Avg bus bandwidth">>
      BY <2>2, <2>a
    <2>4. k \in 1 .. Len(output(config)) /\ k <= printed
      BY <1>1, <1>2
    <2>5. k = Len(output(config))
      <3>1. /\ Len(output(config)) = config.steps + 2 /\ config.steps \in Nat
            /\ \A i \in 1 .. config.steps : output(config)[i] = <<"stdout", "row">>
            /\ output(config)[config.steps + 1] = <<"stdout", "# Out of bounds values">>
        BY <1>1, <1>3, NcclOutput, ConfigsAssumption
      <3>2. k \notin 1 .. config.steps /\ k # config.steps + 1
        <4>1. output(config)[k][2] = "# Avg bus bandwidth"
          BY <2>3, PairIs
        <4>2. \A i \in 1 .. config.steps : output(config)[i][2] = "row"
          BY <3>1, PairIs
        <4>3. output(config)[config.steps + 1][2] = "# Out of bounds values"
          BY <3>1, PairIs
        <4>4. k \notin 1 .. config.steps
          BY <4>1, <4>2
        <4>5. k # config.steps + 1
          BY <4>1, <4>3
        <4> QED
          BY <4>4, <4>5
      <3> DEFINE n == Len(output(config))
                 m == config.steps
      <3>3. n = m + 2 /\ m \in Nat /\ k \in 1 .. n /\ k \notin 1 .. m /\ k # m + 1
        BY <2>4, <3>1, <3>2
      <3> HIDE DEF n, m
      <3>4. k = n
        BY <3>3
      <3> QED
        BY <3>4 DEF n
    <2> QED
      BY <1>1, <1>2, <2>4, <2>5
  <1>4. CASE config.workload = "DDLBTest"
    <2>1. Has(log, "stdout", "Benchmark Results")
      BY <1>1, <1>4, VerdictIs DEF ddlb_successful
    <2>2. error_line(config) # "Benchmark Results"
      BY <1>4, ErrorLineIs
    <2>a. \/ \E k \in 1 .. printed : output(config)[k] = <<"stdout", "Benchmark Results">>
          \/ "Benchmark Results" = error_line(config) /\ (~Runs(config) \/ trouble # {})
      BY <1>1, <2>1, FromOutput, Zenon
    <2>3. \E k \in 1 .. printed : output(config)[k] = <<"stdout", "Benchmark Results">>
      BY <2>2, <2>a
    <2>4. Len(output(config)) = 1
      BY <1>1, <1>4, DdlbOutput
    <2>5. 1 .. printed # {}
      BY <2>3
    <2> DEFINE n == Len(output(config))
    <2>6. n = 1 /\ printed \in 0 .. n
      BY <1>1, <2>4
    <2> HIDE DEF n
    <2>7. printed = n
      BY <2>5, <2>6
    <2> QED
      BY <2>7 DEF n
  <1>5. CASE config.workload = "NeMoRun"
    <2>1. Has(log, "stderr", "reached")
      BY <1>1, <1>5, VerdictIs DEF nemo_run_successful
    <2>2. error_line(config) # "reached"
      BY <1>5, ErrorLineIs
    <2>a. \/ \E k \in 1 .. printed : output(config)[k] = <<"stderr", "reached">>
          \/ "reached" = error_line(config) /\ (~Runs(config) \/ trouble # {})
      BY <1>1, <2>1, FromOutput, Zenon
    <2>3. PICK k \in 1 .. printed : output(config)[k] = <<"stderr", "reached">>
      BY <2>2, <2>a
    <2>4. k \in 1 .. Len(output(config)) /\ k <= printed
      BY <1>1, <1>2
    <2>5. k = Len(output(config))
      <3>1. /\ Len(output(config)) = config.steps + 2 /\ config.steps \in Nat
            /\ output(config)[1] = <<"stderr", "max_steps=">>
            /\ \A i \in 1 .. config.steps : output(config)[i + 1] = <<"stdout", "row">>
        BY <1>1, <1>5, NemoRunOutput, ConfigsAssumption
      <3>2. k # 1 /\ \A i \in 1 .. config.steps : k # i + 1
        BY <2>3, <3>1
      <3>3. k - 1 \notin 1 .. config.steps
        BY <2>4, <3>1, <3>2
      <3> DEFINE n == Len(output(config))
                 m == config.steps
      <3>4. n = m + 2 /\ m \in Nat /\ k \in 1 .. n /\ k # 1 /\ k - 1 \notin 1 .. m
        BY <2>4, <3>1, <3>2, <3>3
      <3> HIDE DEF n, m
      <3>5. k = n
        BY <3>4
      <3> QED
        BY <3>5 DEF n
    <2> QED
      BY <1>1, <1>2, <2>4, <2>5
  <1>6. CASE config.workload = "MegatronRun"
    <2>1. exit_code = 0
      <3>1. megatron_run_successful(log, exit_code)
        <4>1. was_run_successful(config.workload, config.option, log, exit_code) = megatron_run_successful(log, exit_code)
          BY <1>6, MegatronVerdict, Zenon
        <4> QED
          BY <1>1, <4>1, Zenon
      <3> QED
        BY <3>1 DEF megatron_run_successful
    <2>2. Returned(main) /\ exit_code = IF procs[main] = "done" THEN 0 ELSE 1
      BY <1>1, <1>6 DEF Progress, ExitCodeOfMain, Left
    <2>3. procs[main] = "done"
      BY <2>1, <2>2
    <2>4. main \in Benches(config)
      BY <1>1, <1>6, ProcessFacts
    <2> QED
      BY <1>1, <2>3, <2>4 DEF Works
  <1> QED
    BY <1>3, <1>4, <1>5, <1>6

-----------------------------------------------------------------------------
(* HonestVerdict.                                                          *)

(* What a run to which nothing happened leaves in its files.               *)
LEMMA AllShown ==
  ASSUME RunInvariant, phase = "judged", trouble = {}, Runs(config),
         NEW k \in 1 .. Len(output(config)), NEW f, NEW t, output(config)[k] = <<f, t>>
  PROVE  Has(log, f, t)
  <1>1. printed = Len(output(config)) /\ Readable
    BY CameToEnd DEF Left, Readable, Started
  <1>2. k \in 1 .. printed
    BY <1>1, Zenon
  <1>3. Has(log, output(config)[k][1], output(config)[k][2])
    BY <1>1, <1>2, Shown, Zenon
  <1>4. output(config)[k][1] = f /\ output(config)[k][2] = t
    BY PairIs, Zenon
  <1> QED
    BY <1>3, <1>4, Zenon

LEMMA OnlyPrinted ==
  ASSUME RunInvariant, phase = "judged", trouble = {}, Runs(config), NEW f, NEW t, Has(log, f, t)
  PROVE  t # error_line(config)
  <1>1. Readable /\ RunTypes /\ printed = Len(output(config))
    BY CameToEnd DEF RunInvariant, Left, Readable, Started
  <1>2. \/ \E k \in 1 .. printed : output(config)[k] = <<f, t>>
        \/ t = error_line(config) /\ (~Runs(config) \/ trouble # {})
    BY <1>1, FromOutput, Zenon
  <1>3. PICK k \in 1 .. Len(output(config)) : output(config)[k] = <<f, t>>
    BY <1>1, <1>2, Zenon
  <1>4. output(config)[k][2] = t
    BY <1>3, PairIs, Zenon
  <1>5. output(config)[k][2] # error_line(config)
    BY <1>1, OutputFacts
  <1> QED
    BY <1>4, <1>5

LEMMA RowsShown ==
  ASSUME RunInvariant, phase = "judged", NEW f, Has(log, f, "row")
  PROVE  Rows(log, f) \in Nat \ {0}
  <1>1. log \in [files(config) -> Seq(LogLine(config))]
    BY DEF RunInvariant, RunTypes, Started
  <1> QED
    BY <1>1, CountsRows

(* Small facts about the numbers of rows and lines.                        *)
LEMMA LastRows ==
  ASSUME NEW n \in Nat \ {0}, NEW m \in Nat \ {0}
  PROVE  LastOf(n, m) # 0
  BY DEF LastOf

LEMMA Positions ==
  ASSUME NEW n \in Nat
  PROVE  /\ n # 0 => 1 \in 1 .. n /\ n \in 1 .. n
         /\ n \notin {0, 1} => 1 \in 1 .. n /\ 2 \in 1 .. n
         /\ \A m \in Nat : n = m + 2 => m + 1 \in 1 .. n /\ m + 2 \in 1 .. n /\ 1 \in 1 .. n
  OBVIOUS

LEMMA Filled ==
  ASSUME NEW l, NEW f, NEW t, Has(l, f, t)
  PROVE  f \in DOMAIN l /\ l[f] # <<>>
  <1>1. f \in DOMAIN l /\ DOMAIN l[f] # {}
    BY DEF Has
  <1>2. DOMAIN <<>> = {}
    OBVIOUS
  <1> QED
    BY <1>1, <1>2

(* It is called successful.                                                *)
LEMMA JudgedSuccessful ==
  ASSUME RunInvariant, phase = "judged", trouble = {}, Runs(config)
  PROVE  verdict
  <1>1. /\ config \in Configs /\ verdict = was_run_successful(config.workload, config.option, log, exit_code)
        /\ config.steps \in Nat \ {0} /\ printed = Len(output(config))
        /\ config.workload = "MegatronRun" => exit_code = 0
    BY CameToEnd, ConfigsAssumption DEF RunInvariant, RunTypes, Judged, Left
  <1>0. Len(output(config)) \in Nat /\ Len(output(config)) # 0 /\ config.steps \in Nat
    BY <1>1, OutputText
  <1>2. CASE config.workload = "NcclTest"
    <2>1. /\ Len(output(config)) = config.steps + 2
          /\ output(config)[config.steps + 1] = <<"stdout", "# Out of bounds values">>
          /\ output(config)[config.steps + 2] = <<"stdout", "# Avg bus bandwidth">>
      BY <1>1, <1>2, NcclOutput
    <2>2. config.steps + 1 \in 1 .. Len(output(config)) /\ config.steps + 2 \in 1 .. Len(output(config))
      BY <1>1, <1>0, <2>1, Positions, Zenon
    <2>3. Has(log, "stdout", "# Out of bounds values") /\ Has(log, "stdout", "# Avg bus bandwidth")
      BY <2>1, <2>2, AllShown, Zenon
    <2>4. ~Has(log, "stdout", "Test failure")
      BY <1>2, OnlyPrinted, ErrorLineIs
    <2>5. nccl_successful(log)
      BY <2>3, <2>4, Zenon DEF nccl_successful
    <2> QED
      BY <1>1, <1>2, <2>5, VerdictIs, Zenon
  <1>3. CASE config.workload = "DDLBTest"
    <2>1. Len(output(config)) = 1 /\ output(config)[1] = <<"stdout", "Benchmark Results">>
      BY <1>1, <1>3, DdlbOutput
    <2>2. 1 \in 1 .. Len(output(config))
      BY <1>0, Positions, Zenon
    <2>3. Has(log, "stdout", "Benchmark Results")
      BY <2>1, <2>2, AllShown, Zenon
    <2>4. ~Has(log, "stdout", "Error")
      BY <1>3, OnlyPrinted, ErrorLineIs
    <2>5. ddlb_successful(log)
      BY <2>3, <2>4, Zenon DEF ddlb_successful
    <2> QED
      BY <1>1, <1>3, <2>5, VerdictIs, Zenon
  <1>4. CASE config.workload = "OSUBench"
    <2>a. 1 \in 1 .. Len(output(config))
      BY <1>0, Positions, Zenon
    <2>1. /\ output(config)[1][1] = "stdout" /\ 1 \in 1 .. Len(output(config))
          /\ config.option # "osu_hello" => output(config)[1] = <<"stdout", "# Size">>
      BY <1>1, <1>4, <2>a, OsuOutput, Zenon
    <2>2. output(config)[1] = <<output(config)[1][1], output(config)[1][2]>>
      BY <2>1, OutputFacts DEF RunInvariant
    <2>3. Has(log, output(config)[1][1], output(config)[1][2])
      BY <2>1, <2>2, AllShown, Zenon
    <2>4. "stdout" \in DOMAIN log /\ log["stdout"] # <<>>
      BY <2>1, <2>3, Filled, Zenon
    <2>5. config.option # "osu_hello" => Has(log, "stdout", "# Size")
      BY <2>1, AllShown, Zenon
    <2>6. osu_successful(log, config.option)
      BY <2>4, <2>5 DEF osu_successful
    <2> QED
      BY <1>1, <1>4, <2>6, VerdictIs, Zenon
  <1>5. CASE config.workload = "NeMoRun"
    <2>1. /\ Len(output(config)) = config.steps + 2
          /\ output(config)[1] = <<"stderr", "max_steps=">>
          /\ output(config)[config.steps + 2] = <<"stderr", "reached">>
      BY <1>1, <1>5, NemoRunOutput
    <2>2. 1 \in 1 .. Len(output(config)) /\ config.steps + 2 \in 1 .. Len(output(config))
      BY <1>1, <2>1
    <2>3. nemo_run_successful(log)
      BY <2>1, <2>2, AllShown, Zenon DEF nemo_run_successful
    <2> QED
      BY <1>1, <1>5, <2>3, VerdictIs, Zenon
  <1>6. CASE config.workload = "MegatronRun"
    <2>a. 1 \in 1 .. Len(output(config))
      BY <1>0, Positions, Zenon
    <2>1. /\ 1 \in 1 .. Len(output(config))
          /\ config.option = "evaluate" => output(config)[1] = <<"stdout", "validation loss at iteration">>
          /\ config.option # "evaluate" => output(config)[1] = <<"stdout", "row">>
      BY <1>1, <1>6, <2>a, MegatronOutput, Zenon
    <2>2. Has(log, "stdout", "validation loss at iteration") \/ Has(log, "stdout", "row")
      BY <2>1, AllShown, Zenon
    <2>3. Rows(log, "stdout") # 0 \/ Has(log, "stdout", "validation loss at iteration")
      BY <2>2, RowsShown
    <2>4. megatron_run_successful(log, exit_code)
      BY <1>1, <1>6, <2>3 DEF megatron_run_successful
    <2>5. was_run_successful(config.workload, config.option, log, exit_code) = megatron_run_successful(log, exit_code)
      BY <1>6, MegatronVerdict, Zenon
    <2> QED
      BY <1>1, <2>4, <2>5, Zenon
  <1>7. CASE config.workload \in {"NIXLBench", "NIXLKVBench"}
    <2>1. /\ Len(output(config)) \in Nat /\ Len(output(config)) \notin {0, 1}
          /\ output(config)[1] = <<"stdout", "header">> /\ output(config)[2] = <<"stdout", "row">>
      BY <1>1, <1>7, NixlOutput
    <2>2. 1 \in 1 .. Len(output(config)) /\ 2 \in 1 .. Len(output(config))
      BY <2>1, Positions, Zenon
    <2>3. Has(log, "stdout", "header") /\ Has(log, "stdout", "row")
      BY <2>1, <2>2, AllShown, Zenon
    <2>4. nixlbench_successful(log)
      BY <2>3, RowsShown DEF nixlbench_successful, nixlbench_data
    <2>5. was_run_successful(config.workload, config.option, log, exit_code) = nixlbench_successful(log)
      BY <1>7, VerdictIs, ZenonT(60)
    <2> QED
      BY <1>1, <2>4, <2>5, Zenon
  <1>8. CASE config.workload = "MegatronBridge"
    <2>1. Len(output(config)) \in Nat \ {0} /\ output(config)[1] = <<"launcher", "row">> /\ 1 \in 1 .. Len(output(config))
      BY <1>1, <1>8, RowsOutput DEF Results
    <2>2. Rows(log, "launcher") \in Nat \ {0}
      BY <2>1, AllShown, RowsShown, Zenon
    <2>3. megatron_bridge_successful(log)
      BY <2>2, LastRows, WindowAssumption DEF megatron_bridge_successful, mbridge_steps
    <2> QED
      BY <1>1, <1>8, <2>3, VerdictIs, Zenon
  <1>9. CASE config.workload \notin {"NcclTest", "DDLBTest", "OSUBench", "NeMoRun", "MegatronRun", "NIXLBench",
                                     "NIXLKVBench", "MegatronBridge"}
    BY <1>1, <1>9, VerdictIs, Zenon
  <1> QED
    BY <1>2, <1>3, <1>4, <1>5, <1>6, <1>7, <1>8, <1>9

(* was_run_successful: for NCCL, DDLB, NeMo 2.0 and Megatron a run that    *)
(* is called successful printed its last line, unless Megatron was cut;    *)
(* and for every workload a run to which nothing happened is called        *)
(* successful, if its layout fits or was admitted by constraint_check (on  *)
(* nodes of eight GPUs).                                                   *)
THEOREM VerdictsHonest == RunSpec => []HonestVerdict
  <1>1. RunInvariant => HonestVerdict
    <2> SUFFICES ASSUME RunInvariant, phase = "judged"
                 PROVE  /\ /\ verdict
                           /\ config.workload \in {"NcclTest", "DDLBTest", "NeMoRun", "MegatronRun"}
                           /\ ~(config.workload = "MegatronRun" /\ "cut" \in trouble)
                           => printed = Len(output(config))
                        /\ /\ trouble = {}
                           /\ config.dse \/ Fits(config)
                           /\ GpusPerNode = AssumedGpusPerNode
                           => verdict
      BY DEF HonestVerdict
    <2>1. ASSUME trouble = {}, config.dse \/ Fits(config), GpusPerNode = AssumedGpusPerNode
          PROVE  verdict
      <3>1. config \in Configs /\ (config.dse => constraint_check(config))
        BY DEF RunInvariant, RunTypes, Progress, Admitted
      <3>2. Runs(config)
        BY <2>1, <3>1, AdmittedRuns
      <3> QED
        BY <2>1, <3>2, JudgedSuccessful
    <2> QED
      BY <2>1, SuccessIsEnd
  <1> QED
    BY <1>1, RunInvariance, PTL

-----------------------------------------------------------------------------
(* ResultsOfSuccess.                                                       *)

LEMMA Within ==
  ASSUME NEW n \in Nat, NEW m \in 0 .. n, NEW k \in 1 .. m
  PROVE  k \in 1 .. n
  OBVIOUS

LEMMA SequenceFacts ==
  ASSUME NEW T, NEW s \in Seq(T)
  PROVE  Len(s) \in Nat /\ DOMAIN s = 1 .. Len(s)
  OBVIOUS

LEMMA SecondOf ==
  ASSUME NEW T, NEW s \in Seq(T), Len(s) >= 2
  PROVE  2 \in DOMAIN s /\ \A i \in 1 .. 2 : i = 1 \/ i = 2
  OBVIOUS

LEMMA BridgeVerdict ==
  ASSUME NEW option, NEW l, NEW code
  PROVE  was_run_successful("MegatronBridge", option, l, code) = megatron_bridge_successful(l)
  BY Zenon DEF was_run_successful

(* A report that is not empty, and a metric where one is computed.         *)
LEMMA Reported ==
  ASSUME RunInvariant, phase = "judged", samples(config.workload, log) # 0
  PROVE  /\ report
         /\ config.workload \in {"NcclTest", "NeMoRun", "MegatronRun", "NIXLBench", "MegatronBridge"} => metric = "number"
  <1>1. /\ report = (samples(config.workload, log) # 0)
        /\ metric = get_metric(config.workload, log)
    BY DEF RunInvariant, Judged
  <1>2. report
    BY <1>1, Zenon
  <1>3. ASSUME config.workload \in {"NcclTest", "NeMoRun", "MegatronRun", "NIXLBench", "MegatronBridge"}
        PROVE  metric = "number"
    <2>1. metric = Mean(samples(config.workload, log))
      BY <1>1, <1>3, Metrics, Zenon
    <2> QED
      BY <2>1, Zenon DEF Mean
  <1> QED
    BY <1>2, <1>3

(* A successful run has results: of NeMo 2.0 at least two rows, as the     *)
(* last line is printed after all of them; of NCCL the rows before the     *)
(* summary; of Megatron rows, as nothing else makes it successful.         *)
LEMMA NemoRunResults ==
  ASSUME RunInvariant, phase = "judged", verdict, config.workload = "NeMoRun", config.steps >= 2
  PROVE  nemo_run_samples(log) # 0
  <1>1. /\ config \in Configs /\ config.steps \in Nat /\ InOrder /\ log \in [files(config) -> Seq(LogLine(config))]
        /\ printed = Len(output(config))
    BY SuccessIsEnd, ConfigsAssumption DEF RunInvariant, RunTypes, Logged, Started, IsBridge
  <1>2. /\ Len(output(config)) = config.steps + 2
        /\ \A i \in 1 .. config.steps : output(config)[i + 1] = <<"stdout", "row">>
    BY <1>1, NemoRunOutput, Zenon
  <1>3. 1 \in 1 .. config.steps /\ 2 \in 1 .. config.steps /\ 1 + 1 = 2 /\ 2 + 1 = 3
    BY <1>1
  <1>4. output(config)[2] = <<"stdout", "row">> /\ output(config)[3] = <<"stdout", "row">>
    BY <1>2, <1>3, Zenon
  <1>5. /\ output(config)[2][1] = "stdout" /\ output(config)[2][2] = "row"
        /\ output(config)[3][1] = "stdout" /\ output(config)[3][2] = "row"
    BY <1>4, PairIs, Zenon
  <1>6. 2 \in 1 .. printed /\ 3 \in 1 .. printed /\ 2 < 3
    <2> DEFINE n == printed
               m == config.steps
    <2>1. n = m + 2 /\ m \in Nat /\ m >= 2
      BY <1>1, <1>2, Zenon
    <2> HIDE DEF n, m
    <2>2. 2 \in 1 .. n /\ 3 \in 1 .. n
      BY <2>1
    <2> QED
      BY <2>2 DEF n
  <1>7. \E i, j \in Nat : i < j /\ At(log, 2, i) /\ At(log, 3, j)
    BY <1>1, <1>5, <1>6, Zenon DEF InOrder
  <1>8. PICK i \in Nat, j \in Nat : i < j /\ At(log, 2, i) /\ At(log, 3, j)
    BY <1>7
  <1>9. /\ i \in 1 .. Len(log["stdout"]) /\ log["stdout"][i] = "row"
        /\ j \in 1 .. Len(log["stdout"]) /\ log["stdout"][j] = "row"
    BY <1>5, <1>8, Zenon DEF At
  <1>10. "stdout" \in files(config)
    BY FilesAre
  <1>11. DOMAIN log["stdout"] = 1 .. Len(log["stdout"])
    BY <1>1, <1>10
  <1>12. i \in RowsOf(log, "stdout") /\ j \in RowsOf(log, "stdout") /\ i # j
    BY <1>8, <1>9, <1>11 DEF RowsOf
  <1>13. Rows(log, "stdout") >= 2 /\ Rows(log, "stdout") \in Nat
    BY <1>1, <1>10, <1>12, TwoRows, CountsRows
  <1> QED
    BY <1>13, LateSteps DEF nemo_run_samples

LEMMA NcclResults ==
  ASSUME RunInvariant, phase = "judged", verdict, config.workload = "NcclTest"
  PROVE  nccl_rows(log) # 0
  <1>1. /\ config \in Configs /\ config.steps \in Nat \ {0} /\ Readable /\ printed = Len(output(config))
    BY SuccessIsEnd, ConfigsAssumption DEF RunInvariant, RunTypes, Readable, Started, IsBridge
  <1>2. 1 \in 1 .. config.steps /\ Len(output(config)) \in Nat /\ Len(output(config)) # 0
    BY <1>1, OutputText
  <1>3. output(config)[1] = <<"stdout", "row">>
    BY <1>1, <1>2, NcclOutput, Zenon
  <1>4. 1 \in 1 .. printed
    BY <1>1, <1>2, Positions, Zenon
  <1>5. Has(log, output(config)[1][1], output(config)[1][2])
    BY <1>1, <1>4, Shown, Zenon
  <1>6. Has(log, "stdout", "row")
    BY <1>3, <1>5, PairIs, Zenon
  <1> QED
    BY <1>6, RowsShown DEF nccl_rows

LEMMA MegatronResults ==
  ASSUME RunInvariant, phase = "judged", verdict, config.workload = "MegatronRun", config.option # "evaluate"
  PROVE  megatron_run_rows(log) # 0
  <1>1. /\ config \in Configs /\ Readable /\ printed \in 0 .. Len(output(config))
        /\ log \in [files(config) -> Seq(LogLine(config))]
        /\ was_run_successful(config.workload, config.option, log, exit_code)
    BY DEF RunInvariant, RunTypes, Readable, Started, IsBridge, Judged
  <1>2. megatron_run_successful(log, exit_code)
    <2>1. was_run_successful(config.workload, config.option, log, exit_code) = megatron_run_successful(log, exit_code)
      BY MegatronVerdict, Zenon
    <2> QED
      BY <1>1, <2>1, Zenon
  <1>3. ~Has(log, "stdout", "validation loss at iteration")
    <2> SUFFICES ASSUME Has(log, "stdout", "validation loss at iteration") PROVE FALSE
      OBVIOUS
    <2>1. \/ \E k \in 1 .. printed : output(config)[k] = <<"stdout", "validation loss at iteration">>
          \/ /\ "validation loss at iteration" = error_line(config)
             /\ ~Runs(config) \/ trouble # {}
      BY <1>1, FromOutput, Zenon
    <2>2. error_line(config) # "validation loss at iteration"
      BY ErrorLineIs
    <2>3. PICK k \in 1 .. printed : output(config)[k] = <<"stdout", "validation loss at iteration">>
      BY <2>1, <2>2
    <2>4. k \in 1 .. Len(output(config))
      <3>1. Len(output(config)) \in Nat
        BY <1>1, OutputText
      <3> QED
        BY <1>1, <3>1, Within, Zenon
    <2>5. output(config)[k] = <<"stdout", "row">>
      BY <1>1, <2>4, MegatronOutput, Zenon
    <2>6. output(config)[k][2] = "row"
      BY <2>5, PairIs, Zenon
    <2>7. output(config)[k][2] = "validation loss at iteration"
      BY <2>3, PairIs, Zenon
    <2> QED
      BY <2>6, <2>7
  <1>4. Rows(log, "stdout") \in Nat \ {0}
    BY <1>1, <1>2, <1>3, CountsRows DEF megatron_run_successful
  <1> QED
    BY <1>4, LastRows, WindowAssumption DEF megatron_run_rows

(* The rows of tensor sizes.                                               *)
Sizes(l) == {i \in DOMAIN l : /\ l[i] = "row"
                              /\ \A j \in 1 .. i : l[j] # "Performance of replayed comms"}

LEMMA SizesFacts ==
  ASSUME NEW T, NEW l \in Seq(T)
  PROVE  IsFiniteSet(Sizes(l))
  <1>1. Len(l) \in Nat /\ DOMAIN l = 1 .. Len(l)
    OBVIOUS
  <1>2. IsFiniteSet(1 .. Len(l))
    BY <1>1, FS_Interval
  <1>3. Sizes(l) \in SUBSET (1 .. Len(l))
    BY <1>1 DEF Sizes
  <1> QED
    BY <1>2, <1>3, FS_Subset

LEMMA IsSize ==
  ASSUME NEW T, NEW l \in Seq(T), NEW n \in DOMAIN l, l[n] = "row",
         \A i \in 1 .. n : l[i] \in {"Hello from Rank", "row"}
  PROVE  Cardinality(Sizes(l)) # 0
  <1>1. IsFiniteSet(Sizes(l))
    BY SizesFacts, Zenon
  <1>2. \A i \in 1 .. n : l[i] # "Performance of replayed comms"
    BY Zenon
  <1>3. n \in Sizes(l)
    BY <1>2, Zenon DEF Sizes
  <1> QED
    BY <1>1, <1>3, FS_EmptySet

(* The workloads that are called successful whatever they did.             *)
LEMMA ChakraResults ==
  ASSUME RunInvariant, phase = "judged", trouble = {}, Runs(config), config.workload = "ChakraReplay"
  PROVE  chakra_handles(log) /\ tensor_sizes(log) # 0
  <1>1. /\ config \in Configs /\ printed = Len(output(config)) /\ log \in [files(config) -> Seq(LogLine(config))]
        /\ Opening /\ "stdout" \in files(config)
    BY CameToEnd, FilesAre DEF RunInvariant, RunTypes, Left, Logged, Started, IsBridge
  <1>2. /\ Len(output(config)) \in Nat /\ Len(output(config)) \notin {0, 1}
        /\ output(config)[1] = <<"stdout", "Hello from Rank">> /\ output(config)[2] = <<"stdout", "row">>
    BY <1>1, ChakraOutput, Zenon
  <1>3. /\ output(config)[1][2] = "Hello from Rank" /\ output(config)[2][2] = "row"
    BY <1>2, PairIs, Zenon
  <1>4. chakra_handles(log)
    <2>1. 1 \in 1 .. Len(output(config))
      BY <1>2, Positions, Zenon
    <2> QED
      BY <1>2, <2>1, AllShown, Zenon DEF chakra_handles
  <1>5. printed >= 1 /\ printed >= 2
    <2> DEFINE n == Len(output(config))
    <2>1. printed = n /\ n \in Nat /\ n \notin {0, 1}
      BY <1>1, <1>2, Zenon
    <2> HIDE DEF n
    <2> QED
      BY <2>1
  <1>6. log["stdout"][1] = "Hello from Rank" /\ log["stdout"][2] = "row" /\ Len(log["stdout"]) >= 2
    BY <1>1, <1>3, <1>5, Zenon DEF Opening
  <1>7. log["stdout"] \in Seq(LogLine(config))
    BY <1>1
  <1>8. "stdout" \in DOMAIN log
    BY <1>1
  <1>9. Cardinality(Sizes(log["stdout"])) # 0
    <2>1. 2 \in DOMAIN log["stdout"] /\ \A i \in 1 .. 2 : i = 1 \/ i = 2
      BY <1>6, <1>7, SecondOf
    <2>2. \A i \in 1 .. 2 : log["stdout"][i] \in {"Hello from Rank", "row"}
      BY <1>6, <2>1, Zenon
    <2> QED
      BY <1>6, <1>7, <2>1, <2>2, IsSize, Zenon
  <1>10. tensor_sizes(log) = Cardinality(Sizes(log["stdout"]))
    BY Zenon DEF tensor_sizes, Sizes
  <1> QED
    BY <1>4, <1>9, <1>10, Zenon

LEMMA DeepEpResults ==
  ASSUME RunInvariant, phase = "judged", trouble = {}, Runs(config), config.workload = "DeepEP"
  PROVE  deepep_rows(log) # 0
  <1>1. config \in Configs
    BY DEF RunInvariant, RunTypes
  <1>2. /\ Len(output(config)) \in Nat /\ Len(output(config)) \notin {0, 1}
        /\ output(config)[1] = <<"results", "row">>
        /\ output(config)[Len(output(config))] = <<"results", "end of JSON">>
    BY <1>1, DeepEpOutput, Zenon
  <1>3. 1 \in 1 .. Len(output(config)) /\ Len(output(config)) \in 1 .. Len(output(config))
    BY <1>2, Positions
  <1>4. Has(log, "results", "row") /\ Has(log, "results", "end of JSON")
    BY <1>2, <1>3, AllShown, Zenon
  <1> QED
    BY <1>4, RowsShown DEF deepep_rows

LEMMA LauncherResults ==
  ASSUME RunInvariant, phase = "judged", trouble = {}, Runs(config), config.workload = "NeMoLauncher"
  PROVE  nemo_launcher_rows(log) # 0
  <1>1. config \in Configs
    BY DEF RunInvariant, RunTypes
  <1>2. /\ Len(output(config)) \in Nat /\ Len(output(config)) \notin {0, 1}
        /\ output(config)[1] = <<"run", "row">>
        /\ output(config)[Len(output(config))] = <<"run", "train_step_timing">>
    BY <1>1, LauncherOutput, Zenon
  <1>3. 1 \in 1 .. Len(output(config)) /\ Len(output(config)) \in 1 .. Len(output(config))
    BY <1>2, Positions
  <1>4. Has(log, "run", "row") /\ Has(log, "run", "train_step_timing")
    BY <1>2, <1>3, AllShown, Zenon
  <1>5. Rows(log, "run") \in Nat \ {0}
    BY <1>4, RowsShown
  <1>6. filter_step_timings(Rows(log, "run")) # 0
    BY <1>5, LastRows, LateAssumption DEF filter_step_timings
  <1> QED
    BY <1>4, <1>6 DEF nemo_launcher_rows

(* A run of at least two steps that is called successful has a report and  *)
(* a metric where the workload has them: for every number of steps, every  *)
(* Window and every bound of the late steps, and whatever happened to the  *)
(* run. For Chakra replay, DeepEP and NeMo launcher, a report if nothing   *)
(* happened.                                                               *)
THEOREM ResultsFollow == RunSpec => []ResultsOfSuccess
  <1>1. RunInvariant => ResultsOfSuccess
    <2> SUFFICES ASSUME RunInvariant, phase = "judged", verdict, config.steps >= 2
                 PROVE  /\ \/ config.workload \in {"NcclTest", "NeMoRun", "NIXLBench", "MegatronBridge"}
                           \/ config.workload = "MegatronRun" /\ config.option # "evaluate"
                           => report /\ metric = "number"
                        /\ /\ config.workload \in {"ChakraReplay", "DeepEP", "NeMoLauncher"}
                           /\ trouble = {}
                           => report
      BY DEF ResultsOfSuccess
    <2>0. config \in Configs /\ was_run_successful(config.workload, config.option, log, exit_code)
      BY DEF RunInvariant, RunTypes, Judged
    <2>1. ASSUME config.workload = "NcclTest" PROVE samples(config.workload, log) # 0
      <3>1. samples(config.workload, log) = nccl_rows(log)
        BY <2>1, SamplesAre, Zenon
      <3> QED
        BY <2>1, <3>1, NcclResults
    <2>2. ASSUME config.workload = "NeMoRun" PROVE samples(config.workload, log) # 0
      <3>1. samples(config.workload, log) = nemo_run_samples(log)
        BY <2>2, SamplesAre, Zenon
      <3> QED
        BY <2>2, <3>1, NemoRunResults
    <2>3. ASSUME config.workload = "NIXLBench" PROVE samples(config.workload, log) # 0
      <3>1. samples(config.workload, log) = nixlbench_data(log)
        BY <2>3, SamplesAre, Zenon
      <3>2. was_run_successful(config.workload, config.option, log, exit_code) = nixlbench_successful(log)
        BY <2>3, VerdictIs, ZenonT(60)
      <3> QED
        BY <2>0, <3>1, <3>2, Zenon DEF nixlbench_successful
    <2>4. ASSUME config.workload = "MegatronBridge" PROVE samples(config.workload, log) # 0
      <3>1. samples(config.workload, log) = mbridge_steps(log)
        BY <2>4, SamplesAre, Zenon
      <3>2. was_run_successful(config.workload, config.option, log, exit_code) = megatron_bridge_successful(log)
        BY <2>4, BridgeVerdict, Zenon
      <3> QED
        BY <2>0, <3>1, <3>2, Zenon DEF megatron_bridge_successful
    <2>5. ASSUME config.workload = "MegatronRun", config.option # "evaluate" PROVE samples(config.workload, log) # 0
      <3>1. samples(config.workload, log) = megatron_run_rows(log)
        BY <2>5, SamplesAre, Zenon
      <3> QED
        BY <2>5, <3>1, MegatronResults
    <2>6. ASSUME config.workload \in {"ChakraReplay", "DeepEP", "NeMoLauncher"}, trouble = {}
          PROVE  samples(config.workload, log) # 0
      <3>1. Runs(config)
        <4>1. Fits(config)
          BY <2>6, FitsIs
        <4> QED
          BY <2>0, <4>1, AdmittedRuns
      <3>2. CASE config.workload = "ChakraReplay"
        <4>1. samples(config.workload, log) = IF chakra_handles(log) THEN tensor_sizes(log) ELSE 0
          BY <3>2, SamplesAre, Zenon
        <4> QED
          BY <2>6, <3>1, <3>2, <4>1, ChakraResults
      <3>3. CASE config.workload = "DeepEP"
        <4>1. samples(config.workload, log) = deepep_rows(log)
          BY <3>3, SamplesAre, Zenon
        <4> QED
          BY <2>6, <3>1, <3>3, <4>1, DeepEpResults
      <3>4. CASE config.workload = "NeMoLauncher"
        <4>1. samples(config.workload, log) = nemo_launcher_rows(log)
          BY <3>4, SamplesAre, Zenon
        <4> QED
          BY <2>6, <3>1, <3>4, <4>1, LauncherResults
      <3> QED
        BY <2>6, <3>2, <3>3, <3>4
    <2> QED
      BY <2>1, <2>2, <2>3, <2>4, <2>5, <2>6, Reported
  <1> QED
    BY <1>1, RunInvariance, PTL
=============================================================================
