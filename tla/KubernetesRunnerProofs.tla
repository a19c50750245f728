----------------------- MODULE KubernetesRunnerProofs -----------------------
(***************************************************************************)
(* Proofs about KubernetesRunner, for every number of test runs, every set *)
(* of scenarios and of faults: what run() leaves in the cluster, and what  *)
(* the poll takes for completed.                                           *)
(***************************************************************************)
EXTENDS KubernetesRunner, TLAPS, WellFoundedInduction

(* The bookkeeping of the loop: the job a loop visits is one of jobs, the  *)
(* test run being created is one to be submitted.                          *)
Loop ==
  /\ todo \subseteq jobs
  /\ pc \in {"benchmark", "completion"} => todo # {} /\ to_submit = {}
  /\ pc = "benchmark" => IsDynamo(Visited)
  /\ pc \in Create => to_submit # {} /\ caller \in {"while", "monitor"}
  /\ pc = "create" => ~IsDynamo(Created)
  /\ pc = "delete_existing" => IsDynamo(Created)
  /\ pc = "done" => jobs = {}

(* Iterations: a test run is submitted only while one is left, and once    *)
(* the one it waits for has had its last.                                  *)
Finished(t) == t \notin jobs \union to_submit /\ iteration[t] = plan.iterations[t]

Iterations ==
  /\ \A t \in to_submit :
       /\ t \notin jobs
       /\ \/ iteration[t] < plan.iterations[t]
          \/ t = Created /\ pc \in {"observe"} \union Crash
  /\ \A t \in Tests : (t \in jobs \union to_submit \/ iteration[t] > 0) /\ plan.after[t] # None
                        => Finished(plan.after[t])

Types == TypeOK /\ plan \in Plans /\ deleting \subseteq Tests

(* A non-empty set of test runs has a first one.                           *)
Less == {ss \in Nat \X Nat : ss[1] < ss[2]}

LEMMA FirstIn ==
  ASSUME NEW S \in SUBSET Tests, S # {}
  PROVE  First(S) \in S
  <1>1. IsWellFoundedOn(Less, Nat)
    BY NatLessThanWellFounded DEF OpToRel, Less
  <1>2. S \subseteq Nat
    BY NumTestsAssumption DEF Tests
  <1>3. PICK t \in S : \A u \in S : <<u, t>> \notin Less
    BY <1>1, <1>2, WFMin
  <1>4. \A u \in S : t <= u
    <2>1. TAKE u \in S
    <2>2. t \in Nat /\ u \in Nat /\ <<u, t>> \notin Less
      BY <1>2, <1>3
    <2> QED
      BY <2>2 DEF Less
  <1> QED
    BY <1>4 DEF First

(* Tests and names are natural numbers, and no test run is named Dgd.      *)
LEMMA TestsFacts == Dgd \notin Tests /\ None \notin Tests /\ Tests \subseteq Nat
  BY NumTestsAssumption DEF Tests, Dgd, None

LEMMA NamesFacts ==
  ASSUME NEW t \in Tests
  PROVE  name(t) \in Names /\ (name(t) = Dgd <=> IsDynamo(t)) /\ (~IsDynamo(t) => name(t) = t)
  BY TestsFacts DEF name, Names

(* What delete_job and the deletion before a deployment is created may do. *)
Deletes(S) ==
  /\ object' \in [Names -> Status]
  /\ errors \subseteq errors' /\ errors' \subseteq {"api", "delete", "pods"}
  /\ genai_perf_completed' \in BOOLEAN
  /\ genai_perf_completed' => genai_perf_completed
  /\ deleting \subseteq deleting' /\ deleting' \subseteq Tests
  /\ \A n \in deleting' : object'[n] # "absent"
  /\ \A t \in Tests : object'[t] = object[t]
  /\ object'[Dgd] \in {object[Dgd], "absent"}
  /\ \A t \in S : ~IsDynamo(t) /\ ~Gone(t) => t \in deleting'

LEMMA DeleteDynamoFacts ==
  ASSUME Types, NEW S \in SUBSET Tests, DeleteDynamo(S)
  PROVE  /\ Deletes(S)
         /\ genai_perf_completed' = FALSE
         /\ object'[Dgd] = "absent" \/ "delete" \in errors'
  BY TestsFacts, ZenonT(60) DEF Types, TypeOK, DeleteDynamo, Deletes, Names, Status, Gone

LEMMA DeleteJobFacts ==
  ASSUME Types, NEW S \in SUBSET Tests, delete_job(S)
  PROVE  /\ Deletes(S)
         /\ (\E t \in S : IsDynamo(t)) =>
              genai_perf_completed' = FALSE /\ (object'[Dgd] = "absent" \/ "delete" \in errors')
  <1>1. CASE \E t \in S : IsDynamo(t)
    <2> DEFINE D == {name(t) : t \in S} \ {Dgd}
    <2>1. D \in SUBSET Tests /\ \A t \in S : ~IsDynamo(t) => t \in D
      BY NamesFacts, TestsFacts DEF Names
    <2>2. DeleteDynamo(D)
      BY <1>1 DEF delete_job
    <2> HIDE DEF D
    <2> QED
      BY <2>1, <2>2, DeleteDynamoFacts DEF Deletes
  <1>2. CASE ~\E t \in S : IsDynamo(t)
    <2>1. {name(t) : t \in S} = S
      BY <1>2, NamesFacts
    <2>2. DeleteJobs(S)
      BY <1>2, <2>1 DEF delete_job
    <2> QED
      BY <1>2, <2>2, TestsFacts DEF DeleteJobs, Deletes, Types, TypeOK, Gone
  <1> QED
    BY <1>1, <1>2

(* The initial states.                                                     *)
LEMMA InitTypes == Init => Types /\ Loop /\ Iterations
  <1> SUFFICES ASSUME Init PROVE Types /\ Loop /\ Iterations
    OBVIOUS
  <1>1. plan \in Plan
    BY PlansAssumption DEF Init
  <1>2. TypeOK
    <2>1. object \in [Names -> Status]
      BY DEF Init, Status
    <2>2. iteration \in [Tests -> Nat] /\ \A t \in Tests : iteration[t] <= plan.iterations[t]
      BY <1>1 DEF Init, Plan
    <2> QED
      BY <1>1, <2>1, <2>2 DEF Init, TypeOK, Polls, Create, Over
  <1>3. Types /\ Loop
    BY <1>2 DEF Init, Types, Loop, Create
  <1>4. Iterations
    BY <1>1, TestsFacts DEF Init, Iterations, Plan
  <1> QED
    BY <1>3, <1>4

(* Every step keeps the types and the bookkeeping of the loop.             *)
LEMMA NextTypes == Types /\ Loop /\ Iterations /\ [Next]_vars => Types' /\ Loop'
  <1> SUFFICES ASSUME Types, Loop, Iterations, [Next]_vars PROVE Types' /\ Loop'
    OBVIOUS
  <1>0. /\ plan \in Plan /\ \A t \in Tests : plan.iterations[t] \in Nat
        /\ \A t \in Tests : plan.kind[t] \in Kind
    BY PlansAssumption DEF Types, Plan
  <1>1. todo # {} => Visited \in todo /\ Visited \in Tests
    BY FirstIn DEF Types, TypeOK, Visited
  <1>2. to_submit # {} => Created \in to_submit /\ Created \in Tests
    BY FirstIn DEF Types, TypeOK, Created
  <1> USE <1>0, <1>1, <1>2 DEF Types, TypeOK, Loop, Polls, Create, Over, Crash, Visited, Created
  <1>3. CASE While
    BY <1>3 DEF While, runner, system, cluster, IsDynamo
  <1>4. CASE PollJob \/ PollDynamo \/ BenchmarkStarts
    <2>1. UNCHANGED <<plan, to_submit, jobs, iteration, system, signalled, cluster>>
      BY <1>4 DEF PollJob, PollDynamo, BenchmarkStarts
    <2>2. Types'
      BY <1>4, <2>1 DEF PollJob, PollDynamo, BenchmarkStarts, Polling, Answer, system, cluster
    <2>3. Loop'
      BY <1>4, <2>1 DEF PollJob, PollDynamo, BenchmarkStarts, Polling, NoWork, Answer, IsDynamo
    <2> QED
      BY <2>2, <2>3
  <1>5. CASE Benchmark \/ BenchmarkFails
    BY <1>5 DEF Benchmark, BenchmarkFails, Answer, runner, system, cluster, IsDynamo
  <1>6. CASE Completion
    <2>1. Deletes({Visited})
      BY <1>6, DeleteJobFacts DEF Completion
    <2>2. Types'
      BY <1>6, <2>1 DEF Completion, Deletes, Names
    <2>3. Loop'
      BY <1>6, <2>1 DEF Completion
    <2> QED
      BY <2>2, <2>3
  <1>7. CASE SubmitTest
    <2>1. Deletes({}) \/ UNCHANGED <<object, deleting, errors, genai_perf_completed>>
      BY <1>7, DeleteDynamoFacts DEF SubmitTest
    <2>2. Types'
      BY <1>7, <2>1 DEF SubmitTest, Deletes, Names
    <2>3. Loop'
      BY <1>7, <2>1 DEF SubmitTest, IsDynamo
    <2> QED
      BY <2>2, <2>3
  <1>8. CASE CreateObject
    <2>1. CASE Gone(name(Created))
      <3>1. TypeOK' /\ Types'
        <4>1. name(Created) \in Names \ deleting
          BY <1>8, <2>1, NamesFacts DEF CreateObject, Gone
        <4>2. object' = [object EXCEPT ![name(Created)] = "none"] /\ "none" \in Status
          BY <1>8, <2>1 DEF CreateObject, Status
        <4>3. iteration' = [iteration EXCEPT ![Created] = @ + 1]
          BY <1>8, <2>1 DEF CreateObject
        <4>4. iteration[Created] < plan.iterations[Created]
          BY <1>8, <2>1 DEF CreateObject, Iterations
        <4>5. \A t \in Tests : iteration'[t] <= plan'.iterations[t]
          BY <1>8, <4>3, <4>4 DEF CreateObject
        <4>6. iteration' \in [Tests -> Nat]
          BY <1>8, <4>3 DEF CreateObject
        <4>7. object' \in [Names -> Status] /\ \A n \in deleting : object'[n] # "absent"
          BY <4>1, <4>2
        <4> QED
          BY <1>8, <2>1, <4>5, <4>6, <4>7 DEF CreateObject
      <3>2. Loop'
        BY <1>8, <2>1 DEF CreateObject
      <3> QED
        BY <3>1, <3>2
    <2>2. CASE ~Gone(name(Created))
      <3>1. Deletes({}) \/ UNCHANGED <<object, deleting, errors, genai_perf_completed>>
        BY <1>8, <2>2, DeleteDynamoFacts DEF CreateObject
      <3>2. Types'
        BY <1>8, <2>2, <3>1 DEF CreateObject, Deletes, Names
      <3>3. Loop'
        BY <1>8, <2>2 DEF CreateObject
      <3> QED
        BY <3>2, <3>3
    <2> QED
      BY <2>1, <2>2
  <1>9. CASE Observe
    BY <1>9 DEF Observe, system, cluster, IsDynamo
  <1>10. CASE ApiError
    BY <1>10 DEF ApiError, system, IsDynamo
  <1>11. CASE CancelOnSignal
    <2>1. Deletes(jobs)
      BY <1>11, DeleteJobFacts DEF CancelOnSignal
    <2>2. Types'
      BY <1>11, <2>1 DEF CancelOnSignal, Deletes, Names, runner
    <2>3. Loop'
      BY <1>11, <2>1 DEF CancelOnSignal, IsDynamo, runner
    <2> QED
      BY <2>2, <2>3
  <1>12. CASE DeploymentFails
    BY <1>12, ZenonT(60) DEF DeploymentFails, runner, system, IsDynamo, Status
  <1>13. ASSUME NEW t \in Tests, Cluster(t) PROVE Types' /\ Loop'
    <2>1. CASE ObjectMoves(t)
      <3>1. \A u \in Tests : u \in Names /\ u # Dgd
        BY TestsFacts DEF Names
      <3>2. Moves(t, object[t]) \subseteq Status
        BY DEF Moves, Status
      <3> QED
        BY <2>1, <3>1, <3>2 DEF ObjectMoves, runner, system, IsDynamo
    <2>2. CASE Suspend(t)
      BY <2>2 DEF Suspend, runner, system, IsDynamo, Status
    <2>3. CASE Deleted(t)
      BY <2>3 DEF Deleted, runner, system, IsDynamo, Status
    <2>4. CASE PodsReady(t) \/ PodsRestart(t) \/ PodsEnd(t) \/ PodsStart(t)
      <3>1. errors' \subseteq {"api", "delete", "pods"}
        BY <2>4 DEF PodsReady, PodsRestart, PodsEnd, PodsStart
      <3>2. pods' \in [Tests -> {"none", "starting", "ready", "terminating"}]
        BY <2>4 DEF PodsReady, PodsRestart, PodsEnd, PodsStart
      <3> QED
        BY <2>4, <3>1, <3>2
        DEF PodsReady, PodsRestart, PodsEnd, PodsStart, runner, system, IsDynamo
    <2> QED
      BY <1>13, <2>1, <2>2, <2>3, <2>4 DEF Cluster
  <1>14. CASE UNCHANGED vars
    BY <1>14 DEF vars, runner, system, cluster, IsDynamo
  <1> QED
    BY <1>3, <1>4, <1>5, <1>6, <1>7, <1>8, <1>9, <1>10, <1>11, <1>12, <1>13, <1>14
    DEF Next, Runner

(* A step of the cluster or a poll leaves the bookkeeping of iterations.   *)
IterationVars == <<plan, jobs, to_submit, iteration>>

LEMMA IterationsUnchanged ==
  ASSUME Iterations, UNCHANGED IterationVars, pc \in {"observe"} \union Crash => pc' \in Crash \union {pc}
  PROVE  Iterations'
  <1> QED
    BY DEF Iterations, IterationVars, Finished, Created

(* Every step keeps the bookkeeping of iterations.                         *)
LEMMA NextIterations == Types /\ Loop /\ Iterations /\ [Next]_vars => Iterations'
  <1> SUFFICES ASSUME Types, Loop, Iterations, [Next]_vars PROVE Iterations'
    OBVIOUS
  <1>0. /\ plan \in Plan /\ \A t \in Tests : plan.iterations[t] \in Nat \ {0}
        /\ \A t \in Tests : plan.after[t] \in Tests \union {None} /\ plan.after[t] # t
    BY PlansAssumption DEF Types, Plan
  <1>1. todo # {} => Visited \in todo /\ Visited \in jobs /\ Visited \in Tests
    BY FirstIn DEF Types, TypeOK, Visited, Loop
  <1>2. to_submit # {} => Created \in to_submit /\ Created \in Tests
    BY FirstIn DEF Types, TypeOK, Created
  <1>3. jobs \subseteq Tests /\ to_submit \subseteq Tests /\ iteration \in [Tests -> Nat]
        /\ \A t \in Tests : iteration[t] <= plan.iterations[t]
    BY DEF Types, TypeOK
  <1>4. CASE While \/ PollJob \/ PollDynamo \/ BenchmarkStarts
    <2>1. UNCHANGED IterationVars
      BY <1>4 DEF While, PollJob, PollDynamo, BenchmarkStarts, IterationVars
    <2>2. pc \notin {"observe"} \union Crash
      BY <1>4 DEF While, PollJob, PollDynamo, BenchmarkStarts, Polling, Polls, Crash
    <2> QED
      BY <2>1, <2>2, IterationsUnchanged
  <1>5. CASE Benchmark \/ BenchmarkFails \/ ApiError
    <2>1. UNCHANGED IterationVars
      BY <1>5 DEF Benchmark, BenchmarkFails, ApiError, IterationVars
    <2>2. pc \in {"observe"} \union Crash => pc' \in Crash
      BY <1>5 DEF Benchmark, BenchmarkFails, ApiError, Crash, Polling, Polls
    <2> QED
      BY <2>1, <2>2, IterationsUnchanged
  <1>6. CASE Completion
    <2>1. PICK v \in Tests : v = Visited
      BY <1>1, <1>6 DEF Completion, Loop
    <2>2. /\ v \in jobs /\ jobs' = jobs \ {v} /\ to_submit = {}
          /\ UNCHANGED <<plan, iteration>>
      BY <1>1, <1>6, <2>1 DEF Completion, Loop
    <2>3. CASE iteration[v] < plan.iterations[v]
      <3>1. to_submit' = {v}
        BY <1>6, <2>1, <2>3 DEF Completion
      <3>2. \A t \in Tests : Finished(t) => Finished(t)'
        BY <2>2, <3>1 DEF Finished
      <3> QED
        BY <2>2, <2>3, <3>1, <3>2, <1>0, <1>3 DEF Iterations
    <2>4. CASE ~(iteration[v] < plan.iterations[v])
      <3>1. to_submit' = {t \in Tests \ jobs : plan.after[t] = v}
        BY <1>6, <2>1, <2>4 DEF Completion
      <3>2. \A t \in to_submit' : iteration[t] = 0
        <4>1. SUFFICES ASSUME NEW t \in to_submit' PROVE ~(iteration[t] > 0)
          BY <1>3, <3>1
        <4>2. t \in Tests /\ plan.after[t] = v /\ v # None
          BY <3>1, TestsFacts
        <4>3. ~Finished(v)
          BY <2>2 DEF Finished
        <4> QED
          BY <4>2, <4>3 DEF Iterations
      <3>3. Finished(v)'
        BY <2>2, <2>4, <3>1, <1>0, <1>3 DEF Finished
      <3>4. \A t \in Tests : Finished(t) => Finished(t)'
        BY <2>2, <3>1, <3>2, <1>0 DEF Finished
      <3>5. \A t \in to_submit' : t \notin jobs' /\ iteration'[t] < plan'.iterations[t]
        BY <2>2, <3>1, <3>2, <1>0
      <3>6. ASSUME NEW t \in Tests, NEW u \in Tests, plan.after[t] = u,
                   t \in jobs' \union to_submit' \/ iteration[t] > 0
            PROVE  Finished(u)'
        <4>1. CASE t \in to_submit'
          BY <3>1, <3>3, <3>6, <4>1 DEF Finished
        <4>2. CASE t \notin to_submit'
          BY <2>2, <3>4, <3>6, <4>2, TestsFacts DEF Iterations
        <4> QED
          BY <4>1, <4>2
      <3> QED
        BY <2>2, <3>5, <3>6, <1>0 DEF Iterations, Finished
    <2> QED
      BY <2>3, <2>4
  <1>7. CASE SubmitTest
    <2>1. UNCHANGED IterationVars /\ pc \notin {"observe"} \union Crash
      BY <1>7 DEF SubmitTest, IterationVars, Crash
    <2> QED
      BY <2>1, IterationsUnchanged
  <1>8. CASE CreateObject
    <2>1. CASE UNCHANGED IterationVars
      <3>1. pc \notin {"observe"} \union Crash
        BY <1>8 DEF CreateObject, Crash
      <3> QED
        BY <2>1, <3>1, IterationsUnchanged
    <2>2. CASE ~UNCHANGED IterationVars
      <3>1. /\ iteration' = [iteration EXCEPT ![Created] = @ + 1] /\ pc' = "observe"
            /\ UNCHANGED <<plan, jobs, to_submit>> /\ Created' = Created
        BY <1>8, <2>2 DEF CreateObject, IterationVars, Created
      <3>2. Created \in to_submit /\ pc \in {"create", "delete_existing"}
        BY <1>2, <1>8 DEF CreateObject, Loop, Create
      <3>3. \A t \in Tests : Finished(t) => Finished(t)'
        BY <3>1, <3>2, <1>3 DEF Finished
      <3>4. \A t \in to_submit : t # Created => iteration[t] < plan.iterations[t]
        BY DEF Iterations
      <3> QED
        BY <3>1, <3>2, <3>3, <3>4, <1>0, <1>3 DEF Iterations
    <2> QED
      BY <2>1, <2>2
  <1>9. CASE Observe
    <2>1. CASE is_job_observable(Created)
      <3>1. /\ jobs' = jobs \union {Created} /\ to_submit' = to_submit \ {Created}
            /\ Created \in to_submit /\ UNCHANGED <<plan, iteration>>
        BY <1>2, <1>9, <2>1 DEF Observe, Loop, Create
      <3>2. \A t \in Tests : Finished(t) => Finished(t)'
        BY <3>1 DEF Finished
      <3> QED
        BY <3>1, <3>2, <1>0, <1>3 DEF Iterations
    <2>2. CASE ~is_job_observable(Created)
      <3>1. UNCHANGED IterationVars /\ pc' \in Crash
        BY <1>9, <2>2 DEF Observe, IterationVars, Crash
      <3> QED
        BY <3>1, IterationsUnchanged
    <2> QED
      BY <2>1, <2>2
  <1>10. CASE \/ CancelOnSignal \/ DeploymentFails \/ (\E t \in Tests : Cluster(t))
              \/ UNCHANGED vars
    <2>1. UNCHANGED <<IterationVars, pc>>
      BY <1>10 DEF CancelOnSignal, DeploymentFails, Cluster, ObjectMoves, Suspend, Deleted,
         PodsReady, PodsRestart, PodsEnd, PodsStart, runner, vars, IterationVars
    <2> QED
      BY <2>1, IterationsUnchanged
  <1> QED
    BY <1>4, <1>5, <1>6, <1>7, <1>8, <1>9, <1>10 DEF Next, Runner

-----------------------------------------------------------------------------
(* The strengthening of NothingLeftInCluster: whatever exists is being     *)
(* deleted, has a job, or has just been created, until an error ends run(). *)
JustCreated(t) == pc = "observe" /\ t = Created

InCluster ==
  /\ \A t \in Tests : IF IsDynamo(t) THEN Gone(t)
       ELSE Gone(t) \/ t \in deleting \/ t \in jobs \/ JustCreated(t) \/ pc \in Crash
  /\ \/ Gone(Dgd) \/ "delete" \in errors \/ pc \in Crash
     \/ \E t \in Tests : IsDynamo(t) /\ (t \in jobs \/ JustCreated(t))

IInv == Types /\ Loop /\ Iterations /\ InCluster

LEMMA InitInCluster == Init => InCluster
  BY DEF Init, InCluster, Gone, Names, IsDynamo

(* Every step keeps what exists in the cluster accounted for.              *)
LEMMA NextInCluster == IInv /\ [Next]_vars => InCluster'
  <1> SUFFICES ASSUME IInv, [Next]_vars PROVE InCluster'
    OBVIOUS
  <1> USE DEF IInv
  <1>1. todo # {} => Visited \in todo /\ Visited \in jobs /\ Visited \in Tests
    BY FirstIn DEF Types, TypeOK, Visited, Loop
  <1>2. to_submit # {} => Created \in to_submit /\ Created \in Tests
    BY FirstIn DEF Types, TypeOK, Created
  <1>3. CASE While \/ PollJob \/ PollDynamo \/ BenchmarkStarts \/ Benchmark \/ BenchmarkFails
    <2>1. /\ UNCHANGED <<plan, to_submit, jobs, object, deleting, errors>>
          /\ pc \notin {"observe"} \union Crash
      BY <1>3 DEF While, PollJob, PollDynamo, BenchmarkStarts, Benchmark, BenchmarkFails,
         cluster, Polling, Polls, Crash
    <2> QED
      BY <2>1 DEF InCluster, JustCreated, Gone, IsDynamo
  <1>4. CASE Completion
    <2>1. PICK v \in Tests : v = Visited
      BY <1>1, <1>4 DEF Completion, Loop
    <2>2. /\ delete_job({v}) /\ jobs' = jobs \ {v} /\ UNCHANGED plan
          /\ pc = "completion"
      BY <1>4, <2>1 DEF Completion
    <2>3. /\ Deletes({v})
          /\ IsDynamo(v) => object'[Dgd] = "absent" \/ "delete" \in errors'
      BY <2>2, DeleteJobFacts
    <2> QED
      BY <2>2, <2>3 DEF InCluster, JustCreated, Gone, IsDynamo, Deletes, Crash
  <1>5. CASE SubmitTest
    <2>1. UNCHANGED <<plan, jobs>> /\ pc \in {"while", "monitor"}
      BY <1>5 DEF SubmitTest
    <2>2. Deletes({}) \/ UNCHANGED <<object, deleting, errors>>
      BY <1>5, DeleteDynamoFacts DEF SubmitTest
    <2> QED
      BY <2>1, <2>2 DEF InCluster, JustCreated, Gone, IsDynamo, Deletes, Crash
  <1>6. CASE CreateObject
    <2>1. PICK c \in Tests : c = Created
      BY <1>2, <1>6 DEF CreateObject, Loop, Create
    <2>2. UNCHANGED <<plan, jobs, to_submit>> /\ Created' = c
      BY <1>6, <2>1 DEF CreateObject, Created
    <2>3. CASE pc' = "observe"
      <3>1. object' = [object EXCEPT ![name(c)] = "none"] /\ UNCHANGED <<deleting, errors>>
        BY <1>6, <2>1, <2>3 DEF CreateObject
      <3>2. name(c) \in Names /\ name(c) = IF IsDynamo(c) THEN Dgd ELSE c
        BY NamesFacts DEF name
      <3>3. \A n \in Names \ {name(c)} : object'[n] = object[n]
        BY <3>1 DEF Types, TypeOK
      <3>4. pc \notin {"observe"} \union Crash
        BY <1>6 DEF CreateObject, Crash
      <3> QED
        BY <2>2, <2>3, <3>1, <3>2, <3>3, <3>4, TestsFacts
        DEF InCluster, JustCreated, Gone, IsDynamo, Names
    <2>4. CASE pc' = "ApiException"
      <3>1. Deletes({}) \/ UNCHANGED <<object, deleting, errors>>
        BY <1>6, <2>4, DeleteDynamoFacts DEF CreateObject
      <3> QED
        BY <2>2, <2>4, <3>1 DEF InCluster, JustCreated, Gone, IsDynamo, Deletes, Crash
    <2> QED
      BY <1>6, <2>3, <2>4 DEF CreateObject
  <1>7. CASE Observe
    <2>1. UNCHANGED <<plan, object, deleting, errors>> /\ pc = "observe"
      BY <1>7 DEF Observe, cluster
    <2>2. jobs' = jobs \union {Created} \/ pc' \in Crash
      BY <1>7 DEF Observe, Crash
    <2>3. jobs \subseteq jobs' /\ pc \notin Crash
      BY <1>7 DEF Observe, Crash
    <2> QED
      BY <2>1, <2>2, <2>3 DEF InCluster, JustCreated, Gone, IsDynamo
  <1>8. CASE ApiError
    BY <1>8 DEF ApiError, InCluster, Gone, IsDynamo, Crash
  <1>9. CASE CancelOnSignal
    <2>1. Deletes(jobs) /\ UNCHANGED <<plan, pc, jobs, to_submit>>
      BY <1>9, DeleteJobFacts DEF CancelOnSignal, runner, Types, TypeOK
    <2> QED
      BY <2>1 DEF InCluster, JustCreated, Gone, IsDynamo, Deletes, Created
  <1>10. CASE DeploymentFails
    <2>1. /\ UNCHANGED <<plan, pc, jobs, to_submit, deleting, errors>>
          /\ ~Gone(Dgd) /\ \A t \in Tests : object'[t] = object[t]
      BY <1>10, TestsFacts DEF DeploymentFails, runner, Gone, Types, TypeOK, Names
    <2> QED
      BY <2>1 DEF InCluster, JustCreated, Gone, IsDynamo, Created
  <1>11. ASSUME NEW t \in Tests, Cluster(t) PROVE InCluster'
    <2>1. /\ UNCHANGED <<plan, pc, jobs, to_submit>>
          /\ errors \subseteq errors' /\ object'[Dgd] = object[Dgd]
          /\ \A u \in Tests : u # t => object'[u] = object[u] /\ (u \in deleting <=> u \in deleting')
      BY <1>11, TestsFacts DEF Cluster, ObjectMoves, Suspend, Deleted, PodsReady, PodsRestart,
         PodsEnd, PodsStart, runner, Types, TypeOK, Names
    <2>2. \/ UNCHANGED <<object, deleting>>
          \/ object'[t] = "absent"
          \/ ~IsDynamo(t) /\ ~Gone(t) /\ UNCHANGED deleting
      BY <1>11, TestsFacts DEF Cluster, ObjectMoves, Suspend, Deleted, PodsReady, PodsRestart,
         PodsEnd, PodsStart, Types, TypeOK, Names, Gone, Moves
    <2> QED
      BY <2>1, <2>2 DEF InCluster, JustCreated, Gone, IsDynamo, Created
  <1>12. CASE UNCHANGED vars
    BY <1>12 DEF vars, runner, cluster, InCluster, JustCreated, Gone, IsDynamo, Created
  <1> QED
    BY <1>3, <1>4, <1>5, <1>6, <1>7, <1>8, <1>9, <1>10, <1>11, <1>12 DEF Next, Runner

LEMMA Invariance == Spec => []IInv
  <1>1. Init => IInv
    BY InitTypes, InitInCluster DEF IInv
  <1>2. IInv /\ [Next]_vars => IInv'
    BY NextTypes, NextIterations, NextInCluster DEF IInv
  <1> QED
    BY <1>1, <1>2, PTL DEF Spec

(* The variables of KubernetesRunner keep their types in every behaviour.  *)
THEOREM TypeCorrect == Spec => []TypeOK
  <1>1. IInv => TypeOK
    BY DEF IInv, Types
  <1> QED
    BY <1>1, Invariance, PTL

(* When run() ends normally, everything it created in the cluster is gone  *)
(* or being deleted, unless kubectl failed to delete a deployment, with    *)
(* any number of test runs of any kind, dependencies and iterations.       *)
THEOREM ClusterClean == Spec => []NothingLeftInCluster
  <1>1. IInv => NothingLeftInCluster
    <2> SUFFICES ASSUME IInv, pc = "done", NEW n \in Names
                 PROVE  Gone(n) \/ n \in deleting \/ (n = Dgd /\ "delete" \in errors)
      BY DEF NothingLeftInCluster
    <2>1. jobs = {} /\ pc \notin {"observe"} \union Crash
      BY DEF IInv, Loop, Crash
    <2> QED
      BY <2>1 DEF IInv, InCluster, Names, JustCreated
  <1> QED
    BY <1>1, Invariance, PTL

-----------------------------------------------------------------------------
(* What the polls rely on: the conditions a resource can have depend on    *)
(* its kind, and the flag of the system speaks of a deployment with a job. *)
Conditions ==
  \A t \in Tests : /\ object[t] = "resumed" => plan.kind[t] = "job"
                   /\ object[t] = "created" => plan.kind[t] = "mpijob"

FlagTrue ==
  /\ genai_perf_completed => \E t \in benchmarked \intersect jobs : IsDynamo(t)
  /\ pc = "delete_existing" => ~genai_perf_completed

LEMMA InitAnswers == Init => Conditions /\ FlagTrue
  BY TestsFacts DEF Init, Conditions, FlagTrue, Names

LEMMA NextConditions == IInv /\ Conditions /\ [Next]_vars => Conditions'
  <1> SUFFICES ASSUME IInv, Conditions, [Next]_vars PROVE Conditions'
    OBVIOUS
  <1> USE DEF IInv, Conditions
  <1>1. plan' = plan
    BY DEF Next, Runner, While, PollJob, PollDynamo, BenchmarkStarts, Benchmark, BenchmarkFails,
       Completion, SubmitTest, CreateObject, Observe, ApiError, CancelOnSignal, DeploymentFails,
       Cluster, ObjectMoves, Suspend, Deleted, PodsReady, PodsRestart, PodsEnd, PodsStart, vars
  <1>2. CASE UNCHANGED object
    BY <1>1, <1>2
  <1>3. CASE Completion
    <2>1. todo # {} => Visited \in Tests
      BY FirstIn DEF Types, TypeOK, Visited
    <2>2. Deletes({Visited})
      BY <1>3, <2>1, DeleteJobFacts DEF Completion, Loop
    <2> QED
      BY <1>1, <2>2 DEF Deletes
  <1>4. CASE SubmitTest
    BY <1>1, <1>2, <1>4, DeleteDynamoFacts DEF SubmitTest, Deletes
  <1>5. CASE CreateObject
    <2>1. CASE pc' = "ApiException"
      BY <1>1, <1>2, <1>5, <2>1, DeleteDynamoFacts DEF CreateObject, Deletes
    <2>2. CASE pc' # "ApiException"
      <3>1. object' = [object EXCEPT ![name(Created)] = "none"]
        BY <1>5, <2>2 DEF CreateObject
      <3> QED
        BY <1>1, <3>1 DEF Types, TypeOK, Names
    <2> QED
      BY <2>1, <2>2
  <1>6. CASE CancelOnSignal
    BY <1>1, <1>6, DeleteJobFacts DEF CancelOnSignal, Deletes, Types, TypeOK
  <1>7. CASE DeploymentFails
    BY <1>1, <1>7, TestsFacts DEF DeploymentFails, Types, TypeOK, Names
  <1>8. ASSUME NEW t \in Tests, ObjectMoves(t) \/ Suspend(t) \/ Deleted(t)
        PROVE  Conditions'
    <2>1. plan.kind[t] \in Kind
      BY PlansAssumption DEF Types, Plan
    <2>2. PICK s \in Status : object' = [object EXCEPT ![t] = s]
      BY <1>8 DEF ObjectMoves, Suspend, Deleted, Moves, Status
    <2>3. \A u \in Tests \ {t} : object'[u] = object[u]
      BY <2>2 DEF Types, TypeOK, Names
    <2>4. /\ s = "resumed" => plan.kind[t] = "job"
          /\ s = "created" => plan.kind[t] = "mpijob"
      BY <1>8, <2>1, <2>2 DEF ObjectMoves, Suspend, Deleted, Moves, Types, TypeOK, Names,
         IsDynamo, Kind
    <2>5. object'[t] = s
      BY <2>2 DEF Types, TypeOK, Names
    <2> QED
      BY <1>1, <2>3, <2>4, <2>5
  <1> QED
    BY <1>2, <1>3, <1>4, <1>5, <1>6, <1>7, <1>8
    DEF Next, Runner, While, PollJob, PollDynamo, BenchmarkStarts, Benchmark, BenchmarkFails,
        Observe, ApiError, Cluster, PodsReady, PodsRestart, PodsEnd, PodsStart, vars, cluster

LEMMA NextFlag == IInv /\ FlagTrue /\ [Next]_vars => FlagTrue'
  <1> SUFFICES ASSUME IInv, FlagTrue, [Next]_vars PROVE FlagTrue'
    OBVIOUS
  <1> USE DEF IInv, FlagTrue
  <1>1. todo # {} => Visited \in jobs /\ Visited \in Tests
    BY FirstIn DEF Types, TypeOK, Visited, Loop
  <1>2. to_submit # {} => Created \in to_submit /\ Created \in Tests
    BY FirstIn DEF Types, TypeOK, Created
  <1>3. CASE \/ While \/ PollJob \/ PollDynamo \/ BenchmarkStarts \/ BenchmarkFails \/ ApiError
             \/ DeploymentFails \/ (\E t \in Tests : Cluster(t)) \/ UNCHANGED vars
    <2>1. /\ UNCHANGED <<plan, jobs, genai_perf_completed, benchmarked>>
          /\ pc' # "delete_existing" \/ pc' = pc
      BY <1>3 DEF While, PollJob, PollDynamo, BenchmarkStarts, BenchmarkFails, ApiError,
         DeploymentFails, Answer, Cluster, ObjectMoves, Suspend, Deleted, PodsReady, PodsRestart,
         PodsEnd, PodsStart, runner, system, vars
    <2> QED
      BY <2>1 DEF IsDynamo
  <1>4. CASE Benchmark
    <2>1. /\ Visited \in jobs /\ IsDynamo(Visited) /\ UNCHANGED <<plan, jobs>>
          /\ benchmarked' = benchmarked \union {Visited} /\ pc' # "delete_existing"
      BY <1>1, <1>4 DEF Benchmark, Loop, Answer
    <2> QED
      BY <2>1 DEF IsDynamo
  <1>5. CASE Completion
    <2>1. PICK v \in Tests : v = Visited
      BY <1>1, <1>5 DEF Completion, Loop
    <2>2. /\ delete_job({v}) /\ jobs' = jobs \ {v} /\ pc' = "monitor"
          /\ UNCHANGED <<plan, benchmarked>>
      BY <1>5, <2>1 DEF Completion
    <2>3. Deletes({v}) /\ (IsDynamo(v) => genai_perf_completed' = FALSE)
      BY <2>2, DeleteJobFacts
    <2> QED
      BY <2>2, <2>3 DEF Deletes, IsDynamo
  <1>6. CASE SubmitTest
    BY <1>6 DEF SubmitTest, DeleteDynamo, IsDynamo
  <1>7. CASE CreateObject
    <2>1. UNCHANGED <<plan, jobs>> /\ pc' # "delete_existing"
      BY <1>7 DEF CreateObject
    <2>2. CASE IsDynamo(Created)
      <3>1. genai_perf_completed' = FALSE
        BY <1>7, <2>2 DEF CreateObject, Loop, DeleteDynamo, Types, TypeOK
      <3> QED
        BY <2>1, <3>1
    <2>3. CASE ~IsDynamo(Created)
      <3>1. genai_perf_completed' = genai_perf_completed /\ benchmarked \ {Created} \subseteq benchmarked'
        BY <1>7, <2>3 DEF CreateObject
      <3> QED
        BY <2>1, <2>3, <3>1 DEF IsDynamo
    <2> QED
      BY <2>2, <2>3
  <1>8. CASE Observe
    BY <1>8 DEF Observe, system, IsDynamo, Loop, Create
  <1>9. CASE CancelOnSignal
    <2>1. /\ Deletes(jobs) /\ UNCHANGED <<plan, runner, benchmarked>>
          /\ (\E t \in jobs : IsDynamo(t)) => genai_perf_completed' = FALSE
      BY <1>9, DeleteJobFacts DEF CancelOnSignal, Types, TypeOK
    <2> QED
      BY <2>1 DEF Deletes, runner, IsDynamo
  <1> QED
    BY <1>3, <1>4, <1>5, <1>6, <1>7, <1>8, <1>9 DEF Next, Runner

(* At most one deployment has a job: they would share their name.          *)
OneDeployment == \A t, u \in jobs : IsDynamo(t) /\ IsDynamo(u) => t = u

(* What a step that takes a job for completed has seen.                    *)
LEMMA CompletionSeen ==
  ASSUME IInv, Conditions, FlagTrue, OneDeployment, Next,
         pc' = "completion", pc # "completion"
  PROVE  IF IsDynamo(Visited)
           THEN Visited \in benchmarked' \/ object[Dgd] = "failed"
           ELSE \/ object[Visited] \in {"ending", "succeeded", "failed", "absent"}
                \/ plan.kind[Visited] = "job" /\ object[Visited] \in {"suspended", "resumed"}
  <1> USE DEF IInv
  <1>1. todo # {} => Visited \in jobs /\ Visited \in Tests
    BY FirstIn DEF Types, TypeOK, Visited, Loop
  <1>2. PollJob \/ PollDynamo \/ Benchmark
    BY DEF Next, Runner, While, BenchmarkStarts, BenchmarkFails, Completion, SubmitTest,
       CreateObject, Observe, ApiError, CancelOnSignal, DeploymentFails, Cluster, ObjectMoves,
       Suspend, Deleted, PodsReady, PodsRestart, PodsEnd, PodsStart, runner, Loop, Create
  <1>3. CASE PollJob
    <2>1. Visited \in Tests /\ object[Visited] \in Status /\ object[Visited] # "none"
      BY <1>1, <1>3 DEF PollJob, Polling, Answer, is_mpijob_running, is_batch_job_running,
         Types, TypeOK, Names
    <2> QED
      BY <1>3, <2>1 DEF PollJob, Polling, Answer, is_mpijob_running, is_batch_job_running,
         Conditions, Status, IsDynamo
  <1>4. CASE PollDynamo
    <2>1. Visited \in jobs /\ IsDynamo(Visited) /\ UNCHANGED benchmarked
      BY <1>1, <1>4 DEF PollDynamo, Polling, system
    <2>2. CASE genai_perf_completed
      BY <2>1, <2>2 DEF FlagTrue, OneDeployment
    <2>3. CASE ~genai_perf_completed
      BY <1>4, <2>1, <2>3 DEF PollDynamo, Answer, check_deployment_conditions
    <2> QED
      BY <2>2, <2>3 DEF Types, TypeOK
  <1>5. CASE Benchmark
    BY <1>5 DEF Benchmark, Loop
  <1> QED
    BY <1>2, <1>3, <1>4, <1>5

(* While no two deployments have a job at once, a job is taken for         *)
(* completed only when it is over or gone, or when it is a batch job that  *)
(* was suspended, and a deployment of AI Dynamo only after the benchmark   *)
(* of its own current job or when it has failed.                           *)
THEOREM CompletionSound == Spec /\ []OneDeployment => CompletedMeansOver
  <1>1. IInv /\ Conditions /\ FlagTrue /\ OneDeployment /\ [Next]_vars =>
          [ pc' = "completion" /\ pc # "completion" =>
              IF IsDynamo(Visited)
                THEN Visited \in benchmarked' \/ object[Dgd] = "failed"
                ELSE \/ object[Visited] \in {"ending", "succeeded", "failed", "absent"}
                     \/ plan.kind[Visited] = "job" /\ object[Visited] \in {"suspended", "resumed"} ]_vars
    BY CompletionSeen
  <1>2. Init => Conditions /\ FlagTrue
    BY InitAnswers
  <1>3. IInv /\ Conditions /\ FlagTrue /\ [Next]_vars => (Conditions /\ FlagTrue)'
    BY NextConditions, NextFlag
  <1>4. Spec => [](Conditions /\ FlagTrue)
    BY <1>2, <1>3, Invariance, PTL DEF Spec
  <1> QED
    BY <1>1, <1>4, Invariance, PTL DEF Spec, CompletedMeansOver

-----------------------------------------------------------------------------
(* What a request may be refused for: nothing, while the cluster makes no  *)
(* error, no signal was handled and every test run is run once. A resource *)
(* that has not been created is not there, the old deployment is deleted   *)
(* before a new one is created, and one with a job is there, except while  *)
(* the next is being created in its place.                                 *)
Calm ==
  /\ errors \intersect {"api", "delete"} = {} /\ ~signalled
  /\ \A t \in Tests : plan.iterations[t] = 1

Refusals ==
  /\ \A t \in Tests : ~IsDynamo(t) /\ iteration[t] = 0 => Gone(t)
  /\ Calm =>
       /\ pc # "ApiException"
       /\ pc = "delete_existing" => Gone(Dgd)
       /\ \A t \in jobs : IsDynamo(t) =>
            ~Gone(Dgd) \/ pc \in Crash \/ (pc \in Create /\ IsDynamo(Created))

LEMMA InitRefusals == Init => Refusals
  BY DEF Init, Refusals, Gone, Create, Names

(* Errors and signals are not forgotten.                                   *)
LEMMA CalmBefore ==
  ASSUME IInv, [Next]_vars, Calm'
  PROVE  Calm
  <1>1. plan' = plan
    BY DEF Next, Runner, While, PollJob, PollDynamo, BenchmarkStarts, Benchmark, BenchmarkFails,
       Completion, SubmitTest, CreateObject, Observe, ApiError, CancelOnSignal, DeploymentFails,
       Cluster, ObjectMoves, Suspend, Deleted, PodsReady, PodsRestart, PodsEnd, PodsStart, vars
  <1>2. ~signalled' => ~signalled
    BY DEF Next, Runner, While, PollJob, PollDynamo, BenchmarkStarts, Benchmark, BenchmarkFails,
       Completion, SubmitTest, CreateObject, Observe, ApiError, CancelOnSignal, DeploymentFails,
       Cluster, ObjectMoves, Suspend, Deleted, PodsReady, PodsRestart, PodsEnd, PodsStart, vars
  <1>3. errors \subseteq errors'
    BY DEF Next, Runner, While, PollJob, PollDynamo, BenchmarkStarts, Benchmark, BenchmarkFails,
       Completion, SubmitTest, CreateObject, Observe, ApiError, CancelOnSignal, DeploymentFails,
       Cluster, ObjectMoves, Suspend, Deleted, PodsReady, PodsRestart, PodsEnd, PodsStart, vars,
       cluster, delete_job, DeleteDynamo, DeleteJobs
  <1> QED
    BY <1>1, <1>2, <1>3 DEF Calm

(* Every step keeps it, while no two deployments have a job at once: the   *)
(* deployment that a completed test run deletes is no other test run's.    *)
LEMMA NextRefusals ==
  ASSUME IInv, Refusals, OneDeployment, [Next]_vars
  PROVE  Refusals'
  <1> USE DEF IInv, Gone
  <1>1. todo # {} => Visited \in jobs /\ Visited \in Tests
    BY FirstIn DEF Types, TypeOK, Visited, Loop
  <1>2. to_submit # {} => Created \in to_submit /\ Created \in Tests
    BY FirstIn DEF Types, TypeOK, Created
  <1>3. jobs \subseteq Tests /\ object \in [Names -> Status] /\ iteration \in [Tests -> Nat]
        /\ \A t \in Tests : t \in Names /\ t # Dgd
    BY TestsFacts DEF Types, TypeOK, Names
  <1>4. Calm' => Calm
    BY CalmBefore
  <1>5. CASE While \/ PollJob \/ BenchmarkStarts \/ Benchmark \/ BenchmarkFails
    <2>1. /\ UNCHANGED <<plan, jobs, iteration, object>>
          /\ pc' \notin {"ApiException", "delete_existing"}
      BY <1>5 DEF While, PollJob, BenchmarkStarts, Benchmark, BenchmarkFails, Answer, cluster
    <2>2. pc \notin Create \union Crash
      BY <1>5 DEF While, PollJob, BenchmarkStarts, Benchmark, BenchmarkFails, Polling, Polls, Create, Crash
    <2> QED
      BY <1>4, <2>1, <2>2 DEF Refusals, IsDynamo
  <1>6. CASE PollDynamo
    <2>1. /\ UNCHANGED <<plan, jobs, iteration, object>> /\ pc' # "delete_existing"
          /\ pc \notin Create \union Crash
      BY <1>6 DEF PollDynamo, Answer, cluster, Polling, Polls, Create, Crash
    <2>2. pc' = "ApiException" => object[Dgd] = "absent"
      BY <1>6 DEF PollDynamo, Answer
    <2>3. Visited \in jobs /\ IsDynamo(Visited)
      BY <1>1, <1>6 DEF PollDynamo, Polling
    <2> QED
      BY <1>4, <2>1, <2>2, <2>3 DEF Refusals, IsDynamo
  <1>7. CASE Completion
    <2>1. PICK v \in Tests : v = Visited
      BY <1>1, <1>7 DEF Completion, Loop
    <2>2. /\ delete_job({v}) /\ v \in jobs /\ jobs' = jobs \ {v} /\ pc = "completion" /\ pc' = "monitor"
          /\ UNCHANGED <<plan, iteration>>
      BY <1>1, <1>7, <2>1 DEF Completion, Loop
    <2>3. /\ \A t \in Tests : object'[t] = object[t]
          /\ object'[Dgd] \in {object[Dgd], "absent"}
      BY <2>2, DeleteJobFacts DEF Deletes
    <2>4. ASSUME ~IsDynamo(v) PROVE object' = object
      <3>1. DeleteJobs({name(t) : t \in {v}})
        BY <2>2, <2>4 DEF delete_job
      <3> QED
        BY <3>1 DEF DeleteJobs
    <2>5. IsDynamo(v) => \A t \in jobs' : ~IsDynamo(t)
      BY <2>2 DEF OneDeployment
    <2> QED
      BY <1>4, <2>2, <2>3, <2>4, <2>5 DEF Refusals, IsDynamo, Create, Crash
  <1>8. CASE SubmitTest
    <2>1. /\ UNCHANGED <<plan, jobs, iteration, to_submit>> /\ Created' = Created
          /\ pc \in {"while", "monitor"}
      BY <1>8 DEF SubmitTest, Created
    <2>2. CASE IsDynamo(Created)
      <3>1. pc' = "delete_existing" /\ DeleteDynamo({})
        BY <1>8, <2>2 DEF SubmitTest
      <3>2. /\ \A t \in Tests : object'[t] = object[t]
            /\ object'[Dgd] = "absent" \/ "delete" \in errors'
        BY <3>1, DeleteDynamoFacts DEF Deletes
      <3> QED
        BY <1>4, <2>1, <2>2, <3>1, <3>2 DEF Refusals, Calm, IsDynamo, Create
    <2>3. CASE ~IsDynamo(Created)
      <3>1. pc' = "create" /\ UNCHANGED object
        BY <1>8, <2>3 DEF SubmitTest
      <3> QED
        BY <1>4, <2>1, <3>1 DEF Refusals, IsDynamo, Create, Crash
    <2> QED
      BY <2>2, <2>3
  <1>9. CASE CreateObject
    <2>0. /\ pc \in {"create", "delete_existing"} /\ pc \in Create /\ pc \notin {"observe"} \union Crash
      BY <1>9 DEF CreateObject, Create, Crash
    <2>1. PICK c \in Tests : c = Created
      BY <1>2, <2>0 DEF Loop
    <2>2. UNCHANGED <<plan, jobs, to_submit>> /\ Created' = c
      BY <1>9, <2>1 DEF CreateObject, Created
    <2>3. name(c) = (IF IsDynamo(c) THEN Dgd ELSE c) /\ name(c) \in Names
      BY NamesFacts DEF name
    <2>4. /\ pc = "create" => ~IsDynamo(c)
          /\ pc = "delete_existing" => IsDynamo(c)
          /\ c \in to_submit
      BY <1>2, <2>0, <2>1 DEF Loop
    <2>5. CASE Gone(name(c))
      <3>1. /\ object' = [object EXCEPT ![name(c)] = "none"] /\ pc' = "observe"
            /\ iteration' = [iteration EXCEPT ![c] = @ + 1]
        BY <1>9, <2>1, <2>5 DEF CreateObject
      <3>2. \A t \in Tests : ~IsDynamo(t) /\ iteration'[t] = 0 => object'[t] = "absent"
        BY <1>3, <2>3, <3>1 DEF Refusals
      <3>3. /\ IsDynamo(c) => object'[Dgd] # "absent"
            /\ ~IsDynamo(c) => object'[Dgd] = object[Dgd]
        BY <1>3, <2>3, <3>1 DEF Names
      <3> QED
        BY <1>4, <2>0, <2>1, <2>2, <3>1, <3>2, <3>3 DEF Refusals, IsDynamo
    <2>6. CASE ~Gone(name(c))
      <3>1. \A t \in Tests : object'[t] = object[t]
        BY <1>9, <2>1, <2>6, DeleteDynamoFacts DEF CreateObject, Deletes
      <3>2. ~Calm
        <4>1. CASE IsDynamo(c)
          BY <2>0, <2>3, <2>4, <2>6, <4>1 DEF Refusals
        <4>2. CASE ~IsDynamo(c)
          <5>1. iteration[c] # 0
            BY <2>3, <2>6, <4>2 DEF Refusals
          <5>2. iteration[c] < plan.iterations[c]
            BY <2>0, <2>1, <2>4 DEF Iterations
          <5> QED
            BY <1>3, <5>1, <5>2 DEF Calm
        <4> QED
          BY <4>1, <4>2
      <3>3. UNCHANGED iteration
        BY <1>9, <2>1, <2>6 DEF CreateObject
      <3> QED
        BY <1>4, <2>2, <3>1, <3>2, <3>3 DEF Refusals, IsDynamo
    <2> QED
      BY <2>5, <2>6
  <1>10. CASE Observe
    <2>1. /\ UNCHANGED <<plan, iteration, object>> /\ pc = "observe" /\ to_submit # {}
          /\ caller \in {"while", "monitor"}
      BY <1>10 DEF Observe, cluster, Loop, Create
    <2>2. CASE is_job_observable(Created)
      <3>1. /\ pc' \in {"while", "monitor"} /\ jobs' = jobs \union {Created}
            /\ object[name(Created)] # "absent"
        BY <1>10, <2>1, <2>2 DEF Observe, is_job_observable
      <3>2. IsDynamo(Created) => object[Dgd] # "absent"
        BY <3>1 DEF name
      <3> QED
        BY <1>4, <2>1, <3>1, <3>2 DEF Refusals, IsDynamo, Crash, Create
    <2>3. CASE ~is_job_observable(Created)
      BY <1>4, <1>10, <2>1, <2>3 DEF Observe, Refusals, IsDynamo, Crash
    <2> QED
      BY <2>2, <2>3
  <1>11. CASE ApiError
    BY <1>11 DEF ApiError, Refusals, Calm, IsDynamo
  <1>12. CASE CancelOnSignal
    <2>1. Deletes(jobs) /\ signalled' /\ UNCHANGED <<plan, iteration>>
      BY <1>12, DeleteJobFacts DEF CancelOnSignal, runner, Types, TypeOK
    <2> QED
      BY <2>1 DEF Deletes, Refusals, Calm, IsDynamo
  <1>13. CASE DeploymentFails
    <2>1. /\ UNCHANGED <<plan, pc, jobs, to_submit, iteration>> /\ object[Dgd] # "absent"
          /\ object'[Dgd] # "absent" /\ \A t \in Tests : object'[t] = object[t]
      BY <1>3, <1>13 DEF DeploymentFails, runner, Names
    <2> QED
      BY <1>4, <2>1 DEF Refusals, IsDynamo, Created
  <1>14. ASSUME NEW t \in Tests, Cluster(t) PROVE Refusals'
    <2>1. /\ UNCHANGED <<plan, pc, jobs, to_submit, iteration>> /\ object'[Dgd] = object[Dgd]
          /\ \A u \in Tests : u # t => object'[u] = object[u]
          /\ object[t] = "absent" => object'[t] = "absent"
      BY <1>3, <1>14 DEF Cluster, ObjectMoves, Moves, Suspend, Deleted, PodsReady, PodsRestart,
         PodsEnd, PodsStart, runner, Names
    <2> QED
      BY <1>4, <2>1 DEF Refusals, IsDynamo, Created
  <1>15. CASE UNCHANGED vars
    BY <1>4, <1>15 DEF vars, runner, cluster, Refusals, IsDynamo, Created
  <1> QED
    BY <1>5, <1>6, <1>7, <1>8, <1>9, <1>10, <1>11, <1>12, <1>13, <1>14, <1>15 DEF Next, Runner

(* While no two deployments have a job at once, no request is refused for  *)
(* what the runner itself has done (submit_test, which deletes a           *)
(* deployment before it creates the next one, create_job and the polls),   *)
(* if each test run is run once, no signal came and the cluster made no    *)
(* error.                                                                  *)
THEOREM RunnerNotRefused == Spec /\ []OneDeployment => []NoSelfInflictedError
  <1>1. IInv /\ Refusals => NoSelfInflictedError
    <2> SUFFICES ASSUME IInv, Refusals, pc = "ApiException",
                        errors \intersect {"api", "delete"} = {}, ~signalled,
                        \A t \in Tests : ~(plan.iterations[t] > 1)
                 PROVE  FALSE
      BY DEF NoSelfInflictedError
    <2>1. \A t \in Tests : plan.iterations[t] \in 1 .. 2
      BY PlansAssumption DEF IInv, Types, Plan
    <2>2. Calm
      BY <2>1 DEF Calm
    <2> QED
      BY <2>2 DEF Refusals
  <1>2. Init => Refusals
    BY InitRefusals
  <1>3. IInv /\ Refusals /\ OneDeployment /\ [Next]_vars => Refusals'
    BY NextRefusals
  <1> QED
    BY <1>1, <1>2, <1>3, Invariance, PTL DEF Spec

-----------------------------------------------------------------------------
(* u is among the test runs t waits for, at however many removes: it is in *)
(* every set that has the one t waits for and is closed under waiting.     *)
Awaits(p, t, u) ==
  \A S \in SUBSET Tests :
    p.after[t] \in S \union {None} /\ (\A v \in S : p.after[v] \in S \union {None}) => u \in S

(* Of two deployments of a scenario one waits for the other.               *)
InTurn(p) ==
  \A t, u \in Tests : /\ t # u /\ p.kind[t] = "dynamographdeployment"
                      /\ p.kind[u] = "dynamographdeployment"
                      => Awaits(p, t, u) \/ Awaits(p, u, t)

(* What a test run with a job has waited for is finished.                  *)
LEMMA AwaitedFinished ==
  ASSUME IInv, NEW t \in jobs, NEW u \in Tests, Awaits(plan, t, u)
  PROVE  u \notin jobs
  <1> DEFINE F == {v \in Tests : Finished(v)}
  <1>1. t \in Tests /\ plan.iterations \in [Tests -> 1 .. 2] /\ plan.after \in [Tests -> Tests \union {None}]
    BY PlansAssumption DEF IInv, Types, TypeOK, Plan
  <1>2. plan.after[t] \in F \union {None}
    BY <1>1 DEF IInv, Iterations
  <1>3. \A v \in F : plan.after[v] \in F \union {None}
    <2>1. \A v \in F : iteration[v] > 0
      BY <1>1 DEF Finished
    <2> QED
      BY <1>1, <2>1 DEF IInv, Iterations
  <1>4. u \in F
    <2> HIDE DEF F
    <2> SUFFICES F \in SUBSET Tests
      BY <1>2, <1>3 DEF Awaits
    <2> QED
      BY DEF F
  <1> QED
    BY <1>4 DEF Finished

(* In a scenario whose deployments take turns, whose dependencies          *)
(* handle_job_completion keeps, no two of them have a job at once: a job   *)
(* is taken for completed only when it is over, and without an error of    *)
(* the cluster the runner is not refused a request.                        *)
THEOREM DeploymentsInTurn ==
  ASSUME \A p \in Plans : InTurn(p)
  PROVE  Spec => CompletedMeansOver /\ []NoSelfInflictedError
  <1>1. IInv => OneDeployment
    <2> SUFFICES ASSUME IInv, NEW t \in jobs, NEW u \in jobs, IsDynamo(t), IsDynamo(u), t # u
                 PROVE  FALSE
      BY DEF OneDeployment
    <2>1. t \in Tests /\ u \in Tests /\ plan \in Plans
      BY DEF IInv, Types, TypeOK
    <2>2. Awaits(plan, t, u) \/ Awaits(plan, u, t)
      BY <2>1 DEF InTurn, IsDynamo
    <2> QED
      BY <2>1, <2>2, AwaitedFinished
  <1>2. Spec => []OneDeployment
    BY <1>1, Invariance, PTL
  <1> QED
    BY <1>2, CompletionSound, RunnerNotRefused, PTL
=============================================================================
