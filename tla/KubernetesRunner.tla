-------------------------- MODULE KubernetesRunner --------------------------
(***************************************************************************)
(* The Kubernetes back end: KubernetesRunner and KubernetesSystem          *)
(* (systems/kubernetes), driven by the loop of BaseRunner, and the cluster *)
(* as the requests of KubernetesSystem see it. A test run is a batch job,  *)
(* an MPIJob or a DynamoGraphDeployment; the benchmark of the latter runs  *)
(* inside the poll that first finds its pods ready, and the system keeps   *)
(* one flag that says whether it has run.                                  *)
(***************************************************************************)
EXTENDS Naturals

CONSTANTS
  NumTests,  \* number of test runs
  Plans,     \* the scenarios, each one of Plan
  Faults     \* which of "signal", "api", "delete", "pods", "copy", "suspend" may happen

Tests == 1 .. NumTests
None  == 0
Dgd   == 0              \* gen_json names every deployment after the namespace
Names == Tests \union {Dgd}

Kind == {"job", "mpijob", "dynamographdeployment"}

(* after[t] is the test run t has a start_post_comp dependency on.         *)
Plan == [kind : [Tests -> Kind], after : [Tests -> Tests \union {None}],
         iterations : [Tests -> 1 .. 2]]

ASSUME NumTestsAssumption == NumTests \in Nat \ {0}
ASSUME PlansAssumption ==
  Plans \subseteq {p \in Plan : \A t \in Tests : p.after[t] # t}

VARIABLES
  plan,                  \* the scenario, never changes
  pc,                    \* where the runner is, or how run() ended
  todo,                  \* test runs the loop at pc has still to visit
  to_submit,             \* test runs still to be submitted before going on
  caller,                \* the poll or loop to return to
  jobs,                  \* test runs with a job in BaseRunner.jobs
  iteration,             \* iterations of each test run submitted so far
  genai_perf_completed,  \* KubernetesSystem._genai_perf_completed
  benchmarked,           \* test runs whose current job had its benchmark run
  marker,                \* test runs whose current job has a success marker
  signalled,             \* a signal was handled
  object,                \* status of the resource of each name
  deleting,              \* names of resources in foreground deletion
  errors,                \* which of the faults "api", "delete" and "pods" happened
  pods                   \* the pods of the deployment of each test run

runner  == <<pc, todo, to_submit, caller, jobs, iteration>>
system  == <<genai_perf_completed, benchmarked, marker>>
cluster == <<object, deleting, errors, pods>>
vars    == <<plan, runner, system, signalled, cluster>>

Polls  == {"is_job_running", "is_job_completed", "monitor"}
Create == {"delete_existing", "create", "observe"}
Crash  == {"ApiException", "TimeoutError", "CalledProcessError"}
Over   == Crash \union {"done"}

(* The condition that is true of a resource: "none" for an empty list, and *)
(* "resumed" for a batch job whose condition Suspended has turned false.   *)
Status == {"absent", "none", "created", "suspended", "resumed", "ending",
           "succeeded", "failed"}

TypeOK ==
  /\ plan \in Plan
  /\ pc \in Polls \union Create \union Over \union {"while", "benchmark", "completion"}
  /\ todo \in SUBSET Tests /\ to_submit \in SUBSET Tests
  /\ caller \in Polls \union {"while"}
  /\ jobs \in SUBSET Tests
  /\ iteration \in [Tests -> Nat] /\ \A t \in Tests : iteration[t] <= plan.iterations[t]
  /\ genai_perf_completed \in BOOLEAN
  /\ benchmarked \in SUBSET Tests /\ marker \in SUBSET benchmarked
  /\ signalled \in BOOLEAN
  /\ object \in [Names -> Status] /\ deleting \in SUBSET Names
  /\ \A n \in deleting : object[n] # "absent"
  /\ errors \in SUBSET {"api", "delete", "pods"}
  /\ pods \in [Tests -> {"none", "starting", "ready", "terminating"}]

-----------------------------------------------------------------------------
IsDynamo(t) == plan.kind[t] = "dynamographdeployment"
name(t)     == IF IsDynamo(t) THEN Dgd ELSE t
Gone(n)     == object[n] = "absent"

First(S) == CHOOSE t \in S : \A u \in S : t <= u
Visited  == First(todo)
Created  == First(to_submit)

Mutant_is_mpijob_running(t) == object[t] \in {"none", "created", "suspended", "failed"}

(* _is_mpijob_running: every MPIJob that has conditions has Created.       *)
is_mpijob_running(t) == object[t] \in {"none", "created", "suspended"}

(* _is_batch_job_running looks for Created, too, but no batch job ever has *)
(* it: with any condition at all it is not running.                        *)
is_batch_job_running(t) == object[t] = "none"

(* are_vllm_pods_ready: the pods of all deployments have the same names.   *)
are_vllm_pods_ready ==
  /\ \E t \in Tests : pods[t] = "ready"
  /\ \A t \in Tests : pods[t] \in {"none", "ready"}

(* _check_deployment_conditions.                                           *)
check_deployment_conditions == object[Dgd] # "failed"

Mutant_DeleteDynamo(requested) ==
  /\ \/ object' = [object EXCEPT ![Dgd] = "absent"] /\ UNCHANGED errors
     \/ "delete" \in Faults /\ ~Gone(Dgd) /\ errors' = errors \union {"delete"} /\ UNCHANGED object
  /\ UNCHANGED genai_perf_completed
  /\ deleting' = deleting \union {n \in requested : ~Gone(n)}

(* _delete_dynamo_graph_deployment waits until kubectl has deleted it, or  *)
(* only notes that kubectl failed, and resets the flag; the resources of   *)
(* the names requested are deleted in the foreground, by _delete_mpi_job   *)
(* and _delete_batch_job.                                                  *)
DeleteDynamo(requested) ==
  /\ \/ object' = [object EXCEPT ![Dgd] = "absent"] /\ UNCHANGED errors
     \/ "delete" \in Faults /\ ~Gone(Dgd) /\ errors' = errors \union {"delete"} /\ UNCHANGED object
  /\ genai_perf_completed' = FALSE
  /\ deleting' = deleting \union {n \in requested : ~Gone(n)}

DeleteJobs(requested) ==
  /\ deleting' = deleting \union {n \in requested : ~Gone(n)}
  /\ UNCHANGED <<object, errors, genai_perf_completed>>

Mutant_delete_job(S) ==
  IF \E t \in S : IsDynamo(t)
    THEN DeleteDynamo({})
    ELSE UNCHANGED <<object, deleting, errors, genai_perf_completed>>

(* delete_job for a set of jobs.                                           *)
delete_job(S) ==
  IF \E t \in S : IsDynamo(t) THEN DeleteDynamo({name(t) : t \in S} \ {Dgd})
                              ELSE DeleteJobs({name(t) : t \in S})

-----------------------------------------------------------------------------
Init ==
  /\ plan \in Plans
  /\ pc = "while" /\ todo = {} /\ caller = "while"
  /\ to_submit = {t \in Tests : plan.after[t] = None}
  /\ jobs = {} /\ iteration = [t \in Tests |-> 0]
  /\ genai_perf_completed = FALSE /\ benchmarked = {} /\ marker = {}
  /\ signalled = FALSE
  /\ object = [n \in Names |-> "absent"] /\ deleting = {} /\ errors = {}
  /\ pods = [t \in Tests |-> "none"]

NoWork == to_submit = {}

(* "while self.jobs" of run(), and the start of each of the two loops.     *)
While ==
  /\ NoWork
  /\ \/ pc = "while" /\ jobs = {} /\ pc' = "done" /\ UNCHANGED todo
     \/ pc = "while" /\ jobs # {} /\ pc' = "is_job_running" /\ todo' = jobs
     \/ pc = "is_job_running" /\ todo = {} /\ pc' = "monitor" /\ todo' = jobs
     \/ pc = "monitor" /\ todo = {} /\ pc' = "while" /\ UNCHANGED todo
  /\ UNCHANGED <<plan, to_submit, caller, jobs, iteration, system, signalled, cluster>>

(* What the loop at q does with the answer "not running" to its poll, and  *)
(* with "running". is_job_completed is the negation of is_job_running.     *)
Answer(q, is_running) ==
  \/ /\ q = "is_job_running"
     /\ pc' = "is_job_completed" /\ UNCHANGED todo
  \/ /\ q = "is_job_completed"
     /\ pc' = "is_job_running" /\ todo' = todo \ {Visited}
  \/ /\ q = "monitor" /\ is_running
     /\ pc' = "monitor" /\ todo' = todo \ {Visited}
  \/ /\ q = "monitor" /\ ~is_running
     /\ pc' = "completion" /\ UNCHANGED todo

Polling == pc \in Polls /\ NoWork /\ todo # {}

PollJob ==
  /\ Polling
  /\ \/ /\ plan.kind[Visited] = "mpijob"
        /\ Answer(pc, is_mpijob_running(Visited))
     \/ /\ plan.kind[Visited] = "job"
        /\ Answer(pc, is_batch_job_running(Visited))
  /\ UNCHANGED <<plan, to_submit, caller, jobs, iteration, system, signalled, cluster>>

(* _is_dynamo_graph_deployment_running, unless the benchmark is due. A     *)
(* deployment that is gone is an error here, not a completed job.          *)
PollDynamo ==
  /\ Polling /\ IsDynamo(Visited)
  /\ \/ genai_perf_completed /\ Answer(pc, FALSE)
     \/ /\ ~genai_perf_completed /\ ~are_vllm_pods_ready
        /\ \/ ~Gone(Dgd) /\ Answer(pc, check_deployment_conditions)
           \/ Gone(Dgd) /\ pc' = "ApiException" /\ UNCHANGED todo
  /\ UNCHANGED <<plan, to_submit, caller, jobs, iteration, system, signalled, cluster>>

BenchmarkStarts ==
  /\ Polling /\ IsDynamo(Visited)
  /\ ~genai_perf_completed /\ are_vllm_pods_ready
  /\ caller' = pc /\ pc' = "benchmark"
  /\ UNCHANGED <<plan, todo, to_submit, jobs, iteration, system, signalled, cluster>>

(* _run_genai_perf and _copy_genai_perf_results in the frontend pod, and   *)
(* the logs of the pods. Whatever becomes of the benchmark, it counts as   *)
(* run; the marker is written only if the report could be copied.          *)
Benchmark ==
  /\ pc = "benchmark"
  /\ genai_perf_completed' = TRUE
  /\ benchmarked' = benchmarked \union {Visited}
  /\ \/ (\E t \in Tests : pods[t] = "ready") /\ marker' = marker \union {Visited}
     \/ UNCHANGED marker
  /\ Answer(caller, FALSE)
  /\ caller' = "while"
  /\ UNCHANGED <<plan, to_submit, jobs, iteration, signalled, cluster>>

(* There is no frontend pod, or the script cannot be copied into it.       *)
BenchmarkFails ==
  /\ pc = "benchmark"
  /\ "copy" \in Faults \/ \A t \in Tests : pods[t] = "none"
  /\ pc' = "CalledProcessError"
  /\ UNCHANGED <<plan, todo, to_submit, caller, jobs, iteration, system, signalled, cluster>>

Mutant_CompletionKept ==
  /\ pc = "completion"
  /\ delete_job({Visited})
  /\ UNCHANGED jobs /\ todo' = todo \ {Visited}
  /\ to_submit' = IF iteration[Visited] < plan.iterations[Visited] THEN {Visited}
                  ELSE {t \in Tests \ jobs : plan.after[t] = Visited}
  /\ pc' = "monitor"
  /\ UNCHANGED <<plan, caller, iteration, benchmarked, marker, signalled, pods>>

(* on_job_completion, then handle_job_completion: another iteration, or    *)
(* the test runs that wait for this one.                                   *)
Completion ==
  /\ pc = "completion"
  /\ delete_job({Visited})
  /\ jobs' = jobs \ {Visited} /\ todo' = todo \ {Visited}
  /\ to_submit' = IF iteration[Visited] < plan.iterations[Visited] THEN {Visited}
                  ELSE {t \in Tests \ jobs : plan.after[t] = Visited}
  /\ pc' = "monitor"
  /\ UNCHANGED <<plan, caller, iteration, benchmarked, marker, signalled, pods>>

(* _submit_test: the job specification, then create_job. A deployment of   *)
(* the same name is deleted first.                                         *)
SubmitTest ==
  /\ pc \in {"while", "monitor"} /\ to_submit # {}
  /\ caller' = pc
  /\ \/ ~IsDynamo(Created) /\ pc' = "create"
        /\ UNCHANGED <<object, deleting, errors, genai_perf_completed>>
     \/ IsDynamo(Created) /\ pc' = "delete_existing" /\ DeleteDynamo({})
  /\ UNCHANGED <<plan, todo, to_submit, jobs, iteration, benchmarked, marker,
                 signalled, pods>>

(* The request that creates the resource: a name that is still in use,     *)
(* also of a resource being deleted, is refused; the refused deployment is *)
(* deleted once more.                                                      *)
CreateObject ==
  /\ pc \in {"create", "delete_existing"}
  /\ LET n == name(Created) IN
     \/ /\ Gone(n)
        /\ object' = [object EXCEPT ![n] = "none"]
        /\ iteration' = [iteration EXCEPT ![Created] = @ + 1]
        /\ benchmarked' = benchmarked \ {Created} /\ marker' = marker \ {Created}
        /\ pc' = "observe"
        /\ UNCHANGED <<deleting, errors, genai_perf_completed>>
     \/ /\ ~Gone(n)
        /\ pc' = "ApiException"
        /\ IF IsDynamo(Created) THEN DeleteDynamo({})
             ELSE UNCHANGED <<object, deleting, errors, genai_perf_completed>>
        /\ UNCHANGED <<iteration, benchmarked, marker>>
  /\ UNCHANGED <<plan, todo, to_submit, caller, jobs, signalled, pods>>

(* _is_job_observable of any kind: the resource can be read.               *)
is_job_observable(t) == ~Gone(name(t))

(* create_job waits until the resource can be read, up to a minute: one    *)
(* that has come and gone before the first look is never seen. Then        *)
(* submit_test records the job.                                            *)
Observe ==
  /\ pc = "observe"
  /\ \/ /\ is_job_observable(Created) /\ pc' = caller /\ caller' = "while"
        /\ jobs' = jobs \union {Created} /\ to_submit' = to_submit \ {Created}
     \/ /\ ~is_job_observable(Created) /\ pc' = "TimeoutError"
        /\ UNCHANGED <<caller, jobs, to_submit>>
  /\ UNCHANGED <<plan, todo, iteration, system, signalled, cluster>>

(* The API server answers a request with an error.                         *)
ApiError ==
  /\ "api" \in Faults
  /\ \/ Polling \/ pc \in {"create", "observe"}
     \/ pc = "completion" /\ ~IsDynamo(Visited)
  /\ pc' = "ApiException" /\ errors' = errors \union {"api"}
  /\ UNCHANGED <<plan, todo, to_submit, caller, jobs, iteration, system, signalled,
                 object, deleting, pods>>

(* cancel_on_signal: kill for each of the jobs.                            *)
CancelOnSignal ==
  /\ "signal" \in Faults /\ ~signalled /\ pc \notin Over
  /\ signalled' = TRUE
  /\ delete_job(jobs)
  /\ UNCHANGED <<plan, runner, benchmarked, marker, pods>>

-----------------------------------------------------------------------------
(* The cluster: external. Suspended batch jobs are those of a queueing     *)
(* controller; a finished batch job is removed at once (its specification  *)
(* sets ttlSecondsAfterFinished to 0).                                     *)
Moves(t, s) ==
  LET kind == plan.kind[t] IN
  CASE s = "none"      -> IF kind = "mpijob" THEN {"created"}
                          ELSE IF kind = "job" THEN {"ending"} ELSE {"failed"}
    [] s = "created"   -> {"succeeded", "failed"}
    [] s = "suspended" -> {IF kind = "job" THEN "resumed" ELSE "created"}
    [] s = "resumed"   -> {"ending"}
    [] s = "ending"    -> {"absent"}
    [] OTHER           -> {}

ObjectMoves(t) ==
  /\ ~IsDynamo(t) /\ t \notin deleting
  /\ \E s \in Moves(t, object[t]) : object' = [object EXCEPT ![t] = s]
  /\ UNCHANGED <<plan, runner, system, signalled, deleting, errors, pods>>

Suspend(t) ==
  /\ "suspend" \in Faults
  /\ t \notin deleting /\ ~IsDynamo(t) /\ object[t] = "none"
  /\ object' = [object EXCEPT ![t] = "suspended"]
  /\ UNCHANGED <<plan, runner, system, signalled, deleting, errors, pods>>

DeploymentFails ==
  /\ object[Dgd] = "none"
  /\ object' = [object EXCEPT ![Dgd] = "failed"]
  /\ UNCHANGED <<plan, runner, system, signalled, deleting, errors, pods>>

Deleted(n) ==
  /\ n \in deleting
  /\ object' = [object EXCEPT ![n] = "absent"] /\ deleting' = deleting \ {n}
  /\ UNCHANGED <<plan, runner, system, signalled, errors, pods>>

PodsReady(t) ==
  /\ pods[t] = "starting" /\ object[Dgd] = "none"
  /\ pods' = [pods EXCEPT ![t] = "ready"]
  /\ UNCHANGED <<plan, runner, system, signalled, object, deleting, errors>>

(* Once: pods that go on restarting would be polled for ever.              *)
PodsRestart(t) ==
  /\ "pods" \in Faults \ errors /\ pods[t] = "ready"
  /\ pods' = [pods EXCEPT ![t] = "starting"] /\ errors' = errors \union {"pods"}
  /\ UNCHANGED <<plan, runner, system, signalled, object, deleting>>

(* The pods of a deployment that is gone end some time after it.           *)
PodsEnd(t) ==
  /\ \/ pods[t] \in {"starting", "ready"} /\ Gone(Dgd)
        /\ pods' = [pods EXCEPT ![t] = "terminating"]
     \/ pods[t] = "terminating" /\ pods' = [pods EXCEPT ![t] = "none"]
  /\ UNCHANGED <<plan, runner, system, signalled, object, deleting, errors>>

PodsStart(t) ==
  /\ IsDynamo(t) /\ pods[t] = "none" /\ ~Gone(Dgd) /\ t \in jobs
  /\ pods' = [pods EXCEPT ![t] = "starting"]
  /\ UNCHANGED <<plan, runner, system, signalled, object, deleting, errors>>

Runner ==
  \/ While \/ PollJob \/ PollDynamo \/ BenchmarkStarts \/ Benchmark
  \/ BenchmarkFails \/ Completion \/ SubmitTest \/ CreateObject \/ Observe \/ ApiError

Cluster(t) ==
  \/ ObjectMoves(t) \/ Suspend(t) \/ Deleted(t)
  \/ PodsReady(t) \/ PodsRestart(t) \/ PodsEnd(t) \/ PodsStart(t)

Next == Runner \/ CancelOnSignal \/ DeploymentFails \/ \E t \in Tests : Cluster(t)

Spec == Init /\ [][Next]_vars

(* The runner's thread goes on, jobs end, pods become ready in the end     *)
(* unless the deployment fails, and what is deleted goes.                  *)
FairSpec ==
  /\ Spec /\ WF_vars(Runner)
  /\ \A t \in Tests :
       /\ WF_vars(ObjectMoves(t) \/ Deleted(t))
       /\ WF_vars(PodsEnd(t) \/ PodsStart(t) \/ PodsReady(t))
-----------------------------------------------------------------------------
(* Correctness properties.                                                 *)

(* A job is taken for completed only when it is over or gone, with one     *)
(* exception: a batch job that was suspended, on which the cluster sets a  *)
(* condition the poll does not know. One flag says of every deployment of  *)
(* AI Dynamo whether its benchmark has run: a test run is never taken for  *)
(* completed on the word of another's benchmark, or of an earlier          *)
(* iteration's.                                                            *)
CompletedMeansOver ==
  [][ pc' = "completion" /\ pc # "completion" =>
        IF IsDynamo(Visited)
          THEN Visited \in benchmarked' \/ object[Dgd] = "failed"
          ELSE \/ object[Visited] \in {"ending", "succeeded", "failed", "absent"}
               \/ plan.kind[Visited] = "job" /\ object[Visited] \in {"suspended", "resumed"} ]_vars

(* When run() ends normally, everything it created in the cluster is gone  *)
(* or being deleted, unless kubectl failed to delete a deployment.         *)
NothingLeftInCluster ==
  pc = "done" => \A n \in Names : \/ Gone(n) \/ n \in deleting
                                  \/ n = Dgd /\ "delete" \in errors

(* Without an error of the cluster, a signal or iterations (whose resource *)
(* may still be in deletion), no request of the runner is refused.         *)
NoSelfInflictedError ==
  pc = "ApiException" =>
    \/ errors \intersect {"api", "delete"} # {} \/ signalled
    \/ \E t \in Tests : plan.iterations[t] > 1

(* Every iteration of every test run is run, or an error ends run().       *)
EveryTestRuns ==
  <>(\/ pc \in Crash
     \/ pc = "done" /\ iteration = plan.iterations)

=============================================================================
