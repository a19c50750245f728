----------------------------- MODULE JobPolling -----------------------------
(***************************************************************************)
(* How the runner learns what has become of its jobs, on four back ends:   *)
(* is_job_running, is_job_completed and kill of SlurmSystem, LSFSystem,    *)
(* StandaloneSystem and RunAISystem, called by the polling pass of         *)
(* BaseRunner, and on_job_completion of SlurmRunner and RunAIRunner. The   *)
(* jobs have been submitted; BaseRunner models submission and dependencies. *)
(*                                                                         *)
(* What a back end reports of a job is a set of words: the State column of *)
(* sacct for the job and its steps, cut after ten characters by sacct; the *)
(* stat column of bjobs, empty when LSF has forgotten the job; the pid in  *)
(* the output of ps; the phase of a RunAI training, empty when deleted.    *)
(***************************************************************************)
EXTENDS Naturals

CONSTANTS
  NumJobs,     \* number of jobs, all on one back end
  Backends,    \* the back ends a behaviour may be about
  Faults       \* which of "timeout", "error", "signal", "suspend", "requeue",
               \* "forget", "token" may happen

Jobs == 1 .. NumJobs
None == 0

ASSUME NumJobsAssumption == NumJobs \in Nat \ {0}
ASSUME BackendsAssumption == Backends \subseteq {"slurm", "lsf", "standalone", "runai"}

retry_threshold == 3   \* default argument of the three queries of SlurmSystem

VARIABLES
  backend,     \* the back end, never changes
  life,        \* what has really become of each job
  shown,       \* what the back end reports of each job
  began,       \* jobs that have run at some time
  killed,      \* jobs the back end was told to end
  token,       \* the access token of RunAIRestClient is still valid
  pc,          \* the query that is due, or how run() ended
  todo,        \* jobs the pass has still to visit
  running,     \* answer of is_job_running of the job being visited
  retry_count, \* retry_count of the query under way
  silence,     \* timeouts since the last answer, up to retry_threshold
  released,    \* jobs whose start_post_init dependents were released
  handled      \* jobs whose completion was handled

sched == <<life, shown, began, killed, token>>
loop  == <<pc, todo, running, retry_count, silence, released, handled>>
vars  == <<backend, sched, loop>>

Life  == {"waiting", "running", "suspended", "ended"}
Query == {"is_job_running", "is_job_completed", "monitor", "get_job_status"}
Crash == {"RuntimeError", "IndexError", "HTTPError", "AttributeError"}

Finished == {{}, {"COMPLETED"}}   \* states of the steps of a job that have ended

(* What a back end can report of a job, by what has become of it: external. *)
(* One state stands for those that the polls treat alike: on Slurm, ended  *)
(* jobs in state COMPLETED and FAILED are like those that timed out, and   *)
(* NODE_FAIL and PREEMPTED like out of memory.                             *)
Reports(b, l) ==
  CASE b = "slurm" ->
         {{s} \union F : F \in Finished,
           s \in CASE l = "waiting"   -> {"PENDING"}
                   [] l = "running"   -> {"RUNNING"}
                   [] l = "suspended" -> {"SUSPENDED"}
                   [] l = "ended"     -> {"TIMEOUT", "CANCELLED+", "OUT_OF_ME+"}}
    [] b = "lsf" ->
         {{s} : s \in CASE l = "waiting"   -> {"PEND"}
                        [] l = "running"   -> {"RUN", "UNKWN"}
                        [] l = "suspended" -> {"USUSP"}
                        [] l = "ended"     -> {"DONE", "EXIT"}}
    [] b = "standalone" -> {{"pid"}}
    [] b = "runai" ->
         {{s} : s \in CASE l = "waiting"   -> {"Pending"}
                        [] l = "running"   -> {"Running", "Degraded"}
                        [] l = "suspended" -> {"Stopped"}
                        [] l = "ended"     -> {"Completed", "Failed"}}

TypeOK ==
  /\ backend \in Backends
  /\ life \in [Jobs -> Life]
  /\ \A j \in Jobs : shown[j] \in Reports(backend, life[j]) \union {{}}
  /\ began \in SUBSET Jobs /\ killed \in SUBSET Jobs
  /\ token \in BOOLEAN
  /\ pc \in Query \union Crash \union {"while", "done"}
  /\ todo \in SUBSET Jobs
  /\ running \in BOOLEAN
  /\ retry_count \in 0 .. retry_threshold - 1 /\ silence \in 0 .. retry_threshold
  /\ released \in SUBSET Jobs /\ handled \in SUBSET Jobs

-----------------------------------------------------------------------------
(* The polls of the four systems, on what the back end reports.            *)
slurm_running(r) == "RUNNING" \in r

Mutant_slurm_completed(r) ==
  r \intersect {"COMPLETED", "FAILED", "CANCELLED", "TIMEOUT", "CANCELLED+"} # {}

Mutant_slurm_completedNoTimeout(r) ==
  /\ "RUNNING" \notin r
  /\ r \intersect {"COMPLETED", "FAILED", "CANCELLED", "CANCELLED+"} # {}

slurm_completed(r) ==
  /\ "RUNNING" \notin r
  /\ r \intersect {"COMPLETED", "FAILED", "CANCELLED", "TIMEOUT", "CANCELLED+"} # {}

lsf_running(r) == r = {"RUN"}
lsf_completed(r) == r \in {{"DONE"}, {"EXIT"}}

standalone_running(r) == r # {}
standalone_completed(r) == ~standalone_running(r)

runai_running(r) == r = {"Running"}
runai_completed(r) == r = {"Completed"}

is_job_running(r) ==
  \/ backend = "slurm" /\ slurm_running(r)
  \/ backend = "lsf" /\ lsf_running(r)
  \/ backend = "standalone" /\ standalone_running(r)
  \/ backend = "runai" /\ runai_running(r)

is_job_completed(r) ==
  \/ backend = "slurm" /\ slurm_completed(r)
  \/ backend = "lsf" /\ lsf_completed(r)
  \/ backend = "standalone" /\ standalone_completed(r)
  \/ backend = "runai" /\ runai_completed(r)

(* What a query can be answered: bjobs and ps that fail print nothing, and *)
(* their errors are not looked at; the RunAI service answers only with a   *)
(* valid token and about trainings that exist.                             *)
answers(j) ==
  CASE backend = "runai" -> {r \in {shown[j]} : token /\ r # {}}
    [] backend = "lsf" /\ "error" \in Faults -> {shown[j], {}}
    [] OTHER -> {shown[j]}

(* The job the loop at pc visits, in the order of submission.              *)
Visited == IF todo = {} THEN None ELSE CHOOSE j \in todo : \A k \in todo : j <= k

-----------------------------------------------------------------------------
Init ==
  /\ backend \in Backends
  /\ life = [j \in Jobs |-> IF backend = "standalone" THEN "running" ELSE "waiting"]
  /\ shown = [j \in Jobs |-> CASE backend = "slurm" -> {"PENDING"}
                               [] backend = "lsf" -> {"PEND"}
                               [] backend = "standalone" -> {"pid"}
                               [] backend = "runai" -> {"Pending"}]
  /\ began = IF backend = "standalone" THEN Jobs ELSE {}
  /\ killed = {} /\ token = TRUE
  /\ pc = "while" /\ todo = {} /\ running = FALSE
  /\ retry_count = 0 /\ silence = 0
  /\ released = {} /\ handled = {}

(* "while self.jobs" of run(), then check_start_post_init_dependencies.    *)
While ==
  /\ pc = "while"
  /\ \/ handled = Jobs /\ pc' = "done" /\ UNCHANGED todo
     \/ handled # Jobs /\ pc' = "is_job_running" /\ todo' = Jobs \ handled
  /\ UNCHANGED <<backend, sched, running, retry_count, silence, released, handled>>

(* A query got its answer: the retries of the next one start anew.         *)
Answered == retry_count' = 0 /\ silence' = 0

Mutant_IsRunning ==
  /\ pc = "is_job_running" /\ todo # {}
  /\ \E r \in answers(Visited) : running' = is_job_running(r)
  /\ silence' = 0 /\ pc' = "is_job_completed"
  /\ UNCHANGED <<backend, sched, todo, retry_count, released, handled>>

IsRunning ==
  /\ pc = "is_job_running" /\ todo # {}
  /\ \E r \in answers(Visited) : running' = is_job_running(r)
  /\ Answered /\ pc' = "is_job_completed"
  /\ UNCHANGED <<backend, sched, todo, released, handled>>

(* Both answers are in: dependents are released if either says yes.        *)
IsCompleted ==
  /\ pc = "is_job_completed"
  /\ \E r \in answers(Visited) :
       released' = IF running \/ is_job_completed(r) THEN released \union {Visited}
                                                    ELSE released
  /\ todo' = todo \ {Visited}
  /\ Answered /\ pc' = "is_job_running" /\ running' = FALSE
  /\ UNCHANGED <<backend, sched, handled>>

CheckEnds ==
  /\ pc = "is_job_running" /\ todo = {}
  /\ pc' = "monitor" /\ todo' = Jobs \ handled
  /\ UNCHANGED <<backend, sched, running, retry_count, silence, released, handled>>

(* A turn of monitor_jobs. A completed job is handled: on Slurm and RunAI  *)
(* on_job_completion asks the back end once more.                          *)
Monitor ==
  /\ pc = "monitor" /\ todo # {}
  /\ \E r \in answers(Visited) :
       \/ ~is_job_completed(r) /\ todo' = todo \ {Visited} /\ UNCHANGED <<pc, handled>>
       \/ /\ is_job_completed(r) /\ backend \in {"slurm", "runai"}
          /\ pc' = "get_job_status" /\ UNCHANGED <<todo, handled>>
       \/ /\ is_job_completed(r) /\ backend \notin {"slurm", "runai"}
          /\ handled' = handled \union {Visited} /\ todo' = todo \ {Visited}
          /\ UNCHANGED pc
  /\ Answered
  /\ UNCHANGED <<backend, sched, running, released>>

MonitorEnds ==
  /\ pc = "monitor" /\ todo = {}
  /\ pc' = "while"
  /\ UNCHANGED <<backend, sched, todo, running, retry_count, silence, released, handled>>

CompletionHandled ==
  /\ pc = "get_job_status" /\ answers(Visited) # {}
  /\ handled' = handled \union {Visited}
  /\ todo' = todo \ {Visited} /\ pc' = "monitor"
  /\ Answered
  /\ UNCHANGED <<backend, sched, running, released>>

(* SlurmRunner.on_job_completion: store_job_metadata with get_job_status.  *)
StoreJobMetadata == backend = "slurm" /\ CompletionHandled

(* RunAIRunner.on_job_completion: the events and logs of the training.     *)
StoreLogs == backend = "runai" /\ CompletionHandled

(* sacct reports a timeout: the query is tried again. At the threshold the *)
(* polls raise; get_job_status returns [], of which _get_job_metadata      *)
(* takes the first element.                                                *)
TimesOut ==
  /\ "timeout" \in Faults /\ backend = "slurm"
  /\ pc \in Query /\ todo # {}
  /\ silence' = silence + 1
  /\ IF retry_count + 1 < retry_threshold
       THEN retry_count' = retry_count + 1 /\ UNCHANGED pc
       ELSE /\ pc' = IF pc = "get_job_status" THEN "IndexError" ELSE "RuntimeError"
            /\ UNCHANGED retry_count
  /\ UNCHANGED <<backend, sched, todo, running, released, handled>>

(* Any other error leaves run() at once.                                   *)
QueryFails ==
  /\ pc \in Query /\ todo # {}
  /\ \/ "error" \in Faults /\ backend = "slurm" /\ pc' = "RuntimeError"
     \/ "error" \in Faults /\ backend = "runai" /\ pc' = "HTTPError"
     \/ backend = "runai" /\ (~token \/ shown[Visited] = {}) /\ pc' = "HTTPError"
  /\ UNCHANGED <<backend, sched, todo, running, retry_count, silence, released, handled>>

Signalled == "signal" \in Faults /\ pc \in Query \union {"while"} /\ killed = {}

(* cancel_on_signal: shutdown() kills the jobs in turn with scancel, bkill *)
(* or kill -9.                                                             *)
CancelOnSignal ==
  /\ Signalled /\ backend # "runai"
  /\ killed' = Jobs \ handled
  /\ UNCHANGED <<backend, life, shown, began, token, loop>>

(* RunAISystem.kill looks for a status_code in what delete_training        *)
(* returns, the body of the response: the AttributeError leaves shutdown() *)
(* after the first job. A request that is refused leaves it, too.          *)
RunAIKill ==
  /\ Signalled /\ backend = "runai"
  /\ \E j \in Jobs \ handled :
       /\ \A k \in Jobs \ handled : j <= k
       /\ \/ /\ answers(j) # {}
             /\ killed' = {j} /\ shown' = [shown EXCEPT ![j] = {}]
             /\ pc' = "AttributeError"
          \/ /\ answers(j) = {}
             /\ pc' = "HTTPError" /\ UNCHANGED <<killed, shown>>
  /\ UNCHANGED <<backend, life, began, token, todo, running, retry_count,
                 silence, released, handled>>

-----------------------------------------------------------------------------
(* The back ends: external.                                                *)
Becomes(j, l) ==
  /\ life' = [life EXCEPT ![j] = l]
  /\ \E r \in Reports(backend, l) : shown' = [shown EXCEPT ![j] = r]
  /\ began' = IF l = "running" THEN began \union {j} ELSE began
  /\ UNCHANGED <<backend, killed, token, loop>>

JobStarts(j) == life[j] = "waiting" /\ j \notin killed /\ Becomes(j, "running")

JobEnds(j) ==
  /\ \/ life[j] = "running"
     \/ life[j] \in {"waiting", "suspended"} /\ j \in killed
  /\ Becomes(j, "ended")
  /\ backend = "slurm" /\ life[j] = "waiting" => shown'[j] = {"CANCELLED+"}

JobReports(j) == life[j] = "running" /\ shown[j] # {} /\ Becomes(j, "running")

JobSuspended(j) ==
  /\ "suspend" \in Faults /\ backend # "standalone"
  /\ life[j] = "running" /\ shown[j] # {}
  /\ Becomes(j, "suspended")
  /\ backend = "slurm" => shown'[j] \ {"SUSPENDED"} = shown[j] \ {"RUNNING"}

JobResumed(j) == life[j] = "suspended" /\ shown[j] # {} /\ Becomes(j, "running")

JobRequeued(j) ==
  /\ "requeue" \in Faults /\ backend = "slurm" /\ life[j] = "running"
  /\ life' = [life EXCEPT ![j] = "waiting"]
  /\ shown' = [shown EXCEPT ![j] = {"PENDING"}]
  /\ UNCHANGED <<backend, began, killed, token, loop>>

(* The dead process is reaped, or the process that took over its pid ends; *)
(* bjobs forgets a job some time after its end; somebody deletes a training. *)
JobForgotten(j) ==
  /\ life[j] = "ended" /\ shown[j] # {}
  /\ \/ backend = "standalone"
     \/ "forget" \in Faults /\ backend \in {"lsf", "runai"}
  /\ shown' = [shown EXCEPT ![j] = {}]
  /\ UNCHANGED <<backend, life, began, killed, token, loop>>

(* The token is fetched once, when RunAIRestClient is made.                *)
TokenExpires ==
  /\ "token" \in Faults /\ backend = "runai" /\ token
  /\ token' = FALSE
  /\ UNCHANGED <<backend, life, shown, began, killed, loop>>

Poll == \/ While \/ IsRunning \/ IsCompleted \/ CheckEnds
        \/ Monitor \/ MonitorEnds \/ StoreJobMetadata \/ StoreLogs

Runner == Poll \/ TimesOut \/ QueryFails

Next ==
  \/ Runner \/ CancelOnSignal \/ RunAIKill \/ TokenExpires
  \/ \E j \in Jobs : \/ JobStarts(j) \/ JobEnds(j) \/ JobReports(j) \/ JobSuspended(j)
                     \/ JobResumed(j) \/ JobRequeued(j) \/ JobForgotten(j)

Spec == Init /\ [][Next]_vars

(* The runner's thread goes on; a pending job starts, a suspended one is   *)
(* resumed, and one that runs ends (time limits); a dead process is reaped *)
(* at the latest when the next command is started; and bjobs does not fail *)
(* every time it is asked about an ended job.                              *)
FairSpec ==
  /\ Spec /\ WF_vars(Runner)
  /\ \A j \in Jobs :
       /\ WF_vars(\/ JobStarts(j) \/ JobResumed(j)
                  \/ backend = "standalone" /\ JobForgotten(j))
       /\ SF_vars(JobEnds(j))
       /\ SF_vars(Monitor /\ Visited = j /\ handled' # handled)
-----------------------------------------------------------------------------
(* Correctness properties.                                                 *)

(* The completion of a job is decided only when the job is over, however   *)
(* its steps, suspensions, requeues and the failures of queries interleave *)
(* with the poll. (SlurmSystem.is_job_completed also takes a suspended job *)
(* for completed if one of its steps has ended.)                           *)
CompletionMeansOver ==
  [][ pc = "monitor" /\ todo # {} /\ (pc' = "get_job_status" \/ handled' # handled) =>
        \/ life[Visited] = "ended"
        \/ backend = "slurm" /\ life[Visited] = "suspended" ]_vars

(* Timeouts of sacct end run() only after three in a row, without an       *)
(* answer in between.                                                      *)
GivesUpOnlyAfterRetries ==
  [][ silence' > silence /\ pc' \notin Query => silence' = retry_threshold ]_vars

(* What the docstrings and tests of the polls name as the end of a job.    *)
EndReported(j) ==
  CASE backend = "slurm" ->
         shown[j] \intersect {"COMPLETED", "FAILED", "CANCELLED+", "TIMEOUT"} # {}
    [] backend = "lsf"        -> shown[j] # {}
    [] backend = "standalone" -> TRUE
    [] backend = "runai"      -> shown[j] = {"Completed"}

(* A job that ends in one of these ways is handled in the end, also when   *)
(* another job ends in a way no poll ever recognises, unless an error ends *)
(* run() or bjobs forgets the job before it is polled.                     *)
EndedJobsHandled ==
  \A j \in Jobs : life[j] = "ended" /\ EndReported(j) ~>
    j \in handled \/ pc \in Crash \/ (backend = "lsf" /\ shown[j] = {})

=============================================================================
