---------------------------- MODULE SystemProofs ----------------------------
(***************************************************************************)
(* Proofs about the two things the runner needs of a back end. SlurmNodes: *)
(* which nodes a job gets, for every set of nodes, test runs and requests  *)
(* and any number of submissions. JobPolling: when a job is taken for      *)
(* completed and when timeouts end run(), for every number of jobs, every  *)
(* choice of back ends and every set of faults.                            *)
(***************************************************************************)
EXTENDS SlurmNodes, JobPolling, TLAPS, WellFoundedInduction

-----------------------------------------------------------------------------
(* SlurmNodes.                                                             *)

(* Whatever get_nodes_by_spec answers is a non-empty set of nodes of the   *)
(* group that are not excluded, of the size that was asked for.            *)
LEMMA AnswerFacts ==
  ASSUME NEW r \in Request, NEW S \in get_nodes_by_spec(r)
  PROVE  /\ S \subseteq r.group \ r.exclude
         /\ S \subseteq Nodes /\ S # {}
         /\ r.kind = "number" => Cardinality(S) = r.num
  <1>1. r.group \subseteq Nodes /\ r.kind \in {"number", "max_avail", "names"}
    BY DEF Request
  <1>2. S # {}
    BY DEF get_nodes_by_spec
  <1>3. CASE r.kind = "names"
    BY <1>1, <1>2, <1>3 DEF get_nodes_by_spec
  <1>4. CASE r.kind = "max_avail"
    <2>1. S \in allocate_max_avail(r)
      BY <1>4 DEF get_nodes_by_spec
    <2>2. S \subseteq r.group \ r.exclude
      BY <2>1 DEF allocate_max_avail, group_nodes_by_state
    <2> QED
      BY <1>1, <1>2, <1>4, <2>2
  <1>5. CASE r.kind = "number"
    <2>1. S \in allocate_number(r)
      BY <1>5 DEF get_nodes_by_spec
    <2>2. S \subseteq r.group \ r.exclude /\ Cardinality(S) = r.num
      BY <2>1 DEF allocate_number
    <2> QED
      BY <1>1, <1>2, <2>2
  <1> QED
    BY <1>1, <1>3, <1>4, <1>5

(* The type invariant holds at first and is kept by every step.            *)
LEMMA NodesInitType == NodesInit => NodesTypeOK
  BY RequestsAssumption, StatesAssumption DEF NodesInit, NodesTypeOK, Place, Idle, JobState

(* Every step of the runner and of the cluster keeps the type invariant.   *)
LEMMA NodesNextType == NodesTypeOK /\ [NodesNext]_nodes_vars => NodesTypeOK'
  <1> SUFFICES ASSUME NodesTypeOK, [NodesNext]_nodes_vars PROVE NodesTypeOK'
    OBVIOUS
  <1> USE DEF NodesTypeOK
  <1>1. ASSUME NEW t \in Tests, OnJobSubmit(t) PROVE NodesTypeOK'
    <2>1. PICK S \in get_nodes_by_spec(request[t]) :
            group_allocated' = group_allocated \union Booked(request[t], S)
      BY <1>1 DEF OnJobSubmit
    <2>2. group_allocated' \subseteq Nodes
      BY <2>1, AnswerFacts DEF Booked
    <2>3. at' \in Place
      BY <1>1 DEF OnJobSubmit, Place, Doing
    <2> QED
      BY <1>1, <2>2, <2>3 DEF OnJobSubmit
  <1>2. ASSUME NEW t \in Tests, SubmitTest(t) PROVE NodesTypeOK'
    <2>1. PICK S \in get_nodes_by_spec(request[t]) :
            /\ group_allocated' = group_allocated \union Booked(request[t], S)
            /\ nodelist' = [nodelist EXCEPT ![t] = S]
      BY <1>2 DEF SubmitTest
    <2>2. S \subseteq Nodes /\ group_allocated' \subseteq Nodes
      BY <2>1, AnswerFacts DEF Booked
    <2>3. at' \in Place
      BY <1>2 DEF SubmitTest, Place, Idle
    <2>4. state' \in [Tests -> JobState] /\ submissions' \in [Tests -> Nat]
      BY <1>2 DEF SubmitTest, JobState
    <2>5. nodelist' \in [Tests -> SUBSET Nodes]
      BY <2>1, <2>2
    <2> QED
      BY <1>2, <2>2, <2>3, <2>4, <2>5 DEF SubmitTest
  <1>3. ASSUME NEW t \in Tests, CompleteJob(t) PROVE NodesTypeOK'
    <2>1. at' \in Place
      BY <1>3 DEF CompleteJob, Place, Doing
    <2> QED
      BY <1>3, <2>1 DEF CompleteJob
  <1>4. ASSUME NEW t \in Tests, StoreSrunCommand(t) PROVE NodesTypeOK'
    <2>1. PICK S \in get_nodes_by_spec(request[t]) :
            group_allocated' = group_allocated \union Booked(request[t], S)
      BY <1>4 DEF StoreSrunCommand
    <2>2. group_allocated' \subseteq Nodes
      BY <2>1, AnswerFacts DEF Booked
    <2>3. at' \in Place /\ state' \in [Tests -> JobState]
      BY <1>4 DEF StoreSrunCommand, Place, Idle, JobState
    <2> QED
      BY <1>4, <2>2, <2>3 DEF StoreSrunCommand
  <1>5. ASSUME NEW t \in Tests, NoNodes(t) PROVE NodesTypeOK'
    BY <1>5 DEF NoNodes, Place, Crashed
  <1>6. ASSUME NEW t \in Tests, JobTakesNodes(t) \/ JobLeavesNodes(t) \/ JobCancelled(t)
        PROVE  NodesTypeOK'
    BY <1>6 DEF JobTakesNodes, JobLeavesNodes, JobCancelled, JobState, NodeState
  <1>7. ASSUME NEW n \in Nodes, NodeFreed(n) \/ NodeDown(n) \/ NodeUp(n)
        PROVE  NodesTypeOK'
    BY <1>7 DEF NodeFreed, NodeDown, NodeUp, NodeState
  <1>8. CASE UNCHANGED nodes_vars
    BY <1>8 DEF nodes_vars
  <1> QED
    BY <1>1, <1>2, <1>3, <1>4, <1>5, <1>6, <1>7, <1>8 DEF NodesNext, NodesRunner, Cluster

(* The state of SlurmSystem and of the jobs always has its type.           *)
THEOREM NodesTypeCorrect == NodesSpec => []NodesTypeOK
  BY NodesInitType, NodesNextType, PTL DEF NodesSpec

(* Only SubmitTest gives a job its nodes, and it gives it what             *)
(* get_nodes_by_spec answers.                                              *)
LEMMA NextRequestHonoured ==
  NodesTypeOK /\ RequestHonoured /\ [NodesNext]_nodes_vars => RequestHonoured'
  <1> SUFFICES ASSUME NodesTypeOK, RequestHonoured, [NodesNext]_nodes_vars,
                      NEW u \in Tests, Unfinished(u)'
               PROVE  /\ (nodelist[u])' \subseteq Pool(u)' /\ (nodelist[u])' # {}
                      /\ (request[u].kind)' = "number" =>
                           Cardinality((nodelist[u])') = (request[u].num)'
    BY DEF RequestHonoured
  <1> USE DEF NodesTypeOK
  <1>0. request' = request /\ request[u] \in Request
    BY DEF NodesNext, NodesRunner, Cluster, OnJobSubmit, SubmitTest, CompleteJob, StoreSrunCommand,
           NoNodes, JobTakesNodes, JobLeavesNodes, JobCancelled, NodeFreed, NodeDown, NodeUp, nodes_vars
  <1>1. CASE SubmitTest(u)
    <2>1. PICK S \in get_nodes_by_spec(request[u]) :
            nodelist' = [nodelist EXCEPT ![u] = S]
      BY <1>1 DEF SubmitTest
    <2>2. (nodelist[u])' = S
      BY <2>1
    <2> QED
      BY <1>0, <2>2, AnswerFacts DEF Pool
  <1>2. CASE ~SubmitTest(u)
    <2>1. nodelist'[u] = nodelist[u]
      BY <1>2 DEF NodesNext, NodesRunner, Cluster, OnJobSubmit, SubmitTest, CompleteJob,
           StoreSrunCommand, NoNodes, JobTakesNodes, JobLeavesNodes, JobCancelled,
           NodeFreed, NodeDown, NodeUp, nodes_vars
    <2>2. Unfinished(u)
      BY <1>2 DEF Unfinished, NodesNext, NodesRunner, Cluster, OnJobSubmit, SubmitTest, CompleteJob,
           StoreSrunCommand, NoNodes, JobTakesNodes, JobLeavesNodes, JobCancelled,
           NodeFreed, NodeDown, NodeUp, nodes_vars
    <2> QED
      BY <1>0, <2>1, <2>2 DEF RequestHonoured, Pool
  <1> QED
    BY <1>1, <1>2

(* A job on the scheduler always has the nodes its test run asked for.     *)
THEOREM RequestsHonoured == NodesSpec => []RequestHonoured
  <1>1. NodesInit => RequestHonoured
    BY DEF NodesInit, RequestHonoured, Unfinished
  <1> QED
    BY <1>1, NodesTypeCorrect, NextRequestHonoured, PTL DEF NodesSpec

(* A booking disappears only when a job that ran on the node is completed. *)
THEOREM UnlockedByCompletion == NodesSpec => OnlyCompletionUnlocks
  <1>1. ASSUME NodesTypeOK, NodesNext, NEW n \in group_allocated \ group_allocated'
        PROVE  \E t \in Tests : state[t] = "ENDED" /\ n \in nodelist[t]
    BY <1>1 DEF NodesNext, NodesRunner, Cluster, OnJobSubmit, SubmitTest, CompleteJob,
           StoreSrunCommand, NoNodes, JobTakesNodes, JobLeavesNodes, JobCancelled,
           NodeFreed, NodeDown, NodeUp
  <1>2. NodesTypeOK /\ [NodesNext]_nodes_vars =>
          [\A n \in group_allocated \ group_allocated' :
             \E t \in Tests : state[t] = "ENDED" /\ n \in nodelist[t]]_nodes_vars
    BY <1>1
  <1> QED
    BY <1>2, NodesTypeCorrect, PTL DEF NodesSpec, OnlyCompletionUnlocks

(* The cluster keeps running jobs apart, whatever lists the runner asks for. *)
LEMMA NextRunningAlone ==
  NodesTypeOK /\ RunningAlone /\ [NodesNext]_nodes_vars => RunningAlone'
  <1> SUFFICES ASSUME NodesTypeOK, RunningAlone, [NodesNext]_nodes_vars PROVE RunningAlone'
    OBVIOUS
  <1> USE DEF NodesTypeOK, RunningAlone
  <1>1. ASSUME NEW t \in Tests, JobTakesNodes(t) PROVE RunningAlone'
    BY <1>1 DEF JobTakesNodes
  <1>2. ASSUME NEW t \in Tests, JobLeavesNodes(t) PROVE RunningAlone'
    BY <1>2 DEF JobLeavesNodes
  <1>3. ASSUME NEW n \in Nodes, NodeFreed(n) \/ NodeDown(n) \/ NodeUp(n)
        PROVE  RunningAlone'
    BY <1>3 DEF NodeFreed, NodeDown, NodeUp
  <1>4. ASSUME NEW t \in Tests, SubmitTest(t) PROVE RunningAlone'
    BY <1>4 DEF SubmitTest
  <1>5. ASSUME NEW t \in Tests,
               OnJobSubmit(t) \/ CompleteJob(t) \/ StoreSrunCommand(t) \/ NoNodes(t)
                 \/ JobCancelled(t)
        PROVE  RunningAlone'
    BY <1>5 DEF OnJobSubmit, CompleteJob, StoreSrunCommand, NoNodes, JobCancelled
  <1>6. CASE UNCHANGED nodes_vars
    BY <1>6 DEF nodes_vars
  <1> QED
    BY <1>1, <1>2, <1>3, <1>4, <1>5, <1>6 DEF NodesNext, NodesRunner, Cluster

(* A node of a running job is never out of service.                        *)
LEMMA RunningAlways == NodesSpec => []RunningAlone
  <1>1. NodesInit => RunningAlone
    BY DEF NodesInit, RunningAlone
  <1> QED
    BY <1>1, NodesTypeCorrect, NextRunningAlone, PTL DEF NodesSpec

(* A job is given a node that is out of service only if it is booked.      *)
THEOREM DownNodesOnlyIfBooked == NodesSpec => DownOnlyIfBooked
  <1>1. ASSUME NodesTypeOK, RunningAlone, [NodesNext]_nodes_vars, NEW t \in Tests, Submits(t),
               request[t].kind = "number",
               NEW n \in nodelist'[t], node[n] = "DOWN"
        PROVE  n \in group_allocated
    <2>1. SubmitTest(t)
      BY <1>1 DEF Submits, NodesNext, NodesRunner, Cluster, OnJobSubmit,
           SubmitTest, CompleteJob, StoreSrunCommand, NoNodes, JobTakesNodes, JobLeavesNodes,
           JobCancelled, NodeFreed, NodeDown, NodeUp, nodes_vars, NodesTypeOK
    <2>2. n \in Nodes /\ \E i \in DOMAIN preference : update[n] = preference[i]
      <3>1. PICK S \in get_nodes_by_spec(request[t]) :
              nodelist' = [nodelist EXCEPT ![t] = S]
        BY <2>1 DEF SubmitTest
      <3>2. n \in S
        BY <1>1, <3>1 DEF NodesTypeOK
      <3>3. S \in allocate_number(request[t])
        BY <1>1 DEF get_nodes_by_spec
      <3>4. PICK i \in DOMAIN preference :
              n \in group_nodes_by_state(request[t], preference[i])
        BY <3>2, <3>3 DEF allocate_number
      <3>5. request[t] \in Request
        BY <1>1 DEF NodesTypeOK
      <3> QED
        BY <3>2, <3>4, <3>5, AnswerFacts DEF group_nodes_by_state
    <2>3. update[n] # "DOWN"
      <3>1. preference \in [1 .. 4 -> {"IDLE", "COMPLETING", "ALLOCATED", "RESERVED"}]
        BY DEF preference
      <3> QED
        BY <2>2, <3>1
    <2> QED
      BY <1>1, <2>2, <2>3 DEF update, RunningAlone
  <1>2. NodesTypeOK /\ RunningAlone /\ [NodesNext]_nodes_vars =>
          [\A t \in Tests :
             Submits(t) /\ request[t].kind = "number" =>
               \A n \in nodelist'[t] : node[n] = "DOWN" => n \in group_allocated]_nodes_vars
    BY <1>1
  <1> QED
    BY <1>2, NodesTypeCorrect, RunningAlways, PTL DEF NodesSpec, DownOnlyIfBooked

-----------------------------------------------------------------------------
(* JobPolling.                                                             *)

(* The loop, and the counters of the query under way: they differ only     *)
(* once the last retry has failed.                                         *)
Loop ==
  /\ pc \in {"is_job_completed", "get_job_status"} => todo # {}
  /\ pc \notin Crash => silence = retry_count

(* What the words of a back end say of a job. A job that waits on Slurm    *)
(* has no steps yet, or lost them when it was requeued; an empty answer    *)
(* is about a job that is over, but for a training that was deleted.       *)
Words ==
  \A j \in Jobs :
    /\ backend = "slurm" /\ life[j] = "waiting" => shown[j] = {"PENDING"}
    /\ shown[j] = {} => life[j] = "ended" \/ backend = "runai"

Types == TypeOK /\ DOMAIN shown = Jobs

IInv == Types /\ Loop /\ Words

(* A non-empty set of jobs has a first one.                                *)
Less == {ss \in Nat \X Nat : ss[1] < ss[2]}

LEMMA VisitedIn ==
  ASSUME Types, todo # {}
  PROVE  Visited \in todo /\ Visited \in Jobs
  <1>1. IsWellFoundedOn(Less, Nat)
    BY NatLessThanWellFounded DEF OpToRel, Less
  <1>2. todo \subseteq Nat /\ todo \subseteq Jobs
    BY NumJobsAssumption DEF Jobs, Types, TypeOK
  <1>3. PICK j \in todo : \A k \in todo : <<k, j>> \notin Less
    BY <1>1, <1>2, WFMin
  <1>4. \A k \in todo : j <= k
    <2>1. TAKE k \in todo
    <2>2. j \in Nat /\ k \in Nat /\ <<k, j>> \notin Less
      BY <1>2, <1>3
    <2> QED
      BY <2>2 DEF Less
  <1> QED
    BY <1>2, <1>4 DEF Visited

(* What the reports of a back end are made of.                             *)
LEMMA SlurmWords ==
  ASSUME NEW l \in Life, NEW r \in Reports("slurm", l)
  PROVE  /\ r # {}
         /\ l = "running" => "RUNNING" \in r
  BY DEF Reports, Life

LEMMA LsfWords ==
  ASSUME NEW l \in Life, NEW r \in Reports("lsf", l)
  PROVE  /\ r # {}
         /\ r \in {{"DONE"}, {"EXIT"}} => l = "ended"
  BY DEF Reports, Life

LEMMA StandaloneWords ==
  ASSUME NEW l \in Life, NEW r \in Reports("standalone", l)
  PROVE  r # {}
  BY DEF Reports

LEMMA RunaiWords ==
  ASSUME NEW l \in Life, NEW r \in Reports("runai", l)
  PROVE  /\ r # {}
         /\ r = {"Completed"} => l = "ended"
  BY DEF Reports, Life

LEMMA WordsFacts ==
  ASSUME NEW b \in {"slurm", "lsf", "standalone", "runai"}, NEW l \in Life, NEW r \in Reports(b, l)
  PROVE  r # {}
  BY SlurmWords, LsfWords, StandaloneWords, RunaiWords

(* What the back ends report of a job that waits.                          *)
LEMMA FirstWords ==
  /\ {"PENDING"} \in Reports("slurm", "waiting") /\ {"PEND"} \in Reports("lsf", "waiting")
  /\ {"pid"} \in Reports("standalone", "running") /\ {"Pending"} \in Reports("runai", "waiting")
  <1>1. {"PENDING"} \in Reports("slurm", "waiting")
    BY DEF Reports, Finished
  <1>2. {"PEND"} \in Reports("lsf", "waiting")
    BY DEF Reports
  <1>3. {"pid"} \in Reports("standalone", "running")
    BY DEF Reports
  <1>4. {"Pending"} \in Reports("runai", "waiting")
    BY DEF Reports
  <1> QED
    BY <1>1, <1>2, <1>3, <1>4

(* The initial states.                                                     *)
LEMMA InitIInv == Init => IInv
  <1> SUFFICES ASSUME Init PROVE IInv
    OBVIOUS
  <1>1. backend \in {"slurm", "lsf", "standalone", "runai"}
    BY BackendsAssumption DEF Init
  <1>2. \A j \in Jobs : shown[j] \in Reports(backend, life[j]) /\ life[j] \in Life /\ shown[j] # {}
    <2>1. TAKE j \in Jobs
    <2>2. CASE backend = "slurm"
      BY <2>2, FirstWords DEF Init, Life
    <2>3. CASE backend = "lsf"
      BY <2>3, FirstWords DEF Init, Life
    <2>4. CASE backend = "standalone"
      BY <2>4, FirstWords DEF Init, Life
    <2>5. CASE backend = "runai"
      BY <2>5, FirstWords DEF Init, Life
    <2> QED
      BY <1>1, <2>2, <2>3, <2>4, <2>5
  <1>3. Types
    <2>1. life \in [Jobs -> Life] /\ DOMAIN shown = Jobs
      BY <1>2 DEF Init
    <2>2. /\ backend \in Backends /\ began \in SUBSET Jobs /\ killed = {} /\ token \in BOOLEAN
          /\ pc = "while" /\ todo = {} /\ running \in BOOLEAN /\ retry_count = 0 /\ silence = 0
          /\ released = {} /\ handled = {}
      BY DEF Init
    <2> QED
      BY <1>2, <2>1, <2>2 DEF Types, TypeOK, Query, retry_threshold
  <1> QED
    BY <1>2, <1>3 DEF Init, IInv, Loop, Words, Query, Crash

(* The steps of the back ends keep the types and the words.                *)
LEMMA BecomesFacts ==
  ASSUME IInv, NEW j \in Jobs, NEW l \in Life, Becomes(j, l),
         life[j] # "ended", l # "waiting"
  PROVE  IInv'
  <1>1. backend \in {"slurm", "lsf", "standalone", "runai"} /\ backend' = backend
    BY BackendsAssumption DEF IInv, Types, TypeOK, Becomes
  <1>2. PICK r \in Reports(backend, l) : shown' = [shown EXCEPT ![j] = r]
    BY DEF Becomes
  <1>3. r # {}
    BY <1>1, <1>2, WordsFacts
  <1>4. life' = [life EXCEPT ![j] = l] /\ life' \in [Jobs -> Life]
    BY DEF Becomes, IInv, Types, TypeOK
  <1>5. shown'[j] = r /\ \A k \in Jobs \ {j} : shown'[k] = shown[k] /\ life'[k] = life[k]
    BY <1>2, <1>4 DEF IInv, Types, TypeOK
  <1>6. \A k \in Jobs : shown'[k] \in Reports(backend, life'[k]) \union {{}}
    <2>1. TAKE k \in Jobs
    <2>2. CASE k = j
      BY <1>2, <1>4, <1>5, <2>2 DEF IInv, Types, TypeOK
    <2>3. CASE k # j
      BY <1>5, <2>3 DEF IInv, Types, TypeOK
    <2> QED
      BY <2>2, <2>3
  <1>7. Types'
    BY <1>1, <1>2, <1>4, <1>6 DEF Becomes, loop, IInv, Types, TypeOK
  <1>8. Loop'
    BY DEF Becomes, loop, IInv, Loop
  <1>9. Words'
    BY <1>1, <1>3, <1>4, <1>5 DEF IInv, Types, TypeOK, Words
  <1> QED
    BY <1>7, <1>8, <1>9 DEF IInv

(* Every step keeps the invariant.                                         *)
LEMMA NextIInv == IInv /\ [Next]_vars => IInv'
  <1> SUFFICES ASSUME IInv, [Next]_vars PROVE IInv'
    OBVIOUS
  <1>1. todo # {} => Visited \in todo /\ Visited \in Jobs
    BY VisitedIn DEF IInv
  <1>2. ASSUME UNCHANGED <<backend, sched>>, Types', Loop' PROVE IInv'
    BY <1>2 DEF IInv, Words, sched
  <1> USE DEF Types, TypeOK, Loop, sched, retry_threshold, Query, Crash
  <1>3. CASE While \/ CheckEnds \/ MonitorEnds
    <2>1. UNCHANGED <<backend, sched>> /\ Types' /\ Loop'
      BY <1>3 DEF While, CheckEnds, MonitorEnds, IInv
    <2> QED
      BY <1>2, <2>1
  <1>4. CASE IsRunning
    <2>1. running' \in BOOLEAN
      BY <1>4 DEF IsRunning, is_job_running, slurm_running, lsf_running, standalone_running, runai_running
    <2>2. UNCHANGED <<backend, sched>> /\ Types' /\ Loop'
      BY <1>4, <2>1 DEF IsRunning, Answered, IInv
    <2> QED
      BY <1>2, <2>2
  <1>5. CASE IsCompleted
    <2>1. released' \in SUBSET Jobs
      BY <1>1, <1>5 DEF IsCompleted, IInv
    <2>2. /\ UNCHANGED <<backend, sched, handled>> /\ todo' \subseteq todo
          /\ pc' = "is_job_running" /\ running' \in BOOLEAN /\ retry_count' = 0 /\ silence' = 0
      BY <1>5 DEF IsCompleted, Answered
    <2>3. Types'
      BY <2>1, <2>2 DEF IInv
    <2>4. Loop'
      BY <2>2
    <2> QED
      BY <1>2, <2>2, <2>3, <2>4
  <1>6. CASE Monitor \/ StoreJobMetadata \/ StoreLogs
    <2>1. UNCHANGED <<backend, sched>> /\ Types' /\ Loop'
      BY <1>1, <1>6 DEF Monitor, StoreJobMetadata, StoreLogs, CompletionHandled, Answered, IInv
    <2> QED
      BY <1>2, <2>1
  <1>7. CASE TimesOut \/ QueryFails
    <2>1. UNCHANGED <<backend, sched>> /\ Types' /\ Loop'
      BY <1>7 DEF TimesOut, QueryFails, IInv
    <2> QED
      BY <1>2, <2>1
  <1>8. CASE CancelOnSignal \/ TokenExpires
    BY <1>8 DEF CancelOnSignal, TokenExpires, loop, IInv, Words
  <1>9. CASE RunAIKill
    <2>1. PICK j \in Jobs : UNCHANGED shown \/ shown' = [shown EXCEPT ![j] = {}]
      BY <1>9 DEF RunAIKill
    <2>2. \A k \in Jobs : shown'[k] \in {shown[k], {}}
      BY <2>1 DEF IInv
    <2> QED
      BY <1>9, <2>1, <2>2 DEF RunAIKill, IInv, Words
  <1>10. ASSUME NEW j \in Jobs, \/ JobStarts(j) \/ JobEnds(j) \/ JobReports(j)
                                \/ JobSuspended(j) \/ JobResumed(j)
         PROVE  IInv'
    <2>1. PICK l \in {"running", "suspended", "ended"} : Becomes(j, l) /\ life[j] # "ended"
      BY <1>10 DEF JobStarts, JobEnds, JobReports, JobSuspended, JobResumed
    <2> QED
      BY <2>1, BecomesFacts DEF Life
  <1>11. ASSUME NEW j \in Jobs, JobRequeued(j) PROVE IInv'
    <2>1. {"PENDING"} \in Reports("slurm", "waiting")
      BY DEF Reports, Finished
    <2>2. \A k \in Jobs \ {j} : shown'[k] = shown[k] /\ life'[k] = life[k]
      BY <1>11 DEF JobRequeued, IInv
    <2>3. shown'[j] = {"PENDING"} /\ life'[j] = "waiting" /\ life' \in [Jobs -> Life]
      BY <1>11 DEF JobRequeued, IInv, Life
    <2> QED
      BY <1>11, <2>1, <2>2, <2>3 DEF JobRequeued, loop, IInv, Words
  <1>12. ASSUME NEW j \in Jobs, JobForgotten(j) PROVE IInv'
    <2>1. \A k \in Jobs \ {j} : shown'[k] = shown[k]
      BY <1>12 DEF JobForgotten, IInv
    <2>2. shown'[j] = {} /\ life[j] = "ended"
      BY <1>12 DEF JobForgotten, IInv
    <2> QED
      BY <1>12, <2>1, <2>2 DEF JobForgotten, loop, IInv, Words
  <1>13. CASE UNCHANGED vars
    BY <1>13 DEF vars, loop, IInv, Words
  <1> QED
    BY <1>3, <1>4, <1>5, <1>6, <1>7, <1>8, <1>9, <1>10, <1>11, <1>12, <1>13
    DEF Next, Runner, Poll

LEMMA Invariance == Spec => []IInv
  BY InitIInv, NextIInv, PTL DEF Spec

(* The variables of JobPolling keep their types in every behaviour.        *)
THEOREM PollingTypeCorrect == Spec => []TypeOK
  <1>1. IInv => TypeOK
    BY DEF IInv, Types
  <1> QED
    BY <1>1, Invariance, PTL

(* Timeouts of sacct end run() only after retry_threshold of them in a     *)
(* row, whatever was asked before and whatever the answers were.           *)
THEOREM RetriesUsed == Spec => GivesUpOnlyAfterRetries
  <1>1. IInv /\ [Next]_vars =>
          [silence' > silence /\ pc' \notin Query => silence' = retry_threshold]_vars
    <2> SUFFICES ASSUME IInv, Next, silence' > silence, pc' \notin Query
                 PROVE  silence' = retry_threshold
      BY DEF vars
    <2>1. TimesOut
      BY DEF Next, Runner, Poll, While, IsRunning, IsCompleted, CheckEnds, Monitor, MonitorEnds,
         StoreJobMetadata, StoreLogs, CompletionHandled, Answered, QueryFails, CancelOnSignal,
         RunAIKill, TokenExpires, JobStarts, JobEnds, JobReports, JobSuspended, JobResumed,
         JobRequeued, JobForgotten, Becomes, loop, IInv, Types, TypeOK
    <2> QED
      BY <2>1 DEF TimesOut, IInv, Types, TypeOK, Loop, Query, Crash, retry_threshold
  <1> QED
    BY <1>1, Invariance, PTL DEF Spec, GivesUpOnlyAfterRetries

(* A job is taken for completed only when it is over, or suspended on      *)
(* Slurm, on every back end, however suspensions, requeues, forgotten jobs *)
(* and failing queries interleave with the poll.                           *)
THEOREM CompletionSound == Spec => CompletionMeansOver
  <1>1. IInv /\ [Next]_vars =>
          [ pc = "monitor" /\ todo # {} /\ (pc' = "get_job_status" \/ handled' # handled) =>
              \/ life[Visited] = "ended"
              \/ backend = "slurm" /\ life[Visited] = "suspended" ]_vars
    <2> SUFFICES ASSUME IInv, Next, pc = "monitor", todo # {},
                        pc' = "get_job_status" \/ handled' # handled
                 PROVE  \/ life[Visited] = "ended"
                        \/ backend = "slurm" /\ life[Visited] = "suspended"
      BY DEF vars
    <2>1. Monitor
      BY DEF Next, Runner, Poll, While, IsRunning, IsCompleted, CheckEnds, MonitorEnds,
         StoreJobMetadata, StoreLogs, CompletionHandled, TimesOut, QueryFails, CancelOnSignal,
         RunAIKill, TokenExpires, JobStarts, JobEnds, JobReports, JobSuspended, JobResumed,
         JobRequeued, JobForgotten, Becomes, loop
    <2>2. PICK r \in answers(Visited) : is_job_completed(r)
      BY <2>1 DEF Monitor
    <2>3. PICK j \in Jobs : j = Visited
      BY VisitedIn DEF IInv
    <2>4. /\ r = shown[j] \/ (backend = "lsf" /\ r = {})
          /\ backend = "runai" => r # {}
      BY <2>2, <2>3 DEF answers
    <2>5. life[j] \in Life /\ shown[j] \in Reports(backend, life[j]) \union {{}}
      BY DEF IInv, Types, TypeOK
    <2>6. CASE backend = "slurm"
      BY <2>2, <2>3, <2>4, <2>5, <2>6, SlurmWords
      DEF is_job_completed, slurm_completed, IInv, Words, Life
    <2>7. CASE backend = "lsf"
      BY <2>2, <2>3, <2>4, <2>5, <2>7, LsfWords DEF is_job_completed, lsf_completed
    <2>8. CASE backend = "standalone"
      BY <2>2, <2>3, <2>4, <2>5, <2>8, StandaloneWords
      DEF is_job_completed, standalone_completed, standalone_running, IInv, Words
    <2>9. CASE backend = "runai"
      BY <2>2, <2>3, <2>4, <2>5, <2>9, RunaiWords DEF is_job_completed, runai_completed
    <2> QED
      BY <2>6, <2>7, <2>8, <2>9, BackendsAssumption DEF IInv, Types, TypeOK
  <1> QED
    BY <1>1, Invariance, PTL DEF Spec, CompletionMeansOver

=============================================================================
