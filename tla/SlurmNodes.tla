----------------------------- MODULE SlurmNodes -----------------------------
(***************************************************************************)
(* How the Slurm back end chooses the nodes of a job. A test run names its *)
(* nodes, or asks for a number of nodes of a group ("partition:group:n"    *)
(* or "partition:group:max_avail"). SlurmSystem answers from sinfo and     *)
(* squeue, overlaid with group_allocated, the nodes it has handed out and  *)
(* not yet taken back. SlurmRunner resolves the same request three times   *)
(* in the life of one job, each time through a new SlurmCommandGenStrategy *)
(* with an empty cache: to store the test run, to write the sbatch script, *)
(* and to store the metadata of the completed job.                         *)
(*                                                                         *)
(* BaseRunner never has two jobs of a test run on the scheduler            *)
(* (BaseRunnerProofs!OneLiveJob), so a job is named by its test run. The   *)
(* runner is one thread; any order of submissions and completions is       *)
(* allowed here, which includes every order BaseRunner produces.           *)
(***************************************************************************)
EXTENDS Naturals, FiniteSets

CONSTANTS
  Nodes,      \* nodes of the partition
  Tests,      \* test runs of the scenario
  Requests,   \* the assignments of requests to test runs the model starts from
  InitialNodeStates,  \* states the nodes may be in when CloudAI starts
  Rounds,     \* bound: number of times each test run is submitted
  MaxDown     \* bound: number of nodes that may be out of service at once

(* TestRun.nodes, one specification per test run: a number of nodes of a   *)
(* group, the free nodes of a group or nodes by name; and exclude_nodes.   *)
Request == [kind : {"number", "max_avail", "names"}, num : Nat,
            group : SUBSET Nodes, exclude : SUBSET Nodes]

(* SlurmNodeState, as convert_state_to_enum reads it from sinfo; "DOWN"    *)
(* stands for every state from which no node is taken.                     *)
NodeState == {"IDLE", "COMPLETING", "ALLOCATED", "RESERVED", "DOWN"}

ASSUME NodesAssumption == IsFiniteSet(Nodes)
ASSUME RequestsAssumption == Requests \subseteq [Tests -> Request]

ASSUME RoundsAssumption == Rounds \in Nat
ASSUME StatesAssumption == InitialNodeStates \subseteq NodeState

VARIABLES
  request,          \* what each test run asks for; never changes
  at,               \* what the runner's thread is doing
  group_allocated,  \* SlurmSystem.group_allocated, by node name
  nodelist,         \* the #SBATCH --nodelist of the job of each test run
  state,            \* the job of each test run
  submissions,      \* times each test run was submitted
  node              \* what sinfo reports of each node

nodes_vars == <<request, at, group_allocated, nodelist, state, submissions, node>>

JobState == {"NONE", "PENDING", "RUNNING", "ENDED", "CANCELLED"}

(* "idle": between two calls; "crashed": an exception has left run().      *)
Place == [op : {"idle", "crashed"}] \union
         [op : {"_submit_test", "store_job_metadata"}, test : Tests]
Idle == [op |-> "idle"]
Crashed == [op |-> "crashed"]
Doing(o, t) == [op |-> o, test |-> t]

NodesTypeOK ==
  /\ request \in [Tests -> Request]
  /\ at \in Place
  /\ group_allocated \subseteq Nodes
  /\ nodelist \in [Tests -> SUBSET Nodes]
  /\ state \in [Tests -> JobState]
  /\ submissions \in [Tests -> Nat]
  /\ node \in [Nodes -> NodeState]

-----------------------------------------------------------------------------

(* SlurmSystem.update: sinfo, overlaid with the nodes of the jobs squeue   *)
(* shows running (a pending job has none), overlaid with group_allocated.  *)
update ==
  [n \in Nodes |->
     IF \/ n \in group_allocated
        \/ \E t \in Tests : state[t] = "RUNNING" /\ n \in nodelist[t]
       THEN "ALLOCATED" ELSE node[n]]

Mutant_preferenceFree == <<"IDLE", "COMPLETING", "RESERVED">>

(* The order of the keys of grouped_nodes.                                 *)
preference == <<"IDLE", "COMPLETING", "ALLOCATED", "RESERVED">>

(* group_nodes_by_state.                                                   *)
group_nodes_by_state(r, s) == {n \in r.group \ r.exclude : update[n] = s}

Mutant_allocate_number(r) ==
  LET Of(i) == group_nodes_by_state(r, preference[i]) IN
  {S \in SUBSET (r.group \ r.exclude) :
     /\ Cardinality(S) <= r.num
     /\ S \subseteq UNION {Of(i) : i \in DOMAIN preference}
     /\ \A i, k \in DOMAIN preference :
          i < k /\ S \intersect Of(k) # {} => Of(i) \subseteq S}

(* allocate_nodes for a number: n nodes, none of a state while one of a    *)
(* state before it is left. Which nodes of a state are taken depends on    *)
(* the order of a Python set of strings and is open.                       *)
allocate_number(r) ==
  LET Of(i) == group_nodes_by_state(r, preference[i]) IN
  {S \in SUBSET (r.group \ r.exclude) :
     /\ Cardinality(S) = r.num
     /\ S \subseteq UNION {Of(i) : i \in DOMAIN preference}
     /\ \A i, k \in DOMAIN preference :
          i < k /\ S \intersect Of(k) # {} => Of(i) \subseteq S}

(* allocate_nodes for max_avail: every free node.                          *)
allocate_max_avail(r) ==
  {UNION {group_nodes_by_state(r, s) : s \in {"IDLE", "COMPLETING", "RESERVED"}}}

(* get_nodes_by_spec: the possible node lists of a request. None means     *)
(* that the specification resolves to an empty list: ValueError.           *)
get_nodes_by_spec(r) ==
  (CASE r.kind = "names" -> {r.group \ r.exclude}
     [] r.kind = "max_avail" -> allocate_max_avail(r)
     [] r.kind = "number" -> allocate_number(r)) \ {{}}

(* The nodes group_allocated gains when a request is answered with S.      *)
Booked(r, S) == IF r.kind = "names" THEN {} ELSE S

-----------------------------------------------------------------------------
NodesInit ==
  /\ request \in Requests
  /\ at = Idle
  /\ group_allocated = {}
  /\ nodelist = [t \in Tests |-> {}]
  /\ state = [t \in Tests |-> "NONE"]
  /\ submissions = [t \in Tests |-> 0]
  /\ node \in [Nodes -> InitialNodeStates]

(* submit_test, first on_job_submit: store_test_run resolves the nodes to  *)
(* write the srun command next to the results.                             *)
OnJobSubmit(t) ==
  /\ at = Idle /\ state[t] = "NONE" /\ submissions[t] < Rounds
  /\ \E S \in get_nodes_by_spec(request[t]) :
       group_allocated' = group_allocated \union Booked(request[t], S)
  /\ at' = Doing("_submit_test", t)
  /\ UNCHANGED <<request, nodelist, state, submissions, node>>

(* submit_test, then _submit_test: gen_exec_command resolves them again    *)
(* for the sbatch script, and sbatch queues the job.                       *)
SubmitTest(t) ==
  /\ at = Doing("_submit_test", t)
  /\ \E S \in get_nodes_by_spec(request[t]) :
       /\ group_allocated' = group_allocated \union Booked(request[t], S)
       /\ nodelist' = [nodelist EXCEPT ![t] = S]
  /\ state' = [state EXCEPT ![t] = "PENDING"]
  /\ submissions' = [submissions EXCEPT ![t] = @ + 1]
  /\ at' = Idle
  /\ UNCHANGED <<request, node>>

Mutant_CompleteJobUnlocksAll(t) ==
  /\ at = Idle /\ state[t] \in {"ENDED", "CANCELLED"}
  /\ group_allocated' = {}
  /\ at' = Doing("store_job_metadata", t)
  /\ UNCHANGED <<request, nodelist, state, submissions, node>>

(* on_job_completion, first complete_job: the nodes sacct reports for the  *)
(* job are taken back, none if it was cancelled before it got any.         *)
CompleteJob(t) ==
  /\ at = Idle /\ state[t] \in {"ENDED", "CANCELLED"}
  /\ group_allocated' =
       group_allocated \ (IF state[t] = "ENDED" THEN nodelist[t] ELSE {})
  /\ at' = Doing("store_job_metadata", t)
  /\ UNCHANGED <<request, nodelist, state, submissions, node>>

(* on_job_completion, then store_job_metadata: the srun command is written *)
(* into slurm-job.toml, for which the nodes are resolved once more.        *)
StoreSrunCommand(t) ==
  /\ at = Doing("store_job_metadata", t)
  /\ \E S \in get_nodes_by_spec(request[t]) :
       group_allocated' = group_allocated \union Booked(request[t], S)
  /\ state' = [state EXCEPT ![t] = "NONE"]
  /\ at' = Idle
  /\ UNCHANGED <<request, nodelist, submissions, node>>

(* In each of the three, a request that resolves to nothing raises         *)
(* ValueError, which no handler on the way out of run() catches.           *)
NoNodes(t) ==
  /\ \/ at = Idle /\ state[t] = "NONE" /\ submissions[t] < Rounds
     \/ at \in {Doing("_submit_test", t), Doing("store_job_metadata", t)}
  /\ get_nodes_by_spec(request[t]) = {}
  /\ at' = Crashed
  /\ UNCHANGED <<request, group_allocated, nodelist, state, submissions, node>>

-----------------------------------------------------------------------------
(* The cluster: a job runs on exactly the nodes of its list, one job per   *)
(* node; nodes come back through COMPLETING; a node nobody runs on may be  *)
(* taken out of service and come back.                                     *)
JobTakesNodes(t) ==
  /\ state[t] = "PENDING"
  /\ \A n \in nodelist[t] : node[n] \in {"IDLE", "RESERVED"}
  /\ state' = [state EXCEPT ![t] = "RUNNING"]
  /\ node' = [n \in Nodes |-> IF n \in nodelist[t] THEN "ALLOCATED" ELSE node[n]]
  /\ UNCHANGED <<request, at, group_allocated, nodelist, submissions>>

JobLeavesNodes(t) ==
  /\ state[t] = "RUNNING"
  /\ state' = [state EXCEPT ![t] = "ENDED"]
  /\ node' = [n \in Nodes |-> IF n \in nodelist[t] THEN "COMPLETING" ELSE node[n]]
  /\ UNCHANGED <<request, at, group_allocated, nodelist, submissions>>

JobCancelled(t) ==
  /\ state[t] = "PENDING"
  /\ state' = [state EXCEPT ![t] = "CANCELLED"]
  /\ UNCHANGED <<request, at, group_allocated, nodelist, submissions, node>>

NodeFreed(n) ==
  /\ node[n] = "COMPLETING"
  /\ node' = [node EXCEPT ![n] = "IDLE"]
  /\ UNCHANGED <<request, at, group_allocated, nodelist, state, submissions>>

NodeDown(n) ==
  /\ node[n] = "IDLE"
  /\ Cardinality({m \in Nodes : node[m] = "DOWN"}) < MaxDown
  /\ node' = [node EXCEPT ![n] = "DOWN"]
  /\ UNCHANGED <<request, at, group_allocated, nodelist, state, submissions>>

NodeUp(n) ==
  /\ node[n] = "DOWN"
  /\ node' = [node EXCEPT ![n] = "IDLE"]
  /\ UNCHANGED <<request, at, group_allocated, nodelist, state, submissions>>

NodesRunner == \E t \in Tests : \/ OnJobSubmit(t) \/ SubmitTest(t) \/ NoNodes(t)
                                \/ CompleteJob(t) \/ StoreSrunCommand(t)

Cluster == \/ \E t \in Tests : JobTakesNodes(t) \/ JobLeavesNodes(t) \/ JobCancelled(t)
           \/ \E n \in Nodes : NodeFreed(n) \/ NodeDown(n) \/ NodeUp(n)

NodesNext == NodesRunner \/ Cluster

NodesSpec == NodesInit /\ [][NodesNext]_nodes_vars

(* The runner goes on while it has something to do; Slurm starts a job     *)
(* whose nodes are free again and again, ends every job and gives its      *)
(* nodes back; a node that was taken out of service comes back.            *)
FairNodesSpec ==
  /\ NodesSpec /\ WF_nodes_vars(NodesRunner)
  /\ \A t \in Tests : SF_nodes_vars(JobTakesNodes(t)) /\ WF_nodes_vars(JobLeavesNodes(t))
  /\ \A n \in Nodes : WF_nodes_vars(NodeFreed(n)) /\ WF_nodes_vars(NodeUp(n))
-----------------------------------------------------------------------------
(* Correctness properties.                                                 *)

Unfinished(t) == state[t] \in {"PENDING", "RUNNING"}
Pool(t)       == request[t].group \ request[t].exclude
Submits(t)    == state[t] # "PENDING" /\ state'[t] = "PENDING"

(* However often a request was resolved before, the job that is on the     *)
(* scheduler has nodes of its group that are not excluded, and as many as  *)
(* were asked for.                                                         *)
RequestHonoured ==
  \A t \in Tests : Unfinished(t) =>
    /\ nodelist[t] \subseteq Pool(t) /\ nodelist[t] # {}
    /\ request[t].kind = "number" => Cardinality(nodelist[t]) = request[t].num

(* A node that a job was given stays booked until a job that ran on that   *)
(* node is completed: no submission, no stored metadata and no completion  *)
(* of an unrelated or cancelled job gives it away.                         *)
OnlyCompletionUnlocks ==
  [][\A n \in group_allocated \ group_allocated' :
       \E t \in Tests : state[t] = "ENDED" /\ n \in nodelist[t]]_nodes_vars

(* A job is given a node that is out of service only if that node is still *)
(* booked, which hides what sinfo says of it.                              *)
DownOnlyIfBooked ==
  [][\A t \in Tests :
       Submits(t) /\ request[t].kind = "number" =>
         \A n \in nodelist'[t] : node[n] = "DOWN" => n \in group_allocated]_nodes_vars

(* What DownOnlyIfBooked rests on: squeue and sinfo agree on the nodes of  *)
(* the running jobs, and no two running jobs have a node in common.        *)
RunningAlone ==
  \A t \in Tests : state[t] = "RUNNING" =>
    /\ \A n \in nodelist[t] : node[n] = "ALLOCATED"
    /\ \A u \in Tests \ {t} :
         state[u] = "RUNNING" => nodelist[t] \intersect nodelist[u] = {}

(* Every request is for no more nodes than its group has in service.       *)
Modest == \A t \in Tests : /\ request[t].kind # "max_avail" /\ Pool(t) # {}
                           /\ request[t].num + MaxDown <= Cardinality(Pool(t))

(* Bookings that are never taken back do not starve anybody: every test    *)
(* run is submitted and completed as often as the scenario says, whatever  *)
(* nodes go down and come back meanwhile, and run() is left by a refusal   *)
(* only if some request was for more nodes than may be in service.         *)
EveryRequestServed ==
  <>[](\/ at = Crashed /\ ~Modest
       \/ \A t \in Tests : state[t] = "NONE" /\ submissions[t] = Rounds)

=============================================================================
