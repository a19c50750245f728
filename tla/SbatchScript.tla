---------------------------- MODULE SbatchScript ----------------------------
(***************************************************************************)
(* The batch scripts of a Slurm session: one per job (gen_exec_command of  *)
(* SlurmCommandGenStrategy), or one for all test runs of the scenario      *)
(* (SingleSbatchRunner). A script is a sequence of lines, each of them the *)
(* commands of one test run or hook test.                                  *)
(***************************************************************************)
EXTENDS Scenarios

CONSTANT TasksPerNode   \* ntasks_per_node of the system, 0 when it is not set

ASSUME TasksAssumption == TasksPerNode \in Nat

(* A test run with its place in the results: run is its index in the       *)
(* scenario, step 0 unless it is a trial of a DSE job.                     *)
Trial(i, it, k) == [run |-> i, iteration |-> it, step |-> k]

(* Line: role "pre" and "post" for the tests of hooks; gate: what is done  *)
(* when the pre-tests were not successful.                                 *)
Line(role, workload, check, trial) == [role |-> role, workload |-> workload, check |-> check, trial |-> trial]
Gate(otherwise) == [role |-> "gate", workload |-> otherwise, check |-> FALSE, trial |-> Trial(0, 0, 0)]

(* What a block of a workload does to the rest of the script: LLM serving  *)
(* leaves it when a server does not become healthy, NIXL EP always leaves  *)
(* it with its own exit code.                                              *)
LeavesScript(workload, ok) == workload = "NixlEP" \/ (workload \in {"sglang", "vllm"} /\ ~ok)

hook_lines(role, hook, trial) ==
  IF hook = "" THEN <<>>
  ELSE [j \in DOMAIN Hooks[hook] |-> Line(role, Hooks[hook][j].workload, Hooks[hook][j].check, trial)]

main_line(tr, trial) == <<Line("main", tr.workload, FALSE, trial)>>

nodes_of(trs, t) == IF t.step > 0 /\ trs[t.run].sweep = "nodes" THEN t.step ELSE trs[t.run].nodes

(* get_cached_nodes_spec: hosts that are named, without those excluded; an *)
(* error when none is left.                                                *)
hosts_of(tr) == tr.hosts \ tr.exclude
nodes_resolved(tr) == tr.hosts = {} \/ hosts_of(tr) # {}

(* _append_sbatch_directives: hosts take the place of the number of nodes, *)
(* and the host file has a line for every task.                            *)
directives(trs, t) ==
  LET hosts == hosts_of(trs[t.run]) IN
  [N |-> IF hosts = {} THEN nodes_of(trs, t) ELSE 0, nodelist |-> hosts,
   exclude |-> IF hosts = {} THEN trs[t.run].exclude ELSE {}, time |-> trs[t.run].limit,
   hostfile |-> [h \in hosts |-> Max({1, TasksPerNode})]]

(* gen_exec_command.                                                       *)
exec_script(tr, trial) ==
  hook_lines("pre", tr.pre, trial)
    \o (IF tr.pre = "" THEN <<>> ELSE <<Gate("skip")>>)
    \o main_line(tr, trial)
    \o hook_lines("post", tr.post, trial)

-----------------------------------------------------------------------------
(* SingleSbatchRunner.                                                     *)


(* Steps are numbered before what the constraint check refuses is left     *)
(* out.                                                                    *)
unroll_dse(trs, i) ==
  LET feasible == SelectSeq([k \in DOMAIN trs[i].grid |-> k], LAMBDA k : trs[i].grid[k])
  IN  [j \in DOMAIN feasible |-> Trial(i, 0, feasible[j])]

all_trs(trs) ==
  FlattenSeq([i \in DOMAIN trs |-> IF is_dse_job(trs[i]) THEN unroll_dse(trs, i) ELSE <<Trial(i, 0, 0)>>])

(* No limit, the sum of all, or an error when only some have one.          *)
limits(trs) == {trs[t.run].limit : t \in ToSet(all_trs(trs))}

time_limit_valid(trs) == limits(trs) = {0} \/ 0 \notin limits(trs)

build_time_limit(trs) == FoldLeft(LAMBDA a, t : a + trs[t.run].limit, 0, all_trs(trs))

(* extract_sbatch_nodes_spec: the most nodes any test run asks for, and    *)
(* all hosts that are asked for by name; the hosts must cover the number.  *)
Mutant_max_nodes(trs) == nodes_of(trs, Last(all_trs(trs)))

max_nodes(trs) == Max({1} \union {nodes_of(trs, t) : t \in ToSet(all_trs(trs))})

node_list(trs) == UNION {trs[t.run].hosts : t \in ToSet(all_trs(trs))}

nodes_valid(trs) == node_list(trs) = {} \/ max_nodes(trs) <= Cardinality(node_list(trs))

(* get_sbatch_directives: nodes that a test run excludes are not excluded. *)
sbatch_directives(trs) ==
  [N |-> IF node_list(trs) = {} THEN max_nodes(trs) ELSE 0, nodelist |-> node_list(trs),
   exclude |-> {}, time |-> build_time_limit(trs), hostfile |-> <<>>]

(* aux_commands takes the first of all_trs; it must exist.                 *)
sbatch_valid(trs) == all_trs(trs) # <<>> /\ time_limit_valid(trs) /\ nodes_valid(trs)

(* gen_sbatch_content: only the pre-tests of the first test run, and no    *)
(* post-tests.                                                             *)
sbatch_script(trs) ==
  hook_lines("pre", trs[1].pre, Trial(1, 0, 0))
    \o (IF trs[1].pre = "" THEN <<>> ELSE <<Gate("exit")>>)
    \o FlattenSeq([j \in DOMAIN all_trs(trs) |-> main_line(trs[all_trs(trs)[j].run], all_trs(trs)[j])])
=============================================================================
