----------------------------- MODULE Scenarios -----------------------------
(***************************************************************************)
(* What the parser makes of a test scenario: the validators of             *)
(* TestScenarioModel and TestRunModel (models/scenario.py), and the test   *)
(* runs that TestScenarioParser builds (test_scenario_parser.py). TOML and *)
(* the merging of test definitions are abstracted.                         *)
(***************************************************************************)
EXTENDS Registry, Integers, FiniteSets, FiniteSetsExt

CONSTANTS
  KnownTests, \* names of the test definitions that were loaded
  Hooks       \* hook scenarios by name: sequences of [workload, check, limit]

HookTest == [workload : STRING, check : BOOLEAN, limit : Nat]

ASSUME HooksAssumption == DOMAIN Hooks \subseteq STRING /\ \A h \in DOMAIN Hooks : Hooks[h] \in Seq(HookTest)

DepType == {"start_post_comp", "start_post_init", "end_post_comp"}

(* What the comparison reports look at: the fields they group by,          *)
(* extra_env_vars (of which one, X, may be set) and the message sizes that *)
(* are measured.                                                           *)
Bench == [by : STRING, env : [{} -> STRING] \union [{"X"} -> STRING], sizes : Seq(Nat)]

(* TestRunModel. test: the definition it names, or "" when it is given in  *)
(* the scenario itself; limit: minutes, 0 when there is none; grid: the    *)
(* parameter sets of a DSE test, one truth value of the constraint check   *)
(* for each; sweep: what is swept, arguments or only the number of nodes.  *)
TestDoc == [id : STRING, test : STRING, deps : Seq([type : DepType, id : STRING]), workload : STRING,
            nodes : Nat, hosts : SUBSET STRING, exclude : SUBSET STRING, limit : Nat, iterations : Nat,
            grid : Seq(BOOLEAN), sweep : {"args", "nodes"}, bench : Bench]

(* TestScenarioModel; group_by: the comparison reports group by the fields *)
(* of their default.                                                       *)
Doc == [tests : Seq(TestDoc), pre : STRING, post : STRING, job_status_check : BOOLEAN, group_by : BOOLEAN]

HookRefs(d) == {d.pre, d.post} \ {""}

check_no_self_dependency(d) ==
  \A i \in DOMAIN d.tests : \A j \in DOMAIN d.tests[i].deps : d.tests[i].deps[j].id # d.tests[i].id

check_no_duplicate_ids(d) ==
  \A i, j \in DOMAIN d.tests : i # j => d.tests[i].id # d.tests[j].id

check_all_dependencies_are_known(d) ==
  \A i \in DOMAIN d.tests : \A j \in DOMAIN d.tests[i].deps :
     \E k \in DOMAIN d.tests : d.tests[k].id = d.tests[i].deps[j].id

hooks_known(d) == HookRefs(d) \subseteq DOMAIN Hooks

(* A missing definition raises MissingTestError, everything else that is   *)
(* wrong TestScenarioParsingError: no session takes place in either case.  *)
tests_known(d) == \A i \in DOMAIN d.tests : d.tests[i].test \in KnownTests \union {""}

(* load_test_definition, for tests in files of their own and in scenarios. *)
workloads_known(d) == \A i \in DOMAIN d.tests : d.tests[i].workload \in DOMAIN test_definitions_map

valid(d) ==
  /\ check_no_self_dependency(d) /\ check_no_duplicate_ids(d) /\ check_all_dependencies_are_known(d)
  /\ hooks_known(d) /\ tests_known(d) /\ workloads_known(d)

(* The limit of a test includes those of its hooks.                        *)
calculate_total_time_limit(d, limit) ==
  IF limit = 0 THEN 0
  ELSE limit + MapThenSumSet(LAMBDA h : FoldLeft(LAMBDA a, t : a + t.limit, 0, Hooks[h]), HookRefs(d))

(* One dependency of each type: of several the last one stays.             *)
dependencies(t) ==
  [ty \in {t.deps[j].type : j \in DOMAIN t.deps} |->
     t.deps[Max({j \in DOMAIN t.deps : t.deps[j].type = ty})].id]

(* _create_test_run.                                                       *)
create_test_run(d, t) ==
  [name |-> t.id, deps |-> dependencies(t), workload |-> t.workload, nodes |-> IF t.nodes = 0 THEN 1 ELSE t.nodes,
   hosts |-> t.hosts, exclude |-> t.exclude, limit |-> calculate_total_time_limit(d, t.limit), iterations |-> t.iterations,
   grid |-> t.grid, sweep |-> t.sweep, bench |-> t.bench, pre |-> d.pre, post |-> d.post]

(* test_runs_by_id: of two tests with one id the second takes the place of *)
(* the first.                                                              *)
test_runs_by_id(d) ==
  LET last(i) == Max({j \in DOMAIN d.tests : d.tests[j].id = d.tests[i].id})
      firsts  == SelectSeq([i \in DOMAIN d.tests |-> i],
                           LAMBDA i : \A j \in 1 .. i - 1 : d.tests[j].id # d.tests[i].id)
  IN  [k \in DOMAIN firsts |-> create_test_run(d, d.tests[last(firsts[k])])]

is_dse_job(tr) == tr.grid # <<>>

(* A sweep over the number of nodes alone is no DSE job in the eyes of the *)
(* test definition.                                                        *)
tdef_is_dse_job(tr) == is_dse_job(tr) /\ tr.sweep = "args"
=============================================================================
