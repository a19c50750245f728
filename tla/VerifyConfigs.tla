--------------------------- MODULE VerifyConfigs ---------------------------
(***************************************************************************)
(* "cloudai verify-configs" (cli/cli.py, cli/handlers.py): the TOML files  *)
(* of a directory are sorted by what they hold and checked, systems, tests *)
(* and scenarios, with the parsers that a run uses. The files under        *)
(* conf/hook are always checked too. What a file must look like to be      *)
(* valid by itself is abstracted to one truth value.                       *)
(***************************************************************************)
EXTENDS Naturals, FiniteSets, FiniteSetsExt

CONSTANTS
  Trees,      \* the trees of files to verify, each a set of files
  TestsDirs   \* values of --tests-dir; "" stands for none

(* A file: its directory and all directories it is under, the one that is  *)
(* verified being "conf"; whether it is under conf/hook, and there in a    *)
(* directory "test"; the names of the tests and hooks that it refers to.   *)
File == [dir : STRING, under : SUBSET STRING, hook : {"no", "hook", "hook_test"},
         type : {"system", "test", "scenario", "unknown"}, valid : BOOLEAN, name : STRING,
         tests : SUBSET STRING, hooks : SUBSET STRING]

VARIABLES tree, tests_dir, pc, files, nfailed, status

vars == <<tree, tests_dir, pc, files, nfailed, status>>

Types == {"system", "test", "scenario", "hook_test", "hook", "unknown"}

Init ==
  /\ tree \in Trees /\ tests_dir \in TestsDirs
  /\ pc = "expand" /\ files = [ty \in Types |-> {}] /\ nfailed = 0 /\ status = "none"

(* load_tomls_by_type. The directory has become an absolute path: only     *)
(* what is found under the relative conf/hook counts as a hook.            *)
load_tomls_by_type(absolute, relative) ==
  [ty \in Types |-> {f \in absolute : f.type = ty} \union {f \in relative : f.hook = ty}]

(* handle_verify_all_configs. An empty directory is an error.              *)
Expand ==
  /\ pc = "expand"
  /\ LET listed == {f \in tree : "conf" \in f.under} IN
     IF listed = {} THEN pc' = "exit" /\ nfailed' = 1 /\ UNCHANGED files
     ELSE /\ files' = load_tomls_by_type(listed, {f \in tree : f.hook # "no"})
          /\ pc' = "systems" /\ UNCHANGED nfailed
  /\ UNCHANGED <<tree, tests_dir, status>>

test_tomls == IF tests_dir = "" THEN files["test"] ELSE {f \in tree : f.dir = tests_dir}

valid_test(f) == f.type = "test" /\ f.valid
names(fs) == {f.name : f \in fs}

verify_system_configs ==
  /\ pc = "systems" /\ pc' = "tests"
  /\ nfailed' = nfailed + Cardinality({f \in files["system"] : ~f.valid})
  /\ UNCHANGED <<tree, tests_dir, files, status>>

verify_test_configs ==
  /\ pc = "tests" /\ pc' = "scenarios"
  /\ nfailed' = nfailed + Cardinality({f \in test_tomls : ~valid_test(f)})
  /\ UNCHANGED <<tree, tests_dir, files, status>>

(* parse_tests raises for a file that is not valid and for a second test   *)
(* of one name, parse_hooks for a hook that is not valid by itself or with *)
(* the tests of hooks.                                                     *)
parse_tests_raises(fs) == (\E f \in fs : ~valid_test(f)) \/ Cardinality(names(fs)) < Cardinality(fs)

parse_scenario_raises(f, tests, hooks) == ~f.valid \/ ~(f.tests \subseteq tests) \/ ~(f.hooks \subseteq hooks)

parse_hooks_raises == \E f \in files["hook"] : parse_scenario_raises(f, names(files["hook_test"]), {})

(* Tests and hooks are parsed again for every scenario: an error in them   *)
(* fails all scenarios.                                                    *)
verify_test_scenarios ==
  /\ pc = "scenarios" /\ pc' = "exit"
  /\ nfailed' = nfailed + Cardinality(files["unknown"]) +
       (IF parse_tests_raises(test_tomls) \/ parse_tests_raises(files["hook_test"]) \/ parse_hooks_raises
        THEN Cardinality(files["scenario"])
        ELSE Cardinality({f \in files["scenario"] :
                            parse_scenario_raises(f, names(test_tomls), names(files["hook"]))}))
  /\ UNCHANGED <<tree, tests_dir, files, status>>

(* The command drops the number that the handler returns.                  *)
verify_configs ==
  /\ pc = "exit" /\ pc' = "done"
  /\ status' = "success"
  /\ UNCHANGED <<tree, tests_dir, files, nfailed>>

Over == pc = "done" /\ UNCHANGED vars

Next == Expand \/ verify_system_configs \/ verify_test_configs \/ verify_test_scenarios \/ verify_configs \/ Over

Spec == Init /\ [][Next]_vars

-----------------------------------------------------------------------------
(* .github/workflows/ci.yml, above the command in a script that stops at   *)
(* the first error: "this checks that all TOMLs are valid". So a command   *)
(* that succeeds has found nothing wrong.                                  *)
SuccessMeansValid == pc = "done" /\ status = "success" => nfailed = 0
=============================================================================
