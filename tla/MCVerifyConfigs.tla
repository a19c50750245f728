-------------------------- MODULE MCVerifyConfigs --------------------------
(* A directory with a system, two tests in different directories, a        *)
(* scenario, a hook and its test; each of them may be wrong or missing.    *)
EXTENDS VerifyConfigs

F(dir, hook, type, name) ==
  [dir |-> dir, under |-> {"conf", dir}, hook |-> hook, type |-> type, valid |-> TRUE, name |-> name, tests |-> {}, hooks |-> {}]

Good == {
  F("system", "no", "system", "s"),
  F("test", "no", "test", "a"), F("other", "no", "test", "b"),
  [F("scenario", "no", "scenario", "z") EXCEPT !.tests = {"a"}, !.hooks = {"h"}],
  [F("hook", "hook", "scenario", "h") EXCEPT !.tests = {"c"}],
  F("hook/test", "hook_test", "test", "c")}

MCTrees == {Good \ {f} : f \in Good} \union {(Good \ {f}) \union {[f EXCEPT !.valid = FALSE]} : f \in Good} \union {Good}
=============================================================================
