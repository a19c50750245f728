---------------------------- MODULE ScenarioExec ----------------------------
(***************************************************************************)
(* What the runner of a scenario promises, without jobs, lists, maps and   *)
(* polls: which test runs are on the way, which have begun, which are done *)
(* with all their iterations, which were told to end, and how the run      *)
(* itself ends. BaseRunner implements it.                                  *)
(***************************************************************************)
EXTENDS Naturals

CONSTANTS
  Tests,      \* the test runs of a scenario
  None,       \* no test run
  Scenarios   \* the scenarios a run may be of: see BaseRunner.Scenario

VARIABLES
  scenario,   \* the scenario that is run; never changes
  status,     \* "running", "done", "failed" or "aborted"
  open,       \* test runs submitted whose completion was not yet noticed
  live,       \* test runs the cluster still has to do with
  begun,      \* test runs that have left the queue of the cluster
  stopped,    \* open test runs that were told to end
  ended,      \* those of them that a dependency told to end
  done,       \* test runs that are through with their iterations
  due,        \* a done test run whose end_post_comp dependents must now end
  failure,    \* a test run has failed and the run is to fail with it
  round       \* iterations of a test run that are behind it

tests == <<open, live, begun, stopped, ended, done, due, failure, round>>
vars == <<scenario, status, tests>>

Dependents(p, d) == {t \in Tests : scenario.dependencies[t][d] = p}

Init ==
  /\ scenario \in Scenarios
  /\ status = "running"
  /\ open = {} /\ live = {} /\ begun = {} /\ stopped = {} /\ ended = {}
  /\ done = {} /\ due = {} /\ failure = FALSE
  /\ round = [t \in Tests |-> 0]

(* A test run may start when it waits for nothing, when a test run it      *)
(* waits for is done or has begun, or when a next iteration of it is due.  *)
MayStart(t) ==
  LET p == scenario.dependencies[t]["start_post_comp"]
      q == scenario.dependencies[t]["start_post_init"]
  IN \/ p = None /\ q = None
     \/ p \in done
     \/ q \in begun
     \/ round[t] > 0

(* It never overlaps itself, and is started again after it is done only in *)
(* a scenario with start_post_init dependencies.                           *)
Start(t) ==
  /\ status = "running" /\ t \notin open
  /\ MayStart(t)
  /\ t \in done =>
       \E u \in Tests : scenario.dependencies[u]["start_post_init"] # None
  /\ open' = open \union {t}
  /\ \/ scenario.mode = "run" /\ live' = live \union {t} /\ UNCHANGED begun
     \/ scenario.mode = "dry-run" /\ begun' = begun \union {t} /\ UNCHANGED live
  /\ UNCHANGED <<scenario, status, stopped, ended, done, due, failure, round>>

Begin(t) ==
  /\ t \in live
  /\ begun' = begun \union {t}
  /\ UNCHANGED <<scenario, status, open, live, stopped, ended, done, due, failure, round>>

(* What has not begun ends only when it was told to.                       *)
End(t) ==
  /\ t \in live
  /\ t \in begun \union stopped
  /\ live' = live \ {t}
  /\ begun' = begun \union {t}
  /\ UNCHANGED <<scenario, status, open, stopped, ended, done, due, failure, round>>

(* The completion of t is noticed, at the earliest when the cluster is     *)
(* through with it and when the consequences of the previous completion    *)
(* are drawn. It has another iteration or is done.                         *)
Complete(t) ==
  /\ status = "running" /\ t \in open \ live
  /\ due = {} /\ ~failure
  /\ open' = open \ {t} /\ stopped' = stopped \ {t} /\ ended' = ended \ {t}
  /\ failure' \in {FALSE, scenario.job_status_check /\ scenario.mode = "run"}
  /\ \/ /\ t \notin ended /\ round[t] + 1 < scenario.iterations[t]
        /\ round' = IF scenario.dse THEN round ELSE [round EXCEPT ![t] = @ + 1]
        /\ UNCHANGED <<done, due>>
     \/ /\ t \in ended \/ round[t] + 1 >= scenario.iterations[t]
        /\ done' = done \union {t}
        /\ due' = IF ~scenario.dse /\ Dependents(t, "end_post_comp") # {}
                    THEN {t} ELSE {}
        /\ UNCHANGED round
  /\ UNCHANGED <<scenario, status, live, begun>>

EndDependents(p) ==
  /\ status = "running" /\ p \in due
  /\ due' = {}
  /\ stopped' = stopped \union (open \intersect Dependents(p, "end_post_comp"))
  /\ ended' = ended \union (open \intersect Dependents(p, "end_post_comp"))
  /\ UNCHANGED <<scenario, status, open, live, begun, done, failure, round>>

(* A shutdown tells everything that is open to end, but may miss the one   *)
(* test run that is being started.                                         *)
Shutdown ==
  /\ status = "running"
  /\ \E t \in open \union {None} : stopped' = stopped \union (open \ {t})
  /\ UNCHANGED <<scenario, status, open, live, begun, ended, done, due, failure, round>>

Finish ==
  /\ status = "running" /\ open = {} /\ due = {} /\ ~failure
  /\ status' = "done"
  /\ UNCHANGED <<scenario, tests>>

Fail ==
  /\ status = "running" /\ due = {} /\ failure
  /\ status' = "failed" /\ failure' = FALSE
  /\ stopped' = open
  /\ UNCHANGED <<scenario, open, live, begun, ended, done, due, round>>

(* A submission or a status query failed.                                  *)
Abort ==
  /\ status = "running"
  /\ status' = "aborted"
  /\ UNCHANGED <<scenario, tests>>

Next ==
  \/ \E t \in Tests : \/ Start(t) \/ Begin(t) \/ End(t)
                      \/ Complete(t) \/ EndDependents(t)
  \/ Shutdown \/ Finish \/ Fail \/ Abort

Spec == Init /\ [][Next]_vars

-----------------------------------------------------------------------------
(* What a user relies on.                                                  *)

(* The cluster has to do only with open test runs, and with none once the  *)
(* run is done; a run that failed has told all of them to end.             *)
NothingRunsOn ==
  /\ live \subseteq open
  /\ status = "done" => live = {}
  /\ status = "failed" => live \subseteq stopped

(* A test run that waits for another to complete, and for nothing else, is *)
(* never started before all iterations of the other are over.              *)
PriorsDone ==
  \A t \in Tests :
    LET p == scenario.dependencies[t]["start_post_comp"]
    IN /\ t \in open \union done \/ round[t] > 0
       /\ p # None /\ scenario.dependencies[t]["start_post_init"] = None
       => p \in done

(* A test run loses the iterations it has left only when the test run it   *)
(* is to end with is over.                                                 *)
EndedWithCause ==
  /\ ended \subseteq stopped /\ stopped \subseteq open /\ due \subseteq done
  /\ \A t \in ended : scenario.dependencies[t]["end_post_comp"] \in done
=============================================================================
