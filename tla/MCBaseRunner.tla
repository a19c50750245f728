---------------------------- MODULE MCBaseRunner ----------------------------
(***************************************************************************)
(* Instances of BaseRunner for TLC: sets of scenarios.                     *)
(***************************************************************************)
EXTENDS BaseRunner, FiniteSets

Edge == Tests \X DepType \X Tests

(* The dependencies given by a set of edges, at most one per test run and  *)
(* type.                                                                   *)
DepsOf(E) ==
  [t \in Tests |-> [d \in DepType |->
     IF \E p \in Tests : <<t, d, p>> \in E
       THEN CHOOSE p \in Tests : <<t, d, p>> \in E
       ELSE None]]

MkScenario(E, its, check, m) ==
  [dependencies |-> DepsOf(E), iterations |-> its,
   job_status_check |-> check, mode |-> m, dse |-> FALSE]

EdgesOf(types) == {e \in Edge : e[1] # e[3] /\ e[2] \in types}

FirstTwice == [t \in Tests |-> IF t = 1 THEN 2 ELSE 1]

(* Up to two dependencies between the first two test runs, the first of    *)
(* which runs twice; every further test run starts after its predecessor.  *)
(* A job that fails while nobody checks is one that does not fail, so      *)
(* job_status_check matters in one scenario only.                          *)
Pair  == {e \in EdgesOf(DepType) : e[1] <= 2 /\ e[3] <= 2}
Chain == {<<t, "start_post_comp", t - 1>> : t \in Tests \ {1, 2}}

(* The scenario of a trial has one test run: the others never start.       *)
Circle == {<<2, "start_post_comp", 3>>, <<3, "start_post_comp", 2>>}

PairAndChain ==
  {MkScenario(E \union Chain, FirstTwice, TRUE, m) :
     E \in {X \in SUBSET Pair : Cardinality(X) <= 2}, m \in {"run", "dry-run"}}
  \union {MkScenario(Chain, FirstTwice, FALSE, "run")}
  \union {[MkScenario(Circle, FirstTwice, TRUE, "run") EXCEPT !.dse = TRUE]}

=============================================================================
