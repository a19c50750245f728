------------------------------ MODULE MCDseGym ------------------------------
(***************************************************************************)
(* Instances of DseGym for TLC.                                            *)
(***************************************************************************)
EXTENDS DseGym

(* Two test runs: every grid of at most three parameter sets for the       *)
(* first, with repetitions, and one parameter set for the second.          *)
First == UNION {[1 .. n -> Actions] : n \in 0 .. 3}
SmallGrids == {<<g, <<1>>>> : g \in First}
=============================================================================
