---------------------------- MODULE MCSlurmNodes ----------------------------
(***************************************************************************)
(* Instances of SlurmNodes for TLC.                                        *)
(***************************************************************************)
EXTENDS SlurmNodes, Sequences

CONSTANTS a, b, c, t1, t2

Number(n, G) == [kind |-> "number", num |-> n, group |-> G, exclude |-> {}]
MaxAvail(G)  == [kind |-> "max_avail", num |-> 0, group |-> G, exclude |-> {}]
Names(G)     == [kind |-> "names", num |-> 0, group |-> G, exclude |-> {}]
Without(r, X) == [r EXCEPT !.exclude = X]

(* Every mix of small requests against one group of three nodes; which of  *)
(* the two test runs makes which request does not matter.                  *)
Small == <<Number(1, Nodes), Without(Number(2, Nodes), {a}), MaxAvail(Nodes), Names({a})>>

Mixed ==
  {[t \in Tests |-> IF t = t1 THEN Small[p[1]] ELSE Small[p[2]]] :
     p \in {q \in (1 .. Len(Small)) \X (1 .. Len(Small)) : q[1] <= q[2]}}
=============================================================================
