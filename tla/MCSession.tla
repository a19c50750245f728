----------------------------- MODULE MCSession -----------------------------
(* Scenarios of one, two or three tests: kinds of workloads, hooks, limits,*)
(* hosts, iterations and grids; and some that the parser refuses.          *)
EXTENDS Session

MCHooks == ("nccl" :> <<[workload |-> "NcclTest", check |-> TRUE, limit |-> 1]>>)
           @@ ("sleep" :> <<[workload |-> "Sleep", check |-> FALSE, limit |-> 0]>>)

(* With the negative reward a failed trial without a metric outdoes all,   *)
(* one with a metric need not.                                             *)
MCOutcomes == {[ok |-> TRUE, metric |-> 1], [ok |-> TRUE, metric |-> 2],
               [ok |-> FALSE, metric |-> 0], [ok |-> FALSE, metric |-> 2]}

NoBench == [by |-> "", env |-> <<>>, sizes |-> <<>>]
B(by, env, sizes) == [by |-> by, env |-> [x \in env |-> by], sizes |-> sizes]

T(id, workload) == [id |-> id, test |-> "known", deps |-> <<>>, workload |-> workload, nodes |-> 1, hosts |-> {}, exclude |-> {},
                limit |-> 0, iterations |-> 1, grid |-> <<>>, sweep |-> "args", bench |-> NoBench]
Dep(type, id) == [type |-> type, id |-> id]
D(tests) == [tests |-> tests, pre |-> "", post |-> "", job_status_check |-> TRUE, group_by |-> TRUE]

Kinds == {"Sleep", "vllm", "NixlEP"}
Grids == UNION {[1 .. n -> BOOLEAN] : n \in 1 .. 3}

(* One DSE test.                                                           *)
Swept == {D(<<[T("a", k) EXCEPT !.grid = g, !.iterations = n, !.sweep = s]>>) :
            k \in {"Sleep"}, g \in Grids, n \in 1 .. 2, s \in {"args", "nodes"}}
(* Two DSE tests, with hooks.                                              *)
SweptTwice == {[D(<<[T("a", "Sleep") EXCEPT !.grid = g, !.iterations = 2],
                    [T("b", "NcclTest") EXCEPT !.grid = h]>>) EXCEPT !.pre = p, !.job_status_check = c] :
                 g \in {<<TRUE, TRUE>>, <<FALSE, TRUE>>}, h \in {<<TRUE>>, <<TRUE, FALSE, TRUE>>}, p \in {"", "nccl"}, c \in BOOLEAN}
(* Two tests of any kinds, with hooks.                                     *)
Hooked == {[D(<<T("a", k), T("b", l)>>) EXCEPT !.pre = p, !.post = q] :
             k \in Kinds, l \in Kinds, p \in {"", "nccl", "sleep"}, q \in {"", "nccl"}}
(* Limits, nodes and hosts.                                                *)
Sized == {[D(<<[T("a", "Sleep") EXCEPT !.limit = l, !.nodes = n, !.hosts = h, !.exclude = x],
               [T("b", "Sleep") EXCEPT !.limit = m, !.nodes = 2, !.iterations = 2]>>) EXCEPT !.pre = p] :
            l \in 0 .. 2, m \in 0 .. 1, n \in 1 .. 3, h \in {{}, {"x"}, {"x", "y"}}, p \in {"", "nccl"}, x \in {{}, {"x"}}}
(* What validation has to look at.                                         *)
Refused == {
  D(<<T("a", "Sleep"), T("a", "Sleep")>>),
  D(<<[T("a", "Sleep") EXCEPT !.deps = <<Dep("start_post_comp", "a")>>]>>),
  D(<<[T("a", "Sleep") EXCEPT !.deps = <<Dep("start_post_comp", "b")>>]>>),
  D(<<[T("a", "Sleep") EXCEPT !.test = "unknown"]>>),
  D(<<[T("a", "Sleep") EXCEPT !.hosts = {"x"}, !.exclude = {"x"}]>>),
  D(<<[T("a", "Sleep") EXCEPT !.hosts = {"x"}, !.exclude = {"x"}, !.grid = <<TRUE>>]>>),
  D(<<T("a", "Unknown")>>), D(<<T("a", "Aiconfigurator")>>), D(<<T("a", "Sleep"), T("b", "Aiconfigurator")>>),
  D(<<[T("a", "Aiconfigurator") EXCEPT !.grid = <<TRUE>>]>>),
  [D(<<T("a", "Sleep")>>) EXCEPT !.pre = "unknown"],
  D(<<T("a", "Sleep"), [T("b", "Sleep") EXCEPT !.grid = <<TRUE>>]>>),
  D(<<T("a", "Sleep"), T("b", "Sleep"),
      [T("c", "Sleep") EXCEPT !.deps = <<Dep("start_post_comp", "a"), Dep("start_post_comp", "b"), Dep("end_post_comp", "a")>>]>>),
  D(<<T("a", "Sleep"), [T("b", "Sleep") EXCEPT !.grid = <<TRUE>>, !.deps = <<Dep("start_post_comp", "a")>>]>>),
  D(<<[T("a", "Sleep") EXCEPT !.grid = <<TRUE, FALSE>>],
      [T("b", "Sleep") EXCEPT !.grid = <<TRUE>>, !.deps = <<Dep("start_post_comp", "a")>>]>>)}

(* Benchmarks to compare: two test runs, or the trials of one.             *)
Compared == {[D(<<[T("a", r) EXCEPT !.bench = B("p", e, <<1, 2>>)],
                  [T("b", r) EXCEPT !.bench = B(b, f, s), !.iterations = n]>>) EXCEPT !.group_by = g, !.job_status_check = FALSE] :
               r \in {"NcclTest", "NIXLBench", "OSUBench"}, b \in {"p", "q"}, e \in {{}, {"X"}}, f \in {{"X"}},
               s \in {<<1>>, <<1, 2>>, <<2>>}, g \in BOOLEAN, n \in 1 .. 2}
            \union {D(<<[T("a", "NcclTest") EXCEPT !.bench = B("p", {}, <<1, 2>>), !.grid = g, !.iterations = 2, !.sweep = s]>>) :
                      g \in [1 .. 2 -> BOOLEAN], s \in {"args", "nodes"}}

MCDocs == Swept \union SweptTwice \union Compared \union Hooked \union Sized \union Refused
=============================================================================
