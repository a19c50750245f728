----------------------------- MODULE Comparison -----------------------------
(***************************************************************************)
(* The reports that compare the test runs of one benchmark                 *)
(* (report_generator/comparison_report.py, groups.py, util.py and the      *)
(* reports of NCCL, NIXL bench and OSU bench). A measured value is         *)
(* abstracted to the message size it was measured at.                      *)
(***************************************************************************)
EXTENDS DseReport

Classes == {"NcclTest", "NIXLBench", "OSUBench"}

earlier(s, t) ==
  \/ s.run < t.run
  \/ s.run = t.run /\ s.iteration < t.iteration
  \/ s.run = t.run /\ s.iteration = t.iteration /\ s.step < t.step

(* load_test_runs of each class: the loaded test runs of its benchmark.    *)
class_runs(trs, out, class) ==
  LET all == UNION {loaded(out, i) : i \in {j \in DOMAIN trs : trs[j].workload = class}}
  IN  [k \in 1 .. Cardinality(all) |-> CHOOSE t \in all : Cardinality({s \in all : earlier(s, t)}) = k - 1]

(* The step whose arguments a loaded trial shows: that of the last dump    *)
(* read so far, its own if it has one; 0 while none has been read.         *)
step_read(out, t) ==
  Max({0} \union
      LET read == {d \in loaded(out, t.run) : out[d].dump /\ (d = t \/ earlier(d, t))}
      IN  {d.step : d \in {e \in read : \A f \in read : ~earlier(e, f)}})

(* What is still swept is a list, and cannot be compared: arguments when   *)
(* no dump has been read, the number of nodes always.                      *)
has_list(trs, out, t) ==
  is_dse_job(trs[t.run]) /\ (trs[t.run].sweep = "nodes" \/ step_read(out, t) = 0)

(* diff_test_runs indexes every test run by every key that one of them has.*)
diff_raises(trs, out, group) ==
  \E j \in DOMAIN group :
     \/ has_list(trs, out, group[j])
     \/ \E m \in DOMAIN group : DOMAIN trs[group[j].run].bench.env # DOMAIN trs[group[m].run].bench.env

(* groups: a test run joins the first group that agrees with it.           *)
groups(trs, runs, group_by) ==
  LET by(t)  == trs[t.run].bench.by
      firsts == SelectSeq([k \in DOMAIN runs |-> k], LAMBDA k : \A j \in 1 .. k - 1 : by(runs[j]) # by(runs[k]))
  IN  IF ~group_by THEN <<runs>>
      ELSE [g \in DOMAIN firsts |-> SelectSeq(runs, LAMBDA t : by(t) = by(runs[firsts[g]]))]

(* extract_data_as_df: a test that fails has measured all sizes but the    *)
(* last one. Without data only NIXL's frame has columns.                   *)
rows(trs, out, t) ==
  CASE ~out[t].ran \/ trs[t.run].bench.sizes = <<>> -> <<>>
    [] out[t].ran /\ trs[t.run].bench.sizes # <<>> ->
         IF out[t].ok THEN trs[t.run].bench.sizes ELSE Front(trs[t.run].bench.sizes)

has_columns(class, df) == class = "NIXLBench" \/ df # <<>>

Mutant_longest(dfs) == 1

longest(dfs) ==
  CHOOSE j \in DOMAIN dfs : /\ \A m \in DOMAIN dfs : Len(dfs[m]) <= Len(dfs[j])
                            /\ \A m \in 1 .. j - 1 : Len(dfs[m]) < Len(dfs[j])

(* create_table: rows are joined by their index, the sizes are those of    *)
(* the longest frame; 0 stands for "n/a". A difference is shown for two.   *)
create_table(dfs) ==
  [k \in DOMAIN dfs[longest(dfs)] |->
     LET cells == [j \in DOMAIN dfs |-> IF k <= Len(dfs[j]) THEN dfs[j][k] ELSE 0]
     IN  [info |-> dfs[longest(dfs)][k], cells |-> cells, diff |-> Len(dfs) = 2 /\ 0 \notin ToSet(cells)]]

(* create_chart: a line for every frame with rows.                         *)
create_chart(dfs) == {<<j, dfs[j]>> : j \in {m \in DOMAIN dfs : dfs[m] # <<>>}}

(* A column that is missing raises, where there is a row to fill; OSU      *)
(* skips what not all frames have.                                         *)
table_raises(class, dfs) ==
  class # "OSUBench" /\ dfs[longest(dfs)] # <<>> /\ \E j \in DOMAIN dfs : ~has_columns(class, dfs[j])

skipped(class, dfs) == class = "OSUBench" /\ \E j \in DOMAIN dfs : dfs[j] = <<>>

compare_group(class, group, dfs) ==
  [items |-> group,
   table |-> IF skipped(class, dfs) THEN <<>> ELSE create_table(dfs),
   chart |-> IF skipped(class, dfs) THEN {} ELSE create_chart(dfs)]

(* generate: no report without test runs; an error anywhere loses all of   *)
(* it, and generate_reports goes on with the next one.                     *)
comparison(trs, out, class, group_by) ==
  LET runs == class_runs(trs, out, class)
      all  == groups(trs, runs, group_by)
      dfs  == [g \in DOMAIN all |-> [j \in DOMAIN all[g] |-> rows(trs, out, all[g][j])]]
  IN  CASE runs = <<>> -> [status |-> "none", groups |-> <<>>]
        [] runs # <<>> /\ (\E g \in DOMAIN all : diff_raises(trs, out, all[g]) \/ table_raises(class, dfs[g])) ->
             [status |-> "lost", groups |-> <<>>]
        [] OTHER -> [status |-> "made", groups |-> [g \in DOMAIN all |-> compare_group(class, all[g], dfs[g])]]
=============================================================================
