----------------------------- MODULE DseReport -----------------------------
(***************************************************************************)
(* What the reports say of a results directory: rewards                    *)
(* (configurator/reward_functions.py), the test runs a Reporter loads      *)
(* (_core/base_reporter.py), the summary of a DSE job                      *)
(* (report_generator/dse_report.py), the best configuration that is saved  *)
(* and the tarball of failed results (reporter.py).                        *)
(*                                                                         *)
(* out is what the directory holds of every trial: dir, the dump of the    *)
(* test run, slurm-job.toml, and what the run left: ok for                 *)
(* was_run_successful, the metric (0 when there is none). traj is          *)
(* trajectory.csv of every test run and iteration.                         *)
(***************************************************************************)
EXTENDS SbatchScript

Empty  == [dir |-> FALSE, dump |-> FALSE, meta |-> FALSE, ran |-> FALSE, ok |-> FALSE, metric |-> 0]

(* handle_job_completion runs a test again as long as it has iterations    *)
(* left, but never a trial of a DSE job, whose steps count from 1.         *)
iterations(tr) == IF is_dse_job(tr) THEN {0} ELSE 0 .. tr.iterations - 1

Trials(trs) ==
  UNION {{Trial(i, it, k) : it \in iterations(trs[i]),
                            k \in (IF is_dse_job(trs[i]) THEN 1 .. Len(trs[i].grid) ELSE {0})} : i \in DOMAIN trs}

(* Twice the reward of an observation; metric_failure has its default -1.  *)
observation(metric) == IF metric = 0 THEN -1 ELSE metric

reward(function, metric) ==
  LET m == observation(metric) IN
  CASE function = "inverse"  -> IF m < 0 THEN 0 - (2 \div (0 - m)) ELSE 2 \div m
    [] function = "negative" -> 0 - 2 * m
    [] function = "identity" -> 2 * m

(* load_test_runs: whatever has a directory.                               *)
loaded(out, i) == {t \in DOMAIN out : t.run = i /\ out[t].dir}

was_run_successful(out, t) == out[t].ok

(* TarballReporter.                                                        *)
tarball(trs, out) == \E i \in DOMAIN trs : \E t \in loaded(out, i) : ~was_run_successful(out, t)

(* The first of the entries with the highest reward.                       *)
first_best(steps) ==
  CHOOSE j \in DOMAIN steps :
     /\ \A m \in DOMAIN steps : steps[m].reward <= steps[j].reward
     /\ \A m \in 1 .. j - 1 : steps[m].reward < steps[j].reward

(* _build_trajectory_steps: the entries in the order of their steps, each  *)
(* with the verdict on the run that was loaded for it.                     *)
trajectory_steps(trs, out, traj, i, it) ==
  LET entries == SortSeq(traj[<<i, it>>], LAMBDA x, y : x.step < y.step)
      success(k) == Trial(i, it, k) \in loaded(out, i) /\ was_run_successful(out, Trial(i, it, k))
  IN  [j \in DOMAIN entries |-> [step |-> entries[j].step, reward |-> entries[j].reward,
                                 is_successful |-> success(entries[j].step)]]

(* get_best_step, 0 when there is none.                                    *)
Mutant_get_best_step(steps) ==   \* failed steps count as well
  IF steps = <<>> THEN 0 ELSE steps[first_best(steps)].step

get_best_step(steps) ==
  LET good == SelectSeq(steps, LAMBDA s : s.is_successful) IN
  IF good = <<>> THEN 0 ELSE good[first_best(good)].step

(* _build_iteration_summary: best is 0 when there is no summary. The chart *)
(* takes the number of the best step (less one, its labels counting from   *)
(* 0) for the index of its label.                                          *)
NoSummary == [best |-> 0, labels |-> <<>>, best_index |-> 0]

summary(trs, out, traj, i, it) ==
  LET steps == trajectory_steps(trs, out, traj, i, it)
      best  == get_best_step(steps)
  IN  IF \/ ~is_dse_job(trs[i]) \/ best = 0
         \/ ~out[Trial(i, it, best)].dump
         \/ \A j \in DOMAIN steps : ~out[Trial(i, it, steps[j].step)].meta
      THEN NoSummary
      ELSE [best |-> best, labels |-> [j \in DOMAIN steps |-> steps[j].step], best_index |-> best]

(* build_dse_summaries.                                                    *)
dse_cases(trs, out, traj) ==
  {<<i, it>> \in DOMAIN traj : summary(trs, out, traj, i, it) # NoSummary}

(* report_best_dse_config, for the first iteration, whatever the verdicts: *)
(* 0 when nothing is saved. DSEReporter saves no configuration when there  *)
(* is no summary at all.                                                   *)
best_config(trs, out, traj, i) ==
  LET entries == traj[<<i, 0>>] IN
  IF ~tdef_is_dse_job(trs[i]) \/ dse_cases(trs, out, traj) = {} \/ entries = <<>> THEN 0
  ELSE LET best == entries[first_best(entries)].step
       IN  IF out[Trial(i, 0, best)].dump THEN best ELSE 0
=============================================================================
