------------------------------ MODULE Verdicts ------------------------------
(***************************************************************************)
(* How a finished test run is judged from the files it left: what          *)
(* was_run_successful and get_metric of its workload read in them. A log   *)
(* maps the files that exist to the lines they hold, each abstracted to    *)
(* what these functions tell apart.                                        *)
(***************************************************************************)
EXTENDS Registry, Integers, FiniteSets

CONSTANTS
  Window,   \* the last iterations that the Megatron reports average; 10
  LateFrom, LateTo, LateEnough   \* 80, 100 and 20 in extract_timings; 100 and 20 in NeMo launcher

ASSUME WindowAssumption == Window \in Nat \ {0}
ASSUME LateAssumption   == LateFrom \in Nat /\ LateTo \in Nat /\ LateEnough \in Nat \ {0}

METRIC_ERROR == "METRIC_ERROR"

Has(log, f, line)   == f \in DOMAIN log /\ \E i \in DOMAIN log[f] : log[f][i] = line

(* How many rows of results a file has. What the numbers in them are makes *)
(* no difference here: samples are counted, and a mean over none of them   *)
(* is an error.                                                            *)
Rows(log, f) == IF f \in DOMAIN log THEN Cardinality({i \in DOMAIN log[f] : log[f][i] = "row"}) ELSE 0

Mean(samples) == IF samples = 0 THEN METRIC_ERROR ELSE "number"

LastOf(samples, n) == IF samples > n THEN n ELSE samples

-----------------------------------------------------------------------------

nccl_successful(log) ==
  /\ ~Has(log, "stdout", "Test failure")
  /\ Has(log, "stdout", "# Out of bounds values") /\ Has(log, "stdout", "# Avg bus bandwidth")

ddlb_successful(log) == ~Has(log, "stdout", "Error") /\ Has(log, "stdout", "Benchmark Results")

(* hello and init print no table.                                          *)
osu_successful(log, benchmark) ==
  /\ "stdout" \in DOMAIN log /\ log["stdout"] # <<>>
  /\ benchmark \notin {"osu_hello", "osu_init"} => Has(log, "stdout", "# Size")

(* Two words anywhere in the file: the first is also printed with the      *)
(* configuration.                                                          *)
nemo_run_successful(log) == Has(log, "stderr", "max_steps=") /\ Has(log, "stderr", "reached")

(* The exit code is the one that sacct gives for the job.                  *)
megatron_run_successful(log, exit_code) ==
  exit_code = 0 /\ (Rows(log, "stdout") # 0 \/ Has(log, "stdout", "validation loss at iteration"))

(* extract_nixlbench_data: rows count once the header has been seen.       *)
nixlbench_data(log) ==
  IF Has(log, "stdout", "header") THEN Rows(log, "stdout") ELSE 0

nixlbench_successful(log) == nixlbench_data(log) # 0

(* extract_mbridge_metrics of the launcher's log. The launcher is expected *)
(* to fail in the end, so nothing more can be asked of it.                 *)
mbridge_steps(log) == LastOf(Rows(log, "launcher"), Window)

megatron_bridge_successful(log) == mbridge_steps(log) # 0

was_run_successful(workload, option, log, exit_code) ==
  CASE workload = "NcclTest"            -> nccl_successful(log)
    [] workload = "DDLBTest"            -> ddlb_successful(log)
    [] workload = "OSUBench"             -> osu_successful(log, option)
    [] workload = "NeMoRun"        -> nemo_run_successful(log)
    [] workload = "MegatronRun"    -> megatron_run_successful(log, exit_code)
    [] workload \in {"NIXLBench", "NIXLKVBench"} -> nixlbench_successful(log)
    [] workload = "MegatronBridge" -> megatron_bridge_successful(log)
    [] OTHER                        -> TRUE

-----------------------------------------------------------------------------
(* extract_timings: the late steps if there are enough of them, else all   *)
(* but the first. Row i is global step i - 1.                              *)
late_steps(rows) == Cardinality({i \in 1..rows : LateFrom < i /\ i <= LateTo + 1})

Mutant_nemo_run_timings(rows) ==
  IF late_steps(rows) < LateEnough THEN rows - LastOf(rows, 2) ELSE late_steps(rows)

nemo_run_timings(rows) ==
  IF late_steps(rows) < LateEnough THEN rows - 1 ELSE late_steps(rows)

(* extract_nccl_data, parse_ucc_output, _extract, extract_osu_bench_data.  *)
nccl_rows(log)          == Rows(log, "stdout")
ucc_rows(log)           == Rows(log, "stdout")
megatron_run_rows(log)  == LastOf(Rows(log, "stdout"), Window)
(* NeMo launcher prints all timings in one line, at the end.               *)
filter_step_timings(rows) == IF rows > LateTo THEN LastOf(rows, LateEnough) ELSE rows
nemo_launcher_rows(log) ==
  IF Has(log, "run", "train_step_timing") THEN filter_step_timings(Rows(log, "run")) ELSE 0

(* A file that is not complete cannot be read as JSON, and is passed over. *)
deepep_rows(log) == IF Has(log, "results", "end of JSON") THEN Rows(log, "results") ELSE 0

(* The tables of tensor sizes, above the performance summary. The report   *)
(* of a replay without any raises: it has no columns to show.              *)
chakra_handles(log) == Has(log, "stdout", "Hello from Rank")
tensor_sizes(log)   ==
  Cardinality({i \in DOMAIN log["stdout"] :
                 /\ log["stdout"][i] = "row"
                 /\ \A j \in 1..i : log["stdout"][j] # "Performance of replayed comms"})

osu_rows(log)           == IF Has(log, "stdout", "# Size") THEN Rows(log, "stdout") ELSE 0
nemo_run_samples(log)   == IF Rows(log, "stdout") = 0 THEN 0 ELSE nemo_run_timings(Rows(log, "stdout"))

(* What a report is made of; there is none where it is empty.              *)
samples(workload, log) ==
  CASE workload = "NcclTest"            -> nccl_rows(log)
    [] workload = "UCCTest"             -> ucc_rows(log)
    [] workload = "OSUBench"             -> osu_rows(log)
    [] workload = "NeMoRun"        -> nemo_run_samples(log)
    [] workload = "MegatronRun"    -> megatron_run_rows(log)
    [] workload = "NIXLBench"      -> nixlbench_data(log)
    [] workload = "MegatronBridge" -> mbridge_steps(log)
    [] workload = "NeMoLauncher" -> nemo_launcher_rows(log)
    [] workload = "DeepEP"       -> deepep_rows(log)
    [] workload = "ChakraReplay" -> IF chakra_handles(log) THEN tensor_sizes(log) ELSE 0
    [] OTHER                        -> 0

(* The report that has the metric the agent asks for, "default".           *)
metric_reporters(workload) ==
  {r \in (IF workload \in DOMAIN reports_map THEN reports_map[workload] ELSE {}) : r \in DefaultMetric}

(* UCC gives the first row, as the text it was read as.                    *)
get_metric(workload, log) ==
  CASE metric_reporters(workload) = {} -> METRIC_ERROR
    [] workload = "UCCTest" -> IF ucc_rows(log) = 0 THEN METRIC_ERROR ELSE "text"
    [] OTHER            -> Mean(samples(workload, log))
=============================================================================
