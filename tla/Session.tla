------------------------------ MODULE Session ------------------------------
(***************************************************************************)
(* A session of "cloudai run" on a Slurm system (cli/handlers.py,          *)
(* systems/slurm/single_sbatch_runner.py): the scenario is parsed and its  *)
(* workloads are installed; its test runs are then executed, all in one    *)
(* batch script, or with a job for every test run, iteration and trial;    *)
(* in the end the results directory is reported on. Jobs of different test *)
(* runs at one time are BaseRunner's subject; here one follows another.    *)
(***************************************************************************)
EXTENDS Comparison

CONSTANTS
  Docs,       \* the scenarios, each one of Doc
  Outcomes,   \* what a test may leave: records [ok, metric]
  Function,   \* the reward function
  Faults      \* which of "install", "submit", "cut", "signal" may happen

ASSUME DocsAssumption == Docs \subseteq Doc

VARIABLES
  doc,
  single,         \* --single-sbatch
  trs,            \* the test runs of the scenario
  pc,
  pos,            \* the test run and the step that are worked on
  iteration,      \* current_iteration of every test run
  header,         \* the directives of the batch script
  script, line,   \* its lines and the next one
  preok,          \* PRE_TEST_SUCCESS so far
  job,            \* the job on Slurm: "none", "running", "over", "cut"
  out, traj,      \* the results directory
  shutting_down,
  trouble,        \* what went wrong so far: "submit", "cut", "gate"
  seen            \* the results directory when the reports were made

vars == <<doc, single, trs, pc, pos, iteration, header, script, line, preok, job, out, traj, shutting_down, trouble, seen>>
config  == <<doc, single, trs>>
batch   == <<header, script, line, preok, job>>
results == <<out, traj>>

Init ==
  /\ doc \in Docs /\ single \in BOOLEAN
  /\ trs = <<>> /\ pc = "parse" /\ pos = <<1, 0>>
  /\ iteration = <<>> /\ header = <<>> /\ script = <<>> /\ line = 0 /\ preok = TRUE /\ job = "none"
  /\ out = <<>> /\ traj = <<>>
  /\ shutting_down = FALSE /\ trouble = {} /\ seen = <<>>

first_step(i) == IF i <= Len(trs) /\ is_dse_job(trs[i]) THEN 1 ELSE 0

Parse ==
  /\ pc = "parse"
  /\ IF valid(doc)
     THEN /\ pc' = "install"
          /\ trs' = test_runs_by_id(doc)
          /\ iteration' = [i \in DOMAIN trs' |-> 0]
          /\ out' = [t \in Trials(trs') |-> Empty]
          /\ traj' = [e \in {<<t.run, t.iteration>> : t \in Trials(trs')} |-> <<>>]
     ELSE pc' = "refused" /\ UNCHANGED <<trs, iteration, results>>
  /\ UNCHANGED <<doc, single, pos, batch, shutting_down, trouble, seen>>

(* _check_installation, and installation when something is missing.        *)
Install ==
  /\ pc = "install"
  /\ pc' \in {"dispatch"} \union (IF "install" \in Faults THEN {"refused"} ELSE {})
  /\ UNCHANGED <<config, pos, iteration, batch, results, shutting_down, trouble, seen>>

(* Directories that are made and dumps that are written.                   *)
Store(made, dumped) ==
  out' = [t \in DOMAIN out |-> [out[t] EXCEPT !.dir = @ \/ t \in made, !.dump = @ \/ t \in dumped]]

(* A script that is handed to sbatch.                                      *)
Submit(h, s) == header' = h /\ script' = s /\ line' = 1 /\ preok' = TRUE /\ job' = "running"

(* _handle_single_sbatch replaces the runner that create_runner looks up.  *)
runner == (IF single THEN update(runners_map, "slurm", "SingleSbatchRunner") ELSE runners_map)["slurm"]

(* get_command_gen_strategy raises KeyError for a workload that was not    *)
(* made for Slurm, get_cached_nodes_spec ValueError when no node is left.  *)
(* store_test_run looks for the pre-tests too, gen_exec_command alone for  *)
(* the post-tests.                                                         *)
found(workload)  == <<"slurm", workload>> \in DOMAIN command_gen_strategies_map
hook_found(hook) == hook # "" => \A j \in DOMAIN Hooks[hook] : found(Hooks[hook][j].workload)

strategies_stored(tr) == found(tr.workload) /\ hook_found(tr.pre)
strategies_found(tr)  == strategies_stored(tr) /\ hook_found(tr.post)

mixed    == \E i, j \in DOMAIN trs : is_dse_job(trs[i]) /\ ~is_dse_job(trs[j])
dse_deps == \E i \in DOMAIN trs : is_dse_job(trs[i]) /\ trs[i].deps # <<>>

(* handle_dry_run_and_run: dependencies of DSE jobs are an error; in a     *)
(* single script they do not count.                                        *)
Dispatch ==
  /\ pc = "dispatch" /\ runner = "SlurmRunner"
  /\ pc' = IF mixed \/ dse_deps THEN "refused" ELSE "next"
  /\ pos' = <<1, first_step(1)>>
  /\ UNCHANGED <<config, iteration, batch, results, shutting_down, trouble, seen>>

(* SingleSbatchRunner.run: every test run of the script is dumped before   *)
(* the script is handed over. unroll_dse makes the directory of every      *)
(* parameter set, of those that are infeasible too.                        *)
script_made ==
  /\ sbatch_valid(trs) /\ strategies_stored(trs[1])
  /\ \A t \in ToSet(all_trs(trs)) : nodes_resolved(trs[t.run]) /\ strategies_stored(trs[t.run])

StoreAll == Store({t \in DOMAIN out : t.iteration = 0}, ToSet(all_trs(trs)))

DispatchSingle ==
  /\ pc = "dispatch" /\ runner = "SingleSbatchRunner"
  /\ IF script_made
     THEN pc' = "wait" /\ StoreAll /\ Submit(sbatch_directives(trs), sbatch_script(trs))
     ELSE pc' = "crashed" /\ UNCHANGED <<batch, out>>
  /\ UNCHANGED <<config, pos, iteration, traj, shutting_down, trouble, seen>>

(* No job id: nobody catches JobIdRetrievalError here.                     *)
SubmitErrorSingle ==
  /\ "submit" \in Faults /\ pc = "dispatch" /\ runner = "SingleSbatchRunner" /\ script_made
  /\ StoreAll /\ pc' = "crashed"
  /\ UNCHANGED <<config, pos, iteration, batch, traj, shutting_down, trouble, seen>>

-----------------------------------------------------------------------------
(* The job.                                                                *)

Goes(l) == IF l > Len(script) THEN job' = "over" /\ line' = l ELSE line' = l /\ UNCHANGED job

RunLine ==
  /\ job = "running" /\ script[line].role # "gate"
  /\ \E o \in Outcomes :
       /\ IF LeavesScript(script[line].workload, o.ok) THEN job' = "over" /\ UNCHANGED line ELSE Goes(line + 1)
       /\ preok' = (preok /\ (script[line].role = "pre" => script[line].check /\ o.ok))
       /\ out' = IF script[line].role # "main" THEN out
                 ELSE [out EXCEPT ![script[line].trial].ran = TRUE, ![script[line].trial].ok = o.ok,
                                  ![script[line].trial].metric = o.metric]
  /\ UNCHANGED <<config, pc, pos, iteration, header, script, traj, shutting_down, trouble, seen>>

(* Whatever follows the gate is skipped, or left with exit 1.              *)
RunGate ==
  /\ job = "running" /\ script[line].role = "gate"
  /\ IF preok THEN Goes(line + 1) /\ UNCHANGED trouble
     ELSE job' = "over" /\ trouble' = trouble \union {"gate"} /\ UNCHANGED line
  /\ UNCHANGED <<config, pc, pos, iteration, header, script, preok, results, shutting_down, seen>>

(* The time limit, or somebody, ends the job.                              *)
JobCut ==
  /\ "cut" \in Faults /\ job = "running"
  /\ job' = "cut" /\ trouble' = trouble \union {"cut"}
  /\ UNCHANGED <<config, pc, pos, iteration, header, script, line, preok, results, shutting_down, seen>>

-----------------------------------------------------------------------------
(* One job for every test run, iteration and trial.                        *)

current == Trial(pos[1], iteration[pos[1]], pos[2])

Advance ==
  pos' = IF pos[2] < Len(trs[pos[1]].grid) THEN <<pos[1], pos[2] + 1>> ELSE <<pos[1] + 1, first_step(pos[1] + 1)>>

Entry(step, metric) == [step |-> step, reward |-> reward(Function, metric), metric |-> metric]

Skipped ==
  /\ pc = "next" /\ pos[1] <= Len(trs) /\ pos[2] > 0 /\ ~trs[pos[1]].grid[pos[2]]
  /\ Advance
  /\ UNCHANGED <<config, pc, iteration, batch, results, shutting_down, trouble, seen>>

(* There is a test run, or a feasible trial, to submit.                    *)
Due ==
  /\ pc = "next" /\ pos[1] <= Len(trs)
  /\ pos[2] > 0 => trs[pos[1]].grid[pos[2]]

(* on_job_submit, then gen_exec_command, and sbatch.                       *)
SubmitTest ==
  /\ Due /\ nodes_resolved(trs[pos[1]]) /\ strategies_found(trs[pos[1]])
  /\ Store({current}, {current}) /\ Submit(directives(trs, current), exec_script(trs[pos[1]], current))
  /\ pc' = "wait"
  /\ UNCHANGED <<config, pos, iteration, traj, shutting_down, trouble, seen>>

(* JobSubmissionError: submit_test exits, which step() does not catch.     *)
SubmitError ==
  /\ "submit" \in Faults
  /\ Due /\ nodes_resolved(trs[pos[1]]) /\ strategies_found(trs[pos[1]])
  /\ Store({current}, {current}) /\ pc' = "crashed"
  /\ UNCHANGED <<config, pos, iteration, batch, traj, shutting_down, trouble, seen>>

(* KeyError or ValueError, before the dump unless it is a post-test that   *)
(* cannot be run. step() catches it, observes and goes on; any other       *)
(* session ends.                                                           *)
SubmitFails ==
  /\ Due /\ trouble' = trouble \union {"submit"}
  /\ Store({current}, IF nodes_resolved(trs[pos[1]]) /\ strategies_stored(trs[pos[1]]) THEN {current} ELSE {})
  /\ IF pos[2] > 0
     THEN /\ pc' = "next" /\ Advance
          /\ traj' = [traj EXCEPT ![<<pos[1], iteration[pos[1]]>>] = Append(@, Entry(pos[2], out[current].metric))]
     ELSE pc' = "crashed" /\ UNCHANGED <<traj, pos>>
  /\ UNCHANGED <<config, iteration, batch, shutting_down, seen>>

NoNodes == pos[1] <= Len(trs) /\ ~nodes_resolved(trs[pos[1]]) /\ SubmitFails

NoStrategy == pos[1] <= Len(trs) /\ ~strategies_found(trs[pos[1]]) /\ SubmitFails

(* The job is over. A test run is submitted again for its next iteration,  *)
(* a trial is observed, whatever has become of it.                         *)
more_iterations == pos[2] <= 0 /\ iteration[pos[1]] + 1 < trs[pos[1]].iterations

job_failed == doc.job_status_check /\ ~was_run_successful(out, current)

JobOver == pc = "wait" /\ ~single /\ job \in {"over", "cut"}

JobDone ==
  /\ JobOver /\ (pos[2] > 0 \/ ~job_failed)
  /\ pc' = "next" /\ job' = "none"
  /\ out' = [out EXCEPT ![current].meta = TRUE]
  /\ IF more_iterations
     THEN iteration' = [iteration EXCEPT ![pos[1]] = @ + 1] /\ UNCHANGED <<pos, traj>>
     ELSE /\ Advance /\ UNCHANGED iteration
          /\ traj' = IF pos[2] = 0 THEN traj
                     ELSE [traj EXCEPT ![<<pos[1], iteration[pos[1]]>>] = Append(@, Entry(pos[2], out[current].metric))]
  /\ UNCHANGED <<config, header, script, line, preok, shutting_down, trouble, seen>>

(* JobFailureError, which step() would catch, ends any other session. The  *)
(* next iteration has been submitted by then, and is killed.               *)
JobFails ==
  /\ JobOver /\ pos[2] = 0 /\ job_failed
  /\ pc' = "crashed" /\ job' = "none"
  /\ iteration' = [iteration EXCEPT ![pos[1]] = IF more_iterations THEN @ + 1 ELSE @]
  /\ out' = [t \in DOMAIN out |->
               LET again == more_iterations /\ t = Trial(pos[1], iteration[pos[1]] + 1, 0)
               IN  [out[t] EXCEPT !.meta = @ \/ t = current, !.dir = @ \/ again, !.dump = @ \/ again]]
  /\ UNCHANGED <<config, pos, header, script, line, preok, traj, shutting_down, trouble, seen>>

AllDone ==
  /\ pc = "next" /\ pos[1] > Len(trs)
  /\ pc' = "report"
  /\ UNCHANGED <<config, pos, iteration, batch, results, shutting_down, trouble, seen>>

-----------------------------------------------------------------------------
(* One job for all.                                                        *)

(* shutdown() looks for jobs that it knows: there are none, and the job    *)
(* goes on.                                                                *)
Signal ==
  /\ "signal" \in Faults /\ single /\ pc = "wait"
  /\ shutting_down' = TRUE
  /\ UNCHANGED <<config, pc, pos, iteration, batch, results, trouble, seen>>

PollSingle ==
  /\ pc = "wait" /\ single
  /\ shutting_down \/ job \in {"over", "cut"}
  /\ pc' = "dse" /\ pos' = <<1, first_step(1)>>
  /\ UNCHANGED <<config, iteration, batch, results, shutting_down, trouble, seen>>

(* handle_dse: every parameter set, also those that were never run.        *)
HandleDse ==
  /\ pc = "dse" /\ pos[1] <= Len(trs)
  /\ Advance
  /\ traj' = IF pos[2] = 0 THEN traj
             ELSE [traj EXCEPT ![<<pos[1], 0>>] = Append(@, Entry(pos[2], out[Trial(pos[1], 0, pos[2])].metric))]
  /\ UNCHANGED <<config, pc, iteration, batch, out, shutting_down, trouble, seen>>

HandleDseEnd ==
  /\ pc = "dse" /\ pos[1] > Len(trs)
  /\ pc' = "report"
  /\ UNCHANGED <<config, pos, iteration, batch, results, shutting_down, trouble, seen>>

-----------------------------------------------------------------------------
GenerateReports ==
  /\ pc = "report" /\ pc' = "done"
  /\ seen' = <<out, traj>>
  /\ UNCHANGED <<config, pos, iteration, batch, results, shutting_down, trouble>>

(* What the reports say.                                                   *)
report ==
  [loaded  |-> [i \in DOMAIN trs |-> loaded(seen[1], i)],
   tarball |-> tarball(trs, seen[1]),
   dse     |-> [e \in DOMAIN seen[2] |-> summary(trs, seen[1], seen[2], e[1], e[2])],
   best    |-> [i \in DOMAIN trs |-> best_config(trs, seen[1], seen[2], i)],
   cmp     |-> [c \in Classes |-> comparison(trs, seen[1], c, doc.group_by)]]

Ended == pc \in {"done", "refused", "crashed"}
Over == Ended /\ UNCHANGED vars

Own == \/ Parse \/ Install \/ Dispatch \/ DispatchSingle \/ Skipped \/ SubmitTest \/ NoNodes \/ NoStrategy
       \/ JobDone \/ JobFails \/ AllDone \/ PollSingle \/ HandleDse \/ HandleDseEnd \/ GenerateReports

Next == Own \/ RunLine \/ RunGate \/ JobCut \/ SubmitError \/ SubmitErrorSingle \/ Signal \/ Over

(* The session goes on, and so does the job.                               *)
Fairness == WF_vars(Own) /\ WF_vars(RunLine \/ RunGate)

Spec == Init /\ [][Next]_vars /\ Fairness

-----------------------------------------------------------------------------
(* Properties.                                                             *)

(* The job is big and long enough for its script: every test run finds as  *)
(* many nodes as it asks for, or the hosts it names; when there is a time  *)
(* limit it covers those of all tests and hook tests of the script; and in *)
(* a job of its own, no test run gets a node that it excludes.             *)
ScriptFits ==
  LET mains  == SelectSeq(script, LAMBDA l : l.role = "main")
      hooks(role, name) == IF name = "" \/ ~\E j \in DOMAIN script : script[j].role = role THEN 0
                           ELSE FoldLeft(LAMBDA a, t : a + t.limit, 0, Hooks[name])
      needed == hooks("pre", doc.pre) + hooks("post", doc.post)
                  + FoldLeft(LAMBDA a, l : a + doc.tests[l.trial.run].limit, 0, mains)
      nodes  == IF header.nodelist = {} THEN header.N ELSE Cardinality(header.nodelist)
  IN  pc = "wait" =>
        /\ header.time # 0 => header.time >= needed
        /\ DOMAIN header.hostfile \in {header.nodelist, {}}
        /\ \A j \in DOMAIN mains :
             LET tr == trs[mains[j].trial.run] IN
             /\ single \/ tr.hosts = {} => nodes_of(trs, mains[j].trial) <= nodes
             /\ single => tr.hosts \subseteq header.nodelist
             /\ ~single => /\ hosts_of(tr) \subseteq header.nodelist
                           /\ tr.exclude \intersect header.nodelist = {}
                           /\ header.nodelist = {} => tr.exclude \subseteq header.exclude

(* The session ends. Every test of an accepted scenario has run when the   *)
(* reports are made, in every iteration when each has a job of its own,    *)
(* and so has every feasible trial, once, unless there was a signal, a     *)
(* script could not be made, a job was cut, a pre-test was not successful, *)
(* or the block of another test run has left the script that they share.   *)
EveryTestRuns ==
  LET left     == single /\ \E t \in DOMAIN out : out[t].ran /\ LeavesScript(trs[t.run].workload, out[t].ok)
      steps(i) == IF is_dse_job(trs[i]) THEN {k \in DOMAIN trs[i].grid : trs[i].grid[k]} ELSE {0}
  IN  <>(/\ Ended
         /\ pc = "done" /\ ~shutting_down /\ trouble = {} /\ ~left =>
              /\ DOMAIN trs = DOMAIN doc.tests
              /\ \A i \in DOMAIN trs : \A k \in steps(i) : \A it \in (IF single THEN {0} ELSE iterations(trs[i])) :
                    out[Trial(i, it, k)].ran)

(* Unless a signal has interrupted the session, no job is left on Slurm    *)
(* when it reports, and every reward is that of what its step has left.    *)
(* A DSE job with a successful trial has a summary when each trial has its *)
(* own job, and its best step is a successful one that no other successful *)
(* one outdoes, however highly failed trials are rewarded. The             *)
(* configuration that is saved is that of this step, unless a failed trial *)
(* has a reward as high; the chart marks it, unless a step before it was   *)
(* infeasible.                                                             *)
ReportsAgree ==
  LET left(e, k)  == out[Trial(e[1], e[2], k)]
      value(e, k) == reward(Function, left(e, k).metric)
      good(e)     == {k \in DOMAIN trs[e[1]].grid : left(e, k).ok}
  IN  /\ pc \in {"report", "done"} /\ ~shutting_down =>
           /\ job # "running"
           /\ \A e \in DOMAIN traj : \A j \in DOMAIN traj[e] : traj[e][j].metric = left(e, traj[e][j].step).metric
      /\ pc = "done" => \A e \in DOMAIN traj :
           LET s == report.dse[e]
               b == report.best[e[1]]
           IN  /\ ~single /\ good(e) # {} => s # NoSummary
               /\ s # NoSummary =>
                    /\ s.best \in good(e) /\ \A k \in good(e) : value(e, k) <= value(e, s.best)
                    /\ (\A k \in 1 .. s.best : trs[e[1]].grid[k]) => s.labels[s.best_index] = s.best
                    /\ tdef_is_dse_job(trs[e[1]]) /\ b # s.best =>
                         b # 0 /\ b \notin good(e) /\ value(e, b) >= value(e, s.best)

(* Test runs of a benchmark that differ only in values and have all left   *)
(* data are compared. A comparison shows every loaded test run once,       *)
(* together with those that agree in what is grouped by; where the tests   *)
(* of a group measure the same sizes, a row holds what was measured at its *)
(* size and nothing that was measured is missing, also when some failed.   *)
(* (After a signal the job may go on after the reports.)                   *)
ComparisonComplete ==
  LET bench(t)     == trs[t.run].bench
      runs(c)      == UNION {report.loaded[i] : i \in {j \in DOMAIN trs : trs[j].workload = c}}
      alike(c)     == \A t \in runs(c) : /\ ~has_list(trs, out, t) /\ rows(trs, out, t) # <<>>
                                         /\ \A u \in runs(c) : DOMAIN bench(t).env = DOMAIN bench(u).env
      full(c, g)   == /\ \A j, m \in DOMAIN g.items : bench(g.items[j]).sizes = bench(g.items[m]).sizes
                      /\ c = "OSUBench" => \A j \in DOMAIN g.items : rows(trs, out, g.items[j]) # <<>>
      shown(g, j)  == SelectSeq([k \in DOMAIN g.table |-> g.table[k].cells[j]], LAMBDA v : v # 0)
  IN  pc = "done" /\ ~shutting_down => \A c \in Classes :
        LET cmp == report.cmp[c] IN
        /\ runs(c) # {} /\ alike(c) => cmp.status = "made"
        /\ cmp.status = "made" =>
             /\ \A t \in runs(c) : Cardinality({p \in UNION {{g} \X DOMAIN cmp.groups[g].items : g \in DOMAIN cmp.groups} :
                                              cmp.groups[p[1]].items[p[2]] = t}) = 1
             /\ doc.group_by => \A g, h \in DOMAIN cmp.groups : \A t \in ToSet(cmp.groups[g].items), u \in ToSet(cmp.groups[h].items) :
                                  g = h <=> bench(t).by = bench(u).by
             /\ \A g \in DOMAIN cmp.groups : full(c, cmp.groups[g]) =>
                  \A j \in DOMAIN cmp.groups[g].items :
                     /\ shown(cmp.groups[g], j) = rows(trs, out, cmp.groups[g].items[j])
                     /\ \A k \in DOMAIN cmp.groups[g].table :
                          cmp.groups[g].table[k].cells[j] \in {0, cmp.groups[g].table[k].info}

=============================================================================
