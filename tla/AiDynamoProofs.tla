--------------------------- MODULE AiDynamoProofs ---------------------------
(***************************************************************************)
(* Proofs about AiDynamo for every number of nodes, every set of           *)
(* configurations and any number of breaking workers.                      *)
(***************************************************************************)
EXTENDS AiDynamo, FiniteSetTheorems, TLAPS

-----------------------------------------------------------------------------
(* Who goes where: facts about the configuration alone.                    *)

LEMMA ConfigFacts ==
  ASSUME NEW c \in Configs, NEW r \in Role
  PROVE  /\ c.gpus \in Nat /\ c.gpus >= 1
         /\ c.roles[r].num_nodes \in 0 .. NumNodes
  BY ConfigsAssumption

(* A node holds one worker of a role, whatever the configuration asks for: *)
(* neither way of writing a truth value is the one the script looks for.   *)
LEMMA OneWorker ==
  ASSUME NEW c \in Configs, NEW r \in Role
  PROVE  workers_per_node(c, r) = 1
<1>1. \A v : rendered(v) # "true"
  BY DEF rendered
<1>2. gpus_per_worker(c, r) = c.gpus
  BY <1>1 DEF gpus_per_worker
<1>3. \A g \in Nat \ {0} : g \div g = 1
  OBVIOUS
<1> QED
  BY <1>2, <1>3, ConfigFacts DEF workers_per_node

-----------------------------------------------------------------------------
(* Every node has work. Nodes are handed out in order, first to decode.    *)

LEMMA UpTo ==
  ASSUME NEW d \in Nat, NEW n \in Nat
  PROVE  /\ IsFiniteSet(d + 1 .. n)
         /\ Cardinality(d + 1 .. n) = IF d >= n THEN 0 ELSE n - d
  BY FS_Interval

(* The first num nodes after the first d.                                  *)
LEMMA Handed ==
  ASSUME NEW d \in 0 .. NumNodes, NEW num \in Nat
  PROVE  populate_nodelist(num, 1 .. d) = {n \in Nodes : n > d /\ n - d <= num}
<1>1. Nodes \ (1 .. d) = {n \in Nodes : n > d}
  BY NodesAssumption DEF Nodes
<1>2. ASSUME NEW n \in Nodes \ (1 .. d)
      PROVE  Cardinality({m \in Nodes \ (1 .. d) : m <= n}) = n - d
  <2>1. {m \in Nodes \ (1 .. d) : m <= n} = d + 1 .. n
    BY NodesAssumption DEF Nodes
  <2>2. n \in Nat /\ d \in Nat /\ ~(d >= n)
    BY <1>1, NodesAssumption DEF Nodes
  <2> QED
    BY <2>1, <2>2, UpTo
<1> QED
  BY <1>1, <1>2 DEF populate_nodelist

LEMMA HandedNumber ==
  ASSUME NEW d \in 0 .. NumNodes, NEW num \in Nat
  PROVE  /\ IsFiniteSet({n \in Nodes : n > d /\ n - d <= num})
         /\ Cardinality({n \in Nodes : n > d /\ n - d <= num}) = num => d + num <= NumNodes
<1> DEFINE S == {n \in Nodes : n > d /\ n - d <= num}
<1>1. CASE d + num <= NumNodes
  <2>1. S = d + 1 .. d + num
    BY <1>1, NodesAssumption DEF Nodes
  <2>2. d \in Nat /\ d + num \in Nat
    OBVIOUS
  <2>3. IsFiniteSet(d + 1 .. d + num)
    BY <2>2, UpTo
  <2> QED
    BY <1>1, <2>1, <2>3
<1>2. CASE d + num > NumNodes
  <2>1. S = d + 1 .. NumNodes
    BY <1>2, NodesAssumption DEF Nodes
  <2>2. d \in Nat /\ NumNodes \in Nat
    BY NodesAssumption
  <2>3. /\ IsFiniteSet(d + 1 .. NumNodes)
        /\ Cardinality(d + 1 .. NumNodes) = IF d >= NumNodes THEN 0 ELSE NumNodes - d
    BY <2>2, UpTo
  <2>4. Cardinality(d + 1 .. NumNodes) # num
    BY <1>2, <2>2, <2>3
  <2> QED
    BY <2>1, <2>3, <2>4
<1> QED
  BY <1>1, <1>2, NodesAssumption

LEMMA NodeLists ==
  ASSUME NEW c \in Configs, nodelists_valid(c)
  PROVE  /\ \A r \in Role : /\ IsFiniteSet(node_list(c, r)) /\ node_list(c, r) \subseteq Nodes
                           /\ Cardinality(node_list(c, r)) = c.roles[r].num_nodes
         /\ job_nodes(c) = node_list(c, "decode") \cup node_list(c, "prefill")
<1> DEFINE D == c.roles["decode"].num_nodes
           P == c.roles["prefill"].num_nodes
<1>1. D \in Nat /\ P \in Nat /\ D <= NumNodes /\ P <= NumNodes /\ NumNodes \in Nat
  BY NodesAssumption, ConfigFacts DEF Role
<1> HIDE DEF D, P
<1>2. decode_list(c) = 1 .. D
  <2>1. decode_list(c) = populate_nodelist(D, 1 .. 0)
    BY DEF decode_list, D
  <2>2. populate_nodelist(D, 1 .. 0) = {n \in Nodes : n > 0 /\ n - 0 <= D}
    BY <1>1, Handed
  <2>3. \A n : n \in Nodes /\ n > 0 /\ n - 0 <= D <=> n \in 1 .. D
    BY <1>1 DEF Nodes
  <2> QED
    BY <2>1, <2>2, <2>3
<1>3. node_list(c, "prefill") = {n \in Nodes : n > D /\ n - D <= P}
  <2>1. node_list(c, "prefill") = populate_nodelist(P, 1 .. D)
    BY <1>2 DEF node_list, P
  <2> QED
    BY <1>1, <2>1, Handed
<1>4. node_list(c, "decode") = 1 .. D
  BY <1>2 DEF node_list
<1>5. \A r \in Role : Cardinality(node_list(c, r)) = c.roles[r].num_nodes
  BY DEF nodelists_valid
<1>6. Cardinality(node_list(c, "prefill")) = P
  BY <1>5 DEF P, Role
<1>7. D + P <= NumNodes /\ IsFiniteSet(node_list(c, "prefill"))
  BY <1>1, <1>3, <1>6, HandedNumber
<1>8. IsFiniteSet(node_list(c, "decode"))
  BY <1>1, <1>4, FS_Interval
<1>9. job_nodes(c) = {n \in Nodes : n <= P + D}
  BY DEF job_nodes, D, P
<1>10. node_list(c, "decode") \subseteq Nodes /\ node_list(c, "prefill") \subseteq Nodes
  BY <1>1, <1>3, <1>4 DEF Nodes
<1>11. job_nodes(c) = node_list(c, "decode") \cup node_list(c, "prefill")
  BY <1>1, <1>3, <1>4, <1>7, <1>9 DEF Nodes
<1> QED
  BY <1>5, <1>7, <1>8, <1>10, <1>11 DEF Role

(* The workers of a role, in number.                                       *)
LEMMA WorkersOfRole ==
  ASSUME NEW c \in Configs, nodelists_valid(c), NEW r \in Role
  PROVE  /\ IsFiniteSet(workers_of(c, r))
         /\ Cardinality(workers_of(c, r)) = c.roles[r].num_nodes * workers_per_node(c, r)
<1> DEFINE k == workers_per_node(c, r)
           I == 0 .. k - 1
           N == node_list(c, r)
           f == [p \in N \X I |-> <<r, p[1], p[2]>>]
<1>1. k \in Nat
  BY OneWorker
<1>2. IsFiniteSet(I) /\ Cardinality(I) = k
  BY <1>1, FS_Interval, SMTT(40)
<1>3. IsFiniteSet(N) /\ Cardinality(N) = c.roles[r].num_nodes
  BY NodeLists
<1>4. IsFiniteSet(N \X I) /\ Cardinality(N \X I) = Cardinality(N) * Cardinality(I)
  BY <1>2, <1>3, FS_Product
<1>5. f \in Bijection(N \X I, workers_of(c, r))
  <2>1. workers_of(c, r) = {<<r, n, i>> : n \in N, i \in I}
    BY DEF workers_of
  <2> HIDE DEF I, N, k
  <2>2. f \in Injection(N \X I, workers_of(c, r))
    BY <2>1 DEF Injection, IsInjective
  <2>3. f \in Surjection(N \X I, workers_of(c, r))
    <3>1. ASSUME NEW n \in N, NEW i \in I
          PROVE  \E p \in N \X I : f[p] = <<r, n, i>>
      <4>1. <<n, i>> \in N \X I /\ f[<<n, i>>] = <<r, n, i>>
        OBVIOUS
      <4> QED
        BY <4>1
    <3>2. f \in [N \X I -> workers_of(c, r)]
      BY <2>2 DEF Injection
    <3> HIDE DEF f
    <3>3. ASSUME NEW w \in workers_of(c, r)
          PROVE  \E p \in N \X I : f[p] = w
      <4>1. PICK n \in N, i \in I : w = <<r, n, i>>
        BY <2>1
      <4> QED
        BY <3>1, <4>1
    <3> QED
      BY <3>2, <3>3 DEF Surjection
  <2> QED
    BY <2>2, <2>3 DEF Bijection
<1>6. ExistsBijection(N \X I, workers_of(c, r))
  BY <1>5 DEF ExistsBijection
<1> QED
  BY <1>2, <1>3, <1>4, <1>6, FS_Bijection

(* Where the lists hold, every node of the job has a worker, and enough    *)
(* initialised ones are all there are.                                     *)
LEMMA EveryNodeWorks ==
  ASSUME NEW c \in Configs, nodelists_valid(c), NEW n \in job_nodes(c)
  PROVE  workers_on(c, n) # {}
<1>1. PICK r \in Role : n \in node_list(c, r)
  BY NodeLists DEF Role
<1>2. <<r, n, 0>> \in workers_of(c, r)
  <2>1. 0 \in 0 .. workers_per_node(c, r) - 1
    BY OneWorker
  <2> QED
    BY <1>1, <2>1 DEF workers_of
<1>3. <<r, n, 0>> \in Workers(c)
  BY <1>2 DEF Workers, Role
<1> QED
  BY <1>3 DEF workers_on

LEMMA AllAreReady ==
  ASSUME NEW c \in Configs, Sound(c), NEW I \in SUBSET Workers(c),
         \A r \in Role : Cardinality({w \in I : w[1] = r}) >= expected_ready(c, r)
  PROVE  I = Workers(c)
<1>1. nodelists_valid(c) /\ c.backend # "sglang_dsr1"
  BY DEF Sound
<1>2. ASSUME NEW r \in Role
      PROVE  workers_of(c, r) \subseteq I
  <2> DEFINE T == {w \in I : w[1] = r}
  <2>1. T \in SUBSET workers_of(c, r)
    BY DEF Workers, workers_of, Role
  <2>2. IsFiniteSet(workers_of(c, r)) /\ Cardinality(workers_of(c, r)) = expected_ready(c, r)
    BY <1>1, WorkersOfRole DEF expected_ready
  <2>3. Cardinality(T) >= Cardinality(workers_of(c, r))
    BY <2>2
  <2>4. /\ IsFiniteSet(T) /\ Cardinality(T) <= Cardinality(workers_of(c, r))
        /\ Cardinality(workers_of(c, r)) = Cardinality(T) => workers_of(c, r) = T
    BY <2>1, <2>2, FS_Subset
  <2>5. Cardinality(T) \in Nat /\ Cardinality(workers_of(c, r)) \in Nat
    BY <2>2, <2>4, FS_CardinalityType
  <2>6. workers_of(c, r) = T
    BY <2>3, <2>4, <2>5
  <2> QED
    BY <2>6
<1> QED
  BY <1>2 DEF Workers, Role

LEMMA SomeWorker ==
  ASSUME NEW c \in Configs, Sound(c)
  PROVE  Workers(c) # {}
<1>1. nodelists_valid(c) /\ c.roles["decode"].num_nodes > 0
  BY DEF Sound
<1>2. node_list(c, "decode") # {}
  <2>1. Cardinality(node_list(c, "decode")) # 0
    BY <1>1, NodeLists, ConfigFacts DEF Role
  <2> QED
    BY <2>1, FS_EmptySet
<1>3. job_nodes(c) # {}
  BY <1>1, <1>2, NodeLists
<1> QED
  BY <1>1, <1>3, EveryNodeWorks DEF workers_on

-----------------------------------------------------------------------------
(* The inductive invariant.                                                *)

Types ==
  /\ config \in Configs
  /\ main \in [Nodes -> {"start", "setup", "launch_etcd", "wait_etcd", "roles", "poll", "dying",
                         "exit_0", "exit_1"}]
  /\ monitor \in [Nodes -> {"none", "wait", "monitor", "dying", "gone"}]
  /\ launcher \in [Nodes -> {"none", "wait_etcd", "done", "gone"}]
  /\ bench \in {"none", "wait", "run", "dying", "mark", "done", "gone"}
  /\ etcd \in {"none", "starting", "ready", "gone"}
  /\ cache_clean \in BOOLEAN /\ report \in BOOLEAN /\ done \in BOOLEAN /\ failure \in BOOLEAN
  /\ started \subseteq Workers(config) /\ initialised \subseteq started /\ broken \subseteq started

(* What waits for etcd waits for the empty cache, since the frontend does  *)
(* one after the other.                                                    *)
CacheFirst ==
  (\E n \in Nodes : main[n] = "launch_etcd") \/ etcd \in {"starting", "ready"} \/ started # {} => cache_clean

(* Once the benchmark may run every worker is ready, and stays so.         *)
BenchLast ==
  Sound(config) /\ (bench \in {"run", "mark", "done"} \/ report \/ done) => initialised = Workers(config)

(* A node that left without a marker had not started any worker, and only  *)
(* nodes of the job do anything.                                           *)
Refusal ==
  \A n \in Nodes :
    /\ n \notin job_nodes(config) => main[n] = "start"
    /\ main[n] = "start" \/ (Sound(config) /\ main[n] = "exit_1" /\ ~failure) =>
         launcher[n] # "wait_etcd" /\ workers_on(config, n) \intersect started = {}

(* Who gives up because of an error has found one, and nobody finds any    *)
(* before a worker breaks.                                                 *)
Dying ==
  \/ failure \/ bench = "dying"
  \/ \E n \in Nodes : main[n] = "dying" \/ monitor[n] = "dying"
ErrorFound == Dying => broken # {}

IInv == Types /\ CacheFirst /\ BenchLast /\ Refusal

LEMMA InitIInv == Init => IInv
<1> SUFFICES ASSUME Init PROVE IInv
  OBVIOUS
<1>1. Types
  BY DEF Init, Types
<1>2. CacheFirst
  BY DEF Init, CacheFirst
<1>3. BenchLast
  BY DEF Init, BenchLast
<1>4. Refusal
  BY DEF Init, Refusal
<1> QED
  BY <1>1, <1>2, <1>3, <1>4 DEF IInv

(* The end of a node: what changes there and on the frontend.              *)
LEMMA EndFacts ==
  ASSUME Types, NEW n \in Nodes, NEW code \in {"exit_0", "exit_1"}, NodeEnds(n, code)
  PROVE  /\ main' = [main EXCEPT ![n] = code] /\ launcher' = [launcher EXCEPT ![n] = "gone"]
         /\ monitor' = [monitor EXCEPT ![n] = "gone"]
         /\ bench' \in {bench, "gone"} /\ etcd' \in {etcd, "gone"}
  BY DEF NodeEnds, Types

LEMMA EndKeeps ==
  ASSUME IInv, NEW n \in job_nodes(config), NEW code \in {"exit_0", "exit_1"}, NodeEnds(n, code),
         UNCHANGED <<config, cache_clean, started, initialised, broken, report, done>>,
         failure' \in {failure, TRUE},
         main[n] = "start" \/ failure' \/ code = "exit_0"
  PROVE  IInv'
<1>1. n \in Nodes
  BY DEF job_nodes
<1>2. /\ main' = [main EXCEPT ![n] = code] /\ launcher' = [launcher EXCEPT ![n] = "gone"]
      /\ monitor' = [monitor EXCEPT ![n] = "gone"]
      /\ bench' \in {bench, "gone"} /\ etcd' \in {etcd, "gone"}
  BY <1>1, EndFacts DEF IInv
<1>3. Types'
  BY <1>1, <1>2, ZenonT(60) DEF IInv, Types
<1>4. CacheFirst'
  BY <1>1, <1>2 DEF IInv, Types, CacheFirst
<1>5. BenchLast'
  BY <1>2 DEF IInv, BenchLast
<1>6. Refusal'
  <2> SUFFICES ASSUME NEW m \in Nodes
               PROVE  /\ m \notin job_nodes(config) => main'[m] = "start"
                      /\ main'[m] = "start" \/ (Sound(config) /\ main'[m] = "exit_1" /\ ~failure') =>
                           launcher'[m] # "wait_etcd" /\ workers_on(config, m) \intersect started = {}
    BY DEF Refusal
  <2>1. CASE m = n
    BY <1>1, <1>2, <2>1 DEF IInv, Types, Refusal
  <2>2. CASE m # n
    BY <1>1, <1>2, <2>2 DEF IInv, Types, Refusal
  <2> QED
    BY <2>1, <2>2
<1> QED
  BY <1>3, <1>4, <1>5, <1>6 DEF IInv

LEMMA MainKeeps ==
  ASSUME IInv, NEW n \in job_nodes(config), MainStepOf(n) \/ EnvironmentError(n)
  PROVE  IInv'
<1>1. n \in Nodes
  BY DEF job_nodes
<1>2. CASE NodeListError(n)
  BY <1>2, EndKeeps DEF NodeListError, files
<1>3. CASE EnvironmentError(n)
  BY <1>3, EndKeeps DEF EnvironmentError, files
<1>4. CASE MainDone(n)
  BY <1>4, EndKeeps DEF MainDone, files
<1>5. CASE MainDies(n)
  BY <1>5, EndKeeps DEF MainDies
<1>6. CASE StartNode(n)
  <2> USE <1>1, <1>6 DEF StartNode, Goto, files, IInv
  <2>1. Types'
    BY DEF Types
  <2>2. CacheFirst'
    BY DEF Types, CacheFirst
  <2>3. BenchLast'
    BY DEF BenchLast
  <2>4. Refusal'
    BY DEF Types, Refusal
  <2> QED
    BY <2>1, <2>2, <2>3, <2>4
<1>7. CASE SetupCache(n)
  <2> USE <1>1, <1>7 DEF SetupCache, Goto, files, IInv
  <2>1. Types'
    BY DEF Types
  <2>2. CacheFirst'
    BY DEF Types, CacheFirst
  <2>3. BenchLast'
    BY DEF BenchLast
  <2>4. Refusal'
    BY DEF Types, Refusal
  <2> QED
    BY <2>1, <2>2, <2>3, <2>4
<1>8. CASE LaunchEtcd(n)
  <2> USE <1>1, <1>8 DEF LaunchEtcd, Goto, files, IInv
  <2>1. Types'
    BY DEF Types
  <2>2. CacheFirst'
    BY DEF Types, CacheFirst
  <2>3. BenchLast'
    BY DEF BenchLast
  <2>4. Refusal'
    BY DEF Types, Refusal
  <2> QED
    BY <2>1, <2>2, <2>3, <2>4
<1>9. CASE WaitForEtcd(n) \/ MainFatal(n)
  <2> USE <1>1, <1>9 DEF WaitForEtcd, MainFatal, Goto, files, IInv
  <2>1. Types'
    BY DEF Types
  <2>2. CacheFirst'
    BY DEF Types, CacheFirst
  <2>3. BenchLast'
    BY DEF BenchLast
  <2>4. Refusal'
    BY DEF Types, Refusal
  <2> QED
    BY <2>1, <2>2, <2>3, <2>4
<1>10. CASE StartRoles(n)
  <2> USE <1>1, <1>10 DEF StartRoles, Goto, files, IInv
  <2>1. Types'
    BY DEF Types
  <2>2. CacheFirst'
    BY DEF Types, CacheFirst
  <2>3. BenchLast'
    BY DEF BenchLast
  <2>4. Refusal'
    BY DEF Types, Refusal
  <2> QED
    BY <2>1, <2>2, <2>3, <2>4
<1> QED
  BY <1>2, <1>3, <1>4, <1>5, <1>6, <1>7, <1>8, <1>9, <1>10 DEF MainStepOf

(* The other processes of a node.                                          *)
LEMMA LaunchKeeps ==
  ASSUME IInv, NEW n \in job_nodes(config), LaunchWorkers(n)
  PROVE  IInv'
<1> USE DEF LaunchWorkers, files, IInv
<1>1. n \in Nodes
  BY DEF job_nodes
<1>2. Types'
  BY <1>1 DEF Types, workers_on
<1>3. CacheFirst'
  BY DEF CacheFirst
<1>4. BenchLast'
  BY DEF BenchLast
<1>5. Refusal'
  <2>1. \A m \in Nodes : m # n => workers_on(config, m) \intersect workers_on(config, n) = {}
    BY DEF workers_on
  <2>2. ~(main[n] = "start" \/ (Sound(config) /\ main[n] = "exit_1" /\ ~failure))
    BY <1>1 DEF Refusal
  <2> QED
    BY <1>1, <2>1, <2>2 DEF Types, Refusal
<1> QED
  BY <1>2, <1>3, <1>4, <1>5

LEMMA MonitorKeeps ==
  ASSUME IInv, NEW n \in job_nodes(config), MonitorStarts(n) \/ MonitorDies(n)
  PROVE  IInv'
<1> USE DEF MonitorStarts, MonitorDies, files, IInv
<1>1. n \in Nodes
  BY DEF job_nodes
<1>2. Types'
  BY <1>1 DEF Types
<1>3. CacheFirst'
  BY DEF CacheFirst
<1>4. BenchLast'
  BY DEF BenchLast
<1>5. Refusal'
  BY DEF Refusal
<1> QED
  BY <1>2, <1>3, <1>4, <1>5

LEMMA BenchKeeps ==
  ASSUME IInv, BenchStep
  PROVE  IInv'
<1>1. CASE BenchStarts
  <2> USE <1>1 DEF BenchStarts, files, IInv
  <2>1. Types'
    BY DEF Types
  <2>2. CacheFirst'
    BY DEF CacheFirst
  <2>3. BenchLast'
    BY AllAreReady DEF BenchLast, Types, frontend_ready
  <2>4. Refusal'
    BY DEF Refusal
  <2> QED
    BY <2>1, <2>2, <2>3, <2>4
<1>2. CASE BenchFatal \/ BenchDies
  <2> USE <1>2 DEF BenchFatal, BenchDies, files, IInv
  <2>1. Types'
    BY DEF Types
  <2>2. CacheFirst'
    BY DEF CacheFirst
  <2>3. BenchLast'
    BY DEF BenchLast
  <2>4. Refusal'
    BY DEF Refusal
  <2> QED
    BY <2>1, <2>2, <2>3, <2>4
<1>3. CASE BenchEnds \/ MarkDone
  <2> USE <1>3 DEF BenchEnds, MarkDone, files, IInv
  <2>1. Types'
    BY DEF Types
  <2>2. CacheFirst'
    BY DEF CacheFirst
  <2>3. BenchLast'
    BY DEF BenchLast
  <2>4. Refusal'
    BY DEF Refusal
  <2> QED
    BY <2>1, <2>2, <2>3, <2>4
<1> QED
  BY <1>1, <1>2, <1>3 DEF BenchStep

LEMMA WorkerKeeps ==
  ASSUME IInv, EtcdReady \/ \E w \in Workers(config) : WorkerInitialised(w) \/ WorkerBreaks(w)
  PROVE  IInv'
<1>1. CASE EtcdReady
  <2> USE <1>1 DEF EtcdReady, files, IInv
  <2>1. Types'
    BY DEF Types
  <2>2. CacheFirst' /\ BenchLast' /\ Refusal'
    BY DEF CacheFirst, BenchLast, Refusal
  <2> QED
    BY <2>1, <2>2
<1>2. ASSUME NEW w \in Workers(config), WorkerInitialised(w) \/ WorkerBreaks(w)
      PROVE  IInv'
  <2> USE <1>2 DEF WorkerInitialised, WorkerBreaks, IInv
  <2>1. Types'
    BY DEF Types
  <2>2. CacheFirst'
    BY DEF CacheFirst
  <2>3. BenchLast'
    BY DEF BenchLast, Types
  <2>4. Refusal'
    BY DEF Refusal
  <2> QED
    BY <2>1, <2>2, <2>3, <2>4
<1> QED
  BY <1>1, <1>2

LEMMA NextIInv == IInv /\ [Next]_vars => IInv'
<1> SUFFICES ASSUME IInv, [Next]_vars PROVE IInv'
  OBVIOUS
<1>1. ASSUME NEW n \in job_nodes(config), MainStepOf(n) \/ EnvironmentError(n)
      PROVE  IInv'
  BY <1>1, MainKeeps
<1>2. ASSUME NEW n \in job_nodes(config), LaunchWorkers(n)
      PROVE  IInv'
  BY <1>2, LaunchKeeps
<1>3. ASSUME NEW n \in job_nodes(config), MonitorStarts(n) \/ MonitorDies(n)
      PROVE  IInv'
  BY <1>3, MonitorKeeps
<1>4. CASE BenchStep
  BY <1>4, BenchKeeps
<1>5. CASE EtcdReady \/ \E w \in Workers(config) : WorkerInitialised(w) \/ WorkerBreaks(w)
  BY <1>5, WorkerKeeps
<1>6. CASE UNCHANGED vars
  BY <1>6 DEF vars, files, IInv, Types, CacheFirst, BenchLast, Refusal
<1> QED
  BY <1>1, <1>2, <1>3, <1>4, <1>5, <1>6 DEF Next

LEMMA Invariance == Spec => []IInv
<1> QED
  BY InitIInv, NextIInv, PTL DEF Spec

-----------------------------------------------------------------------------
(* Errors after the success marker: a step gives up only where it looks    *)
(* for errors, and finds one, and the marker is not there.                 *)

LEMMA GivesUp ==
  ASSUME IInv, [Next]_vars, ~Dying, Dying'
  PROVE  exit_on_error
<1> SUFFICES ASSUME ~exit_on_error PROVE ~Dying'
  OBVIOUS
<1>1. ASSUME NEW n \in job_nodes(config), NEW code \in {"exit_0", "exit_1"}, NodeEnds(n, code),
             UNCHANGED failure
      PROVE  ~Dying'
  <2>1. /\ main' = [main EXCEPT ![n] = code] /\ monitor' = [monitor EXCEPT ![n] = "gone"]
        /\ bench' \in {bench, "gone"} /\ n \in Nodes
    BY <1>1, EndFacts DEF IInv, job_nodes
  <2> QED
    BY <1>1, <2>1 DEF IInv, Types, Dying
<1>2. ASSUME NEW n \in job_nodes(config), MainStepOf(n) \/ EnvironmentError(n)
      PROVE  ~Dying'
  <2>1. CASE NodeListError(n) \/ EnvironmentError(n) \/ MainDone(n)
    BY <1>1, <2>1 DEF NodeListError, EnvironmentError, MainDone, files
  <2>2. CASE MainFatal(n) \/ MainDies(n)
    BY <2>2 DEF MainFatal, MainDies, Dying, job_nodes
  <2>3. CASE StartNode(n)
    BY <2>3 DEF StartNode, Goto, files, job_nodes, IInv, Types, Dying
  <2>4. CASE SetupCache(n) \/ LaunchEtcd(n) \/ WaitForEtcd(n)
    BY <2>4 DEF SetupCache, LaunchEtcd, WaitForEtcd, Goto, files, job_nodes, IInv, Types, Dying
  <2>5. CASE StartRoles(n)
    BY <2>5 DEF StartRoles, Goto, files, job_nodes, IInv, Types, Dying
  <2> QED
    BY <1>2, <2>1, <2>2, <2>3, <2>4, <2>5 DEF MainStepOf
<1>3. ASSUME NEW n \in job_nodes(config), LaunchWorkers(n) \/ MonitorStarts(n) \/ MonitorDies(n)
      PROVE  ~Dying'
  BY <1>3 DEF LaunchWorkers, MonitorStarts, MonitorDies, files, job_nodes, IInv, Types, Dying
<1>4. CASE BenchStep
  <2>1. CASE BenchFatal \/ BenchDies
    BY <2>1 DEF BenchFatal, BenchDies, Dying
  <2>2. CASE BenchStarts \/ BenchEnds \/ MarkDone
    <3>1. failure' = failure /\ main' = main /\ monitor' = monitor /\ bench' # "dying"
      BY <2>2, SMTT(30) DEF BenchStarts, BenchEnds, MarkDone, files
    <3> QED
      BY <3>1 DEF Dying
  <2> QED
    BY <1>4, <2>1, <2>2 DEF BenchStep
<1>5. CASE EtcdReady \/ \E w \in Workers(config) : WorkerInitialised(w) \/ WorkerBreaks(w)
  BY <1>5 DEF EtcdReady, WorkerInitialised, WorkerBreaks, files, Dying
<1>6. CASE UNCHANGED vars
  BY <1>6 DEF vars, files, Dying
<1> QED
  BY <1>2, <1>3, <1>4, <1>5, <1>6 DEF Next

(* The error stays in the log, and the marker in the directory.            *)
LEMMA FilesStay ==
  ASSUME [Next]_vars
  PROVE  broken \subseteq broken' /\ (done => done')
<1>1. ASSUME NEW n \in job_nodes(config), MainStepOf(n) \/ EnvironmentError(n)
      PROVE  broken' = broken /\ done' = done
  BY <1>1 DEF MainStepOf, StartNode, NodeListError, EnvironmentError, SetupCache, LaunchEtcd,
              WaitForEtcd, StartRoles, MainDone, MainFatal, MainDies, files
<1>2. ASSUME NEW n \in job_nodes(config), LaunchWorkers(n) \/ MonitorStarts(n) \/ MonitorDies(n)
      PROVE  broken' = broken /\ done' = done
  BY <1>2 DEF LaunchWorkers, MonitorStarts, MonitorDies, files
<1>3. CASE BenchStep \/ EtcdReady
  BY <1>3 DEF BenchStep, BenchStarts, BenchFatal, BenchDies, BenchEnds, MarkDone, EtcdReady, files
<1>4. CASE \E w \in Workers(config) : WorkerInitialised(w) \/ WorkerBreaks(w)
  BY <1>4 DEF WorkerInitialised, WorkerBreaks
<1>5. CASE UNCHANGED vars
  BY <1>5 DEF vars, files
<1> QED
  BY <1>1, <1>2, <1>3, <1>4, <1>5 DEF Next

LEMMA NextErrorFound == IInv /\ ErrorFound /\ [Next]_vars => ErrorFound'
<1> SUFFICES ASSUME IInv, ErrorFound, [Next]_vars, Dying' PROVE broken' # {}
  BY DEF ErrorFound
<1>1. broken # {}
  BY GivesUp DEF ErrorFound, exit_on_error, fatal
<1> QED
  BY <1>1, FilesStay

LEMMA MarkedStays == IInv /\ done /\ ~Dying /\ [Next]_vars => done' /\ ~Dying'
<1> SUFFICES ASSUME IInv, done, ~Dying, [Next]_vars PROVE done' /\ ~Dying'
  OBVIOUS
<1>1. ~exit_on_error
  BY DEF exit_on_error
<1> QED
  BY <1>1, GivesUp, FilesStay

-----------------------------------------------------------------------------
(* Results.                                                                *)

(* Every reachable state of the launch is well typed: among others, only   *)
(* workers that were started are initialised or break.                     *)
THEOREM TypeCorrect == Spec => []Types
<1> QED
  BY Invariance, PTL DEF IInv

(* The cache is emptied before any worker runs, and the benchmark runs     *)
(* when every worker of every node is initialised.                         *)
THEOREM StartsInOrder == Spec => []StartedInOrder
<1>1. IInv => StartedInOrder
  BY SomeWorker DEF IInv, Types, CacheFirst, BenchLast, StartedInOrder
<1> QED
  BY <1>1, Invariance, PTL

(* A node that gave up fails the run: either its marker says so, or the    *)
(* benchmark has waited in vain for the workers of that node.              *)
THEOREM FailedNodesCount == Spec => []FailedNodeFailsRun
<1>1. IInv => FailedNodeFailsRun
  <2> SUFFICES ASSUME IInv, Sound(config), NEW n \in Nodes, main[n] = "exit_1",
                      ~failure, done
               PROVE  FALSE
    BY DEF FailedNodeFailsRun, was_run_successful
  <2>1. n \in job_nodes(config) /\ workers_on(config, n) \intersect started = {}
    BY DEF IInv, Refusal
  <2>2. workers_on(config, n) # {}
    BY <2>1, EveryNodeWorks DEF Sound, IInv, Types
  <2>3. workers_on(config, n) \subseteq started
    BY DEF IInv, Types, BenchLast, workers_on
  <2> QED
    BY <2>1, <2>2, <2>3
<1> QED
  BY <1>1, Invariance, PTL

(* A benchmark that ends before any worker has broken is judged by its     *)
(* report, whatever breaks while the nodes leave: who still polls finds    *)
(* the success marker before it gives up.                                  *)
THEOREM LateErrorsDoNotCount == Spec => LateErrorsIgnored
<1>1. Init => ErrorFound
  BY DEF Init, ErrorFound, Dying
<1>2. Spec => [](IInv /\ ErrorFound)
  BY <1>1, Invariance, NextErrorFound, PTL DEF Spec
<1>3. ErrorFound /\ done /\ broken = {} => done /\ ~Dying
  BY DEF ErrorFound
<1>4. done /\ ~Dying => (was_run_successful <=> report)
  BY DEF Dying, was_run_successful
<1>5. IInv /\ done /\ ~Dying /\ [Next]_vars => (done /\ ~Dying)'
  BY MarkedStays
<1> QED
  BY <1>2, <1>3, <1>4, <1>5, PTL DEF Spec, LateErrorsIgnored
=============================================================================
