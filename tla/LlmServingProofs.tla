-------------------------- MODULE LlmServingProofs --------------------------
(***************************************************************************)
(* Proofs about LlmServing, for every set of test runs, any number of      *)
(* health checks and every set of faults: no server outlives its script.   *)
(***************************************************************************)
EXTENDS LlmServing, TLAPS, SequenceTheorems, FunctionTheorems, FiniteSetTheorems

(* The script waits for a server only while there is one to wait for, and  *)
(* cleanup() is entered at most twice, the second time from the trap.      *)
Course ==
  /\ pc \in Wait => waits # <<>>
  /\ pc \notin {"cleanup", "exit", "over"} => awaited = <<>> /\ cleanups = 0
  /\ pc = "cleanup" => cleanups = IF awaited = <<>> THEN 0 ELSE 1
  /\ pc = "exit" => cleanups \in IF awaited = <<>> THEN {0, 1} ELSE {1, 2}

(* Once the script is in the last cleanup(), every server is down or was   *)
(* told to end.                                                            *)
Down(s) == server[s] \in {"none", "dead", "terminating"}

Ending == pc = "over" \/ (pc = "exit" /\ awaited # <<>>) => \A s \in Servers : Down(s)

Types == TypeOK /\ config \in Configs

IInv == Types /\ Course /\ Ending

(* The endpoint of a server is one of the endpoints.                       *)
LEMMA EndpointFacts ==
  ASSUME Types, NEW s \in Servers
  PROVE  endpoint(config, s) \in Endpoints
  <1>1. config.port \in Nat
    BY DEF Types, TypeOK, Config
  <1>2. service_port(config, s) \in {config.port + d : d \in {0, 100, 200}}
    BY <1>1 DEF service_port, Servers
  <1>3. role_host(config, s) \in {1, 2}
    BY DEF role_host
  <1> QED
    BY <1>2, <1>3 DEF endpoint, Endpoints

(* The list of PIDs is a list of servers, and empty only if there is none. *)
LEMMA KnownFacts ==
  ASSUME NEW s \in Servers
  PROVE  /\ Known(s) \in Seq(Servers) /\ Len(Known(s)) \in Nat
         /\ s \in pids => Len(Known(s)) > 0
  <1>1. CASE s \in pids
    <2>1. Known(s) = <<s>>
      BY <1>1 DEF Known
    <2>2. <<s>> \in Seq(Servers) /\ Len(<<s>>) = 1
      OBVIOUS
    <2> QED
      BY <2>1, <2>2
  <1>2. CASE s \notin pids
    <2>1. Known(s) = <<>>
      BY <1>2 DEF Known
    <2>2. <<>> \in Seq(Servers) /\ Len(<<>>) = 0
      OBVIOUS
    <2> QED
      BY <1>2, <2>1, <2>2
  <1> QED
    BY <1>1, <1>2

LEMMA PidListFacts ==
  ASSUME pids \in SUBSET Servers
  PROVE  PidList \in Seq(Servers) /\ (PidList = <<>> => pids = {})
  <1> DEFINE k1 == Known("serve") k2 == Known("prefill") k3 == Known("decode") k4 == Known("router")
  <1>1. /\ "serve" \in Servers /\ "prefill" \in Servers /\ "decode" \in Servers
        /\ "router" \in Servers
    BY DEF Servers
  <1>2. k1 \in Seq(Servers) /\ Len(k1) \in Nat /\ ("serve" \in pids => Len(k1) > 0)
    BY <1>1, KnownFacts
  <1>3. k2 \in Seq(Servers) /\ Len(k2) \in Nat /\ ("prefill" \in pids => Len(k2) > 0)
    BY <1>1, KnownFacts
  <1>4. k3 \in Seq(Servers) /\ Len(k3) \in Nat /\ ("decode" \in pids => Len(k3) > 0)
    BY <1>1, KnownFacts
  <1>5. k4 \in Seq(Servers) /\ Len(k4) \in Nat /\ ("router" \in pids => Len(k4) > 0)
    BY <1>1, KnownFacts
  <1>6. pids # {} => "serve" \in pids \/ "prefill" \in pids \/ "decode" \in pids \/ "router" \in pids
    BY DEF Servers
  <1>7. PidList = k1 \o k2 \o k3 \o k4
    BY DEF PidList
  <1> HIDE DEF k1, k2, k3, k4
  <1>8. k1 \o k2 \in Seq(Servers) /\ Len(k1 \o k2) = Len(k1) + Len(k2)
    BY <1>2, <1>3, ConcatProperties
  <1>9. k1 \o k2 \o k3 \in Seq(Servers) /\ Len(k1 \o k2 \o k3) = Len(k1 \o k2) + Len(k3)
    BY <1>8, <1>4, ConcatProperties
  <1>10. PidList \in Seq(Servers) /\ Len(PidList) = Len(k1 \o k2 \o k3) + Len(k4)
    BY <1>9, <1>5, <1>7, ConcatProperties
  <1>11. pids # {} => Len(PidList) > 0
    BY <1>2, <1>3, <1>4, <1>5, <1>6, <1>8, <1>9, <1>10
  <1> QED
    BY <1>10, <1>11

(* The initial states.                                                     *)
LEMMA InitIInv == Init => IInv
  <1> SUFFICES ASSUME Init PROVE IInv
    OBVIOUS
  <1>1. config \in Config
    BY ConfigsAssumption DEF Init
  <1>2. AllServers(config) \subseteq Servers
    BY DEF AllServers, Roles, Servers
  <1>3. stubborn \in SUBSET Servers
    BY <1>2 DEF Init
  <1>4. output \in Output
    BY DEF Init, Output
  <1>5. /\ pc \in {"setup", "start"} /\ waits = <<>> /\ checks = 0 /\ pids = {} /\ awaited = <<>>
        /\ cleanups = 0 /\ faults = {} /\ server = [s \in Servers |-> "none"]
    BY DEF Init
  <1>6. waits \in Seq(Endpoints) /\ Len(waits) <= 2 /\ awaited \in Seq(Servers)
    BY <1>5
  <1>7. TypeOK
    BY <1>1, <1>3, <1>4, <1>5, <1>6, MaxChecksAssumption DEF TypeOK, Launch
  <1> QED
    BY <1>5, <1>7 DEF Init, IInv, Types, Course, Ending, Wait, Down

(* What starting servers does.                                             *)
Launches ==
  /\ pc \in Launch /\ pc' \in Wait
  /\ waits' \in Seq(Endpoints) /\ waits' # <<>> /\ Len(waits') <= 2
  /\ pids' \in SUBSET Servers /\ checks' = MaxChecks
  /\ server' \in [Servers -> {"none", "starting", "ready", "terminating", "dead"}]
  /\ \A s \in Servers \ pids' : server'[s] = "none"
  /\ UNCHANGED <<config, awaited, cleanups, stubborn, output, faults>>

LEMMA StartFacts ==
  ASSUME Types, Start \/ StartRouter
  PROVE  Launches
  <1>1. ASSUME NEW S \in SUBSET Servers, NEW endpoints \in Seq(Endpoints), NEW next \in Wait,
               endpoints # <<>>, Len(endpoints) <= 2, pc \in Launch,
               StartServers(S, endpoints, next)
        PROVE  Launches
    BY <1>1 DEF StartServers, Launches, Types, TypeOK
  <1>2. /\ Roles(config) \in SUBSET Servers /\ {"router"} \in SUBSET Servers
        /\ "prefill" \in Servers /\ "decode" \in Servers /\ "serve" \in Servers
        /\ "wait" \in Wait /\ "wait_router" \in Wait
    BY DEF Roles, Servers, Wait
  <1>3. /\ endpoint(config, "prefill") \in Endpoints /\ endpoint(config, "decode") \in Endpoints
        /\ endpoint(config, "serve") \in Endpoints /\ endpoint(config, "router") \in Endpoints
    BY <1>2, EndpointFacts
  <1>4. pc \in Launch
    BY DEF Start, StartRouter, Launch
  <1>5. CASE Start /\ config.disaggregated
    <2> DEFINE e == <<endpoint(config, "prefill"), endpoint(config, "decode")>>
    <2>1. e \in Seq(Endpoints) /\ e # <<>> /\ Len(e) <= 2
      BY <1>3
    <2>2. StartServers(Roles(config), e, "wait")
      BY <1>5 DEF Start
    <2> HIDE DEF e
    <2> QED
      BY <1>1, <1>2, <1>4, <2>1, <2>2
  <1>6. CASE Start /\ ~config.disaggregated
    <2> DEFINE e == <<endpoint(config, "serve")>>
    <2>1. e \in Seq(Endpoints) /\ e # <<>> /\ Len(e) <= 2
      BY <1>3
    <2>2. StartServers(Roles(config), e, "wait")
      BY <1>6 DEF Start
    <2> HIDE DEF e
    <2> QED
      BY <1>1, <1>2, <1>4, <2>1, <2>2
  <1>7. CASE StartRouter
    <2> DEFINE e == <<endpoint(config, "router")>>
    <2>1. e \in Seq(Endpoints) /\ e # <<>> /\ Len(e) <= 2
      BY <1>3
    <2>2. StartServers({"router"}, e, "wait_router")
      BY <1>7 DEF StartRouter
    <2> HIDE DEF e
    <2> QED
      BY <1>1, <1>2, <1>4, <2>1, <2>2
  <1> QED
    BY <1>5, <1>6, <1>7

(* Every step of the script keeps the invariant.                           *)
LEMMA ScriptIInv == IInv /\ Script => IInv'
  <1> SUFFICES ASSUME IInv, Script PROVE IInv'
    OBVIOUS
  <1>0. pids \in SUBSET Servers /\ MaxChecks \in Nat \ {0}
    BY MaxChecksAssumption DEF IInv, Types, TypeOK
  <1>10. config' = config /\ Endpoints' = Endpoints
    <2>1. config' = config
      BY DEF Script, NodeSetup, Start, StartRouter, StartServers, Healthy, NotHealthy,
         HealthTimeout, Benchmark, Cleanup, CleanupWaits
    <2> QED
      BY <2>1 DEF Endpoints
  <1> USE <1>0, <1>10
  <1> USE DEF IInv, Types, TypeOK, Course, Ending, Launch, Wait
  <1>1. CASE NodeSetup
    BY <1>1 DEF NodeSetup, Down
  <1>2. CASE Start \/ StartRouter
    <2>1. Launches
      BY <1>2, StartFacts
    <2> QED
      BY <2>1 DEF Launches, Down
  <1>4. CASE Healthy
    <2>1. AfterWait \in {"start_router", "bench"}
      BY DEF AfterWait
    <2>2. waits \in Seq(Endpoints) /\ waits # <<>> /\ Len(waits) <= 2
      BY <1>4 DEF Healthy
    <2>3. /\ Tail(waits) \in Seq(Endpoints) /\ Len(Tail(waits)) = Len(waits) - 1
          /\ Len(waits) \in Nat /\ Len(waits) > 0
      BY ONLY <2>2
    <2>4. /\ waits' = Tail(waits) /\ pc \in Wait /\ checks' = MaxChecks
          /\ pc' = IF Len(waits) = 1 THEN AfterWait ELSE pc
          /\ UNCHANGED <<config, pids, awaited, cleanups, server, stubborn, output, faults>>
      BY <1>4 DEF Healthy, cluster
    <2>5. pc' \in Wait => waits' # <<>>
      BY <2>1, <2>3, <2>4
    <2> QED
      BY <2>1, <2>3, <2>4, <2>5 DEF Down
  <1>5. CASE NotHealthy
    BY <1>5 DEF NotHealthy, cluster, Down
  <1>6. CASE HealthTimeout
    BY <1>6 DEF HealthTimeout, Down
  <1>7. CASE Benchmark
    <2>1. /\ output' \in Output
          /\ faults' \subseteq faults \union {"bench"}
      <3>1. PICK completed \in {"none", "zero", "some"}, written \in BOOLEAN :
              output' = [completed |-> completed, result_file |-> written]
        BY <1>7 DEF Benchmark
      <3>2. output' \in Output
        BY <3>1 DEF Output
      <3> QED
        BY <1>7, <3>2 DEF Benchmark
    <2> QED
      BY <1>7, <2>1 DEF Benchmark, Down
  <1>8. CASE Cleanup
    <2>1. PidList \in Seq(Servers) /\ (PidList = <<>> => pids = {})
      BY PidListFacts
    <2>2. server' = [s \in Servers |-> Terminated(s)]
      BY <1>8 DEF Cleanup
    <2>3. /\ \A s \in Servers : Down(s)'
          /\ server' \in [Servers -> {"none", "starting", "ready", "terminating", "dead"}]
          /\ \A s \in Servers \ pids : server'[s] = "none"
      BY <2>2 DEF Terminated, Down
    <2>4. pids = {} => PidList = <<>>
      BY DEF PidList, Known
    <2>5. Types'
      BY <1>8, <2>1, <2>3 DEF Cleanup, LeaveCleanup
    <2>6. Course'
      BY <1>8, <2>1, <2>4 DEF Cleanup, LeaveCleanup
    <2> QED
      BY <2>3, <2>5, <2>6
  <1>9. CASE CleanupWaits
    <2>1. Tail(awaited) \in Seq(Servers)
      BY <1>9 DEF CleanupWaits
    <2>2. Types'
      <3>1. awaited' = Tail(awaited) \/ awaited' = <<>>
        BY <1>9 DEF CleanupWaits
      <3>2. pc' \in {"cleanup", "exit", "over"}
        BY <1>9 DEF CleanupWaits, LeaveCleanup
      <3>3. awaited' \in Seq(Servers)
        <4>1. CASE awaited' = Tail(awaited)
          BY <2>1, <4>1
        <4>2. CASE awaited' = <<>>
          BY ONLY <4>2
        <4> QED
          BY <3>1, <4>1, <4>2
      <3>4. UNCHANGED <<config, waits, checks, pids, cleanups, server, stubborn, output, faults>>
        BY <1>9 DEF CleanupWaits, cluster
      <3> QED
        BY <3>2, <3>3, <3>4
    <2>3. Course' /\ Ending'
      BY <1>9 DEF CleanupWaits, LeaveCleanup, cluster, Down
    <2> QED
      BY <2>2, <2>3
  <1> QED
    BY <1>1, <1>2, <1>4, <1>5, <1>6, <1>7, <1>8, <1>9 DEF Script

(* Every step keeps the invariant.                                         *)
LEMMA NextIInv == IInv /\ [Next]_vars => IInv'
  <1> SUFFICES ASSUME IInv, [Next]_vars PROVE IInv'
    OBVIOUS
  <1>1. CASE Script
    BY <1>1, ScriptIInv
  <1>0. config' = config => Endpoints' = Endpoints
    BY DEF Endpoints
  <1> USE <1>0
  <1> USE DEF IInv, Types, TypeOK, Course, Ending, Launch, Wait, Down
  <1>2. CASE Killed
    BY <1>2 DEF Killed
  <1>3. ASSUME NEW s \in Servers, ServerReady(s) \/ ServerCrashes(s) \/ ServerEnds(s)
        PROVE  IInv'
    BY <1>3 DEF ServerReady, ServerCrashes, ServerEnds, script
  <1>4. CASE UNCHANGED vars
    BY <1>4 DEF vars, script, cluster
  <1> QED
    BY <1>1, <1>2, <1>3, <1>4 DEF Next

LEMMA Invariance == Spec => []IInv
  BY InitIInv, NextIInv, PTL DEF Spec

(* The variables of LlmServing keep their types in every behaviour.        *)
THEOREM TypeCorrect == Spec => []TypeOK
  <1>1. IInv => TypeOK
    BY DEF IInv, Types
  <1> QED
    BY <1>1, Invariance, PTL

(* On every way out of the script of a vLLM or SGLang job no server is     *)
(* left that was not told to end, whatever its configuration, its servers  *)
(* and its benchmark do.                                                   *)
THEOREM ServersEnded == Spec => []NoServerLeft
  <1>1. IInv => NoServerLeft
    BY DEF IInv, Ending, NoServerLeft, Down
  <1> QED
    BY <1>1, Invariance, PTL


-----------------------------------------------------------------------------
(* That a test run which passes the constraints is served. No list of GPU  *)
(* ids of a test run names a GPU twice.                                    *)
NoRepeats(c) == IsInjective(c.prefill_ids) /\ IsInjective(c.decode_ids) /\ IsInjective(c.visible)

Admitted(c) == c.workload = "vLLM" /\ constraint_check(c) /\ ~GpusGivenTwice(c)

(* The endpoints the script waits for, of servers it has started; the      *)
(* servers of those it no longer waits for are ready.                      *)
Waiting ==
  IF pc = "wait_router"
    THEN waits = <<endpoint(config, "router")>>
    ELSE \/ ~config.disaggregated /\ waits = <<endpoint(config, "serve")>>
         \/ config.disaggregated /\ waits = <<endpoint(config, "prefill"), endpoint(config, "decode")>>
         \/ /\ config.disaggregated /\ waits = <<endpoint(config, "decode")>>
            /\ server["prefill"] = "ready"

(* The way of the script while nothing has gone wrong: the servers that    *)
(* are started stay up, and nothing is started or run before what it needs *)
(* is ready.                                                               *)
Serving ==
  faults = {} /\ Admitted(config) =>
    /\ pc \in {"setup", "start"} => pids = {}
    /\ pc \in {"setup", "start_router", "wait_router"} => config.disaggregated
    /\ pc \in {"wait", "start_router"} => pids = Roles(config)
    /\ pc \in {"wait_router", "bench"} => pids = AllServers(config)
    /\ pc \notin {"cleanup", "exit", "over"} => \A s \in pids : server[s] \in {"starting", "ready"}
    /\ pc \in Wait => Waiting
    /\ pc \in {"start_router", "wait_router"} => \A s \in Roles(config) : server[s] = "ready"
    /\ pc = "bench" => AllReady
    /\ pc \in {"cleanup", "exit", "over"} => output = [completed |-> "some", result_file |-> TRUE]

(* As many GPUs are on a host as a list without repetitions has ids.       *)
LEMMA GpusCounted ==
  ASSUME NEW s \in Seq(Nat), IsInjective(s), NEW h
  PROVE  LET G == {<<h, g>> : g \in ToSet(s)} IN IsFiniteSet(G) /\ Cardinality(G) = Len(s)
  <1> DEFINE G == {<<h, g>> : g \in ToSet(s)}
             I == 1 .. Len(s)
             f == [i \in I |-> <<h, s[i]>>]
  <1>1. Len(s) \in Nat /\ DOMAIN s = I
    OBVIOUS
  <1>2. IsFiniteSet(I) /\ Cardinality(I) = Len(s)
    <2>1. PICK n \in Nat : n = Len(s)
      BY <1>1
    <2>2. IsFiniteSet(1 .. n) /\ Cardinality(1 .. n) = IF 1 > n THEN 0 ELSE n - 1 + 1
      BY FS_Interval
    <2> QED
      BY <2>1, <2>2, SMTT(40)
  <1>3. f \in [I -> G]
    BY <1>1 DEF ToSet
  <1>4. \A a, b \in I : f[a] = f[b] => a = b
    BY <1>1 DEF IsInjective
  <1>5. \A t \in G : \E i \in I : f[i] = t
    BY <1>1 DEF ToSet
  <1>6. f \in Bijection(I, G)
    <2> HIDE DEF f, G, I
    <2> QED
      BY <1>3, <1>4, <1>5, Fun_IsBij
  <1>7. ExistsBijection(I, G)
    <2> HIDE DEF f, G, I
    <2> QED
      BY <1>6, Fun_ExistsBij
  <1> QED
    BY <1>2, <1>7, FS_Bijection

(* The two halves of a list without repetitions have no id in common.      *)
LEMMA Halves ==
  ASSUME NEW s \in Seq(Nat), IsInjective(s), NEW m \in 0 .. Len(s)
  PROVE  LET P == SubSeq(s, 1, m)
             D == SubSeq(s, m + 1, Len(s))
         IN /\ P \in Seq(Nat) /\ D \in Seq(Nat) /\ IsInjective(P) /\ IsInjective(D)
            /\ Len(P) = m /\ Len(D) = Len(s) - m
            /\ ToSet(P) \intersect ToSet(D) = {}
  <1> DEFINE P == SubSeq(s, 1, m)
             D == SubSeq(s, m + 1, Len(s))
  <1>1. Len(s) \in Nat /\ DOMAIN s = 1 .. Len(s) /\ \A i \in 1 .. Len(s) : s[i] \in Nat
    OBVIOUS
  <1>2. P \in Seq(Nat) /\ Len(P) = m /\ \A i \in 1 .. m : P[i] = s[i]
    BY <1>1, SubSeqProperties
  <1>3. D \in Seq(Nat) /\ Len(D) = Len(s) - m /\ \A i \in 1 .. Len(s) - m : D[i] = s[m + i]
    <2>1. /\ D \in Seq(Nat) /\ Len(D) = IF m + 1 <= Len(s) THEN Len(s) - (m + 1) + 1 ELSE 0
          /\ \A i \in 1 .. Len(s) - (m + 1) + 1 : D[i] = s[m + 1 + i - 1]
      BY <1>1, SubSeqProperties, SMTT(40)
    <2>2. PICK n \in Nat : n = Len(s)
      BY <1>1
    <2>3. n - (m + 1) + 1 = n - m /\ m \in 0 .. n /\ \A i \in Nat : m + 1 + i - 1 = m + i
      BY <2>2
    <2>4. (IF m + 1 <= n THEN n - (m + 1) + 1 ELSE 0) = n - m
      BY <2>3
    <2> HIDE DEF D
    <2> QED
      BY <2>1, <2>2, <2>3, <2>4
  <1> HIDE DEF P, D
  <1>4. DOMAIN P = 1 .. m /\ DOMAIN D = 1 .. Len(s) - m
    BY <1>2, <1>3
  <1>0. \A i, j \in 1 .. Len(s) : s[i] = s[j] => i = j
    BY <1>1 DEF IsInjective
  <1>5. IsInjective(P) /\ IsInjective(D)
    <2>1. ASSUME NEW a \in 1 .. m, NEW b \in 1 .. m, P[a] = P[b] PROVE a = b
      <3>1. a \in 1 .. Len(s) /\ b \in 1 .. Len(s) /\ s[a] = s[b]
        BY <1>1, <1>2, <2>1
      <3> QED
        BY <1>0, <3>1
    <2>2. ASSUME NEW a \in 1 .. Len(s) - m, NEW b \in 1 .. Len(s) - m, D[a] = D[b] PROVE a = b
      <3>1. m + a \in 1 .. Len(s) /\ m + b \in 1 .. Len(s)
        BY <1>1
      <3>2. s[m + a] = s[m + b]
        BY <1>3, <2>2
      <3>3. m + a = m + b
        BY <1>0, <3>1, <3>2
      <3> QED
        BY <3>3
    <2> QED
      BY <1>4, <2>1, <2>2 DEF IsInjective
  <1>6. ToSet(P) \intersect ToSet(D) = {}
    <2> SUFFICES ASSUME NEW a \in 1 .. m, NEW b \in 1 .. Len(s) - m, P[a] = D[b] PROVE FALSE
      BY <1>4 DEF ToSet
    <2>1. a \in 1 .. Len(s) /\ m + b \in 1 .. Len(s) /\ a # m + b
      BY <1>1
    <2>2. s[a] = s[m + b]
      BY <1>2, <1>3
    <2> QED
      BY <1>0, <2>1, <2>2
  <1> QED
    BY <1>2, <1>3, <1>5, <1>6 DEF P, D

(* The ids a test run is given when none are set for prefill and decode.   *)
LEMMA AllIds ==
  ASSUME NEW c \in Config, NoRepeats(c), ~(c.disaggregated /\ c.prefill_ids # <<>> /\ c.decode_ids # <<>>)
  PROVE  all_gpu_ids(c) \in Seq(Nat) /\ IsInjective(all_gpu_ids(c))
  <1>1. CASE c.visible # <<>>
    BY <1>1 DEF all_gpu_ids, NoRepeats, Config, Ids
  <1>2. CASE c.visible = <<>>
    <2> DEFINE s == [i \in 1 .. c.gpus_per_node |-> i - 1]
    <2>1. all_gpu_ids(c) = s
      BY <1>2 DEF all_gpu_ids
    <2>2. c.gpus_per_node \in Nat
      BY DEF Config
    <2>3. s \in Seq(Nat)
      BY <2>2
    <2>4. IsInjective(s)
      BY <2>2 DEF IsInjective
    <2> QED
      BY <2>1, <2>3, <2>4
  <1> QED
    BY <1>1, <1>2

(* The GPUs of prefill and decode: as many as the throughput is divided    *)
(* by, and on one node none in common. The side channels of prefill have   *)
(* their ports before the first of decode.                                 *)
LEMMA Disaggregated ==
  ASSUME NEW c \in Config, c.disaggregated, check_gpu_ids_setup(c), nodes_supported(c),
         NoRepeats(c), ~GpusGivenTwice(c)
  PROVE  LET P == calculate_prefill_gpu_ids(c)
             D == calculate_decode_gpu_ids(c)
         IN /\ P \in Seq(Nat) /\ D \in Seq(Nat) /\ IsInjective(P) /\ IsInjective(D)
            /\ used_gpus_count(c) = Len(P) + Len(D)
            /\ Len(all_gpu_ids(c)) \in Nat /\ Len(P) <= Len(all_gpu_ids(c))
            /\ c.nodes # 2 => ToSet(P) \intersect ToSet(D) = {}
  <1>1. /\ c.prefill_ids \in Seq(Nat) /\ c.decode_ids \in Seq(Nat) /\ c.nodes \in {1, 2}
        /\ c.prefill_ids = <<>> <=> c.decode_ids = <<>>
    <2>1. c.prefill_ids = <<>> <=> c.decode_ids = <<>>
      BY DEF check_gpu_ids_setup
    <2>2. c.nodes \in Nat \ {0} /\ c.nodes <= 2
      BY DEF Config, nodes_supported
    <2>3. c.nodes \in {1, 2}
      BY <2>2
    <2> QED
      BY <2>1, <2>3 DEF Config, Ids
  <1>2. CASE c.prefill_ids # <<>>
    <2>1. c.decode_ids # <<>>
      BY <1>1, <1>2
    <2>2. /\ calculate_prefill_gpu_ids(c) = c.prefill_ids /\ calculate_decode_gpu_ids(c) = c.decode_ids
          /\ all_gpu_ids(c) = c.prefill_ids \o c.decode_ids
      BY <1>2, <2>1 DEF calculate_prefill_gpu_ids, calculate_decode_gpu_ids, all_gpu_ids
    <2>3. Len(all_gpu_ids(c)) = Len(c.prefill_ids) + Len(c.decode_ids)
      BY <1>1, <2>2, ConcatProperties
    <2>4. used_gpus_count(c) = Len(c.prefill_ids) + Len(c.decode_ids)
      BY <1>1, <1>2, <2>1, <2>3 DEF used_gpus_count
    <2>5. Len(c.prefill_ids) \in Nat /\ Len(c.decode_ids) \in Nat
      BY <1>1
    <2>6. c.nodes # 2 => ToSet(c.prefill_ids) \intersect ToSet(c.decode_ids) = {}
      BY DEF GpusGivenTwice, is_two_node_disaggregated
    <2>7. Len(all_gpu_ids(c)) \in Nat /\ Len(c.prefill_ids) <= Len(all_gpu_ids(c))
      <3>1. \A m, n \in Nat : m + n \in Nat /\ m <= m + n
        OBVIOUS
      <3>2. /\ Len(c.prefill_ids) + Len(c.decode_ids) \in Nat
            /\ Len(c.prefill_ids) <= Len(c.prefill_ids) + Len(c.decode_ids)
        BY ONLY <2>5, <3>1
      <3> QED
        BY ONLY <2>3, <3>2, Zenon
    <2>8. IsInjective(c.prefill_ids) /\ IsInjective(c.decode_ids)
      BY DEF NoRepeats
    <2> QED
      BY <1>1, <2>2, <2>4, <2>6, <2>7, <2>8
  <1>3. CASE c.prefill_ids = <<>>
    <2> DEFINE A == all_gpu_ids(c)
    <2>1. A \in Seq(Nat) /\ IsInjective(A) /\ c.decode_ids = <<>>
      BY <1>1, <1>3, AllIds
    <2>2. Len(A) \in Nat
      BY <2>1
    <2>3. CASE c.nodes = 2
      <3>1. calculate_prefill_gpu_ids(c) = A /\ calculate_decode_gpu_ids(c) = A
        BY <1>3, <2>1, <2>3 DEF calculate_prefill_gpu_ids, calculate_decode_gpu_ids
      <3>2. used_gpus_count(c) = Len(A) * 2
        BY <1>3, <2>1, <2>3 DEF used_gpus_count
      <3> HIDE DEF A
      <3>3. used_gpus_count(c) = Len(A) + Len(A)
        BY <2>2, <3>2
      <3> QED
        BY <2>1, <2>2, <2>3, <3>1, <3>3 DEF A
    <2>4. CASE c.nodes # 2
      <3>1. c.nodes = 1
        BY <1>1, <2>4
      <3>2. /\ calculate_prefill_gpu_ids(c) = SubSeq(A, 1, mid(c))
            /\ calculate_decode_gpu_ids(c) = SubSeq(A, mid(c) + 1, Len(A))
            /\ used_gpus_count(c) = Len(A) /\ mid(c) = Len(A) \div 2
        BY <1>3, <2>1, <3>1 DEF calculate_prefill_gpu_ids, calculate_decode_gpu_ids, used_gpus_count, mid
      <3>3. mid(c) \in 0 .. Len(A)
        BY <2>2, <3>2
      <3> HIDE DEF A
      <3>4. /\ SubSeq(A, 1, mid(c)) \in Seq(Nat) /\ SubSeq(A, mid(c) + 1, Len(A)) \in Seq(Nat)
            /\ IsInjective(SubSeq(A, 1, mid(c))) /\ IsInjective(SubSeq(A, mid(c) + 1, Len(A)))
            /\ Len(SubSeq(A, 1, mid(c))) = mid(c)
            /\ Len(SubSeq(A, mid(c) + 1, Len(A))) = Len(A) - mid(c)
            /\ ToSet(SubSeq(A, 1, mid(c))) \intersect ToSet(SubSeq(A, mid(c) + 1, Len(A))) = {}
        BY <2>1, <3>3, Halves
      <3>5. mid(c) <= Len(A) /\ Len(A) = mid(c) + (Len(A) - mid(c)) /\ A = all_gpu_ids(c)
        BY <2>2, <3>3 DEF A
      <3> QED
        BY <2>2, <3>2, <3>4, <3>5
    <2> QED
      BY <2>3, <2>4
  <1> QED
    BY <1>2, <1>3

(* Of a test run that passes the constraints every server can start: the   *)
(* other servers leave it its GPUs and ports, and it has GPUs enough.      *)
LEMMA AllStart ==
  ASSUME Types, NoRepeats(config), Admitted(config),
         pids \subseteq AllServers(config), NEW s \in pids
  PROVE  Starts(s)
  <1>0. /\ config \in Config /\ check_gpu_ids_setup(config) /\ nodes_supported(config)
        /\ config.port \in Nat
    BY ConfigsAssumption DEF Types, Config
  <1>1. \A t \in Servers \ pids : server[t] = "none"
    BY DEF Types, TypeOK
  <1>2. CASE ~config.disaggregated
    <2>1. pids = {"serve"} /\ s = "serve"
      BY <1>2 DEF AllServers, Roles
    <2>2. fits(config, visible_gpus(config, s))
      BY <1>2, <2>1 DEF Admitted, constraint_check, visible_gpus
    <2> QED
      BY <1>1, <2>1, <2>2 DEF Starts, Conflict, fits
  <1>3. CASE config.disaggregated
    <2> DEFINE P == calculate_prefill_gpu_ids(config)
               D == calculate_decode_gpu_ids(config)
               A == all_gpu_ids(config)
    <2>1. /\ P \in Seq(Nat) /\ D \in Seq(Nat) /\ Len(A) \in Nat /\ Len(P) <= Len(A)
          /\ config.nodes # 2 => ToSet(P) \intersect ToSet(D) = {}
      BY <1>0, <1>3, Disaggregated DEF Admitted
    <2>2. pids \subseteq {"prefill", "decode", "router"}
      BY <1>3 DEF AllServers, Roles
    <2>3. /\ visible_gpus(config, "prefill") = P /\ visible_gpus(config, "decode") = D
          /\ visible_gpus(config, "router") = <<>>
      BY DEF visible_gpus
    <2>4. fits(config, P) /\ fits(config, D) /\ config.workload = "vLLM"
      BY <1>3 DEF Admitted, constraint_check
    <2>5. /\ nixl_ports(config, "router") = {}
          /\ nixl_ports(config, "prefill") = 0 .. 0 + Len(P) - 1
          /\ nixl_ports(config, "decode") = Len(A) .. Len(A) + Len(D) - 1
      BY <2>3, <2>4 DEF nixl_ports, nixl_port
    <2>6. nixl_ports(config, "prefill") \intersect nixl_ports(config, "decode") = {}
      <3>1. Len(P) \in Nat /\ Len(D) \in Nat
        BY <2>1
      <3> HIDE DEF P, D, A
      <3> QED
        BY <2>1, <2>5, <3>1
    <2>7. ToSet(<<>>) = {}
      BY DEF ToSet
    <2>8. /\ service_port(config, "prefill") = config.port + 100
          /\ service_port(config, "decode") = config.port + 200
          /\ service_port(config, "router") = config.port
      BY DEF service_port
    <2>9. /\ role_host(config, "prefill") = 1
          /\ config.nodes = 2 => role_host(config, "decode") = 2
      BY <1>3 DEF role_host, is_two_node_disaggregated
    <2> HIDE DEF P, D, A
    <2>10. ASSUME NEW t \in pids, t # s PROVE ~Conflict(s, t)
      <3>1. service_port(config, s) # service_port(config, t)
        BY <1>0, <2>2, <2>8, <2>10
      <3>2. CASE s = "router" \/ t = "router"
        BY <2>3, <2>5, <2>7, <3>1, <3>2 DEF Conflict
      <3>3. CASE s \in {"prefill", "decode"} /\ t \in {"prefill", "decode"}
        BY <2>1, <2>3, <2>6, <2>9, <2>10, <3>1, <3>3 DEF Conflict
      <3> QED
        BY <2>2, <3>2, <3>3
    <2>11. \A t \in Servers \ {s} : ~Conflict(s, t)
      BY <1>1, <2>10 DEF Conflict
    <2> QED
      BY <2>2, <2>3, <2>4, <2>11 DEF Starts, fits
  <1> QED
    BY <1>2, <1>3

(* The throughput is divided by the GPUs the servers are given.            *)
LEMMA GpusCount ==
  ASSUME NEW c \in Config, check_gpu_ids_setup(c), nodes_supported(c), NoRepeats(c), ~GpusGivenTwice(c)
  PROVE  used_gpus_count(c) = Cardinality(GpusGiven(c))
  <1> DEFINE On(s) == {<<role_host(c, s), g>> : g \in ToSet(visible_gpus(c, s))}
  <1>1. CASE ~c.disaggregated
    <2>1. GpusGiven(c) = On("serve") /\ visible_gpus(c, "serve") = all_gpu_ids(c)
      BY <1>1 DEF GpusGiven, AllServers, Roles, visible_gpus
    <2>2. all_gpu_ids(c) \in Seq(Nat) /\ IsInjective(all_gpu_ids(c))
      BY <1>1, AllIds
    <2>3. Cardinality(On("serve")) = Len(all_gpu_ids(c))
      BY <2>1, <2>2, GpusCounted
    <2>4. used_gpus_count(c) = Len(all_gpu_ids(c))
      BY <1>1 DEF used_gpus_count
    <2> QED
      BY <2>1, <2>3, <2>4
  <1>2. CASE c.disaggregated
    <2> DEFINE P == calculate_prefill_gpu_ids(c)
               D == calculate_decode_gpu_ids(c)
    <2>1. /\ P \in Seq(Nat) /\ D \in Seq(Nat) /\ IsInjective(P) /\ IsInjective(D)
          /\ used_gpus_count(c) = Len(P) + Len(D)
          /\ c.nodes # 2 => ToSet(P) \intersect ToSet(D) = {}
      BY <1>2, Disaggregated
    <2>2. visible_gpus(c, "prefill") = P /\ visible_gpus(c, "decode") = D /\ visible_gpus(c, "router") = <<>>
      BY DEF visible_gpus
    <2>3. AllServers(c) = {"prefill", "decode", "router"} /\ On("router") = {}
      BY <1>2, <2>2 DEF AllServers, Roles, ToSet
    <2>4. GpusGiven(c) = On("prefill") \union On("decode")
      BY <2>3 DEF GpusGiven
    <2>5. /\ IsFiniteSet(On("prefill")) /\ Cardinality(On("prefill")) = Len(P)
          /\ IsFiniteSet(On("decode")) /\ Cardinality(On("decode")) = Len(D)
      BY <2>1, <2>2, GpusCounted
    <2>6. On("prefill") \intersect On("decode") = {}
      <3>1. c.nodes = 2 => role_host(c, "prefill") # role_host(c, "decode")
        BY <1>2 DEF role_host, is_two_node_disaggregated
      <3> QED
        BY <2>1, <2>2, <3>1
    <2>7. Cardinality({}) = 0 /\ Len(P) \in Nat /\ Len(D) \in Nat
      BY <2>1, FS_EmptySet
    <2>8. Cardinality(On("prefill") \union On("decode")) = Len(P) + Len(D)
      <3>1. ASSUME NEW S, NEW T, IsFiniteSet(S), IsFiniteSet(T), S \intersect T = {},
                   NEW m \in Nat, NEW n \in Nat, Cardinality(S) = m, Cardinality(T) = n
            PROVE  Cardinality(S \union T) = m + n
        <4>1. Cardinality(S \union T) = Cardinality(S) + Cardinality(T) - Cardinality(S \intersect T)
          BY <3>1, FS_Union
        <4> QED
          BY <3>1, <4>1, FS_EmptySet
      <3> QED
        BY <2>5, <2>6, <2>7, <3>1
    <2> QED
      BY <2>1, <2>4, <2>8
  <1> QED
    BY <1>1, <1>2

LEMMA InitServing == Init => Serving
  BY DEF Init, Serving, Wait

(* Of the servers of one test run each has an endpoint of its own.         *)
LEMMA EndpointsApart ==
  ASSUME Types, NEW s \in AllServers(config), NEW t \in AllServers(config),
         endpoint(config, s) = endpoint(config, t)
  PROVE  s = t
  <1>1. config.port \in Nat
    BY DEF Types, TypeOK, Config
  <1>2. service_port(config, s) = service_port(config, t)
    BY DEF endpoint
  <1> QED
    BY <1>1, <1>2 DEF service_port, AllServers, Roles

(* The server the script waits for.                                        *)
LEMMA Awaited ==
  ASSUME IInv, Serving, faults = {}, Admitted(config), pc \in Wait
  PROVE  \E s \in pids : /\ Head(waits) = endpoint(config, s) /\ s \in AllServers(config)
                         /\ s = IF pc = "wait_router" THEN "router"
                                ELSE IF ~config.disaggregated THEN "serve"
                                ELSE IF Len(waits) = 1 THEN "decode" ELSE "prefill"
  <1>1. /\ pc = "wait" => pids = Roles(config)
        /\ pc = "wait_router" => pids = AllServers(config) /\ config.disaggregated
        /\ Waiting /\ pc \in {"wait", "wait_router"}
    BY DEF Serving, Wait
  <1>2. \A x, y : Head(<<x>>) = x /\ Len(<<x>>) = 1 /\ Head(<<x, y>>) = x /\ Len(<<x, y>>) = 2
    OBVIOUS
  <1>3. CASE pc = "wait_router"
    BY <1>1, <1>2, <1>3 DEF Waiting, AllServers, Roles
  <1>4. CASE pc = "wait" /\ ~config.disaggregated
    BY <1>1, <1>2, <1>4 DEF Waiting, AllServers, Roles
  <1>5. CASE pc = "wait" /\ config.disaggregated
    BY <1>1, <1>2, <1>5 DEF Waiting, AllServers, Roles
  <1> QED
    BY <1>1, <1>3, <1>4, <1>5

(* A step of the script keeps it on its way.                               *)
LEMMA ScriptServing ==
  ASSUME IInv, Serving, NoRepeats(config), Script
  PROVE  Serving'
  <1>0. config' = config
    BY DEF Script, NodeSetup, Start, StartRouter, StartServers, Healthy, NotHealthy,
       HealthTimeout, Benchmark, Cleanup, CleanupWaits
  <1>00. /\ Types /\ TypeOK /\ Course /\ config \in Config /\ pids \subseteq Servers
         /\ \A s \in Servers \ pids : server[s] = "none"
    BY DEF IInv, Types, TypeOK
  <1> SUFFICES ASSUME faults' = {}, Admitted(config)
               PROVE  Serving'
    BY <1>0 DEF Serving
  <1> USE <1>0, <1>00
  <1>1. faults = {}
    BY DEF Script, NodeSetup, Start, StartRouter, StartServers, Healthy, NotHealthy,
       HealthTimeout, Benchmark, Cleanup, CleanupWaits, cluster
  <1>2. /\ pc \in {"setup", "start"} => pids = {}
        /\ pc \in {"setup", "start_router", "wait_router"} => config.disaggregated
        /\ pc \in {"wait", "start_router"} => pids = Roles(config)
        /\ pc \in {"wait_router", "bench"} => pids = AllServers(config)
        /\ pc \notin {"cleanup", "exit", "over"} => \A s \in pids : server[s] \in {"starting", "ready"}
        /\ pc \in Wait => Waiting
        /\ pc \in {"start_router", "wait_router"} => \A s \in Roles(config) : server[s] = "ready"
        /\ pc = "bench" => AllReady
        /\ pc \in {"cleanup", "exit", "over"} => output = [completed |-> "some", result_file |-> TRUE]
    BY <1>1 DEF Serving
  <1>3. Roles(config) \subseteq AllServers(config) /\ AllServers(config) \subseteq Servers
    BY DEF AllServers, Roles, Servers
  <1>4. CASE NodeSetup
    BY <1>2, <1>4 DEF NodeSetup, Serving, Wait
  <1>5. CASE Start
    <2>1. /\ server' = [s \in Servers |-> IF s \in Roles(config) THEN "starting" ELSE server[s]]
          /\ pids' = pids \union Roles(config) /\ pc = "start" /\ pc' = "wait"
          /\ waits' = IF config.disaggregated
                        THEN <<endpoint(config, "prefill"), endpoint(config, "decode")>>
                        ELSE <<endpoint(config, "serve")>>
      BY <1>5 DEF Start, StartServers
    <2>2. pids' = Roles(config)
      BY <1>2, <2>1
    <2>3. Waiting'
      BY <2>1 DEF Waiting
    <2>4. \A s \in pids' : server'[s] = "starting"
      BY <1>3, <2>1, <2>2
    <2> QED
      BY <2>1, <2>2, <2>3, <2>4 DEF Serving
  <1>6. CASE StartRouter
    <2>1. /\ server' = [s \in Servers |-> IF s \in {"router"} THEN "starting" ELSE server[s]]
          /\ pids' = pids \union {"router"} /\ pc = "start_router" /\ pc' = "wait_router"
          /\ waits' = <<endpoint(config, "router")>>
      BY <1>6 DEF StartRouter, StartServers
    <2>2. pids' = AllServers(config) /\ config.disaggregated
      BY <1>2, <2>1 DEF AllServers
    <2>3. Waiting'
      BY <2>1 DEF Waiting
    <2>4. "router" \notin Roles(config)
      BY DEF Roles
    <2>5. (\A s \in Roles(config) : server'[s] = "ready") /\ server'["router"] = "starting"
      BY <1>2, <1>3, <2>1, <2>4 DEF Servers
    <2>6. \A s \in pids' : server'[s] \in {"starting", "ready"}
      BY <2>2, <2>5 DEF AllServers
    <2> QED
      BY <2>1, <2>2, <2>3, <2>5, <2>6 DEF Serving
  <1>7. CASE Healthy
    <2>1. /\ pc \in Wait /\ healthy(Head(waits)) /\ waits' = Tail(waits)
          /\ pc' = (IF Len(waits) = 1 THEN AfterWait ELSE pc)
          /\ UNCHANGED <<pids, server, output>>
      BY <1>7 DEF Healthy, cluster
    <2>2. PICK s \in pids : /\ Head(waits) = endpoint(config, s) /\ s \in AllServers(config)
                            /\ s = IF pc = "wait_router" THEN "router"
                                   ELSE IF ~config.disaggregated THEN "serve"
                                   ELSE IF Len(waits) = 1 THEN "decode" ELSE "prefill"
      BY <1>1, <2>1, Awaited
    <2>3. server[s] = "ready"
      <3>1. PICK t \in Servers : server[t] = "ready" /\ endpoint(config, t) = endpoint(config, s)
        BY <2>1, <2>2 DEF healthy
      <3>2. t \in pids
        BY <3>1
      <3>3. pids \subseteq AllServers(config)
        BY <1>2, <1>3, <2>1 DEF Wait
      <3> QED
        BY <2>2, <3>1, <3>2, <3>3, EndpointsApart
    <2>4. /\ \A x : Tail(<<x>>) = <<>> /\ Len(<<x>>) = 1
          /\ \A x, y : Tail(<<x, y>>) = <<y>> /\ Len(<<x, y>>) = 2
      OBVIOUS
    <2>5. CASE pc = "wait_router"
      <3>1. pc' = "bench" /\ s = "router"
        BY <1>2, <2>1, <2>2, <2>4, <2>5 DEF Waiting, AfterWait, Wait
      <3>2. AllReady'
        BY <1>2, <2>1, <2>3, <2>5, <3>1 DEF AllReady, AllServers
      <3> QED
        BY <1>2, <2>1, <2>5, <3>1, <3>2 DEF Serving, Wait
    <2>6. CASE pc = "wait" /\ ~config.disaggregated
      <3>1. pc' = "bench" /\ s = "serve"
        BY <1>2, <2>1, <2>2, <2>4, <2>6 DEF Waiting, AfterWait, Wait
      <3>2. AllServers(config) = {"serve"} /\ Roles(config) = {"serve"}
        BY <2>6 DEF AllServers, Roles
      <3>3. AllReady'
        BY <2>1, <2>3, <3>1, <3>2 DEF AllReady
      <3> QED
        BY <1>2, <2>1, <2>6, <3>1, <3>2, <3>3 DEF Serving, Wait
    <2>7. CASE pc = "wait" /\ config.disaggregated /\ Len(waits) = 1
      <3>1. /\ pc' = "start_router" /\ s = "decode" /\ server["prefill"] = "ready"
        BY <1>2, <2>1, <2>2, <2>4, <2>7 DEF Waiting, AfterWait, Wait
      <3>2. \A r \in Roles(config) : server'[r] = "ready"
        BY <2>1, <2>3, <2>7, <3>1 DEF Roles
      <3> QED
        BY <1>2, <2>1, <2>7, <3>1, <3>2 DEF Serving, Wait
    <2>8. CASE pc = "wait" /\ config.disaggregated /\ Len(waits) # 1
      <3>1. pc' = "wait" /\ s = "prefill" /\ waits' = <<endpoint(config, "decode")>>
        BY <1>2, <2>1, <2>2, <2>4, <2>8 DEF Waiting, Wait
      <3>2. Waiting'
        BY <2>1, <2>3, <2>8, <3>1 DEF Waiting
      <3> QED
        BY <1>2, <2>1, <2>8, <3>1, <3>2 DEF Serving, Wait
    <2> QED
      BY <2>1, <2>5, <2>6, <2>7, <2>8 DEF Wait
  <1>8. CASE NotHealthy
    BY <1>2, <1>8 DEF NotHealthy, cluster, Serving, Waiting, AllReady, Wait
  <1>9. CASE HealthTimeout
    <2>1. pc \in Wait /\ ~Slow
      BY <1>9 DEF HealthTimeout
    <2>2. PICK s \in pids : Head(waits) = endpoint(config, s)
      BY <1>1, <2>1, Awaited
    <2>3. pids \subseteq AllServers(config) /\ server[s] \in {"starting", "ready"}
      BY <1>2, <1>3, <2>1 DEF Wait
    <2>4. Starts(s)
      BY <2>3, AllStart
    <2> QED
      BY <2>1, <2>2, <2>3, <2>4 DEF Slow
  <1>10. CASE Benchmark
    <2>1. pc = "bench" /\ pc' = "cleanup" /\ AllReady
      BY <1>2, <1>10 DEF Benchmark
    <2>2. PICK completed \in {"none", "zero", "some"}, written \in BOOLEAN :
            /\ output' = [completed |-> completed, result_file |-> written]
            /\ faults' = IF AllReady /\ (completed # "some" \/ ~written)
                           THEN faults \union {"bench"} ELSE faults
      BY <1>10 DEF Benchmark
    <2>3. completed = "some" /\ written = TRUE
      BY <2>1, <2>2
    <2> QED
      BY <2>1, <2>2, <2>3 DEF Serving, Wait
  <1>11. CASE Cleanup \/ CleanupWaits
    <2>1. pc \in {"cleanup", "exit"} /\ pc' \in {"cleanup", "exit", "over"} /\ output' = output
      BY <1>11 DEF Cleanup, CleanupWaits, LeaveCleanup, cluster
    <2> QED
      BY <1>2, <2>1 DEF Serving, Wait
  <1> QED
    BY <1>4, <1>5, <1>6, <1>7, <1>8, <1>9, <1>10, <1>11 DEF Script

(* So does a step of a server: none that can start crashes of itself.      *)
LEMMA NextServing ==
  ASSUME IInv, Serving, NoRepeats(config), [Next]_vars
  PROVE  Serving'
  <1>1. CASE Script
    BY <1>1, ScriptServing
  <1>2. CASE Killed
    BY <1>2 DEF Killed, Serving
  <1>3. ASSUME NEW s \in Servers, ServerReady(s) \/ ServerCrashes(s) \/ ServerEnds(s),
               faults' = {}, Admitted(config)
        PROVE  Serving'
    <2>1. UNCHANGED <<config, pc, waits, pids, output>> /\ faults = {}
      BY <1>3 DEF ServerReady, ServerCrashes, ServerEnds, script
    <2>2. server \in [Servers -> {"none", "starting", "ready", "terminating", "dead"}]
          /\ \A t \in Servers \ pids : server[t] = "none"
      BY DEF IInv, Types, TypeOK
    <2>3. ASSUME pc \notin {"cleanup", "exit", "over"}
          PROVE  /\ \A t \in pids : server'[t] \in {"starting", "ready"}
                 /\ \A t \in Servers : server[t] = "ready" => server'[t] = "ready"
      <3>1. /\ pids \subseteq AllServers(config)
            /\ \A t \in pids : server[t] \in {"starting", "ready"}
        BY <1>3, <2>1, <2>3 DEF Serving, IInv, Types, TypeOK, Launch, Wait, AllServers
      <3>2. CASE ServerReady(s)
        BY <2>2, <3>1, <3>2 DEF ServerReady
      <3>3. CASE ServerCrashes(s)
        <4>1. s \in pids /\ ~Starts(s)
          BY <1>3, <2>2, <3>3 DEF ServerCrashes
        <4> QED
          BY <1>3, <3>1, <4>1, AllStart DEF IInv
      <3>4. CASE ServerEnds(s)
        BY <2>2, <3>1, <3>4 DEF ServerEnds
      <3> QED
        BY <1>3, <3>2, <3>3, <3>4
    <2>4. Roles(config) \subseteq Servers /\ AllServers(config) \subseteq Servers /\ "prefill" \in Servers
      BY DEF AllServers, Roles, Servers
    <2>5. CASE pc \in {"cleanup", "exit", "over"}
      BY <1>3, <2>1, <2>5 DEF Serving, Wait
    <2>6. CASE pc \notin {"cleanup", "exit", "over"}
      <3>1. pc \in Wait => Waiting'
        BY <1>3, <2>1, <2>3, <2>4, <2>6 DEF Serving, Waiting
      <3>2. pc = "bench" => AllReady'
        BY <1>3, <2>1, <2>3, <2>4, <2>6 DEF Serving, AllReady
      <3> QED
        BY <1>3, <2>1, <2>3, <2>4, <2>6, <3>1, <3>2 DEF Serving
    <2> QED
      BY <2>5, <2>6
  <1>4. CASE UNCHANGED vars
    BY <1>4 DEF vars, script, cluster, Serving, Waiting, AllReady
  <1>5. ASSUME NEW s \in Servers, ServerReady(s) \/ ServerCrashes(s) \/ ServerEnds(s)
        PROVE  Serving'
    <2>1. config' = config
      BY <1>5 DEF ServerReady, ServerCrashes, ServerEnds
    <2> QED
      BY <1>3, <1>5, <2>1 DEF Serving
  <1> QED
    BY <1>1, <1>2, <1>4, <1>5 DEF Next

(* A vLLM test run that passes _validate_vllm_parallelism_constraints, and *)
(* whose lists of GPU ids repeat none, is served when nothing goes wrong:  *)
(* its script waits in the right order for servers that do not stand in    *)
(* each other's way, the run is successful and has metrics, and its        *)
(* throughput is divided by the number of GPUs its servers were given.     *)
THEOREM AdmittedAreServed ==
  ASSUME \A c \in Configs : NoRepeats(c)
  PROVE  Spec => []AdmittedServes
  <1>1. IInv => NoRepeats(config)
    BY DEF IInv, Types
  <1>2. IInv /\ Serving => AdmittedServes
    <2> SUFFICES ASSUME IInv, Serving, pc = "over", faults = {}, config.workload = "vLLM",
                        constraint_check(config), ~GpusGivenTwice(config)
                 PROVE  /\ was_run_successful(config) /\ has_metric(config)
                        /\ used_gpus_count(config) = Cardinality(GpusGiven(config))
      BY DEF AdmittedServes
    <2>1. output = [completed |-> "some", result_file |-> TRUE]
      BY DEF Serving, Admitted
    <2>2. used_gpus_count(config) = Cardinality(GpusGiven(config))
      BY <1>1, ConfigsAssumption, GpusCount DEF IInv, Types
    <2> QED
      BY <2>1, <2>2 DEF was_run_successful, has_metric
  <1>3. Init => Serving
    BY InitServing
  <1>4. IInv /\ Serving /\ [Next]_vars => Serving'
    BY <1>1, NextServing
  <1> QED
    BY <1>2, <1>3, <1>4, Invariance, PTL DEF Spec
=============================================================================
