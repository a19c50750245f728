---------------------------- MODULE InstallerProofs ----------------------------
(***************************************************************************)
(* Theorems about Installer, for every set of items, scenarios, systems,   *)
(* number of threads and bound on the failures.                            *)
(***************************************************************************)
EXTENDS Installer, FiniteSetTheorems, TLAPS

(* What a thread of an installation and one of an uninstallation may be at.*)
CloneSteps     == {"cloning", "checkout", "cloned_submodules"}
RepositorySteps == CloneSteps \union {"verify", "submodules", "clone", "rmtree"}
ExecutableSteps == {"venv", "dependencies", "remove"}
UninstallSteps == {"rmtree", "remove", "remove_env", "unlink", "evict"}

(* Types, the thread limit apart.                                          *)
Types ==
  /\ system \in Systems
  /\ requested \in SUBSET Items /\ items \subseteq requested
  /\ command \in {"none", "install", "uninstall"}
  /\ verdict \in {"unknown", "success", "failure"}
  /\ pc \in [Items -> Step]
  /\ blamed \subseteq items
  /\ checkout \in [Places -> Checkout]
  /\ venv \in [Places -> {"none", "bare", "complete"}]
  /\ cached \in [Places -> {"none", "partial"} \union Wants]
  /\ failures \in 0 .. MaxFailures /\ crashes \in 0 .. MaxCrashes

Limit == Cardinality({i \in Items : pc[i] \in Busy}) <= Workers

(* Only items of the command have a thread at work, and it is at a step of *)
(* that command and of the item's class.                                   *)
Course ==
  \A i \in Items :
    /\ pc[i] # "idle" => i \in items
    /\ pc[i] \in Busy \union {"waiting"} => command # "none" /\ verdict = "unknown"
    /\ pc[i] \in UninstallSteps => command = "uninstall"
    /\ pc[i] \in Busy \ UninstallSteps => command = "install"
    /\ pc[i] \in RepositorySteps \union ExecutableSteps => Cloned(i)

(* A directory has at most one thread that clones into it, and is in the   *)
(* state that thread has left it in: no other thread touches its head.     *)
Cloning ==
  /\ \A i, k \in Items :
       i.place = k.place /\ pc[i] \in CloneSteps /\ pc[k] \in CloneSteps => i = k
  /\ \A i \in Items :
       /\ pc[i] = "cloning" => checkout[i.place].head = "cloning"
       /\ pc[i] = "checkout" => checkout[i.place].head = "default"
       /\ pc[i] = "cloned_submodules" => checkout[i.place].head = "commit"

(* What is half made has a thread at work on it, unless it was killed.     *)
Tended ==
  crashes = 0 => \A p \in Places :
    /\ checkout[p].head = "cloning" => \E i \in Items : i.place = p /\ pc[i] = "cloning"
    /\ checkout[p].head = "default" => \E i \in Items : i.place = p /\ pc[i] = "checkout"
    /\ venv[p] = "bare" =>
         \E i \in Items : i.place = p /\ pc[i] \in {"requirements", "dependencies"}

(* The thread of a repository that no other item uses finds on disk what   *)
(* it saw when it last looked.                                             *)
Alone(i) == \A k \in items \ {i} : ~(Cloned(i) /\ Cloned(k) /\ i.place = k.place)

Undisturbed ==
  crashes = 0 => \A i \in items : Alone(i) =>
    /\ pc[i] = "verify" => checkout[i.place].head = "commit"
    /\ pc[i] = "clone" => checkout[i.place].head = "none"
    /\ pc[i] \in {"submodules", "venv", "dependencies"} => checkout[i.place].head # "none"

(* FailuresStayApart, without what Cloned(i) of a repository leaves open.  *)
Blame ==
  \A i \in items : command = "install" /\ pc[i] = "failed" =>
    i \in blamed \/ (crashes > 0 /\ Cloned(i)) \/ ~Alone(i)

IInv == Types /\ Limit /\ Course /\ Cloning /\ Tended /\ Undisturbed /\ Blame

-----------------------------------------------------------------------------
(* The invariant holds at first: nothing is on disk and nothing runs.      *)
LEMMA InitIInv == Init => IInv
<1> SUFFICES ASSUME Init PROVE IInv
  OBVIOUS
<1>1. Types
  BY ScenariosAssumption, BoundsAssumption DEF Init, Types, Step, Checkout, NoCheckout
<1>2. Limit
  <2>1. {i \in Items : pc[i] \in Busy} = {}
    BY DEF Init, Busy
  <2> QED
    BY <2>1, FS_EmptySet, WorkersAssumption DEF Limit
<1>3. Course /\ Cloning /\ Tended /\ Undisturbed /\ Blame
  BY DEF Init, Course, Cloning, Tended, Undisturbed, Blame, Busy, CloneSteps, RepositorySteps,
         ExecutableSteps, UninstallSteps, NoCheckout
<1> QED
  BY <1>1, <1>2, <1>3 DEF IInv

(* The pool takes at most Workers items up.                                *)
LEMMA LimitKept ==
  ASSUME Types, Limit, NEW i \in Items, NEW s \in Step,
         pc' = [pc EXCEPT ![i] = s],
         s \in Busy /\ pc[i] \notin Busy => Cardinality({k \in Items : pc[k] \in Busy}) < Workers
  PROVE  Limit'
<1> DEFINE B == {k \in Items : pc[k] \in Busy}
<1>0. IsFiniteSet(B) /\ IsFiniteSet(B \union {i}) /\ Cardinality(B) \in Nat
      /\ Cardinality(B \union {i}) = IF i \in B THEN Cardinality(B) ELSE Cardinality(B) + 1
  BY BoundsAssumption, FS_Subset, FS_AddElement, FS_CardinalityType
<1>1. B' \subseteq B \union {i}
  BY DEF Types
<1>2. IsFiniteSet(B') /\ Cardinality(B') \in Nat /\ Cardinality(B') <= Cardinality(B \union {i})
  BY <1>0, <1>1, FS_Subset, FS_CardinalityType
<1>3. CASE s \in Busy /\ pc[i] \notin Busy
  BY <1>0, <1>2, <1>3, WorkersAssumption DEF Limit
<1>4. CASE s \notin Busy
  <2>1. B' \subseteq B
    BY <1>4 DEF Types
  <2>2. Cardinality(B') <= Cardinality(B)
    BY <1>0, <2>1, FS_Subset
  <2> QED
    BY <1>0, <1>2, <2>2, WorkersAssumption DEF Limit
<1>5. CASE pc[i] \in Busy
  BY <1>0, <1>2, <1>5, WorkersAssumption DEF Limit
<1> QED
  BY <1>3, <1>4, <1>5

(* The commands themselves begin and end with no thread at work.           *)
LEMMA CommandSteps ==
  ASSUME IInv, Install \/ PrerequisitesMissing \/ Uninstall \/ Verdict \/ Killed
  PROVE  IInv'
<1>0. Types /\ Limit /\ Course /\ Cloning /\ Tended /\ Undisturbed /\ Blame
  BY DEF IInv
<1>1. CASE Install \/ PrerequisitesMissing \/ Uninstall
  <2>0. \A T \in all_items(requested) : T \subseteq requested
    BY DEF all_items
  <2>1. items' \subseteq requested /\ UNCHANGED <<system, requested, disk, crashes>> /\ blamed' = {}
        /\ \/ pc' = [k \in Items |-> "idle"]
           \/ pc' = Waiting /\ command' # "none" /\ verdict' = "unknown"
    BY <1>1, <2>0 DEF Install, PrerequisitesMissing, Uninstall
  <2>2. Types'
    <3>1. pc' \in [Items -> Step]
      BY <2>1 DEF Waiting, Step
    <3>2. failures' \in 0 .. MaxFailures /\ command' \in {"none", "install", "uninstall"}
          /\ verdict' \in {"unknown", "success", "failure"}
      BY <1>0, <1>1, BoundsAssumption DEF Types, Install, PrerequisitesMissing, Uninstall
    <3> QED
      BY <1>0, <2>1, <3>1, <3>2 DEF Types, disk
  <2>3. \A k \in Items : pc'[k] \in {"idle", "waiting"} /\ (pc'[k] # "idle" => k \in items')
        /\ (pc'[k] = "waiting" => command' # "none" /\ verdict' = "unknown")
    BY <2>1 DEF Waiting
  <2>4. \A k \in Items : pc[k] \notin Busy
    BY <1>0, <1>1 DEF Course, Install, PrerequisitesMissing, Uninstall, InCommand
  <2>5. Limit'
    <3>1. {k \in Items : pc'[k] \in Busy} = {}
      BY <2>3 DEF Busy
    <3> QED
      BY <3>1, FS_EmptySet, WorkersAssumption DEF Limit
  <2>6. Course' /\ Cloning'
    BY <2>3 DEF Course, Cloning, Busy, CloneSteps, RepositorySteps, ExecutableSteps, UninstallSteps
  <2>7. Tended'
    BY <1>0, <2>1, <2>4 DEF Tended, Busy, disk
  <2>8. Undisturbed' /\ Blame'
    BY <1>0, <2>2, <2>3 DEF Undisturbed, Blame, Types
  <2> QED
    BY <2>2, <2>5, <2>6, <2>7, <2>8 DEF IInv
<1>2. CASE Verdict
  <2>1. \A k \in Items : pc[k] \notin Busy \union {"waiting"}
    BY <1>2 DEF Verdict, Running
  <2>2. verdict' \in {"success", "failure"}
        /\ UNCHANGED <<system, requested, items, command, pc, blamed, disk, failures, crashes>>
    BY <1>2 DEF Verdict
  <2> QED
    BY <1>0, <2>1, <2>2 DEF IInv, Types, Limit, Course, Cloning, Tended, Undisturbed, Blame, disk,
       Alone, Cloned, Busy, UninstallSteps, RepositorySteps, ExecutableSteps, CloneSteps
<1>3. CASE Killed
  <2>1. Types'
    BY <1>0, <1>3, BoundsAssumption DEF Killed, Types, Step, disk
  <2>2. \A k \in Items : pc'[k] = "idle"
    BY <1>3 DEF Killed
  <2>3. Limit'
    <3>1. {k \in Items : pc'[k] \in Busy} = {}
      BY <2>2 DEF Busy
    <3> QED
      BY <3>1, FS_EmptySet, WorkersAssumption DEF Limit
  <2>4. crashes' > 0 /\ items' = {}
    BY <1>0, <1>3, BoundsAssumption DEF Killed, Types
  <2>5. Course' /\ Cloning' /\ Tended' /\ Undisturbed' /\ Blame'
    BY <2>2, <2>4 DEF Course, Cloning, Tended, Undisturbed, Blame, Busy, CloneSteps,
       RepositorySteps, ExecutableSteps, UninstallSteps
  <2> QED
    BY <2>1, <2>3, <2>5 DEF IInv
<1> QED
  BY <1>1, <1>2, <1>3

-----------------------------------------------------------------------------
(* The steps of a thread. Whatever it does, it moves only itself on, and   *)
(* it stays within its command and the steps of its class.                 *)
Moves(i) ==
  /\ pc[i] \in Busy \union {"waiting"}
  /\ pc'[i] \in Step /\ pc' = [pc EXCEPT ![i] = pc'[i]]
  /\ UNCHANGED <<system, requested, items, command, verdict, crashes>>
  /\ blamed' \in {blamed, blamed \union {i}} /\ failures' \in 0 .. MaxFailures
  /\ pc'[i] \in Busy /\ pc[i] \notin Busy =>
       Cardinality({k \in Items : pc[k] \in Busy}) < Workers
  /\ pc'[i] \notin {"idle", "waiting"}
  /\ pc'[i] \in UninstallSteps => command = "uninstall"
  /\ pc'[i] \in Busy \ UninstallSteps => command = "install"
  /\ pc'[i] \in RepositorySteps \union ExecutableSteps => Cloned(i)

(* Every action of Thread is such a step.                                  *)
LEMMA ThreadMoves ==
  ASSUME Types, Course, NEW i \in Items, Thread(i)
  PROVE  Moves(i)
<1> USE DEF Types, Course, Moves, Goto, Run, Step, Busy, UninstallSteps, RepositorySteps,
            ExecutableSteps, CloneSteps
<1>0. Fail(i) => failures' \in 0 .. MaxFailures /\ blamed' = blamed \union {i}
                 /\ UNCHANGED <<system, requested, items, command, verdict, crashes>>
  BY BoundsAssumption DEF Fail
<1>1. CASE Start(i)
  BY <1>1, ItemsAssumption, ZenonT(60)
     DEF Start, BeginInstall, BeginUninstall, AfterTree, GitRepo_install,
     ensure_docker_image, Cloned, Kind
<1>2. CASE Verify(i)
  BY <1>0, <1>2 DEF Verify
<1>3. CASE CloneBegins(i)
  <2>1. CASE checkout[i.place].head = "none"
    BY <1>0, <1>3, <2>1 DEF CloneBegins
  <2>2. CASE checkout[i.place].head # "none"
    BY <1>0, <1>3, <2>2 DEF CloneBegins
  <2> QED
    BY <2>1, <2>2
<1>4. CASE CloneEnds(i)
  BY <1>0, <1>4 DEF CloneEnds
<1>5. CASE CheckOut(i)
  BY <1>0, <1>5 DEF CheckOut
<1>6. CASE EnsureSubmodules(i)
  BY <1>0, <1>6 DEF EnsureSubmodules, After, Cloned
<1>7. CASE CheckoutGone(i)
  BY <1>0, <1>7 DEF CheckoutGone
<1>8. CASE EnsurePython(i)
  BY <1>0, <1>8 DEF EnsurePython
<1>9. CASE CreateEnvironment(i)
  BY <1>0, <1>9 DEF CreateEnvironment
<1>10. CASE InstallRequirements(i)
  BY <1>0, <1>10 DEF InstallRequirements
<1>11. CASE CreateVenv(i)
  BY <1>0, <1>11 DEF CreateVenv, Cloned
<1>12. CASE InstallDependencies(i)
  BY <1>0, <1>12 DEF InstallDependencies
<1>13. CASE ImportImage(i)
  BY <1>0, <1>13 DEF ImportImage
<1>14. CASE CopyFile(i)
  BY <1>0, <1>14 DEF CopyFile
<1>15. CASE Download(i)
  BY <1>0, <1>15 DEF Download
<1>16. CASE RemoveTree(i)
  BY <1>0, <1>16 DEF RemoveTree, AfterTree, Cloned
<1>17. CASE RemoveVenv(i)
  BY <1>0, <1>17 DEF RemoveVenv
<1>18. CASE RemoveEnvironment(i)
  BY <1>0, <1>18 DEF RemoveEnvironment
<1>19. CASE RemoveImage(i)
  BY <1>0, <1>19 DEF RemoveImage
<1>20. CASE EvictModel(i)
  BY <1>0, <1>20 DEF EvictModel
<1> QED
  BY <1>1, <1>2, <1>3, <1>4, <1>5, <1>6, <1>7, <1>8, <1>9, <1>10, <1>11, <1>12, <1>13, <1>14, <1>15, <1>16, <1>17, <1>18, <1>19, <1>20 DEF Thread

(* What a thread does to the head of a directory: only a clone creates it, *)
(* and after that only the thread that cloned it or removes it.            *)
Heads(i) ==
  /\ checkout' \in [Places -> Checkout]
  /\ \A p \in Places \ {i.place} : checkout'[p] = checkout[p]
  /\ \/ /\ checkout'[i.place].head = checkout[i.place].head
        /\ pc[i] \notin CloneSteps \union {"rmtree"} /\ pc'[i] \notin CloneSteps
        /\ pc'[i] \in {"submodules", "verify", "venv"} => checkout[i.place].head # "none"
        /\ pc'[i] = "clone" => checkout[i.place].head = "none"
        /\ pc'[i] = "dependencies" => pc[i] = "venv"
     \/ /\ pc[i] = "clone" /\ checkout[i.place].head = "none"
        /\ pc'[i] = "cloning" /\ checkout'[i.place].head = "cloning"
     \/ /\ pc[i] = "cloning"
        /\ pc'[i] = "checkout" /\ checkout'[i.place].head = "default"
     \/ /\ pc[i] = "checkout"
        /\ pc'[i] = "cloned_submodules" /\ checkout'[i.place].head = "commit"
     \/ /\ pc[i] = "cloned_submodules" /\ checkout[i.place].head # "none"
        /\ pc'[i] \in {"ok", "venv"} /\ checkout'[i.place].head = checkout[i.place].head
     \/ /\ pc[i] \in CloneSteps \union {"rmtree"}
        /\ pc'[i] \in {"ok", "remove", "failed"} /\ checkout'[i.place].head = "none"

(* Every action of Thread changes heads in this way only.                  *)
LEMMA ThreadHeads ==
  ASSUME Types, Course, NEW i \in Items, Thread(i)
  PROVE  Heads(i)
<1> USE DEF Types, Heads, Goto, CloneSteps, Checkout, NoCheckout
<1>0. i.place \in Places
  BY DEF Places
<1>1. CASE Start(i)
  BY <1>0, <1>1, ItemsAssumption DEF Start, BeginInstall, BeginUninstall, AfterTree, GitRepo_install,
     ensure_docker_image, Cloned, Kind, disk
<1>2. CASE Verify(i) \/ CheckoutGone(i) \/ EnsurePython(i)
  BY <1>0, <1>2 DEF Verify, CheckoutGone, EnsurePython, disk
<1>3. CASE CloneBegins(i)
  <2>1. CASE checkout[i.place].head = "none"
    BY <1>0, <1>3, <2>1 DEF CloneBegins
  <2>2. CASE checkout[i.place].head # "none"
    BY <1>0, <1>3, <2>2 DEF CloneBegins
  <2> QED
    BY <2>1, <2>2
<1>4. CASE CloneEnds(i)
  BY <1>0, <1>4 DEF CloneEnds
<1>5. CASE CheckOut(i)
  BY <1>0, <1>5, SMTT(40) DEF CheckOut
<1>6. CASE EnsureSubmodules(i)
  <2>1. i.want \in {"none", "all"}
    BY <1>6, ItemsAssumption DEF EnsureSubmodules, Course, RepositorySteps
  <2>2. CASE pc[i] = "submodules"
    BY <1>0, <1>6, <2>1, <2>2 DEF EnsureSubmodules, After
  <2>3. CASE pc[i] = "cloned_submodules"
    BY <1>0, <1>6, <2>1, <2>3, SMTT(40) DEF EnsureSubmodules, After
  <2> QED
    BY <1>6, <2>2, <2>3 DEF EnsureSubmodules
<1>7. CASE CreateEnvironment(i) \/ InstallRequirements(i) \/ CreateVenv(i) \/ InstallDependencies(i)
  BY <1>0, <1>7 DEF CreateEnvironment, InstallRequirements, CreateVenv, InstallDependencies
<1>8. CASE ImportImage(i) \/ CopyFile(i) \/ Download(i)
  BY <1>0, <1>8 DEF ImportImage, CopyFile, Download
<1>9. CASE RemoveTree(i)
  BY <1>0, <1>9 DEF RemoveTree, AfterTree
<1>10. CASE RemoveVenv(i) \/ RemoveEnvironment(i) \/ RemoveImage(i) \/ EvictModel(i)
  BY <1>0, <1>10 DEF RemoveVenv, RemoveEnvironment, RemoveImage, EvictModel
<1> QED
  BY <1>1, <1>2, <1>3, <1>4, <1>5, <1>6, <1>7, <1>8, <1>9, <1>10 DEF Thread

(* What it does to the rest of the disk: an environment it creates is bare *)
(* until it has filled it or removed it.                                   *)
Rest(i) ==
  /\ venv' \in [Places -> {"none", "bare", "complete"}]
  /\ cached' \in [Places -> {"none", "partial"} \union Wants]
  /\ \A p \in Places \ {i.place} : venv'[p] = venv[p]
  /\ \/ venv' = venv /\ pc[i] \notin {"requirements", "dependencies"}
     \/ venv'[i.place] = "bare" /\ pc'[i] \in {"requirements", "dependencies"}
     \/ venv'[i.place] # "bare"

(* Every action of Thread changes environments and files in this way only. *)
LEMMA ThreadRest ==
  ASSUME Types, NEW i \in Items, Thread(i)
  PROVE  Rest(i)
<1> USE DEF Types, Rest, Goto
<1>0. i.place \in Places /\ i.want \in Wants
  BY DEF Places, Wants
<1>1. CASE Start(i) \/ Verify(i) \/ CheckoutGone(i) \/ EnsurePython(i)
  BY <1>0, <1>1 DEF Start, Verify, CheckoutGone, EnsurePython, disk
<1>2. CASE CloneBegins(i) \/ CloneEnds(i) \/ CheckOut(i) \/ EnsureSubmodules(i) \/ RemoveTree(i)
  BY <1>0, <1>2 DEF CloneBegins, CloneEnds, CheckOut, EnsureSubmodules, RemoveTree
<1>3. CASE CreateEnvironment(i) \/ InstallRequirements(i) \/ CreateVenv(i) \/ InstallDependencies(i)
  BY <1>0, <1>3 DEF CreateEnvironment, InstallRequirements, CreateVenv, InstallDependencies
<1>4. CASE ImportImage(i) \/ CopyFile(i) \/ Download(i)
  BY <1>0, <1>4 DEF ImportImage, CopyFile, Download
<1>5. CASE RemoveVenv(i) \/ RemoveEnvironment(i) \/ RemoveImage(i) \/ EvictModel(i)
  BY <1>0, <1>5 DEF RemoveVenv, RemoveEnvironment, RemoveImage, EvictModel
<1> QED
  BY <1>1, <1>2, <1>3, <1>4, <1>5 DEF Thread

(* A thread that fails while nothing was killed and no other item uses its *)
(* repository fails at a command of its own.                               *)
LEMMA ThreadBlamed ==
  ASSUME IInv, NEW i \in Items, Thread(i), command = "install", pc'[i] = "failed"
  PROVE  i \in blamed' \/ (crashes > 0 /\ Cloned(i)) \/ ~Alone(i)
<1>0. Types /\ Course /\ Undisturbed /\ i.place \in Places
  BY DEF IInv, Places
<1>1. pc \in [Items -> Step] /\ i \in items /\ crashes \in Nat
  <2>1. pc[i] \in Busy \union {"waiting"}
    BY <1>0, ThreadMoves DEF Moves
  <2>2. i \in items
    BY <1>0, <2>1 DEF Course, Busy
  <2> QED
    BY <1>0, <2>2, BoundsAssumption DEF Types
<1>2. ASSUME ~(crashes > 0 /\ Cloned(i)), Alone(i)
      PROVE  /\ pc[i] = "verify" => checkout[i.place].head = "commit"
             /\ pc[i] = "clone" => checkout[i.place].head = "none"
             /\ pc[i] \in {"submodules", "venv", "dependencies"} => checkout[i.place].head # "none"
  <2>1. pc[i] \in {"verify", "clone", "submodules", "venv", "dependencies"} => Cloned(i)
    BY <1>0 DEF Course, RepositorySteps, ExecutableSteps
  <2> QED
    BY <1>0, <1>1, <1>2, <2>1 DEF Undisturbed
<1>3. pc[i] \notin UninstallSteps
  BY <1>0 DEF Course, UninstallSteps, Busy
<1>4. Fail(i) => i \in blamed'
  BY DEF Fail
<1>5. CASE Start(i)
  BY <1>1, <1>5, ItemsAssumption DEF Start, BeginInstall, GitRepo_install, ensure_docker_image,
     Cloned, Kind, Goto
<1>6. CASE Verify(i) \/ CheckoutGone(i) \/ CloneBegins(i)
  BY <1>1, <1>2, <1>6 DEF Verify, CheckoutGone, CloneBegins, Goto
<1>7. CASE CloneEnds(i) \/ CheckOut(i) \/ EnsureSubmodules(i) \/ EnsurePython(i)
  BY <1>1, <1>4, <1>7 DEF CloneEnds, CheckOut, EnsureSubmodules, EnsurePython, After, Goto
<1>8. CASE CreateEnvironment(i) \/ InstallRequirements(i) \/ CreateVenv(i)
  BY <1>1, <1>4, <1>8 DEF CreateEnvironment, InstallRequirements, CreateVenv, Goto
<1>9. CASE InstallDependencies(i)
  BY <1>1, <1>2, <1>4, <1>9 DEF InstallDependencies, Goto
<1>10. CASE ImportImage(i) \/ CopyFile(i) \/ Download(i)
  BY <1>1, <1>4, <1>10 DEF ImportImage, CopyFile, Download, Goto
<1>11. CASE RemoveTree(i) \/ RemoveVenv(i) \/ RemoveEnvironment(i) \/ RemoveImage(i) \/ EvictModel(i)
  BY <1>3, <1>11 DEF RemoveTree, RemoveVenv, RemoveEnvironment, RemoveImage, EvictModel, UninstallSteps
<1> QED
  BY <1>5, <1>6, <1>7, <1>8, <1>9, <1>10, <1>11 DEF Thread

(* A step of any thread preserves the invariant.                           *)
LEMMA ThreadStep ==
  ASSUME IInv, NEW i \in Items, Thread(i)
  PROVE  IInv'
<1>0. Types /\ Limit /\ Course /\ Cloning /\ Tended /\ Undisturbed /\ Blame
  BY DEF IInv
<1>1. Moves(i) /\ Heads(i) /\ Rest(i) /\ i.place \in Places
  BY <1>0, ThreadMoves, ThreadHeads, ThreadRest DEF Places
<1>2. /\ \A k \in Items \ {i} : pc'[k] = pc[k]
      /\ UNCHANGED <<items, command, verdict, crashes>>
  BY <1>0, <1>1 DEF Moves, Types
<1>3. i \in items /\ blamed \subseteq blamed'
  BY <1>0, <1>1 DEF Moves, Course, Busy
<1>4. Types'
  <2>1. pc' \in [Items -> Step] /\ UNCHANGED requested /\ UNCHANGED system
    BY <1>0, <1>1 DEF Moves, Types
  <2>2. blamed' \subseteq items' /\ failures' \in 0 .. MaxFailures
    BY <1>0, <1>1, <1>2, <1>3 DEF Moves, Types
  <2> QED
    BY <1>0, <1>1, <1>2, <2>1, <2>2 DEF Types, Heads, Rest
<1>5. Limit'
  BY <1>0, <1>1, LimitKept DEF Moves
<1>6. Course'
  BY <1>0, <1>1, <1>2, <1>3 DEF Course, Moves
<1>7. Cloning'
  <2>1. ASSUME NEW k \in Items \ {i}, k.place = i.place, pc[k] \in CloneSteps
        PROVE  pc'[i] \notin CloneSteps /\ checkout'[i.place].head = checkout[i.place].head
    <3>1. pc[i] \notin CloneSteps /\ checkout[i.place].head # "none"
      BY <1>0, <2>1 DEF Cloning, CloneSteps
    <3>2. pc[i] # "rmtree"
      BY <1>0, <2>1 DEF Course, CloneSteps, UninstallSteps, Busy
    <3> QED
      BY <1>1, <3>1, <3>2 DEF Heads, CloneSteps
  <2>2. ASSUME pc'[i] \in CloneSteps
        PROVE  /\ pc'[i] = "cloning" => checkout'[i.place].head = "cloning"
               /\ pc'[i] = "checkout" => checkout'[i.place].head = "default"
               /\ pc'[i] = "cloned_submodules" => checkout'[i.place].head = "commit"
    BY <1>1, <2>2 DEF Heads, CloneSteps
  <2>3. ASSUME NEW j \in Items, NEW k \in Items, j.place = k.place,
               pc'[j] \in CloneSteps, pc'[k] \in CloneSteps
        PROVE  j = k
    BY <1>0, <1>2, <2>1, <2>3 DEF Cloning
  <2>4. ASSUME NEW k \in Items, pc'[k] \in CloneSteps
        PROVE  /\ pc'[k] = "cloning" => checkout'[k.place].head = "cloning"
               /\ pc'[k] = "checkout" => checkout'[k.place].head = "default"
               /\ pc'[k] = "cloned_submodules" => checkout'[k.place].head = "commit"
    <3>1. CASE k = i
      BY <2>2, <2>4, <3>1
    <3>2. CASE k # i /\ k.place = i.place
      BY <1>0, <1>2, <2>1, <2>4, <3>2 DEF Cloning
    <3>3. CASE k.place # i.place
      <4>1. k.place \in Places
        BY DEF Places
      <4> QED
        BY <1>0, <1>1, <1>2, <2>4, <3>3, <4>1 DEF Cloning, Heads
    <3> QED
      BY <3>1, <3>2, <3>3
  <2> QED
    BY <2>3, <2>4 DEF Cloning, CloneSteps
<1>8. Tended'
  <2> SUFFICES ASSUME crashes = 0, NEW p \in Places
               PROVE  /\ checkout'[p].head = "cloning" =>
                           \E k \in Items : k.place = p /\ pc'[k] = "cloning"
                      /\ checkout'[p].head = "default" =>
                           \E k \in Items : k.place = p /\ pc'[k] = "checkout"
                      /\ venv'[p] = "bare" =>
                           \E k \in Items : k.place = p /\ pc'[k] \in {"requirements", "dependencies"}
    BY <1>2 DEF Tended
  <2>1. CASE p # i.place
    BY <1>0, <1>1, <1>2, <2>1 DEF Tended, Heads, Rest
  <2>2. CASE p = i.place
    <3>1. checkout'[p].head = "cloning" => \E k \in Items : k.place = p /\ pc'[k] = "cloning"
      BY <1>0, <1>1, <1>2, <2>2 DEF Tended, Heads, CloneSteps, Cloning
    <3>2. checkout'[p].head = "default" => \E k \in Items : k.place = p /\ pc'[k] = "checkout"
      BY <1>0, <1>1, <1>2, <2>2 DEF Tended, Heads, CloneSteps, Cloning
    <3>3. venv'[p] = "bare" =>
             \E k \in Items : k.place = p /\ pc'[k] \in {"requirements", "dependencies"}
      BY <1>0, <1>1, <1>2, <2>2 DEF Tended, Rest
    <3> QED
      BY <3>1, <3>2, <3>3
  <2> QED
    BY <2>1, <2>2
<1>9. Undisturbed'
  <2> SUFFICES ASSUME crashes = 0, NEW k \in items, Alone(k)
               PROVE  /\ pc'[k] = "verify" => checkout'[k.place].head = "commit"
                      /\ pc'[k] = "clone" => checkout'[k.place].head = "none"
                      /\ pc'[k] \in {"submodules", "venv", "dependencies"} =>
                           checkout'[k.place].head # "none"
    BY <1>2 DEF Undisturbed, Alone
  <2>0. k \in Items /\ k.place \in Places
    BY <1>0 DEF Types, Places
  <2>1. CASE k = i
    <3>1. ASSUME pc'[i] = "verify" PROVE checkout'[i.place].head = "commit"
      <4>1. /\ pc[i] \notin CloneSteps /\ Cloned(i)
            /\ checkout'[i.place].head = checkout[i.place].head
            /\ checkout[i.place].head # "none"
        BY <1>1, <3>1 DEF Heads, Moves, CloneSteps, RepositorySteps
      <4>2. ASSUME NEW j \in Items, j.place = i.place PROVE pc[j] \notin CloneSteps
        BY <1>0, <2>1, <4>1, <4>2 DEF Course, Alone, CloneSteps, RepositorySteps
      <4>3. checkout[i.place].head \notin {"cloning", "default"}
        BY <1>0, <1>1, <4>2 DEF Tended, CloneSteps
      <4> QED
        BY <1>0, <1>1, <4>1, <4>3 DEF Types, Checkout
    <3>2. pc'[i] = "clone" => checkout'[i.place].head = "none"
      BY <1>1 DEF Heads, CloneSteps
    <3>3. ASSUME pc'[i] \in {"submodules", "venv", "dependencies"}
          PROVE  checkout'[i.place].head # "none"
      BY <1>0, <1>1, <2>1, <3>3 DEF Heads, CloneSteps, Undisturbed
    <3> QED
      BY <2>1, <3>1, <3>2, <3>3
  <2>2. CASE k # i
    <3> SUFFICES ASSUME pc[k] \in {"verify", "clone", "submodules", "venv", "dependencies"}
                 PROVE  checkout'[k.place].head = checkout[k.place].head
      BY <1>0, <1>2, <2>0, <2>2 DEF Undisturbed
    <3>1. CASE k.place # i.place
      BY <1>1, <2>0, <3>1 DEF Heads
    <3>2. CASE k.place = i.place
      <4>1. Cloned(k)
        BY <1>0, <2>0 DEF Course, RepositorySteps, ExecutableSteps
      <4>2. ~Cloned(i)
        BY <1>3, <2>2, <3>2, <4>1 DEF Alone
      <4>3. pc[i] \notin RepositorySteps
        BY <1>0, <4>2 DEF Course
      <4> QED
        BY <1>1, <3>2, <4>3 DEF Heads, RepositorySteps, CloneSteps
    <3> QED
      BY <3>1, <3>2
  <2> QED
    BY <2>1, <2>2
<1>10. Blame'
  <2> SUFFICES ASSUME NEW k \in items, command = "install", pc'[k] = "failed"
               PROVE  k \in blamed' \/ (crashes > 0 /\ Cloned(k)) \/ ~Alone(k)
    BY <1>2 DEF Blame, Alone
  <2>1. CASE k = i
    BY <2>1, ThreadBlamed
  <2>2. CASE k # i
    <3>1. pc[k] = "failed"
      BY <1>0, <1>2, <2>2 DEF Types
    <3> QED
      BY <1>0, <1>3, <3>1 DEF Blame
  <2> QED
    BY <2>1, <2>2
<1> QED
  BY <1>4, <1>5, <1>6, <1>7, <1>8, <1>9, <1>10 DEF IInv

-----------------------------------------------------------------------------
(* The invariant holds in every reachable state.                           *)
LEMMA Inductive == Spec => []IInv
<1>1. Init => IInv
  BY InitIInv
<1>2. IInv /\ [Next]_vars => IInv'
  <2> SUFFICES ASSUME IInv, [Next]_vars PROVE IInv'
    OBVIOUS
  <2>1. CASE Install \/ PrerequisitesMissing \/ Uninstall \/ Verdict \/ Killed
    BY <2>1, CommandSteps
  <2>2. ASSUME NEW i \in Items, Thread(i) PROVE IInv'
    BY <2>2, ThreadStep
  <2>3. CASE UNCHANGED vars
    BY <2>3 DEF IInv, Types, Limit, Course, Cloning, Tended, Undisturbed, Blame, Alone, vars, disk
  <2> QED
    BY <2>1, <2>2, <2>3 DEF Next
<1> QED
  BY <1>1, <1>2, PTL DEF Spec

(* Every reachable state is well typed, and no more threads are at work    *)
(* than the pool has.                                                      *)
THEOREM TypeCorrect == Spec => []TypeOK
<1>1. IInv => TypeOK
  BY DEF IInv, Types, Limit, TypeOK
<1> QED
  BY <1>1, Inductive, PTL

(* No failing command leaves a clone or an environment half made           *)
(* (_clone_repository, _checkout_commit, CreateEnvironment and the others  *)
(* remove what they have begun), with any number of threads over any       *)
(* directories.                                                            *)
THEOREM LeavesNothingHalfMade == Spec => []NothingHalfMade
<1>1. IInv => NothingHalfMade
  BY DEF IInv, Types, Tended, Checkout, NothingHalfMade, Running, Busy
<1> QED
  BY <1>1, Inductive, PTL

(* An item fails by its own commands only, unless it shares its repository *)
(* or finds what a killed process has left of it.                          *)
THEOREM FailuresApart == Spec => []FailuresStayApart
<1>1. IInv => FailuresStayApart
  BY DEF IInv, Blame, Alone, FailuresStayApart
<1> QED
  BY <1>1, Inductive, PTL
-----------------------------------------------------------------------------
(* Whether the verdicts are true.                                          *)

(* The items of a scenario: two items share a place only where a test      *)
(* mounts the repository that another builds its executable from, and      *)
(* they agree on its submodules.                                           *)
Unambiguous(S) ==
  \A i, k \in S : i # k /\ i.place = k.place => Cloned(i) /\ Cloned(k) /\ i.want = k.want

(* Of every item of the scenario an equal one is chosen.                   *)
Chosen ==
  /\ requested \in Scenarios
  /\ command # "none" => items \in all_items(requested)

Python(i)   == i.kind \in {"PythonExecutable", "PythonEnvironment"}
InCache(i)  == i.kind \in {"DockerImage", "File", "HFModel"}

(* A thread keeps to the steps of the class of its item.                   *)
Classes ==
  \A i \in Items :
    /\ pc[i] \in {"venv", "dependencies", "remove"} => i.kind = "PythonExecutable"
    /\ pc[i] \in {"python", "uv_venv", "requirements", "remove_env"} => i.kind = "PythonEnvironment"
    /\ pc[i] \in {"import", "unlink"} => i.kind = "DockerImage"
    /\ pc[i] = "copy" => i.kind = "File"
    /\ pc[i] \in {"download", "evict"} => i.kind = "HFModel" /\ system.hf_home_accessible

(* What is on disk belongs to an item of the scenario.                     *)
Owned ==
  \A p \in Places :
    /\ checkout[p] # NoCheckout => \E i \in requested : i.place = p /\ Cloned(i)
    /\ venv[p] # "none" => \E i \in requested : i.place = p /\ Python(i)
    /\ cached[p] # "none" =>
         \E i \in requested : /\ i.place = p /\ InCache(i) /\ cached[p] \in {"partial", i.want}
                              /\ i.kind = "HFModel" => system.hf_home_accessible
    /\ checkout[p].head = "none" => checkout[p] = NoCheckout

Ready(i) == checkout[i.place] = [head |-> "commit", submodules |-> i.want]

(* The state of a repository as its threads count on it. A checkout that   *)
(* lacks submodules is being worked on by the thread that has cloned it; a *)
(* thread that found a checkout keeps it, unless the one that has cloned   *)
(* it failed.                                                              *)
Repositories ==
  /\ crashes = 0 => \A i \in requested : Cloned(i) /\ checkout[i.place].head = "commit" =>
       Ready(i) \/ \E k \in items : k.place = i.place /\ pc[k] = "cloned_submodules"
  /\ \A i \in items :
       /\ pc[i] = "submodules" =>
            \/ checkout[i.place].head = "commit"
            \/ /\ checkout[i.place] = NoCheckout
               /\ \A k \in items \ {i} : k.place = i.place => pc[k] = "failed"
       /\ pc[i] \in {"venv", "dependencies"} => Ready(i)
       /\ command = "install" /\ pc[i] = "ok" /\ Cloned(i) => Ready(i)

Done(i) == Complete(i) \/ (is_installed_one(i) /\ TakenAsItIs(i))

Achieved ==
  command = "install" => \A i \in items : pc[i] = "ok" \/ verdict = "success" => Done(i)

Gone(i) ==
  /\ Cloned(i) => checkout[i.place] = NoCheckout
  /\ Python(i) => venv[i.place] = "none"
  /\ i.kind \in {"DockerImage", "HFModel"} => cached[i.place] = "none"

Removed ==
  command = "uninstall" =>
    \A i \in items : /\ pc[i] = "remove" => checkout[i.place] = NoCheckout
                     /\ pc[i] = "ok" => Gone(i)
                     /\ verdict = "success" => pc[i] = "ok"

SInv == Chosen /\ Classes /\ Owned /\ Repositories /\ Achieved /\ Removed

-----------------------------------------------------------------------------
(* Two items of a command over one place are a repository and the          *)
(* executable that is built from it.                                       *)
LEMMA Twins ==
  ASSUME Types, Chosen, \A S \in Scenarios : Unambiguous(S), command # "none",
         NEW i \in items, NEW k \in items, i # k, i.place = k.place
  PROVE  /\ Cloned(i) /\ Cloned(k) /\ i.want = k.want /\ i.kind # k.kind
         /\ \A j \in items : j # i /\ j.place = i.place => j = k
<1>1. \A j \in items : j # i /\ j.place = i.place =>
        Cloned(i) /\ Cloned(j) /\ i.want = j.want /\ i.kind # j.kind
  BY DEF Types, Chosen, Unambiguous, all_items, Equal, Cloned
<1>2. \A j \in items : j # i /\ j.place = i.place => j = k
  BY <1>1 DEF Types, Chosen, all_items, Equal, Cloned
<1> QED
  BY <1>1, <1>2

(* Every item of the scenario has one of its class, over its place and     *)
(* with its wants, among the items of the command.                         *)
LEMMA Counterpart ==
  ASSUME Types, Chosen, \A S \in Scenarios : Unambiguous(S), command # "none",
         NEW i \in requested
  PROVE  \E k \in items : k.kind = i.kind /\ k.place = i.place /\ k.want = i.want
<1>1. PICK k \in items : Equal(i, k)
  BY DEF Chosen, all_items
<1> QED
  BY <1>1 DEF Types, Chosen, Unambiguous, Equal

(* What is on disk for a file item was written for it.                     *)
LEMMA OwnFile ==
  ASSUME Types, Chosen, Owned, \A S \in Scenarios : Unambiguous(S),
         NEW i \in requested, InCache(i), cached[i.place] # "none"
  PROVE  /\ cached[i.place] \in {"partial", i.want}
         /\ i.kind = "HFModel" => system.hf_home_accessible
<1>1. i.place \in Places
  BY DEF Types, Places
<1>2. PICK k \in requested :
         /\ k.place = i.place /\ InCache(k) /\ cached[i.place] \in {"partial", k.want}
         /\ k.kind = "HFModel" => system.hf_home_accessible
  BY <1>1 DEF Owned
<1>3. k.place = i.place /\ InCache(k)
  BY <1>2
<1>4. i # k => Cloned(k)
  BY <1>3 DEF Chosen, Unambiguous
<1>5. k = i
  BY <1>3, <1>4 DEF InCache, Cloned
<1>6. cached[i.place] \in {"partial", k.want} /\ (k.kind = "HFModel" => system.hf_home_accessible)
  BY <1>2
<1> QED
  BY <1>5, <1>6

(* What a thread touches: its own place only, there what its class keeps.  *)
Touch(i) ==
  /\ \A p \in Places \ {i.place} :
       checkout'[p] = checkout[p] /\ venv'[p] = venv[p] /\ cached'[p] = cached[p]
  /\ checkout'[i.place] = checkout[i.place] \/ Cloned(i)
  /\ checkout'[i.place].head = "none" => checkout'[i.place] = NoCheckout
  /\ venv'[i.place] = venv[i.place] \/ Python(i)
  /\ \/ cached'[i.place] = cached[i.place]
     \/ /\ InCache(i) /\ cached'[i.place] \in {"none", "partial", i.want}
        /\ i.kind = "HFModel" => system.hf_home_accessible

(* Every action of Thread touches no more, and keeps to its class.         *)
LEMMA ThreadTouches ==
  ASSUME Types, Course, Classes, Owned, NEW i \in Items, Thread(i)
  PROVE  Touch(i)
<1> USE DEF Touch, Types, Course, Classes, Checkout, NoCheckout
<1>0. i.place \in Places /\ i.want \in Wants /\ (checkout[i.place].head = "none" => checkout[i.place] = NoCheckout)
  BY DEF Places, Wants, Owned
<1>1. CASE Start(i) \/ Verify(i) \/ CheckoutGone(i) \/ EnsurePython(i)
  BY <1>0, <1>1 DEF Start, Verify, CheckoutGone, EnsurePython, disk
<1>2. CASE CloneBegins(i) \/ CloneEnds(i) \/ CheckOut(i) \/ RemoveTree(i)
  BY <1>0, <1>2 DEF CloneBegins, CloneEnds, CheckOut, RemoveTree, RepositorySteps, CloneSteps
<1>3. CASE EnsureSubmodules(i)
  <2>1. Cloned(i) /\ i.want \in {"none", "all"}
    BY <1>3, ItemsAssumption DEF EnsureSubmodules, RepositorySteps, CloneSteps
  <2> QED
    BY <1>0, <1>3, <2>1 DEF EnsureSubmodules
<1>4. CASE CreateEnvironment(i) \/ InstallRequirements(i) \/ CreateVenv(i) \/ InstallDependencies(i)
  BY <1>0, <1>4 DEF CreateEnvironment, InstallRequirements, CreateVenv, InstallDependencies, Python
<1>5. CASE ImportImage(i) \/ CopyFile(i) \/ Download(i)
  BY <1>0, <1>5 DEF ImportImage, CopyFile, Download, InCache
<1>6. CASE RemoveVenv(i) \/ RemoveEnvironment(i) \/ RemoveImage(i) \/ EvictModel(i)
  BY <1>0, <1>6 DEF RemoveVenv, RemoveEnvironment, RemoveImage, EvictModel, Python, InCache
<1> QED
  BY <1>1, <1>2, <1>3, <1>4, <1>5, <1>6 DEF Thread


(* A thread keeps to the steps of the class of its item.                   *)
LEMMA ThreadClasses ==
  ASSUME Types, Classes, Course, NEW i \in Items, Thread(i)
  PROVE  Classes'
<1>1. Moves(i)
  BY ThreadMoves
<1>2. /\ pc'[i] \in {"venv", "dependencies", "remove"} => i.kind = "PythonExecutable"
      /\ pc'[i] \in {"python", "uv_venv", "requirements", "remove_env"} => i.kind = "PythonEnvironment"
      /\ pc'[i] \in {"import", "unlink"} => i.kind = "DockerImage"
      /\ pc'[i] = "copy" => i.kind = "File"
      /\ pc'[i] \in {"download", "evict"} => i.kind = "HFModel" /\ system.hf_home_accessible
  <2> USE DEF Types, Goto, Classes
  <2>1. CASE Start(i)
    BY <2>1, ItemsAssumption DEF Start, BeginInstall, BeginUninstall, AfterTree, GitRepo_install,
       ensure_docker_image, Cloned, Kind
  <2>2. CASE Verify(i) \/ CloneBegins(i) \/ CloneEnds(i) \/ CheckOut(i) \/ CheckoutGone(i)
    BY <2>2 DEF Verify, CloneBegins, CloneEnds, CheckOut, CheckoutGone
  <2>3. CASE EnsureSubmodules(i)
    BY <2>3 DEF EnsureSubmodules, After
  <2>4. CASE EnsurePython(i) \/ CreateEnvironment(i) \/ InstallRequirements(i) \/ CreateVenv(i)
             \/ InstallDependencies(i)
    BY <2>4 DEF EnsurePython, CreateEnvironment, InstallRequirements, CreateVenv, InstallDependencies
  <2>5. CASE ImportImage(i) \/ CopyFile(i) \/ Download(i)
    BY <2>5 DEF ImportImage, CopyFile, Download
  <2>6. CASE RemoveTree(i) \/ RemoveVenv(i) \/ RemoveEnvironment(i) \/ RemoveImage(i) \/ EvictModel(i)
    BY <2>6 DEF RemoveTree, RemoveVenv, RemoveEnvironment, RemoveImage, EvictModel, AfterTree
  <2> QED
    BY <2>1, <2>2, <2>3, <2>4, <2>5, <2>6 DEF Thread
<1> QED
  BY <1>1, <1>2 DEF Moves, Types, Classes

(* What a thread of an installation does to the repository at its place: a *)
(* ready one stays ready, one at its commit stays there unless the thread  *)
(* that cloned it fails, and no thread goes on before it is ready.         *)
RepositoryStep(i) ==
  /\ Ready(i) => Ready(i)'
  /\ checkout[i.place].head = "commit" =>
       \/ checkout'[i.place].head = "commit"
       \/ checkout'[i.place] = NoCheckout /\ pc'[i] = "failed"
  /\ checkout'[i.place].head = "commit" =>
       \/ Ready(i)' \/ pc'[i] = "cloned_submodules"
       \/ checkout[i.place].head = "commit" /\ ~Ready(i) /\ pc[i] # "cloned_submodules"
  /\ pc'[i] = "submodules" => checkout'[i.place].head = "commit"
  /\ pc'[i] \in {"venv", "dependencies"} => Ready(i)'
  /\ pc'[i] = "ok" /\ Cloned(i) => Ready(i)'
  /\ pc[i] = "submodules" => checkout[i.place].head \in {"none", "commit"}

LEMMA ThreadRepository ==
  ASSUME Types, Course, Cloning, Classes, Repositories, NEW i \in Items, Thread(i), command = "install"
  PROVE  RepositoryStep(i)
<1> USE DEF RepositoryStep, Ready, Types, Goto, Checkout, NoCheckout
<1>0. i.place \in Places
  BY DEF Places
<1>1. Cloned(i) => i.want \in {"none", "all"}
  BY ItemsAssumption
<1>2. /\ pc[i] \in {"submodules", "venv", "dependencies"} => i \in items /\ Cloned(i)
      /\ pc[i] \in CloneSteps => Cloned(i)
      /\ pc[i] \notin UninstallSteps
  BY DEF Course, RepositorySteps, ExecutableSteps, UninstallSteps, Busy
<1>3. /\ pc[i] = "cloning" => checkout[i.place].head = "cloning"
      /\ pc[i] = "checkout" => checkout[i.place].head = "default"
      /\ pc[i] = "cloned_submodules" => checkout[i.place].head = "commit"
      /\ pc[i] = "submodules" => checkout[i.place].head \in {"none", "commit"}
      /\ pc[i] \in {"venv", "dependencies"} => Ready(i)
  BY <1>2 DEF Cloning, Repositories
<1>4. CASE Start(i)
  BY <1>0, <1>3, <1>4, ItemsAssumption DEF Start, BeginInstall, GitRepo_install, ensure_docker_image, Cloned,
     Kind, disk
<1>5. CASE Verify(i) \/ CheckoutGone(i) \/ CloneBegins(i)
  BY <1>0, <1>3, <1>5 DEF Verify, CheckoutGone, CloneBegins, disk
<1>6. CASE CloneEnds(i) \/ CheckOut(i)
  BY <1>0, <1>3, <1>6 DEF CloneEnds, CheckOut
<1>7. CASE EnsureSubmodules(i)
  <2>1. i.want \in {"none", "all"} /\ checkout[i.place].head = "commit"
    BY <1>1, <1>2, <1>3, <1>7 DEF EnsureSubmodules, CloneSteps
  <2>2. CASE /\ checkout' = [checkout EXCEPT ![i.place].submodules = i.want]
             /\ Goto(i, After(i))
    BY <1>0, <2>1, <2>2 DEF After
  <2>3. CASE /\ checkout[i.place].submodules # i.want /\ pc[i] = "submodules"
             /\ checkout' = [checkout EXCEPT ![i.place] = [@ EXCEPT !.submodules = "some"]]
             /\ Goto(i, "failed")
    BY <1>0, <2>1, <2>3
  <2>4. CASE /\ checkout[i.place].submodules # i.want /\ pc[i] = "cloned_submodules"
             /\ checkout' = [checkout EXCEPT ![i.place] = NoCheckout]
             /\ Goto(i, "failed")
    BY <1>0, <2>1, <2>4
  <2> QED
    BY <1>7, <2>2, <2>3, <2>4 DEF EnsureSubmodules
<1>8. CASE EnsurePython(i)
  BY <1>0, <1>3, <1>8 DEF EnsurePython, disk
<1>9. CASE CreateEnvironment(i) \/ InstallRequirements(i)
  BY <1>0, <1>3, <1>9 DEF CreateEnvironment, InstallRequirements, Classes, Cloned
<1>10. CASE CreateVenv(i) \/ InstallDependencies(i)
  BY <1>0, <1>3, <1>10 DEF CreateVenv, InstallDependencies
<1>11. CASE ImportImage(i) \/ CopyFile(i) \/ Download(i)
  BY <1>0, <1>3, <1>11 DEF ImportImage, CopyFile, Download, Classes, Cloned
<1>12. CASE RemoveTree(i) \/ RemoveVenv(i) \/ RemoveEnvironment(i) \/ RemoveImage(i) \/ EvictModel(i)
  BY <1>2, <1>12 DEF RemoveTree, RemoveVenv, RemoveEnvironment, RemoveImage, EvictModel, UninstallSteps
<1> QED
  BY <1>4, <1>5, <1>6, <1>7, <1>8, <1>9, <1>10, <1>11, <1>12 DEF Thread

(* An item stays done while its place, the system and the number of kills  *)
(* stay as they are.                                                       *)
LEMMA DoneKept ==
  ASSUME NEW i, Done(i), UNCHANGED <<system, crashes>>, checkout'[i.place] = checkout[i.place],
         venv'[i.place] = venv[i.place], cached'[i.place] = cached[i.place]
  PROVE  Done(i)'
BY DEF Done, Complete, is_installed_one, TakenAsItIs, GitRepo_is_installed,
   PythonExecutable_is_installed, PythonEnvironment_is_installed, DockerImage_is_installed,
   File_is_installed, HFModel_is_installed

(* An item that counts as installed where nothing runs is complete or may  *)
(* be taken as it is. That also holds of an environment or an executable   *)
(* whose own thread looks, of the latter when its repository is ready.     *)
LEMMA Found ==
  ASSUME IInv, SInv, \A S \in Scenarios : Unambiguous(S), NEW i \in requested, is_installed_one(i),
         Cloned(i) => Ready(i) \/ (~Running /\ crashes = 0) \/ crashes > 0,
         \A k \in Items : k.place = i.place => pc[k] \notin {"requirements", "dependencies"}
  PROVE  Done(i)
<1>0. Types /\ Tended /\ Chosen /\ Owned /\ Repositories /\ i \in Items /\ i.place \in Places
  BY DEF IInv, SInv, Types, Places
<1>1. i.kind \in Kind
  BY <1>0, ItemsAssumption
<1>2. crashes = 0 \/ crashes > 0
  BY <1>0, BoundsAssumption DEF Types
<1>3. crashes = 0 => venv[i.place] # "bare"
  BY <1>0 DEF Tended
<1>4. venv[i.place] \in {"none", "bare", "complete"}
  BY <1>0 DEF Types
<1>5. ASSUME Cloned(i), crashes = 0, checkout[i.place].head # "none" PROVE Ready(i)
  <2> SUFFICES ASSUME ~Running PROVE Ready(i)
    BY <1>5
  <2>1. \A k \in Items : pc[k] \notin {"cloning", "checkout", "cloned_submodules"}
    BY DEF Running, Busy
  <2>2. checkout[i.place].head = "commit"
    BY <1>0, <1>5, <2>1 DEF Tended, Types, Checkout
  <2>3. items \subseteq Items
    BY <1>0 DEF Types
  <2> QED
    BY <1>0, <1>5, <2>1, <2>2, <2>3 DEF Repositories
<1>6. CASE i.kind = "GitRepo"
  BY <1>6 DEF Done, Complete, is_installed_one, GitRepo_is_installed
<1>7. CASE i.kind = "PythonExecutable"
  <2>1. checkout[i.place].head # "none" /\ venv[i.place] # "none"
    BY <1>7 DEF is_installed_one, PythonExecutable_is_installed
  <2>2. crashes = 0 => Ready(i) /\ venv[i.place] = "complete"
    BY <1>3, <1>4, <1>5, <1>7, <2>1 DEF Cloned
  <2> QED
    BY <1>2, <1>7, <2>2 DEF Done, Complete, Ready, TakenAsItIs
<1>8. CASE i.kind = "PythonEnvironment"
  BY <1>2, <1>3, <1>4, <1>8 DEF Done, Complete, TakenAsItIs, is_installed_one, PythonEnvironment_is_installed
<1>9. CASE i.kind = "DockerImage"
  <2>1. cached[i.place] # "none" => cached[i.place] \in {"partial", i.want}
    BY <1>0, <1>9, OwnFile DEF InCache
  <2> QED
    BY <1>9, <2>1 DEF Done, Complete, TakenAsItIs, is_installed_one, DockerImage_is_installed
<1>10. CASE i.kind = "File"
  BY <1>10 DEF Done, Complete, is_installed_one, File_is_installed
<1>11. CASE i.kind = "HFModel"
  <2>1. cached[i.place] # "none" => cached[i.place] \in {"partial", i.want}
    BY <1>0, <1>11, OwnFile DEF InCache
  <2> QED
    BY <1>11, <2>1 DEF Done, Complete, TakenAsItIs, is_installed_one, HFModel_is_installed
<1> QED
  BY <1>1, <1>6, <1>7, <1>8, <1>9, <1>10, <1>11 DEF Kind

(* A thread of an installation that ends well has done its work.           *)
LEMMA ThreadDone ==
  ASSUME IInv, SInv, \A S \in Scenarios : Unambiguous(S),
         NEW i \in Items, Thread(i), command = "install", pc'[i] = "ok"
  PROVE  Done(i)'
<1>0. /\ Types /\ Course /\ Cloning /\ Classes /\ Repositories /\ Chosen /\ i.place \in Places
      /\ Moves(i) /\ RepositoryStep(i)
  BY ThreadMoves, ThreadRepository DEF IInv, SInv, Places
<1>1. i \in items /\ i \in requested /\ pc[i] \notin UninstallSteps
  BY <1>0 DEF Moves, Course, Types, Busy, UninstallSteps
<1>2. Cloned(i) => Ready(i)'
  BY <1>0 DEF RepositoryStep
<1>3. UNCHANGED <<system, requested, items, command, verdict, crashes>> /\ crashes \in Nat
  BY <1>0, BoundsAssumption DEF Moves, Types
<1>4. ASSUME NEW k \in Items, k.place = i.place, pc[k] \in {"requirements", "dependencies"},
             ~Cloned(i) \/ i.kind = "PythonExecutable"
      PROVE  k = i
  <2>1. k \in items /\ command # "none"
    BY <1>0, <1>4 DEF Course
  <2>2. k # i => Cloned(k) /\ Cloned(i) /\ k.kind # i.kind
    BY <1>0, <1>1, <1>4, <2>1, Twins
  <2>3. k.kind \in {"PythonExecutable", "PythonEnvironment"}
    BY <1>0, <1>4 DEF Classes
  <2> QED
    BY <1>4, <2>2, <2>3 DEF Cloned
<1>5. ASSUME is_installed_one(i), UNCHANGED disk, pc[i] \notin {"requirements", "dependencies"},
             Cloned(i) => Ready(i), ~Cloned(i) \/ i.kind = "PythonExecutable"
      PROVE  Done(i)'
  <2>1. Done(i)
    BY <1>1, <1>4, <1>5, Found
  <2> QED
    BY <1>3, <1>5, <2>1, DoneKept DEF disk
<1>6. CASE Start(i)
  <2>1. UNCHANGED disk /\ pc'[i] = BeginInstall(i) /\ i.kind \in Kind /\ pc[i] = "waiting"
    BY <1>0, <1>6, ItemsAssumption DEF Start, Goto, Types
  <2>2. ~Cloned(i) /\ i.kind \in {"PythonEnvironment", "DockerImage", "HFModel"}
    BY <2>1 DEF BeginInstall, GitRepo_install, Cloned, Kind
  <2>3. i.kind = "HFModel" => ~system.hf_home_accessible
    BY <2>1 DEF BeginInstall, Cloned
  <2>4. is_installed_one(i)
    BY <2>1, <2>2, <2>3 DEF BeginInstall, Cloned, ensure_docker_image, is_installed_one, HFModel_is_installed
  <2> QED
    BY <1>5, <2>1, <2>2, <2>4
<1>7. CASE EnsureSubmodules(i)
  <2>1. i.kind = "GitRepo"
    BY <1>0, <1>7 DEF EnsureSubmodules, After, Goto, Types, Course, RepositorySteps, CloneSteps, Cloned
  <2> QED
    BY <1>2, <2>1 DEF Done, Complete, Ready, Cloned
<1>8. CASE InstallRequirements(i)
  BY <1>0, <1>8 DEF InstallRequirements, Goto, Types, Classes, Done, Complete
<1>9. CASE CreateVenv(i)
  <2>1. i.kind = "PythonExecutable" /\ venv[i.place] # "none" /\ UNCHANGED disk /\ Ready(i) /\ pc[i] = "venv"
    BY <1>0, <1>1, <1>9 DEF CreateVenv, Goto, Types, Classes, disk, Repositories
  <2>2. is_installed_one(i)
    BY <2>1 DEF is_installed_one, PythonExecutable_is_installed, Ready
  <2> QED
    BY <1>5, <2>1, <2>2
<1>10. CASE InstallDependencies(i)
  <2>1. i.kind = "PythonExecutable" /\ venv'[i.place] = "complete"
    BY <1>0, <1>10 DEF InstallDependencies, Goto, Types, Classes
  <2> QED
    BY <1>2, <2>1 DEF Done, Complete, Ready, Cloned
<1>11. CASE ImportImage(i)
  <2>1. i.kind = "DockerImage" /\ cached'[i.place] = i.want
    BY <1>0, <1>11 DEF ImportImage, Goto, Types, Classes
  <2> QED
    BY <2>1 DEF Done, Complete
<1>12. CASE CopyFile(i)
  <2>1. i.kind = "File" /\ cached'[i.place] = i.want
    BY <1>0, <1>12 DEF CopyFile, Goto, Types, Classes
  <2> QED
    BY <2>1 DEF Done, Complete
<1>13. CASE Download(i)
  <2>1. i.kind = "HFModel" /\ cached'[i.place] = i.want
    BY <1>0, <1>13 DEF Download, Goto, Types, Classes
  <2> QED
    BY <2>1 DEF Done, Complete
<1>14. CASE Verify(i) \/ CloneBegins(i) \/ CloneEnds(i) \/ CheckOut(i) \/ CheckoutGone(i)
            \/ EnsurePython(i) \/ CreateEnvironment(i)
  BY <1>0, <1>14 DEF Verify, CloneBegins, CloneEnds, CheckOut, CheckoutGone, EnsurePython,
     CreateEnvironment, Goto, Types
<1>15. CASE RemoveTree(i) \/ RemoveVenv(i) \/ RemoveEnvironment(i) \/ RemoveImage(i) \/ EvictModel(i)
  BY <1>1, <1>15 DEF RemoveTree, RemoveVenv, RemoveEnvironment, RemoveImage, EvictModel, UninstallSteps
<1> QED
  BY <1>6, <1>7, <1>8, <1>9, <1>10, <1>11, <1>12, <1>13, <1>14, <1>15 DEF Thread

(* What a thread of an uninstallation does: it removes, and what it should *)
(* have removed is gone when it ends well.                                 *)
UninstallStep(i) ==
  /\ checkout'[i.place] \in {checkout[i.place], NoCheckout}
  /\ venv'[i.place] \in {venv[i.place], "none"}
  /\ cached'[i.place] \in {cached[i.place], "none"}
  /\ pc'[i] = "remove" => checkout'[i.place] = NoCheckout
  /\ pc'[i] = "ok" => Gone(i)'

LEMMA ThreadRemoves ==
  ASSUME IInv, SInv, \A S \in Scenarios : Unambiguous(S),
         NEW i \in Items, Thread(i), command = "uninstall"
  PROVE  UninstallStep(i)
<1>0. Types /\ Course /\ Classes /\ Owned /\ Removed /\ Chosen /\ i.place \in Places /\ Moves(i)
  BY ThreadMoves DEF IInv, SInv, Places
<1>1. i \in items /\ i \in requested /\ pc[i] \in UninstallSteps \union {"waiting"}
  BY <1>0 DEF Moves, Course, Types, Busy, UninstallSteps
<1>2. /\ checkout[i.place].head = "none" => checkout[i.place] = NoCheckout
      /\ pc[i] = "remove" => checkout[i.place] = NoCheckout
  BY <1>0, <1>1 DEF Owned, Removed
<1> USE DEF UninstallStep, Gone, Cloned, Python, Goto, Types
<1>3. CASE Start(i)
  <2>1. UNCHANGED disk /\ pc'[i] = BeginUninstall(i) /\ i.kind \in Kind
    BY <1>0, <1>3, ItemsAssumption DEF Start
  <2>2. ~system.hf_home_accessible /\ i.kind = "HFModel" => cached[i.place] = "none"
    BY <1>0, <1>1, OwnFile DEF InCache
  <2>3. CASE Cloned(i)
    BY <1>0, <1>2, <2>1, <2>3 DEF BeginUninstall, AfterTree, disk
  <2>4. CASE i.kind = "HFModel"
    BY <2>1, <2>2, <2>4 DEF BeginUninstall, is_installed_one, HFModel_is_installed, disk
  <2>5. CASE i.kind \in {"PythonEnvironment", "DockerImage", "File"}
    BY <2>1, <2>5 DEF BeginUninstall, disk
  <2> QED
    BY <2>1, <2>3, <2>4, <2>5 DEF Kind
<1>4. CASE RemoveTree(i)
  BY <1>0, <1>2, <1>4 DEF RemoveTree, AfterTree, NoCheckout, Course, RepositorySteps
<1>5. CASE RemoveVenv(i)
  BY <1>0, <1>2, <1>5 DEF RemoveVenv, Classes
<1>6. CASE RemoveEnvironment(i)
  BY <1>0, <1>6 DEF RemoveEnvironment, Classes
<1>7. CASE RemoveImage(i) \/ EvictModel(i)
  BY <1>0, <1>7 DEF RemoveImage, EvictModel, Classes
<1>8. CASE Verify(i) \/ CloneBegins(i) \/ CloneEnds(i) \/ CheckOut(i) \/ EnsureSubmodules(i) \/ CheckoutGone(i)
  BY <1>1, <1>8 DEF Verify, CloneBegins, CloneEnds, CheckOut, EnsureSubmodules, CheckoutGone, UninstallSteps
<1>9. CASE EnsurePython(i) \/ CreateEnvironment(i) \/ InstallRequirements(i) \/ CreateVenv(i)
           \/ InstallDependencies(i) \/ ImportImage(i) \/ CopyFile(i) \/ Download(i)
  BY <1>1, <1>9 DEF EnsurePython, CreateEnvironment, InstallRequirements, CreateVenv, InstallDependencies,
     ImportImage, CopyFile, Download, UninstallSteps
<1> QED
  BY <1>3, <1>4, <1>5, <1>6, <1>7, <1>8, <1>9 DEF Thread

(* It holds at first: nothing is on disk and no command has run.           *)
LEMMA InitSInv == Init => SInv
<1> SUFFICES ASSUME Init PROVE SInv
  OBVIOUS
<1>1. Chosen /\ Classes /\ Achieved /\ Removed
  BY DEF Init, Chosen, Classes, Achieved, Removed
<1>2. Owned
  BY DEF Init, Owned
<1>3. Repositories
  <2>1. \A i \in requested : i.place \in Places
    BY ScenariosAssumption DEF Init, Places
  <2> QED
    BY <2>1 DEF Init, Repositories, NoCheckout
<1> QED
  BY <1>1, <1>2, <1>3 DEF SInv

(* The commands keep it: an installation that finds every item is true.    *)
LEMMA CommandVerdicts ==
  ASSUME IInv, SInv, \A S \in Scenarios : Unambiguous(S),
         Install \/ PrerequisitesMissing \/ Uninstall \/ Verdict \/ Killed
  PROVE  SInv'
<1>0. /\ Types /\ Course /\ Tended /\ Chosen /\ Classes /\ Owned /\ Repositories /\ Achieved /\ Removed
      /\ UNCHANGED <<system, requested, checkout, venv, cached>>
  BY DEF IInv, SInv, Install, PrerequisitesMissing, Uninstall, Verdict, Killed, disk
<1>1. Owned'
  BY <1>0 DEF Owned
<1>2. CASE Install \/ PrerequisitesMissing \/ Uninstall
  <2>1. /\ items' \in all_items(requested) /\ items' \subseteq requested /\ crashes' = crashes
        /\ \A k \in Items : pc'[k] \in {"idle", "waiting"}
    BY <1>2 DEF Install, PrerequisitesMissing, Uninstall, Waiting, all_items
  <2>2. \A k \in Items : pc[k] \notin Busy \union {"waiting"}
    BY <1>0, <1>2 DEF Install, PrerequisitesMissing, Uninstall, InCommand, Course
  <2>3. Chosen' /\ Classes'
    BY <1>0, <2>1 DEF Chosen, Classes
  <2>4. Repositories'
    <3>1. items \subseteq Items /\ items' \subseteq Items
      BY <1>0, <2>1 DEF Types
    <3>2. \A k \in items : pc[k] # "cloned_submodules"
      BY <2>2, <3>1 DEF Busy
    <3>3. \A k \in items' : pc'[k] \notin {"submodules", "venv", "dependencies", "ok"}
      BY <2>1, <3>1
    <3> QED
      BY <1>0, <2>1, <3>2, <3>3 DEF Repositories, Ready
  <2>5. Achieved'
    <3> SUFFICES ASSUME command' = "install", NEW i \in items', pc'[i] = "ok" \/ verdict' = "success"
                 PROVE  Done(i)'
      BY DEF Achieved
    <3>1. i \in Items /\ i \in requested /\ pc'[i] # "ok"
      BY <1>0, <2>1 DEF Types
    <3>2. is_installed_one(i)
      BY <1>2, <3>1 DEF Install, PrerequisitesMissing, Uninstall
    <3>3. ~Running /\ (crashes = 0 \/ crashes > 0)
      BY <1>0, <2>2, BoundsAssumption DEF Running, Types
    <3>4. Done(i)
      BY <2>2, <3>1, <3>2, <3>3, Found DEF Busy
    <3> QED
      BY <1>0, <2>1, <3>4, DoneKept
  <2>6. Removed'
    <3>1. command' = "uninstall" => verdict' = "unknown"
      BY <1>2 DEF Install, PrerequisitesMissing, Uninstall
    <3>2. items' \subseteq Items
      BY <1>0, <2>1 DEF Types
    <3> QED
      BY <2>1, <3>1, <3>2 DEF Removed
  <2> QED
    BY <1>1, <2>3, <2>4, <2>5, <2>6 DEF SInv
<1>3. CASE Verdict
  <2>1. UNCHANGED <<items, command, pc, crashes>>
        /\ (verdict' = "success" => \A i \in items : pc[i] = "ok")
    BY <1>3 DEF Verdict
  <2>2. Chosen' /\ Classes'
    BY <1>0, <2>1 DEF Chosen, Classes
  <2>3. Repositories'
    BY <1>0, <2>1 DEF Repositories, Ready
  <2>4. Achieved'
    BY <1>0, <2>1, DoneKept DEF Achieved
  <2>5. Removed'
    BY <1>0, <2>1 DEF Removed, Gone
  <2> QED
    BY <1>1, <2>2, <2>3, <2>4, <2>5 DEF SInv
<1>4. CASE Killed
  <2>1. items' = {} /\ command' = "none" /\ crashes' > 0 /\ \A k \in Items : pc'[k] = "idle"
    BY <1>0, <1>4, BoundsAssumption DEF Killed, Types
  <2>2. Chosen' /\ Classes' /\ Repositories' /\ Achieved' /\ Removed'
    BY <1>0, <2>1 DEF Chosen, Classes, Repositories, Achieved, Removed
  <2> QED
    BY <1>1, <2>2 DEF SInv
<1> QED
  BY <1>2, <1>3, <1>4

(* A step of any thread keeps it.                                          *)
LEMMA ThreadVerdict ==
  ASSUME IInv, SInv, \A S \in Scenarios : Unambiguous(S), NEW i \in Items, Thread(i)
  PROVE  SInv'
<1>0. /\ Types /\ Course /\ Cloning /\ Chosen /\ Classes /\ Owned /\ Repositories /\ Achieved /\ Removed
      /\ Moves(i) /\ Touch(i) /\ i.place \in Places
  BY ThreadMoves, ThreadTouches DEF IInv, SInv, Places
<1>1. /\ i \in items /\ i \in requested /\ command # "none" /\ verdict = "unknown"
      /\ UNCHANGED <<system, requested, items, command, verdict, crashes>>
      /\ \A k \in Items \ {i} : pc'[k] = pc[k]
  BY <1>0 DEF Moves, Course, Types, Busy
<1>2. Chosen' /\ Classes'
  BY <1>0, <1>1, ThreadClasses DEF Chosen
<1>3. Owned'
  <2> SUFFICES ASSUME NEW p \in Places
               PROVE  /\ checkout'[p] # NoCheckout => \E k \in requested : k.place = p /\ Cloned(k)
                      /\ venv'[p] # "none" => \E k \in requested : k.place = p /\ Python(k)
                      /\ cached'[p] # "none" =>
                           \E k \in requested :
                             /\ k.place = p /\ InCache(k) /\ cached'[p] \in {"partial", k.want}
                             /\ k.kind = "HFModel" => system.hf_home_accessible
                      /\ checkout'[p].head = "none" => checkout'[p] = NoCheckout
    BY <1>1 DEF Owned
  <2>1. CASE p # i.place
    <3>1. checkout'[p] = checkout[p] /\ venv'[p] = venv[p] /\ cached'[p] = cached[p]
      BY <1>0, <2>1 DEF Touch
    <3> QED
      BY <1>0, <3>1 DEF Owned
  <2>2. CASE p = i.place
    <3>1. checkout'[p] # NoCheckout => \E k \in requested : k.place = p /\ Cloned(k)
      BY <1>0, <1>1, <2>2 DEF Touch, Owned
    <3>2. venv'[p] # "none" => \E k \in requested : k.place = p /\ Python(k)
      BY <1>0, <1>1, <2>2 DEF Touch, Owned
    <3>3. ASSUME cached'[p] # "none"
          PROVE  \E k \in requested :
                   /\ k.place = p /\ InCache(k) /\ cached'[p] \in {"partial", k.want}
                   /\ k.kind = "HFModel" => system.hf_home_accessible
      <4>1. CASE cached'[p] = cached[p]
        BY <1>0, <3>3, <4>1 DEF Owned
      <4>2. CASE /\ InCache(i) /\ cached'[i.place] \in {"none", "partial", i.want}
                 /\ i.kind = "HFModel" => system.hf_home_accessible
        BY <1>1, <2>2, <3>3, <4>2
      <4> QED
        BY <1>0, <2>2, <4>1, <4>2 DEF Touch
    <3>4. checkout'[p].head = "none" => checkout'[p] = NoCheckout
      BY <1>0, <2>2 DEF Touch
    <3> QED
      BY <3>1, <3>2, <3>3, <3>4
  <2> QED
    BY <2>1, <2>2
<1>4. ASSUME NEW k \in items, k # i, k.place = i.place
      PROVE  /\ Cloned(i) /\ Cloned(k) /\ i.want = k.want /\ i.kind # k.kind
             /\ \A j \in items : j # k /\ j.place = k.place => j = i
  BY <1>0, <1>1, <1>4, Twins
<1>5. \A k \in requested : k.place \in Places /\ k \in Items
  BY <1>0 DEF Types, Places
<1>6. \A k \in requested : k.place = i.place /\ Cloned(k) => k.want = i.want
  BY <1>0, <1>1 DEF Chosen, Unambiguous
<1>7. \A k \in items : k \in requested
  BY <1>0 DEF Types
<1>8. CASE command = "install"
  <2>0. RepositoryStep(i)
    BY <1>0, <1>8, ThreadRepository
  <2>1. Repositories'
    <3>1. ASSUME crashes = 0, NEW k \in requested, Cloned(k), checkout'[k.place].head = "commit"
          PROVE  Ready(k)' \/ \E j \in items : j.place = k.place /\ pc'[j] = "cloned_submodules"
      <4>1. CASE k.place # i.place
        <5>1. checkout'[k.place] = checkout[k.place]
          BY <1>0, <1>5, <4>1 DEF Touch
        <5>2. Ready(k) \/ \E j \in items : j.place = k.place /\ pc[j] = "cloned_submodules"
          BY <1>0, <3>1, <5>1 DEF Repositories
        <5> QED
          BY <1>1, <1>5, <1>7, <4>1, <5>1, <5>2 DEF Ready
      <4>2. CASE k.place = i.place
        <5>1. Ready(k)' = Ready(i)' /\ Ready(k) = Ready(i)
          BY <1>6, <3>1, <4>2 DEF Ready
        <5>2. CASE Ready(i)'
          BY <5>1, <5>2
        <5>3. CASE pc'[i] = "cloned_submodules"
          BY <1>1, <4>2, <5>3
        <5>4. CASE checkout[i.place].head = "commit" /\ ~Ready(i) /\ pc[i] # "cloned_submodules"
          <6>1. \E j \in items : j.place = k.place /\ pc[j] = "cloned_submodules"
            BY <1>0, <3>1, <4>2, <5>1, <5>4 DEF Repositories
          <6> QED
            BY <1>1, <1>5, <1>7, <5>4, <6>1
        <5> QED
          BY <2>0, <3>1, <4>2, <5>2, <5>3, <5>4 DEF RepositoryStep
      <4> QED
        BY <4>1, <4>2
    <3>2. ASSUME NEW k \in items, pc'[k] = "submodules"
          PROVE  \/ checkout'[k.place].head = "commit"
                 \/ /\ checkout'[k.place] = NoCheckout
                    /\ \A j \in items \ {k} : j.place = k.place => pc'[j] = "failed"
      <4>1. CASE k = i
        BY <2>0, <3>2, <4>1 DEF RepositoryStep
      <4>2. CASE k # i
        <5>1. pc[k] = "submodules"
          BY <1>1, <1>5, <1>7, <3>2, <4>2
        <5>2. \/ checkout[k.place].head = "commit"
              \/ /\ checkout[k.place] = NoCheckout
                 /\ \A j \in items \ {k} : j.place = k.place => pc[j] = "failed"
          BY <1>0, <5>1 DEF Repositories
        <5>3. CASE k.place # i.place
          <6>1. checkout'[k.place] = checkout[k.place]
            BY <1>0, <1>5, <1>7, <5>3 DEF Touch
          <6> QED
            BY <1>1, <1>5, <1>7, <5>2, <5>3, <6>1
        <5>4. CASE k.place = i.place
          <6>1. pc[i] # "failed"
            BY <1>0 DEF Moves, Busy
          <6>2. checkout[i.place].head = "commit"
            BY <1>1, <4>2, <5>2, <5>4, <6>1
          <6>3. \A j \in items \ {k} : j.place = k.place => j = i
            BY <1>4, <4>2, <5>4
          <6> QED
            BY <2>0, <5>4, <6>2, <6>3 DEF RepositoryStep
        <5> QED
          BY <5>3, <5>4
      <4> QED
        BY <4>1, <4>2
    <3>3. ASSUME NEW k \in items,
                 pc'[k] \in {"venv", "dependencies"} \/ (pc'[k] = "ok" /\ Cloned(k))
          PROVE  Ready(k)'
      <4>1. CASE k = i
        BY <2>0, <3>3, <4>1 DEF RepositoryStep
      <4>2. CASE k # i
        <5>1. Ready(k)
          BY <1>0, <1>1, <1>5, <1>7, <1>8, <3>3, <4>2 DEF Repositories
        <5>2. CASE k.place # i.place
          <6>1. checkout'[k.place] = checkout[k.place]
            BY <1>0, <1>5, <1>7, <5>2 DEF Touch
          <6> QED
            BY <5>1, <6>1 DEF Ready
        <5>3. CASE k.place = i.place
          <6>1. Ready(k)' = Ready(i)' /\ Ready(k) = Ready(i)
            BY <1>4, <4>2, <5>3 DEF Ready
          <6> QED
            BY <2>0, <5>1, <6>1 DEF RepositoryStep
        <5> QED
          BY <5>2, <5>3
      <4> QED
        BY <4>1, <4>2
    <3> QED
      BY <1>1, <3>1, <3>2, <3>3 DEF Repositories
  <2>2. Achieved'
    <3> SUFFICES ASSUME NEW k \in items, pc'[k] = "ok" PROVE Done(k)'
      BY <1>1 DEF Achieved
    <3>1. CASE k = i
      BY <1>8, <3>1, ThreadDone
    <3>2. CASE k # i
      <4>1. pc[k] = "ok"
        BY <1>1, <1>5, <1>7, <3>2
      <4>2. Done(k)
        BY <1>0, <1>8, <4>1 DEF Achieved
      <4>3. CASE k.place # i.place
        <5>1. checkout'[k.place] = checkout[k.place] /\ venv'[k.place] = venv[k.place]
              /\ cached'[k.place] = cached[k.place]
          BY <1>0, <1>5, <1>7, <4>3 DEF Touch
        <5> QED
          BY <1>1, <4>2, <5>1, DoneKept
      <4>4. CASE k.place = i.place
        <5>1. Cloned(k) /\ Cloned(i) /\ k.kind # i.kind
          BY <1>4, <3>2, <4>4
        <5>2. Ready(k)'
          BY <1>1, <1>7, <2>1, <1>8, <4>1, <5>1, <1>5, <3>2 DEF Repositories
        <5>3. CASE k.kind = "GitRepo"
          BY <5>2, <5>3 DEF Done, Complete, Ready
        <5>4. CASE k.kind = "PythonExecutable"
          <6>1. venv'[k.place] = venv[k.place]
            BY <1>0, <4>4, <5>1, <5>4 DEF Touch, Python, Cloned
          <6>2. venv[k.place] = "complete" \/ (venv[k.place] # "none" /\ crashes > 0)
            BY <4>2, <5>4 DEF Done, Complete, is_installed_one, PythonExecutable_is_installed, TakenAsItIs
          <6> QED
            BY <1>1, <5>2, <5>4, <6>1, <6>2 DEF Done, Complete, Ready, is_installed_one,
               PythonExecutable_is_installed, TakenAsItIs
        <5> QED
          BY <5>1, <5>3, <5>4 DEF Cloned
      <4> QED
        BY <4>3, <4>4
    <3> QED
      BY <3>1, <3>2
  <2>3. Removed'
    BY <1>1, <1>8 DEF Removed
  <2> QED
    BY <1>2, <1>3, <2>1, <2>2, <2>3 DEF SInv
<1>9. CASE command = "uninstall"
  <2>0. UninstallStep(i)
    BY <1>9, ThreadRemoves
  <2>1. \A k \in items : pc'[k] \notin {"submodules", "venv", "dependencies", "cloned_submodules"}
                         /\ pc[k] # "cloned_submodules"
    BY <1>0, <1>1, <1>5, <1>7, <1>9 DEF Course, Moves, Busy, UninstallSteps
  <2>2. Repositories'
    <3>1. ASSUME crashes = 0, NEW k \in requested, Cloned(k), checkout'[k.place].head = "commit"
          PROVE  Ready(k)'
      <4>1. checkout'[k.place] \in {checkout[k.place], NoCheckout}
        BY <1>0, <1>5, <2>0 DEF Touch, UninstallStep
      <4>2. checkout'[k.place] = checkout[k.place]
        BY <3>1, <4>1 DEF NoCheckout
      <4>3. Ready(k)
        BY <1>0, <2>1, <3>1, <4>2 DEF Repositories
      <4> QED
        BY <4>2, <4>3 DEF Ready
    <3> QED
      BY <1>1, <1>9, <2>1, <3>1 DEF Repositories
  <2>3. Achieved'
    BY <1>1, <1>9 DEF Achieved
  <2>4. Removed'
    <3> SUFFICES ASSUME NEW k \in items
                 PROVE  /\ pc'[k] = "remove" => checkout'[k.place] = NoCheckout
                        /\ pc'[k] = "ok" => Gone(k)'
      BY <1>1 DEF Removed
    <3>1. CASE k = i
      BY <2>0, <3>1 DEF UninstallStep
    <3>2. CASE k # i
      <4>1. /\ pc[k] = "remove" => checkout[k.place] = NoCheckout
            /\ pc[k] = "ok" => Gone(k)
            /\ pc'[k] = pc[k]
        BY <1>0, <1>1, <1>5, <1>7, <1>9, <3>2 DEF Removed
      <4>2. /\ checkout'[k.place] \in {checkout[k.place], NoCheckout}
            /\ venv'[k.place] \in {venv[k.place], "none"}
            /\ cached'[k.place] \in {cached[k.place], "none"}
        BY <1>0, <1>5, <1>7, <2>0 DEF Touch, UninstallStep
      <4> QED
        BY <4>1, <4>2 DEF Gone
    <3> QED
      BY <3>1, <3>2
  <2> QED
    BY <1>2, <1>3, <2>2, <2>3, <2>4 DEF SInv
<1> QED
  BY <1>0, <1>1, <1>8, <1>9 DEF Types

(* Whatever failed or was killed before: what an installation reports      *)
(* installed is there, complete wherever more than its existence is looked *)
(* at (is_installed of each class, _verify_commit, ensure_submodules_state *)
(* and the removal of what a failing step had begun), and what an          *)
(* uninstallation reports removed is gone, for any number of threads and   *)
(* any scenario whose items agree on what they want of a shared directory. *)
THEOREM VerdictsAreTrue ==
  ASSUME \A S \in Scenarios : Unambiguous(S)
  PROVE  Spec => []SuccessIsTrue
<1>1. Init => SInv
  BY InitSInv
<1>2. IInv /\ SInv /\ [Next]_vars => SInv'
  <2> SUFFICES ASSUME IInv, SInv, [Next]_vars PROVE SInv'
    OBVIOUS
  <2>1. CASE Install \/ PrerequisitesMissing \/ Uninstall \/ Verdict \/ Killed
    BY <2>1, CommandVerdicts
  <2>2. ASSUME NEW i \in Items, Thread(i) PROVE SInv'
    BY <2>2, ThreadVerdict
  <2>3. CASE UNCHANGED vars
    <3> USE <2>3 DEF vars, disk, SInv
    <3>1. Chosen' /\ Classes' /\ Owned'
      BY DEF Chosen, Classes, Owned
    <3>2. Repositories' /\ Removed'
      BY DEF Repositories, Removed, Ready, Gone
    <3>3. Achieved'
      BY DoneKept DEF Achieved
    <3> QED
      BY <3>1, <3>2, <3>3
  <2> QED
    BY <2>1, <2>2, <2>3 DEF Next
<1>3. IInv /\ SInv => SuccessIsTrue
  <2> SUFFICES ASSUME IInv, SInv PROVE SuccessIsTrue
    OBVIOUS
  <2>0. Types /\ Chosen /\ Owned /\ Achieved /\ Removed /\ items \subseteq requested
        /\ \A i \in requested : i.place \in Places /\ i \in Items
    BY DEF IInv, SInv, Types, Places
  <2>1. ASSUME command = "install", verdict = "success", NEW i \in requested
        PROVE  Done(i)
    <3>1. PICK k \in items : k.kind = i.kind /\ k.place = i.place /\ k.want = i.want
      BY <2>0, <2>1, Counterpart
    <3>2. Done(k)
      BY <2>0, <2>1 DEF Achieved
    <3> QED
      BY <3>1, <3>2 DEF Done, Complete, is_installed_one, TakenAsItIs, GitRepo_is_installed,
         PythonExecutable_is_installed, PythonEnvironment_is_installed, DockerImage_is_installed,
         File_is_installed, HFModel_is_installed
  <2>2. ASSUME command = "uninstall", verdict = "success", NEW i \in items
        PROVE  /\ checkout[i.place] = NoCheckout /\ venv[i.place] = "none"
               /\ i.kind # "File" => cached[i.place] = "none"
    <3>1. \A k \in items : Gone(k)
      BY <2>0, <2>2 DEF Removed
    <3>2. \A k \in requested : k.place = i.place => \E j \in items : j.kind = k.kind /\ j.place = i.place
      BY <2>0, <2>2, Counterpart
    <3>3. checkout[i.place] = NoCheckout
      <4> SUFFICES ASSUME checkout[i.place] # NoCheckout PROVE FALSE
        OBVIOUS
      <4>1. PICK k \in requested : k.place = i.place /\ Cloned(k)
        BY <2>0 DEF Owned
      <4>2. PICK j \in items : j.kind = k.kind /\ j.place = i.place
        BY <3>2, <4>1
      <4> QED
        BY <3>1, <4>1, <4>2 DEF Gone, Cloned
    <3>4. venv[i.place] = "none"
      <4> SUFFICES ASSUME venv[i.place] # "none" PROVE FALSE
        OBVIOUS
      <4>1. PICK k \in requested : k.place = i.place /\ Python(k)
        BY <2>0 DEF Owned
      <4>2. PICK j \in items : j.kind = k.kind /\ j.place = i.place
        BY <3>2, <4>1
      <4> QED
        BY <3>1, <4>1, <4>2 DEF Gone, Python
    <3>5. ASSUME i.kind # "File" PROVE cached[i.place] = "none"
      <4> SUFFICES ASSUME cached[i.place] # "none" PROVE FALSE
        OBVIOUS
      <4>1. PICK k \in requested : k.place = i.place /\ InCache(k)
        BY <2>0 DEF Owned
      <4>2. k # i => Cloned(k)
        BY <2>0, <4>1 DEF Chosen, Unambiguous
      <4>3. k = i
        BY <4>1, <4>2 DEF InCache, Cloned
      <4>4. i.kind \in {"DockerImage", "HFModel"}
        BY <3>5, <4>1, <4>3 DEF InCache
      <4> QED
        BY <3>1, <4>4 DEF Gone
    <3> QED
      BY <3>3, <3>4, <3>5
  <2> QED
    BY <2>1, <2>2 DEF SuccessIsTrue, Done
<1> QED
  BY <1>1, <1>2, <1>3, Inductive, PTL DEF Spec
=============================================================================
