------------------------------ MODULE Installer ------------------------------
(***************************************************************************)
(* Installing and removing what the tests of a scenario need               *)
(* (_core/base_installer.py, _core/installables/, the Docker image cache   *)
(* of the Slurm back end). install() and uninstall() give every item to a  *)
(* thread of a pool; the items meet only on disk, where every step of a    *)
(* thread decides by what exists there. A Git repository listed by one     *)
(* test and the Python executable built from the same repository by        *)
(* another are two items over one directory.                               *)
(*                                                                         *)
(* Every run of the cloudai command is a new process: nothing but the disk *)
(* is carried over. Commands (git, python, pip, uv, srun) may fail, and    *)
(* the process may be killed between two of its steps.                     *)
(***************************************************************************)
EXTENDS Naturals, FiniteSets

CONSTANTS
  Items,        \* the items that tests may ask for
  Scenarios,    \* sets of items: what the tests of a scenario ask for
  Commands,     \* which of "install", "uninstall" the user runs
  Systems,      \* the systems: are Docker images cached, can the HF cache be reached
  Workers,      \* number of threads of the pool
  Faults,       \* which of "command", "write_error", "prerequisites" may happen
  MaxFailures,  \* bound: number of failing commands
  MaxCrashes    \* bound: number of times the process is killed

(* An item: its class, the name of its directory or file under             *)
(* install_path, and what it wants there: whether the submodules of a      *)
(* checkout are initialised, or the contents of a file.                    *)
Kind == {"GitRepo", "PythonExecutable", "PythonEnvironment", "DockerImage", "File", "HFModel"}
Cloned(i) == i.kind \in {"GitRepo", "PythonExecutable"}

ASSUME ItemsAssumption ==
  \A i \in Items : /\ DOMAIN i = {"kind", "place", "want"}
                   /\ i.kind \in Kind
                   /\ Cloned(i) => i.want \in {"none", "all"}
                   /\ ~Cloned(i) => i.want \notin {"none", "partial"}
ASSUME ScenariosAssumption == Scenarios \subseteq SUBSET Items
ASSUME SystemsAssumption ==
  Systems \subseteq [cache_docker_images_locally : BOOLEAN, hf_home_accessible : BOOLEAN]
ASSUME WorkersAssumption == Workers \in Nat \ {0}
ASSUME BoundsAssumption == IsFiniteSet(Items) /\ MaxFailures \in Nat /\ MaxCrashes \in Nat

Places == {i.place : i \in Items}
Wants  == {i.want : i \in Items}

VARIABLES
  system,     \* the system the commands are run for; never changes
  requested,  \* the items of the scenario; never changes
  items,      \* all_items() of the current command: one of each equal items
  command,    \* the command that runs or ran last
  verdict,    \* its result; "unknown" while it runs
  pc,         \* the thread of each item
  blamed,     \* items a command of theirs failed for in this run
  checkout,   \* Git repositories on disk
  venv,       \* virtual environments on disk
  cached,     \* files on disk: images, scripts, downloaded models
  failures, crashes

disk == <<checkout, venv, cached>>
vars == <<system, requested, items, command, verdict, pc, blamed, disk, failures, crashes>>

Busy == {"verify", "submodules", "clone", "cloning", "checkout", "cloned_submodules",
         "python", "uv_venv", "requirements", "venv", "dependencies", "import", "copy", "download",
         "rmtree", "remove", "remove_env", "unlink", "evict"}
Step == {"idle", "waiting", "ok", "failed"} \union Busy

(* "cloning": git clone is at work or was killed; "default": the head of   *)
(* the default branch; "commit": the commit the item names.                *)
Checkout == [head : {"none", "cloning", "default", "commit"},
             submodules : {"none", "some", "all"}]
NoCheckout == [head |-> "none", submodules |-> "none"]

TypeOK ==
  /\ system \in Systems
  /\ requested \in SUBSET Items /\ items \subseteq requested
  /\ command \in {"none", "install", "uninstall"}
  /\ verdict \in {"unknown", "success", "failure"}
  /\ pc \in [Items -> Step]
  /\ blamed \subseteq items
  /\ checkout \in [Places -> Checkout]
  /\ venv \in [Places -> {"none", "bare", "complete"}]
  /\ cached \in [Places -> {"none", "partial"} \union Wants]
  /\ failures \in 0 .. MaxFailures /\ crashes \in 0 .. MaxCrashes
  /\ Cardinality({i \in Items : pc[i] \in Busy}) <= Workers

Running == \E i \in Items : pc[i] \in Busy \union {"waiting"}

(* A command has been started and has not ended.                           *)
InCommand == command # "none" /\ verdict = "unknown"

-----------------------------------------------------------------------------
(* __eq__ of each class: repositories are compared by URL and commit and   *)
(* not by what they want of the submodules, images by URL, files by source.*)
Equal(i, k) ==
  /\ i.kind = k.kind /\ i.place = k.place
  /\ i.kind \in {"DockerImage", "File"} => i.want = k.want

(* all_items: a set keeps one of several equal items.                      *)
all_items(S) ==
  {T \in SUBSET S : /\ \A i, k \in T : Equal(i, k) => i = k
                   /\ \A i \in S : \E k \in T : Equal(i, k)}

(* is_installed of each class: what it looks at. The commit and the        *)
(* submodules of a repository are verified.                                *)
GitRepo_is_installed(i) ==
  checkout[i.place] = [head |-> "commit", submodules |-> i.want]

(* Of an executable only that its two directories exist.                   *)
PythonExecutable_is_installed(i) ==
  checkout[i.place].head # "none" /\ venv[i.place] # "none"

(* Of an environment only that its interpreter exists.                     *)
PythonEnvironment_is_installed(i) == venv[i.place] # "none"

(* check_docker_image_exists: nothing to check if images are not cached.   *)
DockerImage_is_installed(i) ==
  system.cache_docker_images_locally => cached[i.place] # "none"

File_is_installed(i) == cached[i.place] = i.want

(* A model is looked up locally, which finds a part of one as well; if the *)
(* cache cannot be reached it is taken to be where the jobs will run.      *)
HFModel_is_installed(i) == system.hf_home_accessible => cached[i.place] # "none"

is_installed_one(i) ==
  CASE i.kind = "GitRepo" -> GitRepo_is_installed(i)
    [] i.kind = "PythonExecutable" -> PythonExecutable_is_installed(i)
    [] i.kind = "PythonEnvironment" -> PythonEnvironment_is_installed(i)
    [] i.kind = "DockerImage" -> DockerImage_is_installed(i)
    [] i.kind = "File" -> File_is_installed(i)
    [] i.kind = "HFModel" -> HFModel_is_installed(i)

Init ==
  /\ system \in Systems /\ requested \in Scenarios
  /\ items = {} /\ command = "none" /\ verdict = "unknown"
  /\ pc = [i \in Items |-> "idle"] /\ blamed = {}
  /\ checkout = [p \in Places |-> NoCheckout]
  /\ venv = [p \in Places |-> "none"]
  /\ cached = [p \in Places |-> "none"]
  /\ failures = 0 /\ crashes = 0

Waiting == [i \in Items |-> IF i \in items' THEN "waiting" ELSE "idle"]

(* cloudai install, or the installation that precedes cloudai run: nothing *)
(* to do if every item counts as installed, else a thread for each.        *)
Install ==
  /\ "install" \in Commands /\ ~InCommand
  /\ items' \in all_items(requested)
  /\ command' = "install" /\ blamed' = {}
  /\ IF \A i \in items' : is_installed_one(i)
       THEN verdict' = "success" /\ pc' = [i \in Items |-> "idle"]
       ELSE verdict' = "unknown" /\ pc' = Waiting
  /\ UNCHANGED <<system, requested, disk, failures, crashes>>

(* Something is missing, and so is a binary or an option the installation  *)
(* needs, or the install directory cannot be prepared: no item is touched. *)
PrerequisitesMissing ==
  /\ "install" \in Commands /\ ~InCommand
  /\ "prerequisites" \in Faults /\ failures < MaxFailures
  /\ items' \in all_items(requested) /\ \E i \in items' : ~is_installed_one(i)
  /\ command' = "install" /\ blamed' = {} /\ verdict' = "failure"
  /\ pc' = [i \in Items |-> "idle"]
  /\ failures' = failures + 1
  /\ UNCHANGED <<system, requested, disk, crashes>>

Uninstall ==
  /\ "uninstall" \in Commands /\ ~InCommand
  /\ items' \in all_items(requested)
  /\ command' = "uninstall" /\ blamed' = {} /\ verdict' = "unknown" /\ pc' = Waiting
  /\ UNCHANGED <<system, requested, disk, failures, crashes>>

-----------------------------------------------------------------------------
(* A step of the thread of i. Run: its command succeeds; Fail: its command *)
(* fails, which is reported for this item.                                 *)
Goto(i, s) == pc' = [pc EXCEPT ![i] = s]

Run == UNCHANGED <<system, requested, items, command, verdict, blamed, failures, crashes>>

Fail(i) ==
  /\ "command" \in Faults /\ failures < MaxFailures
  /\ failures' = failures + 1
  /\ blamed' = blamed \union {i}
  /\ UNCHANGED <<system, requested, items, command, verdict, crashes>>

After(i) == IF i.kind = "PythonExecutable" THEN "venv" ELSE "ok"

(* install of a repository: a directory that exists is verified. An        *)
(* executable begins with its repository.                                  *)
GitRepo_install(i) == IF checkout[i.place].head = "none" THEN "clone" ELSE "verify"

(* ensure_docker_image.                                                    *)
ensure_docker_image(i) == IF DockerImage_is_installed(i) THEN "ok" ELSE "import"

(* install_one: the first decision of each class.                          *)
BeginInstall(i) ==
  CASE Cloned(i) -> GitRepo_install(i)
    [] i.kind = "PythonEnvironment" ->
         IF PythonEnvironment_is_installed(i) THEN "ok" ELSE "python"
    [] i.kind = "DockerImage" -> ensure_docker_image(i)
    [] i.kind = "File" -> "copy"
    [] i.kind = "HFModel" -> IF system.hf_home_accessible THEN "download" ELSE "ok"

(* uninstall, once the repository is gone.                                 *)
AfterTree(i) == IF i.kind = "PythonExecutable" THEN "remove" ELSE "ok"

(* uninstall_one. The installed_path of a File is its source in a new      *)
(* process, from which uninstall concludes that there is nothing to remove.*)
BeginUninstall(i) ==
  CASE Cloned(i) -> IF checkout[i.place].head # "none" THEN "rmtree" ELSE AfterTree(i)
    [] i.kind = "PythonEnvironment" -> "remove_env"
    [] i.kind = "DockerImage" -> "unlink"
    [] i.kind = "File" -> "ok"
    [] i.kind = "HFModel" ->
         IF system.hf_home_accessible /\ is_installed_one(i) THEN "evict" ELSE "ok"

(* A thread of the pool takes the item up.                                 *)
Start(i) ==
  /\ pc[i] = "waiting"
  /\ Cardinality({k \in Items : pc[k] \in Busy}) < Workers
  /\ Goto(i, IF command = "install" THEN BeginInstall(i) ELSE BeginUninstall(i))
  /\ Run /\ UNCHANGED disk

(* GitRepo.install, the directory exists: HEAD must be the commit.         *)
Verify(i) ==
  /\ pc[i] = "verify"
  /\ Goto(i, IF checkout[i.place].head = "commit" THEN "submodules" ELSE "failed")
  /\ Run /\ UNCHANGED disk

(* _clone_repository: git refuses a directory that exists by now.          *)
CloneBegins(i) ==
  /\ pc[i] = "clone"
  /\ IF checkout[i.place].head = "none"
       THEN /\ checkout' = [checkout EXCEPT ![i.place].head = "cloning"]
            /\ Goto(i, "cloning")
       ELSE UNCHANGED checkout /\ Goto(i, "failed")
  /\ Run /\ UNCHANGED <<venv, cached>>

Mutant_CloneEnds(i) ==
  /\ pc[i] = "cloning"
  /\ \/ /\ checkout' = [checkout EXCEPT ![i.place].head = "default"]
        /\ Goto(i, "checkout") /\ Run
     \/ /\ checkout' = [p \in Places |-> NoCheckout]
        /\ Goto(i, "failed") /\ Fail(i)
  /\ UNCHANGED <<venv, cached>>

(* git removes what a failed clone has left.                               *)
CloneEnds(i) ==
  /\ pc[i] = "cloning"
  /\ \/ /\ checkout' = [checkout EXCEPT ![i.place].head = "default"]
        /\ Goto(i, "checkout") /\ Run
     \/ /\ checkout' = [checkout EXCEPT ![i.place] = NoCheckout]
        /\ Goto(i, "failed") /\ Fail(i)
  /\ UNCHANGED <<venv, cached>>

Mutant_CheckOut(i) ==
  /\ pc[i] = "checkout"
  /\ \/ /\ checkout' = [checkout EXCEPT ![i.place].head = "commit"]
        /\ Goto(i, "cloned_submodules") /\ Run
     \/ /\ UNCHANGED checkout
        /\ Goto(i, "failed") /\ Fail(i)
  /\ UNCHANGED <<venv, cached>>

(* _checkout_commit; if it fails the clone is removed again.               *)
CheckOut(i) ==
  /\ pc[i] = "checkout"
  /\ \/ /\ checkout' = [checkout EXCEPT ![i.place].head = "commit"]
        /\ Goto(i, "cloned_submodules") /\ Run
     \/ /\ checkout' = [checkout EXCEPT ![i.place] = NoCheckout]
        /\ Goto(i, "failed") /\ Fail(i)
  /\ UNCHANGED <<venv, cached>>

(* ensure_submodules_state. A failure in a clone of this thread removes    *)
(* the clone; one in a directory that was there leaves it.                 *)
EnsureSubmodules(i) ==
  /\ pc[i] \in {"submodules", "cloned_submodules"}
  /\ checkout[i.place].head # "none"
  /\ \/ /\ checkout' = [checkout EXCEPT ![i.place].submodules = i.want]
        /\ Goto(i, After(i)) /\ Run
     \/ /\ checkout[i.place].submodules # i.want
        /\ checkout' = [checkout EXCEPT ![i.place] =
             IF pc[i] = "submodules" THEN [@ EXCEPT !.submodules = "some"] ELSE NoCheckout]
        /\ Goto(i, "failed") /\ Fail(i)
  /\ UNCHANGED <<venv, cached>>

(* The directory was removed by the thread that cloned it: the command     *)
(* cannot be started, the exception is the result of the thread.           *)
CheckoutGone(i) ==
  /\ pc[i] = "submodules" /\ checkout[i.place].head = "none"
  /\ Goto(i, "failed") /\ Run /\ UNCHANGED disk

(* PythonEnvironment.install: uv must be there and provide the Python      *)
(* version the environment asks for.                                       *)
EnsurePython(i) ==
  /\ pc[i] = "python"
  /\ \/ Goto(i, "uv_venv") /\ Run
     \/ Goto(i, "failed") /\ Fail(i)
  /\ UNCHANGED disk

(* uv venv, then uv pip install; the environment is removed if one fails.  *)
CreateEnvironment(i) ==
  /\ pc[i] = "uv_venv"
  /\ \/ /\ venv' = [venv EXCEPT ![i.place] = "bare"]
        /\ Goto(i, "requirements") /\ Run
     \/ /\ venv' = [venv EXCEPT ![i.place] = "none"]
        /\ Goto(i, "failed") /\ Fail(i)
  /\ UNCHANGED <<checkout, cached>>

InstallRequirements(i) ==
  /\ pc[i] = "requirements"
  /\ \/ /\ venv' = [venv EXCEPT ![i.place] = "complete"]
        /\ Goto(i, "ok") /\ Run
     \/ /\ venv' = [venv EXCEPT ![i.place] = "none"]
        /\ Goto(i, "failed") /\ Fail(i)
  /\ UNCHANGED <<checkout, cached>>

(* _create_venv of an executable: an environment that exists is taken as   *)
(* it is.                                                                  *)
CreateVenv(i) ==
  /\ pc[i] = "venv"
  /\ IF venv[i.place] # "none" THEN Goto(i, "ok") /\ Run /\ UNCHANGED venv
     ELSE \/ /\ venv' = [venv EXCEPT ![i.place] = "bare"]
             /\ Goto(i, "dependencies") /\ Run
          \/ Goto(i, "failed") /\ Fail(i) /\ UNCHANGED venv
  /\ UNCHANGED <<checkout, cached>>

Mutant_InstallDependencies(i) ==
  /\ pc[i] = "dependencies"
  /\ \/ /\ venv' = [venv EXCEPT ![i.place] = "complete"] /\ Goto(i, "ok") /\ Run
     \/ UNCHANGED venv /\ Goto(i, "failed") /\ Fail(i)
  /\ UNCHANGED <<checkout, cached>>

(* _install_dependencies: on failure, and when the project to install from *)
(* is gone, the environment is removed.                                    *)
InstallDependencies(i) ==
  LET gone == checkout[i.place].head = "none" IN
  /\ pc[i] = "dependencies"
  /\ \/ /\ ~gone
        /\ venv' = [venv EXCEPT ![i.place] = "complete"] /\ Goto(i, "ok") /\ Run
     \/ /\ venv' = [venv EXCEPT ![i.place] = "none"] /\ Goto(i, "failed")
        /\ IF gone THEN Run ELSE Fail(i)
  /\ UNCHANGED <<checkout, cached>>

(* cache_docker_image: enroot writes the image file. It may fail, leaving  *)
(* none, or report a write error and leave part of the image.              *)
ImportImage(i) ==
  /\ pc[i] = "import"
  /\ \/ /\ cached' = [cached EXCEPT ![i.place] = i.want]
        /\ Goto(i, "ok") /\ Run
     \/ UNCHANGED cached /\ Goto(i, "failed") /\ Fail(i)
     \/ /\ "write_error" \in Faults
        /\ cached' = [cached EXCEPT ![i.place] = "partial"]
        /\ Goto(i, "failed") /\ Fail(i)
  /\ UNCHANGED <<checkout, venv>>

(* File.install copies the source over whatever is there.                  *)
CopyFile(i) ==
  /\ pc[i] = "copy"
  /\ \/ /\ cached' = [cached EXCEPT ![i.place] = i.want]
        /\ Goto(i, "ok") /\ Run
     \/ UNCHANGED cached /\ Goto(i, "failed") /\ Fail(i)
  /\ UNCHANGED <<checkout, venv>>

(* HFModel.install: snapshot_download takes up what an earlier download    *)
(* has left, and leaves what it has when it fails.                         *)
Download(i) ==
  /\ pc[i] = "download"
  /\ \/ /\ cached' = [cached EXCEPT ![i.place] = i.want]
        /\ Goto(i, "ok") /\ Run
     \/ /\ \/ UNCHANGED cached
           \/ cached' = [cached EXCEPT ![i.place] = IF @ = i.want THEN @ ELSE "partial"]
        /\ Goto(i, "failed") /\ Fail(i)
  /\ UNCHANGED <<checkout, venv>>

Mutant_RemoveTree(i) ==
  /\ pc[i] = "rmtree"
  /\ checkout' = [checkout EXCEPT ![i.place] = NoCheckout]
  /\ Goto(i, "ok")
  /\ Run /\ UNCHANGED <<venv, cached>>

(* GitRepo.uninstall: rmtree raises if the directory is gone by now, and   *)
(* nothing more is done for the item.                                      *)
RemoveTree(i) ==
  /\ pc[i] = "rmtree"
  /\ checkout' = [checkout EXCEPT ![i.place] = NoCheckout]
  /\ Goto(i, IF checkout[i.place].head = "none" THEN "failed"
             ELSE AfterTree(i))
  /\ Run /\ UNCHANGED <<venv, cached>>

(* PythonExecutable.uninstall, its repository gone.                        *)
RemoveVenv(i) ==
  /\ pc[i] = "remove"
  /\ venv' = [venv EXCEPT ![i.place] = "none"]
  /\ Goto(i, "ok")
  /\ Run /\ UNCHANGED <<checkout, cached>>

(* PythonEnvironment.uninstall: the directory is removed if there is one.  *)
RemoveEnvironment(i) ==
  /\ pc[i] = "remove_env"
  /\ venv' = [venv EXCEPT ![i.place] = "none"]
  /\ Goto(i, "ok")
  /\ Run /\ UNCHANGED <<checkout, cached>>

(* uninstall_cached_image: the file may resist, whether images are cached  *)
(* or not.                                                                 *)
RemoveImage(i) ==
  /\ pc[i] = "unlink"
  /\ \/ /\ cached' = [cached EXCEPT ![i.place] = "none"]
        /\ Goto(i, "ok") /\ Run
     \/ /\ cached[i.place] # "none" /\ UNCHANGED cached
        /\ Goto(i, "failed") /\ Fail(i)
  /\ UNCHANGED <<checkout, venv>>

(* HFModel.uninstall: hf cache rm.                                         *)
EvictModel(i) ==
  /\ pc[i] = "evict"
  /\ \/ /\ cached' = [cached EXCEPT ![i.place] = "none"]
        /\ Goto(i, "ok") /\ Run
     \/ UNCHANGED cached /\ Goto(i, "failed") /\ Fail(i)
  /\ UNCHANGED <<checkout, venv>>

Thread(i) ==
  \/ Start(i) \/ Verify(i) \/ CloneBegins(i) \/ CloneEnds(i) \/ CheckOut(i)
  \/ EnsureSubmodules(i) \/ CheckoutGone(i)
  \/ EnsurePython(i) \/ CreateEnvironment(i) \/ InstallRequirements(i)
  \/ CreateVenv(i) \/ InstallDependencies(i)
  \/ ImportImage(i) \/ CopyFile(i) \/ Download(i)
  \/ RemoveTree(i) \/ RemoveVenv(i) \/ RemoveEnvironment(i)
  \/ RemoveImage(i) \/ EvictModel(i)

(* install, uninstall: all futures are done.                               *)
Verdict ==
  /\ InCommand /\ ~Running
  /\ verdict' = IF \A i \in items : pc[i] = "ok" THEN "success" ELSE "failure"
  /\ UNCHANGED <<system, requested, items, command, pc, blamed, disk, failures, crashes>>

(* The process is killed. What its commands had written stays.             *)
Killed ==
  /\ InCommand /\ crashes < MaxCrashes
  /\ crashes' = crashes + 1
  /\ command' = "none" /\ pc' = [i \in Items |-> "idle"]
  /\ items' = {} /\ blamed' = {}
  /\ UNCHANGED <<system, requested, verdict, disk, failures>>

Next == Install \/ PrerequisitesMissing \/ Uninstall \/ Verdict \/ Killed \/ \E i \in Items : Thread(i)

Spec == Init /\ [][Next]_vars

(* The threads go on, every command ends, and the user runs the            *)
(* installation again while it has not succeeded.                          *)
FairSpec ==
  /\ Spec
  /\ WF_vars(verdict # "success" /\ Install) /\ WF_vars(Verdict)
  /\ \A i \in Items : WF_vars(Thread(i))

-----------------------------------------------------------------------------
(* Correctness properties.                                                 *)

Complete(i) ==
  CASE i.kind = "GitRepo" -> checkout[i.place] = [head |-> "commit", submodules |-> i.want]
    [] i.kind = "PythonExecutable" ->
         /\ checkout[i.place] = [head |-> "commit", submodules |-> i.want]
         /\ venv[i.place] = "complete"
    [] i.kind = "PythonEnvironment" -> venv[i.place] = "complete"
    [] i.kind = "DockerImage" -> system.cache_docker_images_locally => cached[i.place] = i.want
    [] i.kind = "File" -> cached[i.place] = i.want
    [] i.kind = "HFModel" -> system.hf_home_accessible => cached[i.place] = i.want

(* What is found to exist and not verified may be incomplete: an image or  *)
(* a model whose transfer failed, and, if the process was killed half way, *)
(* an environment or an executable.                                        *)
TakenAsItIs(i) ==
  \/ i.kind \in {"DockerImage", "HFModel"} /\ cached[i.place] = "partial"
  \/ crashes > 0 /\ i.kind \in {"PythonExecutable", "PythonEnvironment"}

(* When an installation succeeds, whatever failed or was killed before it, *)
(* everything the tests asked for is there, and complete wherever anything *)
(* more than its existence is looked at. When an uninstallation succeeds   *)
(* nothing is left, whatever an earlier run had left half made, except the *)
(* scripts, which it does not remove.                                      *)
SuccessIsTrue ==
  /\ command = "install" /\ verdict = "success" =>
       \A i \in requested : \/ Complete(i)
                            \/ is_installed_one(i) /\ TakenAsItIs(i)
  /\ command = "uninstall" /\ verdict = "success" =>
       \A i \in items :
         /\ checkout[i.place] = NoCheckout /\ venv[i.place] = "none"
         /\ i.kind # "File" => cached[i.place] = "none"

(* No failure of a command leaves a clone or an environment half made,     *)
(* which a later run would stumble over or take for installed.             *)
NothingHalfMade ==
  ~Running /\ crashes = 0 => \A p \in Places :
    checkout[p].head \in {"none", "commit"} /\ venv[p] # "bare"

(* An item whose commands all succeed is installed, unless another item    *)
(* uses the same repository or a killed process has left a clone half      *)
(* made: failures of one item do not reach the others.                     *)
FailuresStayApart ==
  \A i \in items : command = "install" /\ pc[i] = "failed" =>
    \/ i \in blamed
    \/ crashes > 0 /\ Cloned(i)
    \/ \E k \in items \ {i} : Cloned(i) /\ Cloned(k) /\ i.place = k.place

(* Commands fail a bounded number of times: a user who stops uninstalling  *)
(* and repeats a failed installation, which nobody kills, is successful in *)
(* the end and stays so, with every item complete that is not taken as it  *)
(* is, also when two items share a repository.                             *)
RetriesSucceed ==
  <>[](command # "uninstall") /\ [](crashes = 0) =>
    <>[](/\ command = "install" /\ verdict = "success"
         /\ \A i \in requested : Complete(i) \/ TakenAsItIs(i))
=============================================================================
