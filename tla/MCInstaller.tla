----------------------------- MODULE MCInstaller -----------------------------
(***************************************************************************)
(* Instances of Installer for TLC.                                         *)
(***************************************************************************)
EXTENDS Installer

GitRepo(p, w)          == [kind |-> "GitRepo", place |-> p, want |-> w]
PythonExecutable(p, w) == [kind |-> "PythonExecutable", place |-> p, want |-> w]
PythonEnvironment(p)   == [kind |-> "PythonEnvironment", place |-> p, want |-> "env"]
DockerImage(p, w)      == [kind |-> "DockerImage", place |-> p, want |-> w]
HFModel(p)             == [kind |-> "HFModel", place |-> p, want |-> "model"]
File(p, w)             == [kind |-> "File", place |-> p, want |-> w]

(* Items that share no directory except that one repository, r, is mounted *)
(* by one test and a virtual environment is built from it by another.      *)
Apart ==
  {GitRepo("r", "all"), PythonExecutable("r", "all"), GitRepo("s", "none"),
   PythonEnvironment("e"), DockerImage("d", "d"), File("f", "f"), HFModel("h")}
Some == {S \in SUBSET Apart : Cardinality(S) = 3}

(* Images are cached and the HF cache is at hand; or neither.              *)
Both == {[cache_docker_images_locally |-> b, hf_home_accessible |-> b] : b \in BOOLEAN}

=============================================================================
