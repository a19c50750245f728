SPECIFICATION Spec
CONSTANTS
  Trees <- MCTrees
  TestsDirs = {"", "test"}
INVARIANTS
  SuccessMeansValid
