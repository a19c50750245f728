CONSTANTS
  NumTests = 2
  Actions = {1, 2, 3}
  Grids <- SmallGrids
  Feasible = {1, 2}
  MaxSteps = 3
  Faults = {"signal", "submit", "status"}
SPECIFICATION FairSpec
INVARIANTS
  EachParameterSetOnce
  ObservationsFinal
PROPERTIES
  GridExplored
CHECK_DEADLOCK FALSE
