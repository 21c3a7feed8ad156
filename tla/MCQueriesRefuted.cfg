SPECIFICATION Both
CONSTANTS
  Users = {"a", "b"}
  Rank <- Alphabet
  Setups <- AllSetups
  Machines <- AllMachines
INVARIANTS TreeHidesNothing PreviewComplete TailBounded IdleGpuNoticed
PROPERTIES NeverWithOthers
CHECK_DEADLOCK FALSE
