SPECIFICATION Both
CONSTANTS
  Users = {"a", "b"}
  Rank <- Alphabet
  Setups <- AllSetups
  Machines <- AllMachines
INVARIANTS ListingsComplete TreeShowsAll TailSound
PROPERTIES SlotsTrustworthy
CHECK_DEADLOCK FALSE
