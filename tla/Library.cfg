SPECIFICATION Spec
CONSTANTS
  Worlds <- MCWorlds
  Owner = "a"
  Server <- MCServer
INVARIANTS ListingIsTrue
PROPERTIES SnapsConverge
CHECK_DEADLOCK FALSE
