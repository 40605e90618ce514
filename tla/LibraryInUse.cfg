SPECIFICATION Spec
CONSTANTS
  Worlds <- MCWorlds
  Owner = "a"
  Server <- MCServer
PROPERTY NotPulled
CHECK_DEADLOCK FALSE
