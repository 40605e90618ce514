CONSTANTS
  j1 = j1  j2 = j2
  Job = {j1, j2}  None = None  Setups <- MCSetups
  MaxLines = 1  MaxJobs = 1  Odds = 1  ChattyChild = FALSE
SPECIFICATION Spec
INVARIANTS
  StepsFollow LinesSeen
PROPERTIES
  NamesReturn
CHECK_DEADLOCK FALSE
