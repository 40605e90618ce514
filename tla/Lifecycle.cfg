CONSTANTS
  Inst = {i1}
  Ports = {1, 2}
  Foreign = {{}, {1}, {1, 2}}
  Reqs = {r1, r2}
  Attempts = 2
  Plans <- MCBoth
  MaxFaults = 0
SPECIFICATION Spec
INVARIANTS EnginesAreAttended FrontDoorKnown
