CONSTANTS
  Inst = {i1}
  Ports = {1, 2}
  Foreign = {{1}, {1, 2}}
  Reqs = {r1, r2}
  Attempts = 2
  Plans <- MCFaults
  MaxFaults = 1
SPECIFICATION LiveSpec
PROPERTIES RequestsEnd StartupResolves CrashNoticed
CHECK_DEADLOCK FALSE
