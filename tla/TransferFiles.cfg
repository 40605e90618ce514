CONSTANTS
  Files = {big, twin, small}
  Hashed = {big, twin}
  Twins = {big, twin}
  Fixed = {}
  Shrinks = {small}
  Size = 2
  Commits = 2
  Kinds = {"hf"}
  Layouts = {"files"}
  MaxFaults = 2
SPECIFICATION Spec
INVARIANT CompletedIsCommit
CHECK_DEADLOCK FALSE
