CONSTANTS
  Files = {big, twin, small}
  Hashed = {big, twin}
  Twins = {big, twin}
  Fixed = {}
  Shrinks = {small}
  Size = 2
  Commits = 2
  Kinds = {"hf", "copy", "plain"}
  Layouts = {"cache", "files"}
  MaxFaults = 2
SPECIFICATION LiveSpec
INVARIANTS SnapshotsAreWhole NoMixture
PROPERTY RowCompletes
CHECK_DEADLOCK FALSE
