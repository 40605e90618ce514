CONSTANTS
  h1 = h1  h2 = h2  b1 = b1
  Chat = {h1, h2}  Run = {b1}  Pieces = 1  Levels = 1  Streams = 1
  Match = {"m", "n"}  Voter = {"u", "v"}  Model = {"x", "y", "z"}  Models <- MCModels
  Name = {"127.0.0.1-7000", "127_0_0_1-7000", "up"}  Order <- MCNames  About <- MCAbout  Script = {"s"}
  BarePort = {"127-0-0-1-7000"}  Flaky = {"127-0-0-1-7000"}  Op = {"o1"}  Changes = 2
SPECIFICATION SuiteSpec
INVARIANTS
  RecordsAddUp NumbersAddUp SharesAreReal EnginesAreListedOnce
PROPERTIES
  HubStops StreamConverges
CHECK_DEADLOCK FALSE
