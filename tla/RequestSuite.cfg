CONSTANTS
  r1 = r1  r2 = r2  r3 = r3
  Requests = {r1, r2, r3}  Streams = {r1}
  HubInflight = 2  NodeInflight = 2  MaxId = 2  QueueMax = 2
  MaxEvents = 2  MaxQueued = 1  MaxOdd = 1
SPECIFICATION SuiteSpec
INVARIANTS
  AnswersMatch LinesAreWhole
PROPERTIES
  SlotsComeBack ExchangeEnds
CHECK_DEADLOCK FALSE
