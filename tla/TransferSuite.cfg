CONSTANTS
  Rows = {d1, d2}  Places = {pa, pb}  Callers = {c1}  Permits = 1  MaxQueue = 2
  MaxCalls = 3  MaxFails = 1  MaxRestarts = 1  MaxAbandons = 1
  WINDOW = 3  MAX_DATA = 2  CREDIT_BATCH = 2  GRANT_STEP = 2  MAX_CREDIT = 5
  UploadLen = 5  ReplyLen = 5
SPECIFICATION SuiteSpec
INVARIANTS
  NobodyAccused NoCreditStall OkIsWhole RowsHaveWorkers
PROPERTIES
  PipesAreBounded BytesArrive QueueMoves
CHECK_DEADLOCK FALSE
