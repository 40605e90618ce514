CONSTANTS
  Callers = {c1}  Requests = {r1}  MaxFaults = 2  BackoffMin = 1  BackoffMax = 3
  Procs = {p1}  Hashed = TRUE  Writers = {w1, w2}  Deleters = {d1}  Versions = {v1, v2}  Size = 2  MaxLosses = 1
  Docs <- MCDocs  Drafts <- MCDrafts  Attrs <- MCAttrs  Threads = {t1, t2}  MaxWrites = 2  MaxRetargets = 1
  Containers = {"e", "g", "h"}  About <- MCMachine  Port = {1, 2}  DiscoveryPorts = {1, 2}
  Instance = {"i"}  Answers <- MCAnswers  Changes = 2
SPECIFICATION SuiteSpec
INVARIANTS
  SessionSafe FilesAreSafe RootsHoldNoPolicy MirrorAgrees OnlyEnginesAreReached
PROPERTIES
  FileIsAtomic LinkComesBack PolicyConverges HubCatchesUp
CHECK_DEADLOCK FALSE
