CONSTANTS
  Hosts <- MCHosts
  Engines <- MCEngines
  Nfs <- MCNfs
  Trees <- MCTrees
  Policies <- MCPolicies
  TokenFile <- MCToken
  Secret <- MCSecret
  Hidden <- MCHidden
  Repos <- MCRepos
  Split <- MCSplit
  Projectors <- MCProjectors
  Weights <- MCWeights
  AnyCoordinates = FALSE
  MaxEdits = 2
SPECIFICATION Spec
INVARIANTS
  FilesReachable
CHECK_DEADLOCK FALSE
