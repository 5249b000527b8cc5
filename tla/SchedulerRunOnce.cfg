SPECIFICATION Spec
CONSTANTS
  Node <- MCOneNode
  Job <- MCTwoJobs
  NodeOf <- MCLocal
  Minute <- MCNine
  Second <- MCSeconds
  Duration = 86400
  MaxDay = 1
  Local = 1
  Passive = FALSE
  InitialTemplate <- MCChain
  Requests = {}
  NodesToRemove = {}
  PromptStart = FALSE
  MaxRuns = 2
  MaxFaults = 0
  MaxCrashes = 0
  MaxRequests = 0
  Main = Main
  Server = Server
  NoOne = NoOne
INVARIANTS RunOnce
CHECK_DEADLOCK FALSE
