SPECIFICATION Spec
CONSTANTS
  Node <- MCOneNode
  Job <- MCThreeJobs
  NodeOf <- MCLocal
  Minute <- MCNine
  Second <- MCSeconds
  Duration = 86400
  MaxDay = 1
  Local = 1
  Passive = FALSE
  InitialTemplate <- MCForwardChain
  Requests = {}
  NodesToRemove = {}
  PromptStart = TRUE
  MaxRuns = 2
  MaxFaults = 0
  MaxCrashes = 0
  MaxRequests = 0
  Main = Main
  Server = Server
  NoOne = NoOne
INVARIANTS PlanningIsCopied
CHECK_DEADLOCK FALSE
