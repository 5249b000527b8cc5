SPECIFICATION FairSpec
CONSTANTS
  Node <- MCOneNode
  Job <- MCTwoJobs
  NodeOf <- MCLocal
  Minute <- MCNine
  Second <- MCSeconds
  Duration = 86400
  MaxDay = 2
  Local = 1
  Passive = FALSE
  InitialTemplate <- MCChain
  Requests = {}
  NodesToRemove = {}
  PromptStart = TRUE
  MaxRuns = 2
  MaxFaults = 0
  MaxCrashes = 0
  MaxRequests = 0
  Main = Main
  Server = Server
  NoOne = NoOne
INVARIANTS MutexIsReturned PlanningIsCopied RunOnce
PROPERTIES LifecycleImplemented ReadyJobIsRun EndIsRecorded
