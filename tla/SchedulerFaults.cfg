SPECIFICATION Spec
CONSTANTS
  Node <- MCOneNode
  Job <- MCTwoJobs
  NodeOf <- MCLocal
  Minute <- MCNine
  Second <- MCSeconds
  Duration = 86400
  MaxDay = 1
  Local = 1
  Passive = FALSE
  InitialTemplate <- MCLateChain
  Requests = {}
  NodesToRemove = {}
  PromptStart = FALSE
  MaxRuns = 2
  MaxFaults = 1
  MaxCrashes = 1
  MaxRequests = 0
  Main = Main
  Server = Server
  NoOne = NoOne
INVARIANTS TypeOK RecordedEndIsTrue RunningHasThread PlanningIsPrefix PredecessorRanFirst
PROPERTIES OnlyCurrentIsDispatched DaysImplemented
CHECK_DEADLOCK FALSE
