SPECIFICATION Spec
CONSTANTS
  Node <- MCOneNode
  Job <- MCOneJob
  NodeOf <- MCLocal
  Minute <- MCNine
  Second <- MCSeconds
  Duration = 86400
  MaxDay = 1
  Local = 1
  Passive = FALSE
  InitialTemplate <- MCSingle
  Requests <- MCRequests
  NodesToRemove <- MCRemovals
  PromptStart = FALSE
  MaxRuns = 2
  MaxFaults = 0
  MaxCrashes = 0
  MaxRequests = 2
  Main = Main
  Server = Server
  NoOne = NoOne
INVARIANTS RecordedEndIsTrue RunningHasThread
CHECK_DEADLOCK FALSE
