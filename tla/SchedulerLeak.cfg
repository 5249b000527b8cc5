SPECIFICATION FairSpec
CONSTANTS
  Node <- MCOneNode
  Job <- MCOneJob
  NodeOf <- MCLocal
  Minute <- MCNine
  Second <- MCSeconds
  Duration = 86400
  MaxDay = 1
  Local = 1
  Passive = FALSE
  InitialTemplate <- MCSingle
  Requests <- MCUpdate
  NodesToRemove = {}
  PromptStart = TRUE
  MaxRuns = 2
  MaxFaults = 0
  MaxCrashes = 0
  MaxRequests = 1
  Main = Main
  Server = Server
  NoOne = NoOne
PROPERTIES EndIsRecorded
CHECK_DEADLOCK FALSE
