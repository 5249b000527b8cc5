SPECIFICATION Spec
CONSTANTS
  Node <- MCOneNode
  Job <- MCThreeJobs
  NodeOf <- MCLocal
  Minute <- MCEight
  Second <- MCSeconds
  Duration = 86400
  MaxDay = 1
  Local = 1
  Passive = FALSE
  InitialTemplate <- MCJoin
  Requests = {}
  NodesToRemove = {}
  PromptStart = TRUE
  MaxRuns = 2
  MaxFaults = 0
  MaxCrashes = 0
  MaxRequests = 0
  Main = Main
  Server = Server
  NoOne = NoOne
PROPERTIES RunWhenDue
CHECK_DEADLOCK FALSE
