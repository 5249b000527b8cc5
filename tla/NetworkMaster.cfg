SPECIFICATION Spec
CONSTANTS
  Node <- MCFour
  NoNode = 0
  Masters <- MCMasters
  Peers <- MCChainPeers
  Modes <- MCActive
  User = {1}
  Requests = {}
  MaxRequests = 0
  MaxKills = 0
INVARIANTS MasterIsMaster
CHECK_DEADLOCK FALSE
