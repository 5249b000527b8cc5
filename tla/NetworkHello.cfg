SPECIFICATION FairSpec
CONSTANTS
  Node <- MCThree
  NoNode = 0
  Masters <- MCMasters
  Peers <- MCStarPeers
  Modes <- MCActive
  User = {1}
  Requests = {}
  MaxRequests = 0
  MaxKills = 0
PROPERTIES HelloReturnsAtLast
CHECK_DEADLOCK FALSE
