SPECIFICATION Spec
CONSTANTS
  Node <- MCThree
  NoNode = 0
  Masters <- MCMasters
  Peers <- MCChainPeers
  Modes <- MCLastPassive
  User = {u1, u2}
  Requests <- MCRequests
  MaxRequests = 2
  MaxKills = 3
SYMMETRY MCSymmetry
INVARIANTS TypeOK RoutesLead ServingKnowsMaster MasterIsMaster DoneOnce AnswerIsTrue
PROPERTIES ServiceImplemented
CHECK_DEADLOCK FALSE
