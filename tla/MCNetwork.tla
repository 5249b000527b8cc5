----------------------------- MODULE MCNetwork -----------------------------
(***************************************************************************)
(* Small instances of Network for TLC.                                     *)
(***************************************************************************)
EXTENDS Network, TLC

MCThree == 1 .. 3
MCFour == 1 .. 4
MCMasters == {1}

\* 1 - 2 - 3 - 4: each client knows the node before it.
MCChainPeers == [n \in Node \ Masters |-> <<n - 1>>]

\* Every client knows the master only.
MCStarPeers == [n \in Node \ Masters |-> <<1>>]

MCActive == {[n \in Node |-> "active"]}
MCLastPassive == MCActive \cup {[n \in Node |-> IF n = 3 THEN "passive" ELSE "active"]}

MCRequest(kind, calling, target) ==
  [kind |-> kind, calling |-> calling, target |-> target, filled |-> TRUE,
   id |-> 0]

MCRequests ==
  {MCRequest("planning", 1, 1), MCRequest("add_node", 2, 1),
   MCRequest("add_job", 1, 3)}

MCSymmetry == Permutations(User)
=============================================================================
