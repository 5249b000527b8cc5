------------------------------- MODULE Router -------------------------------
(***************************************************************************)
(* The tables of router.cpp: who the direct peers are, through which of    *)
(* them a destination is reached, and who the master is.                   *)
(*                                                                         *)
(* A routing table maps a destination to its weighted gateways, a          *)
(* multi-index ordered by weight in which equal weights keep the order of  *)
(* insertion.  Names are numbers in the collating order of the names.      *)
(* delete_route has no caller and is left out.                             *)
(***************************************************************************)
EXTENDS Naturals, Sequences, FiniteSets

CONSTANTS
  Node,     \* names of the nodes
  NoNode    \* the empty name, the NULL gateway

ASSUME RouterAssumption ==
  Node \subseteq Nat /\ IsFiniteSet(Node) /\ NoNode \in Nat \ Node

WeightedGateway == [weight : Nat, gateway : Node]

NoRoutes == [d \in {} |-> <<>>]

IsTable(t) ==
  /\ DOMAIN t \subseteq Node
  /\ \A d \in DOMAIN t : t[d] \in Seq(WeightedGateway) /\ t[d] # <<>>

\* The elements of s that are in S, in their order.
Kept(s, S) ==
  LET f[i \in 0 .. Len(s)] ==
        IF i = 0 THEN <<>>
        ELSE IF s[i] \in S THEN Append(f[i - 1], s[i]) ELSE f[i - 1]
  IN f[Len(s)]

Elements(s) == {s[i] : i \in DOMAIN s}

\* The place a multi-index ordered by weight gives a new element.
Placed(index, wg) ==
  Kept(index, {x \in WeightedGateway : x.weight <= wg.weight}) \o <<wg>>
    \o Kept(index, {x \in WeightedGateway : x.weight > wg.weight})

GatewaysTo(t, destination) ==
  IF destination \in DOMAIN t THEN t[destination] ELSE <<>>

\* With the two members of p_weighted_gateway swapped.
insert_route_swapped(t, destination, gateway, weight) ==
  LET wg == [weight |-> gateway, gateway |-> weight]
  IN [d \in DOMAIN t \cup {destination} |->
        IF d = destination THEN Placed(GatewaysTo(t, d), wg) ELSE t[d]]

insert_route(t, destination, gateway, weight) ==
  LET wg == [weight |-> weight, gateway |-> gateway]
  IN [d \in DOMAIN t \cup {destination} |->
        IF d = destination THEN Placed(GatewaysTo(t, d), wg) ELSE t[d]]

get_route(t, destination) == Head(t[destination])

get_gateway(t, destination) ==
  IF destination \in DOMAIN t THEN Head(t[destination]).gateway ELSE NoNode

\* Sets the master only when none is known.
set_master_node(known, name) == IF known = NoNode THEN name ELSE known
=============================================================================
