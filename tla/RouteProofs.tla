---------------------------- MODULE RouteProofs ----------------------------
(***************************************************************************)
(* Proofs about the routes of Network: the tables that the nodes build at  *)
(* different times, from what others told them, fit together.              *)
(*                                                                         *)
(* What a node knows of the others' tables is what reach_master answered,  *)
(* and the router that gave the answer may be gone: the argument must not  *)
(* refer to what another node knows now.  It refers to the peers_keys      *)
(* files, which do not change.  A gateway that is not the destination has  *)
(* the destination in its file (Reaches); a client that serves has read    *)
(* its file to the end and holds a direct route to each host in it; so two *)
(* hops are always enough.                                                 *)
(***************************************************************************)
EXTENDS NetworkProofs

\* A gateway that is not the destination has it in its peers_keys file.
Reaches(gateway, destination) ==
  gateway # destination =>
    gateway \notin Masters /\ destination \in Elements(Peers[gateway])

\* Every route of t has weight 0, one of the direct peers H as its gateway,
\* and leads to its destination.
Sound(t, H) ==
  \A d \in DOMAIN t : \A x \in Elements(t[d]) :
    x.weight = 0 /\ x.gateway \in H /\ Reaches(x.gateway, d)

\* The route used to each of the direct peers H is the direct one.
Direct(t, H) == \A d \in H : d \in DOMAIN t /\ get_gateway(t, d) = d

\* The hosts are those of the lines that have been read.
HostsAreRead(n) ==
  /\ n \in Masters => DOMAIN table[n] = {}
  /\ n \notin Masters =>
       /\ read[n] <= Len(Peers[n])
       /\ hosts[n] = {Peers[n][i] : i \in 1 .. read[n]}
       /\ read[n] < Len(Peers[n]) => DOMAIN table[n] \subseteq hosts[n]
  /\ left[n] \subseteq hosts[n]

RoutesAreSound(n) == Sound(table[n], hosts[n]) /\ Direct(table[n], hosts[n])

MasterHasRoute(n) ==
  /\ master[n] # NoNode => master[n] \in DOMAIN table[n]
  /\ n \notin Masters /\ process[n] = "serving" =>
       read[n] = Len(Peers[n]) /\ master[n] # NoNode

\* The main thread asks the peer whose answer it will record, and the answer
\* is what this peer could say.
HelloIsTrue(n) ==
  call[Main(n)].kind = "hello" =>
    /\ \A m \in Node : Uses(Main(n), m) => m = Peers[n][read[n] + 1]
    /\ answer[Main(n)].name \in {NoNode, Peers[n][read[n] + 1]}

ReachedIsTrue(n) ==
  call[Main(n)].kind = "reach_master" =>
    /\ read[n] = Len(Peers[n])
    /\ \A m \in Node : Uses(Main(n), m) => m = Least(left[n])
    /\ answer[Main(n)].result = "ok" =>
         /\ answer[Main(n)].hops = 0
         /\ answer[Main(n)].name # NoNode =>
              Reaches(Least(left[n]), answer[Main(n)].name)

NodeInv(n) ==
  /\ HostsAreRead(n) /\ RoutesAreSound(n) /\ MasterHasRoute(n)
  /\ HelloIsTrue(n) /\ ReachedIsTrue(n)

RouteInv == \A n \in Node : NodeInv(n)

-----------------------------------------------------------------------------
(***************************************************************************)
(* Tables.                                                                 *)
(***************************************************************************)
\* Among routes of weight 0 the first that was inserted stays the first.
LEMMA PlacedLast ==
  ASSUME NEW index \in Seq(WeightedGateway), NEW wg \in WeightedGateway,
         wg.weight = 0, \A x \in Elements(index) : x.weight = 0
  PROVE  Head(Placed(index, wg)) = IF index = <<>> THEN wg ELSE Head(index)
<1> DEFINE low == {x \in WeightedGateway : x.weight <= wg.weight}
           high == {x \in WeightedGateway : x.weight > wg.weight}
           after == Kept(index, high)
<1>1. Elements(index) \subseteq low
  <2>1. Elements(index) \subseteq WeightedGateway
    BY DEF Elements
  <2> QED BY <2>1
<1>2. Placed(index, wg) = Kept(index, low) \o <<wg>> \o after
  BY DEF Placed
<1> HIDE DEF low, high
<1>3. Kept(index, low) = index
  BY <1>1, KeptAll
<1>4. after \in Seq(WeightedGateway)
  BY KeptElements
<1> HIDE DEF after
<1>5. Head((index \o <<wg>>) \o after) = IF index = <<>> THEN wg ELSE Head(index)
  BY <1>4
<1> QED BY <1>2, <1>3, <1>5

\* insert_route keeps a table sound, and its direct routes in use.
LEMMA InsertSound ==
  ASSUME NEW t, IsTable(t), NEW H, NEW K, H \subseteq K, Sound(t, H), Direct(t, H),
         NEW d \in Node, NEW g \in Node, g \in K, Reaches(g, d),
         NEW u, u = insert_route(t, d, g, 0)
  PROVE  /\ \A e : e \in DOMAIN u <=> e \in DOMAIN t \/ e = d
         /\ Sound(u, K) /\ Direct(u, H)
         /\ d \notin DOMAIN t => get_gateway(u, d) = g
<1> DEFINE wg == [weight |-> 0, gateway |-> g]
           index == GatewaysTo(t, d)
<1>1. /\ DOMAIN u = DOMAIN t \cup {d}
      /\ \A e \in DOMAIN t \ {d} : u[e] = t[e]
      /\ u[d] = Placed(index, wg)
      /\ Elements(u[d]) = Elements(index) \cup {wg}
  <2>1. PICK w \in Nat : w = 0
    OBVIOUS
  <2>2. u = insert_route(t, d, g, w)
    BY <2>1
  <2>3. /\ DOMAIN u = DOMAIN t \cup {d}
        /\ \A e \in DOMAIN t \ {d} : u[e] = t[e]
        /\ u[d] = Placed(GatewaysTo(t, d), [weight |-> w, gateway |-> g])
        /\ Elements(u[d]) = Elements(GatewaysTo(t, d))
                              \cup {[weight |-> w, gateway |-> g]}
    BY <2>2, InsertRoute
  <2> QED BY <2>1, <2>3
<1>2. wg \in WeightedGateway /\ wg.weight = 0 /\ wg.gateway = g
  BY DEF WeightedGateway
<1>3. /\ index \in Seq(WeightedGateway)
      /\ d \in DOMAIN t => index = t[d] /\ index # <<>>
      /\ d \notin DOMAIN t => index = <<>>
  <2>1. <<>> \in Seq(WeightedGateway)
    OBVIOUS
  <2> QED BY <2>1, Zenon DEF IsTable, GatewaysTo
<1> HIDE DEF wg, index
<1>4. \A x \in Elements(index) : d \in DOMAIN t /\ x \in Elements(t[d])
  <2>1. Elements(<<>>) = {}
    BY DEF Elements
  <2> QED BY <1>3, <2>1
<1>5. \A x \in Elements(u[d]) :
        x.weight = 0 /\ x.gateway \in K /\ Reaches(x.gateway, d)
  BY <1>1, <1>2, <1>4 DEF Sound
<1>6. Sound(u, K)
  BY <1>1, <1>5 DEF Sound
<1>7. Head(u[d]) = IF index = <<>> THEN wg ELSE Head(index)
  BY <1>1, <1>2, <1>3, <1>4, PlacedLast DEF Sound
<1>8. get_gateway(u, d) = IF index = <<>> THEN g ELSE Head(index).gateway
  BY <1>1, <1>2, <1>7 DEF get_gateway
<1>9. \A e \in DOMAIN t \ {d} : get_gateway(u, e) = get_gateway(t, e)
  BY <1>1 DEF get_gateway
<1>10. d \in DOMAIN t => get_gateway(u, d) = get_gateway(t, d)
  BY <1>3, <1>8 DEF get_gateway
<1>11. Direct(u, H)
  BY <1>1, <1>9, <1>10 DEF Direct
<1> QED BY <1>1, <1>3, <1>6, <1>8, <1>11

\* A new direct peer gets the route that is used.
LEMMA InsertDirect ==
  ASSUME NEW t, IsTable(t), NEW H, Sound(t, H), Direct(t, H), DOMAIN t \subseteq H,
         NEW peer \in Node,
         NEW K, H \subseteq K, peer \in K, K \subseteq H \cup {peer},
         NEW u, u = insert_route(t, peer, peer, 0)
  PROVE  /\ \A e : e \in DOMAIN u <=> e \in DOMAIN t \/ e = peer
         /\ Sound(u, K) /\ Direct(u, K)
<1>1. Reaches(peer, peer)
  BY DEF Reaches
<1>2. \A e : e \in DOMAIN u <=> e \in DOMAIN t \/ e = peer
  BY DEF insert_route
<1>3. Sound(u, K) /\ Direct(u, H)
  BY <1>1, InsertSound
<1>4. peer \notin DOMAIN t => get_gateway(u, peer) = peer
  BY <1>1, InsertSound
<1>5. \A d \in H : d \in DOMAIN u /\ get_gateway(u, d) = d
  BY <1>3 DEF Direct
<1>6. peer \in DOMAIN u /\ get_gateway(u, peer) = peer
  BY <1>2, <1>4, <1>5
<1>7. Direct(u, K)
  BY <1>5, <1>6 DEF Direct
<1> QED BY <1>2, <1>3, <1>7

-----------------------------------------------------------------------------
(***************************************************************************)
(* Steps.                                                                  *)
(***************************************************************************)
LEMMA InitRoute == Init => RouteInv
<1> SUFFICES ASSUME Init, NEW n \in Node PROVE NodeInv(n)
  BY DEF RouteInv
<1>1. /\ table[n] = NoRoutes /\ hosts[n] = {} /\ master[n] = NoNode
      /\ read[n] = 0 /\ left[n] = {} /\ process[n] = "down"
      /\ call[Main(n)] = NoCall
  BY Actors DEF Init
<1>2. DOMAIN NoRoutes = {}
  BY DEF NoRoutes
<1>3. NoCall.kind = "none"
  BY DEF NoCall
<1>4. n \notin Masters => Len(Peers[n]) \in Nat
  BY NetworkAssumption
<1>5. HostsAreRead(n)
  BY <1>1, <1>2, <1>4 DEF HostsAreRead
<1>6. RoutesAreSound(n)
  BY <1>1, <1>2 DEF RoutesAreSound, Sound, Direct
<1> QED BY <1>1, <1>3, <1>5, <1>6 DEF NodeInv, MasterHasRoute, HelloIsTrue, ReachedIsTrue

\* The router of n does not change, and its main thread sees at most that its
\* connection or the call it waits for is broken.
LEMMA FrameNode ==
  ASSUME NEW n \in Node, NodeInv(n),
         table'[n] = table[n], hosts'[n] = hosts[n], master'[n] = master[n],
         read'[n] = read[n], left'[n] = left[n],
         n \notin Masters /\ process'[n] = "serving" =>
           read[n] = Len(Peers[n]) /\ master[n] # NoNode,
         call'[Main(n)] = call[Main(n)],
         \A m \in Node : Uses(Main(n), m)' => Uses(Main(n), m),
         \/ answer'[Main(n)] = answer[Main(n)]
         \/ answer'[Main(n)].name = NoNode /\ answer'[Main(n)].result # "ok"
  PROVE  NodeInv(n)'
<1>1. HostsAreRead(n)' /\ RoutesAreSound(n)' /\ MasterHasRoute(n)'
  BY DEF NodeInv, HostsAreRead, RoutesAreSound, MasterHasRoute
<1>2. HelloIsTrue(n)'
  BY DEF NodeInv, HelloIsTrue
<1>3. ReachedIsTrue(n)'
  BY DEF NodeInv, ReachedIsTrue
<1> QED BY <1>1, <1>2, <1>3 DEF NodeInv

\* A step that changes no router: no main thread calls or returns, and the
\* only answers they get are those of a broken connection.
LEMMA FrameRoute ==
  ASSUME RouteInv, routerVars' = routerVars, process' = process,
         \A k \in Node : call'[Main(k)] = call[Main(k)],
         \A k \in Node : answer'[Main(k)] = answer[Main(k)],
         \A k, m \in Node : Uses(Main(k), m)' => Uses(Main(k), m)
  PROVE  RouteInv'
<1> SUFFICES ASSUME NEW k \in Node PROVE NodeInv(k)'
  BY DEF RouteInv
<1>1. NodeInv(k)
  BY DEF RouteInv
<1>2. /\ table' = table /\ hosts' = hosts /\ master' = master /\ read' = read
      /\ left' = left
  BY DEF routerVars
<1>3. k \notin Masters /\ process'[k] = "serving" =>
        read[k] = Len(Peers[k]) /\ master[k] # NoNode
  BY <1>1 DEF NodeInv, MasterHasRoute
<1> QED BY <1>1, <1>2, <1>3, FrameNode

LEMMA StartRoute ==
  ASSUME NetInv, RouteInv, NEW n \in Node, Start(n) \/ Serve(n)
  PROVE  RouteInv'
<1> SUFFICES ASSUME NEW k \in Node PROVE NodeInv(k)'
  BY DEF RouteInv
<1>1. /\ table' = table /\ hosts' = hosts /\ master' = master /\ read' = read
      /\ left' = left /\ call' = call /\ answer' = answer /\ line' = line
  BY DEF Start, Serve, routerVars, rpcVars
<1>2. NodeInv(k) /\ MasterHasRoute(k)
  BY DEF RouteInv, NodeInv
<1>3. ASSUME k \notin Masters, process'[k] = "serving"
      PROVE  read[k] = Len(Peers[k]) /\ master[k] # NoNode
  <2>1. process[k] = "serving" \/ (k = n /\ Serve(n))
    BY <1>3 DEF Start, Serve, NetInv, TypeInv, Types, RouterTypes
  <2> QED BY <1>2, <1>3, <2>1 DEF Serve, MasterHasRoute
<1>4. \A m \in Node : Uses(Main(k), m)' => Uses(Main(k), m)
  BY <1>1 DEF Uses
<1> QED BY <1>1, <1>2, <1>3, <1>4, FrameNode

LEMMA DiesRoute ==
  ASSUME NetInv, RouteInv, NEW n \in Node, Dies(n)
  PROVE  RouteInv'
<1> SUFFICES ASSUME NEW k \in Node PROVE NodeInv(k)'
  BY DEF RouteInv
<1>1. NodeInv(k) /\ MasterHasRoute(k) /\ Main(k) \in Actor
  BY Actors DEF RouteInv, NodeInv
<1>2. CASE k = n
  <2>1. /\ table'[n] = NoRoutes /\ hosts'[n] = {} /\ master'[n] = NoNode
        /\ read'[n] = 0 /\ left'[n] = {} /\ process'[n] = "down"
    BY DEF Dies, NetInv, TypeInv, Types, RouterTypes
  <2>2. call'[Main(n)] = NoCall
    BY Actors DEF Dies
  <2>3. DOMAIN NoRoutes = {}
    BY DEF NoRoutes
  <2>4. NoCall.kind = "none"
    BY DEF NoCall
  <2>5. n \notin Masters => Len(Peers[n]) \in Nat
    BY NetworkAssumption
  <2>6. HostsAreRead(n)'
    BY <2>1, <2>3, <2>5 DEF HostsAreRead
  <2>7. RoutesAreSound(n)'
    BY <2>1, <2>3 DEF RoutesAreSound, Sound, Direct
  <2> QED BY <1>2, <2>1, <2>2, <2>4, <2>6, <2>7
          DEF NodeInv, MasterHasRoute, HelloIsTrue, ReachedIsTrue
<1>3. CASE k # n
  <2>1. /\ table'[k] = table[k] /\ hosts'[k] = hosts[k] /\ master'[k] = master[k]
        /\ read'[k] = read[k] /\ left'[k] = left[k] /\ process'[k] = process[k]
    BY <1>3 DEF Dies, NetInv, TypeInv, Types, RouterTypes
  <2>2. Main(k) \notin Own(n)
    BY <1>1, <1>3, Actors
  <2>3. call'[Main(k)] = call[Main(k)]
    BY <1>1, <2>2 DEF Dies
  <2>4. answer'[Main(k)] = answer[Main(k)] \/ answer'[Main(k)] = Said("broken")
    BY <1>1, <2>2 DEF Dies
  <2>5. Said("broken").name = NoNode /\ Said("broken").result # "ok"
    BY DEF Said
  <2>6. \A m \in Node : Uses(Main(k), m)' => Uses(Main(k), m)
    <3>1. line' = [m \in Node |-> Remaining(n, m)]
      BY DEF Dies, Remaining
    <3> QED BY <1>1, <3>1, RemainingUses DEF NetInv, TypeInv, Types, RpcTypes
  <2> QED BY <1>1, <2>1, <2>3, <2>4, <2>5, <2>6, FrameNode DEF MasterHasRoute
<1> QED BY <1>2, <1>3

\* A step of the main thread of n leaves the routers of the others alone.
LEMMA FrameOthers ==
  ASSUME NetInv, RouteInv, NEW n \in Node, process' = process,
         \A k \in Node \ {n} :
           /\ table'[k] = table[k] /\ hosts'[k] = hosts[k]
           /\ master'[k] = master[k] /\ read'[k] = read[k] /\ left'[k] = left[k],
         \A b \in Actor \ {Main(n)} : call'[b] = call[b] /\ answer'[b] = answer[b],
         \A b \in Actor \ {Main(n)}, m \in Node : Uses(b, m)' => Uses(b, m),
         NodeInv(n)'
  PROVE  RouteInv'
<1> SUFFICES ASSUME NEW k \in Node \ {n} PROVE NodeInv(k)'
  BY DEF RouteInv
<1>1. Main(k) \in Actor \ {Main(n)}
  BY Actors
<1>2. NodeInv(k) /\ MasterHasRoute(k)
  BY DEF RouteInv, NodeInv
<1> QED BY <1>1, <1>2, FrameNode DEF MasterHasRoute

\* An iteration of update_peers_list adds a direct peer.
LEMMA ListedRoute ==
  ASSUME NetInv, NEW n \in Node \ Masters, NodeInv(n),
         process[n] = "discovering", process' = process,
         read[n] < Len(Peers[n]), NEW peer, peer = Peers[n][read[n] + 1],
         NEW found \in {NoNode, peer}, Listed(n, peer, found)
  PROVE  /\ HostsAreRead(n)' /\ RoutesAreSound(n)' /\ MasterHasRoute(n)'
         /\ \A k \in Node \ {n} :
              /\ table'[k] = table[k] /\ hosts'[k] = hosts[k]
              /\ master'[k] = master[k] /\ read'[k] = read[k] /\ left'[k] = left[k]
<1>1. /\ peer \in Node /\ read[n] \in Nat /\ Len(Peers[n]) \in Nat
      /\ IsTable(table[n]) /\ hosts[n] \subseteq Node
      /\ DOMAIN table = Node /\ RouterTypes
  BY NetworkAssumption DEF NetInv, TypeInv, Types, RouterTypes
<1>2. /\ left'[n] = hosts'[n] /\ read'[n] = read[n] + 1
      /\ hosts'[n] = hosts[n] \cup {peer}
      /\ \A k \in Node \ {n} : /\ read'[k] = read[k] /\ left'[k] = left[k]
                                /\ hosts'[k] = hosts[k]
  <2>1. found \in Node \cup {NoNode}
    BY <1>1
  <2> QED BY <1>1, <2>1, ListedTypes
<1>3. /\ table'[n] = insert_route(table[n], peer, peer, 0)
      /\ \A k \in Node \ {n} : table'[k] = table[k]
  BY <1>1 DEF Listed
<1>4. /\ master'[n] = set_master_node(master[n], found)
      /\ \A k \in Node \ {n} : master'[k] = master[k]
  BY <1>1 DEF Listed, RouterTypes
<1>5. /\ Sound(table[n], hosts[n]) /\ Direct(table[n], hosts[n])
      /\ DOMAIN table[n] \subseteq hosts[n]
      /\ hosts[n] = {Peers[n][i] : i \in 1 .. read[n]}
      /\ master[n] # NoNode => master[n] \in DOMAIN table[n]
  BY DEF NodeInv, HostsAreRead, RoutesAreSound, MasterHasRoute
<1>6. PICK t, u, H, K : /\ t = table[n] /\ u = table'[n]
                        /\ H = hosts[n] /\ K = hosts'[n]
  OBVIOUS
<1>7. /\ \A e : e \in DOMAIN u <=> e \in DOMAIN t \/ e = peer
      /\ Sound(u, K) /\ Direct(u, K)
  <2>1. /\ IsTable(t) /\ Sound(t, H) /\ Direct(t, H) /\ DOMAIN t \subseteq H
        /\ u = insert_route(t, peer, peer, 0) /\ peer \in Node
        /\ H \subseteq K /\ peer \in K /\ K \subseteq H \cup {peer}
    BY <1>1, <1>2, <1>3, <1>5, <1>6
  <2> QED BY ONLY <2>1, InsertDirect
<1>8. RoutesAreSound(n)'
  BY <1>6, <1>7 DEF RoutesAreSound
<1>9. HostsAreRead(n)'
  <2>1. hosts'[n] = {Peers[n][i] : i \in 1 .. read[n] + 1}
    BY <1>1, <1>2, <1>5
  <2>2. DOMAIN table'[n] \subseteq hosts'[n]
    BY <1>2, <1>5, <1>6, <1>7
  <2>3. read[n] + 1 <= Len(Peers[n])
    BY <1>1
  <2> QED BY <1>2, <2>1, <2>2, <2>3 DEF HostsAreRead
<1>10. MasterHasRoute(n)'
  <2>1. master'[n] # NoNode => master'[n] \in DOMAIN table'[n]
    BY <1>4, <1>5, <1>6, <1>7 DEF set_master_node
  <2> QED BY <2>1 DEF MasterHasRoute
<1> QED BY <1>2, <1>3, <1>4, <1>8, <1>9, <1>10

LEMMA SayHelloRoute ==
  ASSUME NetInv, RouteInv, NEW n \in Node, SayHello(n)
  PROVE  RouteInv'
<1> DEFINE peer == Peers[n][read[n] + 1]
<1>1. /\ n \in Node \ Masters /\ process[n] = "discovering"
      /\ read[n] < Len(Peers[n]) /\ read[n] \in Nat /\ call[Main(n)] = NoCall
      /\ NodeInv(n) /\ Main(n) \in Actor /\ answer[Main(n)] = NoAnswer
  BY Actors DEF SayHello, Discovers, NetInv, TypeInv, Types, RouterTypes,
     ClientsDiscover, Discovering, WireInv, CallsAreSent, RouteInv
<1>2. peer \in Node
  BY <1>1, NetworkAssumption
<1>3. process' = process /\ answer' = answer
  BY DEF SayHello
<1>4. NoCall.kind = "none" /\ NoAnswer.name = NoNode
  BY DEF NoCall, NoAnswer, Said
<1>5. CASE process[peer] = "serving"
  <2>1. Sends(Main(n), peer, [kind |-> "hello"]) /\ UNCHANGED routerVars
    BY <1>5 DEF SayHello
  <2> HIDE DEF peer
  <2>2. /\ call'[Main(n)] = [kind |-> "hello"]
        /\ \A b \in Actor \ {Main(n)} : call'[b] = call[b]
    BY <1>1, <1>2, <2>1, SendsTypes, Calls DEF NetInv, TypeInv, Types
  <2>3. \A b \in Actor, m \in Node :
          Uses(b, m)' <=> \/ b # Main(n) /\ Uses(b, m)
                          \/ b = Main(n) /\ m = peer /\ process[peer] = "serving"
    BY <1>1, <1>2, <2>1, OpenedUses DEF Sends, NetInv, TypeInv, Types, RpcTypes
  <2>4. /\ table' = table /\ hosts' = hosts /\ master' = master /\ read' = read
        /\ left' = left
    BY <2>1 DEF routerVars
  <2>5. NodeInv(n)'
    <3>1. HostsAreRead(n)' /\ RoutesAreSound(n)' /\ MasterHasRoute(n)'
      BY <1>1, <1>3, <2>4 DEF NodeInv, HostsAreRead, RoutesAreSound, MasterHasRoute
    <3>2. HelloIsTrue(n)'
      BY <1>1, <1>3, <1>4, <2>3, <2>4 DEF HelloIsTrue, peer
    <3>3. ReachedIsTrue(n)'
      BY <2>2 DEF ReachedIsTrue
    <3> QED BY <3>1, <3>2, <3>3 DEF NodeInv
  <2> QED BY <1>3, <2>2, <2>3, <2>4, <2>5, FrameOthers
<1>6. CASE process[peer] # "serving"
  <2>1. line' = Opened(Main(n), peer) /\ Listed(n, peer, NoNode) /\ call' = call
    BY <1>6 DEF SayHello
  <2>2. /\ HostsAreRead(n)' /\ RoutesAreSound(n)' /\ MasterHasRoute(n)'
        /\ \A k \in Node \ {n} :
             /\ table'[k] = table[k] /\ hosts'[k] = hosts[k]
             /\ master'[k] = master[k] /\ read'[k] = read[k] /\ left'[k] = left[k]
    BY <1>1, <1>3, <2>1, ListedRoute
  <2> HIDE DEF peer
  <2>3. \A b \in Actor \ {Main(n)}, m \in Node : Uses(b, m)' => Uses(b, m)
    BY <1>1, <1>2, <2>1, OpenedUses DEF NetInv, TypeInv, Types, RpcTypes
  <2>4. NodeInv(n)'
    BY <1>1, <1>4, <2>1, <2>2 DEF NodeInv, HelloIsTrue, ReachedIsTrue
  <2> QED BY <1>3, <2>1, <2>2, <2>3, <2>4, FrameOthers
<1> QED BY <1>5, <1>6

LEMMA HelloReturnsRoute ==
  ASSUME NetInv, RouteInv, NEW n \in Node, HelloReturns(n)
  PROVE  RouteInv'
<1>1. PICK peer, found : /\ peer = Peers[n][read[n] + 1]
                         /\ found = answer[Main(n)].name
  OBVIOUS
<1>2. /\ n \in Node \ Masters /\ process[n] = "discovering"
      /\ read[n] < Len(Peers[n]) /\ NodeInv(n) /\ Main(n) \in Actor
      /\ call[Main(n)].kind = "hello"
  BY Actors DEF HelloReturns, Answered, NetInv, TypeInv, Types, RouterTypes,
     ClientsDiscover, Discovering, RouteInv
<1>3. found \in {NoNode, peer}
  BY <1>1, <1>2 DEF NodeInv, HelloIsTrue
<1>4. /\ Listed(n, peer, found) /\ Returned(Main(n))
      /\ line' = line /\ process' = process
  BY <1>1 DEF HelloReturns
<1>5. /\ HostsAreRead(n)' /\ RoutesAreSound(n)' /\ MasterHasRoute(n)'
      /\ \A k \in Node \ {n} :
           /\ table'[k] = table[k] /\ hosts'[k] = hosts[k]
           /\ master'[k] = master[k] /\ read'[k] = read[k] /\ left'[k] = left[k]
  BY <1>1, <1>2, <1>3, <1>4, ListedRoute
<1>6. /\ call'[Main(n)] = NoCall
      /\ \A b \in Actor \ {Main(n)} : call'[b] = call[b] /\ answer'[b] = answer[b]
  BY <1>2, <1>4, ReturnedTypes DEF NetInv, TypeInv, Types
<1>7. NoCall.kind = "none"
  BY DEF NoCall
<1>8. NodeInv(n)'
  BY <1>5, <1>6, <1>7 DEF NodeInv, HelloIsTrue, ReachedIsTrue
<1>9. \A b \in Actor \ {Main(n)}, m \in Node : Uses(b, m)' => Uses(b, m)
  BY <1>4 DEF Uses
<1> QED BY <1>4, <1>5, <1>6, <1>8, <1>9, FrameOthers

LEMMA ReachMasterRoute ==
  ASSUME NetInv, RouteInv, NEW n \in Node, ReachMaster(n)
  PROVE  RouteInv'
<1>1. PICK peer : peer = Least(left[n])
  OBVIOUS
<1>2. /\ process[n] = "discovering" /\ read[n] = Len(Peers[n])
      /\ call[Main(n)] = NoCall
      /\ NodeInv(n) /\ Main(n) \in Actor /\ answer[Main(n)] = NoAnswer
  BY Actors DEF ReachMaster, Discovers, NetInv, WireInv, CallsAreSent, RouteInv
<1>3. peer \in Node
  <2>1. n \notin Masters /\ (read[n] > 0 => left[n] # {}) /\ left[n] \subseteq Node
    BY <1>2 DEF NetInv, TypeInv, Types, RouterTypes, ClientsDiscover, Discovering
  <2>2. read[n] > 0
    BY <1>2, <2>1, NetworkAssumption
  <2> QED BY <1>1, <2>1, <2>2, LeastIn
<1>4. NoAnswer.result # "ok"
  BY DEF NoAnswer, Said
<1>5. CASE process[peer] = "serving"
  <2>1. /\ Sends(Main(n), peer, [kind |-> "reach_master"])
        /\ UNCHANGED <<process, routerVars, answer>>
    BY <1>1, <1>5 DEF ReachMaster
  <2>2. /\ call'[Main(n)] = [kind |-> "reach_master"]
        /\ \A b \in Actor \ {Main(n)} : call'[b] = call[b]
    BY <1>2, <1>3, <2>1, SendsTypes, Calls DEF NetInv, TypeInv, Types
  <2>3. \A b \in Actor, m \in Node :
          Uses(b, m)' <=> \/ b # Main(n) /\ Uses(b, m)
                          \/ b = Main(n) /\ m = peer /\ process[peer] = "serving"
    BY <1>2, <1>3, <2>1, OpenedUses DEF Sends, NetInv, TypeInv, Types, RpcTypes
  <2>4. /\ table' = table /\ hosts' = hosts /\ master' = master /\ read' = read
        /\ left' = left
    BY <2>1 DEF routerVars
  <2>5. NodeInv(n)'
    <3>1. HostsAreRead(n)' /\ RoutesAreSound(n)' /\ MasterHasRoute(n)'
      BY <1>2, <2>1, <2>4 DEF NodeInv, HostsAreRead, RoutesAreSound, MasterHasRoute
    <3>2. HelloIsTrue(n)'
      BY <2>2 DEF HelloIsTrue
    <3>3. ReachedIsTrue(n)'
      BY <1>1, <1>2, <1>4, <2>1, <2>3, <2>4 DEF ReachedIsTrue
    <3> QED BY <3>1, <3>2, <3>3 DEF NodeInv
  <2> QED BY <2>1, <2>2, <2>3, <2>4, <2>5, FrameOthers
<1>6. CASE process[peer] # "serving"
  BY <1>1, <1>6, DiesRoute DEF ReachMaster
<1> QED BY <1>5, <1>6

\* What reach_master told is recorded as a route through the peer asked.
LEMMA LearnedRoute ==
  ASSUME NetInv, NEW n \in Node \ Masters, NodeInv(n), process[n] = "discovering",
         call[Main(n)].kind = "reach_master", answer[Main(n)].result = "ok",
         NEW peer, peer = Least(left[n]), NEW name \in Node,
         name = answer[Main(n)].name, NEW hops, hops = answer[Main(n)].hops,
         master' = [master EXCEPT ![n] = set_master_node(@, name)],
         table' = [table EXCEPT ![n] = insert_route(@, name, peer, hops)],
         UNCHANGED <<process, hosts, read, left>>
  PROVE  HostsAreRead(n)' /\ RoutesAreSound(n)' /\ MasterHasRoute(n)'
<1>1. /\ read[n] = Len(Peers[n]) /\ hops = 0 /\ Reaches(peer, name)
      /\ peer \in hosts[n] /\ peer \in Node
  <2>1. /\ left[n] # {} /\ left[n] \subseteq Node
    BY DEF NetInv, TypeInv, Types, RouterTypes, ClientsDiscover, Discovering
  <2>2. peer \in left[n]
    BY <2>1, LeastIn
  <2>3. name # NoNode
    BY RouterAssumption
  <2> QED BY <2>1, <2>2, <2>3 DEF NodeInv, ReachedIsTrue, HostsAreRead
<1>2. /\ Sound(table[n], hosts[n]) /\ Direct(table[n], hosts[n])
      /\ master[n] # NoNode => master[n] \in DOMAIN table[n]
      /\ HostsAreRead(n)
  BY DEF NodeInv, RoutesAreSound, MasterHasRoute
<1>3. /\ table'[n] = insert_route(table[n], name, peer, 0)
      /\ IsTable(table[n]) /\ master'[n] = set_master_node(master[n], name)
  BY <1>1 DEF NetInv, TypeInv, Types, RouterTypes
<1>4. PICK t, u, H : t = table[n] /\ u = table'[n] /\ H = hosts[n]
  OBVIOUS
<1>5. /\ \A e : e \in DOMAIN u <=> e \in DOMAIN t \/ e = name
      /\ Sound(u, H) /\ Direct(u, H)
  <2>1. /\ IsTable(t) /\ Sound(t, H) /\ Direct(t, H) /\ H \subseteq H
        /\ u = insert_route(t, name, peer, 0) /\ peer \in H
    BY <1>1, <1>2, <1>3, <1>4
  <2>2. \A e : e \in DOMAIN u <=> e \in DOMAIN t \/ e = name
    BY <2>1 DEF insert_route
  <2>3. peer \in Node /\ name \in Node /\ Reaches(peer, name)
    BY <1>1
  <2>4. Sound(u, H) /\ Direct(u, H)
    BY ONLY <2>1, <2>3, InsertSound
  <2> QED BY <2>2, <2>4
<1>6. RoutesAreSound(n)'
  BY <1>4, <1>5 DEF RoutesAreSound
<1>7. HostsAreRead(n)'
  BY <1>1, <1>2 DEF HostsAreRead
<1>8. MasterHasRoute(n)'
  <2>1. master'[n] \in DOMAIN table'[n]
    BY <1>2, <1>3, <1>4, <1>5 DEF set_master_node
  <2> QED BY <2>1 DEF MasterHasRoute
<1> QED BY <1>6, <1>7, <1>8

LEMMA ReachReturnsRoute ==
  ASSUME NetInv, RouteInv, NEW n \in Node, ReachReturns(n)
  PROVE  RouteInv'
<1>1. PICK peer, name, hops : /\ peer = Least(left[n])
                              /\ name = answer[Main(n)].name
                              /\ hops = answer[Main(n)].hops
  OBVIOUS
<1>2. /\ n \in Node \ Masters /\ process[n] = "discovering" /\ Main(n) \in Actor
      /\ call[Main(n)].kind = "reach_master" /\ NodeInv(n)
      /\ name \in Node \cup {NoNode}
  BY <1>1, Actors, Answers
     DEF ReachReturns, Answered, NetInv, TypeInv, Types, RpcTypes, ClientsDiscover,
         Discovering, RouteInv
<1>3. CASE answer[Main(n)].result # "ok"
  <2>1. Dies(n)
    BY <1>3 DEF ReachReturns
  <2> QED BY <2>1, DiesRoute
<1>4. CASE answer[Main(n)].result = "ok"
  <2>1. /\ Returned(Main(n))
        /\ process' = process /\ hosts' = hosts /\ read' = read /\ line' = line
    BY <1>4 DEF ReachReturns
  <2>2. /\ call'[Main(n)] = NoCall
        /\ \A b \in Actor \ {Main(n)} : call'[b] = call[b] /\ answer'[b] = answer[b]
    BY <1>2, <2>1, ReturnedTypes DEF NetInv, TypeInv, Types
  <2>3. NoCall.kind = "none"
    BY DEF NoCall
  <2>4. /\ HostsAreRead(n)' /\ RoutesAreSound(n)' /\ MasterHasRoute(n)'
        /\ \A k \in Node \ {n} :
             /\ table'[k] = table[k] /\ master'[k] = master[k] /\ left'[k] = left[k]
    <3>1. CASE name # NoNode
      <4>1. /\ master' = [master EXCEPT ![n] = set_master_node(@, name)]
            /\ table' = [table EXCEPT ![n] = insert_route(@, name, peer, hops)]
            /\ left' = left /\ name \in Node
        BY <1>1, <1>2, <1>4, <3>1 DEF ReachReturns, Learned
      <4>2. \A k \in Node \ {n} :
              table'[k] = table[k] /\ master'[k] = master[k] /\ left'[k] = left[k]
        BY <4>1 DEF NetInv, TypeInv, Types, RouterTypes
      <4>3. HostsAreRead(n)' /\ RoutesAreSound(n)' /\ MasterHasRoute(n)'
        BY <1>1, <1>2, <1>4, <2>1, <4>1, LearnedRoute
      <4> QED BY <4>2, <4>3
    <3>2. CASE name = NoNode
      <4>1. /\ left' = [left EXCEPT ![n] = IF @ = {peer} THEN hosts[n] ELSE @ \ {peer}]
            /\ table' = table /\ master' = master
        BY <1>1, <1>4, <3>2 DEF ReachReturns
      <4>2. /\ left'[n] \subseteq hosts[n]
            /\ \A k \in Node \ {n} : left'[k] = left[k]
        BY <1>2, <4>1 DEF NetInv, TypeInv, Types, RouterTypes, NodeInv, HostsAreRead
      <4> QED BY <1>2, <2>1, <4>1, <4>2
              DEF NodeInv, HostsAreRead, RoutesAreSound, MasterHasRoute
    <3> QED BY <3>1, <3>2
  <2>5. NodeInv(n)'
    BY <2>2, <2>3, <2>4 DEF NodeInv, HelloIsTrue, ReachedIsTrue
  <2>6. \A b \in Actor \ {Main(n)}, m \in Node : Uses(b, m)' => Uses(b, m)
    BY <2>1 DEF Uses
  <2> QED BY <2>1, <2>2, <2>4, <2>5, <2>6, FrameOthers
<1> QED BY <1>3, <1>4

LEMMA HostsInFile ==
  ASSUME NEW n \in Node \ Masters, RouterTypes, NodeInv(n)
  PROVE  hosts[n] \subseteq Elements(Peers[n])
<1>1. /\ hosts[n] = {Peers[n][i] : i \in 1 .. read[n]} /\ read[n] <= Len(Peers[n])
      /\ read[n] \in Nat
  BY DEF NodeInv, HostsAreRead, RouterTypes
<1>2. Len(Peers[n]) \in Nat /\ DOMAIN Peers[n] = 1 .. Len(Peers[n])
  BY NetworkAssumption
<1> QED BY <1>1, <1>2 DEF Elements

\* What a node answers to reach_master: itself, or a host of its own file.
LEMMA ToldIsTrue ==
  ASSUME NetInv, RouteInv, NEW n \in Node, NEW x, x = RouteToMaster(n), x.result = "ok"
  PROVE  /\ x.hops = 0 /\ Reaches(n, x.name)
         /\ IF n \in Masters THEN x.name = n ELSE x.name \in Elements(Peers[n])
<1>1. CASE n \in Masters
  <2>1. x = [Said("ok") EXCEPT !.name = n]
    BY <1>1 DEF RouteToMaster
  <2>2. x.name = n /\ x.hops = 0
    BY <2>1 DEF Said
  <2> QED BY <1>1, <2>2 DEF Reaches
<1>2. CASE n \notin Masters
  <2>1. NodeInv(n) /\ RouterTypes
    BY DEF RouteInv, NetInv, TypeInv, Types
  <2>2. master[n] \in DOMAIN table[n]
    <3>1. Said("ex_routing").result # "ok"
      BY DEF Said
    <3> QED BY <1>2, <3>1 DEF RouteToMaster
  <2>3. PICK s, route : s = table[n][master[n]] /\ route = Head(s)
    OBVIOUS
  <2>4. x = [result |-> "ok", name |-> route.gateway, hops |-> route.weight]
    BY <1>2, <2>2, <2>3 DEF RouteToMaster, get_route
  <2>5. route \in Elements(s)
    <3>1. s \in Seq(WeightedGateway) /\ s # <<>>
      BY <2>1, <2>2, <2>3 DEF RouterTypes, IsTable
    <3> QED BY <2>3, <3>1, HeadElement
  <2>6. route.weight = 0 /\ route.gateway \in hosts[n]
    BY <2>1, <2>2, <2>3, <2>5 DEF NodeInv, RoutesAreSound, Sound
  <2>7. hosts[n] \subseteq Elements(Peers[n])
    BY <1>2, <2>1, HostsInFile
  <2> QED BY <1>2, <2>4, <2>6, <2>7 DEF Reaches
<1> QED BY <1>1, <1>2

\* The main thread whose call is answered is the one that asked this node.
LEMMA HandlerRoute ==
  ASSUME NetInv, RouteInv, NEW n \in Node, HandleHello(n) \/ HandleReachMaster(n)
  PROVE  RouteInv'
<1> SUFFICES ASSUME NEW k \in Node PROVE NodeInv(k)'
  BY DEF RouteInv
<1>1. /\ Client(n) \in Actor /\ Uses(Client(n), n) /\ Main(k) \in Actor
      /\ answer \in [Actor -> Answer]
  BY Reader, Actors DEF HandleHello, HandleReachMaster, NetInv, TypeInv, Types, RpcTypes
<1>2. /\ table' = table /\ hosts' = hosts /\ master' = master /\ read' = read
      /\ left' = left /\ process' = process /\ call' = call /\ line' = line
  BY DEF HandleHello, HandleReachMaster, routerVars
<1>3. NodeInv(k) /\ MasterHasRoute(k)
  BY DEF RouteInv, NodeInv
<1>4. \A m \in Node : Uses(Main(k), m)' => Uses(Main(k), m)
  BY <1>2 DEF Uses
<1>5. CASE Client(n) # Main(k)
  <2>1. answer'[Main(k)] = answer[Main(k)]
    BY <1>1, <1>5 DEF HandleHello, HandleReachMaster, Replies
  <2> QED BY <1>2, <1>3, <1>4, <2>1, FrameNode DEF MasterHasRoute
<1>6. CASE Client(n) = Main(k)
  <2>1. HostsAreRead(k)' /\ RoutesAreSound(k)' /\ MasterHasRoute(k)'
    BY <1>2, <1>3 DEF NodeInv, HostsAreRead, RoutesAreSound, MasterHasRoute
  <2>2. CASE HandleHello(n)
    <3> DEFINE x == [Said("ok") EXCEPT !.name = IF n \in Masters THEN n ELSE NoNode]
    <3>1. call[Main(k)].kind = "hello" /\ answer'[Main(k)] = x
      BY <1>1, <1>6, <2>2 DEF HandleHello, Replies
    <3>2. x.name \in {NoNode, n}
      BY DEF Said
    <3> HIDE DEF x
    <3>3. n = Peers[k][read[k] + 1]
      BY <1>1, <1>3, <1>6, <3>1 DEF NodeInv, HelloIsTrue
    <3>4. HelloIsTrue(k)'
      BY <1>2, <1>3, <1>4, <3>1, <3>2, <3>3 DEF NodeInv, HelloIsTrue
    <3>5. ReachedIsTrue(k)'
      BY <1>2, <3>1 DEF ReachedIsTrue
    <3> QED BY <2>1, <3>4, <3>5 DEF NodeInv
  <2>3. CASE HandleReachMaster(n)
    <3>1. PICK x : x = RouteToMaster(n)
      OBVIOUS
    <3>2. call[Main(k)].kind = "reach_master" /\ answer'[Main(k)] = x
      BY <1>1, <1>6, <2>3, <3>1 DEF HandleReachMaster, Replies
    <3>3. n = Least(left[k])
      BY <1>1, <1>3, <1>6, <3>2 DEF NodeInv, ReachedIsTrue
    <3>4. x.result = "ok" => x.hops = 0 /\ Reaches(n, x.name)
      BY <3>1, ToldIsTrue
    <3>5. HelloIsTrue(k)'
      BY <1>2, <3>2 DEF HelloIsTrue
    <3>6. ReachedIsTrue(k)'
      BY <1>2, <1>3, <1>4, <3>2, <3>3, <3>4 DEF NodeInv, ReachedIsTrue
    <3> QED BY <2>1, <3>5, <3>6 DEF NodeInv
  <2> QED BY <2>2, <2>3
<1> QED BY <1>5, <1>6

\* Requests go between the servers and the senders: the main threads, which
\* send none, get none of the answers.
Passes(n) ==
  \/ Refuse(n) \/ Do(n) \/ ForwardReturns(n)
  \/ IsRequest(n) /\ RoutingFails(n)
  \/ IsRequest(n) /\ \E g \in Node : GatewayFails(n, g) \/ PassesOn(n, g)

MainsAlone(a) ==
  \A k \in Node : /\ Main(k) \in Actor \ {a}
                  /\ call'[Main(k)] = call[Main(k)]
                  /\ answer'[Main(k)] = answer[Main(k)]

LEMMA PassesMains ==
  ASSUME NetInv, NEW n \in Node, Passes(n)
  PROVE  MainsAlone(Server(n))
<1>1. RpcTypes /\ TypeInv /\ WireInv /\ Server(n) \in Actor
  BY Actors DEF NetInv, TypeInv, Types
<1>2. CASE ~ForwardReturns(n)
  <2>1. Client(n) \in Actor /\ IsRequest(n)
    BY <1>1, <1>2, ReaderIsLeaf DEF Passes, Refuse, Do, NetInv
  <2>2. \A k \in Node : Main(k) # Client(n) /\ Main(k) # Server(n) /\ Main(k) \in Actor
    <3>1. call[Client(n)].kind \in RequestKind
      BY <2>1 DEF IsRequest, Asked
    <3> QED BY <1>1, <2>1, <3>1, MainAsksNothing, Actors
  <2>3. \A k \in Node : call'[Main(k)] = call[Main(k)]
    BY <1>1, <1>2, <2>2
       DEF Passes, Refuse, Do, RoutingFails, GatewayFails, PassesOn, Sends, RpcTypes
  <2>4. \A k \in Node : answer'[Main(k)] = answer[Main(k)]
    BY <1>1, <1>2, <2>2
       DEF Passes, Refuse, Do, RoutingFails, GatewayFails, PassesOn, Replies, RpcTypes
  <2> QED BY <2>2, <2>3, <2>4 DEF MainsAlone
<1>3. CASE ForwardReturns(n)
  <2>1. \A k \in Node : Main(k) # serves[n] /\ Main(k) # Server(n) /\ Main(k) \in Actor
    <3>1. serves[n] = NoActor \/ call[serves[n]].kind \in RequestKind
      BY <1>1 DEF WireInv, PassedOn, Waits
    <3> QED BY <1>1, <3>1, MainAsksNothing, Actors
  <2>2. \A k \in Node : call'[Main(k)] = call[Main(k)]
    BY <1>1, <1>3, <2>1 DEF ForwardReturns, RpcTypes
  <2>3. \A k \in Node : answer'[Main(k)] = answer[Main(k)]
    BY <1>1, <1>3, <2>1 DEF ForwardReturns, RpcTypes
  <2> QED BY <2>1, <2>2, <2>3 DEF MainsAlone
<1> QED BY <1>2, <1>3

LEMMA OutsideMains ==
  ASSUME NetInv, NEW u \in User, Ask(u) \/ IsTold(u)
  PROVE  MainsAlone(Outside(u))
<1>1. /\ RpcTypes /\ Outside(u) \in Actor
      /\ \A k \in Node : Main(k) # Outside(u) /\ Main(k) \in Actor
  BY Actors DEF NetInv, TypeInv, Types
<1>2. \A k \in Node : call'[Main(k)] = call[Main(k)]
  BY <1>1 DEF Ask, IsTold, Sends, Returned, RpcTypes
<1>3. \A k \in Node : answer'[Main(k)] = answer[Main(k)]
  BY <1>1 DEF Ask, IsTold, Returned, RpcTypes
<1> QED BY <1>1, <1>2, <1>3 DEF MainsAlone

\* A step of thread a that leaves the routers and the main threads alone.
LEMMA AloneRoute ==
  ASSUME NetInv, RouteInv, NEW a \in Actor, MainsAlone(a),
         routerVars' = routerVars, process' = process,
         \/ line' = line \/ line' = Closed(a)
         \/ \E g \in Node : line' = Opened(a, g)
  PROVE  RouteInv'
<1>1. \A k, m \in Node : Uses(Main(k), m)' => Uses(Main(k), m)
  <2>1. CASE line' = line
    BY <2>1 DEF Uses
  <2>2. CASE line' = Closed(a)
    BY <2>2, ClosedUses DEF MainsAlone, NetInv, TypeInv, Types, RpcTypes
  <2>3. ASSUME NEW g \in Node, line' = Opened(a, g)
        PROVE  \A k, m \in Node : Uses(Main(k), m)' => Uses(Main(k), m)
    BY <2>3, OpenedUses DEF MainsAlone, NetInv, TypeInv, Types, RpcTypes
  <2> QED BY <2>1, <2>2, <2>3
<1> QED BY <1>1, FrameRoute DEF MainsAlone

LEMMA PassesRoute ==
  ASSUME NetInv, RouteInv, NEW n \in Node, Passes(n)
  PROVE  RouteInv'
<1>1. Server(n) \in Actor /\ MainsAlone(Server(n))
  BY PassesMains, Actors
<1>2. routerVars' = routerVars /\ process' = process
  BY DEF Passes, Refuse, Do, ForwardReturns, RoutingFails, GatewayFails, PassesOn
<1>3. \/ line' = line \/ line' = Closed(Server(n))
      \/ \E g \in Node : line' = Opened(Server(n), g)
  BY DEF Passes, Refuse, Do, ForwardReturns, RoutingFails, GatewayFails, PassesOn, Sends
<1> QED BY <1>1, <1>2, <1>3, AloneRoute

LEMMA OutsideRoute ==
  ASSUME NetInv, RouteInv, NEW u \in User, Ask(u) \/ IsTold(u)
  PROVE  RouteInv'
<1>1. Outside(u) \in Actor /\ MainsAlone(Outside(u))
  BY OutsideMains, Actors
<1>2. routerVars' = routerVars /\ process' = process
  BY DEF Ask, IsTold
<1>3. \/ line' = Closed(Outside(u)) \/ \E g \in Node : line' = Opened(Outside(u), g)
  BY DEF Ask, IsTold, Sends
<1> QED BY <1>1, <1>2, <1>3, AloneRoute

\* What a step of a server is.
LEMMA ServerIs ==
  ASSUME NetInv, NEW n \in Node, ServerStep(n)
  PROVE  HandleHello(n) \/ HandleReachMaster(n) \/ Dies(n) \/ Passes(n)
<1>1. CASE Forward(n)
  <2>1. /\ IsRequest(n)
        /\ \/ Dies(n) \/ RoutingFails(n)
           \/ \E g \in Node : GatewayFails(n, g) \/ PassesOn(n, g)
    BY <1>1, ForwardIs DEF NetInv, TypeInv, Types, Crashes
  <2> QED BY <2>1 DEF Passes
<1> QED BY <1>1 DEF ServerStep, Passes

LEMMA StepRoute ==
  ASSUME NetInv, RouteInv, [Next]_vars
  PROVE  RouteInv'
<1>1. CASE UNCHANGED vars
  BY <1>1, FrameRoute DEF vars, routerVars, rpcVars, Uses
<1>2. ASSUME NEW n \in Node, Start(n) \/ MainStep(n) PROVE RouteInv'
  BY <1>2, StartRoute, SayHelloRoute, HelloReturnsRoute, ReachMasterRoute,
     ReachReturnsRoute DEF MainStep
<1>3. ASSUME NEW n \in Node, ServerStep(n) PROVE RouteInv'
  BY <1>3, ServerIs, HandlerRoute, DiesRoute, PassesRoute
<1>4. ASSUME NEW n \in Node, Kill(n) PROVE RouteInv'
  BY <1>4, DiesRoute DEF Kill
<1>5. ASSUME NEW u \in User, Ask(u) \/ IsTold(u) PROVE RouteInv'
  BY <1>5, OutsideRoute
<1> QED BY <1>1, <1>2, <1>3, <1>4, <1>5 DEF Next

LEMMA RouteInvariant == Spec => [](NetInv /\ RouteInv)
<1>1. Init => NetInv /\ RouteInv
  BY InitNet, InitRoute
<1>2. (NetInv /\ RouteInv) /\ [Next]_vars => (NetInv /\ RouteInv)'
  BY StepNet, StepRoute
<1> QED BY <1>1, <1>2, PTL DEF Spec

-----------------------------------------------------------------------------
(***************************************************************************)
(* Routes lead.                                                            *)
(***************************************************************************)
LEMMA EnoughNodes ==
  /\ Cardinality(Node) \in Nat
  /\ \A a \in Node : 1 <= Cardinality(Node)
  /\ \A a, b \in Node : a # b => 2 <= Cardinality(Node)
  /\ \A a, b, c \in Node : a # b /\ a # c /\ b # c => 3 <= Cardinality(Node)
<1>1. Cardinality(Node) \in Nat
  BY RouterAssumption, FS_CardinalityType
<1>2. ASSUME NEW a \in Node, NEW b \in Node, NEW c \in Node
      PROVE  /\ 1 <= Cardinality(Node)
             /\ a # b => 2 <= Cardinality(Node)
             /\ a # b /\ a # c /\ b # c => 3 <= Cardinality(Node)
  <2>1. IsFiniteSet({a}) /\ Cardinality({a}) = 1
    BY FS_Singleton
  <2>2. /\ IsFiniteSet({a} \cup {b})
        /\ a # b => Cardinality({a} \cup {b}) = 2
    BY <2>1, FS_AddElement
  <2> DEFINE two == {a} \cup {b}
  <2>3. c \notin two \/ c = a \/ c = b
    OBVIOUS
  <2>4. two \subseteq Node
    OBVIOUS
  <2> HIDE DEF two
  <2>5. /\ IsFiniteSet(two \cup {c})
        /\ c \notin two => Cardinality(two \cup {c}) = Cardinality(two) + 1
    BY <2>2, FS_AddElement DEF two
  <2>6. Cardinality({a}) <= Cardinality(Node)
    BY RouterAssumption, FS_Subset
  <2>7. Cardinality(two) <= Cardinality(Node)
    BY <2>4, RouterAssumption, FS_Subset
  <2>8. Cardinality(two \cup {c}) <= Cardinality(Node)
    <3>1. two \cup {c} \subseteq Node
      BY <2>4
    <3> QED BY <3>1, RouterAssumption, FS_Subset
  <2>9. a # b => Cardinality(two) = 2
    BY <2>2 DEF two
  <2> QED BY <1>1, <2>1, <2>3, <2>5, <2>6, <2>7, <2>8, <2>9
<1> QED BY <1>1, <1>2

\* Nothing to do at n itself, or at a node that does not serve.
LEMMA LeadsHere ==
  ASSUME NEW n \in Node, NEW d \in Node, n = d \/ process[n] # "serving"
  PROVE  Leads(n, d)
<1> DEFINE p == [i \in 1 .. 1 |-> n]
<1>1. 1 \in 1 .. Cardinality(Node)
  BY EnoughNodes
<1>2. p \in [1 .. 1 -> Node] /\ p[1] = n
  OBVIOUS
<1>3. /\ \A i, j \in 1 .. 1 : p[i] = p[j] => i = j
      /\ \A i \in 1 .. 1 - 1 : FALSE
  OBVIOUS
<1> HIDE DEF p
<1> QED BY <1>1, <1>2, <1>3 DEF Leads

\* One hop to a direct peer.
LEMMA LeadsByOne ==
  ASSUME NEW n \in Node, NEW d \in Node, NEW g \in Node, n # g,
         d \in DOMAIN table[n], g = get_gateway(table[n], d), g \in hosts[n],
         g = d \/ process[g] # "serving"
  PROVE  Leads(n, d)
<1> DEFINE p == [i \in 1 .. 2 |-> IF i = 1 THEN n ELSE g]
<1>1. 2 \in 1 .. Cardinality(Node)
  BY EnoughNodes
<1>2. p \in [1 .. 2 -> Node] /\ p[1] = n /\ p[2] = g
  OBVIOUS
<1>3. /\ \A i \in 1 .. 2 : i = 1 \/ i = 2
      /\ \A i \in 1 .. 2 - 1 : i = 1 /\ i + 1 = 2
  OBVIOUS
<1> HIDE DEF p
<1>4. \A i, j \in 1 .. 2 : p[i] = p[j] => i = j
  BY <1>2, <1>3
<1>5. \A i \in 1 .. 2 - 1 :
        /\ d \in DOMAIN table[p[i]] /\ p[i + 1] = get_gateway(table[p[i]], d)
        /\ p[i + 1] \in hosts[p[i]]
  BY <1>2, <1>3
<1> QED BY <1>1, <1>2, <1>4, <1>5 DEF Leads

\* Two hops.
LEMMA LeadsByTwo ==
  ASSUME NEW n \in Node, NEW d \in Node, NEW g \in Node, n # g, n # d, g # d,
         d \in DOMAIN table[n], g = get_gateway(table[n], d), g \in hosts[n],
         d \in DOMAIN table[g], d = get_gateway(table[g], d), d \in hosts[g]
  PROVE  Leads(n, d)
<1> DEFINE p == [i \in 1 .. 3 |-> IF i = 1 THEN n ELSE IF i = 2 THEN g ELSE d]
<1>1. 3 \in 1 .. Cardinality(Node)
  BY EnoughNodes
<1>2. p \in [1 .. 3 -> Node] /\ p[1] = n /\ p[2] = g /\ p[3] = d
  OBVIOUS
<1>3. /\ \A i \in 1 .. 3 : i = 1 \/ i = 2 \/ i = 3
      /\ \A i \in 1 .. 3 - 1 : (i = 1 /\ i + 1 = 2) \/ (i = 2 /\ i + 1 = 3)
  OBVIOUS
<1> HIDE DEF p
<1>4. \A i, j \in 1 .. 3 : p[i] = p[j] => i = j
  BY <1>2, <1>3
<1>5. \A i \in 1 .. 3 - 1 :
        /\ d \in DOMAIN table[p[i]] /\ p[i + 1] = get_gateway(table[p[i]], d)
        /\ p[i + 1] \in hosts[p[i]]
  BY <1>2, <1>3
<1> QED BY <1>1, <1>2, <1>4, <1>5 DEF Leads

\* A node has routes only to destinations that its gateways, and theirs, lead
\* to, whenever and from whatever the others build and lose their tables: a
\* request never goes round (router.cpp, update_peers_list and reach_master).
THEOREM RoutesAlwaysLead == Spec => []RoutesLead
<1>1. NetInv /\ RouteInv => RoutesLead
  <2> SUFFICES ASSUME NetInv, RouteInv, NEW d \in Node, NEW n \in Node,
                      d \in DOMAIN table[n]
               PROVE  Leads(n, d)
    BY DEF RoutesLead
  <2>1. PICK g : g = get_gateway(table[n], d)
    OBVIOUS
  <2>2. g \in hosts[n] /\ g \in Node /\ Reaches(g, d)
    <3>1. PICK s, x : s = table[n][d] /\ x = Head(s)
      OBVIOUS
    <3>2. x \in Elements(s) /\ g = x.gateway
      <4>1. s \in Seq(WeightedGateway) /\ s # <<>>
        BY <3>1 DEF NetInv, TypeInv, Types, RouterTypes, IsTable
      <4> QED BY <2>1, <3>1, <4>1, HeadElement DEF get_gateway
    <3>3. x.gateway \in hosts[n] /\ Reaches(x.gateway, d)
      BY <3>1, <3>2 DEF RouteInv, NodeInv, RoutesAreSound, Sound
    <3> QED BY <3>2, <3>3 DEF NetInv, TypeInv, Types, RouterTypes
  <2>3. CASE n = d \/ process[n] # "serving"
    BY <2>3, LeadsHere
  <2>4. CASE n # d /\ process[n] = "serving"
    <3>1. ASSUME NEW m \in Node, m \notin Masters, process[m] = "serving",
                 d \in Elements(Peers[m])
          PROVE  d \in hosts[m] /\ d \in DOMAIN table[m] /\ get_gateway(table[m], d) = d
      <4>1. /\ read[m] = Len(Peers[m]) /\ hosts[m] = {Peers[m][i] : i \in 1 .. read[m]}
            /\ Direct(table[m], hosts[m])
        BY <3>1 DEF RouteInv, NodeInv, MasterHasRoute, HostsAreRead, RoutesAreSound
      <4>2. DOMAIN Peers[m] = 1 .. Len(Peers[m])
        BY <3>1, NetworkAssumption
      <4>3. d \in hosts[m]
        BY <3>1, <4>1, <4>2 DEF Elements
      <4> QED BY <4>1, <4>3 DEF Direct
    <3>2. g # n
      <4>1. ASSUME g = n PROVE FALSE
        <5>1. n \notin Masters /\ d \in Elements(Peers[n])
          BY <2>2, <2>4, <4>1 DEF Reaches
        <5>2. g = d
          BY <2>1, <2>4, <3>1, <5>1
        <5> QED BY <2>4, <4>1, <5>2
      <4> QED BY <4>1
    <3>3. CASE g = d \/ process[g] # "serving"
      BY <2>1, <2>2, <3>2, <3>3, LeadsByOne
    <3>4. CASE g # d /\ process[g] = "serving"
      <4>1. g \notin Masters /\ d \in Elements(Peers[g])
        BY <2>2, <3>4 DEF Reaches
      <4>2. d \in hosts[g] /\ d \in DOMAIN table[g] /\ get_gateway(table[g], d) = d
        BY <2>2, <3>1, <3>4, <4>1
      <4> QED BY <2>1, <2>2, <2>4, <3>2, <3>4, <4>2, LeadsByTwo
    <3> QED BY <3>3, <3>4
  <2> QED BY <2>3, <2>4
<1> QED BY <1>1, RouteInvariant, PTL

\* A client that serves has learnt a master and has a route to it: its own
\* reach_master handler never throws (rpc_server.cpp, client.cpp).
THEOREM ServingNodesKnowMaster == Spec => []ServingKnowsMaster
<1>1. NetInv /\ RouteInv => ServingKnowsMaster
  BY DEF RouteInv, NodeInv, MasterHasRoute, ServingKnowsMaster
<1> QED BY <1>1, RouteInvariant, PTL

-----------------------------------------------------------------------------
(***************************************************************************)
(* The name of the master.  reach_master gives that of the gateway, which  *)
(* is the master when the node that answers knows masters only: further    *)
(* away the name is wrong (run master_name).                               *)
(***************************************************************************)
\* A peer of a client is a master, or a client that knows masters only.
Shallow ==
  \A n \in Node \ Masters : \A p \in Elements(Peers[n]) :
    p \in Masters \/ Elements(Peers[p]) \subseteq Masters

\* The name a call for the master got.
Named(n) ==
  \/ answer[Main(n)].name = NoNode
  \/ call[Main(n)].kind = "reach_master" /\ answer[Main(n)].result # "ok"
  \/ answer[Main(n)].name \in Masters

NamedInv ==
  \A n \in Node :
    /\ master[n] # NoNode => master[n] \in Masters
    /\ call[Main(n)].kind \in {"hello", "reach_master"} => Named(n)

\* The answers to the main threads but for the two handlers that name a
\* master: none, or that of a broken connection.
LEMMA FrameNamed ==
  ASSUME NamedInv, master' = master,
         \A k \in Node :
           \/ call'[Main(k)] = call[Main(k)] /\ answer'[Main(k)] = answer[Main(k)]
           \/ call'[Main(k)] = NoCall
           \/ answer'[Main(k)].name = NoNode
  PROVE  NamedInv'
<1>1. NoCall.kind = "none"
  BY DEF NoCall
<1> SUFFICES ASSUME NEW k \in Node, call'[Main(k)].kind \in {"hello", "reach_master"}
             PROVE  Named(k)'
  BY DEF NamedInv
<1> QED BY <1>1 DEF NamedInv, Named

LEMMA DiesNamed ==
  ASSUME NetInv, NamedInv, NEW n \in Node, Dies(n)
  PROVE  NamedInv'
<1>1. NoCall.kind = "none" /\ Said("broken").name = NoNode
  BY DEF NoCall, Said
<1> SUFFICES ASSUME NEW k \in Node
             PROVE  /\ master'[k] # NoNode => master'[k] \in Masters
                    /\ call'[Main(k)].kind \in {"hello", "reach_master"} => Named(k)'
  BY DEF NamedInv
<1>2. master'[k] # NoNode => master'[k] \in Masters
  BY DEF Dies, NamedInv, NetInv, TypeInv, Types, RouterTypes
<1>3. Main(k) \in Actor
  BY Actors
<1>4. \/ call'[Main(k)] = NoCall
      \/ /\ call'[Main(k)] = call[Main(k)]
         /\ answer'[Main(k)] \in {answer[Main(k)], Said("broken")}
  BY <1>3 DEF Dies
<1> QED BY <1>1, <1>2, <1>4 DEF NamedInv, Named

LEMMA HandlerNamed ==
  ASSUME Shallow, NetInv, RouteInv, NamedInv,
         NEW n \in Node, HandleHello(n) \/ HandleReachMaster(n)
  PROVE  NamedInv'
<1>1. /\ Client(n) \in Actor /\ Uses(Client(n), n) /\ answer \in [Actor -> Answer]
      /\ master' = master /\ call' = call
  BY Reader
     DEF HandleHello, HandleReachMaster, routerVars, NetInv, TypeInv, Types, RpcTypes
<1> SUFFICES ASSUME NEW k \in Node, call[Main(k)].kind \in {"hello", "reach_master"}
             PROVE  Named(k)'
  BY <1>1 DEF NamedInv
<1>2. Named(k) /\ Main(k) \in Actor
  BY Actors DEF NamedInv
<1>3. CASE Client(n) # Main(k)
  <2>1. answer'[Main(k)] = answer[Main(k)]
    BY <1>1, <1>2, <1>3 DEF HandleHello, HandleReachMaster, Replies
  <2> QED BY <1>1, <1>2, <2>1 DEF Named
<1>4. CASE Client(n) = Main(k) /\ HandleHello(n)
  <2> DEFINE x == [Said("ok") EXCEPT !.name = IF n \in Masters THEN n ELSE NoNode]
  <2>1. answer'[Main(k)] = x
    BY <1>1, <1>2, <1>4 DEF HandleHello, Replies
  <2>2. x.name \in Masters \/ x.name = NoNode
    BY DEF Said
  <2> HIDE DEF x
  <2> QED BY <2>1, <2>2 DEF Named
<1>5. CASE Client(n) = Main(k) /\ HandleReachMaster(n)
  <2>1. PICK x : x = RouteToMaster(n)
    OBVIOUS
  <2>2. call[Main(k)].kind = "reach_master" /\ answer'[Main(k)] = x
    BY <1>1, <1>2, <1>5, <2>1 DEF HandleReachMaster, Replies
  <2>3. CASE x.result # "ok"
    BY <1>1, <2>2, <2>3 DEF Named
  <2>4. CASE x.result = "ok"
    <3>1. NodeInv(k) /\ RouterTypes
      BY DEF RouteInv, NetInv, TypeInv, Types
    <3>2. k \in Node \ Masters /\ left[k] # {} /\ left[k] \subseteq Node
      <4>1. NoCall.kind # "reach_master"
        BY DEF NoCall
      <4> QED BY <2>2, <4>1
              DEF NetInv, TypeInv, Types, RouterTypes, ClientsDiscover, Discovering
    <3>3. n \in left[k]
      <4>1. n = Least(left[k])
        BY <1>1, <1>5, <2>2, <3>1 DEF NodeInv, ReachedIsTrue
      <4> QED BY <3>2, <4>1, LeastIn
    <3>4. n \in Elements(Peers[k])
      BY <3>1, <3>2, <3>3, HostsInFile DEF NodeInv, HostsAreRead
    <3>5. n \in Masters \/ Elements(Peers[n]) \subseteq Masters
      BY <3>2, <3>4 DEF Shallow
    <3>6. IF n \in Masters THEN x.name = n ELSE x.name \in Elements(Peers[n])
      BY <2>1, <2>4, ToldIsTrue
    <3>7. x.name \in Masters
      BY <3>5, <3>6
    <3> QED BY <2>2, <3>7 DEF Named
  <2> QED BY <2>3, <2>4
<1> QED BY <1>3, <1>4, <1>5

LEMMA MainNamed ==
  ASSUME NetInv, NamedInv, NEW n \in Node, MainStep(n)
  PROVE  NamedInv'
<1>1. /\ Main(n) \in Actor /\ RpcTypes /\ RouterTypes
      /\ \A k \in Node : Main(k) \in Actor /\ (k # n => Main(k) # Main(n))
  BY Actors DEF NetInv, TypeInv, Types
<1>2. NoAnswer.name = NoNode
  BY DEF NoAnswer, Said
<1>3. CASE SayHello(n) \/ (ReachMaster(n) /\ ~Dies(n)) \/ Serve(n)
  <2>1. answer' = answer
    BY <1>3 DEF SayHello, ReachMaster, Serve, rpcVars
  <2>2. CASE call' = call /\ master' = master
    BY <2>1, <2>2, FrameNamed
  <2>3. CASE SayHello(n) /\ call' = call /\ master' # master
    <3>1. \E peer : Listed(n, peer, NoNode)
      BY <2>3 DEF SayHello, routerVars
    <3>2. master' = master
      BY <1>1, <3>1 DEF Listed, set_master_node, RouterTypes
    <3> QED BY <2>3, <3>2
  <2>4. CASE call' # call
    <3>1. \E c : call' = [call EXCEPT ![Main(n)] = c]
      BY <1>3, <2>4 DEF SayHello, ReachMaster, Serve, Sends, rpcVars
    <3>2. call[Main(n)] = NoCall /\ master' = master
      BY <1>3, <2>4 DEF SayHello, ReachMaster, Serve, Discovers, routerVars, rpcVars
    <3>3. answer'[Main(n)] = NoAnswer
      BY <1>1, <2>1, <3>2 DEF NetInv, WireInv, CallsAreSent
    <3>4. \A k \in Node \ {n} : call'[Main(k)] = call[Main(k)]
      BY <1>1, <3>1 DEF RpcTypes
    <3> QED BY <1>2, <2>1, <3>2, <3>3, <3>4, FrameNamed
  <2>5. SayHello(n) \/ master' = master
    BY <1>3 DEF ReachMaster, Serve, routerVars
  <2> QED BY <2>2, <2>3, <2>4, <2>5
<1>4. ASSUME Returned(Main(n)), NEW name, Named(n), name = answer[Main(n)].name,
             call[Main(n)].kind \in {"hello", "reach_master"},
             call[Main(n)].kind = "reach_master" => answer[Main(n)].result = "ok",
             master' = master \/ master' = [master EXCEPT ![n] = set_master_node(@, name)]
      PROVE  NamedInv'
  <2>1. name = NoNode \/ name \in Masters
    BY <1>4 DEF Named
  <2>2. /\ call'[Main(n)] = NoCall
        /\ \A k \in Node \ {n} : /\ call'[Main(k)] = call[Main(k)]
                                 /\ answer'[Main(k)] = answer[Main(k)]
    BY <1>1, <1>4, ReturnedTypes DEF NetInv, TypeInv, Types
  <2>3. NoCall.kind = "none"
    BY DEF NoCall
  <2>4. \A k \in Node : master'[k] # NoNode => master'[k] \in Masters
    BY <1>1, <1>4, <2>1 DEF NamedInv, RouterTypes, set_master_node
  <2> QED BY <2>2, <2>3, <2>4 DEF NamedInv, Named
<1>5. CASE HelloReturns(n)
  <2>1. PICK name : name = answer[Main(n)].name
    OBVIOUS
  <2>2. /\ Returned(Main(n)) /\ call[Main(n)].kind = "hello" /\ Named(n)
        /\ master' = [master EXCEPT ![n] = set_master_node(@, name)]
    BY <1>5, <2>1 DEF HelloReturns, Listed, NamedInv
  <2> QED BY <1>4, <2>1, <2>2
<1>6. CASE ReachReturns(n) /\ ~Dies(n)
  <2>1. PICK name : name = answer[Main(n)].name
    OBVIOUS
  <2>2. /\ Returned(Main(n)) /\ call[Main(n)].kind = "reach_master" /\ Named(n)
        /\ answer[Main(n)].result = "ok"
        /\ \/ master' = master
           \/ master' = [master EXCEPT ![n] = set_master_node(@, name)]
    BY <1>6, <2>1 DEF ReachReturns, NamedInv
  <2> QED BY <1>4, <2>1, <2>2
<1> QED BY <1>3, <1>5, <1>6, DiesNamed DEF MainStep

LEMMA StepNamed ==
  ASSUME Shallow, NetInv, RouteInv, NamedInv, [Next]_vars
  PROVE  NamedInv'
<1>1. CASE UNCHANGED vars
  BY <1>1, FrameNamed DEF vars, routerVars, rpcVars
<1>2. ASSUME NEW n \in Node, Start(n) PROVE NamedInv'
  BY <1>2, FrameNamed DEF Start, routerVars, rpcVars
<1>3. ASSUME NEW n \in Node, Kill(n) PROVE NamedInv'
  BY <1>3, DiesNamed DEF Kill
<1>4. ASSUME NEW n \in Node, ServerStep(n) PROVE NamedInv'
  <2>1. CASE HandleHello(n) \/ HandleReachMaster(n)
    BY <2>1, HandlerNamed
  <2>2. CASE Dies(n)
    BY <2>2, DiesNamed
  <2>3. CASE Passes(n)
    <3>1. master' = master
      BY <2>3
         DEF Passes, Refuse, Do, ForwardReturns, RoutingFails, GatewayFails, PassesOn,
             routerVars
    <3> QED BY <2>3, <3>1, PassesMains, FrameNamed DEF MainsAlone
  <2> QED BY <1>4, <2>1, <2>2, <2>3, ServerIs
<1>5. ASSUME NEW u \in User, Ask(u) \/ IsTold(u) PROVE NamedInv'
  <2>1. master' = master
    BY <1>5 DEF Ask, IsTold, routerVars
  <2> QED BY <1>5, <2>1, OutsideMains, FrameNamed DEF MainsAlone
<1> QED BY <1>1, <1>2, <1>3, <1>4, <1>5, MainNamed DEF Next

\* When the peers of each client are masters or clients that know masters only,
\* the name a router has for the master's is that of a master, whoever answered
\* and whoever is gone since (router.cpp, reach_master; rpc_server.cpp,
\* reach_master).
THEOREM NearMasterIsMaster ==
  ASSUME Shallow
  PROVE  Spec => []MasterIsMaster
<1>1. Init => NamedInv
  <2>1. NoCall.kind = "none"
    BY DEF NoCall
  <2> QED BY <2>1, Actors DEF Init, NamedInv
<1>2. NetInv /\ RouteInv /\ NamedInv /\ [Next]_vars => NamedInv'
  BY StepNamed
<1>3. NamedInv => MasterIsMaster
  BY DEF NamedInv, MasterIsMaster
<1> QED BY <1>1, <1>2, <1>3, RouteInvariant, PTL DEF Spec
=============================================================================
