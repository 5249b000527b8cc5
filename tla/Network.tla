------------------------------ MODULE Network ------------------------------
(***************************************************************************)
(* The nodes of a domain talk to each other: the discovery of the peers    *)
(* and of the master by the client program, the RPC handlers that do a     *)
(* request or forward it, and the connections they use.                    *)
(*                                                                         *)
(* A server has one thread (TSimpleServer), which stays with a connection  *)
(* until its other end closes it: line[n] holds the connections accepted   *)
(* or waiting at n, and only the first is served.  Rpc_Client::open makes  *)
(* a connection without closing the one before, and most callers never     *)
(* close: a connection nobody uses any more stays in the line until its    *)
(* process dies.                                                           *)
(***************************************************************************)
EXTENDS Router

CONSTANTS
  Masters,      \* nodes with is_master = yes, which run the master program
  Peers,        \* Peers[n]: the hosts of the peers_keys file of a client
  Modes,        \* running modes a domain may have; p2p handlers do nothing
  User,         \* processes outside the domain that send requests
  Requests,     \* the requests they send
  MaxRequests,  \* bound: requests sent
  MaxKills      \* bound: processes killed from outside

\* The threads that hold an Rpc_Client.
Main(n) == <<"main", n>>
Server(n) == <<"server", n>>
Outside(u) == <<"user", u>>
Own(n) == {Main(n), Server(n)}
Actor == (UNION {Own(n) : n \in Node}) \cup {Outside(u) : u \in User}
NoActor == <<"none", NoNode>>

\* "planning" is get_current_planning_name, get_available_planning_names and
\* get_planning; "get_node" also get_nodes; "get_jobs" also get_ready_jobs;
\* "monitor" monitor_failed_jobs and monitor_waiting_jobs.
RequestKind == {"planning", "add_node", "remove_node", "get_node", "get_jobs",
                "get_job", "add_job", "update_job", "remove_job",
                "update_job_state", "monitor"}

\* calling is routing.calling_node, target routing.target_node or the node of
\* the job, whichever the handler compares with its own name; filled, whether
\* the node or the job has the attributes the handler looks at.
Request == [kind : RequestKind, calling : Node \cup {NoNode},
            target : Node \cup {NoNode}, filled : BOOLEAN, id : Nat]
Call == Request \cup [kind : {"hello", "reach_master"}]
NoCall == [kind |-> "none"]

\* "broken": an exception of the transport, or the one Thrift puts in the place
\* of an exception the call does not declare.
Answer == [result : {"none", "ok", "ex_routing", "ex_job", "ex_node",
                     "ex_processing", "broken"},
           name : Node \cup {NoNode}, hops : Nat]
Said(result) == [result |-> result, name |-> NoNode, hops |-> 0]
NoAnswer == Said("none")

Connection == [who : Actor, used : BOOLEAN]

ASSUME NetworkAssumption ==
  /\ Masters \subseteq Node
  /\ \A n \in Node \ Masters : Peers[n] \in Seq(Node) /\ Peers[n] # <<>>
  /\ Modes \subseteq [Node -> {"active", "passive"}]
  /\ Requests \subseteq Request
  /\ {MaxRequests, MaxKills} \subseteq Nat

VARIABLES
  mode,     \* running_mode in each configuration file
  process,  \* what each node does: down, discovering or serving
  table,    \* routing_table
  hosts,    \* the names in hosts_keys
  master,   \* Router::master_node
  read,     \* lines of the peers_keys file that have been read
  left,     \* peers reach_master has not asked yet
  line,     \* connections of each server, in the order it accepts them
  call,     \* the call each thread waits for
  answer,   \* what it got
  serves,   \* for whom each server's thread waits for an answer
  kills,    \* bounded counter
  sent,     \* history: the requests
  done,     \* history: the nodes each was done at
  told      \* history: what its sender was told

routerVars == <<table, hosts, master, read, left>>
rpcVars == <<line, call, answer, serves>>
historyVars == <<sent, done, told>>
vars == <<mode, process, routerVars, rpcVars, kills, historyVars>>

Init ==
  /\ mode \in Modes
  /\ process = [n \in Node |-> "down"]
  /\ table = [n \in Node |-> NoRoutes]
  /\ hosts = [n \in Node |-> {}]
  /\ master = [n \in Node |-> NoNode]
  /\ read = [n \in Node |-> 0]
  /\ left = [n \in Node |-> {}]
  /\ line = [n \in Node |-> <<>>]
  /\ call = [a \in Actor |-> NoCall]
  /\ answer = [a \in Actor |-> NoAnswer]
  /\ serves = [n \in Node |-> NoActor]
  /\ kills = 0 /\ sent = <<>> /\ done = <<>> /\ told = <<>>

-----------------------------------------------------------------------------
(***************************************************************************)
(* Rpc_Client                                                              *)
(***************************************************************************)
\* The handler of a's previous connection is overwritten, not deleted.
Abandoned(a) ==
  [n \in Node |-> [i \in DOMAIN line[n] |->
     IF line[n][i].who = a THEN [who |-> a, used |-> FALSE] ELSE line[n][i]]]

\* A node that is not serving refuses: open returns false, and the call that
\* follows throws.
Opened(a, n) ==
  IF process[n] = "serving"
  THEN [Abandoned(a) EXCEPT ![n] = Append(@, [who |-> a, used |-> TRUE])]
  ELSE Abandoned(a)

Closed(a) ==
  [n \in Node |-> Kept(line[n], Connection \ {[who |-> a, used |-> TRUE]})]

Sends(a, n, c) ==
  /\ line' = Opened(a, n)
  /\ call' = [call EXCEPT ![a] = c]

Answered(a) == call[a] # NoCall /\ answer[a] # NoAnswer

Returned(a) ==
  /\ call' = [call EXCEPT ![a] = NoCall]
  /\ answer' = [answer EXCEPT ![a] = NoAnswer]

\* The end of n's process closes its connections and forgets its router; who
\* was waiting for it gets an exception of the transport.
Dies(n) ==
  LET cut == {a \in Actor : /\ [who |-> a, used |-> TRUE] \in Elements(line[n])
                            /\ call[a] # NoCall /\ answer[a] = NoAnswer}
  IN /\ process' = [process EXCEPT ![n] = "down"]
     /\ table' = [table EXCEPT ![n] = NoRoutes]
     /\ hosts' = [hosts EXCEPT ![n] = {}]
     /\ master' = [master EXCEPT ![n] = NoNode]
     /\ read' = [read EXCEPT ![n] = 0]
     /\ left' = [left EXCEPT ![n] = {}]
     /\ line' = [m \in Node |-> IF m = n THEN <<>> ELSE
                   Kept(line[m], {c \in Connection : c.who \notin Own(n)})]
     /\ call' = [a \in Actor |-> IF a \in Own(n) THEN NoCall ELSE call[a]]
     /\ answer' = [a \in Actor |->
                     IF a \in Own(n) THEN NoAnswer
                     ELSE IF a \in cut THEN Said("broken") ELSE answer[a]]
     /\ serves' = [m \in Node |-> IF m = n \/ serves[m] \in Own(n)
                                  THEN NoActor ELSE serves[m]]
     /\ UNCHANGED <<mode, historyVars>>

-----------------------------------------------------------------------------
(***************************************************************************)
(* The client program before it serves: update_peers_list, reach_master.   *)
(***************************************************************************)
Start(n) ==
  /\ process[n] = "down"
  /\ process' = [process EXCEPT ![n] =
                   IF n \in Masters THEN "serving" ELSE "discovering"]
  /\ UNCHANGED <<mode, routerVars, rpcVars, kills, historyVars>>

\* The rest of an iteration of update_peers_list, whether hello succeeded or
\* threw; found is the name hello_result gives a master.  (hello_result is
\* shared by the iterations, but once it says is_master the master is set.)
Listed(n, peer, found) ==
  /\ hosts' = [hosts EXCEPT ![n] = @ \cup {peer}]
  /\ table' = [table EXCEPT ![n] = insert_route(@, peer, peer, 0)]
  /\ master' = [master EXCEPT ![n] = set_master_node(@, found)]
  /\ read' = [read EXCEPT ![n] = @ + 1]
  /\ left' = [left EXCEPT ![n] = hosts'[n]]

Discovers(n) == process[n] = "discovering" /\ call[Main(n)] = NoCall

SayHello(n) ==
  /\ Discovers(n) /\ read[n] < Len(Peers[n])
  /\ LET peer == Peers[n][read[n] + 1]
     IN IF process[peer] = "serving"
        THEN /\ Sends(Main(n), peer, [kind |-> "hello"])
             /\ UNCHANGED routerVars
        ELSE /\ line' = Opened(Main(n), peer)
             /\ Listed(n, peer, NoNode)
             /\ UNCHANGED call
  /\ UNCHANGED <<mode, process, answer, serves, kills, historyVars>>

HelloReturns(n) ==
  /\ Answered(Main(n)) /\ call[Main(n)].kind = "hello"
  /\ Listed(n, Peers[n][read[n] + 1], answer[Main(n)].name)
  /\ Returned(Main(n))
  /\ UNCHANGED <<mode, process, line, serves, kills, historyVars>>

Least(S) == CHOOSE x \in S : \A y \in S : x <= y

\* Nothing catches what reach_master throws: a peer that does not answer ends
\* the process.
ReachMaster(n) ==
  /\ Discovers(n) /\ read[n] = Len(Peers[n]) /\ master[n] = NoNode
  /\ LET peer == Least(left[n])
     IN IF process[peer] = "serving"
        THEN /\ Sends(Main(n), peer, [kind |-> "reach_master"])
             /\ UNCHANGED <<mode, process, routerVars, answer, serves,
                            historyVars>>
        ELSE Dies(n)
  /\ UNCHANGED kills

\* The table of a node told by peer that the master is name.
Learned_nothing(t, name, peer, hops) == t
Learned_direct(t, name, peer, hops) == insert_route(t, name, name, hops)

Learned(t, name, peer, hops) == insert_route(t, name, peer, hops)

\* After the last peer main sleeps and starts again with the first.
ReachReturns(n) ==
  /\ Answered(Main(n)) /\ call[Main(n)].kind = "reach_master"
  /\ LET peer == Least(left[n])
         result == answer[Main(n)]
     IN IF result.result # "ok" THEN Dies(n)
        ELSE /\ IF result.name # NoNode
                THEN /\ master' = [master EXCEPT ![n] =
                                     set_master_node(@, result.name)]
                     /\ table' = [table EXCEPT ![n] =
                          Learned(@, result.name, peer, result.hops)]
                     /\ UNCHANGED left
                ELSE /\ left' = [left EXCEPT ![n] =
                          IF @ = {peer} THEN hosts[n] ELSE @ \ {peer}]
                     /\ UNCHANGED <<master, table>>
             /\ Returned(Main(n))
             /\ UNCHANGED <<mode, process, hosts, read, line, serves,
                            historyVars>>
  /\ UNCHANGED kills

Serve(n) ==
  /\ Discovers(n) /\ read[n] = Len(Peers[n]) /\ master[n] # NoNode
  /\ process' = [process EXCEPT ![n] = "serving"]
  /\ UNCHANGED <<mode, routerVars, rpcVars, kills, historyVars>>
-----------------------------------------------------------------------------
(***************************************************************************)
(* The server: the handlers of rpc_server.cpp.                             *)
(***************************************************************************)
Client(n) == Head(line[n]).who

\* The thread of n's server reads a call from the connection it stays with.
Reads(n) ==
  /\ process[n] = "serving" /\ call[Server(n)] = NoCall
  /\ line[n] # <<>> /\ Head(line[n]).used
  /\ call[Client(n)] # NoCall /\ answer[Client(n)] = NoAnswer

Replies(n, a) == answer' = [answer EXCEPT ![Client(n)] = a]

\* Without the test of is_master.
HandleHello_own(n) ==
  /\ Reads(n) /\ call[Client(n)].kind = "hello"
  /\ Replies(n, [Said("ok") EXCEPT !.name = n])
  /\ UNCHANGED <<mode, process, routerVars, line, call, serves, kills,
                 historyVars>>

HandleHello(n) ==
  /\ Reads(n) /\ call[Client(n)].kind = "hello"
  /\ Replies(n, [Said("ok") EXCEPT !.name = IF n \in Masters THEN n ELSE NoNode])
  /\ UNCHANGED <<mode, process, routerVars, line, call, serves, kills,
                 historyVars>>

\* The name given as the master's is that of the gateway that leads to it.
RouteToMaster(n) ==
  IF n \in Masters THEN [Said("ok") EXCEPT !.name = n]
  ELSE IF master[n] \in DOMAIN table[n]
       THEN LET route == get_route(table[n], master[n])
            IN [result |-> "ok", name |-> route.gateway, hops |-> route.weight]
       ELSE Said("ex_routing")

HandleReachMaster(n) ==
  /\ Reads(n) /\ call[Client(n)].kind = "reach_master"
  /\ Replies(n, RouteToMaster(n))
  /\ UNCHANGED <<mode, process, routerVars, line, call, serves, kills,
                 historyVars>>

Passive(n) == mode[n] = "passive"

\* add_node, remove_node and the getters look at both names of the routing data,
\* the others at the calling node's.
Misrouted(r) ==
  \/ r.calling = NoNode
  \/ /\ r.target = NoNode
     /\ r.kind \in {"add_node", "remove_node", "get_node", "get_jobs", "get_job"}

\* What check_routing_args, the tests of the attributes, check_master_node and
\* the passive planning handlers throw.
Checked(n, r) ==
  IF r.kind = "planning" THEN IF Passive(n) THEN "ex_routing" ELSE "none"
  ELSE IF Misrouted(r) THEN "ex_routing"
  ELSE IF r.kind \in {"add_node", "remove_node"} /\ ~r.filled THEN "ex_node"
  ELSE IF /\ r.kind \in {"get_job", "add_job", "update_job", "remove_job"}
          /\ ~r.filled \/ r.target = NoNode
  THEN "ex_job"
  ELSE IF /\ Passive(n) /\ r.kind # "get_node"
          /\ master[n] # r.calling \/ n # r.target
  THEN "ex_routing" ELSE "none"

\* Config::master_node, the destination of a planning request, is never set:
\* it is the empty name, and add_job's test that this node is the master fails.
Destination(n, r) ==
  IF r.kind # "planning" THEN r.target
  ELSE IF n \in Masters THEN n ELSE NoNode

Here_any(n, r) == TRUE

\* The request is for this node.  (In passive mode the check has said so.)
Here(n, r) == Passive(n) \/ Destination(n, r) = n

\* Whether the handler of r closes its connection: the close after the call,
\* which those that return what they call never reach, or the one in the only
\* catch.  (The planning handlers catch ex_planning, which nothing throws.)
Closes(r, result) ==
  LET nodeKinds == {"add_node", "remove_node", "get_node"}
      getKinds == {"get_jobs", "get_job"}
  IN CASE result = "ok" -> r.kind \in {"planning"} \cup nodeKinds \cup getKinds
       [] result = "ex_node" -> r.kind \in nodeKinds
       [] result = "ex_job" -> r.kind \in RequestKind \ ({"planning"} \cup nodeKinds)
       [] OTHER -> FALSE

Asked(n) == call[Client(n)]

IsRequest(n) == Reads(n) /\ Asked(n).kind \in RequestKind

Refuse(n) ==
  /\ IsRequest(n) /\ Checked(n, Asked(n)) # "none"
  /\ Replies(n, Said(Checked(n, Asked(n))))
  /\ UNCHANGED <<mode, process, routerVars, line, call, serves, kills,
                 historyVars>>

\* The kinds of requests that only read.
Reading == {"planning", "get_node", "get_jobs", "get_job", "monitor"}

\* What the Domain may throw, as the caller gets it: the ex_job of the methods
\* under get_planning, get_node, get_nodes and remove_node is not declared by
\* these calls, nor the ex_node of add_job by update_job, which calls it in
\* passive mode, nor the out_of_range of the monitoring ones.
Throws(n, kind) ==
  {result \in {"ex_job", "ex_node", "ex_processing", "broken"} :
     \/ result = "ex_processing"
     \/ result = "ex_job" /\ kind \in {"get_jobs", "get_job"}
     \/ result = "ex_node" /\ kind = "add_job"
     \/ result = "ex_node" /\ kind = "add_node" /\ ~Passive(n)
     \/ /\ result = "broken"
        /\ \/ kind \in {"planning", "get_node", "remove_node", "monitor"}
           \/ kind = "update_job" /\ Passive(n)}

\* The Domain does r, whole or in part, when it returns; when it throws
\* ex_processing out of an update whose COMMIT was done, or one of its
\* transactions; and when it throws ex_node out of add_node, which has added
\* the node, and maybe jobs, before it comes to a job of an unknown node.
Works(r, result) ==
  \/ result = "ok"
  \/ result = "ex_processing" /\ r.kind \notin Reading
  \/ result = "ex_node" /\ r.kind = "add_node"

\* The passive get_node and get_nodes return without a call.
Do(n) ==
  /\ IsRequest(n) /\ Checked(n, Asked(n)) = "none" /\ Here(n, Asked(n))
  /\ IF Passive(n) /\ Asked(n).kind = "get_node"
     THEN Replies(n, Said("ok")) /\ UNCHANGED done
     ELSE \E result \in {"ok"} \cup Throws(n, Asked(n).kind) :
            /\ Replies(n, Said(result))
            /\ \/ /\ Works(Asked(n), result)
                  /\ done' = [done EXCEPT ![Asked(n).id] = Append(@, n)]
               \/ ~Works(Asked(n), result) /\ UNCHANGED done
               \/ result = "ex_processing" /\ UNCHANGED done
  /\ UNCHANGED <<mode, process, routerVars, line, call, serves, kills, sent, told>>

\* Without a gateway add_job and update_job throw; the others use the NULL
\* pointer, which ends the process.  A gateway that does not answer makes the
\* call throw.
Forward(n) ==
  /\ IsRequest(n) /\ Checked(n, Asked(n)) = "none" /\ ~Here(n, Asked(n))
  /\ LET gateway == get_gateway(table[n], Destination(n, Asked(n)))
         tested == Asked(n).kind \in {"add_job", "update_job"}
     IN CASE gateway = NoNode /\ ~tested -> Dies(n)
          [] gateway = NoNode /\ tested ->
               /\ Replies(n, Said("ex_routing"))
               /\ UNCHANGED <<mode, process, routerVars, line, call, serves,
                              historyVars>>
          [] gateway # NoNode /\ process[gateway] # "serving" ->
               /\ line' = Opened(Server(n), gateway)
               /\ Replies(n, Said("broken"))
               /\ UNCHANGED <<mode, process, routerVars, call, serves,
                              historyVars>>
          [] OTHER ->
               /\ Sends(Server(n), gateway, Asked(n))
               /\ serves' = [serves EXCEPT ![n] = Client(n)]
               /\ UNCHANGED <<mode, process, routerVars, answer, historyVars>>
  /\ UNCHANGED kills

\* Without the break after the call: the Domain does it as well.
ForwardReturns_falls_through(n) ==
  /\ Answered(Server(n))
  /\ answer' = [a \in Actor |->
                  IF a = Server(n) THEN NoAnswer
                  ELSE IF a = serves[n] THEN answer[Server(n)] ELSE answer[a]]
  /\ line' = IF Closes(call[Server(n)], answer[Server(n)].result)
             THEN Closed(Server(n)) ELSE line
  /\ call' = [call EXCEPT ![Server(n)] = NoCall]
  /\ serves' = [serves EXCEPT ![n] = NoActor]
  /\ done' = [done EXCEPT ![call[Server(n)].id] = Append(@, n)]
  /\ UNCHANGED <<mode, process, routerVars, kills, sent, told>>

\* The exceptions of the Domain caught, all of them, and not thrown again.
ForwardReturns_swallows(n) ==
  /\ Answered(Server(n))
  /\ answer' = [a \in Actor |->
                  IF a = Server(n) THEN NoAnswer
                  ELSE IF a # serves[n] THEN answer[a]
                  ELSE IF answer[Server(n)].result \in {"ex_job", "ex_node", "ex_processing"}
                  THEN Said("ok") ELSE answer[Server(n)]]
  /\ line' = Closed(Server(n))
  /\ call' = [call EXCEPT ![Server(n)] = NoCall]
  /\ serves' = [serves EXCEPT ![n] = NoActor]
  /\ UNCHANGED <<mode, process, routerVars, kills, historyVars>>

\* The answer goes to whoever asked, if it is still there.
ForwardReturns(n) ==
  /\ Answered(Server(n))
  /\ answer' = [a \in Actor |->
                  IF a = Server(n) THEN NoAnswer
                  ELSE IF a = serves[n] THEN answer[Server(n)] ELSE answer[a]]
  /\ line' = IF Closes(call[Server(n)], answer[Server(n)].result)
             THEN Closed(Server(n)) ELSE line
  /\ call' = [call EXCEPT ![Server(n)] = NoCall]
  /\ serves' = [serves EXCEPT ![n] = NoActor]
  /\ UNCHANGED <<mode, process, routerVars, kills, historyVars>>

-----------------------------------------------------------------------------
(***************************************************************************)
(* The world: clients outside the domain, the end of a process.            *)
(***************************************************************************)
Ask(u) ==
  /\ call[Outside(u)] = NoCall /\ Len(sent) < MaxRequests
  /\ \E n \in Node, r \in Requests :
       /\ process[n] = "serving"
       /\ Sends(Outside(u), n, [r EXCEPT !.id = Len(sent) + 1])
       /\ sent' = Append(sent, r)
  /\ done' = Append(done, <<>>) /\ told' = Append(told, "none")
  /\ UNCHANGED <<mode, process, routerVars, answer, serves, kills>>

IsTold(u) ==
  /\ Answered(Outside(u))
  /\ told' = [told EXCEPT ![call[Outside(u)].id] = answer[Outside(u)].result]
  /\ line' = Closed(Outside(u))
  /\ Returned(Outside(u))
  /\ UNCHANGED <<mode, process, routerVars, serves, kills, sent, done>>

Kill(n) ==
  /\ process[n] # "down" /\ kills < MaxKills
  /\ kills' = kills + 1
  /\ Dies(n)

MainStep(n) ==
  \/ SayHello(n) \/ HelloReturns(n) \/ ReachMaster(n) \/ ReachReturns(n)
  \/ Serve(n)

ServerStep(n) ==
  \/ HandleHello(n) \/ HandleReachMaster(n)
  \/ Refuse(n) \/ Do(n) \/ Forward(n) \/ ForwardReturns(n)

Next ==
  \/ \E n \in Node : Start(n) \/ MainStep(n) \/ ServerStep(n) \/ Kill(n)
  \/ \E u \in User : Ask(u) \/ IsTold(u)

Spec == Init /\ [][Next]_vars

\* The threads of a process are scheduled.
FairSpec ==
  /\ Spec
  /\ \A n \in Node : WF_vars(MainStep(n)) /\ WF_vars(ServerStep(n))

-----------------------------------------------------------------------------
(***************************************************************************)
(* Properties                                                              *)
(***************************************************************************)
TypeOK ==
  /\ mode \in Modes
  /\ process \in [Node -> {"down", "discovering", "serving"}]
  /\ DOMAIN table = Node /\ \A n \in Node : IsTable(table[n])
  /\ hosts \in [Node -> SUBSET Node]
  /\ master \in [Node -> Node \cup {NoNode}]
  /\ read \in [Node -> Nat]
  /\ left \in [Node -> SUBSET Node]
  /\ line \in [Node -> Seq(Connection)]
  /\ call \in [Actor -> Call \cup {NoCall}]
  /\ answer \in [Actor -> Answer]
  /\ serves \in [Node -> Actor \cup {NoActor}]
  /\ kills \in 0 .. MaxKills
  /\ Len(sent) \in 0 .. MaxRequests
  /\ done \in [DOMAIN sent -> Seq(Node)]
  /\ DOMAIN told = DOMAIN sent

\* From n, with the gateways each node on the way gives, d is reached without
\* passing twice by a node, each hop to a direct peer, or a node that does not
\* serve any more.
Leads(n, d) ==
  \E k \in 1 .. Cardinality(Node) : \E p \in [1 .. k -> Node] :
    /\ p[1] = n /\ (p[k] = d \/ process[p[k]] # "serving")
    /\ \A i, j \in 1 .. k : p[i] = p[j] => i = j
    /\ \A i \in 1 .. k - 1 :
         /\ d \in DOMAIN table[p[i]]
         /\ p[i + 1] = get_gateway(table[p[i]], d)
         /\ p[i + 1] \in hosts[p[i]]

\* A node has routes only to destinations that its gateways, and theirs, lead
\* to: a request never goes round, nor stops at a node without a gateway
\* (update_peers_list and reach_master of router.cpp, on different nodes and
\* at different times).
RoutesLead ==
  \A d \in Node : \A n \in Node : d \in DOMAIN table[n] => Leads(n, d)

\* A client that serves has learnt a master and has a route to it, so that
\* its own reach_master handler never throws.
ServingKnowsMaster ==
  \A n \in Node \ Masters :
    process[n] = "serving" => master[n] \in DOMAIN table[n]

\* Whatever fails on the way, a request is done at most once.
DoneOnce == \A i \in DOMAIN done : Len(done[i]) <= 1

\* The nodes a request is for.
RightPlaces(r) ==
  IF r.kind = "planning" THEN Masters ELSE {r.target} \cap Node

\* The exceptions after which a sender knows that nothing was done: an update
\* that ends with ex_processing may have been, and a node may have been added
\* by the add_node that ends with ex_node.
Denials(r) ==
  {"ex_routing", "ex_job"}
    \cup (IF r.kind = "add_node" THEN {} ELSE {"ex_node"})
    \cup (IF r.kind \in Reading THEN {"ex_processing"} ELSE {})

\* Who is told that a request succeeded can rely on it: it was done, at the
\* node it is for.  Who is told by an exception that it was refused knows that
\* no node did any part of it (rpc_server.cpp: a handler that forwards passes
\* on what it gets, and who dies on the way says nothing).
AnswerIsTrue ==
  \A i \in DOMAIN told :
    /\ told[i] = "ok" /\ sent[i].kind # "get_node" =>
         \E n \in Node :
           /\ done[i] = <<n>>
           /\ n \in RightPlaces(sent[i])
    /\ told[i] \in Denials(sent[i]) => done[i] = <<>>

\* Through whatever gateways it goes and whoever dies on the way, a request is
\* served as RequestService says: what its sender was told never changes, and
\* after an exception of the domain nobody does it any more (that of the
\* transport tells nothing).
Service == INSTANCE RequestService WITH
             Request <- Requests,
             Right <- RightPlaces,
             Denies <- Denials,
             Silent <- {r \in Requests : r.kind = "get_node"}
ServiceImplemented == Service!Spec

\* The name a router gives as the master's (router.h, get_master_node) is that
\* of a master.
MasterIsMaster ==
  \A n \in Node : master[n] # NoNode => master[n] \in Masters

\* A hello tells whether the node is reachable (model.thrift, hello): who says
\* it gets an answer or an exception.
HelloReturnsAtLast ==
  \A n \in Node : (call[Main(n)].kind = "hello") ~> (call[Main(n)].kind # "hello")
=============================================================================
