# Open Workload Scheduler in TLA+

A verification project for the C++ scheduler of this repository: TLA+ modules
translated from its source, TLC configurations that check them on small
instances, and proofs checked by TLAPS. Paths below are relative to the
repository.

## 1. The system

A *domain* is a set of nodes. Each node runs a `master` process with an embedded
MySQL server. The *template* of the domain (a schema named `domain_name`) holds
nodes, jobs, links between jobs and time constraints. Each day a new *planning*
(a schema named `domain_name_<start time>`) is created from `skeleton.sql` and
filled from the template; a loop reads the jobs that are ready in the planning
in use and starts a thread for each, which records in the planning that the job
runs, runs it, and records how it ended. Clients and other nodes change the
schemas through a Thrift server.

### Components

| Component | State | Operations | Interacts by |
|---|---|---|---|
| Planning schema, views (`etc/mysql/skeleton.sql`) | rows of `node`, `resource`, `job`, `jobs_link`, `time_constraint` | four views that tell which jobs are ready | SQL of Domain |
| Domain (`src/domain.cpp`) | `planning_start_time`, `planning_duration`, `updates_mutex` | `set_next_planning`, `switch_planning`, add/remove/update of nodes and jobs, readers | called by the main loop, the jobs' threads and the server's thread at once |
| Database (`src/database.cpp`) | connections | one transaction per update, creation of a schema, queries | throws `ex_processing`, returns false |
| Job (`src/job.cpp`) | a copy of the job's row | `run`: RUNNING, `popen`, SUCCEDED or FAILED | Domain, in a thread of its own |
| Master loop (`src/master.cpp`) | the jobs fetched in an iteration | fetch, prepare the next planning, dispatch, `sleep(60)` | Domain; creates the threads |
| RPC server (`src/rpc_server.cpp`) | none of its own | one handler per request, done here or forwarded | Domain, Router, Rpc_Client; one thread |
| Router (`src/router.cpp`) | peers, routing table, master's name | discovery of peers and master, routes | Rpc_Client; read by the server |
| RPC client (`src/rpc_client.cpp`) | one connection | open, close | server and router |
| Client loop (`src/client.cpp`) | jobs | fetch from a master, run, report | RPC client |
| Configuration, conversions | parameters | parsing | everyone |

`Node`, `Day` and `Shell` are declarations or user interface without state of the
scheduler; the SQLite half of `database.cpp` is compiled out.

### What makes it hard

* Three kinds of threads update the same schemas. What excludes them is one mutex
  locked and unlocked by hand: **an exception between the two leaves it locked**.
* The loop reads, then acts: the jobs fetched are stale when it dispatches them (a
  switch may have come in between; RUNNING is written later, by another thread).
* A planning is copied row by row; each row may violate a foreign key, the
  database may fail at any of them, the process may be killed. What is there is
  taken as it is at the next start.
* The end of a job may come after the switch to the next planning, after a
  client has removed the job, or never.
* Exceptions decide who lives: outside of any `try` they end the process, in the
  loop they skip the switch, in the constructor some are caught and some are not.
* Requests are forwarded synchronously by a server with one thread, which stays with
  a connection until the other end closes it; most callers never close.
* The master compares several readings of the clock, seconds apart, with a window as
  long as its own pause.
* Each node fills its routing table by itself, when it starts, from those of its
  neighbours that are up.

### What makes each component correct

* *Planning*: a job is ready when its predecessors have succeeded and its own
  constraints hold.
* *Domain*: the mutex is always given back; a planning holds what the template
  holds; a planning is switched to before it starts.
* *Job*: each run is recorded RUNNING, then as it ended, in the planning the job
  was read from.
* *Loop*: every ready local job is run, once, in the planning in use; plannings start
  at the configured hour and none is skipped.
* *Server and router*: a request reaches the node it is for, once, or the
  caller is told; the master that is learnt is the master; nobody waits in a ring.

`PROJECT.json` lists each hazard at its line with the properties about it.

## 2. The modules

| Module | Models |
|---|---|
| `Planning` | one schema as a record of rows, the views, the effect of each update (`Result`), whether it commits (`Commits`), the order in which callers send them |
| `Scheduler` | one master process: Domain with its mutex, the main loop with its switches, the threads of `Job::run`, the server's thread, time, database errors, kills and restarts |
| `Clock` | the same loop in seconds: the duration and the hour of the configuration, the next start, the sixty seconds of pause and of buffer |
| `JobLifecycle` | abstract: what a planning promises of a job's state |
| `DayClock` | abstract: which planning is prepared, switched to and dispatched on which day |
| `Router` | one node's tables: routes by weight, the lightest gateway, the master's name |
| `Network` | the nodes of a domain: discovery by the client program, the RPC handlers, their connections, the end and restart of processes |
| `RequestService` | abstract: what a domain promises to the sender of a request |
| `MCScheduler`, `MCNetwork` | templates, requests, topologies for TLC |
| `SchedulerProofs` | types, truth of the recorded states, the days of `Scheduler` |
| `CopyProofs` | what a copy cut short leaves |
| `PredecessorProofs` | predecessors run first |
| `PromptProofs` | the mutex is given back and the copy is whole, without failures |
| `LifecycleProofs` | the life cycle of a job, with failures; that a job is run once, without |
| `NetworkProofs` | types of `Network`, the answers to requests, and that it implements `RequestService` |
| `RouteProofs` | the routes and the master of `Network` |
| `ClockProofs` | the arithmetic of `Clock`, and that it implements `DayClock` |

`Scheduler` EXTENDS `Planning`; it INSTANCEs `JobLifecycle` with
`state <- [p |-> db[p].state]`. `Network` EXTENDS `Router`. The two systems meet in
`Do(n)`: a request a node does itself is `Receive` in `Scheduler`. `Scheduler` counts
days where the code computes seconds; `Clock` keeps the seconds and leaves out the rest.
Both are shown to implement `DayClock`, which is what justifies the days: the same
choice of the next planning, the same window, the same planning in use.
`Network` is shown to implement `RequestService`, in which a request is one step at a
node it is for, whatever gateways it goes through.

### From the code to the state

| Variable | In the code |
|---|---|
| `db[s]` | schema `s`: 0 is the template, `p` is the planning that starts at the `p`-th day boundary; `status` says whether the schema exists and has its tables |
| `mutex` | `Domain::updates_mutex`: its owner |
| `todo[a]`, `phase[a]` | the Domain calls thread `a` still makes in what it is doing (the copy of a planning, the calls of `remove_node`, one update of a job), and how far it is in the first one: before the lock, before the transaction, before the unlock, or leaving by an exception |
| `run[t]` | where in `Job::run` thread `t = <<planning, job, k>>` is |
| `main` | where the main loop is: in `set_next_planning` (`next`, `load`, `list`, `copy`), at the top (`tick`), before the window test, before the second test of the start time |
| `booting` | the loop has not been reached: `set_next_planning` is called by the constructor of Domain |
| `start`, `target` | `planning_start_time`, and the planning being made |
| `now`, `jobs` | the local variables of an iteration |
| `clock` | how many day boundaries have passed, and whether the next is at most 60 s away |
| `ran`, `told`, `lost` | histories: how commands ended, what states clients imposed, whose threads were killed or gave up |

One Domain update is four steps (`Lock`, `Execute`, `Throw` or `Unlock`), because
whatever runs concurrently sees the difference. `Execute` is atomic: it is one
InnoDB transaction. When the answer to its COMMIT is lost the rows are there and the
method throws: `Execute` then ends in `threw`. Reads do not take the mutex in the code, and are one step
here. What a caller sends next is the least of its calls in the order of
`Before`: the order `get_nodes` and `add_node` produce with rows in InnoDB's order.

The exceptions follow the code. `ex_processing` out of `set_next_planning` is
caught by the constructor and ends `main` from the loop; `ex_job` is the other
way round. `StartThrew`: the first update of `Job::run` is outside its `try`, so
an exception there ends the process. `EndThrew`: the second is inside, and is
dropped.

| Variable of `Network` | In the code |
|---|---|
| `process[n]` | no process, a client before its server runs, a process whose server listens |
| `table[n]`, `hosts[n]`, `master[n]` | `Router::routing_table`, `hosts_keys`, `master_node` |
| `read[n]`, `left[n]` | the line of the peers file `update_peers_list` is at, the peers `reach_master` has not asked |
| `line[n]` | the connections of server `n`: the first is served, the others wait to be accepted; `used` is false once the Rpc_Client at the other end has another handler |
| `call[a]`, `answer[a]` | the call thread `a` waits for, and what came back |
| `serves[n]` | whose request server `n` has forwarded |
| `sent`, `done`, `told` | histories: requests, the nodes that did each, what the sender was told |

| Variable of `Clock` | In the code |
|---|---|
| `time` | what `time(2)` returns; a second passes (`Advance`) while the loop sleeps or between any two of its steps |
| `start`, `target` | `planning_start_time`, and the start `set_next_planning` has computed |
| `now`, `wake` | the time read at the top of the iteration; when the loop's pause ends |
| `main`, `booting` | as in `Scheduler`, the making of a planning being one step (`make`) |
| `lapse` | history: since a planning was last made before it began, the loop was working when one of the last sixty-one seconds before a boundary ended, or a query or a preparation failed |

In `Network`, threads are those that hold an `Rpc_Client`: a client's `main` (through Router), the
server of a node (to forward), a client outside the domain. `TSimpleServer`
reads a connection until the other end closes it; `Rpc_Client::open` overwrites
its handler, which keeps the socket open: `Opened` and `Abandoned`. The handlers
differ in what they check, in which node they compare with their own name, in
what a missing gateway does, in which exception they catch and whether they close:
`Checked`, `Destination`, `Forward`, `Closes`. The methods of the Domain differ in what
they throw and in what they may have done by then, and the calls in the exceptions they
declare: `Throws`, `Works`. An exception a call does not declare reaches its sender as
one of Thrift's own, `broken` here like those of the transport. Handlers of the same form
share a member of `RequestKind`.

### Abstractions

* Names are numbers in the collating order of the names; a job name stands for a
  job of a fixed node; command lines, weights, recovery types, macro jobs are left
  out; a node has resources or not (no reader gets past a resource row).
* `Minute` is the wall clock the views compare, in minutes of the day; it is chosen at
  each tick, not tied to `clock`: the loop may look at any time of the day. Times of
  constraints (`Second`) are in seconds, because the code reads them back as such into an
  `i16`: one after 09:06:07 becomes 00:00 (`AsRead`).
* The foreign keys are part of `Commits`: a transaction that would break one throws.
  That rows refer to rows that are there holds by that, and is not claimed as a property.
* Creating a schema and loading the skeleton (`LoadSkeleton`) does not take
  `updates_mutex` (`domain.cpp:192`), although `domain.h:606` says it prevents
  concurrent access to the database: it only covers the updates of `Domain`.
* `remove_node` stops, with `ex_processing`, as soon as there is a resource row: when
  the node exists `get_node` reads the resources, of every node of the schema (the
  query of `get_resources`, `domain.cpp:1056`, has no condition on the node), and the
  first row read throws.
* A schema whose skeleton failed half way is `bare`: nothing is written to it. In
  the code a prefix of its tables exists.
* The template exists and is loaded when the process starts (`InitialTemplate`);
  its own creation by the first start is not modelled.
* A database error (`Fault`) is any failure the statements themselves do not
  cause: no connection, no memory, no disk, no skeleton file, no answer to COMMIT.
* In `Clock` seconds are numbered from the last boundary before the first start: only
  the time since the configured hour, modulo the duration, counts in the code.
* In `Network` what the Domain does with a request is one step: it returns, or throws
  one of the exceptions of `Throws`. `done` then says that the node did it *or a part of
  it* (`Works`): an update that throws `ex_processing` may be committed, or some of its
  transactions; an `add_node` that throws `ex_node`, at a job of an unknown node, has
  committed the node before (`domain.cpp:295-313`). Weights are what the code makes them: `reach_master` passes hops on
  without adding any. The configuration has a `port` key, every client's file
  lists a peer, host names are node names. The p2p mode (its handlers return at once)
  and `hello` for another name (nobody sends it) are left out.
* The client program does not compile at this commit: it calls `Router::get_node`,
  which is commented out, as the master's call of `update_peers_list` is.
  `Network` models the discovery as it is written.
* In `Scheduler` requests are those addressed to this node. `Requests` and `NodesToRemove` give
  what clients ask.

## 3. The runs

| Run | Expected | Instance | What it shows |
|---|---|---|---|
| `faults` | pass | a chain of two jobs, the second to run after eight and before eight in the evening, one boundary crossed, two threads a job, one database error, the loss of a COMMIT's answer included, one kill, at any step | `TypeOK`; what is recorded as ended did end so, in that planning (`RecordedEndIsTrue`); a running row has a thread or lost it (`RunningHasThread`); what was fetched before a switch is dropped (`OnlyCurrentIsDispatched`); a copy cut short is a beginning of what the copy would be, constraints read as 00:00 included (`PlanningIsPrefix`); a job is only run after a predecessor (`PredecessorRanFirst`); in days the master is `DayClock` (`DaysImplemented`) |
| `prompt` | pass | the chain, its second job to run after eight, two boundaries, nothing fails, fairness | the mutex is always given back (`MutexIsReturned`); the planning is a copy of the template (`PlanningIsCopied`); the life cycle of a job is implemented (`LifecycleImplemented`); each job is run by one thread (`RunOnce`); ready jobs are run and ends recorded (`ReadyJobIsRun`, `EndIsRecorded`); no deadlock |
| `requests` | pass | one job, two planning starts, two requests among add, update, remove, set state, add resource, remove node, at any step | `RecordedEndIsTrue`, `RunningHasThread` with clients that rewrite the rows |
| `clock` | pass | days of three minutes from 00:01, ten minutes, iterations and starts of up to two seconds, failures, ends and restarts at any second | a planning starts at a boundary (`StartIsBoundary`); none is skipped but by a loop that works when one of the last sixty-one seconds before the boundary ends, or fails (`PlanningIsCurrent`); `planning_start_time` never goes back (`NeverBackward`); the seconds implement `DayClock` (`DaysImplemented`); no deadlock |
| `skipped` | violation | the same days, iterations of up to a second, nothing fails | `NextIsInitialized`: an iteration sixty-one seconds before the boundary lasts until the next second, the next one comes at the boundary, and the planning of that day is never made |
| `run_once` | violation | the chain; a thread may be slow to record RUNNING | `RunOnce`: the job is run twice |
| `due` | violation | jobs 2 and 3 precede job 1, which must run at nine; it is eight | `RunWhenDue`: job 1 is run at eight, after job 2 only. The one step shows both findings of the views |
| `leak` | violation | one job, one `update_job` | `EndIsRecorded`: the mutex stays locked |
| `copy` | violation | job 1 may run after noon, job 2 precedes job 3 | `PlanningIsCopied`: the copy gives job 1 the constraint 00:00 and stops at job 2. The one state shows both findings of the copy |
| `network` | pass | a chain of three nodes, all active or the last passive, two clients, two requests of three kinds, three kills, starts at any time | routes lead to their destination whatever the order of starts and ends (`RoutesLead`); a client that serves knows a master and a route to it (`ServingKnowsMaster`), and in a chain this short that master is one (`MasterIsMaster`); a request is done at most once (`DoneOnce`); what its sender is told is true (`AnswerIsTrue`); the chain implements `RequestService` (`ServiceImplemented`) |
| `master_name` | violation | a chain of four nodes | `MasterIsMaster`: the fourth takes the second for the master |
| `hello` | violation | two clients of one master, fairness | `HelloReturnsAtLast`: the second hello waits behind the first one's connection |

The seven violations show the nine findings of `PROJECT.json`. The properties that pass
in `prompt` are about the process when nothing fails, and with `PromptStart`: a
thread records RUNNING within one iteration of the loop, one minute. The code
does nothing to ensure it; `run_once` is the run without it.

Five of them stop where a theorem of section 4 begins: `RunOnce` fails when
RUNNING is written late and holds otherwise (`JobsRunOnce`); a job is run before all its
predecessors at a join, and not when no job has two predecessors (`AllPredecessorsRun`);
`PlanningIsCopied` fails when a link leads forward in the order of the names or a
constraint is after 09:06:07, and holds for a `Copyable` template that is `ReadAsWritten`
(`PlanningCopied`); `MasterIsMaster` fails for a client at three hops from the master and
holds up to two (`NearMasterIsMaster`); a planning is skipped when the loop works as one
of sixty-one seconds ends, or something fails, and never otherwise (`NoneSkipped`).

`AnswerIsTrue` says what each exception tells its sender (`Denials`): `ex_routing` and
`ex_job` that nothing was done, `ex_node` the same unless the request is an `add_node`,
`ex_processing` only for a request that reads. `broken` tells nothing.

**Bounds.** `MaxDay` boundaries are crossed (a second planning is made while
the first is in use; with 2, a third), `MaxRuns` threads per job and planning
(two suffice to see a job run twice; a third would need what a second needs),
`MaxFaults`, `MaxCrashes` and `MaxRequests` happen. Two jobs make a chain and an
order of names; three a join; the times of constraints lie on both sides of
09:06:07. One node: the loop only runs local jobs, and no
statement relates two nodes. `requests` has one job so that the requests, two at
any step of everything else, are all about the one that is running. In `network`,
three nodes are the least where a route has two hops. A client's discovery leaves a
connection open at its neighbour, whose server is free again only when one of the two
ends: a request that goes along the whole chain is done and answered only after three
kills, and with two it never is. The three kinds are a request that only reads, whose
destination is never found, one that may be done in part, and one that goes back along
the chain. Two clients make the answers of one server concurrent. TLC takes the clients as interchangeable: neither the invariants nor
`ServiceImplemented`, which has no liveness part, tell them apart. In `clock`
(`Horizon`, `MaxWork`), three days of three minutes show a planning made, used and
replaced; a day is three times the pause, so that the loop falls on every second of
the window; two seconds of work are enough to cross a boundary or to jump over the
window. `MaxWork` and `Horizon` only keep TLC finite: no theorem assumes them.

**Deadlock** is checked in `prompt` and `clock`. The other runs switch the check off:
after an exception the mutex is never unlocked, or a server waits behind a connection
nobody closes, and the process really stops.

**Fairness** (`FairSpec`). The main loop, each job's thread and the server's thread
take a step when they continuously can: the operating system schedules them, and
`pclose` returns (commands end). The mutex needs no strong fairness in `prompt`:
`updates_mutex` is released by a step of its owner and each thread makes finitely
many calls. No fairness on time, requests, faults, kills: nothing has to happen.
`Network`'s `FairSpec` (run `hello`) is the same: each process's threads are scheduled;
nobody has to start, ask, or be killed.

## 4. The theorems

For every value of the constants the assumptions of `Planning`, `Scheduler`, `Clock`,
`Router` and `Network` allow (any nodes, jobs, template, requests, durations, hours,
bounds; any finite set of nodes, peers files that are not empty for the clients, any
active and passive nodes), plus what the third column says.

| Module | Theorem | Assumes | Statement |
|---|---|---|---|
| `SchedulerProofs` | `TypeCorrect` | | `Spec => []TypeOK` |
| | `RecordedEnd` | | `Spec => []RecordedEndIsTrue` |
| | `RunningThread` | | `Spec => []RunningHasThread` |
| | `OnlyCurrent` | | `Spec => OnlyCurrentIsDispatched` |
| | `SchedulerImplementsDays` | | `Spec => DaysImplemented` |
| `CopyProofs` | `Prefixes` | the template's rows refer to each other, `NoClients` | `Spec => []PlanningIsPrefix` |
| `PredecessorProofs` | `PredecessorsRun` | the same | `Spec => []PredecessorRanFirst` |
| | `AllPredecessorsRun` | the same, no job of the template has two predecessors | `Spec => []AllPredecessorsRanFirst` |
| `PromptProofs` | `MutexReturned` | `Copyable`, `NoClients`, no error | `Spec => []MutexIsReturned` |
| | `PlanningCopied` | `NoFailure`, `ReadAsWritten` | `Spec => []PlanningIsCopied` |
| `LifecycleProofs` | `LifecycleRefined` | the rows refer, `NoClients`, `PromptStart` | `Spec => LifecycleImplemented` |
| | `EndedNotRunAgain` | the same | `Spec => []EndedIsNotRunAgain` |
| | `JobsRunOnce` | `NoFailure`, `PromptStart` | `Spec => []RunOnce` |
| `ClockProofs` | `ClockTypes` | | `Spec => []TypeOK` |
| | `Boundaries` | | `Spec => []StartIsBoundary` |
| | `StartsGoForward` | | `Spec => NeverBackward` |
| | `NoneSkipped` | | `Spec => []PlanningIsCurrent` |
| | `SecondsImplementDays` | a day longer than the buffer | `Spec => DaysImplemented` |
| `NetworkProofs` | `NetworkTypes` | | `Spec => []TypeOK` |
| | `RequestsDoneOnce` | | `Spec => []DoneOnce` |
| | `AnswersTrue` | | `Spec => []AnswerIsTrue` |
| | `ServiceRefined` | | `Spec => ServiceImplemented` |
| `RouteProofs` | `RoutesAlwaysLead` | | `Spec => []RoutesLead` |
| | `ServingNodesKnowMaster` | | `Spec => []ServingKnowsMaster` |
| | `NearMasterIsMaster` | `Shallow` | `Spec => []MasterIsMaster` |

The assumptions beyond those of the modules: `NoClients`, nobody writes to the schemas
through the server (a client may delete a link, or set a state). `Copyable`, the
template is one the copy can follow: its rows refer to each other, every link leads to a
job whose name, or whose node's, comes before, constraints are within the
duration, one of each type per job (the runs `copy` and `leak` show what happens
otherwise). `ReadAsWritten`: the constraints of the template are not later than
09:06:07, 32767 s, which is what `get_time_constraints` reads back (`copy` has one that
is). `NoFailure`: `Copyable`, no resource rows, no database error, no kill, no
client. `PromptStart`: see section 3. `Shallow`: a peer of a client is a master, or a
client whose peers are all masters; a chain of three nodes is, one of four is not.

The arguments:

* `RecordedEndIsTrue` and `RunningHasThread` are not inductive: a state says nothing
  of what the threads are about to write. `StateInv` adds that a thread has at most
  one call left, that it writes RUNNING before the command and the recorded
  result after it, to the planning the job was read from (`ThreadCalls`); that
  the main loop's calls write no state (`MainCalls`); that a thread outside an
  update is outside the mutex (`IdleThreads`); and that between a thread's last
  transaction and its unlock the row does not say running (`EndNotOverwritten`).
  The last is where mutual exclusion is needed: a second thread of the same job, or
  a client, cannot write there. That exclusion is a lemma (`UpdatesExcluded`): it is about
  the updates of Domain alone, and says nothing of the statements that create a schema.
* `FetchInv`: jobs that were fetched are of the planning in use, or that planning
  starts after the time read at the top of the iteration; a planning being made
  starts after that time. So the second test of `planning_start_time` drops
  what was fetched before a switch.
* `CopyInv`, for `PlanningIsPrefix`: the calls left of a copy are calls of
  `CopyCalls`, and a row is made exactly when its call is no longer among them, or is
  the one executed and not yet unlocked (`LeftToMake`). After a throw only the first
  half is known, because the answer to COMMIT may have been lost; no call follows.
* `DealtInv`, for `PredecessorRanFirst`: a planning jobs were fetched from has its
  tables, is not the one being made, and the jobs fetched from it follow a
  predecessor whose command succeeded: its rows do not change any more.
* `ReturnInv`: nobody has thrown, and the owner of the mutex is past the lock. What
  it needs is that each transaction of the process commits: the copy's because its order
  follows the template's links, the threads' because nobody deletes a row.
* `WholeInv`: a schema that exists holds the template, but for the one being made.
  A copy that has returned has made every row.
* `LifeInv`: the row of a job says how far its thread is (`RowFollowsThread`, where a
  thread whose update threw does not know whether it was done), a job has one
  thread at a time, fetched jobs wait and have none (here `PromptStart` is needed), a
  schema that does not exist has no row. A second thread of a job cannot appear, so
  that each commit is a step of the life cycle.
* `OnceInv`, for `RunOnce`: what a thread that was not killed has done is recorded
  in the row (`RanIsRecorded`, `DoneIsRecorded`), a recorded state stays recorded
  (`RecordedStays`), only rows that wait are fetched, and two threads that were not
  killed are of different jobs (`OneUnkilled`). A kill, or an error when the end is
  recorded, leaves the row running: the job is not ready either, which is why
  `EndedIsNotRunAgain` holds with failures too.
* `StartInv`, `CurrentInv`, `ReadBefore` of `ClockProofs`: every start computed is a
  boundary at most a duration ahead, which rests on the lemmas on `%` and `\div` by
  `NextStart`. `CurrentInv`, for `NoneSkipped`: the planning in use is that of the day or the
  next (`InPlace`), the next in the last minute when an iteration has looked at the
  window (`Prepared`), and a loop that goes to sleep wakes before the boundary or has
  prepared it (`SleepsSafely`). A second that passes while the loop works
  (`WorkAdvances`) and is no lapse is not one of the last sixty-one, and so crosses no
  boundary and does not enter the window.
* `NetInv` of `NetworkProofs` is the conjunction of `TypeInv`, `WireInv` and `LeafInv`.
  `WireInv` says how calls, connections and what servers pass on fit: a thread
  that waits has sent its call over a connection it still uses, over which nobody else
  sends (`CallsAreSent`, `OneSender`, `OneLink`), and a server that waits for another has
  passed on the call of the head of its line (`PassedOn`). The threads that wait for
  a request so form a chain; its last one is the *leaf*. `LeafInv`: a request has one leaf
  at most (`OneLeaf`), and none once a node has done it or an answer has been given
  (`Settled`), which is then true (`DoneSettled`, `AnswersSettled`, `ToldSettled`).
  Only a leaf's server can do the request or throw, so that it is done once; an exception
  that tells its sender that nothing was done comes from a node that did nothing
  (`ThrownTruth`, on `Denials`, `Throws` and `Works`). A
  broken connection is not an answer of the domain: the rest of a chain whose server has
  ended may still do the request, and its sender is told neither that it was done nor that
  it was not.
* `RouteInv`: a gateway that is not the destination has the destination in its own
  peers file (`Reaches`). The files do not change, where what other nodes know may be
  gone when the route is used. A client that serves has read its whole file and has a
  direct route to each host in it (`HostsAreRead`, `Direct`), so that two hops are enough.
  That the direct route comes first although other routes to the same host are
  inserted later rests on the order of equal weights (`PlacedLast`).
* `NamedInv`, for `MasterIsMaster`: `reach_master` is answered with the name of the
  gateway, which is a master's when the one who answers knows masters only.
* `Kept`, which filters a sequence, is a recursive function. That it exists and what it
  keeps is proved with the set of the lengths for which it holds, and a least element of the
  others (`WFMin`): no operator is passed as a parameter.

`PlanningIsPrefix` says what an error or a kill may leave of a copy, and the next start
takes it as it is. A link is written with its predecessor, which `Copyable` has after its
successor: a kill between the two leaves the successor without its link, and without
its predecessor. After the restart it is ready at once, and it is run without a
predecessor that the template gives it; the missing jobs are not run that day.
`PredecessorRanFirst` speaks of the links of the planning, and holds all the same.

All the invariants above were checked by TLC before they were proved. What is only
model-checked is liveness: `ReadyJobIsRun` and `EndIsRecorded`. The prover does not
reason about fairness and ENABLED.

## 5. Not modelled

* *The node of `Network` with the Domain of `Scheduler`*: the product of their states
  is beyond TLC with anything of interest in it. `Do(n)` and `Receive` are the two
  sides of the border; a mutex that is never given back is, for `Network`, a server
  that does not answer.
* *The loop of the client program* (`client.cpp` after the server's start): the program
  does not compile at this commit, its loop never clears its jobs and gives its threads
  the address of a loop variable: there is no intended order to model.
* *The remote `get_ready_jobs`*, which that loop calls: the comment at `domain.cpp:805`
  says "We do not query the database if the planning is not started yet", and the test
  at 806 is the opposite one: it returns nothing once `planning_start_time` has passed
  and queries before. The two disagree by reading; with no loop of the
  client to receive the answer there is no behaviour to check around it.
* *The first creation of the template* by the first start: the template is there
  (`InitialTemplate`).
* *Reads* are one step each, and connections that leak, or locks of rows kept by a
  connection nobody closes, are not modelled: the database answers or fails.
* *The duration of a planning* is an `i16` (`model.thrift:241`), too small for the 86400
  seconds of a day; nobody reads it, so that there is nothing to state.
* Left out for good: the text of SQL and the MySQL client library (external), the
  SQLite half (compiled out), options, logging, the shell, the build files,
  `Node` and `Day` (no implementation), recovery types and macro jobs (read, never
  used by a decision), `delete_route` (no caller), the p2p mode (its handlers return).
