----------------------------- MODULE Scheduler -----------------------------
(***************************************************************************)
(* One ows-master process: the main loop of master.cpp, the threads it     *)
(* starts on Job::run, the thread of the RPC server, and the Domain they   *)
(* share (its schemas, updates_mutex and planning_start_time).             *)
(*                                                                         *)
(* updates_mutex is locked and unlocked by hand around each transaction,   *)
(* with nothing that unlocks it when the transaction throws: Lock, Execute,*)
(* Throw and Unlock are separate actions, and whoever throws leaves the    *)
(* mutex as it is.                                                         *)
(*                                                                         *)
(* Time is kept as the number of day boundaries that have passed and       *)
(* whether the next one is at most 60 seconds away; a planning is named by *)
(* the boundary it starts at.                                              *)
(***************************************************************************)
EXTENDS Planning

CONSTANTS
  Local,            \* node_name of this process
  Passive,          \* running_mode is PASSIVE (TRUE) or ACTIVE (FALSE)
  InitialTemplate,  \* rows of the template before the process starts
  Requests,         \* what clients ask for: sets of operations
  NodesToRemove,    \* remove_node requests: <<schema, node>>
  PromptStart,      \* TRUE: a thread records RUNNING within one tick
  MaxRuns,          \* bound: threads started for one job of one planning
  MaxFaults,        \* bound: database errors the calls do not cause
  MaxCrashes,       \* bound: kills of the process
  MaxRequests,      \* bound: requests served
  Main, Server,     \* the two permanent threads
  NoOne             \* no owner

Thread == Plannings \X Job \X (1 .. MaxRuns)
Actor == Thread \cup {Main, Server}

ASSUME SchedulerAssumption ==
  /\ Local \in Node
  /\ {Passive, PromptStart} \subseteq BOOLEAN
  /\ InitialTemplate \in Rows
  /\ InitialTemplate.status = "loaded"
  /\ Requests \subseteq SUBSET Operation
  /\ NodesToRemove \subseteq (Schema \X Node)
  /\ {MaxRuns, MaxFaults, MaxCrashes, MaxRequests} \subseteq Nat
  /\ Main # Server
  /\ {Main, Server} \cap Thread = {}
  /\ NoOne \notin Actor

VARIABLES
  db,        \* the schemas
  mutex,     \* owner of updates_mutex
  todo,      \* per thread of control, the Domain calls left in what it does
  phase,     \* where it is in the first of them
  run,       \* where each Job::run thread is
  main,      \* where the main loop is
  booting,   \* the Domain constructor is running
  start,     \* planning_start_time
  target,    \* the planning set_next_planning is making
  now,       \* the time read at the top of the loop
  jobs,      \* jobs fetched in this iteration: <<planning, job>>
  clock,     \* the time
  faults, crashes, requests,  \* the bounded counters
  ran,       \* history: <<planning, job, state>> a command ended with
  told,      \* history: <<schema, job, state>> a client imposed
  lost       \* history: <<planning, job>> whose thread died or gave up

domainVars == <<db, mutex, todo, phase>>
mainVars == <<main, booting, start, target, now, jobs>>
historyVars == <<ran, told, lost>>
countVars == <<faults, crashes, requests>>
vars == <<domainVars, run, mainVars, clock, countVars, historyVars>>

Init ==
  /\ db = [s \in Schema |->
             IF s = Template THEN InitialTemplate ELSE Blank("absent")]
  /\ mutex = NoOne
  /\ todo = [a \in Actor |-> {}]
  /\ phase = [a \in Actor |-> "lock"]
  /\ run = [t \in Thread |-> "none"]
  /\ main = "next" /\ booting = TRUE
  /\ start = 1 /\ target = 1 /\ jobs = {}
  /\ clock = [day |-> 0, late |-> FALSE]
  /\ \E minute \in Minute :
       now = [day |-> 0, late |-> FALSE, minute |-> minute]
  /\ faults = 0 /\ crashes = 0 /\ requests = 0
  /\ ran = {} /\ told = {} /\ lost = {}

-----------------------------------------------------------------------------
(***************************************************************************)
(* Domain: a call locks the mutex, executes its transaction and unlocks.   *)
(***************************************************************************)
Fault == faults < MaxFaults /\ faults' = faults + 1

Lock(a) ==
  /\ todo[a] # {} /\ phase[a] = "lock"
  /\ mutex = NoOne
  /\ mutex' = a
  /\ phase' = [phase EXCEPT ![a] = "exec"]
  /\ UNCHANGED <<db, todo, run, mainVars, clock, countVars, historyVars>>

\* The transaction commits; if the answer to COMMIT is lost the method throws
\* all the same.
Execute(a) ==
  /\ phase[a] = "exec"
  /\ \E o \in todo[a] :
       /\ IsNext(o, todo[a])
       /\ Commits(o, db)
       /\ db' = [db EXCEPT ![o.dom] = Result(o, @)]
       /\ told' = IF a = Server /\ o.kind = "update_job_state"
                  THEN told \cup {<<o.dom, o.job, o.state>>} ELSE told
  /\ \/ phase' = [phase EXCEPT ![a] = "unlock"] /\ UNCHANGED faults
     \/ phase' = [phase EXCEPT ![a] = "threw"] /\ Fault
  /\ UNCHANGED <<mutex, todo, run, mainVars, clock, crashes, requests, ran,
                 lost>>

\* Without START TRANSACTION: the rows inserted before the error stay.
Throw_half(a) ==
  /\ phase[a] = "exec"
  /\ \E o \in todo[a] :
       /\ IsNext(o, todo[a])
       /\ IF Commits(o, db)
          THEN /\ Fault
               /\ db' = [db EXCEPT ![o.dom] =
                           Result([o EXCEPT !.nxt = {}, !.times = {}], @)]
          ELSE UNCHANGED <<db, faults>>
  /\ phase' = [phase EXCEPT ![a] = "threw"]
  /\ UNCHANGED <<mutex, todo, run, mainVars, clock, crashes, requests,
                 historyVars>>

\* ex_processing or ex_node leaves the method: no unlock on this path.
Throw(a) ==
  /\ phase[a] = "exec"
  /\ \E o \in todo[a] :
       /\ IsNext(o, todo[a])
       /\ IF Commits(o, db) THEN Fault ELSE UNCHANGED faults
  /\ phase' = [phase EXCEPT ![a] = "threw"]
  /\ UNCHANGED <<db, mutex, todo, run, mainVars, clock, crashes, requests,
                 historyVars>>

Release(a) ==
  /\ phase[a] = "unlock"
  /\ \E o \in todo[a] :
       /\ IsNext(o, todo[a])
       /\ todo' = [todo EXCEPT ![a] = @ \ {o}]
  /\ mutex' = NoOne
  /\ phase' = [phase EXCEPT ![a] = "lock"]

\* The main loop or the server goes on to its next call; a job's thread, which
\* makes one call at a time, goes on in StartCommand or EndRecorded.
Unlock(a) ==
  /\ a \in {Main, Server}
  /\ Release(a)
  /\ UNCHANGED <<db, run, mainVars, clock, countVars, historyVars>>

DomainStep(a) == Lock(a) \/ Execute(a) \/ Throw(a) \/ Unlock(a)

\* The caller a catches the exception of its call and makes no other call.
Catches(a) ==
  /\ phase[a] = "threw"
  /\ todo' = [todo EXCEPT ![a] = {}]
  /\ phase' = [phase EXCEPT ![a] = "lock"]

Returned(a) == todo[a] = {} /\ phase[a] = "lock"

\* The process ends: its threads and its mutex go, the schemas stay.
Running == {t \in Thread : run[t] \in {"starting", "command", "ending"}}

ProcessEnds ==
  /\ main' = "dead" /\ booting' = FALSE /\ jobs' = {}
  /\ mutex' = NoOne
  /\ todo' = [a \in Actor |-> {}]
  /\ phase' = [a \in Actor |-> "lock"]
  /\ run' = [t \in Thread |-> IF t \in Running THEN "killed" ELSE run[t]]
  /\ lost' = lost \cup {<<t[1], t[2]>> : t \in Running}
  /\ UNCHANGED <<db, start, target, now, clock, ran, told>>

-----------------------------------------------------------------------------
(***************************************************************************)
(* Job::run.  The main loop creates the thread at "starting": the snapshot *)
(* it holds is WAITING, so that the first test of run never returns.       *)
(***************************************************************************)

\* update_state(RUNNING) returned: the command is started.
StartCommand(t) ==
  /\ run[t] = "starting"
  /\ Release(t)
  /\ run' = [run EXCEPT ![t] = "command"]
  /\ UNCHANGED <<db, mainVars, clock, countVars, historyVars>>

\* update_state(RUNNING) threw, outside of any try: the thread's uncaught
\* exception terminates the process.
StartThrew(t) ==
  /\ run[t] = "starting" /\ phase[t] = "threw"
  /\ ProcessEnds
  /\ UNCHANGED countVars

\* With the name of the planning asked when the command has ended.
EndOf_current(t, result) == UpdateJobState(start, t[2], result)

\* pclose returned: the job records SUCCEDED for return code 0, else FAILED,
\* in the schema it was read from.
EndOf(t, result) == UpdateJobState(t[1], t[2], result)

\* Returning without an update when the command fails.
CommandEnds_unrecorded(t) ==
  /\ run[t] = "command"
  /\ \/ /\ run' = [run EXCEPT ![t] = "ending"]
        /\ todo' = [todo EXCEPT ![t] = {EndOf(t, "succeded")}]
     \/ run' = [run EXCEPT ![t] = "done"] /\ UNCHANGED todo
  /\ ran' = ran \cup {<<t[1], t[2], "succeded">>}
  /\ UNCHANGED <<db, mutex, phase, mainVars, clock, countVars, told, lost>>

CommandEnds(t) ==
  /\ run[t] = "command"
  /\ run' = [run EXCEPT ![t] = "ending"]
  /\ \E result \in {"succeded", "failed"} :
       /\ ran' = ran \cup {<<t[1], t[2], result>>}
       /\ todo' = [todo EXCEPT ![t] = {EndOf(t, result)}]
  /\ UNCHANGED <<db, mutex, phase, mainVars, clock, countVars, told, lost>>

EndRecorded(t) ==
  /\ run[t] = "ending"
  /\ Release(t)
  /\ run' = [run EXCEPT ![t] = "done"]
  /\ UNCHANGED <<db, mainVars, clock, countVars, historyVars>>

\* The second update is inside a try: the thread ends, the row stays running.
EndThrew(t) ==
  /\ run[t] = "ending"
  /\ Catches(t)
  /\ run' = [run EXCEPT ![t] = "done"]
  /\ lost' = lost \cup {<<t[1], t[2]>>}
  /\ UNCHANGED <<db, mutex, mainVars, clock, countVars, ran, told>>

JobStep(t) ==
  \/ DomainStep(t)
  \/ StartCommand(t) \/ StartThrew(t)
  \/ CommandEnds(t) \/ EndRecorded(t) \/ EndThrew(t)

-----------------------------------------------------------------------------
(***************************************************************************)
(* set_next_planning, called by the constructor (booting) and by           *)
(* switch_planning.  The ways it can end:                                  *)
(***************************************************************************)

\* TRUE: planning_start_time is the boundary of planning p.
Switches(p) ==
  /\ start' = p
  /\ main' = IF booting THEN "tick" ELSE "dispatch"
  /\ booting' = FALSE
  /\ UNCHANGED <<now, jobs>>

\* FALSE: the constructor has passed planning_start_time by reference, so that
\* it is set all the same; it logs an alert and goes on.
Refuses(p) == Switches(IF booting THEN p ELSE start)

\* ex_processing: caught by the constructor, ends main otherwise.
ThrowsProcessing ==
  IF booting
  THEN /\ Refuses(target)
       /\ todo' = [todo EXCEPT ![Main] = {}]
       /\ phase' = [phase EXCEPT ![Main] = "lock"]
       /\ UNCHANGED <<db, mutex, run, clock, historyVars>>
  ELSE ProcessEnds

\* ex_job: the constructor lets it through, the main loop catches it.
ThrowsJob ==
  IF booting THEN ProcessEnds
  ELSE Refuses(target) /\ UNCHANGED <<domainVars, run, clock, historyVars>>

\* The boundary just passed instead of the one to come.
NextPlanning_passed == clock.day

NextPlanning == clock.day + 1

\* Does the schema exist?  If so it is taken as it is, else it is created.
FindSchema ==
  /\ main = "next"
  /\ target' = NextPlanning
  /\ \/ /\ db[NextPlanning].status # "absent"
        /\ Switches(NextPlanning)
        /\ UNCHANGED <<db, faults>>
     \/ /\ db[NextPlanning].status = "absent"
        /\ db' = [db EXCEPT ![NextPlanning] = Blank("bare")]
        /\ main' = "load"
        /\ UNCHANGED <<start, booting, now, jobs, faults>>
     \/ /\ Fault
        /\ Refuses(NextPlanning)
        /\ UNCHANGED db
  /\ UNCHANGED <<mutex, todo, phase, run, clock, crashes, requests,
                 historyVars>>

\* The skeleton's statements.  If one fails the exception is caught and the
\* method returns FALSE; if the file cannot be opened it returns TRUE.
LoadSkeleton ==
  /\ main = "load"
  /\ \/ /\ db' = [db EXCEPT ![target].status = "loaded"]
        /\ main' = "list"
        /\ UNCHANGED <<start, booting, now, jobs, faults>>
     \/ /\ Fault
        /\ Refuses(target) \/ Switches(target)
        /\ UNCHANGED db
  /\ UNCHANGED <<target, mutex, todo, phase, run, clock, crashes, requests,
                 historyVars>>

\* get_nodes reads the template; it cannot read a resource row.
ListTemplate ==
  /\ main = "list"
  /\ db[Template].resources = {}
  /\ todo' = [todo EXCEPT ![Main] = CopyCalls(db[Template], target)]
  /\ main' = "copy"
  /\ UNCHANGED <<db, mutex, phase, run, booting, start, target, now, jobs,
                 clock, countVars, historyVars>>

\* A resource row (ex_processing), or the database: cannot connect
\* (ex_processing), the query fails (ex_job).
ListThrows ==
  /\ main = "list"
  /\ \/ /\ db[Template].resources # {}
        /\ ThrowsProcessing
        /\ UNCHANGED faults
     \/ Fault /\ ThrowsProcessing
     \/ Fault /\ ThrowsJob
  /\ UNCHANGED <<target, crashes, requests>>

CopyEnds ==
  /\ main = "copy" /\ Returned(Main)
  /\ Switches(target)
  /\ UNCHANGED <<target, domainVars, run, clock, countVars, historyVars>>

CopyThrew ==
  /\ main = "copy" /\ phase[Main] = "threw"
  /\ ThrowsProcessing
  /\ UNCHANGED <<target, countVars>>

SetNextPlanning ==
  \/ FindSchema \/ LoadSkeleton \/ ListTemplate \/ ListThrows
  \/ CopyEnds \/ CopyThrew

-----------------------------------------------------------------------------
(***************************************************************************)
(* The main loop.                                                          *)
(***************************************************************************)

\* Without the WAITING test.
ReadyJobs_any_state(p, minute) ==
  {<<p, j>> : j \in {k \in get_ready_job(db[p], minute) :
                       Passive \/ NodeOf[k] = Local}}

\* The WAITING jobs get_ready_jobs returns at the given minute: those of
\* every node in PASSIVE mode, of this node otherwise.
ReadyJobs(p, minute) ==
  {<<p, j>> : j \in {k \in get_ready_job(db[p], minute) :
     /\ db[p].state[k] = "waiting"
     /\ Passive \/ NodeOf[k] = Local}}

\* The top of an iteration: read the clock and, if the planning has started,
\* the jobs that are ready.  A query that fails (ex_job; always, on a schema
\* without tables) leaves the whole try block, the switch included.
Tick ==
  /\ main = "tick"
  /\ PromptStart => \A t \in Thread : run[t] # "starting"
  /\ \E minute \in Minute :
       /\ now' = [day |-> clock.day, late |-> clock.late, minute |-> minute]
       /\ IF start > clock.day
          THEN main' = "window" /\ UNCHANGED <<jobs, faults>>
          ELSE \/ /\ db[start].status = "loaded"
                  /\ jobs' = ReadyJobs(start, minute)
                  /\ main' = "window"
                  /\ UNCHANGED faults
               \/ /\ db[start].status = "loaded"
                  /\ Fault /\ main' = "dispatch" /\ UNCHANGED jobs
               \/ /\ db[start].status = "bare"
                  /\ main' = "dispatch" /\ UNCHANGED <<jobs, faults>>
  /\ UNCHANGED <<domainVars, run, booting, start, target, clock, crashes,
                 requests, historyVars>>

\* The same read cannot connect, which it never can to a schema that does not
\* exist: ex_processing ends main.
TickThrows ==
  /\ main = "tick"
  /\ start <= clock.day
  /\ IF db[start].status = "absent" THEN UNCHANGED faults ELSE Fault
  /\ ProcessEnds
  /\ UNCHANGED <<target, crashes, requests>>

\* Against a next start computed at the top too.
WithinBuffer_once == now.late

\* get_next_planning_start_time() - now <= 60: the boundary after the time of
\* this call is at most 60 seconds after the time read at the top.
WithinBuffer == clock.day = now.day /\ now.late

CheckBuffer ==
  /\ main = "window"
  /\ main' = IF WithinBuffer THEN "next" ELSE "dispatch"
  /\ UNCHANGED <<domainVars, run, booting, start, target, now, jobs, clock,
                 countVars, historyVars>>

\* Without the second test of planning_start_time.
Dispatched_unchecked == {r \in jobs : NodeOf[r[2]] = Local}

\* Off by one: from the day after.
Dispatched_late ==
  IF start < now.day THEN {r \in jobs : NodeOf[r[2]] = Local} ELSE {}

\* The jobs to run, provided the planning, which may have been switched
\* since they were fetched, has started at the time read at the top.
Dispatched == IF start <= now.day THEN {r \in jobs : NodeOf[r[2]] = Local} ELSE {}

\* The thread created for a job is the first unused one; creating more than
\* MaxRuns for a job of a planning is beyond the bound.
Created ==
  {t \in Thread : /\ <<t[1], t[2]>> \in Dispatched
                  /\ run[t] = "none"
                  /\ \A k \in 1 .. MaxRuns :
                       k < t[3] => run[<<t[1], t[2], k>>] # "none"}

Dispatch ==
  /\ main = "dispatch"
  /\ run' = [t \in Thread |-> IF t \in Created THEN "starting" ELSE run[t]]
  /\ todo' = [a \in Actor |->
                IF a \in Created
                THEN {UpdateJobState(a[1], a[2], "running")} ELSE todo[a]]
  /\ jobs' = {}
  /\ main' = "tick"
  /\ UNCHANGED <<db, mutex, phase, booting, start, target, now, clock,
                 countVars, historyVars>>

MainStep ==
  \/ DomainStep(Main) \/ SetNextPlanning
  \/ Tick \/ TickThrows \/ CheckBuffer \/ Dispatch

-----------------------------------------------------------------------------
(***************************************************************************)
(* The RPC server: one thread, one request at a time (TSimpleServer), of a *)
(* client that addresses this node.                                        *)
(***************************************************************************)
Serves ==
  /\ main # "dead" /\ ~booting
  /\ Returned(Server)
  /\ requests < MaxRequests /\ requests' = requests + 1

\* add_node, add_job, remove_job, update_job_state
Receive ==
  /\ Serves
  /\ \E calls \in Requests : todo' = [todo EXCEPT ![Server] = calls]
  /\ UNCHANGED <<db, mutex, phase, run, mainVars, clock, faults, crashes,
                 historyVars>>

\* remove_node reads the node without the mutex and, when there is a row of
\* it, the resources of the schema, whatever their node, and the node's jobs;
\* an exception of that read goes back to the client.
ReceiveRemoveNode ==
  /\ Serves
  /\ \E r \in NodesToRemove :
       todo' = [todo EXCEPT ![Server] =
                  IF /\ db[r[1]].status = "loaded"
                     /\ r[2] \in db[r[1]].nodes => db[r[1]].resources = {}
                  THEN RemoveNodeCalls(r[1], r[2], db[r[1]]) ELSE {}]
  /\ UNCHANGED <<db, mutex, phase, run, mainVars, clock, faults, crashes,
                 historyVars>>

\* The exception goes back to the client; the server takes the next request.
Answer ==
  /\ Catches(Server)
  /\ UNCHANGED <<db, mutex, run, mainVars, clock, countVars, historyVars>>

ServerStep == DomainStep(Server) \/ Receive \/ ReceiveRemoveNode \/ Answer

-----------------------------------------------------------------------------
(***************************************************************************)
(* The environment.                                                        *)
(***************************************************************************)
Time ==
  /\ \/ ~clock.late /\ clock' = [day |-> clock.day, late |-> TRUE]
     \/ clock.day < MaxDay /\ clock' = [day |-> clock.day + 1, late |-> FALSE]
  /\ UNCHANGED <<domainVars, run, mainVars, countVars, historyVars>>

\* The process is killed.
Crash ==
  /\ main # "dead"
  /\ crashes < MaxCrashes /\ crashes' = crashes + 1
  /\ ProcessEnds
  /\ UNCHANGED <<target, faults, requests>>

Restart ==
  /\ main = "dead"
  /\ main' = "next" /\ booting' = TRUE
  /\ UNCHANGED <<domainVars, run, start, target, now, jobs, clock, countVars,
                 historyVars>>

Next ==
  \/ MainStep
  \/ \E t \in Thread : JobStep(t)
  \/ ServerStep
  \/ Time \/ Crash \/ Restart

Spec == Init /\ [][Next]_vars

\* The three kinds of threads are scheduled; a request a client has made is
\* served; commands end.  Nobody has to make a request, nothing has to fail.
Fairness ==
  /\ WF_vars(MainStep)
  /\ \A t \in Thread : WF_vars(JobStep(t))
  /\ WF_vars(DomainStep(Server) \/ Answer)

FairSpec == Spec /\ Fairness

-----------------------------------------------------------------------------
MainPC == {"next", "load", "list", "copy", "tick", "window", "dispatch", "dead"}
RunPC == {"none", "starting", "command", "ending", "done", "killed"}
Time3 == [day : 0 .. MaxDay, late : BOOLEAN, minute : Minute]

TypeOK ==
  /\ db \in [Schema -> Rows]
  /\ mutex \in Actor \cup {NoOne}
  /\ todo \in [Actor -> SUBSET Operation]
  /\ phase \in [Actor -> {"lock", "exec", "unlock", "threw"}]
  /\ run \in [Thread -> RunPC]
  /\ main \in MainPC /\ booting \in BOOLEAN
  /\ start \in Plannings /\ target \in Plannings
  /\ now \in Time3
  /\ jobs \subseteq Plannings \X Job
  /\ clock \in [day : 0 .. MaxDay, late : BOOLEAN]
  /\ {faults, crashes, requests} \subseteq Nat
  /\ ran \subseteq Plannings \X Job \X JobState
  /\ told \subseteq Schema \X Job \X JobState
  /\ lost \subseteq Plannings \X Job

\* A job is recorded SUCCEDED or FAILED in a planning only if a command of that
\* job, read from that same planning, ended so, or a client imposed the state:
\* the planning may have been switched or the process restarted in between.
RecordedEndIsTrue ==
  \A p \in Plannings, j \in Job :
    db[p].state[j] \in {"succeded", "failed"} =>
      <<p, j, db[p].state[j]>> \in ran \cup told

\* A job is RUNNING in a planning only while a thread of it is alive, unless
\* its thread was killed or could not write its end, or a client imposed the
\* state: no normal path of Job::run leaves a job RUNNING for ever.
RunningHasThread ==
  \A p \in Plannings, j \in Job :
    db[p].state[j] = "running" =>
      \/ \E t \in Running : <<t[1], t[2]>> = <<p, j>>
      \/ <<p, j>> \in lost
      \/ <<p, j, "running">> \in told

\* A thread is only created for a job of the planning in use, once that
\* planning has started: the jobs fetched just before a switch are dropped.
OnlyCurrentIsDispatched ==
  [][\A t \in Thread :
       run[t] = "none" /\ run'[t] # "none" => t[1] = start /\ start <= clock.day]_vars

\* A schema that exists is taken as it is (domain.cpp:187), also when its copy
\* was cut short by an error or a kill: what it holds is then a beginning of
\* the copy, in its order, and nothing else; each job with all its links and
\* with its constraints as get_time_constraints reads them, one after 09:06:07
\* as 00:00.  As long as no client changes the schemas.
IsPrefix(made, from) ==
  /\ made.nodes \subseteq from.nodes
  /\ JobsOf(made) \subseteq JobsOf(from)
  /\ made.times = {<<c[1], AsRead(c[2])>> :
                     c \in {d \in from.times : HasJob(made, d[1])}}
  /\ made.links = {l \in from.links : HasJob(made, l[1])}
  /\ \A j \in JobsOf(made), k \in JobsOf(from) :
       NodeOf[k] = NodeOf[j] /\ k < j => HasJob(made, k)
  /\ \A n \in made.nodes, k \in JobsOf(from) :
       NodeOf[k] < n => HasJob(made, k)

PlanningIsPrefix == \A p \in Plannings : IsPrefix(db[p], db[Template])

\* In days, plannings are prepared, switched to and dispatched as DayClock
\* says, whatever fails meanwhile.
Days == INSTANCE DayClock WITH
          day <- clock.day,
          late <- clock.late,
          main <- IF main \in {"load", "list", "copy"} THEN "make" ELSE main,
          seen <- [day |-> now.day, late |-> now.late]
DaysImplemented == Days!Spec

-----------------------------------------------------------------------------
(***************************************************************************)
(* Properties of the process when nothing fails: no database error, no     *)
(* kill, no request whose transaction fails; and PromptStart.              *)
(***************************************************************************)

\* Whoever owns updates_mutex is inside a Domain method and will unlock it: no
\* sequence of the process's own calls makes a method throw between the lock
\* and the unlock.
MutexIsReturned == mutex # NoOne => phase[mutex] \in {"exec", "unlock"}

\* In each planning a job's state only goes from waiting to running to
\* succeded or failed: the loop, the threads and the switches between
\* plannings implement the life cycle of a job.
Lifecycle == INSTANCE JobLifecycle WITH
               state <- [p \in Plannings |-> db[p].state]
LifecycleImplemented == Lifecycle!Spec

\* A job with predecessors is only run after a command of one of them has
\* ended with success in the same planning.
PredecessorRanFirst ==
  \A t \in Thread :
    run[t] # "none" =>
      \/ Prv(db[t[1]], t[2]) = {}
      \/ \E p \in Prv(db[t[1]], t[2]) : <<t[1], p, "succeded">> \in ran

\* A planning in use holds the nodes, the jobs, the links and the constraints
\* of the template it was made from (domain.h:92, "Sets the planning according
\* to the template"), when the template has not changed since.
PlanningIsCopied ==
  main \in {"tick", "window", "dispatch"} =>
    LET from == db[Template]
        made == db[start]
    IN  /\ from.nodes \subseteq made.nodes
        /\ JobsOf(from) \subseteq JobsOf(made)
        /\ from.links \subseteq made.links
        /\ from.times \subseteq made.times

\* A local job that waits, ready, in the planning in use is run, unless the
\* next planning takes over first.
ReadyJobIsRun ==
  \A p \in Plannings, j \in Job :
    (/\ start = p /\ p <= clock.day /\ ~booting
     /\ db[p].state[j] = "waiting"
     /\ NodeOf[j] = Local
     /\ \A minute \in Minute : j \in get_ready_job(db[p], minute))
    ~> (db[p].state[j] # "waiting" \/ start # p)

\* The end of a command that was started is written to the planning the job
\* was read from (job.h:64, "Runs the job and updates its state in the
\* database").
EndIsRecorded ==
  \A t \in Thread :
    run[t] = "command" ~> db[t[1]].state[t[2]] \in {"succeded", "failed"}

-----------------------------------------------------------------------------
(***************************************************************************)
(* What the documents and comments say and the code does not do.           *)
(***************************************************************************)

\* "This prevents the previous jobs to be run again" (master.cpp:225): no job
\* of a planning is given to two threads.
RunOnce ==
  \A p \in Plannings, j \in Job :
    \A k, l \in 1 .. MaxRuns :
      run[<<p, j, k>>] # "none" /\ run[<<p, j, l>>] # "none" => k = l

\* The predecessors of job j in planning p have all been run.
PredecessorsRan(p, j) ==
  \A q \in Prv(db[p], j) :
    \E result \in {"succeded", "failed"} : <<p, q, result>> \in ran

\* "The jobs that must be run before the job" (model.thrift:178): a job is run
\* only after every one of its predecessors.
AllPredecessorsRanFirst ==
  \A t \in Thread : run[t] # "none" => PredecessorsRan(t[1], t[2])

\* What a t_job says of when it is run, "The jobs that must be run before the
\* job" (model.thrift:178) and "The list of the job's time constraints (at,
\* before, after)" (model.thrift:192): it is given to a thread once every
\* predecessor has been run, at a minute when one of its constraints holds.
RunWhenDue ==
  [][\A t \in Thread :
       run[t] = "none" /\ run'[t] # "none" =>
         /\ PredecessorsRan(t[1], t[2])
         /\ t[2] \in get_ready_time(db[t[1]], now.minute)]_vars
=============================================================================
