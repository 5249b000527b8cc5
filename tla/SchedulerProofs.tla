-------------------------- MODULE SchedulerProofs --------------------------
(***************************************************************************)
(* What holds of the scheduler for every set of nodes, jobs and requests,  *)
(* every template and every bound.                                         *)
(***************************************************************************)
EXTENDS Scheduler, TLAPS

-----------------------------------------------------------------------------
(***************************************************************************)
(* The calls of a planning have the type of calls, and a call leaves rows. *)
(***************************************************************************)

LEMMA UpdateJobStateType ==
  ASSUME NEW d \in Schema, NEW j \in Job, NEW s \in JobState
  PROVE  UpdateJobState(d, j, s) \in Operation
BY NamesAssumption DEF UpdateJobState, Operation, Kind

LEMMA RemoveNodeCallsType ==
  ASSUME NEW d \in Schema, NEW n \in Node, NEW read
  PROVE  RemoveNodeCalls(d, n, read) \subseteq Operation
<1>1. Template \in Schema
  BY TimeAssumption DEF Template, Schema
<1>2. \A j \in Job : RemoveJob(Template, j) \in Operation
  BY <1>1, NamesAssumption DEF RemoveJob, Operation, Kind, JobState
<1>3. NodeCall("delete_node", d, n) \in Operation
  BY DEF NodeCall, Operation, Kind, JobState, NodeKind
<1> QED
  BY <1>2, <1>3 DEF RemoveNodeCalls, JobsOf

LEMMA AsReadType ==
  ASSUME NEW c \in Constraint
  PROVE  AsRead(c) \in Constraint
BY TimeAssumption DEF Constraint, AsRead

LEMMA CopyCallsType ==
  ASSUME NEW d \in Schema, NEW t \in Rows
  PROVE  CopyCalls(t, d) \subseteq Operation
<1>1. Template \in Schema
  BY TimeAssumption DEF Template, Schema
<1>2. \A n \in Node : NodeCall("add_node", d, n) \in Operation
  BY DEF NodeCall, Operation, Kind, JobState, NodeKind
<1>3. \A j \in Job : \A nxt \in SUBSET Job : \A times \in SUBSET Constraint :
        AddJob(d, Template, j, {}, nxt, times) \in Operation
  BY <1>1, NamesAssumption DEF AddJob, Operation, Kind, JobState
<1>4. t.nodes \subseteq Node
  BY DEF Rows
<1>5. \A j \in Job : /\ get_time_constraints(t, j) \subseteq Constraint
                     /\ get_jobs_next(t, j) \subseteq Job
  BY AsReadType DEF get_time_constraints, Times, get_jobs_next
<1> QED
  BY <1>2, <1>3, <1>4, <1>5 DEF CopyCalls, JobsOf

LEMMA ResultType ==
  ASSUME NEW o \in Operation, NEW here \in Rows
  PROVE  Result(o, here) \in Rows
<1>1. ASSUME o.kind = "add_job"
      PROVE  NewLinks(o) \subseteq Job \X Job
             /\ ({o.job} \X o.times) \subseteq Job \X Constraint
  BY <1>1 DEF NewLinks, Operation, NodeKind
<1>2. o.node \in Node /\ o.state \in JobState
  BY DEF Operation
<1>3. \A j \in Job : here.state[j] \in JobState \cup {NoRow}
  BY DEF Rows
<1>4. \A j \in Job : StateAfter(o, here.state[j]) \in JobState \cup {NoRow}
  BY <1>2, <1>3 DEF StateAfter, JobState
<1>5. Result(o, here).state \in [Job -> JobState \cup {NoRow}]
  BY <1>3, <1>4 DEF Result
<1> QED
  BY <1>1, <1>2, <1>5 DEF Result, Rows

LEMMA BlankType ==
  ASSUME NEW s \in {"absent", "bare", "loaded"}
  PROVE  Blank(s) \in Rows
BY DEF Blank, Rows

-----------------------------------------------------------------------------
(***************************************************************************)
(* Type correctness.                                                       *)
(***************************************************************************)

LEMMA InitType == Init => TypeOK
<1> SUFFICES ASSUME Init PROVE TypeOK
  OBVIOUS
<1>1. \A s \in Schema : db[s] \in Rows
  BY BlankType, SchedulerAssumption DEF Init
<1>2. 1 \in Plannings
  BY TimeAssumption DEF Plannings
<1>3. now \in Time3 /\ clock \in [day : 0 .. MaxDay, late : BOOLEAN]
  BY TimeAssumption DEF Init, Time3
<1> QED
  BY <1>1, <1>2, <1>3 DEF Init, TypeOK, MainPC, RunPC

LEMMA PlanningsType ==
  /\ Plannings \subseteq Schema
  /\ \A t \in Thread : t[1] \in Plannings /\ t[2] \in Job
  /\ \A d \in 0 .. MaxDay : d + 1 \in Plannings
BY TimeAssumption, SchedulerAssumption DEF Plannings, Schema, Thread

LEMMA DomainStepType ==
  ASSUME TypeOK, NEW a \in Actor, DomainStep(a)
  PROVE  TypeOK'
<1>1. CASE Lock(a)
  BY <1>1 DEF Lock, TypeOK, mainVars, countVars, historyVars
<1>2. CASE Execute(a)
  <2>1. PICK o \in todo[a] :
          /\ IsNext(o, todo[a])
          /\ db' = [db EXCEPT ![o.dom] = Result(o, @)]
          /\ told' = IF a = Server /\ o.kind = "update_job_state"
                     THEN told \cup {<<o.dom, o.job, o.state>>} ELSE told
    BY <1>2 DEF Execute
  <2>2. o \in Operation
    BY DEF TypeOK
  <2>3. db' \in [Schema -> Rows]
    BY <2>1, <2>2, ResultType DEF TypeOK, Operation
  <2>4. told' \subseteq Schema \X Job \X JobState
    BY <2>1, <2>2 DEF TypeOK, Operation, NodeKind
  <2>5. /\ phase' \in [Actor -> {"lock", "exec", "unlock", "threw"}]
        /\ faults' \in Nat
    BY <1>2 DEF Execute, Fault, TypeOK
  <2> QED
    BY <1>2, <2>3, <2>4, <2>5 DEF Execute, TypeOK, mainVars
<1>3. CASE Throw(a)
  BY <1>3 DEF Throw, Fault, TypeOK, mainVars, historyVars
<1>4. CASE Unlock(a)
  BY <1>4 DEF Unlock, Release, TypeOK, mainVars, countVars, historyVars
<1> QED
  BY <1>1, <1>2, <1>3, <1>4 DEF DomainStep

LEMMA ProcessEndsType ==
  ASSUME TypeOK, ProcessEnds, UNCHANGED target,
         faults' \in Nat, crashes' \in Nat, requests' \in Nat
  PROVE  TypeOK'
<1>1. lost' \subseteq Plannings \X Job
  BY PlanningsType DEF ProcessEnds, TypeOK, Running
<1>2. run' \in [Thread -> RunPC]
  BY DEF ProcessEnds, TypeOK, RunPC
<1> QED
  BY <1>1, <1>2 DEF ProcessEnds, TypeOK, MainPC

LEMMA JobStepType ==
  ASSUME TypeOK, NEW t \in Thread, JobStep(t)
  PROVE  TypeOK'
<1> t \in Actor /\ t[1] \in Schema /\ t[1] \in Plannings /\ t[2] \in Job
  BY PlanningsType DEF Actor
<1>1. CASE DomainStep(t)
  BY <1>1, DomainStepType
<1>2. CASE StartCommand(t)
  BY <1>2 DEF StartCommand, Release, TypeOK, RunPC, mainVars, countVars,
              historyVars
<1>3. CASE StartThrew(t)
  BY <1>3, ProcessEndsType DEF StartThrew, TypeOK, countVars, ProcessEnds
<1>4. CASE CommandEnds(t)
  <2>1. PICK result \in {"succeded", "failed"} :
          /\ ran' = ran \cup {<<t[1], t[2], result>>}
          /\ todo' = [todo EXCEPT ![t] = {EndOf(t, result)}]
    BY <1>4 DEF CommandEnds
  <2>2. EndOf(t, result) \in Operation
    BY UpdateJobStateType DEF EndOf, JobState
  <2>3. todo' \in [Actor -> SUBSET Operation]
    BY <2>1, <2>2 DEF TypeOK
  <2>4. ran' \subseteq Plannings \X Job \X JobState
    BY <2>1 DEF TypeOK, JobState
  <2> QED
    BY <1>4, <2>3, <2>4
       DEF CommandEnds, TypeOK, RunPC, mainVars, countVars
<1>5. CASE EndRecorded(t)
  BY <1>5 DEF EndRecorded, Release, TypeOK, RunPC, mainVars, countVars,
              historyVars
<1>6. CASE EndThrew(t)
  BY <1>6 DEF EndThrew, Catches, TypeOK, RunPC, mainVars, countVars
<1> QED
  BY <1>1, <1>2, <1>3, <1>4, <1>5, <1>6 DEF JobStep

LEMMA SwitchesType ==
  ASSUME TypeOK, NEW p \in Plannings, Switches(p)
  PROVE  /\ main' \in MainPC /\ booting' \in BOOLEAN /\ start' \in Plannings
         /\ now' \in Time3 /\ jobs' \subseteq Plannings \X Job
BY DEF Switches, TypeOK, MainPC

LEMMA RefusesType ==
  ASSUME TypeOK, NEW p \in Plannings, Refuses(p)
  PROVE  /\ main' \in MainPC /\ booting' \in BOOLEAN /\ start' \in Plannings
         /\ now' \in Time3 /\ jobs' \subseteq Plannings \X Job
BY DEF Refuses, Switches, TypeOK, MainPC

LEMMA ThrowsType ==
  ASSUME TypeOK, ThrowsProcessing \/ ThrowsJob, UNCHANGED target,
         faults' \in Nat, crashes' \in Nat, requests' \in Nat
  PROVE  TypeOK'
<1>1. CASE ProcessEnds
  BY <1>1, ProcessEndsType
<1>2. CASE ThrowsProcessing /\ booting
  <2>1. target \in Plannings
    BY DEF TypeOK
  <2> QED
    BY <1>2, <2>1, RefusesType DEF ThrowsProcessing, TypeOK, historyVars
<1>3. CASE ThrowsJob /\ ~booting
  <2>1. target \in Plannings
    BY DEF TypeOK
  <2> QED
    BY <1>3, <2>1, RefusesType DEF ThrowsJob, TypeOK, historyVars, domainVars
<1> QED
  BY <1>1, <1>2, <1>3 DEF ThrowsProcessing, ThrowsJob

LEMMA SetNextPlanningType ==
  ASSUME TypeOK, SetNextPlanning
  PROVE  TypeOK'
<1> target \in Plannings /\ target \in Schema /\ Template \in Schema
  BY PlanningsType, TimeAssumption DEF TypeOK, Template, Schema
<1> NextPlanning \in Plannings /\ NextPlanning \in Schema
  BY PlanningsType DEF TypeOK, NextPlanning
<1>1. CASE FindSchema
  <2>1. db' \in [Schema -> Rows]
    BY <1>1, BlankType DEF FindSchema, TypeOK
  <2>2. /\ main' \in MainPC /\ booting' \in BOOLEAN /\ start' \in Plannings
        /\ now' \in Time3 /\ jobs' \subseteq Plannings \X Job
    <3>1. CASE Switches(NextPlanning)
      BY <3>1, SwitchesType
    <3>2. CASE Refuses(NextPlanning)
      BY <3>2, RefusesType
    <3>3. CASE main' = "load" /\ UNCHANGED <<start, booting, now, jobs>>
      BY <3>3 DEF TypeOK, MainPC
    <3> QED
      BY <1>1, <3>1, <3>2, <3>3 DEF FindSchema
  <2>3. faults' \in Nat
    BY <1>1 DEF FindSchema, Fault, TypeOK
  <2> QED
    BY <1>1, <2>1, <2>2, <2>3 DEF FindSchema, TypeOK, historyVars
<1>2. CASE LoadSkeleton
  <2>1. db' \in [Schema -> Rows]
    <3>1. \A r \in Rows : [r EXCEPT !.status = "loaded"] \in Rows
      BY DEF Rows
    <3> QED
      BY <1>2, <3>1 DEF LoadSkeleton, TypeOK
  <2>2. /\ main' \in MainPC /\ booting' \in BOOLEAN /\ start' \in Plannings
        /\ now' \in Time3 /\ jobs' \subseteq Plannings \X Job
    <3>1. CASE Switches(target)
      BY <3>1, SwitchesType
    <3>2. CASE Refuses(target)
      BY <3>2, RefusesType
    <3>3. CASE main' = "list" /\ UNCHANGED <<start, booting, now, jobs>>
      BY <3>3 DEF TypeOK, MainPC
    <3> QED
      BY <1>2, <3>1, <3>2, <3>3 DEF LoadSkeleton
  <2>3. faults' \in Nat
    BY <1>2 DEF LoadSkeleton, Fault, TypeOK
  <2> QED
    BY <1>2, <2>1, <2>2, <2>3 DEF LoadSkeleton, TypeOK, historyVars
<1>3. CASE ListTemplate
  <2>1. CopyCalls(db[Template], target) \subseteq Operation
    BY CopyCallsType DEF TypeOK
  <2> QED
    BY <1>3, <2>1 DEF ListTemplate, TypeOK, MainPC, countVars, historyVars
<1>4. CASE ListThrows
  BY <1>4, ThrowsType DEF ListThrows, Fault, TypeOK
<1>5. CASE CopyEnds
  BY <1>5, SwitchesType
     DEF CopyEnds, TypeOK, domainVars, countVars, historyVars
<1>6. CASE CopyThrew
  BY <1>6, ThrowsType DEF CopyThrew, TypeOK, countVars
<1> QED
  BY <1>1, <1>2, <1>3, <1>4, <1>5, <1>6 DEF SetNextPlanning

LEMMA MainStepType ==
  ASSUME TypeOK, MainStep
  PROVE  TypeOK'
<1>1. CASE DomainStep(Main)
  BY <1>1, DomainStepType DEF Actor
<1>2. CASE SetNextPlanning
  BY <1>2, SetNextPlanningType
<1>3. CASE Tick
  <2>1. now' \in Time3
    BY <1>3 DEF Tick, TypeOK, Time3
  <2>2. jobs' \subseteq Plannings \X Job
    BY <1>3 DEF Tick, TypeOK, ReadyJobs, get_ready_job, JobsOf
  <2>3. main' \in MainPC
    BY <1>3 DEF Tick, MainPC
  <2>4. faults' \in Nat
    BY <1>3 DEF Tick, TypeOK, Fault
  <2> QED
    BY <1>3, <2>1, <2>2, <2>3, <2>4 DEF Tick, TypeOK, domainVars, historyVars
<1>4. CASE TickThrows
  BY <1>4, ProcessEndsType DEF TickThrows, Fault, TypeOK
<1>5. CASE CheckBuffer
  BY <1>5 DEF CheckBuffer, TypeOK, MainPC, domainVars, countVars, historyVars
<1>6. CASE Dispatch
  <2>1. \A t \in Thread : UpdateJobState(t[1], t[2], "running") \in Operation
    BY PlanningsType, UpdateJobStateType DEF JobState
  <2>2. Created \subseteq Thread
    BY DEF Created
  <2>3. todo' \in [Actor -> SUBSET Operation]
    BY <1>6, <2>1, <2>2 DEF Dispatch, TypeOK
  <2>4. run' \in [Thread -> RunPC]
    BY <1>6 DEF Dispatch, TypeOK, RunPC
  <2> QED
    BY <1>6, <2>3, <2>4 DEF Dispatch, TypeOK, MainPC, countVars, historyVars
<1> QED
  BY <1>1, <1>2, <1>3, <1>4, <1>5, <1>6 DEF MainStep

LEMMA ServerStepType ==
  ASSUME TypeOK, ServerStep
  PROVE  TypeOK'
<1>1. CASE DomainStep(Server)
  BY <1>1, DomainStepType DEF Actor
<1>2. CASE Receive
  <2>1. PICK calls \in Requests : todo' = [todo EXCEPT ![Server] = calls]
    BY <1>2 DEF Receive
  <2>2. calls \in SUBSET Operation
    BY SchedulerAssumption
  <2>3. todo' \in [Actor -> SUBSET Operation]
    BY <2>1, <2>2 DEF TypeOK
  <2> QED
    BY <1>2, <2>3 DEF Receive, Serves, TypeOK, mainVars, historyVars
<1>3. CASE ReceiveRemoveNode
  <2>1. PICK r \in NodesToRemove :
          todo' = [todo EXCEPT ![Server] =
                  IF /\ db[r[1]].status = "loaded"
                     /\ r[2] \in db[r[1]].nodes => db[r[1]].resources = {}
                  THEN RemoveNodeCalls(r[1], r[2], db[r[1]]) ELSE {}]
    BY <1>3 DEF ReceiveRemoveNode
  <2>2. RemoveNodeCalls(r[1], r[2], db[r[1]]) \subseteq Operation
    BY RemoveNodeCallsType, SchedulerAssumption
  <2>3. todo' \in [Actor -> SUBSET Operation]
    BY <2>1, <2>2 DEF TypeOK
  <2> QED
    BY <1>3, <2>3 DEF ReceiveRemoveNode, Serves, TypeOK, mainVars, historyVars
<1>4. CASE Answer
  BY <1>4 DEF Answer, Catches, TypeOK, mainVars, countVars, historyVars
<1> QED
  BY <1>1, <1>2, <1>3, <1>4 DEF ServerStep

LEMMA NextType == TypeOK /\ [Next]_vars => TypeOK'
<1> SUFFICES ASSUME TypeOK, [Next]_vars PROVE TypeOK'
  OBVIOUS
<1>1. CASE MainStep
  BY <1>1, MainStepType
<1>2. CASE \E t \in Thread : JobStep(t)
  BY <1>2, JobStepType
<1>3. CASE ServerStep
  BY <1>3, ServerStepType
<1>4. CASE Time
  <2>1. clock' \in [day : 0 .. MaxDay, late : BOOLEAN]
    <3>1. clock.day \in 0 .. MaxDay /\ clock.late \in BOOLEAN
      BY DEF TypeOK
    <3>2. clock.day < MaxDay => clock.day + 1 \in 0 .. MaxDay
      BY <3>1, TimeAssumption
    <3>3. \A d \in 0 .. MaxDay, b \in BOOLEAN :
            [day |-> d, late |-> b] \in [day : 0 .. MaxDay, late : BOOLEAN]
      OBVIOUS
    <3>4. \/ clock' = [day |-> clock.day, late |-> TRUE]
          \/ clock.day < MaxDay /\ clock' = [day |-> clock.day + 1, late |-> FALSE]
      BY <1>4 DEF Time
    <3> QED
      BY <3>1, <3>2, <3>3, <3>4
  <2> QED
    BY <1>4, <2>1
       DEF Time, TypeOK, domainVars, mainVars, countVars, historyVars
<1>5. CASE Crash
  BY <1>5, ProcessEndsType DEF Crash, TypeOK
<1>6. CASE Restart
  BY <1>6 DEF Restart, TypeOK, MainPC, domainVars, countVars, historyVars
<1>7. CASE UNCHANGED vars
  BY <1>7 DEF vars, TypeOK, domainVars, mainVars, countVars, historyVars
<1> QED
  BY <1>1, <1>2, <1>3, <1>4, <1>5, <1>6, <1>7 DEF Next

\* Every variable keeps its type, whatever fails and whatever clients ask for.
THEOREM TypeCorrect == Spec => []TypeOK
BY InitType, NextType, PTL DEF Spec

-----------------------------------------------------------------------------
(***************************************************************************)
(* Mutual exclusion.  It is inductive together with the types: whoever is  *)
(* past the lock owns the mutex, so that the owner is the only one whose   *)
(* Release can clear it, and a thrower keeps it.                           *)
(***************************************************************************)

\* Whoever is between the lock and the unlock of a Domain method, or has just
\* thrown out of it, owns updates_mutex.  It says nothing of the statements
\* that create a schema, which are sent without the mutex.
UpdatesExcluded ==
  \A a \in Actor : phase[a] # "lock" => mutex = a

LEMMA DomainStepExcluded ==
  ASSUME TypeOK, UpdatesExcluded, NEW a \in Actor, DomainStep(a)
  PROVE  UpdatesExcluded'
<1> USE DEF UpdatesExcluded
<1>1. CASE Lock(a)
  BY <1>1, SchedulerAssumption DEF Lock, TypeOK
<1>2. CASE Execute(a)
  BY <1>2 DEF Execute, TypeOK
<1>3. CASE Throw(a)
  BY <1>3 DEF Throw, TypeOK
<1>4. CASE Unlock(a)
  BY <1>4 DEF Unlock, Release, TypeOK
<1> QED
  BY <1>1, <1>2, <1>3, <1>4 DEF DomainStep

LEMMA NextExcluded ==
  TypeOK /\ UpdatesExcluded /\ [Next]_vars => UpdatesExcluded'
<1> SUFFICES ASSUME TypeOK, UpdatesExcluded, [Next]_vars
             PROVE  UpdatesExcluded'
  OBVIOUS
<1>1. CASE ProcessEnds
  BY <1>1 DEF ProcessEnds, UpdatesExcluded
<1>2. CASE UNCHANGED <<mutex, phase>>
  BY <1>2 DEF UpdatesExcluded
<1>3. ASSUME NEW a \in Actor, UNCHANGED mutex,
             phase' = [phase EXCEPT ![a] = "lock"]
      PROVE  UpdatesExcluded'
  BY <1>3 DEF UpdatesExcluded, TypeOK
<1>4. ASSUME NEW a \in Actor, Release(a)
      PROVE  UpdatesExcluded'
  BY <1>4 DEF UpdatesExcluded, TypeOK, Release
<1>5. Main \in Actor /\ Server \in Actor
  BY DEF Actor
<1>6. CASE MainStep
  <2>1. CASE DomainStep(Main)
    BY <2>1, <1>5, DomainStepExcluded
  <2>2. CASE SetNextPlanning
    BY <2>2, <1>1, <1>2, <1>3, <1>5
       DEF SetNextPlanning, FindSchema, LoadSkeleton, ListTemplate, ListThrows,
           CopyEnds, CopyThrew, ThrowsProcessing, ThrowsJob, domainVars
  <2> QED
    BY <1>6, <2>1, <2>2, <1>1, <1>2
       DEF MainStep, Tick, TickThrows, CheckBuffer, Dispatch, domainVars
<1>7. ASSUME NEW t \in Thread, JobStep(t)
      PROVE  UpdatesExcluded'
  <2>1. t \in Actor
    BY DEF Actor
  <2>2. CASE DomainStep(t)
    BY <2>1, <2>2, DomainStepExcluded
  <2> QED
    BY <1>7, <2>1, <2>2, <1>1, <1>2, <1>3, <1>4
       DEF JobStep, StartCommand, StartThrew, CommandEnds, EndRecorded,
           EndThrew, Catches
<1>8. CASE ServerStep
  <2>1. CASE DomainStep(Server)
    BY <2>1, <1>5, DomainStepExcluded
  <2> QED
    BY <1>8, <2>1, <1>2, <1>3, <1>5
       DEF ServerStep, Receive, ReceiveRemoveNode, Answer, Catches
<1> QED
  BY <1>6, <1>7, <1>8, <1>1, <1>2
     DEF Next, Time, Crash, Restart, vars, domainVars

-----------------------------------------------------------------------------
(***************************************************************************)
(* The states recorded are true.  The invariant says in addition what each *)
(* thread of control still has to write, and that a thread that is about   *)
(* to unlock after its last update has not been overwritten: this is where *)
(* the mutex is needed.                                                    *)
(***************************************************************************)
Writes(o, p, j, s) ==
  /\ o.kind = "update_job_state"
  /\ o.dom = p /\ o.job = j /\ o.state = s

ThreadCalls ==
  \A t \in Thread : \A o \in todo[t] :
    /\ todo[t] = {o}
    /\ \/ run[t] = "starting" /\ Writes(o, t[1], t[2], "running")
       \/ /\ run[t] = "ending"
          /\ \E s \in {"succeded", "failed"} :
               Writes(o, t[1], t[2], s) /\ <<t[1], t[2], s>> \in ran

MainCalls == \A o \in todo[Main] : o.kind # "update_job_state"

IdleThreads ==
  \A t \in Thread : run[t] \notin {"starting", "ending"} => phase[t] = "lock"

EndNotOverwritten ==
  \A t \in Thread :
    run[t] = "ending" /\ phase[t] = "unlock" =>
      db[t[1]].state[t[2]] # "running"

StateInv ==
  /\ TypeOK /\ UpdatesExcluded
  /\ ThreadCalls /\ MainCalls /\ IdleThreads /\ EndNotOverwritten
  /\ RecordedEndIsTrue /\ RunningHasThread

LEMMA ThreadsAreActors ==
  /\ \A t \in Thread : t \in Actor /\ t # Main /\ t # Server
  /\ Main \in Actor /\ Server \in Actor /\ Main # Server
  /\ \A a \in Actor : a \in Thread \/ a = Main \/ a = Server
BY SchedulerAssumption DEF Actor

LEMMA UpdateWrites ==
  ASSUME NEW p, NEW j, NEW s
  PROVE  Writes(UpdateJobState(p, j, s), p, j, s)
BY DEF Writes, UpdateJobState

LEMMA InitState == Init => StateInv
<1> SUFFICES ASSUME Init PROVE StateInv
  OBVIOUS
<1>1. TypeOK /\ UpdatesExcluded
  BY InitType DEF Init, UpdatesExcluded
<1>2. \A p \in Plannings, j \in Job : db[p].state[j] = "none"
  BY PlanningsType, TimeAssumption
     DEF Init, Blank, Template, Plannings, NoRow
<1>3. RecordedEndIsTrue /\ RunningHasThread
  BY <1>2 DEF RecordedEndIsTrue, RunningHasThread
<1>4. ThreadCalls /\ MainCalls /\ IdleThreads /\ EndNotOverwritten
  BY ThreadsAreActors
     DEF Init, ThreadCalls, MainCalls, IdleThreads, EndNotOverwritten
<1> QED
  BY <1>1, <1>3, <1>4 DEF StateInv

\* One transaction: the only call that can write RUNNING, SUCCEDED or FAILED
\* is the one at the head of the caller's list, and its owner has the mutex.
LEMMA ExecuteState ==
  ASSUME StateInv, NEW a \in Actor, Execute(a), TypeOK', UpdatesExcluded'
  PROVE  StateInv'
<1> USE ThreadsAreActors
<1>1. PICK o \in todo[a] :
        /\ db' = [db EXCEPT ![o.dom] = Result(o, @)]
        /\ told' = IF a = Server /\ o.kind = "update_job_state"
                   THEN told \cup {<<o.dom, o.job, o.state>>} ELSE told
  BY DEF Execute
<1>2. /\ phase[a] = "exec"
      /\ \/ phase' = [phase EXCEPT ![a] = "unlock"]
         \/ phase' = [phase EXCEPT ![a] = "threw"]
      /\ UNCHANGED <<todo, run, ran, lost>>
  BY DEF Execute
<1>3. o \in Operation
  BY DEF StateInv, TypeOK
<1>4. \A p \in Plannings, j \in Job :
        db'[p].state[j] = IF p = o.dom /\ j = o.job
                          THEN StateAfter(o, db[p].state[j])
                          ELSE db[p].state[j]
  BY <1>1, <1>3, PlanningsType DEF StateInv, TypeOK, Operation, Result
<1>5. a \in Thread => \/ run[a] = "starting" /\ Writes(o, a[1], a[2], "running")
                      \/ /\ run[a] = "ending"
                         /\ \E s \in {"succeded", "failed"} :
                              Writes(o, a[1], a[2], s) /\ <<a[1], a[2], s>> \in ran
  BY DEF StateInv, ThreadCalls
<1>6. a = Main => o.kind # "update_job_state"
  BY DEF StateInv, MainCalls
<1>7. ThreadCalls' /\ MainCalls'
  BY <1>2 DEF StateInv, ThreadCalls, MainCalls
<1>8. IdleThreads'
  BY <1>2, <1>5 DEF StateInv, IdleThreads, TypeOK
<1>9. EndNotOverwritten'
  <2> SUFFICES ASSUME NEW t \in Thread, run[t] = "ending", phase'[t] = "unlock"
               PROVE  db'[t[1]].state[t[2]] # "running"
    BY <1>2 DEF EndNotOverwritten
  <2>1. t[1] \in Plannings /\ t[2] \in Job
    BY PlanningsType
  <2>2. CASE t = a
    BY <2>1, <2>2, <1>4, <1>5 DEF Writes, StateAfter, NoRow
  <2>3. CASE t # a
    BY <2>3, <1>2 DEF StateInv, UpdatesExcluded, TypeOK
  <2> QED
    BY <2>2, <2>3
<1>10. RecordedEndIsTrue'
  <2> SUFFICES ASSUME NEW p \in Plannings, NEW j \in Job,
                      db'[p].state[j] \in {"succeded", "failed"}
               PROVE  <<p, j, db'[p].state[j]>> \in ran \cup told'
    BY <1>2 DEF RecordedEndIsTrue
  <2>1. CASE db'[p].state[j] = db[p].state[j]
    BY <2>1, <1>1 DEF StateInv, RecordedEndIsTrue
  <2>2. CASE db'[p].state[j] # db[p].state[j]
    <3>1. /\ p = o.dom /\ j = o.job /\ o.kind = "update_job_state"
          /\ db'[p].state[j] = o.state
      BY <2>2, <1>4 DEF StateAfter, NoRow
    <3> QED
      BY <3>1, <1>1, <1>5, <1>6 DEF Writes
  <2> QED
    BY <2>1, <2>2
<1>11. RunningHasThread'
  <2> SUFFICES ASSUME NEW p \in Plannings, NEW j \in Job,
                      db'[p].state[j] = "running"
               PROVE  \/ \E t \in Running : <<t[1], t[2]>> = <<p, j>>
                      \/ <<p, j>> \in lost
                      \/ <<p, j, "running">> \in told'
    BY <1>2 DEF RunningHasThread, Running
  <2>1. CASE db'[p].state[j] = db[p].state[j]
    BY <2>1, <1>1 DEF StateInv, RunningHasThread
  <2>2. CASE db'[p].state[j] # db[p].state[j]
    <3>1. /\ p = o.dom /\ j = o.job /\ o.kind = "update_job_state"
          /\ o.state = "running"
      BY <2>2, <1>4 DEF StateAfter, NoRow
    <3>2. CASE a = Server
      BY <3>1, <3>2, <1>1
    <3>3. CASE a \in Thread
      BY <3>1, <3>3, <1>5 DEF Writes, Running
    <3> QED
      BY <3>1, <3>2, <3>3, <1>6
  <2> QED
    BY <2>1, <2>2
<1> QED
  BY <1>7, <1>8, <1>9, <1>10, <1>11 DEF StateInv

LEMMA DomainStepState ==
  ASSUME StateInv, NEW a \in Actor, DomainStep(a), TypeOK', UpdatesExcluded'
  PROVE  StateInv'
<1> USE ThreadsAreActors
<1>1. CASE Execute(a)
  BY <1>1, ExecuteState
<1>2. CASE Lock(a) \/ Throw(a) \/ Unlock(a)
  <2>1. UNCHANGED <<db, run, ran, told, lost>>
    BY <1>2 DEF Lock, Throw, Unlock, historyVars
  <2>2. /\ \A t \in Thread : todo'[t] = todo[t]
        /\ todo'[Main] \subseteq todo[Main]
    BY <1>2 DEF Lock, Throw, Unlock, Release, StateInv, TypeOK
  <2>3. ThreadCalls' /\ MainCalls'
    BY <2>1, <2>2 DEF StateInv, ThreadCalls, MainCalls
  <2>4. IdleThreads'
    BY <1>2, <2>1
       DEF Lock, Throw, Unlock, Release, StateInv, TypeOK, IdleThreads,
           ThreadCalls
  <2>5. EndNotOverwritten'
    BY <1>2, <2>1
       DEF Lock, Throw, Unlock, Release, StateInv, TypeOK, EndNotOverwritten
  <2>6. RecordedEndIsTrue' /\ RunningHasThread'
    BY <2>1 DEF StateInv, RecordedEndIsTrue, RunningHasThread, Running
  <2> QED
    BY <2>3, <2>4, <2>5, <2>6 DEF StateInv
<1> QED
  BY <1>1, <1>2 DEF DomainStep

\* A step that leaves the threads, their calls and the histories alone, and at
\* most empties rows.
LEMMA FrameState ==
  ASSUME StateInv, TypeOK', UpdatesExcluded', MainCalls',
         UNCHANGED <<run, historyVars>>,
         \A t \in Thread : todo'[t] = todo[t] /\ phase'[t] = phase[t],
         \A p \in Plannings, j \in Job :
           db'[p].state[j] \in {db[p].state[j], NoRow}
  PROVE  StateInv'
<1>1. ThreadCalls' /\ IdleThreads'
  BY DEF StateInv, ThreadCalls, IdleThreads, historyVars
<1>2. EndNotOverwritten'
  BY PlanningsType DEF StateInv, EndNotOverwritten, NoRow
<1>3. RecordedEndIsTrue'
  BY DEF StateInv, RecordedEndIsTrue, NoRow, historyVars
<1>4. RunningHasThread'
  BY DEF StateInv, RunningHasThread, Running, NoRow, historyVars
<1> QED
  BY <1>1, <1>2, <1>3, <1>4 DEF StateInv

LEMMA ProcessEndsState ==
  ASSUME StateInv, ProcessEnds, TypeOK', UpdatesExcluded'
  PROVE  StateInv'
<1> USE ThreadsAreActors
<1>1. ThreadCalls' /\ MainCalls' /\ IdleThreads' /\ EndNotOverwritten'
  BY DEF ProcessEnds, ThreadCalls, MainCalls, IdleThreads, EndNotOverwritten
<1>2. RecordedEndIsTrue'
  BY DEF StateInv, ProcessEnds, RecordedEndIsTrue
<1>3. RunningHasThread'
  <2> SUFFICES ASSUME NEW p \in Plannings, NEW j \in Job,
                      db[p].state[j] = "running"
               PROVE  <<p, j>> \in lost' \/ <<p, j, "running">> \in told'
    BY DEF ProcessEnds, RunningHasThread
  <2> QED
    BY DEF StateInv, ProcessEnds, RunningHasThread
<1> QED
  BY <1>1, <1>2, <1>3 DEF StateInv

LEMMA JobStepState ==
  ASSUME StateInv, NEW t \in Thread, JobStep(t), TypeOK', UpdatesExcluded'
  PROVE  StateInv'
<1> USE ThreadsAreActors
<1> t[1] \in Plannings /\ t[2] \in Job
  BY PlanningsType
<1>1. CASE DomainStep(t)
  BY <1>1, DomainStepState
<1>2. CASE StartThrew(t)
  BY <1>2, ProcessEndsState DEF StartThrew
<1>3. CASE CommandEnds(t)
  <2>1. PICK result \in {"succeded", "failed"} :
          /\ ran' = ran \cup {<<t[1], t[2], result>>}
          /\ todo' = [todo EXCEPT ![t] = {EndOf(t, result)}]
    BY <1>3 DEF CommandEnds
  <2>2. /\ run[t] = "command" /\ run' = [run EXCEPT ![t] = "ending"]
        /\ UNCHANGED <<db, phase, told, lost>>
    BY <1>3 DEF CommandEnds
  <2>3. ThreadCalls'
    <3> SUFFICES ASSUME NEW k \in Thread, NEW o \in todo'[k]
                 PROVE  /\ todo'[k] = {o}
                        /\ \/ /\ run'[k] = "starting"
                              /\ Writes(o, k[1], k[2], "running")
                           \/ /\ run'[k] = "ending"
                              /\ \E s \in {"succeded", "failed"} :
                                   /\ Writes(o, k[1], k[2], s)
                                   /\ <<k[1], k[2], s>> \in ran'
      BY DEF ThreadCalls
    <3>1. CASE k = t
      <4>1. todo'[k] = {EndOf(t, result)} /\ o = EndOf(t, result)
        BY <3>1, <2>1 DEF StateInv, TypeOK
      <4>2. Writes(o, k[1], k[2], result)
        BY <3>1, <4>1, UpdateWrites DEF EndOf
      <4> QED
        BY <3>1, <4>1, <4>2, <2>1, <2>2 DEF StateInv, TypeOK
    <3>2. CASE k # t
      BY <3>2, <2>1, <2>2 DEF StateInv, TypeOK, ThreadCalls
    <3> QED
      BY <3>1, <3>2
  <2>4. MainCalls'
    BY <2>1 DEF StateInv, TypeOK, MainCalls
  <2>5. IdleThreads' /\ EndNotOverwritten'
    BY <2>2 DEF StateInv, TypeOK, IdleThreads, EndNotOverwritten
  <2>6. RecordedEndIsTrue'
    BY <2>1, <2>2 DEF StateInv, RecordedEndIsTrue
  <2>7. Running \subseteq Running'
    BY <2>2 DEF StateInv, TypeOK, Running
  <2>8. RunningHasThread'
    BY <2>2, <2>7 DEF StateInv, RunningHasThread
  <2> QED
    BY <2>3, <2>4, <2>5, <2>6, <2>8 DEF StateInv
<1>4. CASE StartCommand(t) \/ EndRecorded(t) \/ EndThrew(t)
  <2>1. /\ run[t] \in {"starting", "ending"}
        /\ run'[t] \in {"command", "done"}
        /\ \A k \in Thread : k # t => run'[k] = run[k]
        /\ UNCHANGED <<db, ran, told>> /\ lost \subseteq lost'
    BY <1>4 DEF StartCommand, EndRecorded, EndThrew, historyVars, StateInv,
                TypeOK
  <2>2. /\ phase'[t] = "lock" /\ todo'[t] = {}
        /\ \A a \in Actor : a # t => phase'[a] = phase[a] /\ todo'[a] = todo[a]
    <3>1. CASE Release(t)
      <4>1. PICK o \in todo[t] : todo' = [todo EXCEPT ![t] = @ \ {o}]
        BY <3>1 DEF Release
      <4>2. todo[t] = {o}
        BY DEF StateInv, ThreadCalls
      <4> QED
        BY <3>1, <4>1, <4>2 DEF Release, StateInv, TypeOK
    <3>2. CASE Catches(t)
      BY <3>2 DEF Catches, StateInv, TypeOK
    <3> QED
      BY <1>4, <3>1, <3>2 DEF StartCommand, EndRecorded, EndThrew
  <2>3. ThreadCalls' /\ MainCalls'
    BY <2>1, <2>2 DEF StateInv, ThreadCalls, MainCalls
  <2>4. IdleThreads' /\ EndNotOverwritten'
    BY <2>1, <2>2 DEF StateInv, IdleThreads, EndNotOverwritten
  <2>5. RecordedEndIsTrue'
    BY <2>1 DEF StateInv, RecordedEndIsTrue
  <2>6. RunningHasThread'
    <3> SUFFICES ASSUME NEW p \in Plannings, NEW j \in Job,
                        db[p].state[j] = "running"
                 PROVE  \/ \E k \in Running' : <<k[1], k[2]>> = <<p, j>>
                        \/ <<p, j>> \in lost'
                        \/ <<p, j, "running">> \in told'
      BY <2>1 DEF RunningHasThread
    <3>1. CASE \E k \in Running : k # t /\ <<k[1], k[2]>> = <<p, j>>
      BY <3>1, <2>1 DEF Running
    <3>2. CASE t \in Running /\ <<t[1], t[2]>> = <<p, j>>
      <4>1. CASE StartCommand(t)
        BY <3>2, <4>1 DEF StartCommand, Running, StateInv, TypeOK
      <4>2. CASE EndRecorded(t)
        <5>1. run[t] = "ending" /\ phase[t] = "unlock"
          BY <4>2 DEF EndRecorded, Release
        <5> QED
          BY <3>2, <5>1 DEF StateInv, EndNotOverwritten
      <4>3. CASE EndThrew(t)
        BY <3>2, <4>3 DEF EndThrew
      <4> QED
        BY <1>4, <4>1, <4>2, <4>3
    <3>3. CASE <<p, j>> \in lost \/ <<p, j, "running">> \in told
      BY <3>3, <2>1
    <3> QED
      BY <3>1, <3>2, <3>3 DEF StateInv, RunningHasThread
  <2> QED
    BY <2>3, <2>4, <2>5, <2>6 DEF StateInv
<1> QED
  BY <1>1, <1>2, <1>3, <1>4 DEF JobStep

LEMMA SetNextPlanningState ==
  ASSUME StateInv, SetNextPlanning, TypeOK', UpdatesExcluded'
  PROVE  StateInv'
<1> USE ThreadsAreActors
<1>1. CASE ProcessEnds
  BY <1>1, ProcessEndsState
<1>2. CASE ~ProcessEnds
  <2>1. UNCHANGED <<run, historyVars>>
    BY <1>2 DEF SetNextPlanning, FindSchema, LoadSkeleton, ListTemplate,
                ListThrows, CopyEnds, CopyThrew, ThrowsProcessing, ThrowsJob
  <2>2. \A t \in Thread : todo'[t] = todo[t] /\ phase'[t] = phase[t]
    BY <1>2 DEF SetNextPlanning, FindSchema, LoadSkeleton, ListTemplate,
                ListThrows, CopyEnds, CopyThrew, ThrowsProcessing, ThrowsJob,
                domainVars, StateInv, TypeOK
  <2>3. MainCalls'
    <3>1. CASE todo' = todo
      BY <3>1 DEF StateInv, MainCalls
    <3>2. CASE todo' = [todo EXCEPT ![Main] = {}]
      BY <3>2 DEF StateInv, TypeOK, MainCalls
    <3>3. CASE todo' = [todo EXCEPT ![Main] = CopyCalls(db[Template], target)]
      BY <3>3 DEF StateInv, TypeOK, MainCalls, CopyCalls, NodeCall, AddJob
    <3> QED
      BY <1>2, <3>1, <3>2, <3>3
         DEF SetNextPlanning, FindSchema, LoadSkeleton, ListTemplate,
             ListThrows, CopyEnds, CopyThrew, ThrowsProcessing, ThrowsJob,
             domainVars
  <2>4. \A p \in Plannings, j \in Job :
          db'[p].state[j] \in {db[p].state[j], NoRow}
    <3>1. CASE db' = db
      BY <3>1
    <3>2. CASE FindSchema /\ db' # db
      BY <3>2, PlanningsType DEF FindSchema, Blank, StateInv, TypeOK
    <3>3. CASE LoadSkeleton /\ db' # db
      <4>1. \A p \in Plannings : db'[p].state = db[p].state
        BY <3>3, PlanningsType DEF LoadSkeleton, StateInv, TypeOK, Rows
      <4> QED
        BY <4>1
    <3> QED
      BY <1>2, <3>1, <3>2, <3>3
         DEF SetNextPlanning, ListTemplate, ListThrows, CopyEnds, CopyThrew,
             ThrowsProcessing, ThrowsJob, domainVars
  <2> QED
    BY <2>1, <2>2, <2>3, <2>4, FrameState
<1> QED
  BY <1>1, <1>2

\* New threads start in a row that is not written yet.
LEMMA DispatchState ==
  ASSUME StateInv, Dispatch, TypeOK', UpdatesExcluded'
  PROVE  StateInv'
<1> USE ThreadsAreActors
<1>1. \A t \in Created : t \in Thread /\ run[t] = "none"
  BY DEF Created
<1>2. /\ run' = [t \in Thread |-> IF t \in Created THEN "starting" ELSE run[t]]
      /\ todo' = [a \in Actor |->
                    IF a \in Created
                    THEN {UpdateJobState(a[1], a[2], "running")} ELSE todo[a]]
      /\ UNCHANGED <<db, phase, historyVars>>
  BY DEF Dispatch
<1>3. ThreadCalls'
  <2> SUFFICES ASSUME NEW k \in Thread, NEW o \in todo'[k]
               PROVE  /\ todo'[k] = {o}
                      /\ \/ /\ run'[k] = "starting"
                            /\ Writes(o, k[1], k[2], "running")
                         \/ /\ run'[k] = "ending"
                            /\ \E s \in {"succeded", "failed"} :
                                 /\ Writes(o, k[1], k[2], s)
                                 /\ <<k[1], k[2], s>> \in ran'
    BY DEF ThreadCalls
  <2>1. CASE k \in Created
    <3>1. /\ todo'[k] = {UpdateJobState(k[1], k[2], "running")}
          /\ o = UpdateJobState(k[1], k[2], "running")
          /\ run'[k] = "starting"
      BY <1>2, <2>1
    <3> QED
      BY <3>1, UpdateWrites
  <2>2. CASE k \notin Created
    BY <1>2, <2>2 DEF StateInv, ThreadCalls, historyVars
  <2> QED
    BY <2>1, <2>2
<1>4. MainCalls'
  BY <1>1, <1>2 DEF StateInv, MainCalls
<1>5. IdleThreads' /\ EndNotOverwritten'
  BY <1>1, <1>2 DEF StateInv, IdleThreads, EndNotOverwritten
<1>6. Running \subseteq Running'
  BY <1>2 DEF Running
<1>7. RecordedEndIsTrue' /\ RunningHasThread'
  BY <1>2, <1>6 DEF StateInv, RecordedEndIsTrue, RunningHasThread, historyVars
<1> QED
  BY <1>3, <1>4, <1>5, <1>7 DEF StateInv

LEMMA NextState == StateInv /\ [Next]_vars => StateInv'
<1> SUFFICES ASSUME StateInv, [Next]_vars PROVE StateInv'
  OBVIOUS
<1> USE ThreadsAreActors
<1>1. TypeOK' /\ UpdatesExcluded'
  BY NextType, NextExcluded DEF StateInv
<1>2. ASSUME UNCHANGED <<db, run, historyVars>>,
             todo'[Main] = todo[Main],
             \A t \in Thread : todo'[t] = todo[t] /\ phase'[t] = phase[t]
      PROVE  StateInv'
  <2>1. MainCalls'
    BY <1>2 DEF StateInv, MainCalls
  <2> QED
    BY <1>1, <1>2, <2>1, FrameState
<1>3. CASE MainStep
  <2>1. CASE DomainStep(Main)
    BY <1>1, <2>1, DomainStepState
  <2>2. CASE SetNextPlanning
    BY <1>1, <2>2, SetNextPlanningState
  <2>3. CASE Tick \/ CheckBuffer
    BY <1>2, <2>3 DEF Tick, CheckBuffer, domainVars
  <2>4. CASE TickThrows
    BY <1>1, <2>4, ProcessEndsState DEF TickThrows
  <2>5. CASE Dispatch
    BY <1>1, <2>5, DispatchState
  <2> QED
    BY <1>3, <2>1, <2>2, <2>3, <2>4, <2>5 DEF MainStep
<1>4. CASE \E t \in Thread : JobStep(t)
  BY <1>1, <1>4, JobStepState
<1>5. CASE ServerStep
  <2>1. CASE DomainStep(Server)
    BY <1>1, <2>1, DomainStepState
  <2>2. CASE Receive \/ ReceiveRemoveNode \/ Answer
    <3>1. UNCHANGED <<db, run, historyVars>>
      BY <2>2 DEF Receive, ReceiveRemoveNode, Answer
    <3>2. /\ todo'[Main] = todo[Main]
          /\ \A t \in Thread : todo'[t] = todo[t] /\ phase'[t] = phase[t]
      BY <2>2 DEF Receive, ReceiveRemoveNode, Answer, Catches, StateInv, TypeOK
    <3> QED
      BY <1>2, <3>1, <3>2
  <2> QED
    BY <1>5, <2>1, <2>2 DEF ServerStep
<1>6. CASE Time \/ Restart \/ UNCHANGED vars
  BY <1>2, <1>6 DEF Time, Restart, vars, domainVars
<1>7. CASE Crash
  BY <1>1, <1>7, ProcessEndsState DEF Crash
<1> QED
  BY <1>3, <1>4, <1>5, <1>6, <1>7 DEF Next

\* A job recorded as ended in a planning is one whose command ended so in that
\* planning, or one a client has set: for every number of threads, switches,
\* failures, kills and requests.
THEOREM RecordedEnd == Spec => []RecordedEndIsTrue
<1>1. StateInv => RecordedEndIsTrue
  BY DEF StateInv
<1> QED
  BY <1>1, InitState, NextState, PTL DEF Spec

\* A job recorded RUNNING has a live thread of Job::run, unless its thread was
\* killed or gave up, or a client has set the state.
THEOREM RunningThread == Spec => []RunningHasThread
<1>1. StateInv => RunningHasThread
  BY DEF StateInv
<1> QED
  BY <1>1, InitState, NextState, PTL DEF Spec

-----------------------------------------------------------------------------
(***************************************************************************)
(* Jobs fetched from one planning are never run after a switch to another: *)
(* the planning switched to starts after the time read at the top of the   *)
(* iteration, so that the second test of planning_start_time drops them.   *)
(***************************************************************************)
FetchInv ==
  /\ now.day <= clock.day
  /\ main \in {"load", "list", "copy"} => target > now.day
  /\ booting => main \in {"next", "load", "list", "copy"}
  /\ main \in {"tick", "dead"} \/ booting => jobs = {}
  /\ \A r \in jobs : r[1] = start \/ start > now.day

LEMMA InitFetch == Init => FetchInv
BY DEF Init, FetchInv

LEMMA DaysAreNumbers ==
  TypeOK => /\ now.day \in Nat /\ clock.day \in Nat
            /\ start \in Nat /\ target \in Nat /\ NextPlanning \in Nat
BY TimeAssumption DEF TypeOK, Time3, Plannings, NextPlanning

LEMMA ProcessEndsFetch ==
  ASSUME FetchInv, ProcessEnds
  PROVE  FetchInv'
BY DEF FetchInv, ProcessEnds

LEMMA SetNextPlanningFetch ==
  ASSUME TypeOK, FetchInv, SetNextPlanning
  PROVE  FetchInv'
<1> USE DaysAreNumbers
<1>1. ASSUME UNCHANGED <<clock, now, jobs>>,
             NEW p \in Nat, p > now.day, Switches(p) \/ Refuses(p)
      PROVE  FetchInv'
  <2>1. booting => jobs = {}
    BY DEF FetchInv
  <2>2. start' = p \/ start' = start
    BY <1>1 DEF Switches, Refuses
  <2>3. booting' = FALSE /\ main' \in {"tick", "dispatch"}
        /\ (main' = "tick" => booting)
    BY <1>1 DEF Switches, Refuses
  <2> QED
    BY <1>1, <2>1, <2>2, <2>3 DEF FetchInv
<1>2. NextPlanning > now.day
  BY DEF FetchInv, NextPlanning
<1>3. ASSUME ProcessEnds
      PROVE  FetchInv'
  BY <1>3, ProcessEndsFetch
<1>4. CASE FindSchema
  <2>1. CASE Switches(NextPlanning) \/ Refuses(NextPlanning)
    BY <1>1, <1>2, <1>4, <2>1 DEF FindSchema, Switches, Refuses
  <2>2. CASE main' = "load" /\ UNCHANGED <<start, booting, now, jobs>>
    BY <1>2, <1>4, <2>2 DEF FindSchema, FetchInv
  <2> QED
    BY <1>4, <2>1, <2>2 DEF FindSchema
<1>5. CASE LoadSkeleton
  <2>1. target > now.day
    BY <1>5 DEF LoadSkeleton, FetchInv
  <2>2. CASE Switches(target) \/ Refuses(target)
    BY <1>1, <1>5, <2>1, <2>2 DEF LoadSkeleton, Switches, Refuses
  <2>3. CASE main' = "list" /\ UNCHANGED <<start, booting, now, jobs>>
    BY <1>5, <2>1, <2>3 DEF LoadSkeleton, FetchInv
  <2> QED
    BY <1>5, <2>2, <2>3 DEF LoadSkeleton
<1>6. CASE ListTemplate
  BY <1>6 DEF ListTemplate, FetchInv
<1>7. CASE ListThrows \/ CopyEnds \/ CopyThrew
  <2>1. target > now.day
    BY <1>7 DEF ListThrows, CopyEnds, CopyThrew, FetchInv
  <2>2. CASE ProcessEnds
    BY <1>3, <2>2
  <2>3. CASE Switches(target) /\ UNCHANGED clock
    BY <1>1, <2>1, <2>3 DEF Switches
  <2>4. CASE Refuses(target) /\ UNCHANGED clock
    BY <1>1, <2>1, <2>4 DEF Refuses, Switches
  <2> QED
    BY <1>7, <2>2, <2>3, <2>4
       DEF ListThrows, CopyEnds, CopyThrew, ThrowsProcessing, ThrowsJob
<1> QED
  BY <1>4, <1>5, <1>6, <1>7 DEF SetNextPlanning

LEMMA NextFetch == TypeOK /\ FetchInv /\ [Next]_vars => FetchInv'
<1> SUFFICES ASSUME TypeOK, FetchInv, [Next]_vars PROVE FetchInv'
  OBVIOUS
<1> USE DaysAreNumbers
<1>1. ASSUME ProcessEnds
      PROVE  FetchInv'
  BY <1>1, ProcessEndsFetch
<1>2. CASE UNCHANGED <<main, booting, start, target, now, jobs, clock>>
  BY <1>2 DEF FetchInv
<1>3. CASE MainStep
  <2>1. CASE DomainStep(Main)
    BY <1>2, <2>1
       DEF DomainStep, Lock, Execute, Throw, Unlock, mainVars
  <2>2. CASE SetNextPlanning
    BY <2>2, SetNextPlanningFetch
  <2>3. CASE Tick
    <3>1. now'.day = clock.day /\ jobs = {}
          /\ UNCHANGED <<clock, start, booting, target>>
      BY <2>3 DEF Tick, FetchInv
    <3>2. main' \in {"window", "dispatch"} /\ ~booting
          /\ (jobs' = {} \/ \E minute \in Minute : jobs' = ReadyJobs(start, minute))
      BY <2>3, <3>1 DEF Tick, FetchInv
    <3> QED
      BY <3>1, <3>2 DEF FetchInv, ReadyJobs
  <2>4. CASE TickThrows
    BY <1>1, <2>4 DEF TickThrows
  <2>5. CASE CheckBuffer
    BY <2>5 DEF CheckBuffer, FetchInv
  <2>6. CASE Dispatch
    BY <2>6 DEF Dispatch, FetchInv
  <2> QED
    BY <1>3, <2>1, <2>2, <2>3, <2>4, <2>5, <2>6 DEF MainStep
<1>4. CASE \E t \in Thread : JobStep(t)
  BY <1>1, <1>2, <1>4
     DEF JobStep, DomainStep, Lock, Execute, Throw, Unlock, StartCommand,
         StartThrew, CommandEnds, EndRecorded, EndThrew, mainVars
<1>5. CASE ServerStep
  BY <1>2, <1>5
     DEF ServerStep, DomainStep, Lock, Execute, Throw, Unlock, Receive,
         ReceiveRemoveNode, Answer, mainVars
<1>6. CASE Time
  BY <1>6 DEF Time, FetchInv, mainVars
<1>7. CASE Crash
  BY <1>1, <1>7 DEF Crash
<1>8. CASE Restart
  BY <1>8 DEF Restart, FetchInv
<1>9. CASE UNCHANGED vars
  BY <1>2, <1>9 DEF vars, mainVars
<1> QED
  BY <1>3, <1>4, <1>5, <1>6, <1>7, <1>8, <1>9 DEF Next

LEMMA NextDispatch ==
  ASSUME TypeOK, FetchInv, [Next]_vars,
         NEW t \in Thread, run[t] = "none", run'[t] # "none"
  PROVE  t[1] = start /\ start <= clock.day
<1> USE DaysAreNumbers
<1>1. ~ProcessEnds
  BY DEF ProcessEnds, Running
<1>2. ~ServerStep
  BY DEF ServerStep, DomainStep, Lock, Execute, Throw, Unlock, Receive,
         ReceiveRemoveNode, Answer
<1>3. ~(\E k \in Thread : JobStep(k))
  <2> SUFFICES ASSUME NEW k \in Thread, JobStep(k) PROVE FALSE
    OBVIOUS
  <2>1. run' = run \/ run[k] \in {"starting", "command", "ending"}
    BY <1>1 DEF JobStep, DomainStep, Lock, Execute, Throw, Unlock, StartCommand,
                StartThrew, CommandEnds, EndRecorded, EndThrew
  <2>2. k # t
    BY <2>1
  <2>3. run'[t] = run[t]
    BY <1>1, <2>1, <2>2
       DEF JobStep, DomainStep, Lock, Execute, Throw, Unlock, StartCommand,
           StartThrew, CommandEnds, EndRecorded, EndThrew, TypeOK
  <2> QED
    BY <2>3
<1>4. Dispatch
  BY <1>1, <1>2, <1>3
     DEF Next, MainStep, DomainStep, Lock, Execute, Throw, Unlock,
         SetNextPlanning, FindSchema, LoadSkeleton, ListTemplate, ListThrows,
         CopyEnds, CopyThrew, ThrowsProcessing, ThrowsJob, Tick, TickThrows,
         CheckBuffer, Time, Crash, Restart, vars
<1>5. t \in Created
  BY <1>4 DEF Dispatch
<1>6. start <= now.day /\ <<t[1], t[2]>> \in jobs
  BY <1>5 DEF Created, Dispatched
<1> QED
  BY <1>6 DEF FetchInv

\* Whenever a thread is created for a job, the job was read from the planning
\* in use and that planning has started.
THEOREM OnlyCurrent == Spec => OnlyCurrentIsDispatched
<1>1. TypeOK /\ FetchInv /\ [Next]_vars =>
        [\A t \in Thread : run[t] = "none" /\ run'[t] # "none" =>
           t[1] = start /\ start <= clock.day]_vars
  BY NextDispatch
<1> QED
  BY <1>1, InitFetch, NextFetch, TypeCorrect, PTL
     DEF Spec, OnlyCurrentIsDispatched

-----------------------------------------------------------------------------
(***************************************************************************)
(* The plannings, in days.                                                 *)
(***************************************************************************)

\* A process that has ended constructs nothing.
DeadIsOver == main = "dead" => ~booting

\* The variables DayClock sees.
DayVars == <<clock, start, target, main, booting, now>>

LEMMA EndsInDays ==
  ASSUME TypeOK, DeadIsOver, ProcessEnds, target' = target
  PROVE  [Days!Next]_(Days!vars) /\ DeadIsOver'
<1>1. CASE main = "dead"
  <2>1. booting' = booting
    BY <1>1 DEF ProcessEnds, DeadIsOver, TypeOK
  <2> QED BY <1>1, <2>1 DEF ProcessEnds, DeadIsOver, Days!vars
<1>2. CASE main # "dead"
  BY <1>2 DEF ProcessEnds, DeadIsOver, Days!Next, Days!Stop
<1> QED BY <1>1, <1>2

\* set_next_planning is over, in one of its ways.
LEMMA OverInDays ==
  ASSUME TypeOK, NEW p, \/ main = "next" /\ p = clock.day + 1 /\ target' = p
                        \/ main \in {"load", "list", "copy"} /\ p = target
                           /\ target' = target,
         Switches(p) \/ Refuses(p), clock' = clock
  PROVE  [Days!Next]_(Days!vars) /\ DeadIsOver'
<1>1. Days!Over(p)
  BY DEF Switches, Refuses, Days!Over
<1>2. main' # "dead"
  BY DEF Switches, Refuses
<1>3. CASE main = "next"
  BY <1>1, <1>2, <1>3 DEF Days!Next, Days!Choose, DeadIsOver
<1>4. CASE main \in {"load", "list", "copy"}
  BY <1>1, <1>2, <1>4 DEF Days!Next, Days!Make, DeadIsOver
<1> QED BY <1>3, <1>4

LEMMA PlanningInDays ==
  ASSUME TypeOK, DeadIsOver, SetNextPlanning
  PROVE  [Days!Next]_(Days!vars) /\ DeadIsOver'
<1>1. CASE FindSchema
  <2>1. CASE Switches(NextPlanning) \/ Refuses(NextPlanning)
    BY <1>1, <2>1, OverInDays DEF FindSchema, NextPlanning
  <2>2. CASE main' = "load" /\ UNCHANGED <<start, booting, now>>
    BY <1>1, <2>2
       DEF FindSchema, NextPlanning, DeadIsOver, Days!Next, Days!Choose
  <2> QED BY <1>1, <2>1, <2>2 DEF FindSchema
<1>2. CASE LoadSkeleton
  <2>1. CASE Switches(target) \/ Refuses(target)
    BY <1>2, <2>1, OverInDays DEF LoadSkeleton
  <2>2. CASE main' = "list" /\ UNCHANGED <<start, booting, now>>
    BY <1>2, <2>2 DEF LoadSkeleton, DeadIsOver, Days!vars
  <2> QED BY <1>2, <2>1, <2>2 DEF LoadSkeleton
<1>3. CASE ListTemplate
  BY <1>3 DEF ListTemplate, DeadIsOver, Days!vars
<1>4. CASE ListThrows
  <2>1. CASE ProcessEnds
    BY <1>4, <2>1, EndsInDays DEF ListThrows
  <2>2. CASE Refuses(target) /\ clock' = clock
    BY <1>4, <2>2, OverInDays DEF ListThrows
  <2> QED
    BY <1>4, <2>1, <2>2 DEF ListThrows, ThrowsProcessing, ThrowsJob
<1>5. CASE CopyEnds
  BY <1>5, OverInDays DEF CopyEnds
<1>6. CASE CopyThrew
  <2>1. CASE ProcessEnds
    BY <1>6, <2>1, EndsInDays DEF CopyThrew
  <2>2. CASE Refuses(target) /\ clock' = clock
    BY <1>6, <2>2, OverInDays DEF CopyThrew
  <2> QED BY <1>6, <2>1, <2>2 DEF CopyThrew, ThrowsProcessing
<1> QED
  BY <1>1, <1>2, <1>3, <1>4, <1>5, <1>6 DEF SetNextPlanning

LEMMA StepInDays ==
  ASSUME TypeOK, DeadIsOver, [Next]_vars
  PROVE  [Days!Next]_(Days!vars) /\ DeadIsOver'
<1>1. ASSUME UNCHANGED DayVars
      PROVE  [Days!Next]_(Days!vars) /\ DeadIsOver'
  BY <1>1 DEF DayVars, DeadIsOver, Days!vars
<1>2. CASE MainStep
  <2>1. CASE DomainStep(Main)
    BY <1>1, <2>1
       DEF DomainStep, Lock, Execute, Throw, Unlock, mainVars, DayVars
  <2>2. CASE SetNextPlanning
    BY <2>2, PlanningInDays
  <2>3. CASE Tick
    <3>1. /\ start \in Nat /\ clock.day \in Nat
          /\ ~(start > clock.day) <=> start <= clock.day
      BY TimeAssumption DEF TypeOK, Plannings
    <3>2. /\ main = "tick" /\ main' \in {"window", "dispatch"}
          /\ main' = "dispatch" => start <= clock.day
          /\ now'.day = clock.day /\ now'.late = clock.late
          /\ UNCHANGED <<clock, start, target, booting>>
      BY <2>3, <3>1 DEF Tick
    <3> QED BY <3>2 DEF DeadIsOver, Days!Next, Days!Tick
  <2>4. CASE TickThrows
    BY <2>4, EndsInDays DEF TickThrows
  <2>5. CASE CheckBuffer
    BY <2>5 DEF CheckBuffer, WithinBuffer, DeadIsOver, Days!Next,
                Days!CheckBuffer
  <2>6. CASE Dispatch
    BY <2>6 DEF Dispatch, DeadIsOver, Days!Next, Days!Dispatch
  <2> QED
    BY <1>2, <2>1, <2>2, <2>3, <2>4, <2>5, <2>6 DEF MainStep
<1>3. CASE \E t \in Thread : JobStep(t)
  <2> SUFFICES ASSUME NEW t \in Thread, JobStep(t)
               PROVE  [Days!Next]_(Days!vars) /\ DeadIsOver'
    BY <1>3
  <2>1. CASE StartThrew(t)
    BY <2>1, EndsInDays DEF StartThrew, ProcessEnds
  <2>2. CASE ~StartThrew(t)
    BY <1>1, <2>2
       DEF JobStep, DomainStep, Lock, Execute, Throw, Unlock, StartCommand,
           CommandEnds, EndRecorded, EndThrew, mainVars, DayVars
  <2> QED BY <2>1, <2>2
<1>4. CASE ServerStep
  BY <1>1, <1>4
     DEF ServerStep, DomainStep, Lock, Execute, Throw, Unlock, Receive,
         ReceiveRemoveNode, Answer, mainVars, DayVars
<1>5. CASE Time
  BY <1>5 DEF Time, mainVars, DeadIsOver, Days!Next, Days!Pass
<1>6. CASE Crash
  BY <1>6, EndsInDays DEF Crash
<1>7. CASE Restart
  BY <1>7 DEF Restart, DeadIsOver, Days!Next, Days!Restart
<1>8. CASE UNCHANGED vars
  BY <1>1, <1>8 DEF vars, mainVars, DayVars
<1> QED
  BY <1>2, <1>3, <1>4, <1>5, <1>6, <1>7, <1>8 DEF Next

\* The master makes, switches to and dispatches plannings as DayClock says,
\* whatever the database, the threads, the clients and the kills do: with
\* SecondsImplementDays, its days are those domain.cpp computes in seconds.
THEOREM SchedulerImplementsDays == Spec => DaysImplemented
<1>1. Init => Days!Init /\ DeadIsOver
  BY DEF Init, Days!Init, DeadIsOver
<1>2. TypeOK /\ DeadIsOver /\ [Next]_vars =>
        [Days!Next]_(Days!vars) /\ DeadIsOver'
  BY StepInDays
<1> QED
  BY <1>1, <1>2, TypeCorrect, PTL DEF Spec, DaysImplemented, Days!Spec
=============================================================================
