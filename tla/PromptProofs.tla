---------------------------- MODULE PromptProofs ----------------------------
(***************************************************************************)
(* What holds of the master when nothing fails, or when a thread records   *)
(* RUNNING before the next iteration; no client changes the schemas.       *)
(***************************************************************************)
EXTENDS PredecessorProofs

-----------------------------------------------------------------------------
(***************************************************************************)
(* The mutex.  The process's own calls all commit, so that none of its     *)
(* methods throws between the lock and the unlock.                         *)
(***************************************************************************)

\* A template whose copy violates no key and no check: its rows refer to each
\* other, a job comes after those it precedes in the order of the copy, and
\* its constraints are within the day, one of a type.
Copyable ==
  /\ RefersToRows(InitialTemplate)
  /\ \A l \in InitialTemplate.links :
       \/ NodeOf[l[2]] < NodeOf[l[1]]
       \/ NodeOf[l[2]] = NodeOf[l[1]] /\ l[2] < l[1]
  /\ \A c \in InitialTemplate.times : c[2].value <= Duration
  /\ \A c, d \in InitialTemplate.times :
       c[1] = d[1] /\ c[2].type = d[2].type => c = d

LEMMA CopyCallCommits ==
  ASSUME Copyable, StateInv, CopyInv, phase[Main] = "exec",
         NEW o \in todo[Main], IsNext(o, todo[Main])
  PROVE  Commits(o, db)
<1> DEFINE T == InitialTemplate
           here == db[target]
<1>1. main = "copy"
  BY DEF CopyInv, OnlyCopyCalls
<1>2. target \in Plannings /\ here.status = "loaded"
  BY <1>1 DEF CopyInv, Begun, StateInv, TypeOK
<1>3. /\ o \in CopyCalls(T, target)
      /\ \A p \in CopyCalls(T, target) : IsMade(p, here) <=> p \notin todo[Main]
  BY <1>1 DEF CopyInv, LeftToMake
<1>4. \A p \in CopyCalls(T, target) : Before(p, o) => IsMade(p, here)
  BY <1>3 DEF IsNext
<1>5. CASE IsNodeOp(o, target)
  BY <1>2, <1>5, NodeOpIs DEF Commits
<1>6. CASE IsJobOp(o, target)
  <2>1. /\ o.kind = "add_job" /\ o.dom = target /\ o.src = Template
        /\ o.job \in JobsOf(T) /\ o.job \in Nat /\ o.node = NodeOf[o.job]
        /\ o.node \in T.nodes /\ o.node \in Nat
        /\ o.prv = {} /\ o.nxt = get_jobs_next(T, o.job)
        /\ o.times = get_time_constraints(T, o.job)
    BY <1>2, <1>6, JobOpIs DEF IsJobOp
  <2>2. db[Template].status = "loaded" /\ o.node \in db[Template].nodes
    BY <2>1, TemplateType DEF CopyInv, Untouched
  <2>3. o.node \in here.nodes
    <3> DEFINE p == NodeOp(target, o.node)
    <3>1. p \in CopyCalls(T, target) /\ p.node = o.node
      BY <1>2, <2>1, CopyCallsAre DEF NodeOp, NodeCall
    <3>2. IsNodeOp(p, target) /\ p.kind = "add_node"
      BY <2>1, <3>1 DEF IsNodeOp, NodeOp, NodeCall
    <3> HIDE DEF p
    <3>3. Before(p, o)
      BY <1>2, <1>6, <2>1, <3>1, <3>2, CopyOrder
    <3> QED BY <1>4, <3>1, <3>2, <3>3 DEF IsMade
  <2>4. ~HasJob(here, o.job)
    BY <1>3, <2>1 DEF IsMade
  <2>5. ASSUME NEW n \in o.nxt
        PROVE  n \in JobsOf(here)
    <3>1. /\ <<o.job, n>> \in T.links /\ n \in Job
          /\ n \in JobsOf(T) /\ NodeOf[n] \in T.nodes
      BY <2>1, <2>5 DEF get_jobs_next, Copyable, RefersToRows
    <3> DEFINE p == JobOp(target, n)
    <3>2. p.job = n /\ p \in CopyCalls(T, target)
      BY <1>2, <3>1, CopyCallsAre DEF JobOp, AddJob
    <3>3. IsJobOp(p, target)
      BY <3>1, <3>2 DEF IsJobOp
    <3> HIDE DEF p
    <3>4. /\ p.kind = "add_job" /\ p.node = NodeOf[n]
          /\ p.node \in Nat /\ n \in Nat
      BY <1>2, <3>2, <3>3, JobOpIs
    <3>5. \/ NodeOf[n] < NodeOf[o.job]
          \/ NodeOf[n] = NodeOf[o.job] /\ n < o.job
      BY <3>1 DEF Copyable
    <3>6. Before(p, o)
      BY <1>2, <1>6, <2>1, <3>2, <3>3, <3>4, <3>5, CopyOrder
    <3>7. HasJob(here, n)
      BY <1>4, <3>2, <3>4, <3>6 DEF IsMade
    <3> QED BY <3>1, <3>7 DEF JobsOf
  <2>6. \A c \in o.times :
          \E e \in Constraint : <<o.job, e>> \in T.times /\ c = AsRead(e)
    BY <2>1 DEF get_time_constraints, Times
  <2>7. \A c \in o.times : c.value <= Duration
    <3> SUFFICES ASSUME NEW c \in o.times PROVE c.value <= Duration
      OBVIOUS
    <3>1. PICK e \in Constraint : <<o.job, e>> \in T.times /\ c = AsRead(e)
      BY <2>6
    <3>2. e.value <= Duration /\ e.value \in Nat /\ Duration \in Nat
      BY <3>1, TimeAssumption DEF Copyable, Constraint
    <3> QED BY <3>1, <3>2 DEF AsRead
  <2>8. \A c, d \in o.times : c.type = d.type => c = d
    <3> SUFFICES ASSUME NEW c \in o.times, NEW d \in o.times, c.type = d.type
                 PROVE  c = d
      OBVIOUS
    <3>1. PICK e \in Constraint : <<o.job, e>> \in T.times /\ c = AsRead(e)
      BY <2>6
    <3>2. PICK f \in Constraint : <<o.job, f>> \in T.times /\ d = AsRead(f)
      BY <2>6
    <3>3. e.type = f.type
      BY <3>1, <3>2 DEF AsRead
    <3>4. <<o.job, e>> = <<o.job, f>>
      BY <3>1, <3>2, <3>3 DEF Copyable
    <3> QED BY <3>1, <3>2, <3>4
  <2> QED
    BY <1>2, <2>1, <2>2, <2>3, <2>4, <2>5, <2>7, <2>8 DEF Commits
<1> QED BY <1>2, <1>3, <1>5, <1>6, CopyCallsAre

LEMMA CallsCommit ==
  ASSUME Copyable, StateInv, CopyInv, DealtInv, NEW a \in Actor,
         phase[a] = "exec", NEW o \in todo[a], IsNext(o, todo[a])
  PROVE  Commits(o, db)
<1> USE ThreadsAreActors
<1>1. CASE a = Main
  BY <1>1, CopyCallCommits
<1>2. CASE a = Server
  BY <1>2 DEF CopyInv, Untouched
<1>3. CASE a \in Thread
  <2>1. /\ o.kind = "update_job_state" /\ o.dom = a[1] /\ run[a] # "none"
    <3>1. ThreadCalls
      BY DEF StateInv
    <3>2. \/ run[a] = "starting" /\ Writes(o, a[1], a[2], "running")
          \/ run[a] = "ending" /\ \E s : Writes(o, a[1], a[2], s)
      BY <1>3, <3>1 DEF ThreadCalls
    <3> QED BY <3>2 DEF Writes
  <2>2. <<a[1], a[2]>> \in Dealt
    BY <1>3, <2>1 DEF Dealt
  <2>3. db[a[1]].status = "loaded"
    BY <2>2 DEF DealtInv
  <2> QED BY <2>1, <2>3 DEF Commits
<1> QED BY <1>1, <1>2, <1>3

\* Nobody has thrown, and the owner of the mutex is past the lock.
ReturnInv ==
  /\ \A a \in Actor : phase[a] # "threw"
  /\ mutex # NoOne => phase[mutex] # "lock"

LEMMA NextReturn ==
  ASSUME Copyable, MaxFaults = 0, NoClients,
         StateInv, CopyInv, DealtInv, ReturnInv, [Next]_vars
  PROVE  ReturnInv'
<1> USE ThreadsAreActors
<1>1. /\ phase \in [Actor -> {"lock", "exec", "unlock", "threw"}]
      /\ mutex \in Actor \cup {NoOne} /\ faults \in Nat
  BY DEF StateInv, TypeOK
<1>2. ~Fault
  BY <1>1 DEF Fault
<1>3. ASSUME ProcessEnds PROVE ReturnInv'
  BY <1>3 DEF ProcessEnds, ReturnInv
<1>4. ASSUME UNCHANGED <<mutex, phase>> PROVE ReturnInv'
  BY <1>4 DEF ReturnInv
<1>5. ASSUME NEW a \in Actor, Release(a) PROVE ReturnInv'
  BY <1>1, <1>5 DEF Release, ReturnInv
<1>6. ASSUME NEW a \in Actor, DomainStep(a) PROVE ReturnInv'
  <2>1. CASE Lock(a)
    BY <1>1, <2>1 DEF Lock, ReturnInv
  <2>2. CASE Execute(a)
    <3>1. phase' = [phase EXCEPT ![a] = "unlock"] /\ UNCHANGED mutex
      BY <1>2, <2>2 DEF Execute
    <3> QED BY <1>1, <3>1 DEF ReturnInv
  <2>3. CASE Throw(a)
    BY <1>2, <2>3, CallsCommit DEF Throw
  <2>4. CASE Unlock(a)
    BY <1>5, <2>4 DEF Unlock
  <2> QED BY <1>6, <2>1, <2>2, <2>3, <2>4 DEF DomainStep
<1>7. CASE SetNextPlanning
  <2>1. CASE FindSchema \/ LoadSkeleton \/ ListTemplate \/ CopyEnds
    BY <1>4, <2>1
       DEF FindSchema, LoadSkeleton, ListTemplate, CopyEnds, domainVars
  <2>2. CASE ListThrows
    <3>1. main = "list" /\ ThrowsProcessing
      BY <1>2, <2>2 DEF ListThrows
    <3>2. phase[Main] = "lock"
      BY <3>1 DEF CopyInv, OnlyCopyCalls
    <3>3. ProcessEnds \/ UNCHANGED <<mutex, phase>>
      BY <1>1, <3>1, <3>2 DEF ThrowsProcessing
    <3> QED BY <1>3, <1>4, <3>3
  <2>3. CASE CopyThrew
    BY <2>3 DEF CopyThrew, ReturnInv
  <2> QED BY <1>7, <2>1, <2>2, <2>3 DEF SetNextPlanning
<1>8. CASE Tick \/ CheckBuffer \/ Dispatch
  BY <1>4, <1>8 DEF Tick, CheckBuffer, Dispatch, domainVars
<1>9. CASE TickThrows
  BY <1>3, <1>9 DEF TickThrows
<1>10. CASE \E t \in Thread : JobStep(t)
  <2> SUFFICES ASSUME NEW t \in Thread, JobStep(t) PROVE ReturnInv'
    BY <1>10
  <2>1. ~StartThrew(t) /\ ~EndThrew(t)
    BY DEF StartThrew, EndThrew, Catches, ReturnInv
  <2>2. CASE CommandEnds(t)
    BY <1>4, <2>2 DEF CommandEnds
  <2> QED
    BY <1>5, <1>6, <2>1, <2>2 DEF JobStep, StartCommand, EndRecorded
<1>11. CASE ServerStep
  BY <1>4, <1>6, <1>11
     DEF ServerStep, Receive, ReceiveRemoveNode, Answer, Catches, NoClients,
         ReturnInv
<1>12. CASE Time \/ Restart \/ UNCHANGED vars
  BY <1>4, <1>12 DEF Time, Restart, vars, domainVars
<1>13. CASE Crash
  BY <1>3, <1>13 DEF Crash
<1> QED
  BY <1>6, <1>7, <1>8, <1>9, <1>10, <1>11, <1>12, <1>13 DEF Next, MainStep

LEMMA ReturnInvariant ==
  ASSUME Copyable, MaxFaults = 0, NoClients
  PROVE  Spec => []ReturnInv
<1>1. RefersToRows(InitialTemplate)
  BY DEF Copyable
<1>2. Init => ReturnInv
  BY SchedulerAssumption DEF Init, ReturnInv
<1>3. StateInv /\ CopyInv /\ DealtInv /\ ReturnInv /\ [Next]_vars => ReturnInv'
  BY NextReturn
<1> QED
  BY <1>1, <1>2, <1>3, StateInvariant, CopyInvariant, DealtInvariant,
     PTL DEF Spec

\* As long as the database answers and the template can be copied, whoever
\* owns updates_mutex will unlock it, kills and restarts included: for every
\* number of nodes, jobs and threads no path of the process's own calls leaves
\* a method by an exception while it holds the mutex.
THEOREM MutexReturned ==
  ASSUME Copyable, MaxFaults = 0, NoClients
  PROVE  Spec => []MutexIsReturned
<1>1. StateInv /\ ReturnInv => MutexIsReturned
  BY DEF StateInv, TypeOK, ReturnInv, MutexIsReturned
<1> QED
  BY <1>1, StateInvariant, ReturnInvariant, PTL

-----------------------------------------------------------------------------
(***************************************************************************)
(* The copy.  Without errors and kills each schema but the one being made  *)
(* holds what the template holds.                                          *)
(***************************************************************************)
TimesRead == {<<c[1], AsRead(c[2])>> : c \in InitialTemplate.times}

Whole(p) ==
  /\ db[p].status = "loaded"
  /\ InitialTemplate.nodes \subseteq db[p].nodes
  /\ JobsOf(InitialTemplate) \subseteq JobsOf(db[p])
  /\ InitialTemplate.links \subseteq db[p].links
  /\ TimesRead \subseteq db[p].times

WholeInv ==
  /\ main # "dead"
  /\ \A p \in Plannings :
       db[p].status # "absent" => Whole(p) \/ (main \in Making /\ p = target)
  /\ booting \/ Whole(start)

NoFailure ==
  /\ Copyable /\ InitialTemplate.resources = {}
  /\ MaxFaults = 0 /\ MaxCrashes = 0 /\ NoClients

\* A transaction of the process takes no row away.
LEMMA ResultGrows ==
  ASSUME NEW here \in Rows, NEW o \in Operation,
         o.kind \in {"add_node", "add_job", "update_job_state"}
  PROVE  /\ Result(o, here).status = here.status
         /\ here.nodes \subseteq Result(o, here).nodes
         /\ JobsOf(here) \subseteq JobsOf(Result(o, here))
         /\ here.links \subseteq Result(o, here).links
         /\ here.times \subseteq Result(o, here).times
<1>1. \A j \in Job : HasJob(here, j) => HasJob(Result(o, here), j)
  BY DEF Result, StateAfter, HasJob, NoRow, Operation, JobState
<1>2. JobsOf(here) \subseteq JobsOf(Result(o, here))
  BY <1>1 DEF JobsOf
<1> QED BY <1>2 DEF Result

LEMMA CallsOfProcess ==
  ASSUME StateInv, CopyInv, NEW a \in Actor, NEW o \in todo[a]
  PROVE  /\ o \in Operation
         /\ o.kind \in {"add_node", "add_job", "update_job_state"}
         /\ \/ a = Main /\ o \in CopyCalls(InitialTemplate, target)
               /\ main = "copy" /\ o.dom = target
            \/ a \in Thread /\ o.kind = "update_job_state"
               /\ o.dom = a[1] /\ o.job = a[2]
               /\ \/ run[a] = "starting" /\ o.state = "running"
                  \/ run[a] = "ending" /\ o.state \in {"succeded", "failed"}
<1> USE ThreadsAreActors
<1>1. o \in Operation /\ target \in Plannings
  BY DEF StateInv, TypeOK
<1>2. CASE a = Main
  <2>1. main = "copy"
    BY <1>2 DEF CopyInv, OnlyCopyCalls
  <2>2. o \in CopyCalls(InitialTemplate, target)
    BY <1>2, <2>1 DEF CopyInv, LeftToMake
  <2>3. CASE IsNodeOp(o, target)
    BY <1>1, <1>2, <2>1, <2>2, <2>3, NodeOpIs
  <2>4. CASE IsJobOp(o, target)
    BY <1>1, <1>2, <2>1, <2>2, <2>4, JobOpIs
  <2> QED BY <1>1, <2>2, <2>3, <2>4, CopyCallsAre
<1>3. CASE a = Server
  BY <1>3 DEF CopyInv, Untouched
<1>4. CASE a \in Thread
  <2>1. ThreadCalls
    BY DEF StateInv
  <2>2. \/ run[a] = "starting" /\ Writes(o, a[1], a[2], "running")
        \/ /\ run[a] = "ending"
           /\ \E s \in {"succeded", "failed"} : Writes(o, a[1], a[2], s)
    BY <1>4, <2>1 DEF ThreadCalls
  <2> QED BY <1>1, <1>4, <2>2 DEF Writes
<1> QED BY <1>2, <1>3, <1>4

LEMMA WholeStays ==
  ASSUME StateInv, CopyInv, [Next]_vars, NEW p \in Plannings
  PROVE  /\ Whole(p) => Whole(p)'
         /\ \/ db'[p].status = "absent" => db[p].status = "absent"
         /\ \/ db'[p].status # "absent" => db[p].status # "absent"
            \/ main' \in Making /\ p = target'
<1> USE ThreadsAreActors
<1>1. /\ db \in [Schema -> Rows] /\ p \in Schema
      /\ target \in Schema /\ TypeOK
  BY PlanningsType DEF StateInv, TypeOK
<1>2. CASE db' = db
  BY <1>2 DEF Whole
<1>3. ASSUME NEW a \in Actor, NEW o \in todo[a],
             db' = [db EXCEPT ![o.dom] = Result(o, @)]
      PROVE  /\ Whole(p) => Whole(p)'
             /\ db'[p].status = db[p].status
  <2>1. CASE p = o.dom
    <3>1. db'[p] = Result(o, db[p]) /\ db[p] \in Rows
      BY <1>1, <1>3, <2>1
    <3>2. o \in Operation /\ o.kind \in {"add_node", "add_job", "update_job_state"}
      BY CallsOfProcess
    <3> QED BY <3>1, <3>2, ResultGrows DEF Whole
  <2>2. CASE p # o.dom
    <3>1. db'[p] = db[p]
      BY <1>1, <1>3, <2>2
    <3> QED BY <3>1 DEF Whole
  <2> QED BY <2>1, <2>2
<1>4. CASE /\ FindSchema /\ db[NextPlanning].status = "absent"
           /\ db' = [db EXCEPT ![NextPlanning] = Blank("bare")]
  <2>1. CASE p = NextPlanning
    <3>1. db'[p] = Blank("bare") /\ p = target'
      BY <1>1, <1>4, <2>1 DEF FindSchema
    <3>2. db' # db
      BY <1>4, <2>1, <3>1 DEF Blank
    <3>3. main' \in Making
      BY <1>4, <3>2 DEF FindSchema, Making
    <3> QED BY <1>4, <2>1, <3>1, <3>3 DEF Whole, Blank
  <2>2. CASE p # NextPlanning
    <3>1. db'[p] = db[p]
      BY <1>1, <1>4, <2>2
    <3> QED BY <3>1 DEF Whole
  <2> QED BY <2>1, <2>2
<1>5. CASE /\ main = "load" /\ LoadSkeleton
           /\ db' = [db EXCEPT ![target].status = "loaded"]
  <2>1. CASE p = target
    <3>1. /\ db'[p].nodes = db[p].nodes /\ db'[p].state = db[p].state
          /\ db'[p].links = db[p].links /\ db'[p].times = db[p].times
          /\ db'[p].status = "loaded"
      BY <1>1, <1>5, <2>1 DEF Rows
    <3>2. JobsOf(db[p])' = JobsOf(db[p])
      BY <3>1 DEF JobsOf, HasJob
    <3>3. \/ db' = db
          \/ main' \in Making /\ p = target'
      BY <1>5, <2>1 DEF LoadSkeleton, Making
    <3> QED BY <3>1, <3>2, <3>3 DEF Whole
  <2>2. CASE p # target
    <3>1. db'[p] = db[p]
      BY <1>1, <1>5, <2>2
    <3> QED BY <3>1 DEF Whole
  <2> QED BY <2>1, <2>2
<1>6. CASE \E a \in Actor : \E o \in todo[a] :
             db' = [db EXCEPT ![o.dom] = Result(o, @)]
  <2>1. PICK a \in Actor : \E o \in todo[a] :
          db' = [db EXCEPT ![o.dom] = Result(o, @)]
    BY <1>6
  <2>2. PICK o \in todo[a] : db' = [db EXCEPT ![o.dom] = Result(o, @)]
    BY <2>1
  <2> QED BY <1>3, <2>2
<1>7. \/ db' = db
      \/ \E a \in Actor : \E o \in todo[a] :
           db' = [db EXCEPT ![o.dom] = Result(o, @)]
      \/ /\ FindSchema /\ db[NextPlanning].status = "absent"
         /\ db' = [db EXCEPT ![NextPlanning] = Blank("bare")]
      \/ /\ main = "load" /\ LoadSkeleton
         /\ db' = [db EXCEPT ![target].status = "loaded"]
  BY <1>1, StepOfSchemas
<1> QED BY <1>2, <1>4, <1>5, <1>6, <1>7

LEMMA CopiedIsWhole ==
  ASSUME Copyable, StateInv, CopyInv, main = "copy", Returned(Main)
  PROVE  Whole(target)
<1> DEFINE T == InitialTemplate
           here == db[target]
<1>1. target \in Plannings /\ here.status = "loaded" /\ db[Template] = T
  BY DEF StateInv, TypeOK, CopyInv, Begun, Untouched
<1>2. \A o \in CopyCalls(T, target) : IsMade(o, here)
  BY DEF CopyInv, LeftToMake, Returned
<1>3. T.nodes \subseteq here.nodes
  <2> SUFFICES ASSUME NEW n \in T.nodes PROVE n \in here.nodes
    OBVIOUS
  <2>1. IsMade(NodeOp(target, n), here)
    BY <1>1, <1>2, CopyCallsAre
  <2> QED BY <2>1 DEF IsMade, NodeOp, NodeCall
<1>4. \A j \in JobsOf(T) : HasJob(here, j)
  <2> SUFFICES ASSUME NEW j \in JobsOf(T) PROVE HasJob(here, j)
    OBVIOUS
  <2>1. NodeOf[j] \in T.nodes
    BY DEF Copyable, RefersToRows
  <2>2. IsMade(JobOp(target, j), here)
    BY <1>1, <1>2, <2>1, CopyCallsAre
  <2> QED BY <2>2 DEF IsMade, JobOp, AddJob
<1>5. JobsOf(T) \subseteq JobsOf(here)
  BY <1>4 DEF JobsOf
<1>6. /\ here.times = {<<c[1], AsRead(c[2])>> :
                         c \in {e \in T.times : HasJob(here, e[1])}}
      /\ here.links = {l \in T.links : HasJob(here, l[1])}
  BY <1>1 DEF CopyInv, PlanningIsPrefix, IsPrefix
<1>7. /\ \A l \in T.links : l[1] \in JobsOf(T)
      /\ \A c \in T.times : c[1] \in JobsOf(T)
  BY DEF Copyable, RefersToRows
<1>8. TimesRead = {<<c[1], AsRead(c[2])>> : c \in T.times}
  BY DEF TimesRead
<1> HIDE DEF T, here
<1>9. {e \in T.times : HasJob(here, e[1])} = T.times
  BY <1>4, <1>7
<1>10. T.links \subseteq here.links /\ TimesRead \subseteq here.times
  BY <1>4, <1>6, <1>7, <1>8, <1>9
<1> QED BY <1>1, <1>3, <1>5, <1>10 DEF Whole, T, here


LEMMA NextWhole ==
  ASSUME NoFailure, StateInv, CopyInv, ReturnInv, FetchInv, WholeInv,
         [Next]_vars, TypeOK'
  PROVE  WholeInv'
<1> USE ThreadsAreActors
<1>1. ~Fault /\ ~Crash
  BY DEF Fault, Crash, StateInv, TypeOK, NoFailure
<1>2. start \in Plannings /\ target \in Plannings /\ start' \in Plannings
  BY DEF StateInv, TypeOK
<1>3. main # "dead"
  BY DEF WholeInv
<1>4. ASSUME UNCHANGED <<booting, start>>, main' # "dead",
             main \in Making => main' \in Making /\ target' = target
      PROVE  WholeInv'
  BY <1>2, <1>4, WholeStays DEF WholeInv
<1>5. ASSUME NEW a, DomainStep(a) PROVE UNCHANGED <<main, booting, start, target>>
  BY <1>5 DEF DomainStep, Lock, Execute, Throw, Unlock, mainVars
<1>6. ASSUME UNCHANGED <<main, booting, start, target>> PROVE WholeInv'
  BY <1>3, <1>4, <1>6 DEF Making
<1>7. CASE FindSchema
  <2>1. CASE Switches(NextPlanning) /\ db' = db
    <3>1. /\ start' = NextPlanning /\ main' \in {"tick", "dispatch"}
          /\ db[NextPlanning].status # "absent" /\ main = "next"
      BY <1>1, <1>7, <2>1 DEF FindSchema, Switches
    <3>2. \A p \in Plannings : Whole(p) => Whole(p)'
      BY <2>1 DEF Whole
    <3> QED BY <1>2, <2>1, <3>1, <3>2 DEF WholeInv, Making
  <2>2. CASE main' = "load" /\ UNCHANGED <<start, booting>>
    BY <1>4, <1>7, <2>2 DEF FindSchema, Making
  <2> QED BY <1>1, <1>7, <2>1, <2>2 DEF FindSchema
<1>8. CASE LoadSkeleton \/ ListTemplate
  BY <1>1, <1>4, <1>8 DEF LoadSkeleton, ListTemplate, Making
<1>9. CASE CopyEnds
  <2>1. /\ main = "copy" /\ Returned(Main) /\ db' = db
        /\ start' = target /\ main' \in {"tick", "dispatch"}
    BY <1>9 DEF CopyEnds, Switches, domainVars
  <2>2. Whole(target)
    BY <2>1, CopiedIsWhole DEF NoFailure
  <2>3. \A p \in Plannings : Whole(p) => Whole(p)'
    BY <2>1 DEF Whole
  <2> QED BY <1>2, <2>1, <2>2, <2>3 DEF WholeInv, Making
<1>10. ~ListThrows /\ ~CopyThrew
  BY <1>1 DEF ListThrows, CopyThrew, NoFailure, CopyInv, Untouched, ReturnInv
<1>11. CASE SetNextPlanning
  BY <1>7, <1>8, <1>9, <1>10, <1>11 DEF SetNextPlanning
<1>12. CASE Tick \/ TickThrows \/ CheckBuffer \/ Dispatch
  <2>1. ~TickThrows
    BY <1>1 DEF TickThrows, FetchInv, WholeInv, Whole
  <2> QED
    BY <1>4, <1>12, <2>1 DEF Tick, CheckBuffer, Dispatch, Making
<1>13. CASE \E t \in Thread : JobStep(t)
  <2> SUFFICES ASSUME NEW t \in Thread, JobStep(t) PROVE WholeInv'
    BY <1>13
  <2>1. ~StartThrew(t)
    BY DEF StartThrew, ReturnInv
  <2> QED
    BY <1>5, <1>6, <2>1
       DEF JobStep, StartCommand, CommandEnds, EndRecorded, EndThrew, mainVars
<1>14. CASE ServerStep
  BY <1>5, <1>6, <1>14
     DEF ServerStep, Receive, ReceiveRemoveNode, Answer, mainVars
<1>15. CASE Time \/ Restart \/ UNCHANGED vars
  BY <1>3, <1>6, <1>15 DEF Time, Restart, vars, mainVars
<1> QED
  BY <1>1, <1>5, <1>6, <1>11, <1>12, <1>13, <1>14, <1>15 DEF Next, MainStep

LEMMA WholeInvariant ==
  ASSUME NoFailure
  PROVE  Spec => []WholeInv
<1>1. /\ Copyable /\ MaxFaults = 0 /\ NoClients
      /\ RefersToRows(InitialTemplate)
  BY DEF NoFailure, Copyable
<1>2. Init => WholeInv
  BY TemplateType DEF Init, WholeInv, Blank
<1>3. StateInv /\ CopyInv /\ ReturnInv /\ FetchInv /\ WholeInv
        /\ [Next]_vars /\ TypeOK' => WholeInv'
  BY NextWhole
<1> QED
  BY <1>1, <1>2, <1>3, TypeCorrect, StateInvariant, CopyInvariant,
     ReturnInvariant, InitFetch, NextFetch, PTL DEF Spec

\* The constraints get_time_constraints reads as they were written: those of
\* the first 32767 seconds of the day.
ReadAsWritten ==
  \A c \in InitialTemplate.times : c[2].value <= MaxInteger

\* Without errors, kills and clients each planning the master uses holds what
\* the template holds, for every template whose rows can be copied and whose
\* constraints are not later than 09:06:07 (domain.cpp, 1132): no interleaving
\* of the copy with the threads of the planning before it loses a node, a job,
\* a link or a constraint.
THEOREM PlanningCopied ==
  ASSUME NoFailure, ReadAsWritten
  PROVE  Spec => []PlanningIsCopied
<1>1. NoClients /\ RefersToRows(InitialTemplate)
  BY DEF NoFailure, Copyable
<1>2. InitialTemplate.times = TimesRead
  <2>1. ASSUME NEW c \in InitialTemplate.times
        PROVE  c = <<c[1], AsRead(c[2])>>
    <3>1. c = <<c[1], c[2]>> /\ c[2] \in Constraint
      BY TemplateType DEF Rows
    <3>2. AsRead(c[2]) = c[2]
      BY <3>1 DEF ReadAsWritten, AsRead, Constraint
    <3> QED BY <3>1, <3>2
  <2> QED BY <2>1 DEF TimesRead
<1>3. CopyInv /\ FetchInv /\ WholeInv => PlanningIsCopied
  BY <1>2 DEF CopyInv, Untouched, FetchInv, WholeInv, Whole, PlanningIsCopied
<1> QED
  BY <1>1, <1>3, TypeCorrect, CopyInvariant, WholeInvariant, InitFetch,
     NextFetch, PTL DEF Spec
=============================================================================
