----------------------------- MODULE CopyProofs -----------------------------
(***************************************************************************)
(* As long as no client changes the schemas: what the copy of the template *)
(* leaves in a planning and what the threads of the jobs may rely on.      *)
(***************************************************************************)
EXTENDS SchedulerProofs

\* A job row refers to a node row, a link or a constraint to job rows: the
\* foreign keys of skeleton.sql.
RefersToRows(here) ==
  /\ \A j \in JobsOf(here) : NodeOf[j] \in here.nodes
  /\ \A l \in here.links : {l[1], l[2]} \subseteq JobsOf(here)
  /\ \A c \in here.times : c[1] \in JobsOf(here)
  /\ here.resources \subseteq here.nodes

-----------------------------------------------------------------------------
(***************************************************************************)
(* What changes the schemas.                                               *)
(***************************************************************************)
\* What a step does to the schemas: the transaction of a call of `todo`, the
\* creation of a schema or the end of its skeleton.
LEMMA StepOfSchemas ==
  ASSUME TypeOK, [Next]_vars
  PROVE  \/ db' = db
         \/ \E a \in Actor :
              /\ Execute(a)
              /\ \E o \in todo[a] :
                   /\ IsNext(o, todo[a]) /\ Commits(o, db)
                   /\ db' = [db EXCEPT ![o.dom] = Result(o, @)]
         \/ /\ main = "next" /\ FindSchema
            /\ db[NextPlanning].status = "absent"
            /\ db' = [db EXCEPT ![NextPlanning] = Blank("bare")]
         \/ /\ main = "load" /\ LoadSkeleton
            /\ db' = [db EXCEPT ![target].status = "loaded"]
<1> USE ThreadsAreActors
<1>1. ASSUME NEW a \in Actor, Execute(a)
      PROVE  \E o \in todo[a] :
               /\ IsNext(o, todo[a]) /\ Commits(o, db)
               /\ db' = [db EXCEPT ![o.dom] = Result(o, @)]
  BY <1>1 DEF Execute
<1>2. ASSUME NEW a \in Actor, DomainStep(a)
      PROVE  db' = db \/ Execute(a)
  BY <1>2 DEF DomainStep, Lock, Throw, Unlock
<1>3. ASSUME ProcessEnds PROVE db' = db
  BY <1>3 DEF ProcessEnds
<1>4. CASE MainStep
  <2>1. CASE FindSchema
    BY <2>1 DEF FindSchema
  <2>2. CASE LoadSkeleton
    BY <2>2 DEF LoadSkeleton
  <2>3. CASE ListTemplate \/ ListThrows \/ CopyEnds \/ CopyThrew
    BY <1>3, <2>3
       DEF ListTemplate, ListThrows, CopyEnds, CopyThrew, ThrowsProcessing,
           ThrowsJob, domainVars
  <2>4. CASE Tick \/ TickThrows \/ CheckBuffer \/ Dispatch
    BY <1>3, <2>4 DEF Tick, TickThrows, CheckBuffer, Dispatch, domainVars
  <2> QED
    BY <1>1, <1>2, <1>4, <2>1, <2>2, <2>3, <2>4 DEF MainStep, SetNextPlanning
<1>5. CASE \E t \in Thread : JobStep(t)
  BY <1>1, <1>2, <1>3, <1>5
     DEF JobStep, StartCommand, StartThrew, CommandEnds, EndRecorded, EndThrew
<1>6. CASE ServerStep
  BY <1>1, <1>2, <1>6 DEF ServerStep, Receive, ReceiveRemoveNode, Answer
<1>7. CASE Time \/ Crash \/ Restart \/ UNCHANGED vars
  BY <1>3, <1>7 DEF Time, Crash, Restart, vars, domainVars
<1> QED BY <1>4, <1>5, <1>6, <1>7 DEF Next

-----------------------------------------------------------------------------
(***************************************************************************)
(* The calls that copy the template, one node or one job each, in order.   *)
(***************************************************************************)
NodeOp(d, n) == NodeCall("add_node", d, n)
JobOp(d, j) ==
  AddJob(d, Template, j, {}, get_jobs_next(InitialTemplate, j),
         get_time_constraints(InitialTemplate, j))

IsNodeOp(o, d) == /\ o.node \in InitialTemplate.nodes
                  /\ o = NodeOp(d, o.node)
IsJobOp(o, d) == /\ o.job \in JobsOf(InitialTemplate)
                 /\ NodeOf[o.job] \in InitialTemplate.nodes
                 /\ o = JobOp(d, o.job)

IsMade(o, here) ==
  IF o.kind = "add_node" THEN o.node \in here.nodes ELSE HasJob(here, o.job)

LEMMA TemplateType ==
  /\ InitialTemplate \in Rows /\ InitialTemplate.status = "loaded"
  /\ Template \in Schema /\ Template \notin Plannings
  /\ Plannings \subseteq Schema
BY SchedulerAssumption, TimeAssumption DEF Template, Schema, Plannings

LEMMA CopyCallsAre ==
  ASSUME NEW d \in Plannings
  PROVE  /\ \A o \in CopyCalls(InitialTemplate, d) :
              IsNodeOp(o, d) \/ IsJobOp(o, d)
         /\ \A n \in InitialTemplate.nodes :
              NodeOp(d, n) \in CopyCalls(InitialTemplate, d)
         /\ \A j \in JobsOf(InitialTemplate) :
              NodeOf[j] \in InitialTemplate.nodes =>
                JobOp(d, j) \in CopyCalls(InitialTemplate, d)
<1> DEFINE T == InitialTemplate
<1>1. CopyCalls(T, d) =
        {NodeOp(d, n) : n \in T.nodes}
        \cup {JobOp(d, j) : j \in {k \in JobsOf(T) : NodeOf[k] \in T.nodes}}
  BY DEF CopyCalls, NodeOp, JobOp
<1>2. \A n : NodeOp(d, n).node = n
  BY DEF NodeOp, NodeCall
<1>3. \A j : JobOp(d, j).job = j
  BY DEF JobOp, AddJob
<1>4. \A n \in T.nodes : IsNodeOp(NodeOp(d, n), d)
  BY <1>2 DEF IsNodeOp
<1>5. \A j \in JobsOf(T) : NodeOf[j] \in T.nodes => IsJobOp(JobOp(d, j), d)
  BY <1>3 DEF IsJobOp
<1> QED BY <1>1, <1>4, <1>5

\* The fields of these calls.
LEMMA NodeOpIs ==
  ASSUME NEW d \in Plannings, NEW o, IsNodeOp(o, d)
  PROVE  /\ o.kind = "add_node" /\ o.dom = d /\ o.job = 0
         /\ o.node \in Node /\ o.node \in Nat
BY TemplateType, NamesAssumption DEF IsNodeOp, NodeOp, NodeCall, Rows

LEMMA JobOpIs ==
  ASSUME NEW d \in Plannings, NEW o, IsJobOp(o, d)
  PROVE  /\ o.kind = "add_job" /\ o.dom = d /\ o.src = Template
         /\ o.job \in Job /\ o.job \in Nat /\ o.job # 0
         /\ o.node = NodeOf[o.job] /\ o.node \in Node /\ o.node \in Nat
         /\ o.prv = {}
         /\ o.nxt = get_jobs_next(InitialTemplate, o.job)
         /\ o.times = get_time_constraints(InitialTemplate, o.job)
<1>1. o = JobOp(d, o.job) /\ o.job \in Job
  BY DEF IsJobOp, JobsOf
<1> QED
  BY <1>1, NamesAssumption DEF JobOp, AddJob

\* Before, for these calls.
LEMMA CopyOrder ==
  ASSUME NEW d \in Plannings, NEW o, NEW p,
         IsNodeOp(o, d) \/ IsJobOp(o, d), IsNodeOp(p, d) \/ IsJobOp(p, d)
  PROVE  Before(o, p) <=>
           \/ o.node < p.node
           \/ /\ o.node = p.node
              /\ \/ o.kind = "add_node" /\ p.kind = "add_job"
                 \/ o.kind = "add_job" /\ p.kind = "add_job" /\ o.job < p.job
<1>1. CASE IsNodeOp(o, d) /\ IsNodeOp(p, d)
  BY <1>1, NodeOpIs DEF Before
<1>2. CASE IsNodeOp(o, d) /\ IsJobOp(p, d)
  BY <1>2, NodeOpIs, JobOpIs DEF Before
<1>3. CASE IsJobOp(o, d) /\ IsNodeOp(p, d)
  BY <1>3, NodeOpIs, JobOpIs DEF Before
<1>4. CASE IsJobOp(o, d) /\ IsJobOp(p, d)
  BY <1>4, JobOpIs DEF Before
<1> QED BY <1>1, <1>2, <1>3, <1>4

\* Only one call is next.
LEMMA NextIsOne ==
  ASSUME NEW d \in Plannings, NEW ops \in SUBSET CopyCalls(InitialTemplate, d),
         NEW o, NEW p, IsNext(o, ops), IsNext(p, ops)
  PROVE  o = p
<1>1. /\ IsNodeOp(o, d) \/ IsJobOp(o, d)
      /\ IsNodeOp(p, d) \/ IsJobOp(p, d)
      /\ ~Before(o, p) /\ ~Before(p, o)
  BY CopyCallsAre DEF IsNext
<1>2. CASE IsNodeOp(o, d) /\ IsNodeOp(p, d)
  <2>1. o.node = p.node
    BY <1>1, <1>2, NodeOpIs, CopyOrder
  <2> QED BY <1>2, <2>1 DEF IsNodeOp
<1>3. CASE IsNodeOp(o, d) /\ IsJobOp(p, d)
  BY <1>1, <1>3, NodeOpIs, JobOpIs, CopyOrder
<1>4. CASE IsJobOp(o, d) /\ IsNodeOp(p, d)
  BY <1>1, <1>4, NodeOpIs, JobOpIs, CopyOrder
<1>5. CASE IsJobOp(o, d) /\ IsJobOp(p, d)
  <2>1. /\ o.kind = "add_job" /\ p.kind = "add_job"
        /\ o.job \in Nat /\ p.job \in Nat /\ o.node \in Nat /\ p.node \in Nat
    BY <1>5, JobOpIs
  <2>2. o.node = p.node /\ o.job = p.job
    BY <1>1, <2>1, CopyOrder
  <2> QED BY <1>5, <2>2 DEF IsJobOp
<1> QED BY <1>1, <1>2, <1>3, <1>4, <1>5

-----------------------------------------------------------------------------
(***************************************************************************)
(* What a transaction does to a planning.                                  *)
(***************************************************************************)

LEMMA BlankIsPrefix ==
  ASSUME NEW status
  PROVE  IsPrefix(Blank(status), InitialTemplate)
<1>1. \A j \in Job : ~HasJob(Blank(status), j)
  BY DEF Blank, HasJob
<1>2. JobsOf(Blank(status)) = {}
  BY <1>1 DEF JobsOf
<1>3. /\ \A c \in InitialTemplate.times : c[1] \in Job
      /\ \A l \in InitialTemplate.links : l[1] \in Job
  BY TemplateType DEF Rows
<1>4. /\ Blank(status).nodes = {} /\ Blank(status).links = {}
      /\ Blank(status).times = {}
  BY DEF Blank
<1> QED BY <1>1, <1>2, <1>3, <1>4 DEF IsPrefix

\* The update of a state touches no other row.
LEMMA StateKeepsRows ==
  ASSUME NEW here \in Rows, NEW o \in Operation, o.kind = "update_job_state"
  PROVE  LET made == Result(o, here) IN
         /\ made.status = here.status
         /\ made.nodes = here.nodes /\ made.links = here.links
         /\ made.times = here.times /\ made.resources = here.resources
         /\ \A j \in Job : HasJob(made, j) <=> HasJob(here, j)
BY DEF Result, StateAfter, HasJob, NoRow, Operation, JobState

LEMMA SameRowsPrefix ==
  ASSUME NEW here, NEW made, IsPrefix(here, InitialTemplate),
         made.nodes = here.nodes, made.links = here.links,
         made.times = here.times,
         \A j \in Job : HasJob(made, j) <=> HasJob(here, j)
  PROVE  IsPrefix(made, InitialTemplate)
<1>1. JobsOf(made) = JobsOf(here)
  BY DEF JobsOf
<1>2. /\ \A c \in InitialTemplate.times : c[1] \in Job
      /\ \A l \in InitialTemplate.links : l[1] \in Job
  BY TemplateType DEF Rows
<1> QED BY <1>1, <1>2 DEF IsPrefix, JobsOf

\* A call of the copy adds its row and those the row brings.
LEMMA CopyAdds ==
  ASSUME NEW d \in Plannings, NEW o \in CopyCalls(InitialTemplate, d),
         NEW here \in Rows
  PROVE  /\ Result(o, here).status = here.status
         /\ \A p \in CopyCalls(InitialTemplate, d) :
              IsMade(p, Result(o, here)) <=> IsMade(p, here) \/ p = o
<1> DEFINE made == Result(o, here)
<1>1. IsNodeOp(o, d) \/ IsJobOp(o, d)
  BY CopyCallsAre
<1>2. CASE IsNodeOp(o, d)
  <2>1. o.kind = "add_node" /\ o.job = 0
    BY <1>2, NodeOpIs
  <2>2. \A j \in Job : made.state[j] = here.state[j]
    BY <2>1, NamesAssumption DEF Result
  <2>3. /\ made.status = here.status
        /\ made.nodes = here.nodes \cup {o.node}
        /\ JobsOf(made) = JobsOf(here)
    BY <2>1, <2>2 DEF Result, JobsOf, HasJob
  <2>4. ASSUME NEW p \in CopyCalls(InitialTemplate, d)
        PROVE  IsMade(p, made) <=> IsMade(p, here) \/ p = o
    <3>1. CASE IsNodeOp(p, d)
      <4>1. p.node = o.node <=> p = o
        BY <1>2, <3>1 DEF IsNodeOp
      <4> QED BY <2>3, <3>1, <4>1, NodeOpIs DEF IsMade
    <3>2. CASE IsJobOp(p, d)
      <4>1. p.kind = "add_job" /\ p.job \in Job /\ p # o
        BY <2>1, <3>2, JobOpIs
      <4> QED BY <2>2, <4>1 DEF IsMade, HasJob
    <3> QED BY <3>1, <3>2, CopyCallsAre
  <2> QED BY <2>1, <2>3, <2>4
<1>3. CASE IsJobOp(o, d)
  <2>1. o.kind = "add_job" /\ o.job \in Job
    BY <1>3, JobOpIs
  <2>2. \A j \in Job : made.state[j] = IF j = o.job THEN "waiting"
                                       ELSE here.state[j]
    BY <2>1 DEF Result, StateAfter
  <2>3. /\ made.status = here.status
        /\ made.nodes = here.nodes
        /\ JobsOf(made) = JobsOf(here) \cup {o.job}
    BY <2>1, <2>2 DEF Result, JobsOf, HasJob, NoRow
  <2>4. ASSUME NEW p \in CopyCalls(InitialTemplate, d)
        PROVE  IsMade(p, made) <=> IsMade(p, here) \/ p = o
    <3>1. CASE IsNodeOp(p, d)
      BY <2>1, <2>3, <3>1, NodeOpIs DEF IsMade
    <3>2. CASE IsJobOp(p, d)
      <4>1. p.kind = "add_job" /\ p.job \in Job
        BY <3>2, JobOpIs
      <4>2. p.job = o.job <=> p = o
        BY <1>3, <3>2 DEF IsJobOp
      <4> QED BY <2>2, <4>1, <4>2 DEF IsMade, HasJob, NoRow
    <3> QED BY <3>1, <3>2, CopyCallsAre
  <2> QED BY <2>1, <2>3, <2>4
<1> QED BY <1>1, <1>2, <1>3

\* A call of the copy, once those before it are made, lengthens the prefix.
LEMMA CopyLengthens ==
  ASSUME RefersToRows(InitialTemplate),
         NEW d \in Plannings, NEW o \in CopyCalls(InitialTemplate, d),
         NEW here \in Rows, IsPrefix(here, InitialTemplate),
         \A p \in CopyCalls(InitialTemplate, d) :
           Before(p, o) => IsMade(p, here)
  PROVE  IsPrefix(Result(o, here), InitialTemplate)
<1> DEFINE T == InitialTemplate
           made == Result(o, here)
<1>1. IsNodeOp(o, d) \/ IsJobOp(o, d)
  BY CopyCallsAre
<1>2. \A k \in JobsOf(T) : /\ k \in Job /\ NodeOf[k] \in T.nodes
                          /\ IsJobOp(JobOp(d, k), d)
                          /\ JobOp(d, k).job = k
                          /\ JobOp(d, k) \in CopyCalls(T, d)
  BY CopyCallsAre DEF RefersToRows, JobsOf, IsJobOp, JobOp, AddJob
<1>3. \A k \in JobsOf(T) :
        NodeOf[k] < o.node => HasJob(here, k)
  <2> SUFFICES ASSUME NEW k \in JobsOf(T), NodeOf[k] < o.node
               PROVE  HasJob(here, k)
    OBVIOUS
  <2>1. JobOp(d, k).node = NodeOf[k] /\ JobOp(d, k).kind = "add_job"
    BY <1>2, JobOpIs
  <2>2. Before(JobOp(d, k), o)
    BY <1>1, <1>2, <2>1, CopyOrder
  <2> QED BY <1>2, <2>1, <2>2 DEF IsMade
<1>4. CASE IsNodeOp(o, d)
  <2>1. o.kind = "add_node" /\ o.job = 0
    BY <1>4, NodeOpIs
  <2>2. /\ made.nodes = here.nodes \cup {o.node}
        /\ made.links = here.links /\ made.times = here.times
        /\ \A j \in Job : made.state[j] = here.state[j]
    BY <2>1, NamesAssumption DEF Result
  <2>3. \A j \in Job : HasJob(made, j) <=> HasJob(here, j)
    BY <2>2 DEF HasJob
  <2>4. JobsOf(made) = JobsOf(here)
    BY <2>3 DEF JobsOf
  <2>5. /\ \A c \in T.times : c[1] \in Job
        /\ \A l \in T.links : l[1] \in Job
    BY TemplateType DEF Rows
  <2>6. o.node \in T.nodes
    BY <1>4 DEF IsNodeOp
  <2> HIDE DEF made
  <2>7. IsPrefix(made, T)
    BY <1>2, <1>3, <2>2, <2>3, <2>4, <2>5, <2>6 DEF IsPrefix
  <2> QED BY <2>7 DEF made
<1>5. CASE IsJobOp(o, d)
  <2>1. /\ o.kind = "add_job" /\ o.job \in Job /\ o.node = NodeOf[o.job]
        /\ o.prv = {} /\ o.nxt = get_jobs_next(T, o.job)
        /\ o.times = get_time_constraints(T, o.job)
        /\ o.job \in JobsOf(T) /\ o.job \in Nat
    BY <1>5, JobOpIs DEF IsJobOp
  <2>2. /\ made.nodes = here.nodes
        /\ made.links = here.links \cup NewLinks(o)
        /\ made.times = here.times \cup ({o.job} \X o.times)
        /\ \A j \in Job : made.state[j] = IF j = o.job THEN "waiting"
                                          ELSE here.state[j]
    BY <2>1 DEF Result, StateAfter
  <2>3. \A j \in Job : HasJob(made, j) <=> HasJob(here, j) \/ j = o.job
    BY <2>2 DEF HasJob, NoRow
  <2>4. JobsOf(made) = JobsOf(here) \cup {o.job}
    BY <2>1, <2>3 DEF JobsOf
  <2>5. NewLinks(o) = {l \in T.links : l[1] = o.job}
    <3>1. NewLinks(o) = {<<o.job, n>> : n \in get_jobs_next(T, o.job)}
      BY <2>1 DEF NewLinks
    <3>2. \A l \in T.links : l = <<l[1], l[2]>> /\ l[2] \in Job
      BY TemplateType DEF Rows
    <3> QED BY <3>1, <3>2 DEF get_jobs_next
  <2>6. {o.job} \X o.times =
          {<<c[1], AsRead(c[2])>> : c \in {e \in T.times : e[1] = o.job}}
    <3>1. \A c \in T.times : c = <<c[1], c[2]>> /\ c[2] \in Constraint
      BY TemplateType DEF Rows
    <3>2. o.times = {AsRead(c) : c \in Times(T, o.job)}
      BY <2>1 DEF get_time_constraints
    <3>3. \A c \in Times(T, o.job) : <<o.job, c>> \in T.times
      BY DEF Times
    <3>4. \A c \in T.times : c[1] = o.job => c[2] \in Times(T, o.job)
      BY <3>1 DEF Times
    <3> DEFINE read == {<<c[1], AsRead(c[2])>> :
                          c \in {e \in T.times : e[1] = o.job}}
    <3>5. ASSUME NEW x \in {o.job} \X o.times PROVE x \in read
      <4>1. PICK f \in Times(T, o.job) : x = <<o.job, AsRead(f)>>
        BY <3>2
      <4>2. <<o.job, f>> \in {e \in T.times : e[1] = o.job}
        BY <3>3
      <4> QED BY <4>1, <4>2
    <3>6. ASSUME NEW x \in read PROVE x \in {o.job} \X o.times
      <4>1. PICK c \in T.times : c[1] = o.job /\ x = <<c[1], AsRead(c[2])>>
        OBVIOUS
      <4> QED BY <3>2, <3>4, <4>1
    <3> QED BY <3>5, <3>6
  <2>7. /\ \A c \in T.times : c[1] \in Job
        /\ \A l \in T.links : l[1] \in Job
    BY TemplateType DEF Rows
  <2>8. ASSUME NEW k \in JobsOf(T), NodeOf[k] = NodeOf[o.job], k < o.job
        PROVE  HasJob(here, k)
    <3>1. JobOp(d, k).node = NodeOf[k] /\ JobOp(d, k).kind = "add_job"
      BY <1>2, JobOpIs
    <3>2. Before(JobOp(d, k), o)
      BY <1>1, <1>2, <2>1, <2>8, <3>1, CopyOrder
    <3> QED BY <1>2, <3>1, <3>2 DEF IsMade
  <2> HIDE DEF made
  <2>9. made.nodes \subseteq T.nodes /\ JobsOf(made) \subseteq JobsOf(T)
    BY <2>1, <2>2, <2>4 DEF IsPrefix
  <2>10. /\ made.times = {<<c[1], AsRead(c[2])>> :
                            c \in {e \in T.times : HasJob(made, e[1])}}
         /\ made.links = {l \in T.links : HasJob(made, l[1])}
    <3>1. {e \in T.times : HasJob(made, e[1])} =
            {e \in T.times : HasJob(here, e[1])}
            \cup {e \in T.times : e[1] = o.job}
      BY <2>3, <2>7
    <3>2. here.times = {<<c[1], AsRead(c[2])>> :
                          c \in {e \in T.times : HasJob(here, e[1])}}
      BY DEF IsPrefix
    <3>3. made.times = {<<c[1], AsRead(c[2])>> :
                          c \in {e \in T.times : HasJob(made, e[1])}}
      BY <2>2, <2>6, <3>1, <3>2
    <3>4. made.links = {l \in T.links : HasJob(made, l[1])}
      BY <2>2, <2>3, <2>5, <2>7 DEF IsPrefix
    <3> QED BY <3>3, <3>4
  <2>11. \A j \in JobsOf(made), k \in JobsOf(T) :
           NodeOf[k] = NodeOf[j] /\ k < j => HasJob(made, k)
    BY <1>2, <2>3, <2>4, <2>8 DEF IsPrefix
  <2>12. \A n \in made.nodes, k \in JobsOf(T) :
           NodeOf[k] < n => HasJob(made, k)
    BY <1>2, <2>2, <2>3 DEF IsPrefix
  <2>13. IsPrefix(made, T)
    BY <2>9, <2>10, <2>11, <2>12 DEF IsPrefix
  <2> QED BY <2>13 DEF made
<1> QED BY <1>1, <1>4, <1>5

-----------------------------------------------------------------------------
(***************************************************************************)
(* Without clients, each planning is a prefix of the copy: the invariant   *)
(* says what the calls left of the current copy have to do with it.        *)
(***************************************************************************)
NoClients == Requests = {} /\ NodesToRemove = {}

Untouched == /\ db[Template] = InitialTemplate
             /\ todo[Server] = {} /\ told = {}

OnlyCopyCalls == main # "copy" => todo[Main] = {} /\ phase[Main] = "lock"

Begun ==
  /\ main \in {"load", "list"} =>
       db[target].nodes = {} /\ JobsOf(db[target]) = {}
  /\ main \in {"list", "copy"} => db[target].status = "loaded"

LeftToMake ==
  main = "copy" =>
    /\ todo[Main] \subseteq CopyCalls(InitialTemplate, target)
    /\ phase[Main] # "threw" =>
         \A o \in CopyCalls(InitialTemplate, target) :
           IsMade(o, db[target]) <=>
             \/ o \notin todo[Main]
             \/ phase[Main] = "unlock" /\ IsNext(o, todo[Main])

CopyInv ==
  Untouched /\ OnlyCopyCalls /\ Begun /\ LeftToMake /\ PlanningIsPrefix

LEMMA InitCopy == Init => CopyInv
<1> SUFFICES ASSUME Init PROVE CopyInv
  OBVIOUS
<1>1. /\ db[Template] = InitialTemplate
      /\ \A p \in Plannings : db[p] = Blank("absent")
  BY TemplateType DEF Init
<1>2. PlanningIsPrefix
  BY <1>1, BlankIsPrefix DEF PlanningIsPrefix
<1> QED
  BY <1>1, <1>2, ThreadsAreActors
     DEF Init, CopyInv, Untouched, OnlyCopyCalls, Begun, LeftToMake

\* A step of the main loop outside of the copy, or of anybody else, that leaves
\* the schemas alone.
LEMMA FrameCopy ==
  ASSUME CopyInv, UNCHANGED <<db, told>>, todo'[Server] = {},
         \/ /\ UNCHANGED <<main, target>>
            /\ todo'[Main] = todo[Main] /\ phase'[Main] = phase[Main]
         \/ /\ main' \notin {"load", "list", "copy"}
            /\ todo'[Main] = {} /\ phase'[Main] = "lock"
  PROVE  CopyInv'
<1>1. Untouched' /\ PlanningIsPrefix'
  BY DEF CopyInv, Untouched, PlanningIsPrefix
<1>2. OnlyCopyCalls' /\ Begun'
  BY DEF CopyInv, OnlyCopyCalls, Begun
<1>3. LeftToMake'
  BY DEF CopyInv, LeftToMake
<1> QED BY <1>1, <1>2, <1>3 DEF CopyInv

LEMMA EndsCopy ==
  ASSUME CopyInv, ProcessEnds
  PROVE  CopyInv'
BY FrameCopy, ThreadsAreActors DEF ProcessEnds

\* The thread of a job updates a state.
LEMMA ThreadExecutes ==
  ASSUME StateInv, CopyInv, NEW t \in Thread, Execute(t)
  PROVE  CopyInv'
<1> USE ThreadsAreActors
<1>1. PICK o \in todo[t] : db' = [db EXCEPT ![o.dom] = Result(o, @)]
  BY DEF Execute
<1>2. /\ o \in Operation /\ o.kind = "update_job_state"
      /\ o.dom = t[1] /\ t[1] \in Plannings
  <2>1. o \in Operation
    BY DEF StateInv, TypeOK
  <2>2. t[1] \in Plannings
    BY DEF Thread
  <2>3. o.kind = "update_job_state" /\ o.dom = t[1]
    BY DEF StateInv, ThreadCalls, Writes
  <2> QED BY <2>1, <2>2, <2>3
<1>3. /\ todo' = todo /\ main' = main /\ target' = target
      /\ phase'[Main] = phase[Main] /\ told' = told
  BY DEF Execute, mainVars, StateInv, TypeOK
<1>4. db \in [Schema -> Rows]
  BY DEF StateInv, TypeOK
<1>5. ASSUME NEW s \in Schema
      PROVE  /\ db'[s].status = db[s].status
             /\ db'[s].nodes = db[s].nodes /\ db'[s].links = db[s].links
             /\ db'[s].times = db[s].times
             /\ \A j \in Job : HasJob(db'[s], j) <=> HasJob(db[s], j)
             /\ s # t[1] => db'[s] = db[s]
  <2>1. CASE s = t[1]
    <3>1. db'[s] = Result(o, db[s])
      BY <1>1, <1>2, <1>4, <2>1
    <3> QED BY <1>2, <1>4, <2>1, <3>1, StateKeepsRows
  <2>2. CASE s # t[1]
    BY <1>1, <1>2, <1>4, <2>2
  <2> QED BY <2>1, <2>2
<1>6. Untouched'
  BY <1>2, <1>3, <1>5, TemplateType DEF CopyInv, Untouched
<1>7. PlanningIsPrefix'
  <2> SUFFICES ASSUME NEW p \in Plannings
               PROVE  IsPrefix(db'[p], db'[Template])
    BY DEF PlanningIsPrefix
  <2>1. IsPrefix(db[p], InitialTemplate) /\ db'[Template] = InitialTemplate
    BY <1>6 DEF CopyInv, Untouched, PlanningIsPrefix
  <2>2. p \in Schema
    BY TemplateType
  <2> QED BY <1>5, <2>1, <2>2, SameRowsPrefix
<1>8. target \in Schema /\ target \in Plannings
  BY TemplateType DEF StateInv, TypeOK
<1>9. OnlyCopyCalls' /\ Begun'
  BY <1>3, <1>5, <1>8 DEF CopyInv, OnlyCopyCalls, Begun, JobsOf
<1>10. LeftToMake'
  <2> SUFFICES ASSUME main = "copy"
               PROVE  \A p \in CopyCalls(InitialTemplate, target) :
                        IsMade(p, db'[target]) <=> IsMade(p, db[target])
    BY <1>3 DEF CopyInv, LeftToMake
  <2> SUFFICES ASSUME NEW p \in CopyCalls(InitialTemplate, target)
               PROVE  IsMade(p, db'[target]) <=> IsMade(p, db[target])
    OBVIOUS
  <2>1. CASE IsNodeOp(p, target)
    BY <1>5, <1>8, <2>1, NodeOpIs DEF IsMade
  <2>2. CASE IsJobOp(p, target)
    BY <1>5, <1>8, <2>2, JobOpIs DEF IsMade
  <2> QED BY <1>8, <2>1, <2>2, CopyCallsAre
<1> QED BY <1>6, <1>7, <1>9, <1>10 DEF CopyInv

\* The main loop makes a call of the copy.
LEMMA MainExecutes ==
  ASSUME RefersToRows(InitialTemplate), StateInv, CopyInv, Execute(Main)
  PROVE  CopyInv'
<1> USE ThreadsAreActors
<1>1. PICK o \in todo[Main] :
        /\ IsNext(o, todo[Main])
        /\ db' = [db EXCEPT ![o.dom] = Result(o, @)]
  BY DEF Execute
<1>2. /\ phase[Main] = "exec" /\ phase'[Main] \in {"unlock", "threw"}
      /\ todo' = todo /\ main' = main /\ target' = target /\ told' = told
  BY DEF Execute, mainVars, StateInv, TypeOK
<1>3. main = "copy"
  BY <1>1 DEF CopyInv, OnlyCopyCalls
<1>4. /\ db \in [Schema -> Rows] /\ target \in Plannings
      /\ target \in Schema /\ target # Template
  BY TemplateType DEF StateInv, TypeOK
<1>5. /\ todo[Main] \subseteq CopyCalls(InitialTemplate, target)
      /\ o \in CopyCalls(InitialTemplate, target) /\ o.dom = target
  BY <1>1, <1>3, <1>4, CopyCallsAre, NodeOpIs, JobOpIs DEF CopyInv, LeftToMake
<1>6. /\ db'[target] = Result(o, db[target])
      /\ \A s \in Schema : s # target => db'[s] = db[s]
  BY <1>1, <1>4, <1>5
<1>7. \A p \in CopyCalls(InitialTemplate, target) :
        IsMade(p, db[target]) <=> p \notin todo[Main]
  BY <1>2, <1>3 DEF CopyInv, LeftToMake
<1>8. /\ db'[target].status = db[target].status
      /\ \A p \in CopyCalls(InitialTemplate, target) :
           IsMade(p, db'[target]) <=> IsMade(p, db[target]) \/ p = o
  <2> DEFINE here == db[target]
  <2>1. here \in Rows
    BY <1>4
  <2> HIDE DEF here
  <2>2. /\ Result(o, here).status = here.status
        /\ \A p \in CopyCalls(InitialTemplate, target) :
             IsMade(p, Result(o, here)) <=> IsMade(p, here) \/ p = o
    BY <1>4, <1>5, <2>1, CopyAdds
  <2> QED BY <1>6, <2>2 DEF here
<1>9. Untouched'
  BY <1>2, <1>4, <1>6, TemplateType DEF CopyInv, Untouched
<1>10. IsPrefix(db'[target], InitialTemplate)
  <2>1. \A p \in CopyCalls(InitialTemplate, target) :
          Before(p, o) => IsMade(p, db[target])
    BY <1>1, <1>7 DEF IsNext
  <2>2. IsPrefix(db[target], InitialTemplate)
    BY <1>4 DEF CopyInv, Untouched, PlanningIsPrefix
  <2> QED BY <1>4, <1>5, <1>6, <2>1, <2>2, CopyLengthens
<1>11. PlanningIsPrefix'
  BY <1>6, <1>9, <1>10, TemplateType
     DEF CopyInv, Untouched, PlanningIsPrefix
<1>12. OnlyCopyCalls' /\ Begun'
  BY <1>2, <1>3, <1>8 DEF CopyInv, OnlyCopyCalls, Begun
<1>13. LeftToMake'
  <2>1. \A p : IsNext(p, todo[Main]) <=> p = o
    BY <1>1, <1>4, <1>5, NextIsOne
  <2> QED
    BY <1>2, <1>5, <1>7, <1>8, <2>1 DEF LeftToMake
<1> QED BY <1>9, <1>11, <1>12, <1>13 DEF CopyInv

LEMMA DomainStepCopy ==
  ASSUME RefersToRows(InitialTemplate), StateInv, CopyInv, NEW a \in Actor,
         DomainStep(a)
  PROVE  CopyInv'
<1> USE ThreadsAreActors
<1>1. todo \in [Actor -> SUBSET Operation] /\ todo[Server] = {}
  BY DEF StateInv, TypeOK, CopyInv, Untouched
<1>2. phase \in [Actor -> {"lock", "exec", "unlock", "threw"}]
  BY DEF StateInv, TypeOK
<1>3. a # Server
  BY <1>1 DEF DomainStep, Lock, Execute, Throw, Unlock, Release
<1>4. CASE Execute(a)
  BY <1>3, <1>4, ThreadExecutes, MainExecutes
<1>5. CASE a # Main /\ (Lock(a) \/ Throw(a) \/ Unlock(a))
  <2>1. UNCHANGED <<db, told, main, target, todo>>
    BY <1>3, <1>5 DEF Lock, Throw, Unlock, historyVars, mainVars
  <2>2. phase'[Main] = phase[Main]
    BY <1>2, <1>3, <1>5 DEF Lock, Throw, Unlock
  <2> QED BY <1>1, <2>1, <2>2, FrameCopy
<1>6. CASE a = Main /\ (Lock(a) \/ Throw(a))
  <2>1. /\ UNCHANGED <<db, told, main, target, todo>>
        /\ phase[Main] \notin {"unlock", "threw"}
        /\ phase'[Main] # "unlock" /\ todo[Main] # {}
    BY <1>2, <1>6 DEF Lock, Throw, historyVars, mainVars
  <2>2. main = "copy"
    BY <2>1 DEF CopyInv, OnlyCopyCalls
  <2>3. Untouched' /\ OnlyCopyCalls' /\ Begun' /\ PlanningIsPrefix'
    BY <2>1, <2>2
       DEF CopyInv, Untouched, OnlyCopyCalls, Begun, PlanningIsPrefix
  <2>4. LeftToMake'
    BY <2>1 DEF CopyInv, LeftToMake
  <2> QED BY <2>3, <2>4 DEF CopyInv
<1>7. CASE a = Main /\ Unlock(a)
  <2>1. UNCHANGED <<db, told, main, target>>
    BY <1>7 DEF Unlock, Release, historyVars, mainVars
  <2>2. PICK o \in todo[Main] :
          /\ IsNext(o, todo[Main])
          /\ todo' = [todo EXCEPT ![Main] = @ \ {o}]
    BY <1>7 DEF Unlock, Release
  <2>3. /\ phase[Main] = "unlock" /\ phase'[Main] = "lock"
        /\ todo'[Main] = todo[Main] \ {o} /\ todo'[Server] = {}
    BY <1>1, <1>2, <1>7, <2>2 DEF Unlock, Release
  <2>4. main = "copy" /\ target \in Plannings
    BY <2>2 DEF CopyInv, OnlyCopyCalls, StateInv, TypeOK
  <2>5. Untouched' /\ OnlyCopyCalls' /\ Begun' /\ PlanningIsPrefix'
    BY <2>1, <2>3, <2>4
       DEF CopyInv, Untouched, OnlyCopyCalls, Begun, PlanningIsPrefix
  <2>6. todo[Main] \subseteq CopyCalls(InitialTemplate, target)
    BY <2>4 DEF CopyInv, LeftToMake
  <2>7. \A p : IsNext(p, todo[Main]) <=> p = o
    BY <2>2, <2>4, <2>6, NextIsOne
  <2>8. LeftToMake'
    BY <2>1, <2>3, <2>4, <2>6, <2>7 DEF CopyInv, LeftToMake
  <2> QED BY <2>5, <2>8 DEF CopyInv
<1> QED BY <1>3, <1>4, <1>5, <1>6, <1>7 DEF DomainStep

LEMMA SetNextPlanningCopy ==
  ASSUME StateInv, CopyInv, SetNextPlanning, TypeOK'
  PROVE  CopyInv'
<1> USE ThreadsAreActors
<1>1. /\ todo \in [Actor -> SUBSET Operation] /\ todo[Server] = {}
      /\ phase \in [Actor -> {"lock", "exec", "unlock", "threw"}]
      /\ db \in [Schema -> Rows]
      /\ target \in Plannings /\ target' \in Plannings
  BY DEF StateInv, TypeOK, CopyInv, Untouched
<1>2. main # "copy" => todo[Main] = {} /\ phase[Main] = "lock"
  BY DEF CopyInv, OnlyCopyCalls
<1>3. ASSUME NEW p, Switches(p) \/ Refuses(p)
      PROVE  main' \notin {"load", "list", "copy"}
  BY <1>3 DEF Switches, Refuses
<1>4. ASSUME ThrowsProcessing
      PROVE  CopyInv'
  <2>1. CASE ProcessEnds
    BY <2>1, EndsCopy
  <2>2. CASE /\ Refuses(target)
             /\ todo' = [todo EXCEPT ![Main] = {}]
             /\ phase' = [phase EXCEPT ![Main] = "lock"]
             /\ UNCHANGED <<db, historyVars>>
    <3>1. todo'[Server] = {} /\ todo'[Main] = {} /\ phase'[Main] = "lock"
      BY <1>1, <2>2
    <3> QED BY <1>3, <2>2, <3>1, FrameCopy DEF historyVars
  <2> QED BY <1>4, <2>1, <2>2 DEF ThrowsProcessing
<1>5. CASE FindSchema
  <2>1. /\ main = "next" /\ target' = NextPlanning
        /\ UNCHANGED <<todo, phase, told>>
    BY <1>5 DEF FindSchema, historyVars
  <2>2. CASE db' = db /\ (Switches(NextPlanning) \/ Refuses(NextPlanning))
    BY <1>1, <1>2, <1>3, <2>1, <2>2, FrameCopy
  <2>3. CASE db' = [db EXCEPT ![NextPlanning] = Blank("bare")] /\ main' = "load"
    <3>1. /\ db'[target'] = Blank("bare")
          /\ \A s \in Schema : s # target' => db'[s] = db[s]
          /\ target' \in Schema /\ target' # Template
      BY <1>1, <2>1, <2>3, TemplateType
    <3>2. Untouched'
      BY <2>1, <3>1, TemplateType DEF CopyInv, Untouched
    <3>3. PlanningIsPrefix'
      BY <3>1, <3>2, TemplateType, BlankIsPrefix
         DEF CopyInv, Untouched, PlanningIsPrefix
    <3>4. Blank("bare").nodes = {} /\ JobsOf(Blank("bare")) = {}
      BY DEF Blank, JobsOf, HasJob
    <3>5. OnlyCopyCalls' /\ Begun' /\ LeftToMake'
      BY <1>2, <2>1, <2>3, <3>1, <3>4 DEF OnlyCopyCalls, Begun, LeftToMake
    <3> QED BY <3>2, <3>3, <3>5 DEF CopyInv
  <2> QED BY <1>5, <2>2, <2>3 DEF FindSchema
<1>6. CASE LoadSkeleton
  <2>1. main = "load" /\ UNCHANGED <<target, todo, phase, told>>
    BY <1>6 DEF LoadSkeleton, historyVars
  <2>2. CASE db' = db /\ (Switches(target) \/ Refuses(target))
    BY <1>1, <1>2, <1>3, <2>1, <2>2, FrameCopy
  <2>3. CASE db' = [db EXCEPT ![target].status = "loaded"] /\ main' = "list"
    <3>1. /\ db'[target].status = "loaded"
          /\ db'[target].nodes = db[target].nodes
          /\ db'[target].links = db[target].links
          /\ db'[target].times = db[target].times
          /\ db'[target].state = db[target].state
          /\ \A s \in Schema : s # target => db'[s] = db[s]
          /\ target \in Schema /\ target # Template
      BY <1>1, <2>3, TemplateType DEF Rows
    <3>2. Untouched'
      BY <2>1, <3>1, TemplateType DEF CopyInv, Untouched
    <3>3. IsPrefix(db'[target], InitialTemplate)
      <4>1. IsPrefix(db[target], InitialTemplate)
        BY <1>1 DEF CopyInv, Untouched, PlanningIsPrefix
      <4>2. \A j \in Job : HasJob(db'[target], j) <=> HasJob(db[target], j)
        BY <3>1 DEF HasJob
      <4> QED BY <3>1, <4>1, <4>2, SameRowsPrefix
    <3>4. PlanningIsPrefix'
      BY <3>1, <3>2, <3>3, TemplateType
         DEF CopyInv, Untouched, PlanningIsPrefix
    <3>5. OnlyCopyCalls' /\ Begun' /\ LeftToMake'
      BY <1>2, <2>1, <2>3, <3>1
         DEF CopyInv, OnlyCopyCalls, Begun, LeftToMake, JobsOf, HasJob
    <3> QED BY <3>2, <3>4, <3>5 DEF CopyInv
  <2> QED BY <1>6, <2>2, <2>3 DEF LoadSkeleton
<1>7. CASE ListTemplate
  <2>1. /\ main = "list" /\ main' = "copy"
        /\ todo' = [todo EXCEPT ![Main] = CopyCalls(db[Template], target)]
        /\ UNCHANGED <<db, phase, target, told>>
    BY <1>7 DEF ListTemplate, historyVars
  <2>2. /\ todo'[Main] = CopyCalls(InitialTemplate, target)
        /\ todo'[Server] = {} /\ phase'[Main] = "lock"
    BY <1>1, <1>2, <2>1 DEF CopyInv, Untouched
  <2>3. Untouched' /\ PlanningIsPrefix' /\ OnlyCopyCalls' /\ Begun'
    BY <2>1, <2>2
       DEF CopyInv, Untouched, PlanningIsPrefix, OnlyCopyCalls, Begun
  <2>4. \A o \in CopyCalls(InitialTemplate, target) : ~IsMade(o, db[target])
    <3> SUFFICES ASSUME NEW o \in CopyCalls(InitialTemplate, target)
                 PROVE  ~IsMade(o, db[target])
      OBVIOUS
    <3>1. db[target].nodes = {} /\ \A j \in Job : ~HasJob(db[target], j)
      BY <2>1 DEF CopyInv, Begun, JobsOf
    <3>2. CASE IsNodeOp(o, target)
      BY <1>1, <3>1, <3>2, NodeOpIs DEF IsMade
    <3>3. CASE IsJobOp(o, target)
      BY <1>1, <3>1, <3>3, JobOpIs DEF IsMade
    <3> QED BY <1>1, <3>2, <3>3, CopyCallsAre
  <2>5. LeftToMake'
    BY <2>1, <2>2, <2>4 DEF LeftToMake
  <2> QED BY <2>3, <2>5 DEF CopyInv
<1>8. CASE ListThrows
  <2>1. CASE ThrowsProcessing
    BY <1>4, <2>1
  <2>2. CASE ThrowsJob /\ main = "list"
    <3>1. CASE ProcessEnds
      BY <3>1, EndsCopy
    <3>2. CASE Refuses(target) /\ UNCHANGED <<domainVars, historyVars>>
      BY <1>1, <1>2, <1>3, <2>2, <3>2, FrameCopy DEF domainVars, historyVars
    <3> QED BY <2>2, <3>1, <3>2 DEF ThrowsJob
  <2> QED BY <1>8, <2>1, <2>2 DEF ListThrows
<1>9. CASE CopyEnds
  <2>1. todo'[Main] = {} /\ phase'[Main] = "lock" /\ todo'[Server] = {}
    BY <1>1, <1>9 DEF CopyEnds, Returned, domainVars
  <2> QED
    BY <1>3, <1>9, <2>1, FrameCopy DEF CopyEnds, domainVars, historyVars
<1>10. CASE CopyThrew
  BY <1>4, <1>10 DEF CopyThrew
<1> QED
  BY <1>5, <1>6, <1>7, <1>8, <1>9, <1>10 DEF SetNextPlanning

LEMMA NextCopy ==
  ASSUME NoClients, RefersToRows(InitialTemplate), StateInv, CopyInv,
         [Next]_vars, TypeOK'
  PROVE  CopyInv'
<1> USE ThreadsAreActors
<1>1. /\ todo \in [Actor -> SUBSET Operation] /\ todo[Server] = {}
      /\ phase \in [Actor -> {"lock", "exec", "unlock", "threw"}]
  BY DEF StateInv, TypeOK, CopyInv, Untouched
<1>2. main # "copy" => todo[Main] = {} /\ phase[Main] = "lock"
  BY DEF CopyInv, OnlyCopyCalls
<1>3. CASE MainStep
  <2>1. CASE Tick \/ CheckBuffer
    <3>1. /\ main # "copy" /\ main' \notin {"load", "list", "copy"}
          /\ UNCHANGED <<db, told, todo, phase>>
      BY <2>1 DEF Tick, CheckBuffer, domainVars, historyVars
    <3> QED BY <1>1, <1>2, <3>1, FrameCopy
  <2>2. CASE TickThrows
    BY <2>2, EndsCopy DEF TickThrows
  <2>3. CASE Dispatch
    <3>1. /\ main = "dispatch" /\ main' = "tick"
          /\ UNCHANGED <<db, told, phase>>
          /\ todo'[Main] = todo[Main] /\ todo'[Server] = {}
      BY <1>1, <2>3 DEF Dispatch, Created, historyVars
    <3> QED BY <1>2, <3>1, FrameCopy
  <2> QED
    BY <1>3, <2>1, <2>2, <2>3, DomainStepCopy, SetNextPlanningCopy DEF MainStep
<1>4. CASE \E t \in Thread : JobStep(t)
  <2> SUFFICES ASSUME NEW t \in Thread, JobStep(t) PROVE CopyInv'
    BY <1>4
  <2>1. CASE DomainStep(t)
    BY <2>1, DomainStepCopy
  <2>2. CASE StartThrew(t)
    BY <2>2, EndsCopy DEF StartThrew
  <2>3. CASE ~DomainStep(t) /\ ~StartThrew(t)
    <3>1. UNCHANGED <<db, told, main, target>>
      BY <2>3 DEF JobStep, StartCommand, CommandEnds, EndRecorded, EndThrew,
                  mainVars, historyVars
    <3>2. /\ todo'[Main] = todo[Main] /\ phase'[Main] = phase[Main]
          /\ todo'[Server] = {}
      BY <1>1, <2>3
         DEF JobStep, StartCommand, CommandEnds, EndRecorded, EndThrew,
             Release, Catches
    <3> QED BY <3>1, <3>2, FrameCopy
  <2> QED BY <2>1, <2>2, <2>3
<1>5. CASE ServerStep
  <2>1. CASE Answer
    <3>1. /\ UNCHANGED <<db, told, main, target>>
          /\ todo'[Main] = todo[Main] /\ phase'[Main] = phase[Main]
          /\ todo'[Server] = {}
      BY <1>1, <2>1 DEF Answer, Catches, mainVars, historyVars
    <3> QED BY <3>1, FrameCopy
  <2> QED
    BY <1>5, <2>1, DomainStepCopy
       DEF ServerStep, Receive, ReceiveRemoveNode, NoClients
<1>6. CASE Time \/ UNCHANGED vars
  <2>1. UNCHANGED <<db, told, main, target, todo, phase>>
    BY <1>6 DEF Time, vars, domainVars, mainVars, historyVars
  <2> QED BY <1>1, <2>1, FrameCopy
<1>7. CASE Crash
  BY <1>7, EndsCopy DEF Crash
<1>8. CASE Restart
  <2>1. /\ main = "dead" /\ main' = "next"
        /\ UNCHANGED <<db, told, todo, phase>>
    BY <1>8 DEF Restart, domainVars, historyVars
  <2> QED BY <1>1, <1>2, <2>1, FrameCopy
<1> QED BY <1>3, <1>4, <1>5, <1>6, <1>7, <1>8 DEF Next

LEMMA StateInvariant == Spec => []StateInv
BY InitState, NextState, PTL DEF Spec

LEMMA CopyInvariant ==
  ASSUME NoClients, RefersToRows(InitialTemplate)
  PROVE  Spec => []CopyInv
<1>1. StateInv => TypeOK
  BY DEF StateInv
<1>2. StateInv /\ TypeOK' /\ CopyInv /\ [Next]_vars => CopyInv'
  BY NextCopy
<1> QED BY <1>1, <1>2, InitCopy, StateInvariant, PTL DEF Spec

\* Errors of the database, kills and restarts leave in each planning a
\* beginning of the copy of the template, whole jobs in the order of the copy,
\* for every template whose rows refer to each other: this is all that
\* set_next_planning can count on when it takes an existing schema as it is.
THEOREM Prefixes ==
  ASSUME NoClients, RefersToRows(InitialTemplate)
  PROVE  Spec => []PlanningIsPrefix
<1>1. CopyInv => PlanningIsPrefix
  BY DEF CopyInv
<1> QED BY <1>1, CopyInvariant, PTL
=============================================================================
