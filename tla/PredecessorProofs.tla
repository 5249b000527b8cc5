------------------------- MODULE PredecessorProofs -------------------------
(***************************************************************************)
(* A job that is run had no predecessor in its planning, or one that       *)
(* succeeded there: whatever errors, kills and restarts cut the copies of  *)
(* the template and the threads of the jobs short, as long as no client    *)
(* changes the schemas.                                                    *)
(***************************************************************************)
EXTENDS CopyProofs

\* The jobs fetched or already given to a thread.
Dealt ==
  jobs \cup {<<t[1], t[2]>> : t \in {u \in Thread : run[u] # "none"}}

Preceded(p, j) ==
  \/ Prv(db[p], j) = {}
  \/ \E k \in Prv(db[p], j) : <<p, k, "succeded">> \in ran

Making == {"load", "list", "copy"}

\* The rows such a job was chosen by do not change any more: the planning
\* being made is never the one jobs were fetched from.
DealtInv ==
  /\ \A r \in Dealt : /\ db[r[1]].status = "loaded"
                      /\ Preceded(r[1], r[2])
  /\ main \in Making => \A r \in Dealt : r[1] # target

\* The planning being made changes only when FindSchema finds no schema.
LEMMA MakingStep ==
  ASSUME [Next]_vars, main' \in Making
  PROVE  \/ main \in Making /\ target' = target
         \/ target' = NextPlanning /\ db[NextPlanning].status = "absent"
<1>1. ASSUME ProcessEnds PROVE FALSE
  BY <1>1 DEF ProcessEnds, Making
<1>2. ASSUME NEW p, Switches(p) \/ Refuses(p) PROVE FALSE
  BY <1>2 DEF Switches, Refuses, Making
<1>3. CASE UNCHANGED <<main, target>>
  BY <1>3
<1>4. ASSUME NEW a, DomainStep(a) PROVE UNCHANGED <<main, target>>
  BY <1>4 DEF DomainStep, Lock, Execute, Throw, Unlock, mainVars
<1>5. CASE SetNextPlanning
  <2>1. CASE FindSchema
    BY <1>2, <2>1 DEF FindSchema
  <2>2. CASE LoadSkeleton
    BY <1>2, <2>2 DEF LoadSkeleton, Making
  <2>3. CASE ListTemplate
    BY <2>3 DEF ListTemplate, Making
  <2>4. CASE ListThrows \/ CopyThrew
    BY <1>1, <1>2, <2>4
       DEF ListThrows, CopyThrew, ThrowsProcessing, ThrowsJob
  <2>5. CASE CopyEnds
    BY <1>2, <2>5 DEF CopyEnds
  <2> QED BY <1>5, <2>1, <2>2, <2>3, <2>4, <2>5 DEF SetNextPlanning
<1>6. CASE Tick \/ TickThrows \/ CheckBuffer \/ Dispatch
  BY <1>1, <1>6 DEF Tick, TickThrows, CheckBuffer, Dispatch, Making
<1>7. CASE \E t \in Thread : JobStep(t)
  BY <1>1, <1>3, <1>4, <1>7
     DEF JobStep, StartCommand, StartThrew, CommandEnds, EndRecorded,
         EndThrew, mainVars
<1>8. CASE ServerStep
  BY <1>3, <1>4, <1>8
     DEF ServerStep, Receive, ReceiveRemoveNode, Answer, mainVars
<1>9. CASE Time \/ Crash \/ Restart \/ UNCHANGED vars
  BY <1>1, <1>3, <1>9 DEF Time, Crash, Restart, Making, vars, mainVars
<1> QED
  BY <1>3, <1>4, <1>5, <1>6, <1>7, <1>8, <1>9 DEF Next, MainStep

\* Jobs are only dealt with by the read at the top of an iteration.
LEMMA DealtStep ==
  ASSUME TypeOK, [Next]_vars
  PROVE  /\ ran \subseteq ran'
         /\ \/ Dealt' \subseteq Dealt
            \/ /\ Tick /\ db[start].status = "loaded"
               /\ \E minute \in Minute : jobs' = ReadyJobs(start, minute)
<1> USE ThreadsAreActors
<1>1. ASSUME UNCHANGED run, jobs' \subseteq jobs
      PROVE  Dealt' \subseteq Dealt
  BY <1>1 DEF Dealt
<1>2. ASSUME UNCHANGED jobs,
             \A t \in Thread : run'[t] # "none" => run[t] # "none"
      PROVE  Dealt' \subseteq Dealt
  BY <1>2 DEF Dealt
<1>3. ASSUME ProcessEnds
      PROVE  ran' = ran /\ Dealt' \subseteq Dealt
  <2>1. /\ ran' = ran /\ jobs' = {}
        /\ \A t \in Thread : run'[t] # "none" => run[t] # "none"
    BY <1>3 DEF ProcessEnds, Running
  <2> QED BY <2>1 DEF Dealt
<1>4. ASSUME NEW p, Switches(p) \/ Refuses(p) PROVE jobs' = jobs
  BY <1>4 DEF Switches, Refuses
<1>5. ASSUME NEW a, DomainStep(a) PROVE UNCHANGED <<ran, run, jobs>>
  BY <1>5 DEF DomainStep, Lock, Execute, Throw, Unlock, mainVars, historyVars
<1>6. CASE SetNextPlanning
  <2>1. CASE FindSchema \/ LoadSkeleton \/ ListTemplate \/ CopyEnds
    <3>1. UNCHANGED <<ran, run, jobs>>
      BY <1>4, <2>1
         DEF FindSchema, LoadSkeleton, ListTemplate, CopyEnds, historyVars
    <3> QED BY <1>1, <3>1
  <2>2. CASE ListThrows \/ CopyThrew
    <3>1. CASE ProcessEnds
      BY <1>3, <3>1
    <3>2. CASE ~ProcessEnds
      <4>1. UNCHANGED <<ran, run, jobs>>
        BY <1>4, <2>2, <3>2
           DEF ListThrows, CopyThrew, ThrowsProcessing, ThrowsJob, historyVars
      <4> QED BY <1>1, <4>1
    <3> QED BY <3>1, <3>2
  <2> QED BY <1>6, <2>1, <2>2 DEF SetNextPlanning
<1>7. CASE Tick
  <2>1. ran' = ran /\ run' = run
    BY <1>7 DEF Tick, historyVars
  <2> QED BY <1>1, <1>7, <2>1 DEF Tick
<1>8. CASE TickThrows
  BY <1>3, <1>8 DEF TickThrows
<1>9. CASE CheckBuffer
  BY <1>1, <1>9 DEF CheckBuffer, historyVars
<1>10. CASE Dispatch
  <2>1. /\ ran' = ran /\ jobs' = {}
        /\ \A t \in Thread : run'[t] # "none" =>
             run[t] # "none" \/ <<t[1], t[2]>> \in jobs
    BY <1>10 DEF Dispatch, Created, Dispatched, historyVars
  <2> QED BY <2>1 DEF Dealt
<1>11. CASE \E t \in Thread : JobStep(t)
  <2> SUFFICES ASSUME NEW t \in Thread, JobStep(t)
               PROVE  ran \subseteq ran' /\ Dealt' \subseteq Dealt
    BY <1>11
  <2>1. CASE DomainStep(t)
    BY <1>1, <1>5, <2>1
  <2>2. CASE StartThrew(t)
    BY <1>3, <2>2 DEF StartThrew
  <2>3. CASE ~DomainStep(t) /\ ~StartThrew(t)
    <3>1. UNCHANGED jobs /\ ran \subseteq ran'
      BY <2>3 DEF JobStep, StartCommand, CommandEnds, EndRecorded, EndThrew,
                  mainVars, historyVars
    <3>2. /\ run[t] # "none"
          /\ \A u \in Thread : u # t => run'[u] = run[u]
      BY <2>3 DEF JobStep, StartCommand, CommandEnds, EndRecorded, EndThrew,
                  TypeOK
    <3> QED BY <1>2, <3>1, <3>2
  <2> QED BY <2>1, <2>2, <2>3
<1>12. CASE ServerStep
  <2>1. UNCHANGED <<ran, run, jobs>>
    BY <1>5, <1>12
       DEF ServerStep, Receive, ReceiveRemoveNode, Answer, mainVars,
           historyVars
  <2> QED BY <1>1, <2>1
<1>13. CASE Time \/ Restart \/ UNCHANGED vars
  BY <1>1, <1>13 DEF Time, Restart, vars, mainVars, historyVars
<1>14. CASE Crash
  BY <1>3, <1>14 DEF Crash
<1>15. CASE DomainStep(Main)
  BY <1>1, <1>5, <1>15
<1> QED
  BY <1>6, <1>7, <1>8, <1>9, <1>10, <1>11, <1>12, <1>13, <1>14, <1>15
     DEF Next, MainStep

\* No step touches the links of a planning jobs were dealt from.
LEMMA DealtLinks ==
  ASSUME StateInv, CopyInv, DealtInv, [Next]_vars, NEW r \in Dealt
  PROVE  /\ db'[r[1]].status = db[r[1]].status
         /\ db'[r[1]].links = db[r[1]].links
<1> USE ThreadsAreActors
<1>1. /\ db \in [Schema -> Rows] /\ r[1] \in Schema
      /\ target \in Schema /\ TypeOK
  BY PlanningsType DEF StateInv, TypeOK, Dealt
<1>2. CASE db' = db
  BY <1>2
<1>3. ASSUME NEW a \in Actor, Execute(a),
             NEW o \in todo[a], IsNext(o, todo[a]),
             db' = [db EXCEPT ![o.dom] = Result(o, @)]
      PROVE  /\ db'[r[1]].status = db[r[1]].status
             /\ db'[r[1]].links = db[r[1]].links
  <2>1. o \in Operation /\ o.dom \in Schema
    BY <1>1 DEF TypeOK, Operation
  <2>2. CASE r[1] # o.dom
    BY <1>1, <1>3, <2>1, <2>2
  <2>3. CASE r[1] = o.dom
    <3>1. a # Server
      BY <1>3 DEF CopyInv, Untouched
    <3>2. CASE a = Main
      <4>1. main = "copy"
        BY <1>3, <3>2 DEF CopyInv, OnlyCopyCalls
      <4>2. o \in CopyCalls(InitialTemplate, target)
        BY <1>3, <3>2, <4>1 DEF CopyInv, LeftToMake
      <4>3. o.dom = target
        <5>1. target \in Plannings
          BY DEF StateInv, TypeOK
        <5> QED BY <4>2, <5>1, CopyCallsAre, NodeOpIs, JobOpIs
      <4> QED BY <2>3, <4>1, <4>3 DEF DealtInv, Making
    <3>3. CASE a \in Thread
      <4>1. o.kind = "update_job_state"
        BY <3>3 DEF StateInv, ThreadCalls, Writes
      <4>2. db'[r[1]] = Result(o, db[r[1]])
        BY <1>1, <1>3, <2>3
      <4>3. /\ Result(o, db[r[1]]).status = db[r[1]].status
            /\ Result(o, db[r[1]]).links = db[r[1]].links
        BY <4>1 DEF Result
      <4> QED BY <4>2, <4>3
    <3> QED BY <3>1, <3>2, <3>3 DEF Actor
  <2> QED BY <2>2, <2>3
<1>4. CASE /\ db[NextPlanning].status = "absent"
           /\ db' = [db EXCEPT ![NextPlanning] = Blank("bare")]
  <2>1. r[1] # NextPlanning
    BY <1>4 DEF DealtInv
  <2> QED BY <1>1, <1>4, <2>1
<1>5. CASE /\ main = "load"
           /\ db' = [db EXCEPT ![target].status = "loaded"]
  <2>1. r[1] # target
    BY <1>5 DEF DealtInv, Making
  <2> QED BY <1>1, <1>5, <2>1
<1> QED BY <1>1, <1>2, <1>3, <1>4, <1>5, StepOfSchemas

\* A job that is fetched has no predecessor, or one recorded as a success.
LEMMA ReadyIsPreceded ==
  ASSUME StateInv, CopyInv, NEW minute \in Minute,
         NEW r \in ReadyJobs(start, minute)
  PROVE  r[1] = start /\ Preceded(start, r[2])
<1>1. start \in Plannings /\ db[start] \in Rows
  BY PlanningsType DEF StateInv, TypeOK
<1>2. /\ r[1] = start /\ r[2] \in Job
      /\ \/ r[2] \in get_ready_links(db[start])
         \/ r[2] \in get_ready_linkless(db[start])
  BY DEF ReadyJobs, get_ready_job, JobsOf
<1>3. CASE r[2] \in get_ready_linkless(db[start])
  BY <1>2, <1>3 DEF get_ready_linkless, Preceded
<1>4. CASE r[2] \in get_ready_links(db[start])
  <2>1. PICK l \in db[start].links :
          db[start].state[l[1]] = "succeded" /\ l[2] = r[2]
    BY <1>4 DEF get_ready_links
  <2>2. l[1] \in Job /\ l = <<l[1], l[2]>>
    BY <1>1 DEF Rows
  <2>3. l[1] \in Prv(db[start], r[2])
    BY <2>1, <2>2 DEF Prv
  <2>4. <<start, l[1], "succeded">> \in ran
    BY <1>1, <2>1, <2>2
       DEF StateInv, RecordedEndIsTrue, CopyInv, Untouched
  <2> QED BY <1>2, <2>3, <2>4 DEF Preceded
<1> QED BY <1>2, <1>3, <1>4

LEMMA NextDealt ==
  ASSUME StateInv, CopyInv, DealtInv, [Next]_vars
  PROVE  DealtInv'
<1>1. TypeOK /\ ran \subseteq ran'
  BY DealtStep DEF StateInv
<1>2. ASSUME NEW r \in Dealt
      PROVE  /\ db'[r[1]].status = "loaded"
             /\ Preceded(r[1], r[2])'
  BY <1>1, <1>2, DealtLinks DEF DealtInv, Preceded, Prv
<1>3. CASE Dealt' \subseteq Dealt
  <2>1. ASSUME main' \in Making, NEW r \in Dealt
        PROVE  r[1] # target'
    BY <2>1, MakingStep DEF DealtInv
  <2> QED BY <1>2, <1>3, <2>1 DEF DealtInv
<1>4. ASSUME Tick, db[start].status = "loaded", NEW minute \in Minute,
             jobs' = ReadyJobs(start, minute)
      PROVE  DealtInv'
  <2>1. main' \notin Making /\ UNCHANGED <<db, run, ran>>
    BY <1>4 DEF Tick, Making, domainVars, historyVars
  <2>2. Dealt' \subseteq Dealt \cup jobs'
    BY <2>1 DEF Dealt
  <2>3. ASSUME NEW r \in jobs'
        PROVE  db'[r[1]].status = "loaded" /\ Preceded(r[1], r[2])'
    BY <1>4, <2>1, ReadyIsPreceded DEF Preceded
  <2> QED BY <1>2, <2>1, <2>2, <2>3 DEF DealtInv
<1> QED BY <1>1, <1>3, <1>4, DealtStep

LEMMA DealtInvariant ==
  ASSUME NoClients, RefersToRows(InitialTemplate)
  PROVE  Spec => []DealtInv
<1>1. Init => DealtInv
  BY DEF Init, DealtInv, Dealt, Making
<1>2. StateInv /\ CopyInv /\ DealtInv /\ [Next]_vars => DealtInv'
  BY NextDealt
<1> QED
  BY <1>1, <1>2, StateInvariant, CopyInvariant, PTL DEF Spec

\* Without clients no job of any planning is given to a thread before one of
\* its predecessors has succeeded in that planning, for every template and
\* whatever fails: a job that lost its link to a copy cut short is, in that
\* planning, a job without predecessor.
THEOREM PredecessorsRun ==
  ASSUME NoClients, RefersToRows(InitialTemplate)
  PROVE  Spec => []PredecessorRanFirst
<1>1. DealtInv => PredecessorRanFirst
  <2> SUFFICES ASSUME DealtInv, NEW t \in Thread, run[t] # "none"
               PROVE  Preceded(t[1], t[2])
    BY DEF PredecessorRanFirst, Preceded
  <2>1. <<t[1], t[2]>> \in Dealt
    BY DEF Dealt
  <2> QED BY <2>1 DEF DealtInv
<1> QED BY <1>1, DealtInvariant, PTL

\* When no job of the template has two predecessors, a job is only run after
\* all its predecessors, as model.thrift:178 has it: the views only fall short
\* of it where jobs join (run predecessors).
THEOREM AllPredecessorsRun ==
  ASSUME NoClients, RefersToRows(InitialTemplate),
         \A j \in Job : \A p, q \in Prv(InitialTemplate, j) : p = q
  PROVE  Spec => []AllPredecessorsRanFirst
<1>1. ASSUME StateInv, CopyInv, DealtInv, NEW t \in Thread, run[t] # "none",
             NEW p \in Prv(db[t[1]], t[2])
      PROVE  <<t[1], p, "succeded">> \in ran
  <2>1. t[1] \in Plannings /\ t[2] \in Job
    BY DEF Thread
  <2>2. Prv(db[t[1]], t[2]) \subseteq Prv(InitialTemplate, t[2])
    <3>1. db[t[1]].links \subseteq InitialTemplate.links
      BY <1>1, <2>1 DEF CopyInv, Untouched, PlanningIsPrefix, IsPrefix
    <3> QED BY <3>1 DEF Prv
  <2>3. Preceded(t[1], t[2])
    <3>1. <<t[1], t[2]>> \in Dealt
      BY <1>1 DEF Dealt
    <3> QED BY <1>1, <3>1 DEF DealtInv
  <2>4. PICK k \in Prv(db[t[1]], t[2]) : <<t[1], k, "succeded">> \in ran
    BY <1>1, <2>3 DEF Preceded
  <2>5. k = p
    BY <1>1, <2>1, <2>2, <2>4
  <2> QED BY <2>4, <2>5
<1>2. StateInv /\ CopyInv /\ DealtInv => AllPredecessorsRanFirst
  BY <1>1 DEF AllPredecessorsRanFirst, PredecessorsRan
<1> QED BY <1>2, StateInvariant, CopyInvariant, DealtInvariant, PTL
=============================================================================
