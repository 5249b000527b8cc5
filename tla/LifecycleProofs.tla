-------------------------- MODULE LifecycleProofs --------------------------
(***************************************************************************)
(* In each planning a job goes from waiting to running to succeded or      *)
(* failed, once, provided a thread records RUNNING before the loop reads   *)
(* the jobs again.  Errors, kills and restarts change nothing to that.     *)
(***************************************************************************)
EXTENDS PromptProofs

StateOf(t) == db[t[1]].state[t[2]]

\* What the row of a job says while a thread has it.  A thread whose update
\* threw does not know whether it was done.
Row(t) ==
  /\ run[t] = "starting" =>
       StateOf(t) \in CASE phase[t] = "unlock" -> {"running"}
                        [] phase[t] = "threw" -> {"waiting", "running"}
                        [] OTHER -> {"waiting"}
  /\ run[t] = "command" => StateOf(t) = "running"
  /\ run[t] = "ending" =>
       StateOf(t) \in CASE phase[t] = "unlock" -> {"succeded", "failed"}
                        [] phase[t] = "threw" ->
                             {"running", "succeded", "failed"}
                        [] OTHER -> {"running"}

RowFollowsThread == \A t \in Thread : Row(t)

OneThread ==
  \A t, u \in Running : t[1] = u[1] /\ t[2] = u[2] => t = u

FetchedWait ==
  \A r \in jobs :
    /\ db[r[1]].state[r[2]] = "waiting"
    /\ \A t \in Running : <<t[1], t[2]>> # r

AbsentIsEmpty ==
  \A p \in Plannings :
    db[p].status = "absent" => \A j \in Job : db[p].state[j] = NoRow

LifeInv == RowFollowsThread /\ OneThread /\ FetchedWait /\ AbsentIsEmpty

StatesKept == \A p \in Plannings : db'[p].state = db[p].state

LEMMA FrameLife ==
  ASSUME LifeInv, StatesKept, TypeOK, jobs' \subseteq jobs,
         \A t \in Thread : run'[t] = run[t] /\ phase'[t] = phase[t],
         \A p \in Plannings :
           db'[p].status = "absent" => db[p].status = "absent"
  PROVE  LifeInv'
<1>1. /\ \A t \in Thread : t[1] \in Plannings
      /\ \A r \in jobs : r[1] \in Plannings
  BY DEF Thread, TypeOK
<1>2. RowFollowsThread'
  BY <1>1 DEF LifeInv, RowFollowsThread, Row, StateOf, StatesKept
<1>3. Running' = Running
  BY DEF Running
<1>4. OneThread'
  BY <1>3 DEF LifeInv, OneThread
<1>5. FetchedWait'
  BY <1>1, <1>3 DEF LifeInv, FetchedWait, StatesKept
<1>6. AbsentIsEmpty'
  BY DEF LifeInv, AbsentIsEmpty, StatesKept
<1> QED BY <1>2, <1>4, <1>5, <1>6 DEF LifeInv

\* The states change by the transactions of the process only: creating the
\* tables of a planning creates no row.
LEMMA StatesStep ==
  ASSUME StateInv, LifeInv, [Next]_vars
  PROVE  \/ StatesKept
         \/ \E a \in Actor :
              /\ Execute(a)
              /\ \E o \in todo[a] : /\ Commits(o, db)
                                    /\ db' = [db EXCEPT ![o.dom] = Result(o, @)]
<1>1. TypeOK /\ db \in [Schema -> Rows] /\ Plannings \subseteq Schema
      /\ target \in Schema
  BY PlanningsType DEF StateInv, TypeOK
<1>2. CASE db' = db
  BY <1>2 DEF StatesKept
<1>3. CASE /\ db[NextPlanning].status = "absent"
           /\ db' = [db EXCEPT ![NextPlanning] = Blank("bare")]
  <2> SUFFICES ASSUME NEW p \in Plannings PROVE db'[p].state = db[p].state
    BY DEF StatesKept
  <2>1. CASE p = NextPlanning
    <3>1. db[p] \in Rows /\ db'[p].state = [j \in Job |-> NoRow]
      BY <1>1, <1>3, <2>1 DEF Blank
    <3>2. \A j \in Job : db[p].state[j] = NoRow
      BY <1>3, <2>1 DEF LifeInv, AbsentIsEmpty
    <3>3. db[p].state = [j \in Job |-> db[p].state[j]]
      BY <3>1 DEF Rows
    <3> QED BY <3>1, <3>2, <3>3
  <2>2. CASE p # NextPlanning
    BY <1>1, <1>3, <2>2
  <2> QED BY <2>1, <2>2
<1>4. CASE db' = [db EXCEPT ![target].status = "loaded"]
  <2> SUFFICES ASSUME NEW p \in Plannings PROVE db'[p].state = db[p].state
    BY DEF StatesKept
  <2>1. db[p] \in Rows
    BY <1>1
  <2> QED BY <1>1, <1>4, <2>1 DEF Rows
<1> QED BY <1>1, <1>2, <1>3, <1>4, StepOfSchemas

\* A transaction moves one job along its life.
Moves(p, j, from, to) ==
  /\ db[p].state[j] = from
  /\ \A q \in Plannings :
       db'[q].state = IF q = p THEN [db[q].state EXCEPT ![j] = to]
                      ELSE db[q].state

LEMMA ExecuteMoves ==
  ASSUME StateInv, CopyInv, LifeInv, NEW a \in Actor, phase[a] = "exec",
         NEW o \in todo[a], Commits(o, db),
         db' = [db EXCEPT ![o.dom] = Result(o, @)]
  PROVE  \/ a = Main /\ StatesKept
         \/ a = Main /\ o.job \in Job /\ Moves(target, o.job, NoRow, "waiting")
         \/ /\ a \in Thread /\ run[a] = "starting"
            /\ Moves(a[1], a[2], "waiting", "running")
         \/ /\ a \in Thread /\ run[a] = "ending"
            /\ \E s \in {"succeded", "failed"} : Moves(a[1], a[2], "running", s)
<1>1. /\ TypeOK /\ db \in [Schema -> Rows] /\ Plannings \subseteq Schema
      /\ target \in Plannings
      /\ \A t \in Thread : t[1] \in Plannings /\ t[2] \in Job
  BY PlanningsType DEF StateInv, TypeOK, Thread
<1>2. /\ o \in Operation
      /\ o.kind \in {"add_node", "add_job", "update_job_state"}
      /\ \/ a = Main /\ o \in CopyCalls(InitialTemplate, target)
            /\ main = "copy" /\ o.dom = target
         \/ a \in Thread /\ o.kind = "update_job_state"
            /\ o.dom = a[1] /\ o.job = a[2]
            /\ \/ run[a] = "starting" /\ o.state = "running"
               \/ run[a] = "ending" /\ o.state \in {"succeded", "failed"}
  BY CallsOfProcess
<1>3. o.dom \in Plannings /\ db[o.dom] \in Rows
      /\ db'[o.dom] = Result(o, db[o.dom])
      /\ \A q \in Plannings : q # o.dom => db'[q] = db[q]
  BY <1>1, <1>2
<1>4. db[o.dom].state \in [Job -> JobState \cup {NoRow}]
  BY <1>3 DEF Rows
<1>5. ASSUME NEW j \in Job, o.job = j
      PROVE  Moves(o.dom, j, db[o.dom].state[j],
                   StateAfter(o, db[o.dom].state[j]))
  <2>1. Result(o, db[o.dom]).state =
          [db[o.dom].state EXCEPT ![j] = StateAfter(o, @)]
    BY <1>4, <1>5 DEF Result
  <2> QED BY <1>3, <2>1 DEF Moves
<1>6. CASE o.kind = "add_node"
  <2>1. a = Main
    BY <1>2, <1>6
  <2>2. \A j \in Job : Result(o, db[o.dom]).state[j] = db[o.dom].state[j]
    BY <1>4, <1>6 DEF Result, StateAfter
  <2>3. Result(o, db[o.dom]).state = db[o.dom].state
    BY <1>4, <2>2 DEF Result
  <2> QED BY <1>3, <2>1, <2>3 DEF StatesKept
<1>7. CASE o.kind = "add_job"
  <2>1. a = Main /\ o.dom = target /\ o.job \in Job
    BY <1>2, <1>7 DEF Operation, NodeKind
  <2>2. db[target].state[o.job] = NoRow
    BY <1>7, <2>1 DEF Commits, HasJob
  <2>3. StateAfter(o, NoRow) = "waiting"
    BY <1>7 DEF StateAfter
  <2> QED BY <1>5, <2>1, <2>2, <2>3
<1>8. CASE o.kind = "update_job_state"
  <2>1. CASE a = Main
    <3>1. o.kind # "update_job_state"
      BY <2>1 DEF StateInv, MainCalls
    <3> QED BY <1>8, <3>1
  <2>2. CASE a \in Thread
    <3>1. /\ o.dom = a[1] /\ o.job = a[2] /\ a[2] \in Job
          /\ \/ run[a] = "starting" /\ o.state = "running"
             \/ run[a] = "ending" /\ o.state \in {"succeded", "failed"}
      BY <1>1, <1>2, <2>2, ThreadsAreActors
    <3>2. /\ run[a] = "starting" => StateOf(a) = "waiting"
          /\ run[a] = "ending" => StateOf(a) = "running"
      BY <2>2 DEF LifeInv, RowFollowsThread, Row
    <3>3. StateAfter(o, StateOf(a)) = o.state
      BY <1>8, <3>1, <3>2 DEF StateAfter, NoRow
    <3>4. Moves(a[1], a[2], StateOf(a), o.state)
      BY <1>5, <3>1, <3>3 DEF StateOf
    <3> QED BY <2>2, <3>1, <3>2, <3>4
  <2> QED BY <1>2, <2>1, <2>2
<1> QED BY <1>2, <1>6, <1>7, <1>8

LEMMA ExecuteLife ==
  ASSUME StateInv, CopyInv, DealtInv, LifeInv, NEW a \in Actor, Execute(a)
  PROVE  LifeInv'
<1> USE ThreadsAreActors
<1>1. PICK o \in todo[a] : /\ Commits(o, db)
                          /\ db' = [db EXCEPT ![o.dom] = Result(o, @)]
  BY DEF Execute
<1>2. /\ phase[a] = "exec"
      /\ \/ phase' = [phase EXCEPT ![a] = "unlock"]
         \/ phase' = [phase EXCEPT ![a] = "threw"]
      /\ UNCHANGED <<run, jobs>>
  BY DEF Execute, mainVars
<1>3. /\ TypeOK /\ target \in Plannings
      /\ \A t \in Thread : t[1] \in Plannings /\ t[2] \in Job
      /\ \A r \in jobs : r[1] \in Plannings /\ r[2] \in Job
      /\ \A p \in Plannings : db[p].state \in [Job -> JobState \cup {NoRow}]
  BY PlanningsType DEF StateInv, TypeOK, Thread, Rows
<1>4. Running' = Running /\ OneThread'
  BY <1>2 DEF Running, LifeInv, OneThread
<1>5. AbsentIsEmpty'
  <2>1. db[o.dom].status = "loaded" /\ db'[o.dom] = Result(o, db[o.dom])
    <3>1. o.dom \in Schema /\ db \in [Schema -> Rows]
      BY DEF StateInv, TypeOK, Operation
    <3> QED BY <1>1, <3>1 DEF Commits
  <2>2. \A p \in Plannings : p # o.dom => db'[p] = db[p]
    BY <1>1, PlanningsType DEF StateInv, TypeOK
  <2>3. db'[o.dom].status = "loaded"
    BY <2>1 DEF Result
  <2> QED BY <2>2, <2>3 DEF LifeInv, AbsentIsEmpty
<1>6. ASSUME NEW p \in Plannings, NEW j \in Job, NEW from, NEW to,
             Moves(p, j, from, to)
      PROVE  /\ db'[p].state[j] = to
             /\ \A q \in Plannings, k \in Job :
                  q # p \/ k # j => db'[q].state[k] = db[q].state[k]
  BY <1>3, <1>6 DEF Moves
<1> DEFINE M == \/ a = Main /\ StatesKept
                \/ a = Main /\ Moves(target, o.job, NoRow, "waiting")
           S == \/ run[a] = "starting" /\ Moves(a[1], a[2], "waiting", "running")
                \/ /\ run[a] = "ending"
                   /\ \E s \in {"succeded", "failed"} :
                        Moves(a[1], a[2], "running", s)
<1>0. (a = Main /\ M) \/ (a \in Thread /\ S)
  <2>1. Commits(o, db) /\ db' = [db EXCEPT ![o.dom] = Result(o, @)]
        /\ phase[a] = "exec"
    BY <1>1, <1>2
  <2> QED BY <2>1, ExecuteMoves
<1> HIDE DEF M, S
<1>7. CASE a = Main
  <2>1. \A t \in Thread : phase'[t] = phase[t]
    BY <1>2, <1>7 DEF StateInv, TypeOK
  <2>2. main = "copy"
    BY <1>2, <1>7 DEF CopyInv, OnlyCopyCalls
  <2>3. /\ \A t \in Running : t[1] # target
        /\ \A r \in jobs : r[1] # target
    <3>1. \A r \in Dealt : r[1] # target
      BY <2>2 DEF DealtInv, Making
    <3>2. \A r \in jobs : r \in Dealt
      BY DEF Dealt
    <3>3. \A t \in Running : <<t[1], t[2]>> \in Dealt
      BY DEF Dealt, Running
    <3> QED BY <3>1, <3>2, <3>3
  <2>4. \A p \in Plannings : p # target => db'[p].state = db[p].state
    <3>1. M
      BY <1>0, <1>7
    <3> QED BY <3>1 DEF M, StatesKept, Moves
  <2>5. RowFollowsThread'
    <3> SUFFICES ASSUME NEW t \in Thread,
                        run[t] \in {"starting", "command", "ending"}
                 PROVE  StateOf(t)' = StateOf(t)
      BY <1>2, <2>1 DEF LifeInv, RowFollowsThread, Row
    <3> QED BY <1>3, <2>3, <2>4 DEF Running, StateOf
  <2>6. FetchedWait'
    BY <1>2, <1>3, <1>4, <2>3, <2>4 DEF LifeInv, FetchedWait
  <2> QED BY <1>4, <1>5, <2>5, <2>6 DEF LifeInv
<1>8. CASE a \in Thread
  <2>1. PICK s \in {"running", "succeded", "failed"} :
          /\ Moves(a[1], a[2], StateOf(a), s)
          /\ \/ run[a] = "starting" /\ s = "running"
             \/ run[a] = "ending" /\ s \in {"succeded", "failed"}
    <3>1. S
      BY <1>0, <1>8
    <3>2. CASE run[a] = "starting" /\ Moves(a[1], a[2], "waiting", "running")
      BY <3>2 DEF Moves, StateOf
    <3>3. CASE /\ run[a] = "ending"
               /\ \E s \in {"succeded", "failed"} :
                    Moves(a[1], a[2], "running", s)
      <4>1. StateOf(a) = "running"
        BY <3>3 DEF Moves, StateOf
      <4> QED BY <3>3, <4>1
    <3> QED BY <3>1, <3>2, <3>3 DEF S
  <2>2. a \in Running
    BY <1>8, <2>1 DEF Running
  <2>3. /\ \A t \in Running : t # a => t[1] # a[1] \/ t[2] # a[2]
        /\ \A r \in jobs : <<a[1], a[2]>> # r
    BY <2>2 DEF LifeInv, OneThread, FetchedWait
  <2>4. /\ db'[a[1]].state[a[2]] = s
        /\ \A q \in Plannings, k \in Job :
             q # a[1] \/ k # a[2] => db'[q].state[k] = db[q].state[k]
    BY <1>3, <1>6, <1>8, <2>1
  <2>5. RowFollowsThread'
    <3> SUFFICES ASSUME NEW t \in Thread,
                        run[t] \in {"starting", "command", "ending"}
                 PROVE  Row(t)'
      BY <1>2 DEF RowFollowsThread, Row
    <3>1. CASE t = a
      <4>1. phase'[a] \in {"unlock", "threw"}
        BY <1>2 DEF StateInv, TypeOK
      <4> QED BY <1>2, <2>1, <2>4, <3>1, <4>1 DEF Row, StateOf
    <3>2. CASE t # a
      <4>1. phase'[t] = phase[t]
        BY <1>2, <3>2 DEF StateInv, TypeOK
      <4>2. StateOf(t)' = StateOf(t)
        BY <1>3, <2>3, <2>4, <3>2 DEF Running, StateOf
      <4> QED BY <1>2, <4>1, <4>2 DEF LifeInv, RowFollowsThread, Row
    <3> QED BY <3>1, <3>2
  <2>6. FetchedWait'
    <3> SUFFICES ASSUME NEW r \in jobs
                 PROVE  db'[r[1]].state[r[2]] = db[r[1]].state[r[2]]
      BY <1>2, <1>4 DEF LifeInv, FetchedWait
    <3>1. r = <<r[1], r[2]>>
      BY DEF StateInv, TypeOK
    <3> QED BY <1>3, <2>3, <2>4, <3>1
  <2> QED BY <1>4, <1>5, <2>5, <2>6 DEF LifeInv
<1>9. a # Server
  BY <1>2 DEF CopyInv, Untouched
<1> QED BY <1>7, <1>8, <1>9

LEMMA EndsLife ==
  ASSUME StateInv, LifeInv, ProcessEnds
  PROVE  LifeInv'
<1>1. /\ \A t \in Thread : run'[t] \notin {"starting", "command", "ending"}
      /\ jobs' = {} /\ db' = db
  BY DEF ProcessEnds, Running, StateInv, TypeOK
<1>2. Running' = {}
  BY <1>1 DEF Running
<1> QED
  BY <1>1, <1>2
     DEF LifeInv, RowFollowsThread, Row, OneThread, FetchedWait, AbsentIsEmpty

\* A thread goes on without writing.
LEMMA ThreadLife ==
  ASSUME StateInv, LifeInv, StatesKept, NEW t \in Thread, JobStep(t), ~Execute(t),
         \A p \in Plannings :
           db'[p].status = "absent" => db[p].status = "absent"
  PROVE  LifeInv'
<1> USE ThreadsAreActors
<1>1. /\ TypeOK /\ run \in [Thread -> RunPC]
      /\ phase \in [Actor -> {"lock", "exec", "unlock", "threw"}]
      /\ \A u \in Thread : u[1] \in Plannings
      /\ \A r \in jobs : r[1] \in Plannings
  BY DEF StateInv, TypeOK, Thread
<1>2. \A u \in Thread : StateOf(u)' = StateOf(u)
  BY <1>1 DEF StatesKept, StateOf
<1>3. Row(t) /\ (run[t] = "command" => phase[t] = "lock")
  BY DEF LifeInv, RowFollowsThread, StateInv, IdleThreads
<1>4. CASE StartThrew(t)
  BY <1>4, EndsLife DEF StartThrew
<1>5. CASE ~StartThrew(t)
  <2>1. /\ jobs' = jobs
        /\ \A u \in Thread : u # t => run'[u] = run[u] /\ phase'[u] = phase[u]
    BY <1>1, <1>5
       DEF JobStep, DomainStep, Lock, Throw, Unlock, Release, StartCommand,
           CommandEnds, EndRecorded, EndThrew, Catches, mainVars
  <2>2. /\ run'[t] = "starting" =>
             /\ run[t] = "starting"
             /\ phase[t] \in {"lock", "exec"}
             /\ phase'[t] \in {"exec", "threw"}
        /\ run'[t] = "command" =>
             \/ run[t] = "command"
             \/ run[t] = "starting" /\ phase[t] = "unlock"
        /\ run'[t] = "ending" =>
             \/ run[t] = "command" /\ phase'[t] = "lock"
             \/ /\ run[t] = "ending" /\ phase[t] \in {"lock", "exec"}
                /\ phase'[t] \in {"exec", "threw"}
    BY <1>1, <1>3, <1>5
       DEF JobStep, DomainStep, Lock, Throw, Unlock, Release, StartCommand,
           CommandEnds, EndRecorded, EndThrew, Catches
  <2>3. RowFollowsThread'
    <3> SUFFICES ASSUME NEW u \in Thread PROVE Row(u)'
      BY DEF RowFollowsThread
    <3>1. CASE u = t
      BY <1>2, <1>3, <2>2, <3>1 DEF Row
    <3>2. CASE u # t
      BY <1>2, <2>1, <3>2 DEF LifeInv, RowFollowsThread, Row
    <3> QED BY <3>1, <3>2
  <2>4. Running' \subseteq Running
    BY <2>1, <2>2 DEF Running
  <2>5. OneThread' /\ FetchedWait'
    BY <1>1, <2>1, <2>4 DEF LifeInv, OneThread, FetchedWait, StatesKept
  <2>6. AbsentIsEmpty'
    BY DEF LifeInv, AbsentIsEmpty, StatesKept
  <2> QED BY <2>3, <2>5, <2>6 DEF LifeInv
<1> QED BY <1>4, <1>5

\* The jobs read wait, and no thread has them: one that is past "starting" has
\* recorded that they run.
LEMMA TickLife ==
  ASSUME PromptStart, StateInv, LifeInv, Tick
  PROVE  LifeInv'
<1>1. UNCHANGED <<db, run, phase>>
  BY DEF Tick, domainVars
<1>2. start \in Plannings
  BY DEF StateInv, TypeOK
<1>3. jobs' \subseteq jobs \/ \E minute \in Minute : jobs' = ReadyJobs(start, minute)
  BY DEF Tick
<1>4. \A t \in Running : StateOf(t) # "waiting"
  <2> SUFFICES ASSUME NEW t \in Running PROVE StateOf(t) # "waiting"
    OBVIOUS
  <2>1. t \in Thread /\ run[t] \in {"command", "ending"}
    BY DEF Running, Tick
  <2>2. /\ run[t] = "command" => StateOf(t) = "running"
        /\ run[t] = "ending" =>
             StateOf(t) \in {"running", "succeded", "failed"}
    BY <2>1 DEF LifeInv, RowFollowsThread, Row
  <2> QED BY <2>1, <2>2
<1>5. \A minute \in Minute : \A r \in ReadyJobs(start, minute) :
        db[r[1]].state[r[2]] = "waiting"
  BY DEF ReadyJobs
<1>6. FetchedWait'
  <2> SUFFICES ASSUME NEW r \in jobs'
               PROVE  /\ db[r[1]].state[r[2]] = "waiting"
                      /\ \A t \in Running : <<t[1], t[2]>> # r
    BY <1>1 DEF FetchedWait, Running
  <2>1. CASE r \in jobs
    BY <2>1 DEF LifeInv, FetchedWait
  <2>2. CASE r \notin jobs
    <3>1. db[r[1]].state[r[2]] = "waiting"
      BY <1>3, <1>5, <2>2
    <3> QED BY <1>4, <3>1 DEF StateOf
  <2> QED BY <2>1, <2>2
<1> QED
  BY <1>1, <1>6
     DEF LifeInv, RowFollowsThread, Row, OneThread, AbsentIsEmpty, Running,
         StateOf

LEMMA DispatchLife ==
  ASSUME StateInv, LifeInv, Dispatch
  PROVE  LifeInv'
<1> USE ThreadsAreActors
<1>1. /\ UNCHANGED <<db, phase>> /\ jobs' = {}
      /\ run' = [t \in Thread |-> IF t \in Created THEN "starting" ELSE run[t]]
  BY DEF Dispatch
<1>2. \A t \in Created : /\ t \in Thread /\ run[t] = "none"
                         /\ <<t[1], t[2]>> \in jobs
  BY DEF Created, Dispatched
<1>3. \A t \in Created : /\ StateOf(t) = "waiting"
                         /\ \A u \in Running : <<u[1], u[2]>> # <<t[1], t[2]>>
                         /\ phase[t] = "lock"
  <2> SUFFICES ASSUME NEW t \in Created
               PROVE  /\ StateOf(t) = "waiting"
                      /\ \A u \in Running : <<u[1], u[2]>> # <<t[1], t[2]>>
                      /\ phase[t] = "lock"
    OBVIOUS
  <2>1. phase[t] = "lock"
    BY <1>2 DEF StateInv, IdleThreads
  <2>2. <<t[1], t[2]>> \in jobs
    BY <1>2
  <2> QED BY <2>1, <2>2 DEF LifeInv, FetchedWait, StateOf
<1>4. Running' = Running \cup Created
  BY <1>1, <1>2 DEF Running
<1>5. RowFollowsThread'
  <2> SUFFICES ASSUME NEW t \in Thread
               PROVE  Row(t)'
    BY DEF RowFollowsThread
  <2>1. CASE t \in Created
    BY <1>1, <1>3, <2>1 DEF Row, StateOf
  <2>2. CASE t \notin Created
    BY <1>1, <2>2 DEF LifeInv, RowFollowsThread, Row, StateOf
  <2> QED BY <2>1, <2>2
<1>6. OneThread'
  <2> SUFFICES ASSUME NEW t \in Running \cup Created, NEW u \in Running \cup Created,
                      t[1] = u[1], t[2] = u[2]
               PROVE  t = u
    BY <1>4 DEF OneThread
  <2>1. CASE t \in Running /\ u \in Running
    BY <2>1 DEF LifeInv, OneThread
  <2>2. CASE t \in Created /\ u \in Created
    <3>1. /\ t = <<t[1], t[2], t[3]>> /\ t[3] \in 1 .. MaxRuns
          /\ u = <<u[1], u[2], u[3]>> /\ u[3] \in 1 .. MaxRuns
          /\ run[t] = "none" /\ run[u] = "none"
      <4>1. \A v \in Thread : /\ v = <<v[1], v[2], v[3]>>
                              /\ v[3] \in 1 .. MaxRuns
        BY DEF Thread
      <4>2. /\ t \in Thread /\ run[t] = "none"
            /\ u \in Thread /\ run[u] = "none"
        BY <1>2, <2>2
      <4> QED BY <4>1, <4>2
    <3>2. /\ \A k \in 1 .. MaxRuns : k < t[3] => run[<<t[1], t[2], k>>] # "none"
          /\ \A k \in 1 .. MaxRuns : k < u[3] => run[<<u[1], u[2], k>>] # "none"
      BY <2>2 DEF Created
    <3>3. ~(t[3] < u[3])
      BY <3>1, <3>2
    <3>4. ~(u[3] < t[3])
      BY <3>1, <3>2
    <3>5. t[3] = u[3]
      BY <3>1, <3>3, <3>4, SchedulerAssumption
    <3> QED BY <3>1, <3>5
  <2>3. CASE t \in Created /\ u \in Running
    BY <1>3, <2>3
  <2>4. CASE t \in Running /\ u \in Created
    BY <1>3, <2>4
  <2> QED BY <2>1, <2>2, <2>3, <2>4
<1> QED
  BY <1>1, <1>5, <1>6 DEF LifeInv, FetchedWait, AbsentIsEmpty

LEMMA NextLife ==
  ASSUME PromptStart, StateInv, CopyInv, DealtInv, LifeInv, [Next]_vars
  PROVE  LifeInv'
<1> USE ThreadsAreActors
<1>1. CASE \E a \in Actor : Execute(a)
  BY <1>1, ExecuteLife
<1>2. CASE ~\E a \in Actor : Execute(a)
  <2>1. StatesKept
    BY <1>2, StatesStep
  <2>2. \A p \in Plannings : db'[p].status = "absent" => db[p].status = "absent"
    BY WholeStays
  <2>3. TypeOK /\ phase \in [Actor -> {"lock", "exec", "unlock", "threw"}]
    BY DEF StateInv, TypeOK
  <2>4. ASSUME jobs' \subseteq jobs, run' = run,
               \A t \in Thread : phase'[t] = phase[t]
        PROVE  LifeInv'
    BY <2>1, <2>2, <2>3, <2>4, FrameLife
  <2>5. ASSUME ProcessEnds PROVE LifeInv'
    BY <2>5, EndsLife
  <2>6. ASSUME NEW a \in {Main, Server}, DomainStep(a) PROVE LifeInv'
    <3>1. /\ jobs' = jobs /\ run' = run
          /\ \A t \in Thread : phase'[t] = phase[t]
      BY <1>2, <2>3, <2>6
         DEF DomainStep, Lock, Throw, Unlock, Release, mainVars
    <3> QED BY <2>4, <3>1
  <2>7. CASE SetNextPlanning
    <3>1. CASE FindSchema \/ LoadSkeleton \/ ListTemplate \/ CopyEnds
      BY <2>4, <3>1
         DEF FindSchema, LoadSkeleton, ListTemplate, CopyEnds, Refuses,
             Switches, domainVars
    <3>2. CASE ListThrows \/ CopyThrew
      <4>1. ThrowsProcessing \/ ThrowsJob
        BY <3>2 DEF ListThrows, CopyThrew
      <4>2. \/ ProcessEnds
            \/ /\ jobs' = jobs /\ run' = run
               /\ \/ phase' = phase
                  \/ phase' = [phase EXCEPT ![Main] = "lock"]
        BY <4>1
           DEF ThrowsProcessing, ThrowsJob, Refuses, Switches, domainVars
      <4> QED BY <2>3, <2>4, <2>5, <4>2
    <3> QED BY <2>7, <3>1, <3>2 DEF SetNextPlanning
  <2>8. CASE CheckBuffer
    BY <2>4, <2>8 DEF CheckBuffer, domainVars
  <2>9. CASE TickThrows \/ Crash
    BY <2>5, <2>9 DEF TickThrows, Crash
  <2>10. CASE \E t \in Thread : JobStep(t)
    BY <1>2, <2>1, <2>2, <2>10, ThreadLife
  <2>11. CASE Receive \/ ReceiveRemoveNode \/ Answer
    <3>1. /\ jobs' = jobs /\ run' = run
          /\ \A t \in Thread : phase'[t] = phase[t]
      BY <2>3, <2>11 DEF Receive, ReceiveRemoveNode, Answer, Catches, mainVars
    <3> QED BY <2>4, <3>1
  <2>12. CASE Time \/ Restart \/ UNCHANGED vars
    BY <2>4, <2>12 DEF Time, Restart, vars, domainVars, mainVars
  <2> QED
    BY <2>6, <2>7, <2>8, <2>9, <2>10, <2>11, <2>12, TickLife, DispatchLife
       DEF Next, MainStep, ServerStep
<1> QED BY <1>1, <1>2

\* A step of the system is a step of the life of a job, or of none.
LEMMA StepInLife ==
  ASSUME StateInv, CopyInv, LifeInv, [Next]_vars
  PROVE  [Lifecycle!Next]_[p \in Plannings |-> db[p].state]
<1> DEFINE here == [p \in Plannings |-> db[p].state]
<1>1. /\ target \in Plannings
      /\ \A t \in Thread : t[1] \in Plannings /\ t[2] \in Job
  BY PlanningsType DEF StateInv, TypeOK
<1>2. ASSUME NEW p \in Plannings, NEW j \in Job, NEW from, NEW to,
             Moves(p, j, from, to)
      PROVE  Lifecycle!Move(p, j, from, to)
  <2>1. here[p][j] = from
    BY <1>2 DEF Moves
  <2>2. here' = [here EXCEPT ![p][j] = to]
    BY <1>2 DEF Moves
  <2> QED BY <2>1, <2>2 DEF Lifecycle!Move
<1>3. CASE StatesKept
  BY <1>3 DEF StatesKept
<1>4. ASSUME NEW a \in Actor, Execute(a), NEW o \in todo[a], Commits(o, db),
             db' = [db EXCEPT ![o.dom] = Result(o, @)]
      PROVE  StatesKept \/ Lifecycle!Next
  <2>1. phase[a] = "exec"
    BY <1>4 DEF Execute
  <2>2. CASE o.job \in Job /\ Moves(target, o.job, NoRow, "waiting")
    <3>1. Lifecycle!Move(target, o.job, "none", "waiting")
      BY <1>1, <1>2, <2>2 DEF NoRow
    <3> QED BY <1>1, <2>2, <3>1 DEF Lifecycle!Next, Lifecycle!Prepare
  <2>3. CASE a \in Thread /\ Moves(a[1], a[2], "waiting", "running")
    <3>1. Lifecycle!Move(a[1], a[2], "waiting", "running")
      BY <1>1, <1>2, <2>3
    <3> QED BY <1>1, <2>3, <3>1 DEF Lifecycle!Next, Lifecycle!Start
  <2>4. CASE a \in Thread /\ \E s \in {"succeded", "failed"} :
                              Moves(a[1], a[2], "running", s)
    <3>1. PICK s \in {"succeded", "failed"} :
            Lifecycle!Move(a[1], a[2], "running", s)
      BY <1>1, <1>2, <2>4
    <3> QED
      BY <1>1, <2>4, <3>1 DEF Lifecycle!Next, Lifecycle!Succeed, Lifecycle!Fail
  <2> QED BY <1>4, <2>1, <2>2, <2>3, <2>4, ExecuteMoves
<1> QED BY <1>3, <1>4, StatesStep

LEMMA LifeInvariant ==
  ASSUME NoClients, PromptStart, RefersToRows(InitialTemplate)
  PROVE  Spec => [](StateInv /\ CopyInv /\ DealtInv /\ LifeInv)
<1>1. Init => LifeInv
  <2> SUFFICES ASSUME Init PROVE LifeInv
    OBVIOUS
  <2>1. /\ Running = {} /\ jobs = {} /\ \A t \in Thread : run[t] = "none"
        /\ \A p \in Plannings : db[p] = Blank("absent")
    BY TemplateType DEF Init, Running
  <2> QED
    BY <2>1 DEF LifeInv, RowFollowsThread, Row, OneThread, FetchedWait,
                AbsentIsEmpty, Blank
<1>2. StateInv /\ CopyInv /\ DealtInv /\ LifeInv /\ [Next]_vars => LifeInv'
  BY NextLife
<1> QED
  BY <1>1, <1>2, StateInvariant, CopyInvariant, DealtInvariant, PTL DEF Spec

\* The loop, the threads and the switches between plannings implement the life
\* cycle of a job for every number of nodes, jobs and threads, every template
\* whose rows refer to each other, whatever errors, kills and restarts: what
\* it takes is that a thread writes RUNNING before the jobs are read again.
THEOREM LifecycleRefined ==
  ASSUME NoClients, PromptStart, RefersToRows(InitialTemplate)
  PROVE  Spec => LifecycleImplemented
<1>1. Init => Lifecycle!Init
  <2> SUFFICES ASSUME Init PROVE Lifecycle!Init
    OBVIOUS
  <2>1. \A p \in Plannings : db[p] = Blank("absent")
    BY TemplateType DEF Init
  <2> QED BY <2>1 DEF Lifecycle!Init, Blank, NoRow
<1>2. StateInv /\ CopyInv /\ LifeInv /\ [Next]_vars =>
        [Lifecycle!Next]_[p \in Plannings |-> db[p].state]
  BY StepInLife
<1> QED
  BY <1>1, <1>2, LifeInvariant,
     PTL DEF Spec, LifecycleImplemented, Lifecycle!Spec

-----------------------------------------------------------------------------
(***************************************************************************)
(* A job is run once.                                                      *)
(***************************************************************************)
Recorded == {"running", "succeded", "failed"}

\* Threads that were not killed.
Unkilled == Running \cup {t \in Thread : run[t] = "done"}

OneUnkilled ==
  \A t, u \in Unkilled : t[1] = u[1] /\ t[2] = u[2] => t = u

DoneIsRecorded == \A t \in Thread : run[t] = "done" => StateOf(t) \in Recorded

RanIsRecorded == \A e \in ran : db[e[1]].state[e[2]] \in Recorded

\* A job whose command has ended in a planning is not given to a thread of that
\* planning again.
EndedIsNotRunAgain ==
  \A e \in ran : \A t \in Thread :
    run[t] \in {"starting", "command"} => t[1] # e[1] \/ t[2] # e[2]

OnceInv == OneUnkilled /\ DoneIsRecorded /\ RanIsRecorded /\ EndedIsNotRunAgain

\* What was recorded of a job stays recorded.
LEMMA RecordedStays ==
  ASSUME StateInv, CopyInv, LifeInv, [Next]_vars,
         NEW p \in Plannings, NEW j \in Job, db[p].state[j] \in Recorded
  PROVE  db'[p].state[j] \in Recorded
<1>1. CASE StatesKept
  BY <1>1 DEF StatesKept
<1>2. ASSUME NEW q, NEW k, NEW from, NEW to \in Recorded, Moves(q, k, from, to)
      PROVE  db'[p].state[j] \in Recorded
  <2>1. db[p].state \in [Job -> JobState \cup {NoRow}]
    BY PlanningsType DEF StateInv, TypeOK, Rows
  <2> QED BY <1>2, <2>1 DEF Moves
<1>3. ASSUME NEW k, Moves(target, k, NoRow, "waiting")
      PROVE  db'[p].state[j] \in Recorded
  <2>1. db[p].state \in [Job -> JobState \cup {NoRow}]
    BY PlanningsType DEF StateInv, TypeOK, Rows
  <2>2. p # target \/ j # k
    BY <1>3 DEF Moves, Recorded, NoRow
  <2> QED BY <1>3, <2>1, <2>2 DEF Moves
<1>4. ASSUME NEW a \in Actor, Execute(a), NEW o \in todo[a], Commits(o, db),
             db' = [db EXCEPT ![o.dom] = Result(o, @)]
      PROVE  db'[p].state[j] \in Recorded
  <2>1. phase[a] = "exec"
    BY <1>4 DEF Execute
  <2>2. {"running", "succeded", "failed"} \subseteq Recorded
    BY DEF Recorded
  <2> QED BY <1>1, <1>2, <1>3, <1>4, <2>1, <2>2, ExecuteMoves
<1> QED BY <1>1, <1>4, StatesStep

\* What the steps do to the threads and to what ran.
LEMMA OnceStep ==
  ASSUME StateInv, [Next]_vars
  PROVE  \/ ran' = ran /\ \A t \in Thread : run'[t] = run[t]
         \/ ProcessEnds \/ Dispatch
         \/ \E t \in Thread :
              /\ \A u \in Thread \ {t} : run'[u] = run[u]
              /\ \/ run[t] = "starting" /\ run'[t] = "command" /\ ran' = ran
                 \/ CommandEnds(t)
                 \/ run[t] = "ending" /\ run'[t] = "done" /\ ran' = ran
<1> USE ThreadsAreActors
<1>1. run \in [Thread -> RunPC]
  BY DEF StateInv, TypeOK
<1> DEFINE Quiet == ran' = ran /\ \A t \in Thread : run'[t] = run[t]
<1>2. ASSUME UNCHANGED <<ran, run>> PROVE Quiet
  BY <1>2
<1>4. ASSUME NEW a, DomainStep(a) PROVE Quiet
  BY <1>4 DEF DomainStep, Lock, Execute, Throw, Unlock, historyVars
<1> HIDE DEF Quiet
<1>5. CASE SetNextPlanning
  <2>1. CASE FindSchema \/ LoadSkeleton \/ ListTemplate \/ CopyEnds
    BY <1>2, <2>1 DEF FindSchema, LoadSkeleton, ListTemplate, CopyEnds, historyVars
  <2>2. CASE ListThrows \/ CopyThrew
    <3>1. ProcessEnds \/ UNCHANGED <<ran, run>>
      BY <2>2 DEF ListThrows, CopyThrew, ThrowsProcessing, ThrowsJob, historyVars
    <3> QED BY <1>2, <3>1 DEF Quiet
  <2> QED BY <1>5, <2>1, <2>2 DEF SetNextPlanning, Quiet
<1>6. CASE Tick \/ CheckBuffer
  BY <1>2, <1>6 DEF Tick, CheckBuffer, historyVars, Quiet
<1>7. CASE TickThrows \/ Crash
  BY <1>7 DEF TickThrows, Crash
<1>8. ASSUME NEW t \in Thread, JobStep(t)
      PROVE  \/ Quiet \/ ProcessEnds
             \/ /\ \A u \in Thread \ {t} : run'[u] = run[u]
                /\ \/ run[t] = "starting" /\ run'[t] = "command" /\ ran' = ran
                   \/ CommandEnds(t)
                   \/ run[t] = "ending" /\ run'[t] = "done" /\ ran' = ran
  <2>1. CASE DomainStep(t)
    BY <1>4, <2>1
  <2>2. CASE StartThrew(t)
    BY <2>2 DEF StartThrew
  <2>3. CASE StartCommand(t) \/ CommandEnds(t) \/ EndRecorded(t) \/ EndThrew(t)
    BY <1>1, <2>3 DEF StartCommand, CommandEnds, EndRecorded, EndThrew, historyVars
  <2> QED BY <1>8, <2>1, <2>2, <2>3 DEF JobStep
<1>9. CASE ServerStep
  <2>1. CASE DomainStep(Server)
    BY <1>4, <2>1 DEF Quiet
  <2>2. CASE Receive \/ ReceiveRemoveNode \/ Answer
    BY <1>2, <2>2 DEF Receive, ReceiveRemoveNode, Answer, historyVars, Quiet
  <2> QED BY <1>9, <2>1, <2>2 DEF ServerStep
<1>10. CASE Time \/ Restart \/ UNCHANGED vars
  BY <1>2, <1>10 DEF Time, Restart, vars, historyVars, Quiet
<1>11. CASE DomainStep(Main)
  BY <1>4, <1>11 DEF Quiet
<1>12. CASE \E t \in Thread : JobStep(t)
  BY <1>8, <1>12 DEF Quiet
<1> QED
  BY <1>5, <1>6, <1>7, <1>9, <1>10, <1>11, <1>12 DEF Next, MainStep

LEMMA NextOnce ==
  ASSUME StateInv, CopyInv, LifeInv, OnceInv, [Next]_vars
  PROVE  OnceInv'
<1>1. /\ \A t \in Thread : t[1] \in Plannings /\ t[2] \in Job
      /\ \A e \in ran : e[1] \in Plannings /\ e[2] \in Job
      /\ run \in [Thread -> RunPC]
  BY PlanningsType DEF StateInv, TypeOK, Thread
<1>2. \A p \in Plannings, j \in Job :
        db[p].state[j] \in Recorded => db'[p].state[j] \in Recorded
  BY RecordedStays
<1>3. /\ \A t \in Thread : StateOf(t) \in Recorded => StateOf(t)' \in Recorded
      /\ \A e \in ran : db'[e[1]].state[e[2]] \in Recorded
  BY <1>1, <1>2 DEF StateOf, OnceInv, RanIsRecorded
<1>4. ASSUME ran' = ran, \A t \in Thread : run'[t] \in {run[t], "killed"}
      PROVE  OnceInv'
  <2>1. Unkilled' \subseteq Unkilled
    BY <1>4 DEF Unkilled, Running
  <2> QED BY <1>3, <1>4, <2>1
          DEF OnceInv, OneUnkilled, DoneIsRecorded, RanIsRecorded, EndedIsNotRunAgain
<1>5. CASE Dispatch
  <2>1. /\ ran' = ran /\ \A t \in Thread : run'[t] = IF t \in Created THEN "starting" ELSE run[t]
        /\ \A t \in Created : t \in Thread /\ run[t] = "none" /\ StateOf(t) = "waiting"
    BY <1>5 DEF Dispatch, Created, Dispatched, historyVars, LifeInv, FetchedWait, StateOf
  <2>2. "waiting" \notin Recorded
    BY DEF Recorded
  <2>3. Unkilled' = Running' \cup {t \in Thread : run[t] = "done"}
    BY <2>1 DEF Unkilled
  <2>4. OneThread'
    BY <1>5, DispatchLife DEF LifeInv
  <2>5. \A t \in Running' : t \in Created \/ t \in Running
    BY <2>1 DEF Running
  <2>6. ASSUME NEW t \in Created, NEW u \in Thread, t[1] = u[1], t[2] = u[2]
        PROVE  run[u] # "done"
    BY <2>1, <2>2, <2>6 DEF OnceInv, DoneIsRecorded, StateOf
  <2>7. OneUnkilled'
    <3> SUFFICES ASSUME NEW t \in Unkilled', NEW u \in Unkilled', t[1] = u[1], t[2] = u[2]
                 PROVE  t = u
      BY DEF OneUnkilled
    <3>1. CASE t \in Running' /\ u \in Running'
      BY <2>4, <3>1 DEF OneThread
    <3>2. CASE t \in Created \/ u \in Created
      BY <2>1, <2>3, <2>6, <3>1, <3>2
    <3>3. CASE t \in Unkilled /\ u \in Unkilled
      BY <3>3 DEF OnceInv, OneUnkilled
    <3> QED BY <2>3, <2>5, <3>2, <3>3 DEF Unkilled
  <2>8. DoneIsRecorded' /\ RanIsRecorded'
    BY <1>3, <2>1 DEF OnceInv, DoneIsRecorded, RanIsRecorded
  <2>9. EndedIsNotRunAgain'
    <3> SUFFICES ASSUME NEW e \in ran, NEW t \in Thread, t \in Created
                 PROVE  t[1] # e[1] \/ t[2] # e[2]
      BY <2>1 DEF OnceInv, EndedIsNotRunAgain
    <3> QED BY <2>1, <2>2 DEF OnceInv, RanIsRecorded, StateOf
  <2> QED BY <2>7, <2>8, <2>9 DEF OnceInv
<1>6. ASSUME NEW t \in Thread, \A u \in Thread \ {t} : run'[u] = run[u],
             \/ run[t] = "starting" /\ run'[t] = "command" /\ ran' = ran
             \/ CommandEnds(t)
             \/ run[t] = "ending" /\ run'[t] = "done" /\ ran' = ran
      PROVE  OnceInv'
  <2>1. /\ t \in Running /\ Unkilled' \subseteq Unkilled
        /\ run'[t] # "starting"
    BY <1>1, <1>6 DEF CommandEnds, Unkilled, Running
  <2>2. OneUnkilled'
    BY <2>1 DEF OnceInv, OneUnkilled
  <2>3. DoneIsRecorded'
    <3>1. run[t] = "ending" /\ ~CommandEnds(t) => StateOf(t) \in Recorded
      BY DEF LifeInv, RowFollowsThread, Row, Recorded
    <3> QED BY <1>1, <1>3, <1>6, <3>1 DEF OnceInv, DoneIsRecorded, CommandEnds
  <2>4. CASE ran' = ran
    BY <1>3, <1>6, <2>2, <2>3, <2>4
       DEF OnceInv, RanIsRecorded, EndedIsNotRunAgain, CommandEnds
  <2>5. CASE CommandEnds(t)
    <3>1. /\ run'[t] = "ending" /\ StateOf(t) \in Recorded
          /\ \A e \in ran' : e \in ran \/ (e[1] = t[1] /\ e[2] = t[2])
      BY <1>1, <2>5 DEF CommandEnds, LifeInv, RowFollowsThread, Row, Recorded
    <3>2. RanIsRecorded'
      BY <1>3, <3>1 DEF RanIsRecorded, StateOf
    <3>3. EndedIsNotRunAgain'
      <4> SUFFICES ASSUME NEW e \in ran', NEW u \in Thread,
                          run'[u] \in {"starting", "command"}
                   PROVE  u[1] # e[1] \/ u[2] # e[2]
        BY DEF EndedIsNotRunAgain
      <4>1. u # t /\ run[u] \in {"starting", "command"} /\ u \in Running
        BY <1>6, <3>1 DEF Running
      <4>2. u[1] # t[1] \/ u[2] # t[2]
        BY <2>1, <4>1 DEF LifeInv, OneThread
      <4> QED BY <3>1, <4>1, <4>2 DEF OnceInv, EndedIsNotRunAgain
    <3> QED BY <2>2, <2>3, <3>2, <3>3 DEF OnceInv
  <2> QED BY <1>6, <2>4, <2>5
<1>7. CASE ProcessEnds
  BY <1>4, <1>7 DEF ProcessEnds
<1> QED BY <1>4, <1>5, <1>6, <1>7, OnceStep

LEMMA OnceInvariant ==
  ASSUME NoClients, PromptStart, RefersToRows(InitialTemplate)
  PROVE  Spec => []OnceInv
<1>1. Init => OnceInv
  BY DEF Init, OnceInv, OneUnkilled, DoneIsRecorded, RanIsRecorded,
         EndedIsNotRunAgain, Unkilled, Running
<1>2. StateInv /\ CopyInv /\ DealtInv /\ LifeInv /\ OnceInv /\ [Next]_vars => OnceInv'
  BY NextOnce
<1> QED BY <1>1, <1>2, LifeInvariant, PTL DEF Spec

\* Whatever errors, kills and restarts, a job whose command has ended is not
\* run again in that planning, even when the end could not be recorded, for
\* every template whose rows refer to each other: what it takes is that a
\* thread writes RUNNING before the jobs are read again (master.cpp:225).
THEOREM EndedNotRunAgain ==
  ASSUME NoClients, PromptStart, RefersToRows(InitialTemplate)
  PROVE  Spec => []EndedIsNotRunAgain
<1>1. OnceInv => EndedIsNotRunAgain
  BY DEF OnceInv
<1> QED BY <1>1, OnceInvariant, PTL

\* Without failures no job of a planning is given to two threads, as
\* master.cpp:225 has it, provided a thread writes RUNNING before the jobs are
\* read again.
THEOREM JobsRunOnce ==
  ASSUME NoFailure, PromptStart
  PROVE  Spec => []RunOnce
<1>1. /\ Copyable /\ MaxFaults = 0 /\ NoClients
      /\ RefersToRows(InitialTemplate)
  BY DEF NoFailure, Copyable
<1> DEFINE NobodyKilled == \A t \in Thread : run[t] # "killed"
<1>2. Init => NobodyKilled
  BY DEF Init
<1>3. StateInv /\ NobodyKilled /\ WholeInv' /\ [Next]_vars => NobodyKilled'
  <2> SUFFICES ASSUME StateInv, NobodyKilled, WholeInv', [Next]_vars
               PROVE  NobodyKilled'
    OBVIOUS
  <2>1. ~ProcessEnds
    BY DEF WholeInv, ProcessEnds
  <2> QED BY <2>1, OnceStep DEF Dispatch, CommandEnds, StateInv, TypeOK
<1>4. StateInv /\ OnceInv /\ NobodyKilled => RunOnce
  <2> SUFFICES ASSUME StateInv, OnceInv, NobodyKilled,
                      NEW p \in Plannings, NEW j \in Job,
                      NEW k \in 1 .. MaxRuns, NEW l \in 1 .. MaxRuns,
                      run[<<p, j, k>>] # "none", run[<<p, j, l>>] # "none"
               PROVE  k = l
    BY DEF RunOnce
  <2>1. <<p, j, k>> \in Thread /\ <<p, j, l>> \in Thread
    BY DEF Thread
  <2>2. <<p, j, k>> \in Unkilled /\ <<p, j, l>> \in Unkilled
    BY <2>1 DEF StateInv, TypeOK, RunPC, Unkilled, Running
  <2>3. <<p, j, k>> = <<p, j, l>>
    BY <2>2 DEF OnceInv, OneUnkilled
  <2> QED BY <2>3
<1> QED
  BY <1>1, <1>2, <1>3, <1>4, StateInvariant, OnceInvariant, WholeInvariant, PTL DEF Spec
=============================================================================
