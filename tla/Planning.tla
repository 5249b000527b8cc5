------------------------------ MODULE Planning ------------------------------
(***************************************************************************)
(* One planning of a domain: a MySQL schema created from                   *)
(* etc/mysql/skeleton.sql, the updates Domain sends to it and the views    *)
(* the scheduling loop reads.  Pure operators on a record, no state.       *)
(*                                                                         *)
(* Node and job names are naturals: the number is the place of the name in *)
(* the collating order, which is the order InnoDB returns rows in (primary *)
(* key of node, secondary index job_node_name then primary key of job).    *)
(* A job name always stands for a job of the same node (NodeOf).  Weights, *)
(* command lines, macro jobs and recovery types decide nothing below and   *)
(* are left out; a resource is only "this node has resource rows".         *)
(***************************************************************************)
EXTENDS Naturals

CONSTANTS
  Node,       \* node names
  Job,        \* job names
  NodeOf,     \* the node each job is submitted for
  Minute,     \* the wall clock, in minutes of the day
  Second,     \* the values of time constraints, in seconds
  Duration,   \* planning_duration, in seconds
  MaxDay      \* bound: number of planning boundaries the clock may cross

ASSUME NamesAssumption ==
  /\ Node \subseteq Nat \ {0}
  /\ Job \subseteq Nat \ {0}
  /\ NodeOf \in [Job -> Node]

ASSUME TimeAssumption ==
  /\ Minute \subseteq Nat
  /\ Second \subseteq Nat /\ 0 \in Second
  /\ Duration \in Nat
  /\ MaxDay \in Nat \ {0}

\* Plannings are numbered by the day boundary they start at; the template of
\* the domain, named domain_name, is a schema like the others.
Template == 0
Plannings == 1 .. MaxDay + 1
Schema == 0 .. MaxDay + 1

JobState == {"waiting", "running", "succeded", "failed"}
NoRow == "none"
Constraint == [type : {"at", "before", "after"}, value : Second]

(***************************************************************************)
(* status is "absent", "bare" (CREATE SCHEMA done, the skeleton not loaded *)
(* to its end: nothing can be written) or "loaded"; state[j] is job_state, *)
(* NoRow when job has no row named j.                                      *)
(* links holds <<job_name_prv, job_name_nxt>>.                             *)
(***************************************************************************)
Rows ==
  [status    : {"absent", "bare", "loaded"},
   nodes     : SUBSET Node,
   resources : SUBSET Node,
   state     : [Job -> JobState \cup {NoRow}],
   links     : SUBSET (Job \X Job),
   times     : SUBSET (Job \X Constraint)]

Blank(status) ==
  [status |-> status, nodes |-> {}, resources |-> {},
   state |-> [j \in Job |-> NoRow], links |-> {}, times |-> {}]

HasJob(db, j) == db.state[j] # NoRow
JobsOf(db) == {j \in Job : HasJob(db, j)}
Prv(db, j) == {p \in Job : <<p, j>> \in db.links}

\* The rows of time_constraint that refer to job j.
Times(db, j) == {c \in Constraint : <<j, c>> \in db.times}

\* rpc::integer is an i16: the seconds of a later time than 09:06:07 do not
\* fit.  The cast throws, the exception is caught and the one built from it is
\* not thrown: the value stays that of a new t_time_constraint, 0.
MaxInteger == 32767
AsRead(c) == [type  |-> c.type,
              value |-> IF c.value <= MaxInteger THEN c.value ELSE 0]

\* What get_jobs reads of a job besides its row: the jobs it precedes, not
\* its predecessors, and its constraints.
get_jobs_next(db, j) == {n \in Job : <<j, n>> \in db.links}
get_time_constraints(db, j) == {AsRead(c) : c \in Times(db, j)}

(***************************************************************************)
(* The views of skeleton.sql                                               *)
(***************************************************************************)

\* get_ready_links: the jobs one of whose predecessors has succeeded.  The
\* state of the job itself is not looked at.
get_ready_links(db) ==
  {l[2] : l \in {k \in db.links : db.state[k[1]] = "succeded"}}

\* Without the NOT IN: a waiting job is ready whatever it is linked to.
get_ready_linkless_no_not_in(db) ==
  {j \in JobsOf(db) : db.state[j] = "waiting"}

\* get_ready_linkless: waiting jobs without a predecessor.
get_ready_linkless(db) ==
  {j \in JobsOf(db) : db.state[j] = "waiting" /\ Prv(db, j) = {}}

\* The views compare hours and minutes.
Holds(c, minute) ==
  LET value == c.value \div 60
  IN  CASE c.type = "at"     -> value = minute
        [] c.type = "before" -> value >= minute
        [] c.type = "after"  -> value <= minute

\* get_ready_time: no constraint, or one of the constraints holds now.
get_ready_time(db, minute) ==
  {j \in JobsOf(db) :
     LET mine == Times(db, j)
     IN  mine = {} \/ \E c \in mine : Holds(c, minute)}

\* get_ready_job: the last condition selects j.job_name of the OUTER j from
\* get_ready_time, so that it is true of every job as soon as the view
\* get_ready_time has a row.
get_ready_job(db, minute) ==
  {j \in JobsOf(db) :
     /\ (j \in get_ready_links(db)) # (j \in get_ready_linkless(db))
     /\ get_ready_time(db, minute) # {}}

(***************************************************************************)
(* The updates.  An operation is one call of a Domain method that locks    *)
(* updates_mutex and sends one transaction to schema dom.  src is the      *)
(* domain named by the t_job itself.  Fields a kind does not use have a    *)
(* fixed value.                                                            *)
(***************************************************************************)
Kind == {"add_node", "add_resource", "add_job", "update_job", "remove_job",
         "delete_node", "update_job_state"}

NodeKind == {"add_node", "add_resource", "delete_node"}

Operation ==
  {o \in [kind : Kind, dom : Schema, src : Schema, node : Node,
          job : Job \cup {0}, state : JobState, prv : SUBSET Job,
          nxt : SUBSET Job, times : SUBSET Constraint] :
     o.kind \in NodeKind \/ (o.job \in Job /\ o.node = NodeOf[o.job])}

NodeCall(kind, d, n) ==
  [kind |-> kind, dom |-> d, src |-> d, node |-> n, job |-> 0,
   state |-> "waiting", prv |-> {}, nxt |-> {}, times |-> {}]

AddJob(d, s, j, prv, nxt, times) ==
  [kind |-> "add_job", dom |-> d, src |-> s, node |-> NodeOf[j], job |-> j,
   state |-> "waiting", prv |-> prv, nxt |-> nxt, times |-> times]

RemoveJob(d, j) ==
  [kind |-> "remove_job", dom |-> d, src |-> d, node |-> NodeOf[j], job |-> j,
   state |-> "waiting", prv |-> {}, nxt |-> {}, times |-> {}]

\* It is sent to a schema named after the node.
UpdateJob(j) ==
  [kind |-> "update_job", dom |-> Template, src |-> Template,
   node |-> NodeOf[j], job |-> j, state |-> "waiting", prv |-> {}, nxt |-> {},
   times |-> {}]

UpdateJobState(d, j, s) ==
  [kind |-> "update_job_state", dom |-> d, src |-> d, node |-> NodeOf[j],
   job |-> j, state |-> s, prv |-> {}, nxt |-> {}, times |-> {}]

\* Jobs before the node they run on.
Before_jobs_first(o, p) == o.kind = "add_job" /\ p.kind = "add_node"

\* The order of the calls of one caller: node by node, the node first, then
\* its resources, then its jobs by name; remove_node deletes the node last.
Before(o, p) ==
  LET place(x) == CASE x.kind \in {"add_node", "add_resource"} -> 0
                    [] x.kind = "delete_node" -> 2
                    [] OTHER -> 1
  IN  \/ o.node < p.node
      \/ /\ o.node = p.node
         /\ \/ place(o) < place(p)
            \/ place(o) = place(p) /\ o.job < p.job
            \/ o.kind = "add_node" /\ p.kind = "add_resource"

\* The call a caller that still has the calls `ops` to make makes next.
IsNext(o, ops) == o \in ops /\ \A p \in ops : ~Before(p, o)

NewLinks(o) ==
  {<<p, o.job>> : p \in o.prv} \cup {<<o.job, n>> : n \in o.nxt}

\* The transaction of o commits: the tables exist, no key is duplicated, no
\* foreign key is violated by the statements in the order they are sent, and
\* add_job's own checks (the node row in the schema src, a constraint within
\* the planning's duration) pass.  Otherwise the method throws.  update_job
\* always does: its DELETE statements have an unmatched parenthesis.
Commits(o, db) ==
  LET here == db[o.dom] IN
  /\ here.status = "loaded"
  /\ o.kind # "update_job"
  /\ o.kind = "add_resource" =>
        o.node \in here.nodes /\ o.node \notin here.resources
  /\ o.kind = "add_job" =>
        /\ db[o.src].status = "loaded"
        /\ o.node \in db[o.src].nodes \cap here.nodes
        /\ ~HasJob(here, o.job)
        /\ o.prv \cup o.nxt \subseteq JobsOf(here) \cup {o.job}
        /\ o.job \notin o.prv \cap o.nxt
        /\ \A c \in o.times : c.value <= Duration
        /\ \A c, d \in o.times : c.type = d.type => c = d
  /\ o.kind = "remove_job" =>
        /\ \A l \in here.links : o.job \notin {l[1], l[2]}
        /\ \A t \in here.times : t[1] # o.job
  /\ o.kind = "delete_node" =>
        /\ o.node \notin here.resources
        /\ \A j \in JobsOf(here) : NodeOf[j] # o.node

\* job_state of o.job after the transaction of o; an UPDATE of a row that is
\* not there changes nothing.
StateAfter(o, old) ==
  IF o.kind = "add_job" THEN "waiting"
  ELSE IF o.kind = "remove_job" THEN NoRow
  ELSE IF o.kind = "update_job_state" /\ old # NoRow THEN o.state ELSE old

\* The rows of the schema after the transaction of o.  add_node is an INSERT
\* IGNORE, a DELETE of a row that is not there changes nothing.
Result(o, here) ==
  [status    |-> here.status,
   nodes     |-> IF o.kind = "add_node" THEN here.nodes \cup {o.node}
                 ELSE IF o.kind = "delete_node" THEN here.nodes \ {o.node}
                 ELSE here.nodes,
   resources |-> IF o.kind = "add_resource" THEN here.resources \cup {o.node}
                 ELSE here.resources,
   state     |-> [j \in Job |-> IF j = o.job THEN StateAfter(o, here.state[j])
                                ELSE here.state[j]],
   links     |-> IF o.kind = "add_job" THEN here.links \cup NewLinks(o)
                 ELSE here.links,
   times     |-> IF o.kind = "add_job"
                 THEN here.times \cup ({o.job} \X o.times) ELSE here.times]

(***************************************************************************)
(* Compound operations                                                     *)
(***************************************************************************)

\* With a get_jobs that does not read the links.
CopyCalls_without_links(t, d) ==
  {NodeCall("add_node", d, n) : n \in t.nodes}
  \cup {AddJob(d, Template, j, {}, {}, get_time_constraints(t, j)) :
          j \in {k \in JobsOf(t) : NodeOf[k] \in t.nodes}}

\* The calls by which set_next_planning puts the nodes read from the template
\* t into schema d.
CopyCalls(t, d) ==
  {NodeCall("add_node", d, n) : n \in t.nodes}
  \cup {AddJob(d, Template, j, {}, get_jobs_next(t, j),
               get_time_constraints(t, j)) :
          j \in {k \in JobsOf(t) : NodeOf[k] \in t.nodes}}

\* The calls of remove_node(d, n), whose jobs `read` are those of node n in
\* schema d: the t_job's domain is the domain's name, so that the jobs are
\* removed from the template, whatever d is.
RemoveNodeCalls(d, n, read) ==
  {RemoveJob(Template, j) : j \in {k \in JobsOf(read) : NodeOf[k] = n}}
  \cup {NodeCall("delete_node", d, n)}
=============================================================================
