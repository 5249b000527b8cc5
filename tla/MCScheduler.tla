---------------------------- MODULE MCScheduler ----------------------------
(***************************************************************************)
(* Small instances of Scheduler for TLC.                                   *)
(***************************************************************************)
EXTENDS Scheduler

MCOneNode == {1}
MCOneJob == {1}
MCTwoJobs == {1, 2}
MCThreeJobs == {1, 2, 3}
MCLocal == [j \in Job |-> 1]
MCEight == {480}
MCNine == {540}

\* 00:00, 08:00, 09:00, noon and 20:00.
MCSeconds == {0, 28800, 32400, 43200, 72000}
On(j, type, value) == <<j, [type |-> type, value |-> value]>>

\* A template with the given rows, every job waiting, as clients leave it.
MCTemplate(names, links, times) ==
  [status |-> "loaded", nodes |-> {1}, resources |-> {},
   state |-> [j \in Job |-> IF j \in names THEN "waiting" ELSE NoRow],
   links |-> links, times |-> times]

\* Job 2 precedes job 1, which may run after 08:00: the order of names and
\* the hours the copy of a planning accepts.
MCChain == MCTemplate({1, 2}, {<<2, 1>>}, {On(1, "after", 28800)})

\* Job 1 must also have run before 20:00.
MCLateChain ==
  MCTemplate({1, 2}, {<<2, 1>>},
             {On(1, "after", 28800), On(1, "before", 72000)})

\* Job 2 precedes job 3, job 1 may run after noon.
MCForwardChain ==
  MCTemplate({1, 2, 3}, {<<2, 3>>}, {On(1, "after", 43200)})

\* Jobs 2 and 3 both precede job 1, which must run at 09:00.
MCJoin ==
  MCTemplate({1, 2, 3}, {<<2, 1>>, <<3, 1>>}, {On(1, "at", 32400)})

MCSingle == MCTemplate({1}, {}, {})

\* Job 1 of the first planning is updated, removed, added again, the template
\* gets a resource.
MCRequests ==
  {{UpdateJobState(1, 1, "failed")},
   {RemoveJob(1, 1)}, {UpdateJob(1)},
   {AddJob(1, 1, 1, {}, {}, {})},
   {NodeCall("add_node", Template, 1), NodeCall("add_resource", Template, 1)}}
MCRemovals == {<<1, 1>>}

\* A client updates job 1.
MCUpdate == {{UpdateJob(1)}}
=============================================================================
