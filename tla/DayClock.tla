------------------------------ MODULE DayClock ------------------------------
(***************************************************************************)
(* What a master promises of its plannings in terms of days: the planning  *)
(* named p starts when day p begins.  Time is the number of boundaries     *)
(* passed and whether the next one is within the buffer of the loop of     *)
(* master.cpp.  Scheduler keeps time in this way, Clock computes it from   *)
(* seconds as domain.cpp does; both implement this specification.          *)
(***************************************************************************)
EXTENDS Integers

VARIABLES
  day, late,  \* the time
  start,      \* planning_start_time: the day it begins
  target,     \* the planning being made
  main,       \* where the main loop is
  booting,    \* the Domain constructor is running
  seen        \* the time read at the top of the iteration

vars == <<day, late, start, target, main, booting, seen>>

Init ==
  /\ day = 0 /\ late \in BOOLEAN
  /\ start = 1 /\ target = 1
  /\ main = "next" /\ booting = TRUE
  /\ seen = [day |-> 0, late |-> late]

Pass ==
  /\ \/ ~late /\ late' = TRUE /\ day' = day
     \/ day' = day + 1 /\ late' = FALSE
  /\ UNCHANGED <<start, target, main, booting, seen>>

\* set_next_planning is over.  In the loop it may leave the planning as it is.
Over(p) ==
  /\ start' \in {p} \cup (IF booting THEN {} ELSE {start})
  /\ main' = IF booting THEN "tick" ELSE "dispatch"
  /\ booting' = FALSE
  /\ UNCHANGED <<day, late, seen>>

Choose ==
  /\ main = "next"
  /\ target' = day + 1
  /\ \/ Over(day + 1)
     \/ main' = "make" /\ UNCHANGED <<day, late, start, booting, seen>>

Make == main = "make" /\ Over(target) /\ UNCHANGED target

\* A query that fails leaves out the window test; there is none before the
\* planning has begun.
Tick ==
  /\ main = "tick"
  /\ seen' = [day |-> day, late |-> late]
  /\ main' \in {"window"} \cup (IF start <= day THEN {"dispatch"} ELSE {})
  /\ UNCHANGED <<day, late, start, target, booting>>

CheckBuffer ==
  /\ main = "window"
  /\ main' = IF day = seen.day /\ seen.late THEN "next" ELSE "dispatch"
  /\ UNCHANGED <<day, late, start, target, booting, seen>>

Dispatch ==
  /\ main = "dispatch" /\ main' = "tick"
  /\ UNCHANGED <<day, late, start, target, booting, seen>>

Stop ==
  /\ main # "dead" /\ main' = "dead" /\ booting' = FALSE
  /\ UNCHANGED <<day, late, start, target, seen>>

\* The local variables are those of a new process.
Restart ==
  /\ main = "dead" /\ main' = "next" /\ booting' = TRUE
  /\ target' \in {target, start}
  /\ seen' \in {seen, [day |-> day, late |-> late]}
  /\ UNCHANGED <<day, late, start>>

Next ==
  \/ Pass \/ Choose \/ Make \/ Tick \/ CheckBuffer \/ Dispatch
  \/ Stop \/ Restart

Spec == Init /\ [][Next]_vars
=============================================================================
