------------------------------- MODULE Clock -------------------------------
(***************************************************************************)
(* The time of a master, in seconds: how the constructor of Domain reads   *)
(* the day of the configuration, how the start of the next planning is     *)
(* computed from it, and when the loop of master.cpp, which sleeps sixty   *)
(* seconds, looks at the window of sixty seconds before that start.        *)
(*                                                                         *)
(* Only t - Initial modulo Duration counts in the code: the seconds are    *)
(* numbered from the last boundary before the first start of the process.  *)
(***************************************************************************)
EXTENDS Integers

CONSTANTS
  DurationHours, DurationMinutes,  \* day_duration, "<h>h<m>min"
  StartHour, StartMinute,          \* day_start_time, "hh:mm"
  MaxWork,  \* bound: seconds an iteration or a start takes
  Horizon,  \* bound: last second
  Failing   \* bound: whether the database may fail

\* 0 in what of the two forms is not there, or when nothing matches.
Seconds(hours, minutes) == hours * 3600 + minutes * 60

Duration == Seconds(DurationHours, DurationMinutes)
Initial == Seconds(StartHour, StartMinute)

\* The constructor throws when the duration is 0.
ASSUME ClockAssumption ==
  /\ {DurationHours, DurationMinutes, StartHour, StartMinute} \subseteq Nat
  /\ DurationHours # 0 \/ DurationMinutes # 0
  /\ {MaxWork, Horizon} \subseteq Nat
  /\ Failing \in BOOLEAN

Buffer == 60
Pause == 60

VARIABLES
  time,     \* what time(2) returns
  start,    \* planning_start_time
  target,   \* the start set_next_planning has computed
  now,      \* the time read at the top of the iteration
  main,     \* where the main loop is
  booting,  \* the Domain constructor is running
  wake,     \* when the sleep ends or ended, or the process started
  lapse     \* history: the loop may have missed a window

vars == <<time, start, target, now, main, booting, wake, lapse>>

\* With t and the remainder swapped; with the remainder added.
NextStart_swapped(t) == ((t - Initial) % Duration) + Duration - t
NextStart_added(t) == t + Duration + ((t - Initial) % Duration)

\* From now on instead of from the initial start.
NextStart_unaligned(t) == t + Duration - (t % Duration)

\* get_next_planning_start_time at time t.
NextStart(t) == t + Duration - ((t - Initial) % Duration)

Init ==
  /\ time \in Initial .. Initial + Duration - 1
  /\ start = Initial + Duration /\ target = start
  /\ main = "next" /\ booting = TRUE
  /\ now = time /\ wake = time
  /\ lapse = FALSE

\* The number of boundaries passed; the last minute before the next one.
Day(t) == (t - Initial) \div Duration
Late(t) == NextStart(t) - t <= Buffer

-----------------------------------------------------------------------------
\* The loop works when it neither sleeps nor is dead.
Works == main \notin {"sleep", "dead"}

\* A second passes.  It is a lapse if the loop works as one of the last
\* sixty-one seconds before a boundary ends: a fraction of a second of work
\* around the change of the second is enough.
Advance ==
  /\ time < Horizon
  /\ Works => time < wake + MaxWork
  /\ main = "sleep" => time < wake
  /\ time' = time + 1
  /\ lapse' = (lapse \/ (Works /\ NextStart(time) - time <= Buffer + 1))
  /\ UNCHANGED <<start, target, now, main, booting, wake>>

\* From the time read at the top of the iteration.
Choose_stale ==
  /\ main = "next" /\ main' = "make"
  /\ target' = NextStart(now)
  /\ UNCHANGED <<time, start, now, booting, wake, lapse>>

\* set_next_planning computes the start and makes the planning.
Choose ==
  /\ main = "next" /\ main' = "make"
  /\ target' = NextStart(time)
  /\ UNCHANGED <<time, start, now, booting, wake, lapse>>

\* It returns TRUE; or, in the loop, it returns FALSE or throws ex_job.  The
\* constructor's argument is planning_start_time itself: whatever the result,
\* it is set.  A planning made before it begins ends the lapses.
Make ==
  /\ main = "make"
  /\ \/ /\ start' = target
        /\ lapse' = (lapse /\ ~(target = NextStart(now) /\ time < target))
     \/ /\ Failing /\ ~booting
        /\ lapse' = TRUE
        /\ UNCHANGED start
  /\ main' = IF booting THEN "tick" ELSE "dispatch"
  /\ booting' = FALSE
  /\ UNCHANGED <<time, target, now, wake>>

\* The time is read and, when the planning has started, the ready jobs; ex_job
\* thrown by that query leaves the window test out.
Tick ==
  /\ main = "tick"
  /\ now' = time
  /\ \/ main' = "window" /\ UNCHANGED lapse
     \/ /\ Failing /\ start <= time
        /\ main' = "dispatch"
        /\ lapse' = (lapse \/ Late(time))
  /\ UNCHANGED <<time, start, target, booting, wake>>

\* With < instead of <=.
InWindow_strictly == NextStart(time) - now < Buffer

\* get_next_planning_start_time, which reads the time again, against now.
InWindow == NextStart(time) - now <= Buffer

CheckBuffer ==
  /\ main = "window"
  /\ main' = IF InWindow THEN "next" ELSE "dispatch"
  /\ UNCHANGED <<time, start, target, now, booting, wake, lapse>>

\* The threads are created, and the loop sleeps.
Dispatch ==
  /\ main = "dispatch" /\ main' = "sleep"
  /\ wake' = time + Pause
  /\ UNCHANGED <<time, start, target, now, booting, lapse>>

Wake ==
  /\ main = "sleep" /\ time = wake
  /\ main' = "tick"
  /\ UNCHANGED <<time, start, target, now, booting, wake, lapse>>

\* ex_processing, an uncaught exception of a thread, or a kill.
Stop ==
  /\ main # "dead" /\ main' = "dead"
  /\ booting' = FALSE
  /\ wake' = 0 /\ lapse' = FALSE
  /\ UNCHANGED <<time, start, target, now>>

Restart ==
  /\ main = "dead" /\ main' = "next"
  /\ booting' = TRUE
  /\ wake' = time /\ now' = time /\ target' = start
  /\ UNCHANGED <<time, start, lapse>>

-----------------------------------------------------------------------------
Next ==
  \/ Advance
  \/ Choose \/ Make \/ Tick \/ CheckBuffer \/ Dispatch \/ Wake
  \/ Stop \/ Restart

Spec == Init /\ [][Next]_vars

-----------------------------------------------------------------------------
TypeOK ==
  /\ time \in Nat /\ start \in Nat /\ target \in Nat
  /\ now \in Nat /\ wake \in Nat
  /\ main \in {"next", "make", "tick", "window", "dispatch", "sleep", "dead"}
  /\ booting \in BOOLEAN
  /\ lapse \in BOOLEAN

\* Every planning starts a whole number of durations after the initial start,
\* whenever the process was started and however late it prepares plannings,
\* and is never prepared before the day that precedes it:
\* get_current_planning_remaining_time is at most two durations.  (This is the
\* configured hour of every day when the duration divides a day, in the zone
\* of the epoch: the initial start is 1 January 1970 at that hour.)
StartIsBoundary ==
  ~booting =>
    /\ (start - Initial) % Duration = 0
    /\ start <= NextStart(time)

\* At every second the planning in use is that of the day or, prepared in the
\* last minute, the next one; unless, since the last planning that was made
\* before it began, the loop was working when one of the last sixty-one
\* seconds before a boundary ended, or a query or a preparation failed in the
\* last minute.  The pause and the buffer are the same sixty seconds
\* (master.cpp:199,227): an iteration sixty-one seconds before a boundary is
\* followed by one a second before it.  How long iterations take the rest of
\* the day does not count.
PlanningIsCurrent ==
  main # "dead" /\ ~booting /\ ~lapse =>
    start \in {NextStart(time) - Duration, NextStart(time)}

\* A planning is never replaced by one that started earlier, a restart of the
\* process included: what clients read of the current planning goes forward.
NeverBackward == [][start' >= start]_start

\* In days: time passes, the window and the plannings are those the model of
\* the master (Scheduler) relies on.
Days == INSTANCE DayClock WITH
          day <- Day(time),
          late <- Late(time),
          start <- Day(start),
          target <- Day(target),
          main <- IF main = "sleep" THEN "tick" ELSE main,
          seen <- [day |-> Day(now), late |-> Late(now)]

DaysImplemented == Days!Spec

-----------------------------------------------------------------------------
(***************************************************************************)
(* What a comment says and the code does not do.                           *)
(***************************************************************************)

\* "Check if we need to initialize the next planning (buffer == 1 minute)"
\* (master.cpp:178): if the database does not fail, the planning of the day
\* has been initialized when an iteration of that day dispatches.
NextIsInitialized ==
  main = "dispatch" => start >= NextStart(now) - Duration
=============================================================================
