----------------------------- MODULE ClockProofs -----------------------------
(***************************************************************************)
(* Proofs about Clock, for every duration of the day, hour of its start    *)
(* and bound.                                                              *)
(***************************************************************************)
EXTENDS Clock, TLAPS

LEMMA Durations ==
  /\ Duration \in Nat /\ Duration >= Buffer
  /\ Initial \in Nat
BY ClockAssumption DEF Duration, Initial, Seconds, Buffer

-----------------------------------------------------------------------------
(***************************************************************************)
(* The arithmetic of get_next_planning_start_time.                         *)
(***************************************************************************)

\* What the remainder and the quotient by the duration are.
LEMMA Division ==
  ASSUME NEW x \in Int
  PROVE  /\ x % Duration \in 0 .. Duration - 1
         /\ x \div Duration \in Int
         /\ x = Duration * (x \div Duration) + (x % Duration)
<1> DEFINE D == Duration
<1>1. D \in Nat /\ D > 0
  BY Durations DEF Buffer
<1> HIDE DEF D
<1>2. x % D \in 0 .. D - 1 BY <1>1
<1>3. x \div D \in Int BY <1>1
<1>4. x = D * (x \div D) + (x % D) BY <1>1
<1> QED BY <1>2, <1>3, <1>4 DEF D

LEMMA Unique ==
  ASSUME NEW D \in Nat, D > 0, NEW p \in Int, NEW q \in Int,
         NEW r \in 0 .. D - 1, NEW s \in 0 .. D - 1, D * p + r = D * q + s
  PROVE  p = q /\ r = s
OBVIOUS

LEMMA DivisionIsUnique ==
  ASSUME NEW x \in Int, NEW q \in Int, NEW r \in 0 .. Duration - 1,
         x = Duration * q + r
  PROVE  x \div Duration = q /\ x % Duration = r
<1>1. Duration \in Nat /\ Duration > 0
  BY Durations DEF Buffer
<1>2. /\ x % Duration \in 0 .. Duration - 1
      /\ x \div Duration \in Int
      /\ x = Duration * (x \div Duration) + (x % Duration)
  BY Division
<1> QED BY <1>1, <1>2, Unique

\* The next start is the first boundary after t.
LEMMA NextStartIsNext ==
  ASSUME NEW t \in Int
  PROVE  /\ Day(t) \in Int /\ NextStart(t) \in Int
         /\ NextStart(t) = Initial + Duration * (Day(t) + 1)
         /\ t < NextStart(t) /\ NextStart(t) <= t + Duration
<1>1. t - Initial \in Int
  BY Durations
<1>2. /\ (t - Initial) % Duration \in 0 .. Duration - 1
      /\ Day(t) \in Int
      /\ t - Initial = Duration * Day(t) + ((t - Initial) % Duration)
  BY <1>1, Division DEF Day
<1>3. NextStart(t) = t + Duration - ((t - Initial) % Duration)
  BY DEF NextStart
<1>4. Duration * (Day(t) + 1) = Duration * Day(t) + Duration
  BY <1>2, Durations
<1>5. Duration * Day(t) \in Int
  BY <1>2, Durations
<1>6. ASSUME NEW P \in Int, NEW m \in 0 .. Duration - 1, t - Initial = P + m
      PROVE  /\ t + Duration - m = Initial + (P + Duration)
             /\ t + Duration - m \in Int
             /\ t < t + Duration - m /\ t + Duration - m <= t + Duration
  BY <1>6, Durations
<1>7. /\ NextStart(t) = Initial + (Duration * Day(t) + Duration)
      /\ NextStart(t) \in Int
      /\ t < NextStart(t) /\ NextStart(t) <= t + Duration
  BY <1>2, <1>3, <1>5, <1>6
<1> QED
  BY <1>2, <1>4, <1>7

\* Between boundaries k and k + 1 it is the latter.
LEMMA DayIs ==
  ASSUME NEW t \in Int, NEW k \in Int,
         Initial + Duration * k <= t, t < Initial + Duration * (k + 1)
  PROVE  Day(t) = k /\ NextStart(t) = Initial + Duration * (k + 1)
<1>1. Duration * (k + 1) = Duration * k + Duration
  BY Durations
<1>2. Duration * k \in Int
  BY Durations
<1> DEFINE r == t - Initial - Duration * k
<1>3. r \in 0 .. Duration - 1 /\ t - Initial \in Int
  BY <1>1, <1>2, Durations
<1>4. t - Initial = Duration * k + r
  BY <1>2, <1>3, Durations
<1>5. Day(t) = k
  <2> HIDE DEF r
  <2> QED BY <1>3, <1>4, DivisionIsUnique DEF Day
<1> QED BY <1>5, NextStartIsNext

LEMMA SameDay ==
  ASSUME NEW t \in Int, NEW u \in Int, t <= u, u < NextStart(t)
  PROVE  Day(u) = Day(t) /\ NextStart(u) = NextStart(t)
<1>1. /\ Day(t) \in Int
      /\ NextStart(t) = Initial + Duration * (Day(t) + 1)
      /\ NextStart(t) <= t + Duration
  BY NextStartIsNext
<1>2. Initial + Duration * Day(t) <= t
  <2>1. Duration * (Day(t) + 1) = Duration * Day(t) + Duration
    BY <1>1, Durations
  <2>2. Duration * Day(t) \in Int
    BY <1>1, Durations
  <2> QED BY <1>1, <2>1, <2>2, Durations
<1>3. Initial + Duration * Day(t) <= u
  <2>1. Initial + Duration * Day(t) \in Int
    BY <1>1, Durations
  <2> QED BY <1>2, <2>1
<1> QED BY <1>1, <1>3, DayIs

LEMMA AtBoundary ==
  ASSUME NEW t \in Int
  PROVE  /\ Day(NextStart(t)) = Day(t) + 1
         /\ NextStart(NextStart(t)) = NextStart(t) + Duration
         /\ (NextStart(t) - Initial) % Duration = 0
<1>1. /\ Day(t) \in Int /\ NextStart(t) \in Int
      /\ NextStart(t) = Initial + Duration * (Day(t) + 1)
  BY NextStartIsNext
<1>2. Duration * (Day(t) + 1 + 1) = Duration * (Day(t) + 1) + Duration
  BY <1>1, Durations
<1>3. Duration > 0
  BY Durations DEF Buffer
<1>4. Duration * (Day(t) + 1) \in Int
  BY <1>1, Durations
<1>5. NextStart(t) < Initial + Duration * (Day(t) + 1 + 1)
  BY <1>1, <1>2, <1>3, <1>4, Durations
<1>6. /\ Day(NextStart(t)) = Day(t) + 1
      /\ NextStart(NextStart(t)) = Initial + Duration * (Day(t) + 1 + 1)
  <2>1. Day(t) + 1 \in Int
    BY <1>1
  <2> QED BY <1>1, <1>5, <2>1, DayIs
<1>7. (NextStart(t) - Initial) % Duration = 0
  <2>1. NextStart(t) - Initial \in Int /\ Day(t) + 1 \in Int
    BY <1>1, Durations
  <2>2. NextStart(t) - Initial = Duration * (Day(t) + 1) + 0
    BY <1>1, <1>4, Durations
  <2>3. 0 \in 0 .. Duration - 1
    BY <1>3, Durations
  <2> QED BY <2>1, <2>2, <2>3, DivisionIsUnique
<1> QED BY <1>1, <1>2, <1>4, <1>6, <1>7, Durations

\* From one second to the next the day stays or the next one begins.
LEMMA NextSecond ==
  ASSUME NEW t \in Int
  PROVE  \/ /\ t + 1 < NextStart(t)
            /\ Day(t + 1) = Day(t) /\ NextStart(t + 1) = NextStart(t)
         \/ /\ t + 1 = NextStart(t)
            /\ Day(t + 1) = Day(t) + 1
            /\ NextStart(t + 1) = NextStart(t) + Duration
<1>1. t + 1 \in Int /\ NextStart(t) \in Int /\ t < NextStart(t)
  BY NextStartIsNext
<1>2. CASE t + 1 < NextStart(t)
  BY <1>1, <1>2, SameDay
<1>3. CASE t + 1 = NextStart(t)
  BY <1>3, AtBoundary
<1> QED BY <1>1, <1>2, <1>3

LEMMA Forward ==
  ASSUME NEW t \in Int, NEW u \in Int, t <= u
  PROVE  NextStart(t) <= NextStart(u) /\ Day(t) <= Day(u)
<1>1. /\ NextStart(t) \in Int /\ Day(t) \in Int
      /\ NextStart(u) \in Int /\ Day(u) \in Int /\ u < NextStart(u)
      /\ NextStart(t) = Initial + Duration * (Day(t) + 1)
      /\ NextStart(u) = Initial + Duration * (Day(u) + 1)
  BY NextStartIsNext
<1>2. CASE u < NextStart(t)
  BY <1>1, <1>2, SameDay
<1>3. CASE NextStart(t) <= u
  <2>1. NextStart(t) < NextStart(u)
    BY <1>1, <1>3
  <2>2. Duration * (Day(t) + 1) < Duration * (Day(u) + 1)
    <3>1. /\ Duration * (Day(t) + 1) \in Int
          /\ Duration * (Day(u) + 1) \in Int
      BY <1>1, Durations
    <3> QED BY <1>1, <2>1, <3>1, Durations
  <2>3. ASSUME NEW D \in Nat, NEW p \in Int, NEW q \in Int, D * p < D * q
        PROVE  p < q
    BY <2>3
  <2>4. Day(t) + 1 \in Int /\ Day(u) + 1 \in Int
    BY <1>1
  <2>5. Day(t) + 1 < Day(u) + 1
    BY <2>2, <2>3, <2>4, Durations
  <2> QED BY <1>1, <2>1, <2>5
<1> QED BY <1>1, <1>2, <1>3

-----------------------------------------------------------------------------
(***************************************************************************)
(* Types.                                                                  *)
(***************************************************************************)
LEMMA NextStartType ==
  ASSUME NEW t \in Nat
  PROVE  NextStart(t) \in Nat
BY NextStartIsNext

\* Every variable of the clock keeps its type.
THEOREM ClockTypes == Spec => []TypeOK
<1>1. Init => TypeOK
  <2> SUFFICES ASSUME Init PROVE TypeOK
    OBVIOUS
  <2>1. Initial + Duration \in Nat /\ Initial + Duration - 1 \in Int
    BY Durations
  <2>2. time \in Nat
    BY <2>1, Durations DEF Init
  <2> QED BY <2>1, <2>2 DEF Init, TypeOK
<1>2. TypeOK /\ [Next]_vars => TypeOK'
  <2> SUFFICES ASSUME TypeOK, [Next]_vars PROVE TypeOK'
    OBVIOUS
  <2> USE DEF TypeOK
  <2>1. CASE Advance BY <2>1 DEF Advance
  <2>2. CASE Choose BY <2>2, NextStartType DEF Choose
  <2>3. CASE Make BY <2>3 DEF Make
  <2>4. CASE Tick BY <2>4 DEF Tick
  <2>5. CASE CheckBuffer BY <2>5 DEF CheckBuffer
  <2>6. CASE Dispatch BY <2>6 DEF Dispatch, Pause
  <2>7. CASE Wake BY <2>7 DEF Wake
  <2>8. CASE Stop BY <2>8 DEF Stop
  <2>9. CASE Restart BY <2>9 DEF Restart
  <2>10. CASE UNCHANGED vars BY <2>10 DEF vars
  <2> QED
    BY <2>1, <2>2, <2>3, <2>4, <2>5, <2>6, <2>7, <2>8, <2>9, <2>10 DEF Next
<1> QED BY <1>1, <1>2, PTL DEF Spec

-----------------------------------------------------------------------------
(***************************************************************************)
(* The start of the planning in use and of the one being made: boundaries, *)
(* the next of some time already past, in the order they are set.          *)
(***************************************************************************)
IsStart(s) == (s - Initial) % Duration = 0 /\ s <= NextStart(time)

StartInv ==
  /\ IsStart(start)
  /\ main = "make" => IsStart(target) /\ start <= target

LEMMA StartInit == Init => StartInv
<1> SUFFICES ASSUME Init PROVE StartInv
  OBVIOUS
<1>1. time \in Int /\ Duration > 0
  BY Durations DEF Init, Buffer
<1>2. NextStart(time) = start
  <2>1. 0 \in Int /\ Duration * 0 = 0 /\ Duration * (0 + 1) = Duration
    BY Durations
  <2>2. time \in Int /\ Initial <= time /\ time < Initial + Duration
    BY Durations DEF Init
  <2>3. /\ Initial + Duration * 0 <= time
        /\ time < Initial + Duration * (0 + 1)
    BY <2>1, <2>2, Durations
  <2>4. NextStart(time) = Initial + Duration * (0 + 1)
    BY <2>1, <2>2, <2>3, DayIs
  <2> QED BY <2>1, <2>4 DEF Init
<1>3. IsStart(start)
  <2>1. start \in Int
    BY Durations DEF Init
  <2> QED BY <1>1, <1>2, <2>1, AtBoundary DEF IsStart
<1> QED BY <1>3 DEF Init, StartInv

LEMMA StartStep == TypeOK /\ StartInv /\ [Next]_vars => StartInv'
<1> SUFFICES ASSUME TypeOK, StartInv, [Next]_vars PROVE StartInv'
  OBVIOUS
<1>0. /\ time \in Nat /\ start \in Nat /\ target \in Nat
  BY DEF TypeOK
<1>1. CASE Advance
  <2>1. time + 1 \in Int /\ time' = time + 1
    BY <1>0, <1>1 DEF Advance
  <2>2. NextStart(time) <= NextStart(time')
    BY <1>0, <2>1, Forward
  <2>3. NextStart(time) \in Int /\ NextStart(time') \in Int
    BY <1>0, <2>1, NextStartIsNext
  <2>4. ASSUME NEW s \in Nat, IsStart(s) PROVE (s - Initial) % Duration = 0 /\ s <= NextStart(time')
    BY <2>2, <2>3, <2>4 DEF IsStart
  <2> QED
    BY <1>0, <1>1, <2>4 DEF Advance, StartInv, IsStart
<1>2. CASE Choose
  <2>1. NextStart(time) \in Nat /\ (NextStart(time) - Initial) % Duration = 0
    BY <1>0, NextStartType, AtBoundary
  <2>2. start <= NextStart(time)
    BY DEF StartInv, IsStart
  <2> HIDE DEF NextStart
  <2> QED
    BY <1>0, <1>2, <2>1, <2>2 DEF Choose, StartInv, IsStart
<1>3. CASE Make
  BY <1>0, <1>3 DEF Make, StartInv, IsStart
<1>4. CASE Tick
  BY <1>4 DEF Tick, StartInv, IsStart
<1>5. CASE CheckBuffer
  BY <1>5 DEF CheckBuffer, StartInv, IsStart
<1>6. CASE Dispatch
  BY <1>6 DEF Dispatch, StartInv, IsStart
<1>7. CASE Wake
  BY <1>7 DEF Wake, StartInv, IsStart
<1>8. CASE Stop
  BY <1>8 DEF Stop, StartInv, IsStart
<1>9. CASE Restart
  BY <1>9 DEF Restart, StartInv, IsStart
<1>10. CASE UNCHANGED vars
  BY <1>10 DEF vars, StartInv, IsStart
<1> QED
  BY <1>1, <1>2, <1>3, <1>4, <1>5, <1>6, <1>7, <1>8, <1>9, <1>10 DEF Next

LEMMA StartInvariant == Spec => []StartInv
BY StartInit, StartStep, ClockTypes, PTL DEF Spec

\* Plannings start whole durations after the initial start and are never prepared more than
\* one ahead, whatever the loop's delays and failures (domain.cpp, 269-277).
THEOREM Boundaries == Spec => []StartIsBoundary
<1>1. StartInv => StartIsBoundary
  BY DEF StartInv, IsStart, StartIsBoundary
<1> QED BY <1>1, StartInvariant, PTL

\* The start of the planning in use never decreases (switch_planning, and the
\* constructor after a restart).
THEOREM StartsGoForward == Spec => NeverBackward
<1>1. TypeOK /\ StartInv /\ [Next]_vars => [start' >= start]_start
  <2> SUFFICES ASSUME TypeOK, StartInv, [Next]_vars, start' # start
               PROVE  start' >= start
    OBVIOUS
  <2>1. Make
    BY DEF Next, vars, Advance, Choose, Tick, CheckBuffer, Dispatch, Wake,
           Stop, Restart
  <2> QED BY <2>1 DEF Make, StartInv, TypeOK
<1> QED BY <1>1, ClockTypes, StartInvariant, PTL DEF Spec, NeverBackward

-----------------------------------------------------------------------------
(***************************************************************************)
(* The time read at the top of the iteration has passed.                   *)
(***************************************************************************)
ReadBefore == now <= time

LEMMA ReadBeforeInvariant == Spec => []ReadBefore
<1>1. Init => ReadBefore
  <2>1. Init => time \in Int
    BY Durations DEF Init
  <2> QED BY <2>1 DEF Init, ReadBefore
<1>2. TypeOK /\ ReadBefore /\ [Next]_vars => ReadBefore'
  BY DEF TypeOK, ReadBefore, Next, vars, Advance, Choose, Make, Tick,
         CheckBuffer, Dispatch, Wake, Stop, Restart
<1> QED BY <1>1, <1>2, ClockTypes, PTL DEF Spec

-----------------------------------------------------------------------------
(***************************************************************************)
(* No planning is skipped as long as nothing lapses.  InPlace: the planning *)
(* in use is that of the day or the next; Prepared: it is the next in the  *)
(* last minute; SleepsSafely: it is the next if the sleep reaches it.      *)
(***************************************************************************)
InPlace == start \in {NextStart(time) - Duration, NextStart(time)}
Prepared == NextStart(time) - time <= Buffer => start = NextStart(time)
SleepsSafely ==
  /\ time <= wake /\ wake <= time + Pause
  /\ NextStart(time) <= wake => start = NextStart(time)

Current ==
  /\ booting => main \in {"next", "make"}
  /\ main # "dead" /\ ~booting => InPlace
  /\ main = "window" => (NextStart(time) - time <= Buffer => now = time)
  /\ main = "make" => target = NextStart(time)
  /\ main = "dispatch" => Prepared
  /\ main = "sleep" => SleepsSafely

CurrentInv == ~lapse => Current

\* A second of work that is no lapse is not one of the last sixty-one.
LEMMA WorkAdvances ==
  ASSUME TypeOK, Current, Advance, ~lapse', Works
  PROVE  Current'
<1>1. /\ time \in Int /\ time' = time + 1
      /\ NextStart(time) - time > Buffer + 1
      /\ UNCHANGED <<start, target, now, main, booting, wake>>
  <2>1. NextStart(time) \in Int /\ time \in Int
    BY NextStartIsNext DEF TypeOK
  <2>2. ~(NextStart(time) - time <= Buffer + 1)
    BY DEF Advance
  <2>3. NextStart(time) - time > Buffer + 1
    <3> DEFINE N == NextStart(time)
    <3>1. N \in Int /\ ~(N - time <= Buffer + 1)
      BY <2>1, <2>2
    <3> HIDE DEF N
    <3>2. N - time > Buffer + 1
      BY <2>1, <3>1 DEF Buffer
    <3> QED BY <3>2 DEF N
  <2> QED BY <2>1, <2>3 DEF Advance
<1>2. NextStart(time') = NextStart(time) /\ NextStart(time) \in Int
  BY <1>1, NextSecond, NextStartIsNext DEF Buffer
<1>3. NextStart(time') - time' > Buffer
  BY <1>1, <1>2 DEF Buffer
<1>4. InPlace => InPlace'
  BY <1>1, <1>2 DEF InPlace
<1>5. Prepared'
  BY <1>1, <1>2, <1>3 DEF Prepared, Buffer
<1>6. ~((NextStart(time) - time)' <= Buffer)
  BY <1>1, <1>2, <1>3 DEF Buffer
<1>7. main # "sleep"
  BY DEF Works
<1> QED
  BY <1>1, <1>2, <1>4, <1>5, <1>6, <1>7 DEF Current

\* The boundary that the sleep reaches is that of the planning in use.
LEMMA SleepAdvances ==
  ASSUME TypeOK, Current, Advance, main = "sleep"
  PROVE  Current'
<1>1. /\ time \in Int /\ start \in Int /\ wake \in Int
      /\ time' = time + 1 /\ time < wake
      /\ UNCHANGED <<start, target, now, main, booting, wake>>
  BY DEF TypeOK, Advance
<1>2. ~booting /\ InPlace /\ SleepsSafely
  BY DEF Current
<1>3. /\ NextStart(time) \in Int /\ NextStart(time') \in Int
      /\ Duration \in Int /\ Duration >= Buffer
  BY <1>1, NextStartIsNext, Durations
<1>4. CASE time + 1 < NextStart(time)
  <2>1. NextStart(time') = NextStart(time)
    BY <1>1, <1>4, NextSecond
  <2>2. InPlace'
    BY <1>1, <1>2, <2>1 DEF InPlace
  <2>3. SleepsSafely'
    BY <1>1, <1>2, <1>3, <2>1 DEF SleepsSafely, Pause
  <2> QED BY <1>1, <1>2, <2>2, <2>3 DEF Current
<1>5. CASE time + 1 = NextStart(time)
  <2>1. NextStart(time') = NextStart(time) + Duration
    BY <1>1, <1>5, NextSecond
  <2>2. start = NextStart(time)
    BY <1>1, <1>2, <1>3, <1>5 DEF SleepsSafely
  <2>3. NextStart(time) = NextStart(time') - Duration
    BY <1>3, <2>1
  <2>4. InPlace'
    BY <1>1, <2>2, <2>3 DEF InPlace
  <2>5. wake < NextStart(time')
    BY <1>1, <1>2, <1>3, <1>5, <2>1 DEF SleepsSafely, Pause, Buffer
  <2>6. SleepsSafely'
    BY <1>1, <1>2, <1>3, <2>5 DEF SleepsSafely, Pause
  <2> QED BY <1>1, <1>2, <2>4, <2>6 DEF Current
<1>6. \/ time + 1 < NextStart(time)
      \/ time + 1 = NextStart(time)
  BY <1>1, NextSecond
<1> QED BY <1>4, <1>5, <1>6

LEMMA CurrentStep ==
  TypeOK /\ ReadBefore /\ CurrentInv /\ [Next]_vars => CurrentInv'
<1> SUFFICES ASSUME TypeOK, ReadBefore, CurrentInv, [Next]_vars, ~lapse'
             PROVE  Current'
  BY DEF CurrentInv
<1>0. /\ time \in Nat /\ start \in Nat /\ target \in Nat /\ now \in Nat
      /\ wake \in Nat /\ booting \in BOOLEAN /\ lapse \in BOOLEAN
      /\ main \in {"next", "make", "tick", "window", "dispatch", "sleep", "dead"}
      /\ NextStart(time) \in Int
  BY NextStartIsNext DEF TypeOK
<1>1. CASE Advance
  <2>1. ~lapse
    BY <1>0, <1>1 DEF Advance
  <2>2. Current
    BY <2>1 DEF CurrentInv
  <2>3. CASE main = "dead"
    BY <1>1, <2>2, <2>3 DEF Advance, Current
  <2>4. CASE Works
    BY <1>1, <2>2, <2>4, WorkAdvances
  <2>5. CASE main = "sleep"
    BY <1>1, <2>2, <2>5, SleepAdvances
  <2> QED BY <2>3, <2>4, <2>5 DEF Works
<1>2. CASE Choose
  <2>1. Current
    BY <1>2 DEF Choose, CurrentInv
  <2> QED
    BY <1>2, <2>1 DEF Choose, Current, InPlace
<1>3. CASE Make
  <2>1. start' = target /\ target = NextStart(time)
    <3>1. start' = target
      BY <1>0, <1>3 DEF Make
    <3>2. CASE ~lapse
      BY <1>3, <3>1, <3>2 DEF Make, CurrentInv, Current
    <3>3. CASE lapse
      <4>1. target = NextStart(now) /\ time < target
        BY <1>0, <1>3, <3>3 DEF Make
      <4>2. NextStart(time) = NextStart(now)
        BY <1>0, <4>1, SameDay DEF ReadBefore
      <4> QED BY <3>1, <4>1, <4>2
    <3> QED BY <1>0, <3>2, <3>3
  <2>2. time' = time /\ ~booting' /\ main' \in {"tick", "dispatch"}
    BY <1>3 DEF Make
  <2>3. InPlace' /\ Prepared'
    BY <2>1, <2>2 DEF InPlace, Prepared
  <2> QED BY <2>2, <2>3 DEF Current
<1>4. CASE Tick
  <2>1. ~lapse /\ Current
    BY <1>0, <1>4 DEF Tick, CurrentInv
  <2>2. ~booting /\ InPlace
    BY <1>4, <2>1 DEF Tick, Current
  <2>3. time' = time /\ start' = start /\ now' = time /\ ~booting'
    BY <1>4, <2>2 DEF Tick
  <2>4. InPlace'
    BY <2>2, <2>3 DEF InPlace
  <2>5. CASE main' = "window"
    BY <2>3, <2>4, <2>5 DEF Current
  <2>6. CASE main' = "dispatch" /\ lapse' = (lapse \/ Late(time))
    <3>1. Prepared'
      BY <2>3, <2>6 DEF Late, Prepared
    <3> QED BY <2>3, <2>4, <2>6, <3>1 DEF Current
  <2> QED BY <1>4, <2>5, <2>6 DEF Tick
<1>5. CASE CheckBuffer
  <2>1. Current /\ ~booting /\ InPlace
    BY <1>5 DEF CheckBuffer, CurrentInv, Current
  <2>2. /\ UNCHANGED <<time, start, target, now, booting, wake>>
        /\ InPlace'
    BY <1>5, <2>1 DEF CheckBuffer, InPlace
  <2>3. CASE InWindow
    BY <1>5, <2>1, <2>2, <2>3 DEF CheckBuffer, Current
  <2>4. CASE ~InWindow
    <3>1. ~(NextStart(time) - time <= Buffer)
      BY <1>0, <1>5, <2>1, <2>4 DEF CheckBuffer, Current, InWindow, Buffer
    <3>2. Prepared'
      BY <2>2, <3>1 DEF Prepared
    <3> QED BY <1>5, <2>1, <2>2, <2>4, <3>2 DEF CheckBuffer, Current
  <2> QED BY <2>3, <2>4
<1>6. CASE Dispatch
  <2>1. Current /\ ~booting /\ InPlace /\ Prepared
    BY <1>6 DEF Dispatch, CurrentInv, Current
  <2>2. /\ UNCHANGED <<time, start, target, now, booting>>
        /\ wake' = time + Pause /\ main' = "sleep"
    BY <1>6 DEF Dispatch
  <2>3. InPlace'
    BY <2>1, <2>2 DEF InPlace
  <2>4. SleepsSafely'
    BY <1>0, <2>1, <2>2 DEF SleepsSafely, Prepared, Pause, Buffer
  <2> QED BY <2>1, <2>2, <2>3, <2>4 DEF Current
<1>7. CASE Wake
  <2>1. Current
    BY <1>7 DEF Wake, CurrentInv
  <2> QED
    BY <1>7, <2>1 DEF Wake, Current, InPlace
<1>8. CASE Stop
  BY <1>8 DEF Stop, Current
<1>9. CASE Restart
  BY <1>9 DEF Restart, Current
<1>10. CASE UNCHANGED vars
  BY <1>10
  DEF vars, CurrentInv, Current, InPlace, Prepared, SleepsSafely
<1> QED
  BY <1>1, <1>2, <1>3, <1>4, <1>5, <1>6, <1>7, <1>8, <1>9, <1>10 DEF Next

\* Every duration of the day, hour of its start and length of the iterations:
\* unless the loop works when one of the last sixty-one seconds before a
\* boundary ends, or fails in the last minute, the planning in use is at every
\* second that of the day or the next (master.cpp, 199 and 227).
THEOREM NoneSkipped == Spec => []PlanningIsCurrent
<1>1. Init => CurrentInv
  BY DEF Init, CurrentInv, Current
<1>2. CurrentInv => PlanningIsCurrent
  BY DEF CurrentInv, Current, InPlace, PlanningIsCurrent
<1> QED
  BY <1>1, <1>2, CurrentStep, ClockTypes, ReadBeforeInvariant, PTL DEF Spec

-----------------------------------------------------------------------------
(***************************************************************************)
(* In days, the clock does what DayClock says: one lemma per action that   *)
(* reads the time.                                                         *)
(***************************************************************************)
LEMMA DaysInit == Init => Days!Init
<1> SUFFICES ASSUME Init PROVE Days!Init
  OBVIOUS
<1>1. /\ Duration * 0 = 0 /\ Duration * 1 = Duration
      /\ Duration * 2 = Duration + Duration
      /\ 0 \in Int /\ 0 + 1 = 1 /\ 1 \in Int /\ 1 + 1 = 2
      /\ Duration > 0
  BY Durations DEF Buffer
<1>2. time \in Int /\ Initial <= time /\ time < Initial + Duration
  BY Durations DEF Init
<1>3. Day(time) = 0
  BY <1>1, <1>2, Durations, DayIs
<1>4. start \in Int /\ start = Initial + Duration
  BY Durations DEF Init
<1>5. Initial + Duration * 1 <= start /\ start < Initial + Duration * (1 + 1)
  BY <1>1, <1>4, Durations
<1>6. Day(start) = 1
  BY <1>1, <1>4, <1>5, DayIs
<1>7. Late(time) \in BOOLEAN
  BY DEF Late
<1> QED BY <1>3, <1>6, <1>7 DEF Init, Days!Init

LEMMA DaysAdvance ==
  ASSUME TypeOK, Advance, Duration > Buffer
  PROVE  [Days!Next]_(Days!vars)
<1>1. time \in Int /\ time' = time + 1 /\ time' \in Int
  BY DEF Advance, TypeOK
<1>2. NextStart(time) \in Int /\ NextStart(time') \in Int
  BY <1>1, NextStartIsNext
<1>3. /\ start' = start /\ target' = target /\ main' = main
      /\ booting' = booting /\ now' = now
  BY DEF Advance
<1>4. CASE time' = NextStart(time)
  <2>1. /\ Day(time') = Day(time) + 1
        /\ NextStart(time') = NextStart(time) + Duration
    BY <1>1, <1>4, NextSecond
  <2>2. ~Late(time')
    BY <1>1, <1>2, <1>4, <2>1, Durations DEF Late, Buffer
  <2>3. Late(time') = FALSE
    BY <2>2 DEF Late
  <2> QED BY <1>3, <2>1, <2>3 DEF Days!Next, Days!Pass
<1>5. CASE time' # NextStart(time)
  <2>1. Day(time') = Day(time) /\ NextStart(time') = NextStart(time)
    BY <1>1, <1>5, NextSecond
  <2>2. Late(time) => Late(time')
    BY <1>1, <1>2, <2>1 DEF Late, Buffer
  <2>3. Late(time) \in BOOLEAN /\ Late(time') \in BOOLEAN
    BY DEF Late
  <2>4. CASE Late(time') = Late(time)
    BY <1>3, <2>1, <2>4 DEF Days!vars
  <2>5. CASE ~Late(time) /\ Late(time') = TRUE
    BY <1>3, <2>1, <2>5 DEF Days!Next, Days!Pass
  <2> QED BY <2>2, <2>3, <2>4, <2>5
<1> QED BY <1>4, <1>5

\* The window test reads the time twice: it is true when the first read was
\* late and the second on the same day.
LEMMA WindowInDays ==
  ASSUME TypeOK, ReadBefore, Duration > Buffer
  PROVE  InWindow <=> Day(time) = Day(now) /\ Late(now)
<1>1. time \in Int /\ now \in Int /\ now <= time
  BY DEF TypeOK, ReadBefore
<1>2. /\ NextStart(time) \in Int /\ NextStart(now) \in Int
      /\ Day(time) \in Int /\ Day(now) \in Int
      /\ now < NextStart(now)
      /\ NextStart(now) = Initial + Duration * (Day(now) + 1)
      /\ NextStart(time) = Initial + Duration * (Day(time) + 1)
  BY <1>1, NextStartIsNext
<1>3. CASE time < NextStart(now)
  <2>1. Day(time) = Day(now) /\ NextStart(time) = NextStart(now)
    BY <1>1, <1>3, SameDay
  <2> QED BY <2>1 DEF InWindow, Late
<1>4. CASE NextStart(now) <= time
  <2>1. /\ Day(NextStart(now)) = Day(now) + 1
        /\ NextStart(NextStart(now)) = NextStart(now) + Duration
    BY <1>1, AtBoundary
  <2>2. /\ Day(now) + 1 <= Day(time)
        /\ NextStart(now) + Duration <= NextStart(time)
    BY <1>1, <1>2, <1>4, <2>1, Forward
  <2>3. ~InWindow
    BY <1>1, <1>2, <2>2, Durations DEF InWindow, Buffer
  <2> QED BY <1>2, <2>2, <2>3
<1> QED BY <1>1, <1>2, <1>3, <1>4

LEMMA DaysStep ==
  ASSUME TypeOK, ReadBefore, [Next]_vars, Duration > Buffer
  PROVE  [Days!Next]_(Days!vars)
<1>0. /\ time \in Int /\ start \in Int /\ booting \in BOOLEAN
      /\ Day(time) \in Int /\ Day(start) \in Int
  BY NextStartIsNext DEF TypeOK
<1>1. CASE Advance
  BY <1>1, DaysAdvance
<1>2. CASE Choose
  <2>1. Day(target') = Day(time) + 1
    BY <1>0, <1>2, AtBoundary DEF Choose
  <2>2. /\ time' = time /\ start' = start /\ now' = now
        /\ booting' = booting /\ main = "next" /\ main' = "make"
    BY <1>2 DEF Choose
  <2> QED BY <2>1, <2>2 DEF Days!Next, Days!Choose
<1>3. CASE Make
  BY <1>0, <1>3 DEF Make, Days!Next, Days!Make, Days!Over
<1>4. CASE Tick
  <2>1. CASE main' = "window"
    BY <1>4, <2>1 DEF Tick, Days!Next, Days!Tick
  <2>2. CASE start <= time /\ main' = "dispatch"
    <3>1. Day(start) <= Day(time)
      BY <1>0, <2>2, Forward
    <3> QED BY <1>4, <2>2, <3>1 DEF Tick, Days!Next, Days!Tick
  <2> QED BY <1>4, <2>1, <2>2 DEF Tick
<1>5. CASE CheckBuffer
  <2>1. InWindow <=> Day(time) = Day(now) /\ Late(now)
    BY WindowInDays
  <2> QED BY <1>5, <2>1 DEF CheckBuffer, Days!Next, Days!CheckBuffer
<1>6. CASE Dispatch
  BY <1>6 DEF Dispatch, Days!Next, Days!Dispatch
<1>7. CASE Wake
  BY <1>7 DEF Wake, Days!vars
<1>8. CASE Stop
  BY <1>8 DEF Stop, Days!Next, Days!Stop
<1>9. CASE Restart
  BY <1>9 DEF Restart, Days!Next, Days!Restart
<1>10. CASE UNCHANGED vars
  BY <1>10 DEF vars, Days!vars
<1> QED
  BY <1>1, <1>2, <1>3, <1>4, <1>5, <1>6, <1>7, <1>8, <1>9, <1>10 DEF Next

\* Seconds implement the days the model of the master counts, for every hour
\* of the start and every duration longer than the buffer of sixty seconds:
\* a planning is named by the boundary it starts at, and the window test,
\* although the time moves between its two reads, is true of the last minute
\* of one day only.
THEOREM SecondsImplementDays ==
  ASSUME Duration > Buffer
  PROVE  Spec => DaysImplemented
<1>1. Init => Days!Init
  BY DaysInit
<1>2. TypeOK /\ ReadBefore /\ [Next]_vars => [Days!Next]_(Days!vars)
  BY DaysStep
<1> QED
  BY <1>1, <1>2, ClockTypes, ReadBeforeInvariant, PTL
     DEF Spec, DaysImplemented, Days!Spec
=============================================================================
