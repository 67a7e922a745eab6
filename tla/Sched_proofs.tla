---------------------------- MODULE Sched_proofs ----------------------------
(***************************************************************************)
(* The safety of the scheduler and of the timer list, for any number of    *)
(* tasks, any slice and any length of the list, and that the scheduler     *)
(* implements module Dispatch.  Nothing is used of what task_search        *)
(* prefers, only that it returns another READY task or the idle one.       *)
(***************************************************************************)
EXTENDS Sched, SequenceTheorems, WellFoundedInduction, TLAPS

States == {"BLOCKED", "SLEEPING", "WAITING", "RUNNING", "READY"}
Timer == [task : User, left : Int]

\* The inductive invariant, in two parts: the processor's and the list's.
ProcessorInv ==
    /\ current \in Task
    /\ state \in [Task -> States]
    /\ ticks \in [Task -> 0 .. Priority]
    /\ state[current] \in {"RUNNING", "READY"}
    /\ OneRunning
    /\ IdleRunnable
    /\ TicksPositive

ListInv ==
    /\ timers \in Seq(Timer)
    /\ TimersInOrder

\* What holds of the states and the slices when schedule() is called: the
\* running task may be parked and its slice used up, nobody else's is.
Ready(s, k) ==
    /\ s \in [Task -> States]
    /\ \A t \in Task : s[t] = "RUNNING" => t = current
    /\ s[Idle] \in {"RUNNING", "READY"}
    /\ k \in [Task -> 0 .. Priority]
    /\ \A t \in Task \ {current} : k[t] > 0

\* schedule() leaves one RUNNING task and no slice at 0 (task.c:220-246).
LEMMA ScheduleInv ==
    ASSUME current \in Task, NEW s, NEW k, Ready(s, k), Schedule(s, k)
    PROVE  ProcessorInv'
  <1>1. PICK next \in Task :
            /\ current' = next
            /\ state' = [t \in Task |->
                            IF t = next THEN "RUNNING"
                            ELSE IF t = current /\ s[t] = "RUNNING" THEN "READY"
                            ELSE s[t]]
            /\ ticks' = IF k[current] = 0
                        THEN [k EXCEPT ![current] = PriorityOf(current)] ELSE k
    BY DEF Schedule
  <1>2. 0 \in Task /\ PriorityOf(current) \in 1 .. Priority
    BY SchedAssumption DEF Task, PriorityOf
  <1>3. state' \in [Task -> States] /\ OneRunning' /\ IdleRunnable'
    BY <1>1, <1>2 DEF Ready, States, OneRunning, IdleRunnable, Idle
  <1>4. ticks' \in [Task -> 0 .. Priority] /\ TicksPositive'
    BY <1>1, <1>2, SchedAssumption DEF Ready, TicksPositive
  <1> QED
    BY <1>1, <1>3, <1>4 DEF ProcessorInv

\* A wake-up by an interrupt or by another task.
LEMMA UnblockInv ==
    ASSUME ProcessorInv, NEW W
    PROVE  Ready(D!Unblock(state, W), ticks)
  <1>1. 0 \in Task
    BY SchedAssumption DEF Task
  <1> QED
    BY <1>1 DEF ProcessorInv, Ready, D!Unblock, States, OneRunning,
                IdleRunnable, TicksPositive, Idle

\* The running task parks itself.
LEMMA ParkInv ==
    ASSUME ProcessorInv, current # Idle, NEW how \in D!Parked,
           Schedule([state EXCEPT ![current] = how], ticks)
    PROVE  ProcessorInv'
  <1>1. 0 \in Task
    BY SchedAssumption DEF Task
  <1>2. Ready([state EXCEPT ![current] = how], ticks)
    BY <1>1 DEF ProcessorInv, Ready, D!Parked, States, OneRunning,
                IdleRunnable, TicksPositive, Idle
  <1> QED
    BY <1>2, ScheduleInv DEF ProcessorInv

\* The clock charges the running task: a slice at 0 leads to schedule().
LEMMA ExpireInv ==
    ASSUME ProcessorInv, NEW s, Ready(s, ticks), Expire(s),
           s[current] \in {"RUNNING", "READY"}
    PROVE  ProcessorInv'
  <1> DEFINE k == [ticks EXCEPT ![current] = @ - 1]
  <1>1. Ready(s, k) /\ k[current] >= 0
    BY SchedAssumption DEF Ready, ProcessorInv, TicksPositive
  <1>2. CASE k[current] = 0
    BY <1>1, <1>2, ScheduleInv DEF Expire, ProcessorInv
  <1>3. CASE k[current] # 0
    <2>1. state' = s /\ ticks' = k /\ current' = current
      BY <1>3 DEF Expire
    <2> QED
      BY <1>1, <1>3, <2>1
         DEF ProcessorInv, Ready, OneRunning, IdleRunnable, TicksPositive
  <1> QED
    BY <1>2, <1>3

\* InsertAt, element by element.
LEMMA InsertAtProperties ==
    ASSUME NEW S, NEW s \in Seq(S), NEW m \in 1 .. Len(s) + 1, NEW e \in S
    PROVE  /\ InsertAt(s, m, e) \in Seq(S)
           /\ Len(InsertAt(s, m, e)) = Len(s) + 1
           /\ \A i \in 1 .. Len(s) + 1 :
                InsertAt(s, m, e)[i] = IF i < m THEN s[i]
                                       ELSE IF i = m THEN e ELSE s[i - 1]
  <1> DEFINE a == SubSeq(s, 1, m - 1)
             b == SubSeq(s, m, Len(s))
             c == a \o <<e>>
             d == c \o b
  <1>1. /\ Len(s) \in Nat
        /\ \A i \in 1 .. Len(s) : s[i] \in S
    BY LenProperties, ElementOfSeq
  <1>2. /\ a \in Seq(S) /\ Len(a) = m - 1
        /\ \A i \in 1 .. m - 1 : a[i] = s[i]
    BY <1>1, SubSeqProperties
  <1>3. /\ b \in Seq(S) /\ Len(b) = Len(s) - m + 1
        /\ \A i \in 1 .. Len(s) - m + 1 : b[i] = s[m + i - 1]
    BY <1>1, SubSeqProperties
  <1>4. InsertAt(s, m, e) = d
    BY DEF InsertAt
  <1> HIDE DEF a, b
  <1>5. /\ c \in Seq(S) /\ Len(c) = m
        /\ \A i \in 1 .. m : c[i] = IF i < m THEN s[i] ELSE e
    BY <1>1, <1>2
  <1> HIDE DEF c
  <1>6. /\ d \in Seq(S)
        /\ Len(d) = Len(c) + Len(b)
        /\ \A i \in 1 .. Len(c) + Len(b) :
             d[i] = IF i <= Len(c) THEN c[i] ELSE b[i - Len(c)]
    BY <1>3, <1>5, ConcatProperties
  <1> HIDE DEF d
  <1>7. Len(d) = Len(s) + 1 /\ Len(c) + Len(b) = Len(s) + 1
    BY <1>1, <1>3, <1>5, <1>6
  <1>8. ASSUME NEW i \in 1 .. Len(s) + 1
        PROVE  d[i] = IF i < m THEN s[i] ELSE IF i = m THEN e ELSE s[i - 1]
    <2>1. CASE i <= m
      BY <1>1, <1>5, <1>6, <1>7, <2>1
    <2>2. CASE i > m
      <3> DEFINE j == i - m
      <3>1. d[i] = b[j]
        BY <1>1, <1>5, <1>6, <1>7, <2>2
      <3>2. j \in 1 .. Len(s) - m + 1 /\ m + j - 1 = i - 1
        BY <1>1, <2>2
      <3> HIDE DEF j
      <3>3. b[j] = s[i - 1]
        BY <1>3, <3>2
      <3> QED
        BY <1>1, <2>2, <3>1, <3>3
    <2> QED
      BY <1>1, <2>1, <2>2
  <1> QED
    BY <1>4, <1>6, <1>7, <1>8
-----------------------------------------------------------------------------
\* The list is sorted after an insertion before the first later timer.
LEMMA TimerAddInv ==
    ASSUME ListInv, NEW t \in User, NEW ms \in Nat, TimerAdd(t, ms)
    PROVE  ListInv'
  <1> DEFINE left == ms \div JIFFY
             new == [task |-> t, left |-> left]
  <1>0. /\ timers \in Seq(Timer) /\ Len(timers) \in Nat
        /\ DOMAIN timers = 1 .. Len(timers)
        /\ \A i \in 1 .. Len(timers) : timers[i] \in Timer
    BY LenProperties, ElementOfSeq DEF ListInv
  <1>1. PICK n \in 0 .. Len(timers) :
            /\ \A i \in 1 .. n : timers[i].left <= left
            /\ n < Len(timers) => timers[n + 1].left > left
            /\ timers' = InsertAt(timers, n + 1, new)
    BY DEF TimerAdd
  <1>2. left \in Nat /\ new \in Timer /\ new.left = left
    BY DEF JIFFY, Timer
  <1> HIDE DEF new, left
  <1>3. /\ timers' \in Seq(Timer)
        /\ Len(timers') = Len(timers) + 1
        /\ \A i \in 1 .. Len(timers) + 1 :
             timers'[i] = IF i < n + 1 THEN timers[i]
                          ELSE IF i = n + 1 THEN new ELSE timers[i - 1]
    <2>1. n + 1 \in 1 .. Len(timers) + 1
      BY <1>0
    <2> DEFINE m == n + 1
               r == InsertAt(timers, m, new)
    <2>2. m \in 1 .. Len(timers) + 1
      BY <2>1
    <2> HIDE DEF m
    <2>3. /\ r \in Seq(Timer)
          /\ Len(r) = Len(timers) + 1
          /\ \A i \in 1 .. Len(timers) + 1 :
               r[i] = IF i < m THEN timers[i]
                      ELSE IF i = m THEN new ELSE timers[i - 1]
      BY <1>0, <1>2, <2>2, InsertAtProperties
    <2> QED
      BY <1>1, <2>3 DEF m
  <1>4. \A i \in 1 .. Len(timers) : timers[i].left \in Int /\ timers[i].left >= 0
    BY <1>0 DEF ListInv, TimersInOrder, Timer
  <1>5. \A i, j \in 1 .. Len(timers) : i < j => timers[i].left <= timers[j].left
    BY <1>0 DEF ListInv, TimersInOrder
  <1>6. \A i \in n + 1 .. Len(timers) : timers[i].left > left
    BY <1>1, <1>2, <1>4, <1>5
  <1>7. \A i \in 1 .. Len(timers') : timers'[i].left >= 0
    BY <1>2, <1>3, <1>4
  <1>8. \A i, j \in 1 .. Len(timers') : i < j => timers'[i].left <= timers'[j].left
    <2> SUFFICES ASSUME NEW i \in 1 .. Len(timers'),
                        NEW j \in 1 .. Len(timers'), i < j
                 PROVE  timers'[i].left <= timers'[j].left
      OBVIOUS
    <2>1. CASE j <= n
      BY <1>0, <1>3, <1>5, <2>1
    <2>2. CASE j = n + 1
      BY <1>0, <1>1, <1>2, <1>3, <2>2
    <2>3. CASE j > n + 1 /\ i <= n
      <3>1. /\ i \in 1 .. Len(timers) /\ j - 1 \in 1 .. Len(timers)
            /\ i < j - 1
        BY <1>0, <1>3, <2>3
      <3>2. timers'[i] = timers[i] /\ timers'[j] = timers[j - 1]
        BY <1>0, <1>3, <2>3
      <3>3. timers[i].left <= timers[j - 1].left
        BY <1>5, <3>1
      <3> QED
        BY <3>2, <3>3
    <2>4. CASE j > n + 1 /\ i = n + 1
      <3>1. j - 1 \in n + 1 .. Len(timers) /\ j - 1 \in 1 .. Len(timers)
        BY <1>0, <1>3, <2>4
      <3>2. timers'[i] = new /\ timers'[j] = timers[j - 1]
        BY <1>0, <1>3, <2>4
      <3>3. timers[j - 1].left > left /\ timers[j - 1].left \in Int
        BY <1>4, <1>6, <3>1
      <3> QED
        BY <1>2, <3>2, <3>3
    <2>5. CASE j > n + 1 /\ i > n + 1
      <3>1. /\ i - 1 \in 1 .. Len(timers) /\ j - 1 \in 1 .. Len(timers)
            /\ i - 1 < j - 1
        BY <1>0, <1>3, <2>5
      <3>2. timers'[i] = timers[i - 1] /\ timers'[j] = timers[j - 1]
        BY <1>0, <1>3, <2>5
      <3>3. timers[i - 1].left <= timers[j - 1].left
        BY <1>5, <3>1
      <3> QED
        BY <3>2, <3>3
    <2> QED
      BY <1>0, <2>1, <2>2, <2>3, <2>4, <2>5
  <1> QED
    BY <1>3, <1>7, <1>8 DEF ListInv, TimersInOrder
\* A clock interrupt brings every timer one closer.
LEMMA AdvancedSorted ==
    ASSUME ListInv
    PROVE  /\ Advanced \in Seq(Timer)
           /\ \A i, j \in 1 .. Len(Advanced) :
                i < j => Advanced[i].left <= Advanced[j].left
  <1>1. /\ timers \in Seq(Timer) /\ Len(timers) \in Nat
        /\ DOMAIN timers = 1 .. Len(timers)
        /\ \A i \in 1 .. Len(timers) : timers[i] \in Timer
    BY LenProperties, ElementOfSeq DEF ListInv
  <1>2. \A i \in 1 .. Len(timers) : /\ timers[i].task \in User
                                    /\ timers[i].left \in Int
    BY <1>1 DEF Timer
  <1>3. Advanced \in Seq(Timer) /\ Len(Advanced) = Len(timers)
    BY <1>1, <1>2 DEF Advanced, Timer
  <1>4. \A i \in 1 .. Len(Advanced) : Advanced[i].left = timers[i].left - 1
    BY <1>1, <1>3 DEF Advanced
  <1>5. \A i, j \in 1 .. Len(timers) : i < j => timers[i].left <= timers[j].left
    BY <1>1 DEF ListInv, TimersInOrder
  <1> QED
    BY <1>2, <1>3, <1>4, <1>5

\* The part of a sorted list after the timers that are due is sorted and has
\* nothing due in it.
LEMMA ServeInv ==
    ASSUME NEW list \in Seq(Timer),
           \A i, j \in 1 .. Len(list) : i < j => list[i].left <= list[j].left,
           NEW due \in 0 .. Len(list),
           due < Len(list) => list[due + 1].left > 0,
           timers' = SubSeq(list, due + 1, Len(list))
    PROVE  ListInv'
  <1>2. /\ Len(list) \in Nat
        /\ \A i \in 1 .. Len(list) : list[i] \in Timer /\ list[i].left \in Int
    <2>1. Len(list) \in Nat /\ \A i \in 1 .. Len(list) : list[i] \in Timer
      BY LenProperties, ElementOfSeq
    <2> QED
      BY <2>1 DEF Timer
  <1>3. \A i, j \in 1 .. Len(list) : i < j => list[i].left <= list[j].left
    OBVIOUS
  <1>4. \A i \in due + 1 .. Len(list) : list[i].left > 0
    <2> SUFFICES ASSUME NEW i \in due + 1 .. Len(list) PROVE list[i].left > 0
      OBVIOUS
    <2> DEFINE d == due + 1
    <2>1. d \in 1 .. Len(list) /\ i \in 1 .. Len(list) /\ d <= i
      BY <1>2
    <2>2. list[d].left > 0 /\ list[d].left \in Int /\ list[i].left \in Int
      BY <1>2, <2>1
    <2> HIDE DEF d
    <2>3. i = d \/ list[d].left <= list[i].left
      BY <1>2, <1>3, <2>1
    <2> QED
      BY <2>2, <2>3
  <1>5. /\ timers' \in Seq(Timer)
        /\ Len(timers') = Len(list) - due
        /\ \A i \in 1 .. Len(list) - due : timers'[i] = list[due + i]
    <2> DEFINE d == due + 1
    <2>1. d \in 1 .. Len(list) + 1 /\ timers' = SubSeq(list, d, Len(list))
      BY <1>2
    <2> HIDE DEF d
    <2>2. /\ timers' \in Seq(Timer)
          /\ Len(timers') = Len(list) - d + 1
          /\ \A i \in 1 .. Len(list) - d + 1 : timers'[i] = list[d + i - 1]
      <3>1. d \in Int /\ Len(list) \in Int /\ \A i \in d .. Len(list) : list[i] \in Timer
        BY <1>2, <2>1
      <3>2. /\ SubSeq(list, d, Len(list)) \in Seq(Timer)
            /\ Len(SubSeq(list, d, Len(list)))
                 = IF d <= Len(list) THEN Len(list) - d + 1 ELSE 0
            /\ \A i \in 1 .. Len(list) - d + 1 :
                 SubSeq(list, d, Len(list))[i] = list[d + i - 1]
        BY <3>1, SubSeqProperties
      <3>3. (IF d <= Len(list) THEN Len(list) - d + 1 ELSE 0) = Len(list) - d + 1
        BY <1>2, <2>1
      <3> QED
        BY <2>1, <3>2, <3>3, Zenon
    <2> QED
      BY <1>2, <2>2 DEF d
  <1>6. \A i \in 1 .. Len(timers') : timers'[i].left >= 0
    <2> SUFFICES ASSUME NEW i \in 1 .. Len(timers') PROVE timers'[i].left >= 0
      OBVIOUS
    <2>1. due + i \in due + 1 .. Len(list) /\ timers'[i] = list[due + i]
      BY <1>2, <1>5
    <2>2. list[due + i].left > 0 /\ list[due + i].left \in Int
      BY <1>2, <1>4, <2>1
    <2> QED
      BY <2>1, <2>2
  <1>7. \A i, j \in 1 .. Len(timers') : i < j => timers'[i].left <= timers'[j].left
    <2> SUFFICES ASSUME NEW i \in 1 .. Len(timers'),
                        NEW j \in 1 .. Len(timers'), i < j
                 PROVE  timers'[i].left <= timers'[j].left
      OBVIOUS
    <2>1. /\ due + i \in 1 .. Len(list) /\ due + j \in 1 .. Len(list)
          /\ due + i < due + j
          /\ timers'[i] = list[due + i] /\ timers'[j] = list[due + j]
      BY <1>2, <1>5
    <2> QED
      BY <1>3, <2>1
  <1> QED
    <2>1. DOMAIN timers' = 1 .. Len(timers')
      BY <1>5, LenProperties
    <2> QED
      BY <1>5, <1>6, <1>7, <2>1 DEF ListInv, TimersInOrder
-----------------------------------------------------------------------------
SchedInv == ProcessorInv /\ ListInv

LEMMA InitInv == Init => SchedInv
  <1> SUFFICES ASSUME Init PROVE SchedInv
    OBVIOUS
  <1>1. 0 \in Task /\ 1 \in Task
    BY SchedAssumption DEF Task
  <1>2. ProcessorInv
    BY <1>1, SchedAssumption
       DEF Init, ProcessorInv, States, OneRunning, IdleRunnable, TicksPositive,
           PriorityOf, Idle
  <1>3. ListInv
    BY DEF Init, ListInv, TimersInOrder
  <1> QED
    BY <1>2, <1>3 DEF SchedInv

LEMMA NextInv == SchedInv /\ [Next]_vars => SchedInv'
  <1> SUFFICES ASSUME ProcessorInv, ListInv, [Next]_vars
               PROVE  ProcessorInv' /\ ListInv'
    BY DEF SchedInv
  <1>0. /\ current \in Task /\ state[current] \in States
        /\ current # Idle => current \in User
        /\ Ready(state, ticks)
    BY SchedAssumption
       DEF ProcessorInv, User, Task, Ready, OneRunning, IdleRunnable, TicksPositive
  <1>1. CASE Sleep
    <2>1. ProcessorInv'
      BY <1>1, ParkInv DEF Sleep, D!Parked
    <2>2. PICK ms \in SleepMs :
              IF ms > 0 THEN TimerAdd(current, ms) ELSE UNCHANGED timers
      BY <1>1 DEF Sleep
    <2>3. CASE ms > 0
      BY <1>0, <1>1, <2>1, <2>2, <2>3, TimerAddInv, SchedAssumption DEF Sleep
    <2>4. CASE ~(ms > 0)
      BY <2>1, <2>2, <2>4 DEF ListInv, TimersInOrder
    <2> QED
      BY <2>1, <2>3, <2>4
  <1>2. CASE BlockCall
    <2>1. ProcessorInv'
      BY <1>2, ParkInv, SchedAssumption DEF BlockCall, D!Parked
    <2> QED
      BY <1>2, <2>1 DEF BlockCall, ListInv, TimersInOrder
  <1>3. CASE Wakeup \/ Kill
    <2>1. PICK t \in User : state' = D!Unblock(state, {t})
      BY <1>3 DEF Wakeup, Kill
    <2>2. UNCHANGED <<current, ticks, timers>>
      BY <1>3 DEF Wakeup, Kill
    <2>3. ProcessorInv'
      BY <2>1, <2>2, UnblockInv
         DEF ProcessorInv, Ready, OneRunning, IdleRunnable, TicksPositive,
             D!Unblock
    <2> QED
      BY <2>2, <2>3 DEF ListInv, TimersInOrder
  <1>4. CASE Yield \/ IdleYield
    <2>1. Schedule(state, ticks) /\ UNCHANGED timers
      BY <1>4 DEF Yield, IdleYield
    <2> QED
      BY <1>0, <2>1, ScheduleInv DEF ListInv, TimersInOrder
  <1>5. CASE Tick
    <2>1. PICK due \in 0 .. Len(Advanced) :
              /\ due < Len(Advanced) => Advanced[due + 1].left > 0
              /\ Serve(due, Advanced)
      BY <1>5 DEF Tick
    <2> DEFINE s == D!Unblock(state, {Advanced[i].task : i \in 1 .. due})
    <2>2. timers' = SubSeq(Advanced, due + 1, Len(Advanced)) /\ Expire(s)
      BY <2>1 DEF Serve
    <2>3. ListInv'
      BY <2>1, <2>2, AdvancedSorted, ServeInv
    <2>4. Ready(s, ticks)
      BY UnblockInv
    <2> QED
      BY <1>0, <2>2, <2>3, <2>4, ExpireInv DEF D!Unblock, ProcessorInv
  <1>6. CASE UNCHANGED vars
    BY <1>6 DEF vars, ProcessorInv, ListInv, OneRunning, IdleRunnable,
                TicksPositive, TimersInOrder
  <1> QED
    BY <1>1, <1>2, <1>3, <1>4, <1>5, <1>6 DEF Next

LEMMA SchedInvariant == Spec => []SchedInv
  BY InitInv, NextInv, PTL DEF Spec

\* One task runs, and the idle task may always run, whichever READY task
\* task_search prefers (schedule, task.c:220-246).
THEOREM Processor == Spec => [](OneRunning /\ IdleRunnable)
  <1>1. SchedInv => OneRunning /\ IdleRunnable
    BY DEF SchedInv, ProcessorInv
  <1> QED
    BY <1>1, SchedInvariant, PTL

\* No slice is ever left at 0, so no decrement of clock_handler passes 0
\* (clock.c:57-58), for every priority.
THEOREM Slices == Spec => []TicksPositive
  <1>1. SchedInv => TicksPositive
    BY DEF SchedInv, ProcessorInv
  <1> QED
    BY <1>1, SchedInvariant, PTL

\* The timer list is sorted and holds nothing overdue, for every length of the
\* list and every argument of sleep (timer.c:35-47 and 79-97).
THEOREM TimerList == Spec => []TimersInOrder
  <1>1. SchedInv => TimersInOrder
    BY DEF SchedInv, ListInv
  <1> QED
    BY <1>1, SchedInvariant, PTL
-----------------------------------------------------------------------------
\* A set of numbers that is not empty has a least element.
LEMMA LeastNumber ==
    ASSUME NEW S \in SUBSET Nat, S # {}
    PROVE  \E x \in S : \A y \in S : x <= y
  <1>1. PICK x \in S : \A y \in S : ~(<<y, x>> \in OpToRel(<, Nat))
    BY NatLessThanWellFounded, WFMin
  <1>2. \A y \in S : ~(y < x)
    BY <1>1 DEF OpToRel
  <1> QED
    BY <1>2

\* A set with 0, and with n + 1 for each n below N it has, has all up to N.
LEMMA UpTo ==
    ASSUME NEW N \in Nat, NEW S, 0 \in S,
           \A n \in 0 .. N : n # 0 /\ n - 1 \in S => n \in S
    PROVE  0 .. N \subseteq S
  <1> SUFFICES ASSUME (0 .. N) \ S # {} PROVE FALSE
    OBVIOUS
  <1>1. (0 .. N) \ S \in SUBSET Nat
    OBVIOUS
  <1>2. PICK m \in (0 .. N) \ S : \A n \in (0 .. N) \ S : m <= n
    BY <1>1, LeastNumber
  <1>3. m # 0 /\ m - 1 \in 0 .. N /\ ~(m <= m - 1)
    BY <1>2
  <1>4. m - 1 \in S
    BY <1>2, <1>3
  <1> QED
    BY <1>3, <1>4

\* One turn of the loop of task_search over the states s: slot n - 1 is looked
\* at when the choice is u.
Turn(s, n, u) ==
    IF s[n - 1] # "READY" \/ n - 1 = current THEN u
    ELSE IF u = << >> THEN <<n - 1>>
    ELSE IF Preferred(n - 1, u[1]) THEN <<n - 1>> ELSE u

\* The choices of the loop, up to slot m.
Turns(f, s, m) ==
    f = [n \in 0 .. m |-> IF n = 0 THEN << >> ELSE Turn(s, n, f[n - 1])]

\* The loop ends: its choices are a function of the slots.
LEMMA TurnsExist ==
    ASSUME NEW s
    PROVE  \E f : Turns(f, s, NTask)
  <1> DEFINE S == {m \in Nat : \E f : Turns(f, s, m)}
  <1>1. 0 \in S
    <2>1. Turns([n \in 0 .. 0 |-> << >>], s, 0)
      BY DEF Turns
    <2> QED
      BY <2>1
  <1>2. ASSUME NEW m \in 0 .. NTask, m # 0, m - 1 \in S
        PROVE  m \in S
    <2>1. PICK f : Turns(f, s, m - 1)
      BY <1>2
    <2> DEFINE g == [n \in 0 .. m |-> IF n = m THEN Turn(s, m, f[m - 1]) ELSE f[n]]
    <2>2. /\ m \in Nat /\ m - 1 \in 0 .. m /\ m - 1 # m
          /\ \A n \in 0 .. m : n # m => n \in 0 .. m - 1
          /\ \A n \in 0 .. m : n # 0 => n - 1 \in 0 .. m /\ n - 1 # m
      BY <1>2, SchedAssumption
    <2>3. ASSUME NEW n \in 0 .. m
          PROVE  g[n] = IF n = 0 THEN << >> ELSE Turn(s, n, g[n - 1])
      <3>1. CASE n = m
        <4>1. n # 0 /\ g[n] = Turn(s, n, f[n - 1]) /\ g[n - 1] = f[n - 1]
          BY <1>2, <2>2, <3>1
        <4> QED
          BY <4>1
      <3>2. CASE n # m
        <4>1. g[n] = f[n] /\ n \in 0 .. m - 1
          BY <2>2, <3>2
        <4>2. f[n] = IF n = 0 THEN << >> ELSE Turn(s, n, f[n - 1])
          BY <2>1, <4>1 DEF Turns
        <4>3. n # 0 => g[n - 1] = f[n - 1]
          BY <2>2
        <4> QED
          BY <4>1, <4>2, <4>3
      <3> QED
        BY <3>1, <3>2
    <2>4. Turns(g, s, m)
      <3> HIDE DEF g
      <3>1. g = [n \in 0 .. m |-> g[n]]
        BY DEF g
      <3> QED
        BY <2>3, <3>1 DEF Turns
    <2> QED
      BY <2>2, <2>4
  <1> HIDE DEF S
  <1>3. NTask \in Nat /\ NTask \in 0 .. NTask
    BY SchedAssumption
  <1>4. 0 .. NTask \subseteq S
    BY <1>1, <1>2, <1>3, UpTo
  <1> QED
    BY <1>3, <1>4 DEF S

\* task_search returns a READY task other than the running one when there is
\* any, and else the idle task, whatever it prefers (task.c:93-125).
LEMMA SearchFinds ==
    ASSUME NEW s
    PROVE  Search(s) \in D!Candidates(s)
  <1> DEFINE after == CHOOSE f : Turns(f, s, NTask)
             ready == {t \in Task \ {current} : s[t] = "READY"}
  <1>1. Search(s) = IF after[NTask] = << >> THEN Idle ELSE after[NTask][1]
    BY DEF Search, Turns, Turn
  <1>2. Turns(after, s, NTask)
    BY TurnsExist
  <1> HIDE DEF after
  <1> DEFINE Right(n) ==
        \/ after[n] = << >> /\ \A t \in ready : ~(t < n)
        \/ \E t \in ready : after[n] = <<t>>
             S == {n \in 0 .. NTask : Right(n)}
  <1>3. NTask \in Nat /\ NTask \in 0 .. NTask /\ 0 \in 0 .. NTask
    BY SchedAssumption
  <1>4. 0 \in S
    <2>1. after[0] = << >>
      BY <1>2, <1>3 DEF Turns
    <2>2. \A t \in ready : ~(t < 0)
      BY <1>3 DEF Task
    <2> QED
      BY <1>3, <2>1, <2>2
  <1>5. ASSUME NEW n \in 0 .. NTask, n # 0, n - 1 \in S
        PROVE  n \in S
    <2>1. after[n] = Turn(s, n, after[n - 1])
      BY <1>2, <1>5 DEF Turns
    <2>2. n - 1 \in Task /\ Right(n - 1)
      BY <1>3, <1>5 DEF Task
    <2>3. \A t \in Task : t < n <=> t < n - 1 \/ t = n - 1
      BY <1>3 DEF Task
    <2>4. CASE n - 1 \notin ready
      <3>1. after[n] = after[n - 1]
        BY <2>1, <2>2, <2>4 DEF Turn
      <3> QED
        BY <2>2, <2>3, <2>4, <3>1
    <2>5. CASE n - 1 \in ready
      <3>1. after[n] \in {<<n - 1>>, after[n - 1]}
        BY <2>1 DEF Turn
      <3>2. after[n] = <<n - 1>> \/ after[n - 1] # << >>
        BY <2>1, <2>5 DEF Turn
      <3> QED
        BY <2>2, <2>5, <3>1, <3>2
    <2> QED
      BY <2>4, <2>5
  <1>6. Right(NTask)
    <2> HIDE DEF Right
    <2>1. 0 .. NTask \subseteq S
      <3> HIDE DEF S
      <3> QED
        BY <1>3, <1>4, <1>5, UpTo
    <2> QED
      BY <1>3, <2>1
  <1>7. CASE \E t \in ready : after[NTask] = <<t>>
    <2>1. PICK t \in ready : after[NTask] = <<t>>
      BY <1>7
    <2> QED
      BY <1>1, <2>1 DEF D!Candidates
  <1>8. CASE after[NTask] = << >> /\ \A t \in ready : ~(t < NTask)
    <2>1. ready = {}
      BY <1>3, <1>8 DEF Task
    <2> QED
      BY <1>1, <1>8, <2>1 DEF D!Candidates
  <1> QED
    BY <1>6, <1>7, <1>8
-----------------------------------------------------------------------------
\* A switch of the scheduler is a switch of the abstract processor.
LEMMA ScheduleMaps ==
    ASSUME NEW s, NEW k, Schedule(s, k)
    PROVE  D!Schedule(s)
  <1>1. /\ current' = Search(s)
        /\ state' = [t \in Task |->
                        IF t = Search(s) THEN "RUNNING"
                        ELSE IF t = current /\ s[t] = "RUNNING" THEN "READY"
                        ELSE s[t]]
    BY DEF Schedule
  <1> QED
    BY <1>1, SearchFinds DEF D!Schedule

\* A step of the scheduler wakes tasks, gives up the processor or parks the
\* running task, or it changes no state at all.
LEMMA StepMaps ==
    ASSUME SchedInv, [Next]_vars
    PROVE  [D!DispatchNext]_(D!dispatchVars)
  <1> USE DEF D!DispatchNext
  <1>1. CASE Sleep \/ BlockCall
    <2>1. PICK how \in D!Parked : Schedule([state EXCEPT ![current] = how], ticks)
      BY <1>1, SchedAssumption DEF Sleep, BlockCall, D!Parked
    <2>2. current # Idle
      BY <1>1 DEF Sleep, BlockCall
    <2> QED
      BY <2>1, <2>2, ScheduleMaps DEF D!Park, D!Block
  <1>2. CASE Wakeup \/ Kill
    <2>1. PICK t \in User : state' = D!Unblock(state, {t}) /\ current' = current
      BY <1>2 DEF Wakeup, Kill
    <2>2. {t} \in SUBSET (Task \ {Idle})
      BY DEF User
    <2> QED
      BY <2>1, <2>2 DEF D!Wake
  <1>3. CASE Yield \/ IdleYield
    <2>1. D!Schedule(state)
      BY <1>3, ScheduleMaps DEF Yield, IdleYield
    <2>2. D!Unblock(state, {}) = state
      BY DEF D!Unblock, SchedInv, ProcessorInv
    <2> QED
      BY <2>1, <2>2 DEF D!Switch
  <1>4. CASE Tick
    <2>1. PICK due \in 0 .. Len(Advanced) : Serve(due, Advanced)
      BY <1>4 DEF Tick
    <2> DEFINE W == {Advanced[i].task : i \in 1 .. due}
    <2>2. W \in SUBSET (Task \ {Idle})
      <3>1. Advanced \in Seq(Timer)
        BY AdvancedSorted DEF SchedInv
      <3>2. \A i \in 1 .. due : Advanced[i] \in Timer
        BY <3>1, LenProperties, ElementOfSeq
      <3> QED
        BY <3>2 DEF Timer, User
    <2>3. Expire(D!Unblock(state, W))
      BY <2>1 DEF Serve
    <2> HIDE DEF W
    <2>4. \/ D!Schedule(D!Unblock(state, W))
          \/ state' = D!Unblock(state, W) /\ current' = current
      BY <2>3, ScheduleMaps DEF Expire
    <2> QED
      BY <2>2, <2>4 DEF D!Switch, D!Wake
  <1>5. CASE UNCHANGED vars
    BY <1>5 DEF vars, D!dispatchVars
  <1> QED
    BY <1>1, <1>2, <1>3, <1>4, <1>5 DEF Next

\* Sched implements Dispatch: what every module over Dispatch is told of the
\* processor is what task_search, schedule() and the clock do, for any number
\* of tasks, any priority and any timers (task.c:93-125 and 220-246,
\* clock.c:44-63).
THEOREM Refinement == Spec => ImplementsDispatch
  <1>1. Init => D!DispatchInit
    BY SchedAssumption DEF Init, D!DispatchInit, Task, Idle
  <1>2. SchedInv /\ [Next]_vars => [D!DispatchNext]_(D!dispatchVars)
    BY StepMaps
  <1> QED
    BY <1>1, <1>2, SchedInvariant, PTL
       DEF Spec, ImplementsDispatch, D!DispatchSpec
=============================================================================
