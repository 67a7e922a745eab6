---------------------------- MODULE Lock_proofs ----------------------------
(***************************************************************************)
(* The safety of the reentrant lock for any number of tasks, of nested     *)
(* acquisitions and of stale timers.                                       *)
(***************************************************************************)
EXTENDS Lock, Dispatch_proofs

\* The idle thread takes no lock.
IdleInUser == pc[Idle] = "user"

\* The inductive invariant: the invariants of the runs, and what they lean on
\* of the processor.
LockInv ==
    /\ TypeOK
    /\ DispatchInv
    /\ IdleInUser
    /\ MutualExclusion
    /\ LockConsistent
    /\ WaitersBlocked
    /\ NoStrandedWaiter

LEMMA InitInv == Init => LockInv
  <1> SUFFICES ASSUME Init PROVE LockInv
    OBVIOUS
  <1> USE DispatchAssumption, LockAssumption DEF Init, DispatchInit
  <1>1. TypeOK
    <2>1. value \in BOOLEAN
      OBVIOUS
    <2>2. DispatchTypeOK
      BY DEF DispatchTypeOK, Parked
    <2>3. /\ waiters \in Seq(Task)
          /\ holder \in Task \cup {None}
          /\ repeat \in 0 .. MaxRepeat
          /\ pc \in [Task -> {"user", "wait", "yielded"} \cup Section]
      BY DEF Section
    <2> QED
      BY <2>1, <2>2, <2>3 DEF TypeOK
  <1>2. DispatchInv
    BY DEF DispatchInv, DispatchTypeOK, OneRunning, IdleRunnable,
           CurrentRunnable, Parked
  <1>3. IdleInUser /\ MutualExclusion /\ LockConsistent
    BY DEF IdleInUser, MutualExclusion, LockConsistent, Section
  <1>4. WaitersBlocked /\ NoStrandedWaiter
    BY DEF WaitersBlocked, NoStrandedWaiter, NoRepeat
  <1> QED
    BY <1>1, <1>2, <1>3, <1>4 DEF LockInv

\* The test of mutex_lock passed: nobody was in the section, and the running
\* task is in it alone.
LEMMA TakeMutexInv ==
    ASSUME LockInv, TakeMutex, current # Idle
    PROVE  LockInv'
  <1> USE DEF LockInv, TakeMutex, Goto, dispatchVars
  <1>1. TypeOK'
    BY LockAssumption DEF TypeOK, DispatchTypeOK, Section
  <1>2. DispatchInv' /\ IdleInUser'
    BY DEF DispatchInv, DispatchTypeOK, OneRunning, IdleRunnable,
           CurrentRunnable, IdleInUser, TypeOK
  <1>3. MutualExclusion' /\ LockConsistent'
    BY LockAssumption
       DEF MutualExclusion, LockConsistent, Section, TypeOK, DispatchTypeOK
  <1>4. WaitersBlocked'
    BY DEF WaitersBlocked, DispatchInv, CurrentRunnable, TypeOK, DispatchTypeOK
  <1>5. NoStrandedWaiter'
    BY DEF NoStrandedWaiter
  <1> QED
    BY <1>1, <1>2, <1>3, <1>4, <1>5

\* A task that is about to block is on no list: the assertion of list_push.
LEMMA JoinWaitersInv ==
    ASSUME LockInv, JoinWaiters, current # Idle, At("user") \/ At("wait")
    PROVE  LockInv'
  <1> DEFINE s == [state EXCEPT ![current] = "BLOCKED"]
             S == Parked \cup {"RUNNING", "READY"}
  <1> USE DEF LockInv, JoinWaiters, Goto, Block, At
  <1>0. current \in Task /\ s \in [Task -> S] /\ Schedulable(s) /\ Schedule(s)
    BY BlockSchedulable DEF DispatchInv, DispatchTypeOK, Parked
  <1>1. DispatchInv'
    BY <1>0, ScheduleSafe
  <1>2. \A t \in Task : state'[t] = "BLOCKED" <=> s[t] = "BLOCKED"
    BY <1>0, ScheduleParks DEF Parked
  <1>3. TypeOK' /\ IdleInUser'
    <2>1. value' \in BOOLEAN
      BY DEF TypeOK
    <2>2. /\ waiters' \in Seq(Task)
          /\ holder' \in Task \cup {None}
          /\ repeat' \in 0 .. MaxRepeat
      BY <1>0 DEF TypeOK
    <2>3. pc' \in [Task -> {"user", "wait", "yielded"} \cup Section] /\ IdleInUser'
      BY DispatchAssumption DEF TypeOK, IdleInUser, Section
    <2> QED
      BY <1>1, <2>1, <2>2, <2>3 DEF TypeOK, DispatchInv
  <1>4. MutualExclusion' /\ LockConsistent'
    BY <1>0 DEF MutualExclusion, LockConsistent, Section, TypeOK
  <1>5. WaitersBlocked'
    <2>1. waiters \in Seq(Task) /\ \A i \in DOMAIN waiters : waiters[i] # current
      BY <1>0 DEF WaitersBlocked, DispatchInv, CurrentRunnable, TypeOK
    <2>2. NoRepeat(waiters')
      BY <2>1 DEF NoRepeat, WaitersBlocked
    <2>3. \A t \in Task : (\E i \in DOMAIN waiters' : waiters'[i] = t)
                          <=> t = current \/ \E i \in DOMAIN waiters : waiters[i] = t
      BY <2>1, <1>0
    <2>4. \A t \in Task : (pc'[t] = "wait" /\ state'[t] = "BLOCKED")
                          <=> t = current \/ (pc[t] = "wait" /\ state[t] = "BLOCKED")
      BY <1>0, <1>2 DEF TypeOK
    <2> QED
      BY <2>2, <2>3, <2>4 DEF WaitersBlocked
  <1>6. NoStrandedWaiter'
    BY DEF NoStrandedWaiter
  <1> QED
    BY <1>1, <1>3, <1>4, <1>5, <1>6

LEMMA MutexLockInv ==
    ASSUME LockInv, MutexLock, current # Idle, At("user") \/ At("wait")
    PROVE  LockInv'
  BY TakeMutexInv, JoinWaitersInv DEF MutexLock

\* A nested acquisition or release leaves the mutex alone.
LEMMA NestedInv ==
    ASSUME LockInv, Reacquire \/ ReleaseNested
    PROVE  LockInv'
  <1>1. /\ UNCHANGED <<dispatchVars, value, waiters, holder, pc>>
        /\ At("hold")
        /\ repeat' \in 1 .. MaxRepeat
    BY LockAssumption DEF LockInv, TypeOK, Reacquire, ReleaseNested
  <1>2. current \in Task /\ holder = current /\ value
    BY <1>1, LockAssumption
       DEF LockInv, TypeOK, DispatchTypeOK, MutualExclusion, LockConsistent,
           Section, At
  <1> USE <1>1, <1>2 DEF LockInv, dispatchVars
  <1>3. TypeOK' /\ DispatchInv' /\ IdleInUser'
    BY DEF TypeOK, DispatchInv, DispatchTypeOK, OneRunning, IdleRunnable,
           CurrentRunnable, IdleInUser
  <1>4. MutualExclusion' /\ LockConsistent'
    BY DEF MutualExclusion, LockConsistent
  <1>5. WaitersBlocked' /\ NoStrandedWaiter'
    BY DEF WaitersBlocked, NoStrandedWaiter
  <1> QED
    BY <1>3, <1>4, <1>5

\* The types of what an unlock leaves behind.
LEMMA LeaveType ==
    ASSUME LockInv, current # Idle, DispatchInv', value' \in BOOLEAN,
           waiters' = waiters \/ waiters' \in Seq(Task),
           holder' = None, repeat' = 0,
           NEW place \in {"user", "yielded"}, Goto(place)
    PROVE  TypeOK' /\ IdleInUser'
  BY LockAssumption, DispatchAssumption
     DEF LockInv, TypeOK, DispatchInv, IdleInUser, Goto, Section, DispatchTypeOK

\* The section is left: nobody is in it, and a waiter that was on the list is
\* on its way to the mutex.
LEMMA ReleaseInv ==
    ASSUME LockInv, Release
    PROVE  LockInv'
  <1> USE DEF LockInv, Release, MutexUnlock, At, Goto
  <1>0. current \in Task /\ current # Idle /\ holder = current
    BY DispatchAssumption
       DEF TypeOK, DispatchTypeOK, MutualExclusion, Section, IdleInUser
  <1>1. MutualExclusion' /\ LockConsistent'
    BY <1>0 DEF MutualExclusion, LockConsistent, Section, TypeOK
  <1>2. CASE waiters = << >>
    <2>1. TypeOK' /\ DispatchInv' /\ IdleInUser'
      <3>1. DispatchInv'
        BY <1>2 DEF DispatchInv, DispatchTypeOK, OneRunning, IdleRunnable,
                    CurrentRunnable, dispatchVars
      <3>2. value' \in BOOLEAN
        OBVIOUS
      <3> QED
        BY <1>0, <1>2, <3>1, <3>2, LeaveType DEF dispatchVars
    <2>2. WaitersBlocked' /\ NoStrandedWaiter'
      BY <1>0, <1>2
         DEF WaitersBlocked, NoStrandedWaiter, TypeOK, dispatchVars
    <2> QED
      BY <1>1, <2>1, <2>2
  <1>3. CASE waiters # << >>
    <2> DEFINE w == Head(waiters)
               s == Unblock(state, {w})
    <2>1. /\ waiters \in Seq(Task) /\ w \in Task
          /\ w = waiters[1] /\ 1 \in DOMAIN waiters
          /\ pc[w] = "wait" /\ w # current
      BY <1>0, <1>3 DEF TypeOK, WaitersBlocked
    <2>2. Schedulable(s) /\ Schedule(s)
      BY <1>3, <2>1, UnblockSchedulable
    <2>3. DispatchInv'
      BY <1>0, <2>2, ScheduleSafe
    <2>4. \A t \in Task : state'[t] = "BLOCKED" <=> state[t] = "BLOCKED" /\ t # w
      <3>1. \A t \in Task : state'[t] = "BLOCKED" <=> s[t] = "BLOCKED"
        BY <1>0, <2>2, ScheduleParks DEF Parked
      <3> QED
        BY <3>1 DEF Unblock
    <2>5. TypeOK' /\ IdleInUser'
      <3>1. value' \in BOOLEAN
        OBVIOUS
      <3>2. waiters' \in Seq(Task)
        BY <1>3, <2>1
      <3> QED
        BY <1>0, <1>3, <2>3, <3>1, <3>2, LeaveType
    <2>6. WaitersBlocked'
      <3>1. waiters' = Tail(waiters)
        BY <1>3
      <3>2. NoRepeat(waiters')
        BY <2>1, <3>1 DEF NoRepeat, WaitersBlocked
      <3>3. \A t \in Task : (\E i \in DOMAIN waiters' : waiters'[i] = t)
                            <=> t # w /\ \E i \in DOMAIN waiters : waiters[i] = t
        <4> SUFFICES ASSUME NEW t \in Task
                     PROVE  (\E i \in DOMAIN waiters' : waiters'[i] = t)
                            <=> t # w /\ \E i \in DOMAIN waiters : waiters[i] = t
          OBVIOUS
        <4>1. ASSUME NEW i \in DOMAIN waiters', waiters'[i] = t
              PROVE  t # w /\ \E j \in DOMAIN waiters : waiters[j] = t
          BY <2>1, <3>1, <4>1 DEF NoRepeat, WaitersBlocked
        <4>2. ASSUME NEW i \in DOMAIN waiters, waiters[i] = t, t # w
              PROVE  \E j \in DOMAIN waiters' : waiters'[j] = t
          <5>1. i - 1 \in DOMAIN waiters' /\ waiters'[i - 1] = t
            BY <2>1, <3>1, <4>2
          <5> QED
            BY <5>1
        <4> QED
          BY <4>1, <4>2
      <3>4. \A t \in Task : (pc'[t] = "wait" /\ state'[t] = "BLOCKED")
                            <=> pc[t] = "wait" /\ state[t] = "BLOCKED" /\ t # w
        BY <1>0, <1>3, <2>4 DEF TypeOK, WaitersBlocked
      <3> QED
        BY <3>2, <3>3, <3>4 DEF WaitersBlocked
    <2>7. NoStrandedWaiter'
      BY <1>3, <2>1, <2>4 DEF NoStrandedWaiter, TypeOK
    <2> QED
      BY <1>1, <2>3, <2>5, <2>6, <2>7
  <1> QED
    BY <1>2, <1>3

\* A switch, with no change to the lock: of a task that blocks for a device in
\* the section, or of one that loses the processor.
LEMMA SwitchInv ==
    ASSUME LockInv, BlockInSection \/ Preempt
    PROVE  LockInv'
  <1> DEFINE s == IF At("hold") THEN [state EXCEPT ![current] = "BLOCKED"]
                  ELSE state
  <1> USE DEF LockInv
  <1>1. /\ current \in Task
        /\ UNCHANGED lockVars
        /\ At("hold") => current # Idle /\ pc' = [pc EXCEPT ![current] = "io"]
        /\ ~At("hold") => At("user") /\ UNCHANGED pc
        /\ Schedule(s)
    BY DEF BlockInSection, Preempt, Block, At, Goto, IdleInUser, TypeOK,
           DispatchTypeOK
  <1>2. Schedulable(s)
    <2>1. CASE At("hold")
      BY <1>1, <2>1, BlockSchedulable DEF Parked
    <2>2. CASE ~At("hold")
      BY <2>2 DEF DispatchInv, DispatchTypeOK, OneRunning, IdleRunnable, Schedulable
    <2> QED
      BY <2>1, <2>2
  <1>3. DispatchInv'
    BY <1>1, <1>2, ScheduleSafe
  <1>4. \A t \in Task : state'[t] = "BLOCKED" <=> s[t] = "BLOCKED"
    BY <1>1, <1>2, ScheduleParks DEF Parked
  <1>5. \A t \in Task : /\ pc'[t] \in Section <=> pc[t] \in Section
                        /\ pc'[t] = "wait" <=> pc[t] = "wait"
    BY <1>1 DEF TypeOK, At, Section
  <1>6. TypeOK' /\ IdleInUser'
    BY <1>1, <1>3, DispatchAssumption
       DEF TypeOK, DispatchInv, IdleInUser, Section, lockVars
  <1>7. MutualExclusion' /\ LockConsistent'
    BY <1>1, <1>5 DEF MutualExclusion, LockConsistent, lockVars
  <1>8. \A t \in Task : (pc'[t] = "wait" /\ state'[t] = "BLOCKED")
                        <=> pc[t] = "wait" /\ state[t] = "BLOCKED"
    BY <1>1, <1>4, <1>5 DEF At, TypeOK, DispatchTypeOK
  <1>9. WaitersBlocked' /\ NoStrandedWaiter'
    BY <1>1, <1>5, <1>8 DEF WaitersBlocked, NoStrandedWaiter, lockVars
  <1> QED
    BY <1>3, <1>6, <1>7, <1>9
\* Two ends of a call: the lock is as the task left it before it was switched.
LEMMA ResumeInv ==
    ASSUME LockInv, FinishUnlock \/ ResumeInSection
    PROVE  LockInv'
  <1> USE DEF LockInv, FinishUnlock, ResumeInSection, At, Goto
  <1>1. UNCHANGED <<dispatchVars, lockVars>>
    OBVIOUS
  <1>2. \A t \in Task : /\ pc'[t] \in Section <=> pc[t] \in Section
                        /\ pc'[t] = "wait" <=> pc[t] = "wait"
    BY DEF TypeOK, DispatchTypeOK, Section
  <1>3. DispatchInv'
    BY <1>1 DEF DispatchInv, DispatchTypeOK, OneRunning, IdleRunnable,
                CurrentRunnable, dispatchVars
  <1>4. TypeOK' /\ IdleInUser'
    BY <1>1, DispatchAssumption
       DEF TypeOK, DispatchTypeOK, IdleInUser, Section, lockVars, dispatchVars
  <1>5. MutualExclusion' /\ LockConsistent'
    BY <1>1, <1>2 DEF MutualExclusion, LockConsistent, lockVars
  <1>6. WaitersBlocked' /\ NoStrandedWaiter'
    BY <1>1, <1>2
       DEF WaitersBlocked, NoStrandedWaiter, lockVars, dispatchVars
  <1> QED
    BY <1>3, <1>4, <1>5, <1>6

\* A task that comes back from a device was on no list of the lock.
LEMMA DeviceInterruptInv ==
    ASSUME LockInv, DeviceInterrupt
    PROVE  LockInv'
  <1> USE DEF LockInv
  <1>1. PICK w \in Task : /\ pc[w] = "io"
                          /\ state' = Unblock(state, {w})
    BY DEF DeviceInterrupt
  <1>2. UNCHANGED <<current, lockVars, pc>>
    BY DEF DeviceInterrupt
  <1>3. DispatchInv'
    BY <1>1, <1>2, UnblockSafe
  <1>4. TypeOK' /\ IdleInUser'
    BY <1>2, <1>3 DEF TypeOK, DispatchInv, IdleInUser, lockVars
  <1>5. MutualExclusion' /\ LockConsistent'
    BY <1>2 DEF MutualExclusion, LockConsistent, lockVars
  <1>6. \A t \in Task : (pc'[t] = "wait" /\ state'[t] = "BLOCKED")
                        <=> pc[t] = "wait" /\ state[t] = "BLOCKED"
    BY <1>1, <1>2 DEF Unblock
  <1>7. WaitersBlocked' /\ NoStrandedWaiter'
    BY <1>2, <1>6 DEF WaitersBlocked, NoStrandedWaiter, lockVars
  <1> QED
    BY <1>3, <1>4, <1>5, <1>7

\* A waiter woken out of turn leaves the list, and no other waiter moves.
LEMMA StaleTimeoutInv ==
    ASSUME LockInv, StaleTimeout
    PROVE  LockInv'
  <1> USE DEF LockInv
  <1>1. PICK w \in Stale :
            /\ state' = Unblock(state, {w})
            /\ \/ \E i \in DOMAIN waiters :
                    waiters[i] = w /\ waiters' = Unlink(waiters, i)
               \/ (\A i \in DOMAIN waiters : waiters[i] # w) /\ UNCHANGED waiters
    BY DEF StaleTimeout
  <1>2. UNCHANGED <<current, value, holder, repeat, pc>>
    BY DEF StaleTimeout
  <1>3. w \in Task /\ waiters \in Seq(Task)
    BY LockAssumption DEF TypeOK
  <1>4. DispatchInv'
    BY <1>1, <1>2, <1>3, UnblockSafe
  <1>5. MutualExclusion' /\ LockConsistent'
    BY <1>2 DEF MutualExclusion, LockConsistent
  <1>6. /\ waiters' \in Seq(Task)
        /\ NoRepeat(waiters')
        /\ \A t \in Task : (\E i \in DOMAIN waiters' : waiters'[i] = t)
                           <=> t # w /\ \E i \in DOMAIN waiters : waiters[i] = t
    <2>1. CASE waiters' = waiters /\ \A i \in DOMAIN waiters : waiters[i] # w
      BY <1>3, <2>1 DEF WaitersBlocked
    <2>2. CASE \E i \in DOMAIN waiters :
                  waiters[i] = w /\ waiters' = Unlink(waiters, i)
      <3>1. PICK i \in DOMAIN waiters :
                waiters[i] = w /\ waiters' = Unlink(waiters, i)
        BY <2>2
      <3>2. /\ Len(waiters) \in Nat /\ DOMAIN waiters = 1 .. Len(waiters)
            /\ i \in 1 .. Len(waiters)
            /\ NoRepeat(waiters)
        BY <1>3, <3>1 DEF WaitersBlocked
      <3>3. waiters' = [j \in 1 .. Len(waiters) - 1 |->
                           IF j < i THEN waiters[j] ELSE waiters[j + 1]]
        BY <3>1 DEF Unlink
      <3>4. waiters' \in Seq(Task) /\ Len(waiters') = Len(waiters) - 1
        BY <1>3, <3>2, <3>3
      <3>5. NoRepeat(waiters')
        BY <3>2, <3>3 DEF NoRepeat
      <3>6. ASSUME NEW j \in DOMAIN waiters'
            PROVE  waiters'[j] # w /\ \E k \in DOMAIN waiters : waiters[k] = waiters'[j]
        BY <3>1, <3>2, <3>3 DEF NoRepeat
      <3>7. ASSUME NEW k \in DOMAIN waiters, waiters[k] # w
            PROVE  \E j \in DOMAIN waiters' : waiters'[j] = waiters[k]
        <4>1. CASE k < i
          BY <3>2, <3>3, <4>1
        <4>2. CASE k > i
          <5>1. k - 1 \in DOMAIN waiters' /\ waiters'[k - 1] = waiters[k]
            BY <3>2, <3>3, <4>2
          <5> QED
            BY <5>1
        <4> QED
          BY <3>1, <3>2, <3>7, <4>1, <4>2
      <3> QED
        BY <3>4, <3>5, <3>6, <3>7
    <2> QED
      BY <1>1, <2>1, <2>2
  <1>7. \A t \in Task : (pc'[t] = "wait" /\ state'[t] = "BLOCKED")
                        <=> pc[t] = "wait" /\ state[t] = "BLOCKED" /\ t # w
    BY <1>1, <1>2, <1>3 DEF Unblock
  <1>8. TypeOK' /\ IdleInUser'
    BY <1>2, <1>4, <1>6 DEF TypeOK, DispatchInv, IdleInUser
  <1>9. WaitersBlocked'
    BY <1>6, <1>7 DEF WaitersBlocked
  <1>10. NoStrandedWaiter'
    <2> SUFFICES ASSUME waiters' # << >>, ~value
                 PROVE  \E t \in Task : pc'[t] = "wait" /\ state'[t] # "BLOCKED"
      BY <1>2 DEF NoStrandedWaiter
    <2>1. waiters # << >>
      BY <1>1, <1>3 DEF Unlink
    <2>2. PICK t \in Task : pc[t] = "wait" /\ state[t] # "BLOCKED"
      BY <2>1 DEF NoStrandedWaiter
    <2> QED
      BY <1>1, <1>2, <2>2 DEF Unblock
  <1> QED
    BY <1>4, <1>5, <1>8, <1>9, <1>10
-----------------------------------------------------------------------------
LEMMA NextInv == LockInv /\ [Next]_vars => LockInv'
  <1> SUFFICES ASSUME LockInv, [Next]_vars PROVE LockInv'
    OBVIOUS
  <1>1. CASE Acquire
    BY <1>1, MutexLockInv DEF Acquire
  <1>2. CASE ResumeWaiter
    BY <1>2, MutexLockInv DEF ResumeWaiter, LockInv, IdleInUser, At
  <1>3. CASE Reacquire \/ ReleaseNested
    BY <1>3, NestedInv
  <1>4. CASE Release
    BY <1>4, ReleaseInv
  <1>5. CASE FinishUnlock \/ ResumeInSection
    BY <1>5, ResumeInv
  <1>6. CASE BlockInSection \/ Preempt
    BY <1>6, SwitchInv
  <1>7. CASE DeviceInterrupt
    BY <1>7, DeviceInterruptInv
  <1>8. CASE StaleTimeout
    BY <1>8, StaleTimeoutInv
  <1>9. CASE UNCHANGED vars
    BY <1>9
       DEF vars, dispatchVars, lockVars, LockInv, TypeOK, DispatchInv,
           DispatchTypeOK, OneRunning, IdleRunnable, CurrentRunnable,
           IdleInUser, MutualExclusion, LockConsistent, WaitersBlocked,
           NoStrandedWaiter
  <1> QED
    BY <1>1, <1>2, <1>3, <1>4, <1>5, <1>6, <1>7, <1>8, <1>9 DEF Next

LEMMA LockInvariant == Spec => []LockInv
  BY InitInv, NextInv, PTL DEF Spec

\* The fields of the lock keep their types: the nesting count in particular
\* never goes below 0 (lock_release, mutex.c:91-106).
THEOREM LockType == Spec => []TypeOK
  BY LockInvariant, PTL DEF LockInv

\* At most one task is in the section, a task blocked there included
\* (mutex_lock, mutex.c:15-37).
THEOREM Exclusion == Spec => []MutualExclusion
  BY LockInvariant, PTL DEF LockInv

\* Value, holder and count agree, as the assertions of mutex.c:29, 46, 81, 94
\* and 101 say.
THEOREM Consistency == Spec => []LockConsistent
  BY LockInvariant, PTL DEF LockInv

\* A task is on the waiters exactly while it is blocked in mutex_lock, and at
\* most once, so no assertion on a list fails (task.c:143-144).
THEOREM Waiters == Spec => []WaitersBlocked
  BY LockInvariant, PTL DEF LockInv

\* No wake-up is lost, though mutex_unlock wakes one waiter only and another
\* task may take the mutex before it (mutex.c:53-60).
THEOREM NoLostWakeup == Spec => []NoStrandedWaiter
  BY LockInvariant, PTL DEF LockInv
=============================================================================
