-------------------------- MODULE Dispatch_proofs --------------------------
(***************************************************************************)
(* What one switch of the processor does, for every set of tasks, and the  *)
(* safety of the abstract processor.                                       *)
(***************************************************************************)
EXTENDS Dispatch, TLAPS

\* The running task is runnable: it has not blocked, though a stale timer may
\* have made it READY while it runs (task_unblock, task.c:171-185).
CurrentRunnable == state[current] \in {"RUNNING", "READY"}

\* schedule() dispatches a task that was READY, or the idle task, and changes
\* the state of no task but that one and the one it takes the processor from,
\* when this one was RUNNING (task.c:220-246).
LEMMA ScheduleEffect ==
    ASSUME NEW S, {"RUNNING", "READY"} \subseteq S,
           NEW s \in [Task -> S],
           current \in Task, Schedule(s)
    PROVE  /\ current' \in Task
           /\ state' \in [Task -> S]
           /\ state'[current'] = "RUNNING"
           /\ current' = Idle \/ (current' # current /\ s[current'] = "READY")
           /\ \A t \in Task : t # current' =>
                state'[t] = IF t = current /\ s[t] = "RUNNING" THEN "READY"
                            ELSE s[t]
  <1>1. PICK next \in Candidates(s) :
            /\ current' = next
            /\ state' = [t \in Task |->
                            IF t = next THEN "RUNNING"
                            ELSE IF t = current /\ s[t] = "RUNNING" THEN "READY"
                            ELSE s[t]]
    BY DEF Schedule
  <1>2. next = Idle \/ (next \in Task /\ next # current /\ s[next] = "READY")
    BY DEF Candidates
  <1>3. next \in Task
    BY <1>2, DispatchAssumption
  <1> QED
    BY <1>1, <1>2, <1>3

-----------------------------------------------------------------------------
\* The inductive invariant of the processor.
DispatchInv ==
    /\ DispatchTypeOK
    /\ OneRunning
    /\ IdleRunnable
    /\ CurrentRunnable

\* The states of the tasks when schedule() may be called: the running task may
\* just have been parked, and others made READY.
Schedulable(s) ==
    /\ s \in [Task -> Parked \cup {"RUNNING", "READY"}]
    /\ \A t \in Task : s[t] = "RUNNING" => t = current
    /\ s[Idle] \notin Parked

\* schedule() establishes the invariant whatever the running task did to the
\* states before the call.
LEMMA ScheduleSafe ==
    ASSUME current \in Task, NEW s, Schedulable(s), Schedule(s)
    PROVE  DispatchInv'
  <1> DEFINE S == Parked \cup {"RUNNING", "READY"}
  <1>1. /\ current' \in Task
        /\ state' \in [Task -> S]
        /\ state'[current'] = "RUNNING"
        /\ current' = Idle \/ (current' # current /\ s[current'] = "READY")
        /\ \A t \in Task : t # current' =>
             state'[t] = IF t = current /\ s[t] = "RUNNING" THEN "READY"
                         ELSE s[t]
    BY ScheduleEffect DEF Schedulable
  <1>2. DispatchTypeOK'
    BY <1>1 DEF DispatchTypeOK
  <1>3. OneRunning'
    BY <1>1 DEF OneRunning, Schedulable
  <1>4. IdleRunnable'
    BY <1>1, DispatchAssumption DEF IdleRunnable, Schedulable, Parked
  <1> QED
    BY <1>1, <1>2, <1>3, <1>4 DEF DispatchInv, CurrentRunnable

\* A switch parks nobody and unparks nobody: whatever task_search chooses, the
\* tasks on the kernel's lists are those that were on them.
LEMMA ScheduleParks ==
    ASSUME current \in Task, NEW s, Schedulable(s), Schedule(s),
           NEW how \in Parked
    PROVE  \A t \in Task : state'[t] = how <=> s[t] = how
  <1>1. /\ current' \in Task
        /\ state'[current'] = "RUNNING"
        /\ current' = Idle \/ s[current'] = "READY"
        /\ \A t \in Task : t # current' =>
             state'[t] = IF t = current /\ s[t] = "RUNNING" THEN "READY"
                         ELSE s[t]
    BY ScheduleEffect DEF Schedulable
  <1> SUFFICES ASSUME NEW t \in Task
               PROVE  state'[t] = how <=> s[t] = how
    OBVIOUS
  <1>2. CASE t = current'
    BY <1>1, <1>2 DEF Schedulable, Parked
  <1>3. CASE t # current'
    BY <1>1, <1>3 DEF Parked
  <1> QED
    BY <1>2, <1>3

\* task_unblock keeps the states schedulable.
LEMMA UnblockSchedulable ==
    ASSUME DispatchInv, NEW W \in SUBSET Task
    PROVE  Schedulable(Unblock(state, W))
  BY DispatchAssumption
     DEF DispatchInv, DispatchTypeOK, OneRunning, IdleRunnable, Schedulable,
         Unblock, Parked

\* So does parking the running task, if it is not the idle one.
LEMMA BlockSchedulable ==
    ASSUME DispatchInv, current # Idle, NEW how \in Parked
    PROVE  Schedulable([state EXCEPT ![current] = how])
  BY DispatchAssumption
     DEF DispatchInv, DispatchTypeOK, OneRunning, IdleRunnable, Schedulable,
         Parked

\* A wake-up without a switch keeps the invariant.
LEMMA UnblockSafe ==
    ASSUME DispatchInv, NEW W \in SUBSET Task,
           state' = Unblock(state, W), current' = current
    PROVE  DispatchInv'
  BY DispatchAssumption
     DEF DispatchInv, DispatchTypeOK, OneRunning, IdleRunnable,
         CurrentRunnable, Unblock, Parked

\* At most one task runs, the running task is runnable and the idle task is
\* never parked, for every number of tasks (schedule, task.c:220-246).
THEOREM DispatchSafety == DispatchSpec => [](OneRunning /\ IdleRunnable)
  <1>1. DispatchInit => DispatchInv
    BY DispatchAssumption
       DEF DispatchInit, DispatchInv, DispatchTypeOK, OneRunning, IdleRunnable,
           CurrentRunnable, Parked
  <1>2. DispatchInv /\ [DispatchNext]_dispatchVars => DispatchInv'
    <2> SUFFICES ASSUME DispatchInv, [DispatchNext]_dispatchVars
                 PROVE  DispatchInv'
      OBVIOUS
    <2>0. current \in Task
      BY DEF DispatchInv, DispatchTypeOK
    <2>1. CASE Wake
      BY <2>1, UnblockSafe DEF Wake
    <2>2. CASE Switch
      BY <2>0, <2>2, UnblockSchedulable, ScheduleSafe DEF Switch
    <2>3. CASE Park
      BY <2>0, <2>3, BlockSchedulable, ScheduleSafe DEF Park, Block
    <2>4. CASE UNCHANGED dispatchVars
      BY <2>4 DEF dispatchVars, DispatchInv, DispatchTypeOK, OneRunning,
                  IdleRunnable, CurrentRunnable
    <2> QED
      BY <2>1, <2>2, <2>3, <2>4 DEF DispatchNext
  <1>3. DispatchInv => OneRunning /\ IdleRunnable
    BY DEF DispatchInv
  <1> QED
    BY <1>1, <1>2, <1>3, PTL DEF DispatchSpec
=============================================================================
