------------------------------ MODULE Dispatch ------------------------------
(***************************************************************************)
(* The processor of neonix as the rest of the kernel sees it: which task   *)
(* runs, which tasks are runnable and which are parked on a list.          *)
(*                                                                         *)
(* The kernel runs with interrupts disabled, so it is preempted nowhere    *)
(* but in the functions modelled here, and the modules of the components   *)
(* that block (Lock, Pipe, ...) are written over this one.  The choice     *)
(* task_search makes among the READY tasks is left open; module Sched has  *)
(* the real one and is checked to implement this specification.            *)
(***************************************************************************)
EXTENDS Naturals

CONSTANTS Task,   (* the tasks of task_table                               *)
          Idle    (* idle_task, what task_search falls back on             *)

ASSUME DispatchAssumption == Idle \in Task

VARIABLES state,    (* task->state of every task                           *)
          current   (* running_task(): the task whose stack is in use      *)

dispatchVars == <<state, current>>

\* The states task_block may park a task in.
Parked == {"BLOCKED", "SLEEPING", "WAITING"}

DispatchTypeOK ==
    /\ state \in [Task -> Parked \cup {"RUNNING", "READY"}]
    /\ current \in Task
-----------------------------------------------------------------------------
\* task_unblock sets a task READY whatever its state was, the running task's
\* own state included.
Unblock(s, W) == [t \in Task |-> IF t \in W THEN "READY" ELSE s[t]]

\* What task_search may return when the states are s.
Candidates(s) ==
    LET ready == {t \in Task \ {current} : s[t] = "READY"}
    IN  IF ready = {} THEN {Idle} ELSE ready

\* schedule(), called when the states are s.
Schedule(s) ==
    \E next \in Candidates(s) :
        /\ current' = next
        /\ state' = [t \in Task |->
                        IF t = next THEN "RUNNING"
                        ELSE IF t = current /\ s[t] = "RUNNING" THEN "READY"
                        ELSE s[t]]

\* task_block of the running task.
Block(how) == Schedule([state EXCEPT ![current] = how])
-----------------------------------------------------------------------------
DispatchInit ==
    /\ current \in Task \ {Idle}
    /\ state = [t \in Task |-> IF t = current THEN "RUNNING" ELSE "READY"]

\* A wake-up by the running task or by the interrupt it handles.
Wake == \E W \in SUBSET (Task \ {Idle}) :
            /\ state' = Unblock(state, W)
            /\ UNCHANGED current

\* The processor is given up: by task_yield, by a clock interrupt that ends
\* the slice, or by mutex_unlock, all of which may have woken tasks before.
Switch == \E W \in SUBSET (Task \ {Idle}) : Schedule(Unblock(state, W))

Park == current # Idle /\ \E how \in Parked : Block(how)

DispatchNext == Wake \/ Switch \/ Park

DispatchSpec == DispatchInit /\ [][DispatchNext]_dispatchVars
-----------------------------------------------------------------------------
\* At most one task is RUNNING and it is the one whose stack is in use: two
\* RUNNING tasks would both be outside the reach of task_search for ever.
\* (schedule, task.c:220-246.)
OneRunning == \A t \in Task : state[t] = "RUNNING" => t = current

\* schedule always has a task to dispatch: the idle task is never parked, so
\* falling back on it when nothing is READY is sound (task.c:121-124).
IdleRunnable == state[Idle] \notin Parked
=============================================================================
