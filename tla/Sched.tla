-------------------------------- MODULE Sched --------------------------------
(***************************************************************************)
(* The scheduler of task.c with the clock interrupt and the timer list     *)
(* that drive it: task_search, schedule, task_block, task_unblock,         *)
(* task_sleep, task_yield, clock_handler, timer_add, timer_wakeup and the  *)
(* idle thread, for a fixed set of tasks.                                  *)
(*                                                                         *)
(* The code compares points in time and never uses their absolute values,  *)
(* so time is relative here: a timer keeps the number of clock interrupts  *)
(* left before it expires (timer->expires - jiffies), and task->jiffies is *)
(* the place of the task in the order the clock last found the tasks       *)
(* running.  Wrap-around of jiffies is outside this model.                 *)
(***************************************************************************)
EXTENDS Integers, Sequences, FiniteSets, SequencesExt

CONSTANTS NTask,      (* the tasks are the table slots 0..NTask-1; 0 is idle *)
          Priority,   (* task->priority of a task that is not idle           *)
          SleepMs,    (* the arguments of sleep() to explore                 *)
          Calls,      (* the blocking calls tasks make in user mode, among
                         "yield", "sleep", "block", "wakeup", "kill"         *)
          BlockStates,(* the states "block" parks a task in: "BLOCKED" in a
                         device, lock or pipe, "WAITING" in waitpid          *)
          MaxTimers   (* bound of the model: length of the timer list        *)

ASSUME SchedAssumption ==
    /\ NTask \in Nat /\ NTask > 1
    /\ Priority \in Nat \ {0}
    /\ SleepMs \subseteq Nat
    /\ BlockStates \subseteq {"BLOCKED", "WAITING"}
    /\ MaxTimers \in Nat

Task == 0 .. NTask - 1
Idle == 0
User == Task \ {Idle}
JIFFY == 10   \* milliseconds between two clock interrupts (clock.c:13-16)

VARIABLES state, current,
          ticks,     (* task->ticks: what is left of a task's slice          *)
          ran,       (* the tasks the clock has found running, the last one
                        at the end: their order by task->jiffies             *)
          timers     (* timer_list: records of a task and the interrupts left*)

vars == <<state, current, ticks, ran, timers>>

D == INSTANCE Dispatch

TypeOK ==
    /\ D!DispatchTypeOK
    /\ ticks \in [Task -> 1 .. Priority]     \* see TicksPositive
    /\ ran \in Seq(Task)
    /\ timers \in Seq([task : User, left : Int])

\* The order of task->jiffies; a task the clock never found running has 0.
RanBefore(t, u) ==
    \E i \in DOMAIN ran : ran[i] = u /\ \A j \in i .. Len(ran) : ran[j] # t

PriorityOf(t) == IF t = Idle THEN 1 ELSE Priority
-----------------------------------------------------------------------------
Init ==
    /\ current = 1
    /\ state = [t \in Task |-> IF t = current THEN "RUNNING" ELSE "READY"]
    /\ ticks = [t \in Task |-> PriorityOf(t)]
    /\ ran = << >>
    /\ timers = << >>

\* Mutant: the test on jiffies is missing.
Preferred_TicksOnly(t, u) == ticks[u] < ticks[t]

\* task_search replaces its choice u by a later READY task t.
Preferred(t, u) == ticks[u] < ticks[t] \/ RanBefore(t, u)

\* Mutant: the states are not looked at.
Search_AnyState(s) ==
    LET others == Task \ {current}
    IN  CHOOSE t \in others : \A u \in others : ticks[u] <= ticks[t]

\* task_search(TASK_READY): the loop over the table keeps one choice and
\* never looks back; Idle stands for no choice too, since it is what an
\* empty search returns.
Search(s) ==
    LET after[n \in 0 .. NTask] ==   \* the choice once n slots are seen
            IF n = 0 THEN << >>
            ELSE LET t == n - 1
                     u == after[n - 1]
                 IN  IF s[t] # "READY" \/ t = current THEN u
                     ELSE IF u = << >> THEN <<t>>
                     ELSE IF Preferred(t, u[1]) THEN <<t>> ELSE u
    IN  IF after[NTask] = << >> THEN Idle ELSE after[NTask][1]

\* Mutant: the slice is refilled only for a task that is switched away from.
Schedule_LateRefill(s, k) ==
    \E next \in Task :
        /\ next = Search(s)
        /\ current' = next
        /\ state' = [t \in Task |->
                        IF t = next THEN "RUNNING"
                        ELSE IF t = current /\ s[t] = "RUNNING" THEN "READY"
                        ELSE s[t]]
        /\ ticks' = IF k[current] = 0 /\ next # current
                    THEN [k EXCEPT ![current] = PriorityOf(current)] ELSE k

\* schedule(), called when the states are s and the slices are k.
Schedule(s, k) ==
    \E next \in Task :
        /\ next = Search(s)
        /\ current' = next
        /\ state' = [t \in Task |->
                        IF t = next THEN "RUNNING"
                        ELSE IF t = current /\ s[t] = "RUNNING" THEN "READY"
                        ELSE s[t]]
        /\ ticks' = IF k[current] = 0
                    THEN [k EXCEPT ![current] = PriorityOf(current)] ELSE k
-----------------------------------------------------------------------------
\* Mutant: a timer is put at the head of the list.
TimerAdd_Unsorted(t, ms) == timers' = <<[task |-> t, left |-> ms \div JIFFY]>> \o timers

\* timer_add of the running task, handler NULL: list_insert_sort puts the
\* timer before the first one that expires later.
TimerAdd(t, ms) ==
    LET left == ms \div JIFFY
    IN  \E n \in 0 .. Len(timers) :
            /\ \A i \in 1 .. n : timers[i].left <= left
            /\ n < Len(timers) => timers[n + 1].left > left
            /\ timers' = InsertAt(timers, n + 1, [task |-> t, left |-> left])
-----------------------------------------------------------------------------
\* task_sleep: the timer is armed unless ms is 0, the state is SLEEPING and
\* the processor goes to another task.
Sleep ==
    /\ "sleep" \in Calls
    /\ current # Idle
    /\ Len(timers) < MaxTimers
    /\ \E ms \in SleepMs :
        IF ms > 0 THEN TimerAdd(current, ms) ELSE UNCHANGED timers
    /\ Schedule([state EXCEPT ![current] = "SLEEPING"], ticks)
    /\ UNCHANGED ran

\* task_block without a timeout, by a device, a lock, a pipe or waitpid.
BlockCall ==
    /\ "block" \in Calls
    /\ current # Idle
    /\ \E how \in BlockStates :
        Schedule([state EXCEPT ![current] = how], ticks)
    /\ UNCHANGED <<ran, timers>>

\* task_unblock by the running task, or by a device interrupt.
Wakeup ==
    /\ "wakeup" \in Calls
    /\ \E t \in User :
        /\ state[t] \in BlockStates
        /\ state' = D!Unblock(state, {t})
    /\ UNCHANGED <<current, ticks, ran, timers>>

\* sys_kill, by a task or by the keyboard's interrupt: a sleeping or waiting
\* task is made READY and leaves its list.  Its timer stays on timer_list.
Kill ==
    /\ "kill" \in Calls
    /\ \E t \in User :
        /\ state[t] \in {"SLEEPING", "WAITING"}
        /\ state' = D!Unblock(state, {t})
    /\ UNCHANGED <<current, ticks, ran, timers>>

Yield ==
    /\ "yield" \in Calls
    /\ current # Idle
    /\ Schedule(state, ticks)
    /\ UNCHANGED <<ran, timers>>

\* The idle thread: hlt returns after any interrupt, those of devices that
\* are not modelled included, and yield() follows.
IdleYield ==
    /\ current = Idle
    /\ Schedule(state, ticks)
    /\ UNCHANGED <<ran, timers>>

\* The end of clock_handler, when the states are s: the running task pays a
\* tick and loses the processor when it has none left.
Expire(s) ==
    LET k == [ticks EXCEPT ![current] = @ - 1]
    IN  IF k[current] = 0 THEN Schedule(s, k)
        ELSE state' = s /\ ticks' = k /\ UNCHANGED current

\* Mutant: every timer that is due is taken off, the first one is served.
Serve_First(due, list) ==
    /\ timers' = SubSeq(list, due + 1, Len(list))
    /\ Expire(D!Unblock(state, {list[i].task : i \in {1} \cap 1 .. due}))

\* timer_wakeup takes the first timers off and makes their tasks READY.
Serve(due, list) ==
    /\ timers' = SubSeq(list, due + 1, Len(list))
    /\ Expire(D!Unblock(state, {list[i].task : i \in 1 .. due}))

\* The list one clock interrupt later.
Advanced == [i \in DOMAIN timers |->
                [task |-> timers[i].task, left |-> timers[i].left - 1]]

\* clock_handler.  The timers that are due are at the head of the list: the
\* loop of timer_wakeup ends at the first one that is not.
Tick ==
    /\ \E due \in 0 .. Len(Advanced) :
        /\ \A i \in 1 .. due : Advanced[i].left <= 0
        /\ due < Len(Advanced) => Advanced[due + 1].left > 0
        /\ Serve(due, Advanced)
    /\ ran' = Append(SelectSeq(ran, LAMBDA t : t # current), current)

Next == Sleep \/ BlockCall \/ Wakeup \/ Kill \/ Yield \/ IdleYield \/ Tick

\* The clock interrupts for ever; nothing is assumed of the tasks.
Spec == Init /\ [][Next]_vars /\ WF_vars(Tick)
-----------------------------------------------------------------------------
\* Sched implements Dispatch: whatever task_search prefers, it dispatches a
\* READY task, or the idle task when there is none.
ImplementsDispatch == D!DispatchSpec

\* At most one task is RUNNING, the one whose stack is in use, even when a
\* timer makes the running task READY (schedule, task.c:220-246).
OneRunning == \A t \in Task : state[t] = "RUNNING" => t = current

\* The idle task is never parked, so task_search may fall back on it.
IdleRunnable == state[Idle] \in {"RUNNING", "READY"}

\* No slice is ever left at 0: clock_handler decrements before it tests, so
\* a task dispatched with 0 would keep the processor until the int wraps
\* (clock.c:57-58; the refill is task.c:235-238).
TicksPositive == \A t \in Task : ticks[t] > 0

\* timer_list is sorted and holds nothing overdue once an interrupt has been
\* served, so that looking at its head is enough (timer_wakeup, timer.c:79).
TimersInOrder ==
    /\ \A i, j \in DOMAIN timers : i < j => timers[i].left <= timers[j].left
    /\ \A i \in DOMAIN timers : timers[i].left >= 0

\* A sleep that armed a timer ends, whoever interrupts, reuses or outlives
\* the timers of the list (task_sleep, task.c:187; timer_wakeup, timer.c:79).
SleepEnds ==
    \A t \in User :
        (state[t] = "SLEEPING" /\ \E i \in DOMAIN timers : timers[i].task = t)
            ~> state[t] # "SLEEPING"

\* The task in the last slot of the table is never passed over for ever: the
\* test on jiffies in task_search prefers it to every task the clock found
\* running since (task.c:117).  Lower slots have no such guarantee.
LastSlotRuns == state[NTask - 1] = "READY" ~> state[NTask - 1] # "READY"

\* "The current task is not blocked and is executing" (task.c:397 and 498,
\* asserted by task_fork and task_exit): the task in user mode, which may
\* call fork or exit next, is in state RUNNING.
RunningTaskIsRunning == state[current] = "RUNNING"
=============================================================================
