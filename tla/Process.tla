------------------------------ MODULE Process ------------------------------
(***************************************************************************)
(* The life of a process in task.c and signal.c: task_fork, task_exit,     *)
(* task_waitpid, sys_kill, task_signal, setsid and the sleep timers, over  *)
(* the task table.                                                         *)
(*                                                                         *)
(* A system call runs to its end or to a task_block; it returns through    *)
(* interrupt_exit, where task_signal delivers one pending signal.  Every   *)
(* signal has its default action here: SIGCHLD is dropped, any other makes *)
(* the task exit.                                                          *)
(***************************************************************************)
EXTENDS Dispatch, FiniteSets

CONSTANTS NTask,       (* TASK_NR                                           *)
          Calls,       (* the system calls to explore, among "fork", "exit",
                          "waitpid", "kill", "sleep", "setsid"              *)
          Fatal,       (* the signals kill may send: they end a process     *)
          Targets,     (* the tasks programs send them to                   *)
          Dormant,     (* the test thread, slot 2, asleep until it is killed *)
          MaxTimers,   (* bound of the model: sleep timers armed per task   *)
          ExitBlocks   (* the iput and close of task_exit may find a dirty
                          inode and a disk that another task uses           *)

SIGHUP  == 1
SIGCHLD == 17
Init1   == 1     \* the pid of init, which cannot be killed (signal.c:86)
Any     == NTask \* the pid -1 of waitpid

ASSUME ProcessAssumption ==
    /\ NTask \in Nat /\ NTask > 2
    /\ Task = 0 .. NTask - 1
    /\ Idle = 0
    /\ Fatal \subseteq 1 .. 16
    /\ Targets \subseteq Task
    /\ Dormant \subseteq 2 .. NTask - 1
    /\ MaxTimers \in Nat
    /\ ExitBlocks \in BOOLEAN

VARIABLES ppid,       (* task->ppid                                         *)
          sid,        (* task->sid                                          *)
          pending,    (* task->signal                                       *)
          waitpid,    (* task->waitpid                                      *)
          armed,      (* how many timers of timer_list wake a task          *)
          pc,         (* where each task is:
                         "user"  in user mode, or the idle thread
                         "ret"   at interrupt_exit, before task_signal
                         "wait"  in the loop of task_waitpid
                         "exit"  in task_exit, blocked until the disk's
                                 queue or lock is free
                         "gone"  past the last schedule() of task_exit      *)
          panic       (* what stopped the machine, or "none": the function of
                         the failed assertion, or a name for the message of
                         panic ("No more tasks", "No Parent found!!!"), the
                         second free of a page, the free of the kernel's own
                         page directory, the NULL task                      *)

taskVars == <<ppid, sid, waitpid>>
vars == <<dispatchVars, taskVars, pending, armed, pc, panic>>

Present(t) == state[t] # "FREE"

TypeOK ==
    /\ state \in [Task -> Parked \cup {"RUNNING", "READY", "DIED", "FREE"}]
    /\ current \in Task
    /\ ppid \in [Task -> Task]
    /\ sid \in [Task -> Task]
    /\ pending \in [Task -> SUBSET (Fatal \cup {SIGHUP, SIGCHLD})]
    /\ waitpid \in [Task -> Task \cup {Any}]
    /\ armed \in [Task -> Nat]
    /\ pc \in [Task -> {"user", "ret", "wait", "exit", "gone"}]
    /\ panic \in {"none", "task_fork", "task_exit", "freed_twice",
                  "kernel_pages", "no_task", "no_parent", "null_parent"}
-----------------------------------------------------------------------------
\* init runs; the idle and test threads exist since task_init.
Init ==
    /\ current = Init1
    /\ state = [t \in Task |-> IF t = Init1 THEN "RUNNING"
                               ELSE IF t = Idle THEN "READY"
                               ELSE IF t \in Dormant THEN "SLEEPING" ELSE "FREE"]
    /\ ppid = [t \in Task |-> 0]
    /\ sid = [t \in Task |-> 0]
    /\ pending = [t \in Task |-> {}]
    /\ waitpid = [t \in Task |-> 0]
    /\ armed = [t \in Task |-> IF t \in Dormant THEN 1 ELSE 0]
    /\ pc = [t \in Task |-> IF t \in Dormant THEN "ret" ELSE "user"]
    /\ panic = "none"

At(place) == panic = "none" /\ pc[current] = place
Goto(place) == pc' = [pc EXCEPT ![current] = place]

Panic(why) ==
    /\ panic' = why
    /\ UNCHANGED <<dispatchVars, taskVars, pending, armed, pc>>

\* A system call of the running task, made in user mode.
Syscall(name) == name \in Calls /\ current # Idle /\ At("user")
-----------------------------------------------------------------------------
\* get_free_task takes the lowest free slot.
FreeSlot == CHOOSE t \in Task :
                ~Present(t) /\ \A u \in Task : ~Present(u) => t <= u

\* task_fork: a copy of the running task, pending signals included, that
\* first runs at interrupt_exit.
Fork ==
    /\ Syscall("fork")
    /\ IF state[current] # "RUNNING" THEN Panic("task_fork")
       ELSE IF \A t \in Task : Present(t) THEN Panic("no_task")
       ELSE LET child == FreeSlot
            IN  /\ state' = [state EXCEPT ![child] = "READY"]
                /\ ppid' = [ppid EXCEPT ![child] = current]
                /\ sid' = [sid EXCEPT ![child] = sid[current]]
                /\ waitpid' = [waitpid EXCEPT ![child] = waitpid[current]]
                /\ pending' = [pending EXCEPT ![child] = pending[current]]
                /\ pc' = [pc EXCEPT ![child] = "ret", ![current] = "ret"]
                /\ UNCHANGED <<current, armed, panic>>
-----------------------------------------------------------------------------
\* The children of t, as the loops of task_waitpid and task_exit find them:
\* both start at slot 2.
Children(t) == {c \in 2 .. NTask - 1 : Present(c) /\ ppid[c] = t}

\* task_kill_session and task_tell_father of the running task.
Notified ==
    [t \in Task |->
        pending[t]
        \cup (IF sid[current] = current /\ t # current /\ Present(t)
                 /\ sid[t] = sid[current] THEN {SIGHUP} ELSE {})
        \cup (IF ppid[current] # 0 /\ t = ppid[current] THEN {SIGCHLD} ELSE {})]

\* close(), called for every open file, is a system call made in the kernel:
\* its return delivers a pending signal to the exiting task, and one that is
\* fatal enters task_exit again.
KilledByClose(p) == ~(p[current] \subseteq {SIGCHLD})

\* Mutant: the parent is woken only when it waits for any child.
Wakes_AnyOnly(parent) == state[parent] = "WAITING" /\ waitpid[parent] = Any

\* The end of task_exit wakes the parent that waits for this child.
Wakes(parent) ==
    state[parent] = "WAITING" /\ waitpid[parent] \in {Any, current}

\* Mutant: the children of an exiting task keep it as their parent.
Reparented_No == ppid

\* The children of an exiting task become its parent's.
Reparented == [t \in Task |-> IF t \in Children(current)
                              THEN ppid[current] ELSE ppid[t]]

\* Mutant: task_exit removes no timer.
Disarmed_No == armed

\* timer_remove of the exiting task.
Disarmed == [armed EXCEPT ![current] = 0]

\* task_exit after the last disk access, when the states are s and the
\* pending signals are p: its children get its parent, which is woken, and
\* the processor is given up for good.
ExitTail(s, p) ==
    LET parent == ppid[current]
    IN  IF s[parent] = "FREE" THEN Panic("null_parent")
        ELSE /\ ppid' = Reparented
             /\ pending' = p
             /\ armed' = Disarmed
             /\ Schedule(IF Wakes(parent) THEN Unblock(s, {parent}) ELSE s)
             /\ Goto("gone")
             /\ UNCHANGED <<sid, waitpid, panic>>

\* task_exit with the pending signals p: from its assertion to the first disk
\* access that blocks, or to the end, or to a task_exit entered again, which
\* fails the assertion for the state is DIED.  The page directory of a kernel
\* thread is the kernel's, which bitmap_test does not let it free.
Exit(p) ==
    LET died == [state EXCEPT ![current] = "DIED"]
        told == [Notified EXCEPT ![current] = p]
    IN  IF state[current] # "RUNNING" THEN Panic("task_exit")
        ELSE IF ppid[current] # 0 /\ ~Present(ppid[current])
             THEN Panic("no_parent")
        ELSE IF current \in Dormant THEN Panic("kernel_pages")
        ELSE \/ ExitTail(died, told)
             \/ KilledByClose(told) /\ Panic("task_exit")
             \/ /\ ExitBlocks
                /\ pending' = told
                /\ armed' = Disarmed
                /\ Schedule([died EXCEPT ![current] = "BLOCKED"])
                /\ Goto("exit")
                /\ UNCHANGED <<taskVars, panic>>

\* exit(); init never calls it.
ExitCall == Syscall("exit") /\ current # Init1 /\ Exit(pending[current])

\* The task that uses the disk has done with it and wakes the next one, in
\* device_request or mutex_unlock.
DiskReleased ==
    /\ current # Idle /\ At("user")
    /\ \E t \in Task :
        /\ pc[t] = "exit" /\ state[t] = "BLOCKED"
        /\ state' = Unblock(state, {t})
    /\ Goto("ret")
    /\ UNCHANGED <<current, taskVars, pending, armed, panic>>

\* task_exit once the disk is free.  One wait stands for all those of a
\* task_exit.  The state is RUNNING now: a task_exit entered again passes its
\* assertion and frees what is free already.
ExitResume ==
    /\ At("exit")
    /\ \/ ExitTail(state, pending)
       \/ KilledByClose(pending) /\ Panic("freed_twice")
-----------------------------------------------------------------------------
\* The loop of task_waitpid: reap the dead child in the lowest slot, or wait
\* while there is a child to wait for, or give up.
WaitLoop(pid) ==
    LET found == {c \in Children(current) : pid \in {Any, c}}
        dead  == {c \in found : state[c] = "DIED"}
    IN  \/ /\ dead # {}
           /\ \E c \in dead :
               /\ \A d \in dead : c <= d
               /\ state' = [state EXCEPT ![c] = "FREE"]
           /\ Goto("ret")
           /\ UNCHANGED <<current, taskVars, pending, armed, panic>>
        \/ /\ dead = {} /\ found # {}
           /\ waitpid' = [waitpid EXCEPT ![current] = pid]
           /\ Block("WAITING")
           /\ Goto("wait")
           /\ UNCHANGED <<ppid, sid, pending, armed, panic>>
        \/ /\ found = {}
           /\ Goto("ret")
           /\ UNCHANGED <<dispatchVars, taskVars, pending, armed, panic>>

WaitPid == Syscall("waitpid") /\ \E pid \in (2 .. NTask - 1) \cup {Any} : WaitLoop(pid)

\* A waiting task that was woken, by a child's exit or by a signal, goes
\* round the loop again.
WaitResume == At("wait") /\ WaitLoop(waitpid[current])
-----------------------------------------------------------------------------
\* sys_kill: the signal is recorded and a sleeping or waiting task woken.  It
\* refuses idle and init only.
Kill ==
    /\ Syscall("kill")
    /\ \E t \in Targets \ {Idle, Init1}, sig \in Fatal :
        /\ Present(t)
        /\ pending' = [pending EXCEPT ![t] = @ \cup {sig}]
        /\ state' = IF state[t] \in {"WAITING", "SLEEPING"}
                    THEN Unblock(state, {t}) ELSE state
    /\ Goto("ret")
    /\ UNCHANGED <<current, taskVars, armed, panic>>

\* task_sleep with a timeout; a signal that ends the sleep leaves the timer.
Sleep ==
    /\ Syscall("sleep")
    /\ armed[current] < MaxTimers
    /\ armed' = [armed EXCEPT ![current] = @ + 1]
    /\ Block("SLEEPING")
    /\ Goto("ret")
    /\ UNCHANGED <<taskVars, pending, panic>>

\* sys_setsid.
Setsid ==
    /\ Syscall("setsid")
    /\ sid[current] # current
    /\ sid' = [sid EXCEPT ![current] = current]
    /\ Goto("ret")
    /\ UNCHANGED <<dispatchVars, ppid, waitpid, pending, armed, panic>>

\* A clock interrupt: any of the timers may be due, and the slice may end.
Clock ==
    /\ At("user")
    /\ \E due \in SUBSET {t \in Task \ Dormant : armed[t] > 0} :
        /\ armed' = [t \in Task |-> IF t \in due THEN armed[t] - 1 ELSE armed[t]]
        /\ \/ Schedule(Unblock(state, due))
           \/ state' = Unblock(state, due) /\ UNCHANGED current
    /\ Goto("ret")
    /\ UNCHANGED <<taskVars, pending, panic>>

\* task_signal on the way back to user mode: the pending signal with the
\* lowest number is taken; SIGCHLD is dropped, the others end the task.
Return ==
    /\ At("ret")
    /\ IF pending[current] = {}
       THEN /\ Goto("user")
            /\ UNCHANGED <<dispatchVars, taskVars, pending, armed, panic>>
       ELSE \E sig \in pending[current] :
                LET left == pending[current] \ {sig}
                IN  /\ \A other \in left : sig < other
                    /\ IF sig = SIGCHLD
                       THEN /\ pending' = [pending EXCEPT ![current] = left]
                            /\ Goto("user")
                            /\ UNCHANGED <<dispatchVars, taskVars, armed, panic>>
                       ELSE Exit(left)

\* A task dispatched after the end of its task_exit returns from the call
\* into pages it has freed.  What it executes there is left out: it keeps the
\* processor until the clock takes it away.
GoneRuns ==
    /\ At("gone")
    /\ Schedule(state)
    /\ UNCHANGED <<taskVars, pending, armed, pc, panic>>

\* A panic halts the machine.
Halted == panic # "none" /\ UNCHANGED vars

Next ==
    \/ Fork \/ ExitCall \/ ExitResume \/ DiskReleased
    \/ WaitPid \/ WaitResume \/ Kill \/ Sleep \/ Setsid
    \/ Clock \/ Return \/ GoneRuns \/ Halted

Spec == Init /\ [][Next]_vars
-----------------------------------------------------------------------------
\* Every task has its parent in the table, or has no parent: task_exit finds
\* whom to tell and dereferences task_table[ppid] without a test (task.c:491,
\* 541), also after the parent died, was reaped and its slot was reused.
ParentPresent ==
    \A t \in Task : Present(t) => Present(ppid[t])

\* A dead task has no children, so that reaping it, and giving its slot to
\* another, cannot hand its children to a stranger (task.c:529-538, 572).
DeadHasNoChildren ==
    \A t \in Task : state[t] \in {"DIED", "FREE"} => Children(t) = {}

\* Whatever dies and whichever slot is used again, the tree of the tasks is
\* whole (task_exit, task.c:529-545; task_waitpid, 569-576).
FamilyRight == ParentPresent /\ DeadHasNoChildren

\* No exit that leaves its task DIED is missed: a task blocked in waitpid has a
\* child to wait for and none of those it waits for is DIED, whether the child
\* exited before or after the call, or became its child by the exit of another
\* task (task.c:555-583 with 530-545).  A task_exit that blocked on the disk
\* does not leave its task DIED, and this says nothing of it: ExitedIsDead does.
NoMissedExit ==
    \A p \in Task : state[p] = "WAITING" =>
        LET found == {c \in Children(p) : waitpid[p] \in {Any, c}}
        IN  found # {} /\ \A c \in found : state[c] # "DIED"

\* No timer outlives its task: default_timeout would make a freed page, or
\* the next task of the slot, READY (task.c:508 and timer.c:66-77).
NoDanglingTimer ==
    \A t \in Task : state[t] \in {"DIED", "FREE"} => armed[t] = 0

\* A task that has reached the end of its task_exit is dead and stays so until
\* it is reaped, so that the waitpid of its parent finds it ("TASK_DIED, //
\* dead", task.h:25; task.c:569).  It holds while no task_exit blocks.
ExitedIsDead == \A t \in Task : pc[t] = "gone" => state[t] \in {"DIED", "FREE"}
=============================================================================
