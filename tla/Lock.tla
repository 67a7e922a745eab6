-------------------------------- MODULE Lock --------------------------------
(***************************************************************************)
(* The kernel's reentrant lock (lock_t) and the mutex_t inside it, used by *)
(* the buffer cache, the IDE driver, the keyboard and the serial ports.    *)
(*                                                                         *)
(* A task takes the lock inside a system call, may block for a device      *)
(* while it holds it, and releases it before it returns to user mode.      *)
(* Interrupts arrive in user mode and in the idle thread only.             *)
(***************************************************************************)
EXTENDS Dispatch, Sequences, FiniteSets

CONSTANTS MaxRepeat,  (* bound of the model: nested acquisitions of a task *)
          Stale,      (* the tasks that have left a sleep timer armed: a
                         signal wakes a sleeper and leaves its timer behind *)
          None        (* the NULL of lock->holder                          *)

ASSUME LockAssumption ==
    /\ MaxRepeat \in Nat \ {0}
    /\ Stale \subseteq Task \ {Idle}
    /\ None \notin Task

VARIABLES value,      (* mutex->value                                      *)
          waiters,    (* mutex->waiters, from tail to head                 *)
          holder,     (* lock->holder                                      *)
          repeat,     (* lock->repeat                                      *)
          pc          (* where each task is:
                         "user"    in user mode, or the idle thread
                         "wait"    in the loop of mutex_lock
                         "hold"    in the section the lock protects
                         "io"      blocked for a device in that section
                         "yielded" in mutex_unlock, after task_yield       *)

lockVars == <<value, waiters, holder, repeat>>
vars == <<dispatchVars, lockVars, pc>>

Section == {"hold", "io"}

NoRepeat(s) == \A i, j \in DOMAIN s : s[i] = s[j] => i = j

TypeOK ==
    /\ DispatchTypeOK
    /\ value \in BOOLEAN
    /\ waiters \in Seq(Task)
    /\ holder \in Task \cup {None}
    /\ repeat \in 0..MaxRepeat
    /\ pc \in [Task -> {"user", "wait", "yielded"} \cup Section]
-----------------------------------------------------------------------------
Init ==
    /\ DispatchInit
    /\ value = FALSE
    /\ waiters = << >>
    /\ holder = None
    /\ repeat = 0
    /\ pc = [t \in Task |-> "user"]

At(place) == pc[current] = place
Goto(place) == pc' = [pc EXCEPT ![current] = place]

\* The end of mutex_lock and of lock_acquire, once nobody holds the mutex.
TakeMutex ==
    /\ ~value
    /\ value' = TRUE
    /\ holder' = current
    /\ repeat' = 1
    /\ Goto("hold")
    /\ UNCHANGED <<dispatchVars, waiters>>

\* The body of mutex_lock's loop: the task joins the waiters and blocks.
JoinWaiters ==
    /\ value
    /\ waiters' = Append(waiters, current)
    /\ Block("BLOCKED")
    /\ Goto("wait")
    /\ UNCHANGED <<value, holder, repeat>>

\* Mutant: an if where the code has a while, so that a task takes the mutex
\* as soon as it is woken.
MutexLock_If ==
    \/ TakeMutex
    \/ JoinWaiters /\ At("user")
    \/ /\ At("wait") /\ value
       /\ holder' = current
       /\ repeat' = 1
       /\ Goto("hold")
       /\ UNCHANGED <<dispatchVars, value, waiters>>

\* mutex_lock from its test on, on the first call and after every wake-up.
MutexLock == TakeMutex \/ JoinWaiters

\* lock_acquire by a task that does not hold the lock.
Acquire == current # Idle /\ At("user") /\ MutexLock

ResumeWaiter == At("wait") /\ MutexLock

\* lock_acquire by the holder.
Reacquire ==
    /\ At("hold")
    /\ holder = current
    /\ repeat < MaxRepeat
    /\ repeat' = repeat + 1
    /\ UNCHANGED <<dispatchVars, value, waiters, holder, pc>>

\* Mutant: the test on the count is off by one.
ReleaseNested_Last ==
    /\ At("hold")
    /\ repeat >= 1
    /\ repeat' = repeat - 1
    /\ UNCHANGED <<dispatchVars, value, waiters, holder, pc>>

\* lock_release while the holder has nested acquisitions left.
ReleaseNested ==
    /\ At("hold")
    /\ repeat > 1
    /\ repeat' = repeat - 1
    /\ UNCHANGED <<dispatchVars, value, waiters, holder, pc>>

\* Mutant: nobody is taken off the waiters.
MutexUnlock_NoWake ==
    /\ value' = FALSE
    /\ Goto("user")
    /\ UNCHANGED <<dispatchVars, waiters>>

\* mutex_unlock: the waiter at the tail, the oldest, is made READY and the
\* processor is yielded.
MutexUnlock ==
    /\ value' = FALSE
    /\ IF waiters = << >>
       THEN /\ Goto("user")
            /\ UNCHANGED <<dispatchVars, waiters>>
       ELSE /\ waiters' = Tail(waiters)
            /\ Goto("yielded")
            /\ Schedule(Unblock(state, {Head(waiters)}))

\* The last lock_release.
Release ==
    /\ At("hold")
    /\ repeat = 1
    /\ holder' = None
    /\ repeat' = 0
    /\ MutexUnlock

FinishUnlock ==
    /\ At("yielded")
    /\ Goto("user")
    /\ UNCHANGED <<dispatchVars, lockVars>>

\* The holder blocks for a device, on a list other than the waiters.
BlockInSection ==
    /\ At("hold")
    /\ Block("BLOCKED")
    /\ Goto("io")
    /\ UNCHANGED lockVars

ResumeInSection ==
    /\ At("io")
    /\ Goto("hold")
    /\ UNCHANGED <<dispatchVars, lockVars>>
-----------------------------------------------------------------------------
\* The device a task waits for interrupts the task in user mode.
DeviceInterrupt ==
    /\ At("user")
    /\ \E t \in Task :
        /\ pc[t] = "io" /\ state[t] = "BLOCKED"
        /\ state' = Unblock(state, {t})
    /\ UNCHANGED <<current, lockVars, pc>>

\* list_remove of the node in place i.
Unlink(list, i) ==
    [j \in 1 .. Len(list) - 1 |-> IF j < i THEN list[j] ELSE list[j + 1]]

\* A sleep timer that outlived its sleep: default_timeout takes the task off
\* whatever list it is on and makes it READY.
StaleTimeout ==
    /\ At("user")
    /\ \E t \in Stale :
        /\ state' = Unblock(state, {t})
        /\ \/ \E i \in DOMAIN waiters :
                waiters[i] = t /\ waiters' = Unlink(waiters, i)
           \/ (\A i \in DOMAIN waiters : waiters[i] # t) /\ UNCHANGED waiters
    /\ UNCHANGED <<current, value, holder, repeat, pc>>

\* The clock ends the slice of a task in user mode; the idle thread yields.
Preempt ==
    /\ At("user")
    /\ Schedule(state)
    /\ UNCHANGED <<lockVars, pc>>

Next ==
    \/ Acquire \/ ResumeWaiter \/ Reacquire
    \/ ReleaseNested \/ Release \/ FinishUnlock
    \/ BlockInSection \/ ResumeInSection
    \/ DeviceInterrupt \/ StaleTimeout \/ Preempt

Spec == Init /\ [][Next]_vars
-----------------------------------------------------------------------------
\* At most one task is in the section, a task blocked for a device included,
\* and it is the holder (mutex_lock, mutex.c:15-37; lock_acquire, 74-88).
MutualExclusion ==
    \A t \in Task : pc[t] \in Section => holder = t

\* The fields of the lock agree whenever a task can look at them, which is
\* what the assertions of mutex.c:29, 46, 81, 94 and 101 rest on: a free mutex
\* has no holder and no count, and a held one has a holder in the section.
LockConsistent ==
    IF value
    THEN holder \in Task /\ repeat > 0 /\ pc[holder] \in Section
    ELSE holder = None /\ repeat = 0

\* A task is on the waiters exactly while it is blocked there, and once, so
\* the assertions of list_push and of task_block (task.c:143-144) hold even
\* for a waiter woken out of turn by a stale timer.
WaitersBlocked ==
    /\ NoRepeat(waiters)
    /\ \A t \in Task : (\E i \in DOMAIN waiters : waiters[i] = t)
                       <=> (pc[t] = "wait" /\ state[t] = "BLOCKED")

\* No wake-up is lost: when tasks wait for a free mutex, one that was taken
\* off the waiters is about to test it again (mutex_unlock wakes one waiter
\* only, mutex.c:53-60, and another task may take the mutex first).
NoStrandedWaiter ==
    waiters # << >> => \/ value
                       \/ \E t \in Task : pc[t] = "wait" /\ state[t] # "BLOCKED"
=============================================================================
