------------------------------- MODULE Signal -------------------------------
(***************************************************************************)
(* Signals with handlers and masks (signal.c, restorer.asm), alarms        *)
(* (alarm.c over timer.c) and Ctrl-C (tty_intr of tty.c), for the tasks of *)
(* user programs.                                                          *)
(*                                                                         *)
(* `current' runs in user mode, or the processor is in the idle thread.  A *)
(* task that is READY is in the kernel: it was preempted in clock_handler, *)
(* woken in a system call, or is new, and passes interrupt_exit, which     *)
(* calls task_signal, before any of its own code runs again.  Which READY  *)
(* task is dispatched is left open, as in Dispatch.                        *)
(***************************************************************************)
EXTENDS Integers, Sequences, FiniteSets, FiniteSetsExt, SequencesExt

CONSTANTS NProc,       (* the slots of the task table that programs use     *)
          Sig,         (* the numbers of the signals that are sent          *)
          Action,      (* what programs register: pairs of a signal and a
                          sigaction_t                                       *)
          Mask,        (* what programs give to ssetmask                    *)
          Waits,       (* what calls wait for                               *)
          Foreground,  (* the slots whose tasks are of the terminal's group *)
          MaxSent,     (* bounds the signals that are not SIGKILL           *)
          Risks        (* what the callers do although the code cannot deal
                          with it: see README.md                            *)

Proc == 1 .. NProc
Idle == 0
NoTimer == 0
Timer == 1 .. NProc

SIGINT == 2
SIGKILL == 9
SIGALRM == 14
SIGCHLD == 17

ASSUME SignalAssumption ==
    /\ NProc \in Nat /\ Sig \subseteq 1 .. 31 /\ {SIGINT, SIGKILL, SIGALRM} \subseteq Sig
    /\ Waits \subseteq {"sleep", "child", "key", "disk"}
    /\ Mask \subseteq SUBSET Sig /\ Foreground \subseteq Proc
    /\ MaxSent \in Nat /\ Risks \subseteq {"alarm", "nested", "tty"}

VARIABLES current,  (* the task in user mode, or Idle                       *)
          task,     (* the fields of each task and its user stack           *)
          timer,    (* the alarm timers: whose each is, or 0                *)
          sent      (* counts the signals sent, up to MaxSent               *)

vars == <<current, task, timer, sent>>

\* sigaction_t.  The flags are SIG_NOMASK and SIG_ONESHOT.
Handler == {"DFL", "IGN", "FN"}
SigAction == [handler : Handler, mask : SUBSET Sig, nomask : BOOLEAN, oneshot : BOOLEAN]
Default == [handler |-> "DFL", mask |-> {}, nomask |-> FALSE, oneshot |-> FALSE]

\* signal_frame_t.  `blocked' is a mask, or EOF.  `done' says whether the restorer
\* has called ssetmask for the frame; `mask' is the mask when the frame was pushed.
EOF == {-1}
Frame == [eax : {"nr", "result"}, blocked : (SUBSET Sig) \cup {EOF},
          done : BOOLEAN, mask : SUBSET Sig]

\* What a task does: it runs or is READY ("run"), sleeps, waits for a child or for a key
\* in a call that goes on waiting, waits for the disk, or its slot is free.  `eax' is what
\* the register of its user frame holds, the result of its last call, or, in a call that
\* uses the disk, the number of that call.
State == {"run", "sleep", "child", "key", "disk", "free"}
Task == [state : State, signal : SUBSET Sig, blocked : SUBSET Sig, action : [Sig -> SigAction],
         frames : Seq(Frame), eax : {"nr", "result"}, alarm : Timer \cup {NoTimer},
         parent : Proc \cup {0}]

Free == [state |-> "free", signal |-> {}, blocked |-> {}, action |-> [s \in Sig |-> Default],
         frames |-> << >>, eax |-> "result", alarm |-> NoTimer, parent |-> 0]

TypeOK ==
    /\ current \in Proc \cup {Idle}
    /\ task \in [Proc -> Task]
    /\ timer \in [Timer -> Proc \cup {0}]
    /\ sent \in 0 .. MaxSent

Init ==
    /\ current = Idle
    /\ task = [t \in Proc |-> IF t = 1 THEN [Free EXCEPT !.state = "run"] ELSE Free]
    /\ timer = [i \in Timer |-> 0]
    /\ sent = 0

-----------------------------------------------------------------------------
\* Mutant: the frame keeps no mask for any handler.
Push_Masked(r, a, s) ==
    [r EXCEPT !.frames = Append(@, [eax |-> r.eax, done |-> FALSE, mask |-> r.blocked,
                                    blocked |-> EOF]),
              !.blocked = @ \cup a.mask,
              !.action[s].handler = IF a.oneshot THEN "DFL" ELSE @]

\* task_signal, as a function of the task: the pending signal with the lowest number that
\* is not blocked is cleared and ignored, kills the task, or gets a frame for its handler.
Push(r, a, s) ==
    [r EXCEPT !.frames = Append(@, [eax |-> r.eax, done |-> FALSE, mask |-> r.blocked,
                                    blocked |-> IF a.nomask THEN r.blocked ELSE EOF]),
              !.blocked = @ \cup a.mask,
              !.action[s].handler = IF a.oneshot THEN "DFL" ELSE @]

Deliver(r, s) == LET a == r.action[s] q == [r EXCEPT !.signal = @ \ {s}] IN
    CASE a.handler = "IGN" \/ (a.handler = "DFL" /\ s = SIGCHLD) -> q
      [] a.handler = "DFL" /\ s # SIGCHLD -> Free
      [] a.handler = "FN" -> Push(q, a, s)

Signalled(r) == LET map == r.signal \ r.blocked IN
    IF map = {} THEN r ELSE Deliver(r, Min(map))

\* sys_kill: a sleeper is woken.  In waitpid, which WAITs too, the task that is woken looks
\* for a dead child, finds none, and waits again.
Sent(r, s) == [r EXCEPT !.signal = @ \cup {s}, !.state = IF @ = "sleep" THEN "run" ELSE @]

\* task_exit, seen by the others: children go to the parent, a waiting parent is woken, and
\* the timers of the task are removed.  The parent of the last is init.
Orphan(T, t) == [u \in Proc |->
    CASE u = t -> Free
      [] u # t /\ T[u].parent = t -> [T[u] EXCEPT !.parent = T[t].parent]
      [] u # t /\ T[t].parent = u ->
             [T[u] EXCEPT !.signal = @ \cup ({SIGCHLD} \cap Sig),
                          !.state = IF @ = "child" THEN "run" ELSE @]
      [] OTHER -> T[u]]

\* timer_remove.
Removed(W, t) == [i \in Timer |-> IF W[i] = t THEN 0 ELSE W[i]]

Exited(T, W, t) ==
    /\ task' = Orphan(T, t)
    /\ timer' = Removed(W, t)
    /\ current' = Idle

\* Task t, with fields r, returns to user mode or dies on the way.
Return(t, r, T, W) == LET q == Signalled(r) IN
    IF q.state = "free" THEN Exited(T, W, t)
    ELSE task' = [T EXCEPT ![t] = q] /\ timer' = W /\ current' = t

\* Code of the program runs, and not the end of restorer.
InRestorer(t) == task[t].frames # << >> /\ Last(task[t].frames).done
Running(t) == current = t /\ ~InRestorer(t)
Alive(t) == task[t].state # "free"

-----------------------------------------------------------------------------
\* schedule: a READY task gets the processor, ends its call and returns to user mode.
\* Inside a call that uses the disk the kernel may make a system call itself (time() in the
\* inode code), whose return delivers a signal before the call has its result.
Dispatch(t) ==
    /\ current = Idle
    /\ task[t].state = "run"
    /\ \E nested \in BOOLEAN :
          /\ nested => "nested" \in Risks /\ task[t].eax = "nr"
          /\ LET r == IF nested THEN Signalled(task[t]) ELSE task[t] IN
             Return(t, [r EXCEPT !.eax = "result"], task, timer)
    /\ UNCHANGED sent

\* The clock interrupts user mode: with the slice used up the task is preempted; else it
\* returns, and a signal that is still pending is delivered.
Preempt(t) ==
    /\ current = t
    /\ current' = Idle
    /\ UNCHANGED <<task, timer, sent>>

Tick(t) ==
    /\ current = t
    /\ task[t].signal \ task[t].blocked # {}
    /\ Return(t, task[t], task, timer)
    /\ UNCHANGED sent

\* sys_kill by a task, of another or of itself.
Count(s) == IF s = SIGKILL THEN sent ELSE sent + 1

Kill(t, u, s) ==
    /\ Running(t) /\ Alive(u)
    /\ Count(s) <= MaxSent
    /\ sent' = Count(s)
    /\ LET T == [task EXCEPT ![u] = Sent(@, s)] IN Return(t, T[t], T, timer)

\* sys_signal and sys_sigaction: SIG_NOMASK clears the mask, else the signal joins it.
\* SIGKILL is refused.
Registered(s, a) == [a EXCEPT !.mask = IF a.nomask THEN {} ELSE @ \cup {s}]

Sigaction(t, s, a) ==
    /\ Running(t)
    /\ s # SIGKILL
    /\ Return(t, [task[t] EXCEPT !.action[s] = Registered(s, a)], task, timer)
    /\ UNCHANGED sent

\* Mutant: SIGKILL can be masked.
Masked_Kill(r, newmask) == IF newmask = EOF THEN r ELSE [r EXCEPT !.blocked = newmask]

\* sys_ssetmask, which refuses EOF.
Masked(r, newmask) == IF newmask = EOF THEN r ELSE [r EXCEPT !.blocked = newmask \ {SIGKILL}]

Ssetmask(t, newmask) ==
    /\ Running(t)
    /\ Return(t, Masked(task[t], newmask), task, timer)
    /\ UNCHANGED sent

\* A handler returns into restorer, which calls ssetmask with the mask in the frame ...
Restorer(t) == LET f == Last(task[t].frames) IN
    /\ Running(t)
    /\ task[t].frames # << >>
    /\ Return(t, [Masked(task[t], f.blocked) EXCEPT !.frames[Len(task[t].frames)].done = TRUE],
              task, timer)
    /\ UNCHANGED sent

\* ... and pops the registers: the code that was interrupted goes on.
Pop(t) ==
    /\ current = t
    /\ InRestorer(t)
    /\ task' = [task EXCEPT ![t].eax = Last(task[t].frames).eax, ![t].frames = Front(@)]
    /\ UNCHANGED <<current, timer, sent>>

-----------------------------------------------------------------------------
\* Calls that block.  sys_sleep sleeps, waitpid with a living child waits for it, a read of
\* the terminal for a key, and what needs the disk for the disk.
Block(t, state) ==
    /\ Running(t)
    /\ state = "child" => \E u \in Proc : Alive(u) /\ task[u].parent = t
    /\ task' = [task EXCEPT ![t].state = state,
                            ![t].eax = IF state = "disk" THEN "nr" ELSE @]
    /\ current' = Idle
    /\ UNCHANGED <<timer, sent>>

\* The sleep is over, the key or the disk is there: task_unblock.
Unblock(t, state) ==
    /\ task[t].state = state
    /\ task' = [task EXCEPT ![t].state = "run"]
    /\ UNCHANGED <<current, timer, sent>>

\* task_fork copies the page with all fields, the pending signals and the pointer to the
\* alarm among them, and the user stack.
Fork(t, u) ==
    /\ Running(t) /\ ~Alive(u)
    /\ "alarm" \in Risks \/ task[t].alarm = NoTimer
    /\ LET T == [task EXCEPT ![u] = [task[t] EXCEPT !.parent = t]] IN
       Return(t, T[t], T, timer)
    /\ UNCHANGED sent

Exit(t) ==
    /\ Running(t)
    /\ Exited(task, timer, t)
    /\ UNCHANGED sent

\* sys_alarm: timer_put of the old alarm, timer_add of a new one.
Put(i) == [j \in Timer |-> IF j = i THEN 0 ELSE timer[j]]

Alarm(t) == LET W == Put(task[t].alarm) IN
    /\ Running(t)
    /\ \E i \in Timer :
          /\ W[i] = 0
          /\ Return(t, [task[t] EXCEPT !.alarm = i], task, [W EXCEPT ![i] = t])
    /\ UNCHANGED sent

\* The interrupted code: user mode of a task, which returns through interrupt_exit, or idle.
Resume(T, W) ==
    IF current = Idle THEN task' = T /\ timer' = W /\ UNCHANGED current
    ELSE Return(current, T[current], T, W)

\* Mutant: the pointer to it stays.
Ring_Keeps(T, t) == [T EXCEPT ![t] = Sent(@, SIGALRM)]

\* task_alarm, called by timer_wakeup, which frees the timer.
Ring(T, t) == [T EXCEPT ![t] = [Sent(@, SIGALRM) EXCEPT !.alarm = NoTimer]]

Expire(i) ==
    /\ timer[i] # 0
    /\ Count(SIGALRM) <= MaxSent
    /\ sent' = Count(SIGALRM)
    /\ Resume(Ring(task, timer[i]), Put(i))

-----------------------------------------------------------------------------
\* tty_intr: the loop over the task table.  kill() is a system call of the kernel, and its
\* return delivers a signal to the interrupted task; if the task dies the loop is over.
\* The result is the table, and the fields with which the task leaves the loop.
Intr(T, t) ==
    IF t \notin Foreground \/ ~Alive(t) \/ (current # Idle /\ T[current].state = "free") THEN T
    ELSE LET S == [T EXCEPT ![t] = Sent(@, SIGINT)] IN
         IF current = Idle THEN S ELSE [S EXCEPT ![current] = Signalled(@)]

Interrupted == FoldLeft(Intr, task, [i \in 1 .. NProc |-> i])

Cut == current # Idle /\ Interrupted[current].state = "free"

\* keyboard_handler for Ctrl-C.
CtrlC ==
    /\ Count(SIGINT) <= MaxSent
    /\ sent' = Count(SIGINT)
    /\ Cut => "tty" \in Risks
    /\ IF Cut THEN Exited([Interrupted EXCEPT ![current] = task[current]], timer, current)
       ELSE Resume(Interrupted, timer)

Next ==
    \/ \E t \in Proc :
          \/ Dispatch(t) \/ Preempt(t) \/ Tick(t) \/ Restorer(t) \/ Pop(t)
          \/ Exit(t) \/ Alarm(t)
          \/ \E u \in Proc : Fork(t, u) \/ \E s \in Sig : Kill(t, u, s)
          \/ \E p \in Action : Sigaction(t, p[1], p[2])
          \/ \E m \in Mask : Ssetmask(t, m)
          \/ \E state \in Waits : Block(t, state)
          \/ \E state \in Waits \ {"child"} : Unblock(t, state)
    \/ \E i \in Timer : Expire(i)
    \/ CtrlC

\* The clock interrupts user mode for ever, slices end, the scheduler passes no READY task
\* over for ever, and sleeps and disk accesses end.  Nothing is assumed of programs, keys
\* and children.
Fairness == \A t \in Proc :
    /\ WF_vars(Tick(t)) /\ WF_vars(Preempt(t)) /\ SF_vars(Dispatch(t))
    /\ WF_vars(Unblock(t, "sleep")) /\ WF_vars(Unblock(t, "disk"))

Spec == Init /\ [][Next]_vars /\ Fairness

-----------------------------------------------------------------------------
(* When the code a signal interrupted goes on, its mask is the one it had, *)
(* whatever handlers were nested in between and whatever masks they set    *)
(* (signal.c:144-165, restorer.asm).  It holds for handlers with           *)
(* SIG_NOMASK, which is what signal() registers.                           *)
MaskRestored == \A t \in Proc :
    InRestorer(t) => task[t].blocked = Last(task[t].frames).mask

(* task->alarm points to the timer of the task while it is armed and is    *)
(* NULL else, through renewals, expiry, fork and exit: sys_alarm frees what *)
(* it points to (alarm.c:8, 15-19; timer.c:66).                            *)
AlarmsRight ==
    /\ \A t \in Proc : Alive(t) /\ task[t].alarm # NoTimer => timer[task[t].alarm] = t
    /\ \A i \in Timer : timer[i] # 0 =>
           Alive(timer[i]) /\ task[timer[i]].alarm = i

(* A task that was sent SIGKILL dies, whatever it gives to ssetmask,       *)
(* handles or sleeps for, unless it waits for a key or for a child: those  *)
(* waits take no notice of signals (signal.c:91, 102; task.c:581,          *)
(* keyboard.c:397).  This is about handlers with SIG_NOMASK, which have no *)
(* mask of their own: of others sigaction takes a mask with SIGKILL, which *)
(* blocks it while the handler runs and after it (signal.c:68-72, 165).    *)
KillKills == \A t \in Proc :
    SIGKILL \in task[t].signal ~> task[t].state \in {"free", "key", "child"}

(* The register a call returns its result in holds the result, also when   *)
(* the call was followed by handlers (signal.c:141, handler.asm:207).      *)
ResultKept == \A t \in Proc :
    \A i \in DOMAIN task[t].frames : task[t].frames[i].eax = "result"

(* Ctrl-C: "send SIGINT to the processes of the foreground group"          *)
(* (tty.c:16).  A task of the group has it pending or has got it.          *)
GroupInterrupted == [][CtrlC => \A t \in Foreground :
    Alive(t) => SIGINT \in task'[t].signal \/ task'[t] # task[t]]_vars
=============================================================================
