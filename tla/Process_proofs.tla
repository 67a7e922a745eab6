--------------------------- MODULE Process_proofs ---------------------------
(***************************************************************************)
(* The tree of the tasks, waitpid and the sleep timers, for any size of    *)
(* the task table, any signals and any number of timers.                   *)
(***************************************************************************)
EXTENDS Process, Dispatch_proofs, WellFoundedInduction

States == Parked \cup {"RUNNING", "READY", "DIED", "FREE"}

\* What idle and init are, whom nothing ends: idle makes no system call, and a
\* signal reaches init only from a child that exits.
Servants ==
    /\ state[Idle] \in {"RUNNING", "READY"} /\ state[Init1] \notin {"DIED", "FREE"}
    /\ ppid[Idle] = 0 /\ ppid[Init1] = 0
    /\ sid[Idle] = 0 /\ sid[Init1] \in {0, Init1}
    /\ pending[Idle] = {} /\ pending[Init1] \subseteq {SIGCHLD}
    /\ pc[Idle] \in {"user", "ret"} /\ pc[Init1] \in {"user", "ret", "wait"}

\* The parents of a task lead to idle: a task is not its own ancestor, so that
\* task_exit gives no child to itself.
Ranks(r) == \A t \in Task \ {Idle} : Present(t) => r[ppid[t]] < r[t]
Rooted == \E r \in [Task -> Nat] : Ranks(r)

ProcessInv ==
    /\ TypeOK
    /\ CurrentRunnable
    /\ Servants
    /\ ParentPresent
    /\ DeadHasNoChildren
    /\ Rooted
    /\ NoMissedExit
    /\ NoDanglingTimer

\* The slots: those of idle, of init and of all others.
LEMMA Slots ==
    /\ Idle = 0 /\ Init1 = 1 /\ Idle \in Task /\ Init1 \in Task
    /\ 2 .. NTask - 1 \subseteq Task
    /\ \A t \in Task : t \in 2 .. NTask - 1 <=> t \notin {Idle, Init1}
  BY ProcessAssumption DEF Init1

\* A set of numbers that is not empty has a least element.
LEMMA LeastNumber ==
    ASSUME NEW S \in SUBSET Nat, S # {}
    PROVE  \E x \in S : \A y \in S : x <= y
  <1>1. PICK x \in S : \A y \in S : ~(<<y, x>> \in OpToRel(<, Nat))
    BY NatLessThanWellFounded, WFMin
  <1>2. \A y \in S : ~(y < x)
    BY <1>1 DEF OpToRel
  <1> QED
    BY <1>2

\* get_free_task returns a free slot, which is neither idle's nor init's.
LEMMA FreeSlotIsFree ==
    ASSUME ProcessInv, NEW u \in Task, ~Present(u)
    PROVE  FreeSlot \in 2 .. NTask - 1 /\ ~Present(FreeSlot) /\ FreeSlot # current
  <1> DEFINE S == {t \in Task : ~Present(t)}
  <1>1. PICK x \in S : \A y \in S : x <= y
    <2>1. S \in SUBSET Nat /\ S # {}
      BY ProcessAssumption
    <2> QED
      BY <2>1, LeastNumber
  <1>2. FreeSlot \in Task /\ ~Present(FreeSlot)
    BY <1>1 DEF FreeSlot
  <1> QED
    BY <1>2, ProcessAssumption
       DEF ProcessInv, Servants, CurrentRunnable, Present, Init1

\* schedule() takes no task from a list, puts none on one and revives none.
LEMMA Switched ==
    ASSUME current \in Task, NEW s \in [Task -> States],
           s[Idle] \in {"RUNNING", "READY"}, Schedule(s)
    PROVE  /\ current' \in Task
           /\ state' \in [Task -> States]
           /\ CurrentRunnable'
           /\ state'[Idle] \in {"RUNNING", "READY"}
           /\ \A t \in Task : state'[t] = s[t]
                              \/ {state'[t], s[t]} \subseteq {"RUNNING", "READY"}
  <1>1. /\ current' \in Task
        /\ state' \in [Task -> States]
        /\ state'[current'] = "RUNNING"
        /\ current' = Idle \/ (current' # current /\ s[current'] = "READY")
        /\ \A t \in Task : t # current' =>
             state'[t] = IF t = current /\ s[t] = "RUNNING" THEN "READY"
                         ELSE s[t]
    BY ScheduleEffect DEF States
  <1> QED
    BY <1>1, DispatchAssumption DEF CurrentRunnable
-----------------------------------------------------------------------------
\* Nobody dies, is reaped or gets a slot.
Steady == \A t \in Task : /\ state'[t] = "FREE" <=> state[t] = "FREE"
                          /\ state'[t] = "DIED" <=> state[t] = "DIED"

\* Then the tree is what it was.
LEMMA TreeKept ==
    ASSUME ProcessInv, Steady, ppid' = ppid
    PROVE  ParentPresent' /\ DeadHasNoChildren' /\ Rooted'
  <1>1. \A t \in Task : ppid[t] \in Task
    BY DEF ProcessInv, TypeOK
  <1>2. \A t \in Task : Present(t)' <=> Present(t)
    BY DEF Steady, Present
  <1>3. \A t \in Task : Children(t)' = Children(t)
    BY <1>2, ProcessAssumption DEF Children
  <1>4. ParentPresent'
    BY <1>1, <1>2 DEF ProcessInv, ParentPresent
  <1>5. DeadHasNoChildren'
    BY <1>3 DEF ProcessInv, DeadHasNoChildren, Steady
  <1>6. Rooted'
    <2>1. PICK r \in [Task -> Nat] : Ranks(r)
      BY DEF ProcessInv, Rooted
    <2>2. Ranks(r)'
      BY <1>2, <2>1 DEF Ranks
    <2> QED
      BY <2>2 DEF Rooted
  <1> QED
    BY <1>4, <1>5, <1>6

\* Then a task that waits goes on waiting for a child that lives.
LEMMA WaiterKept ==
    ASSUME ProcessInv, Steady, ppid' = ppid, NEW p \in Task,
           state[p] = "WAITING", waitpid'[p] = waitpid[p]
    PROVE  LET found == {c \in Children(p) : waitpid[p] \in {Any, c}}
           IN  (found # {} /\ \A c \in found : state[c] # "DIED")'
  <1>1. Children(p)' = Children(p) /\ Children(p) \subseteq Task
    BY ProcessAssumption DEF Steady, Present, Children
  <1> QED
    BY <1>1 DEF ProcessInv, NoMissedExit, Steady

LEMMA WaitersKept ==
    ASSUME ProcessInv, Steady, ppid' = ppid,
           \A p \in Task : state'[p] = "WAITING" =>
               state[p] = "WAITING" /\ waitpid'[p] = waitpid[p]
    PROVE  NoMissedExit'
  BY WaiterKept DEF NoMissedExit

\* A machine that panics changes nothing else.
LEMMA PanicInv ==
    ASSUME ProcessInv, NEW why, Panic(why), panic' \in {"none", "task_fork",
           "task_exit", "freed_twice", "kernel_pages", "no_task", "no_parent",
           "null_parent"}
    PROVE  ProcessInv'
  <1> USE DEF ProcessInv, Panic, dispatchVars, taskVars
  <1>1. TypeOK' /\ CurrentRunnable' /\ Servants' /\ NoDanglingTimer'
    BY DEF TypeOK, CurrentRunnable, Servants, NoDanglingTimer
  <1>2. Steady
    BY DEF Steady
  <1> QED
    BY <1>1, <1>2, TreeKept, WaitersKept
-----------------------------------------------------------------------------
\* The child gets a slot in which nobody has a parent.
LEMMA ForkInv ==
    ASSUME ProcessInv, Fork
    PROVE  ProcessInv'
  <1>1. CASE Panic("task_fork") \/ Panic("no_task")
    BY <1>1, PanicInv DEF Panic
  <1>2. CASE ~(Panic("task_fork") \/ Panic("no_task"))
    <2>1. /\ current # Idle /\ pc[current] = "user"
          /\ state' = [state EXCEPT ![FreeSlot] = "READY"]
          /\ ppid' = [ppid EXCEPT ![FreeSlot] = current]
          /\ sid' = [sid EXCEPT ![FreeSlot] = sid[current]]
          /\ waitpid' = [waitpid EXCEPT ![FreeSlot] = waitpid[current]]
          /\ pending' = [pending EXCEPT ![FreeSlot] = pending[current]]
          /\ pc' = [pc EXCEPT ![FreeSlot] = "ret", ![current] = "ret"]
          /\ UNCHANGED <<current, armed, panic>>
          /\ \E u \in Task : ~Present(u)
      BY <1>2 DEF Fork, Syscall, At
    <2>2. PICK child \in 2 .. NTask - 1 :
              child = FreeSlot /\ state[child] = "FREE" /\ child # current
      BY <2>1, FreeSlotIsFree DEF Present
    <2>3. /\ current \in Task /\ child \in Task /\ Idle \in Task /\ Init1 \in Task
          /\ child # Idle /\ child # Init1
          /\ state[current] \in {"RUNNING", "READY"}
      BY <2>2, Slots DEF ProcessInv, TypeOK, CurrentRunnable
    <2>4. TypeOK' /\ CurrentRunnable' /\ NoDanglingTimer'
      BY <2>1, <2>2, <2>3
         DEF ProcessInv, TypeOK, CurrentRunnable, NoDanglingTimer, Parked
    <2>5. Servants'
      BY <2>1, <2>2, <2>3 DEF ProcessInv, TypeOK, Servants
    <2>6. \A t \in Task : Present(t)' <=> Present(t) \/ t = child
      BY <2>1, <2>2, <2>3 DEF ProcessInv, TypeOK, Present
    <2>7. \A t \in Task : Present(t) => ppid[t] # child
      <3>1. Children(child) = {}
        BY <2>2, <2>3 DEF ProcessInv, DeadHasNoChildren
      <3>2. ppid[Idle] # child /\ ppid[Init1] # child
        BY <2>3, Slots DEF ProcessInv, Servants
      <3> QED
        BY <3>1, <3>2, Slots DEF Children
    <2>8. ParentPresent'
      BY <2>1, <2>2, <2>3, <2>6
         DEF ProcessInv, ParentPresent, TypeOK, Present
    <2>9. /\ Children(child)' = {}
          /\ \A t \in Task \ {child, current} : Children(t)' = Children(t)
          /\ Children(current)' = Children(current) \cup {child}
      <3>1. \A t \in Task : ppid'[t] = IF t = child THEN current ELSE ppid[t]
        BY <2>1, <2>2, <2>3 DEF ProcessInv, TypeOK
      <3>2. \A c \in 2 .. NTask - 1 : c \in Task
        BY Slots
      <3>3. ~Present(child)
        BY <2>2 DEF Present
      <3> QED
        BY <2>1, <2>2, <2>3, <2>6, <2>7, <3>1, <3>2, <3>3 DEF Children
    <2>10. DeadHasNoChildren'
      BY <2>1, <2>2, <2>3, <2>9 DEF ProcessInv, DeadHasNoChildren, TypeOK
    <2>11. Rooted'
      <3>1. PICK r \in [Task -> Nat] : Ranks(r)
        BY DEF ProcessInv, Rooted
      <3>2. PICK q \in [Task -> Nat] : q = [r EXCEPT ![child] = r[current] + 1]
        <4>1. [r EXCEPT ![child] = r[current] + 1] \in [Task -> Nat]
          BY <2>3
        <4> QED
          BY <4>1
      <3>3. Ranks(q)'
        <4> SUFFICES ASSUME NEW t \in Task \ {Idle}, Present(t)'
                     PROVE  q[ppid'[t]] < q[t]
          BY DEF Ranks
        <4>1. CASE t = child
          <5>1. ppid'[t] = current
            BY <2>1, <2>2, <2>3, <4>1 DEF ProcessInv, TypeOK
          <5>2. q[t] = r[current] + 1 /\ q[current] = r[current] /\ r[current] \in Nat
            BY <2>2, <2>3, <3>2, <4>1
          <5> QED
            BY <5>1, <5>2
        <4>2. CASE t # child
          <5>1. Present(t) /\ ppid'[t] = ppid[t] /\ ppid[t] # child /\ ppid[t] \in Task
            BY <2>1, <2>2, <2>6, <2>7, <4>2 DEF ProcessInv, TypeOK
          <5> QED
            BY <3>1, <3>2, <4>2, <5>1 DEF Ranks
        <4> QED
          BY <4>1, <4>2
      <3> QED
        BY <3>2, <3>3 DEF Rooted
    <2>12. NoMissedExit'
      <3> SUFFICES ASSUME NEW p \in Task, state'[p] = "WAITING"
                   PROVE  LET found == {c \in Children(p) : waitpid[p] \in {Any, c}}
                          IN  (found # {} /\ \A c \in found : state[c] # "DIED")'
        BY DEF NoMissedExit
      <3>1. p # child /\ p # current /\ state[p] = "WAITING" /\ waitpid'[p] = waitpid[p]
        BY <2>1, <2>2, <2>3 DEF ProcessInv, TypeOK
      <3>2. Children(p)' = Children(p)
        BY <2>9, <3>1
      <3>3. \A t \in Task : state'[t] = "DIED" => state[t] = "DIED"
        BY <2>1, <2>3 DEF ProcessInv, TypeOK
      <3>4. Children(p) \subseteq Task
        BY ProcessAssumption DEF Children
      <3> QED
        BY <3>1, <3>2, <3>3, <3>4 DEF ProcessInv, NoMissedExit
    <2> QED
      BY <2>4, <2>5, <2>8, <2>10, <2>11, <2>12 DEF ProcessInv
  <1> QED
    BY <1>1, <1>2
-----------------------------------------------------------------------------
\* Whom a task that exits has for its parent.
LEMMA ParentLives ==
    ASSUME ProcessInv, current \in 2 .. NTask - 1
    PROVE  /\ Present(current) /\ ppid[current] \in Task /\ ppid[current] # current
           /\ state[ppid[current]] \notin {"DIED", "FREE"}
  <1>1. current \in Task /\ current # Idle /\ Present(current) /\ ppid[current] \in Task
    BY Slots DEF ProcessInv, TypeOK, CurrentRunnable, Present
  <1>2. current \in Children(ppid[current])
    BY <1>1 DEF Children
  <1>3. ppid[current] # current
    BY <1>1 DEF ProcessInv, Rooted, Ranks
  <1> QED
    BY <1>1, <1>2, <1>3 DEF ProcessInv, DeadHasNoChildren

\* What the end of task_exit leaves: the children have a new parent, who has
\* been woken if it waited for the task.  When the disk made task_exit wait the
\* task is not even dead.
LEMMA ExitTailInv ==
    ASSUME ProcessInv, current \in 2 .. NTask - 1,
           NEW s \in [Task -> States],
           \A t \in Task \ {current} : s[t] = state[t],
           s[current] \in {"DIED", "RUNNING", "READY"},
           NEW p \in [Task -> SUBSET (Fatal \cup {SIGHUP, SIGCHLD})],
           p[Idle] = {}, p[Init1] \subseteq {SIGCHLD},
           ExitTail(s, p)
    PROVE  ProcessInv'
  <1>0. PICK parent \in Task, me \in Task : parent = ppid[current] /\ me = current
    BY ParentLives, Slots
  <1> DEFINE woken == IF Wakes(parent) THEN Unblock(s, {parent}) ELSE s
  <1>1. CASE s[parent] = "FREE"
    BY <1>0, <1>1, PanicInv DEF ExitTail, Panic
  <1>2. CASE s[parent] # "FREE"
    <2>1. /\ ppid' = Reparented
          /\ pending' = p
          /\ armed' = [armed EXCEPT ![me] = 0]
          /\ Schedule(woken)
          /\ pc' = [pc EXCEPT ![me] = "gone"]
          /\ UNCHANGED <<sid, waitpid, panic>>
      BY <1>0, <1>2 DEF ExitTail, Disarmed, Goto
    <2>2. /\ me = current /\ me \in 2 .. NTask - 1
          /\ Idle \in Task /\ Init1 \in Task
          /\ me # Idle /\ me # Init1
          /\ 2 .. NTask - 1 \subseteq Task
          /\ Idle \notin 2 .. NTask - 1 /\ Init1 \notin 2 .. NTask - 1
      BY <1>0, Slots
    <2>3. /\ state[me] \notin {"DIED", "FREE", "WAITING"}
          /\ parent = ppid[me] /\ parent # me
          /\ state[parent] \notin {"DIED", "FREE"}
      BY <1>0, ParentLives DEF ProcessInv, CurrentRunnable
    <2>4. /\ woken \in [Task -> States]
          /\ woken[Idle] \in {"RUNNING", "READY"}
          /\ \A t \in Task \ {me, parent} : woken[t] = state[t]
          /\ woken[me] = s[me]
          /\ woken[parent] = IF Wakes(parent) THEN "READY" ELSE state[parent]
      BY <2>2, <2>3 DEF Unblock, ProcessInv, Servants, States
    <2> HIDE DEF woken
    <2>5. /\ current' \in Task /\ state' \in [Task -> States] /\ CurrentRunnable'
          /\ state'[Idle] \in {"RUNNING", "READY"}
          /\ \A t \in Task : state'[t] = woken[t]
                             \/ {state'[t], woken[t]} \subseteq {"RUNNING", "READY"}
      BY <2>1, <2>2, <2>4, Switched
    <2>6. /\ \A t \in Task : state'[t] = "FREE" <=> state[t] = "FREE"
          /\ \A t \in Task \ {me} : state'[t] = "DIED" <=> state[t] = "DIED"
      BY <2>3, <2>4, <2>5 DEF Wakes
    <2>7. \A t \in Task : ppid'[t] = IF t \in Children(me) THEN parent ELSE ppid[t]
      BY <1>0, <2>1 DEF Reparented
    <2>8. \A t \in Task : Present(t)' <=> Present(t)
      BY <2>6 DEF Present
    <2>9. /\ Children(me)' = {}
          /\ \A t \in Task \ {me, parent} : Children(t)' = Children(t)
          /\ Children(parent)' = Children(parent) \cup Children(me)
      BY <2>2, <2>3, <2>7, <2>8 DEF Children
    <2>10. TypeOK'
      <3>1. ppid' \in [Task -> Task]
        BY <2>1, <2>3 DEF Reparented, ProcessInv, TypeOK
      <3> QED
        BY <2>1, <2>2, <2>5, <3>1 DEF ProcessInv, TypeOK, States
    <2>11. Servants'
      <3>1. state'[Init1] \notin {"DIED", "FREE"}
        BY <2>2, <2>6 DEF ProcessInv, Servants
      <3>2. Idle \notin Children(me) /\ Init1 \notin Children(me)
        BY <2>2 DEF Children
      <3> QED
        BY <2>1, <2>2, <2>5, <2>7, <3>1, <3>2 DEF ProcessInv, TypeOK, Servants
    <2>12. ParentPresent'
      BY <2>3, <2>7, <2>8 DEF ProcessInv, ParentPresent, TypeOK, Present
    <2>13. DeadHasNoChildren'
      <3>1. \A t \in Task \ {me} : state'[t] \in {"DIED", "FREE"} => t # parent
        BY <2>3, <2>6
      <3> QED
        BY <2>6, <2>9, <3>1 DEF ProcessInv, DeadHasNoChildren
    <2>14. Rooted'
      <3>1. PICK r \in [Task -> Nat] : Ranks(r)
        BY DEF ProcessInv, Rooted
      <3>2. r[parent] < r[me]
        BY <2>2, <2>3, <3>1 DEF Ranks, Present
      <3>3. \A t \in Children(me) : r[me] < r[t]
        BY <2>2, <3>1 DEF Ranks, Children
      <3>4. Ranks(r)'
        <4> SUFFICES ASSUME NEW t \in Task \ {Idle}, Present(t)
                     PROVE  r[ppid'[t]] < r[t]
          BY <2>8 DEF Ranks
        <4>1. CASE t \in Children(me)
          BY <2>2, <2>3, <2>7, <3>2, <3>3, <4>1
        <4>2. CASE t \notin Children(me)
          BY <2>7, <3>1, <4>2 DEF Ranks
        <4> QED
          BY <4>1, <4>2
      <3> QED
        BY <3>4 DEF Rooted
    <2>15. NoMissedExit'
      <3> SUFFICES ASSUME NEW q \in Task, state'[q] = "WAITING"
                   PROVE  LET found == {c \in Children(q) : waitpid[q] \in {Any, c}}
                          IN  (found # {} /\ \A c \in found : state[c] # "DIED")'
        BY DEF NoMissedExit
      <3> DEFINE found == {c \in Children(q) : waitpid[q] \in {Any, c}}
      <3>1. /\ state[q] = "WAITING" /\ q # me
            /\ q = parent => ~Wakes(parent)
        BY <2>2, <2>3, <2>4, <2>5
      <3>2. /\ found # {} /\ found \subseteq Task
            /\ \A c \in found : state[c] # "DIED"
        BY <3>1, <2>2 DEF ProcessInv, NoMissedExit, Children
      <3>3. me \notin Children(me) /\ (q # parent => me \notin Children(q))
        BY <2>3 DEF Children
      <3>4. CASE q # parent
        BY <2>1, <2>6, <2>9, <3>1, <3>2, <3>3, <3>4
      <3>5. CASE q = parent
        <4>1. waitpid[q] \notin {Any, me}
          BY <2>2, <3>1, <3>5 DEF Wakes
        <4>2. \A c \in Children(q) \cup Children(me) :
                  waitpid[q] \in {Any, c} => c \in found
          BY <3>2, <4>1
        <4> QED
          BY <2>1, <2>6, <2>9, <3>2, <3>5, <4>1, <4>2
      <3> QED
        BY <3>4, <3>5
    <2>16. NoDanglingTimer'
      BY <2>1, <2>2, <2>6 DEF ProcessInv, NoDanglingTimer, TypeOK
    <2> QED
      BY <2>5, <2>10, <2>11, <2>12, <2>13, <2>14, <2>15, <2>16 DEF ProcessInv
  <1> QED
    BY <1>1, <1>2
-----------------------------------------------------------------------------
\* What task_exit sends reaches neither idle nor, but for SIGCHLD, init.
LEMMA NotifiedType ==
    ASSUME ProcessInv, current \in 2 .. NTask - 1
    PROVE  /\ Notified \in [Task -> SUBSET (Fatal \cup {SIGHUP, SIGCHLD})]
           /\ Notified[Idle] = {} /\ Notified[Init1] \subseteq {SIGCHLD}
  <1>1. current \notin {Idle, Init1} /\ current # 0
    BY Slots
  <1>2. sid[Idle] # current /\ sid[Init1] # current
    BY <1>1, Slots DEF ProcessInv, Servants
  <1> QED
    BY <1>1, <1>2, Slots DEF Notified, ProcessInv, TypeOK, Servants

\* task_exit as far as the disk lets it: the three ways it may go.
LEMMA ExitInv ==
    ASSUME ProcessInv, current \in 2 .. NTask - 1, panic = "none",
           NEW p \in SUBSET (Fatal \cup {SIGHUP, SIGCHLD}), Exit(p)
    PROVE  ProcessInv'
  <1> DEFINE died == [state EXCEPT ![current] = "DIED"]
             told == [Notified EXCEPT ![current] = p]
             blocked == [died EXCEPT ![current] = "BLOCKED"]
  <1>1. CASE Panic("task_exit") \/ Panic("no_parent") \/ Panic("kernel_pages")
    BY <1>1, PanicInv DEF Panic
  <1>2. /\ current \in Task /\ current # Idle /\ current # Init1
        /\ state[current] \in {"RUNNING", "READY"}
    BY Slots DEF ProcessInv, CurrentRunnable
  <1>3. /\ told \in [Task -> SUBSET (Fatal \cup {SIGHUP, SIGCHLD})]
        /\ told[Idle] = {} /\ told[Init1] \subseteq {SIGCHLD}
    BY <1>2, NotifiedType, Slots
  <1>4. /\ died \in [Task -> States]
        /\ \A t \in Task \ {current} : died[t] = state[t]
        /\ died[current] = "DIED"
    BY <1>2 DEF ProcessInv, TypeOK, States
  <1>5. CASE ExitTail(died, told)
    <2> HIDE DEF died, told
    <2> QED
      BY <1>3, <1>4, <1>5, ExitTailInv
  <1>6. CASE /\ pending' = told
             /\ armed' = Disarmed
             /\ Schedule(blocked)
             /\ Goto("exit")
             /\ UNCHANGED <<taskVars, panic>>
    <2> HIDE DEF died, told
    <2>1. /\ blocked \in [Task -> States]
          /\ blocked[Idle] \in {"RUNNING", "READY"}
          /\ \A t \in Task \ {current} : blocked[t] = state[t]
          /\ blocked[current] = "BLOCKED"
      <3>1. "BLOCKED" \in States
        BY DEF States, Parked
      <3>2. died[Idle] = state[Idle] /\ state[Idle] \in {"RUNNING", "READY"}
        BY <1>2, <1>4, Slots DEF ProcessInv, Servants
      <3> QED
        BY <1>2, <1>4, <3>1, <3>2, Slots
    <2> HIDE DEF blocked
    <2>2. /\ current' \in Task /\ state' \in [Task -> States] /\ CurrentRunnable'
          /\ state'[Idle] \in {"RUNNING", "READY"}
          /\ \A t \in Task : state'[t] = blocked[t]
                             \/ {state'[t], blocked[t]} \subseteq {"RUNNING", "READY"}
      BY <1>2, <1>6, <2>1, Switched
    <2>3. Steady
      BY <1>2, <2>1, <2>2 DEF Steady
    <2>4. \A t \in Task : state'[t] = "WAITING" => state[t] = "WAITING"
      BY <2>1, <2>2
    <2>5. UNCHANGED <<ppid, sid, waitpid, panic>>
      BY <1>6 DEF taskVars
    <2>6. TypeOK'
      BY <1>2, <1>3, <1>6, <2>2, <2>5
         DEF ProcessInv, TypeOK, States, Disarmed, Goto
    <2>7. Servants'
      BY <1>2, <1>3, <1>6, <2>2, <2>3, <2>5, Slots
         DEF ProcessInv, TypeOK, Servants, Steady, Goto
    <2>8. NoDanglingTimer'
      BY <1>2, <1>6, <2>3
         DEF ProcessInv, TypeOK, NoDanglingTimer, Steady, Disarmed
    <2> QED
      BY <2>2, <2>3, <2>4, <2>5, <2>6, <2>7, <2>8, TreeKept, WaitersKept
         DEF ProcessInv
  <1> QED
    BY <1>1, <1>5, <1>6 DEF Exit

\* exit(), a fatal signal, and task_exit after its wait for the disk.
LEMMA ExitsInv ==
    ASSUME ProcessInv, ExitCall \/ ExitResume
    PROVE  ProcessInv'
  <1>1. CASE ExitCall
    <2>1. current \in 2 .. NTask - 1
      BY <1>1, Slots DEF ExitCall, Syscall, ProcessInv, TypeOK
    <2> QED
      BY <1>1, <2>1, ExitInv DEF ExitCall, Syscall, At, ProcessInv, TypeOK
  <1>2. CASE ExitResume
    <2>1. current \in 2 .. NTask - 1
      BY <1>2, Slots DEF ExitResume, At, ProcessInv, TypeOK, Servants
    <2>2. CASE ExitTail(state, pending)
      BY <2>1, <2>2, ExitTailInv
         DEF ProcessInv, TypeOK, States, CurrentRunnable, Servants
    <2>3. CASE Panic("freed_twice")
      BY <2>3, PanicInv DEF Panic
    <2> QED
      BY <1>2, <2>2, <2>3 DEF ExitResume
  <1> QED
    BY <1>1, <1>2
-----------------------------------------------------------------------------
\* A wake-up of tasks that live, and the switch that may follow it: the states
\* are a type, the tree is steady and nobody begins to wait.
LEMMA WokenSteady ==
    ASSUME ProcessInv, NEW W \in SUBSET Task,
           \A t \in W : state[t] \notin {"DIED", "FREE"},
           \/ state' = Unblock(state, W) /\ UNCHANGED current
           \/ Schedule(Unblock(state, W))
    PROVE  /\ current' \in Task /\ state' \in [Task -> States]
           /\ CurrentRunnable' /\ state'[Idle] \in {"RUNNING", "READY"}
           /\ Steady
           /\ \A t \in Task : state'[t] = "WAITING" => state[t] = "WAITING"
  <1> DEFINE s == Unblock(state, W)
  <1>1. /\ s \in [Task -> States]
        /\ \A t \in Task : s[t] = IF t \in W THEN "READY" ELSE state[t]
        /\ s[Idle] \in {"RUNNING", "READY"}
        /\ current \in Task /\ s[current] \in {"RUNNING", "READY"}
    BY Slots DEF Unblock, ProcessInv, TypeOK, Servants, States, CurrentRunnable
  <1> HIDE DEF s
  <1>2. CASE state' = s /\ UNCHANGED current
    BY <1>1, <1>2 DEF CurrentRunnable, Steady
  <1>3. CASE Schedule(s)
    <2>1. /\ current' \in Task /\ state' \in [Task -> States]
          /\ CurrentRunnable' /\ state'[Idle] \in {"RUNNING", "READY"}
          /\ \A t \in Task : state'[t] = s[t]
                             \/ {state'[t], s[t]} \subseteq {"RUNNING", "READY"}
      BY <1>1, <1>3, Switched
    <2> QED
      BY <1>1, <2>1 DEF Steady
  <1> QED
    BY <1>2, <1>3 DEF s

\* The same when the running task is parked, which idle never is.
LEMMA ParkedSteady ==
    ASSUME ProcessInv, current # Idle, NEW how \in Parked, Block(how)
    PROVE  /\ current' \in Task /\ state' \in [Task -> States]
           /\ CurrentRunnable' /\ state'[Idle] \in {"RUNNING", "READY"}
           /\ Steady
           /\ \A t \in Task : state'[t] = "WAITING" =>
                  state[t] = "WAITING" \/ (t = current /\ how = "WAITING")
  <1> DEFINE s == [state EXCEPT ![current] = how]
  <1>1. /\ s \in [Task -> States]
        /\ \A t \in Task : s[t] = IF t = current THEN how ELSE state[t]
        /\ s[Idle] \in {"RUNNING", "READY"}
        /\ current \in Task /\ state[current] \in {"RUNNING", "READY"}
    BY Slots DEF ProcessInv, TypeOK, Servants, States, CurrentRunnable
  <1>2. Schedule(s)
    BY DEF Block
  <1> HIDE DEF s
  <1>3. /\ current' \in Task /\ state' \in [Task -> States]
        /\ CurrentRunnable' /\ state'[Idle] \in {"RUNNING", "READY"}
        /\ \A t \in Task : state'[t] = s[t]
                           \/ {state'[t], s[t]} \subseteq {"RUNNING", "READY"}
    BY <1>1, <1>2, Switched
  <1>4. how \notin {"DIED", "FREE", "RUNNING", "READY"}
    BY DEF Parked
  <1> QED
    BY <1>1, <1>3, <1>4 DEF Steady
-----------------------------------------------------------------------------
\* The task that has done with the disk wakes one that task_exit has blocked.
LEMMA DiskReleasedInv ==
    ASSUME ProcessInv, DiskReleased
    PROVE  ProcessInv'
  <1>1. PICK t \in Task : pc[t] = "exit" /\ state[t] = "BLOCKED"
                          /\ state' = Unblock(state, {t})
    BY DEF DiskReleased
  <1>2. /\ pc' = [pc EXCEPT ![current] = "ret"]
        /\ UNCHANGED <<current, ppid, sid, waitpid, pending, armed, panic>>
        /\ current # Idle
    BY DEF DiskReleased, Goto, taskVars
  <1>3. {t} \in SUBSET Task /\ \A u \in {t} : state[u] \notin {"DIED", "FREE"}
    BY <1>1
  <1>4. /\ current' \in Task /\ state' \in [Task -> States]
        /\ CurrentRunnable' /\ state'[Idle] \in {"RUNNING", "READY"}
        /\ Steady
        /\ \A u \in Task : state'[u] = "WAITING" => state[u] = "WAITING"
    BY <1>1, <1>2, <1>3, WokenSteady
  <1>5. TypeOK'
    BY <1>2, <1>4 DEF ProcessInv, TypeOK, States
  <1>6. Servants'
    BY <1>2, <1>4, Slots DEF ProcessInv, TypeOK, Servants, Steady
  <1>7. NoDanglingTimer'
    BY <1>2, <1>4 DEF ProcessInv, NoDanglingTimer, Steady
  <1> QED
    BY <1>2, <1>4, <1>5, <1>6, <1>7, TreeKept, WaitersKept DEF ProcessInv
-----------------------------------------------------------------------------
\* Reaping frees the slot of a dead child, which has no children.
LEMMA ReapInv ==
    ASSUME ProcessInv, NEW c \in Children(current), state[c] = "DIED",
           state' = [state EXCEPT ![c] = "FREE"], Goto("ret"),
           UNCHANGED <<current, taskVars, pending, armed, panic>>
    PROVE  ProcessInv'
  <1>1. /\ UNCHANGED <<current, ppid, sid, waitpid, pending, armed, panic>>
        /\ pc' = [pc EXCEPT ![current] = "ret"]
    BY DEF taskVars, Goto
  <1>2. PICK d \in 2 .. NTask - 1 : d = c
    BY DEF Children
  <1>3. /\ d \in Task /\ d # Idle /\ d # Init1 /\ d # current
        /\ state[d] = "DIED" /\ Children(d) = {}
    BY <1>2, Slots DEF ProcessInv, DeadHasNoChildren, CurrentRunnable
  <1>4. \A t \in Task : state'[t] = IF t = d THEN "FREE" ELSE state[t]
    BY <1>2 DEF ProcessInv, TypeOK
  <1>5. TypeOK' /\ CurrentRunnable' /\ NoDanglingTimer'
    BY <1>1, <1>2, <1>3, <1>4
       DEF ProcessInv, TypeOK, CurrentRunnable, NoDanglingTimer
  <1>6. Servants'
    BY <1>1, <1>3, <1>4, Slots DEF ProcessInv, TypeOK, Servants
  <1>7. \A t \in Task : Present(t)' <=> Present(t) /\ t # d
    BY <1>3, <1>4 DEF Present
  <1>8. \A t \in Task : Present(t) => ppid[t] # d
    BY <1>3, Slots DEF Children, ProcessInv, Servants
  <1>9. ParentPresent'
    BY <1>1, <1>7, <1>8 DEF ProcessInv, TypeOK, ParentPresent
  <1>10. \A t \in Task : Children(t)' = Children(t) \ {d}
    BY <1>1, <1>7, Slots DEF Children
  <1>11. DeadHasNoChildren'
    BY <1>3, <1>4, <1>10 DEF ProcessInv, DeadHasNoChildren
  <1>12. Rooted'
    <2>1. PICK r \in [Task -> Nat] : Ranks(r)
      BY DEF ProcessInv, Rooted
    <2>2. Ranks(r)'
      BY <1>1, <1>7, <2>1 DEF Ranks
    <2> QED
      BY <2>2 DEF Rooted
  <1>13. NoMissedExit'
    <2> SUFFICES ASSUME NEW p \in Task, state'[p] = "WAITING"
                 PROVE  LET found == {e \in Children(p) : waitpid[p] \in {Any, e}}
                        IN  (found # {} /\ \A e \in found : state[e] # "DIED")'
      BY DEF NoMissedExit
    <2> DEFINE found == {e \in Children(p) : waitpid[p] \in {Any, e}}
    <2>1. state[p] = "WAITING"
      BY <1>3, <1>4
    <2>2. found # {} /\ found \subseteq Task /\ \A e \in found : state[e] # "DIED"
      BY <2>1, Slots DEF ProcessInv, NoMissedExit, Children
    <2>3. d \notin found
      BY <1>3, <2>2
    <2> QED
      BY <1>1, <1>4, <1>10, <2>2, <2>3
  <1> QED
    BY <1>5, <1>6, <1>9, <1>11, <1>12, <1>13 DEF ProcessInv

\* A step that leaves the states and the parents alone and moves the running
\* task to a place where it may be, with no change for idle and init.
LEMMA QuietInv ==
    ASSUME ProcessInv, UNCHANGED <<state, current, ppid, armed, panic>>,
           NEW place \in {"user", "ret"}, Goto(place), TypeOK',
           sid'[Idle] = 0, sid'[Init1] \in {0, Init1},
           pending'[Idle] = {}, pending'[Init1] \subseteq {SIGCHLD},
           waitpid' = waitpid
    PROVE  ProcessInv'
  <1>1. pc' = [pc EXCEPT ![current] = place]
    BY DEF Goto
  <1>2. Steady
    BY DEF Steady
  <1>3. CurrentRunnable' /\ NoDanglingTimer'
    BY DEF ProcessInv, CurrentRunnable, NoDanglingTimer
  <1>4. Servants'
    <2>1. /\ pc'[Idle] \in {"user", "ret"}
          /\ pc'[Init1] \in {"user", "ret", "wait"}
      <3>1. pc \in [Task -> {"user", "ret", "wait", "exit", "gone"}]
        BY DEF ProcessInv, TypeOK
      <3> QED
        BY <1>1, <3>1, Slots DEF ProcessInv, Servants
    <2> QED
      BY <2>1 DEF ProcessInv, Servants
  <1> QED
    BY <1>2, <1>3, <1>4, TreeKept, WaitersKept DEF ProcessInv

\* waitpid goes to sleep only when it has seen a child to wait for and none
\* that has died; a task that was woken looks again.
LEMMA WaitLoopInv ==
    ASSUME ProcessInv, current # Idle, NEW pid \in Task \cup {Any},
           pc[current] \in {"user", "wait"}, WaitLoop(pid)
    PROVE  ProcessInv'
  <1> DEFINE found == {c \in Children(current) : pid \in {Any, c}}
             dead == {c \in found : state[c] = "DIED"}
  <1>0. PICK me \in Task : me = current
    BY DEF ProcessInv, TypeOK
  <1>1. CASE /\ \E c \in dead : state' = [state EXCEPT ![c] = "FREE"]
             /\ Goto("ret")
             /\ UNCHANGED <<current, taskVars, pending, armed, panic>>
    BY <1>1, ReapInv
  <1>2. CASE /\ dead = {} /\ found # {}
             /\ waitpid' = [waitpid EXCEPT ![current] = pid]
             /\ Block("WAITING")
             /\ Goto("wait")
             /\ UNCHANGED <<ppid, sid, pending, armed, panic>>
    <2>1. /\ current' \in Task /\ state' \in [Task -> States]
          /\ CurrentRunnable' /\ state'[Idle] \in {"RUNNING", "READY"}
          /\ Steady
          /\ \A t \in Task : state'[t] = "WAITING" =>
                 state[t] = "WAITING" \/ t = current
      BY <1>2, ParkedSteady DEF Parked
    <2>2. /\ pc' = [pc EXCEPT ![me] = "wait"]
          /\ waitpid' = [waitpid EXCEPT ![me] = pid]
          /\ UNCHANGED <<ppid, sid, pending, armed, panic>>
          /\ me # Idle /\ me \in Task
      BY <1>0, <1>2 DEF Goto
    <2>3. TypeOK'
      BY <2>1, <2>2, ProcessAssumption, Slots DEF ProcessInv, TypeOK, States
    <2>4. Servants'
      <3>1. state'[Init1] \notin {"DIED", "FREE"}
        BY <2>1, Slots DEF ProcessInv, Servants, Steady
      <3>2. /\ pc'[Idle] \in {"user", "ret"}
            /\ pc'[Init1] \in {"user", "ret", "wait"}
        BY <2>2, Slots DEF ProcessInv, TypeOK, Servants
      <3> QED
        BY <2>1, <2>2, <3>1, <3>2 DEF ProcessInv, Servants
    <2>5. NoDanglingTimer'
      BY <2>1, <2>2 DEF ProcessInv, NoDanglingTimer, Steady
    <2>6. NoMissedExit'
      <3> SUFFICES ASSUME NEW p \in Task, state'[p] = "WAITING"
                   PROVE  LET seen == {c \in Children(p) : waitpid[p] \in {Any, c}}
                          IN  (seen # {} /\ \A c \in seen : state[c] # "DIED")'
        BY DEF NoMissedExit
      <3>1. CASE p # me
        <4>1. waitpid'[p] = waitpid[p] /\ state[p] = "WAITING"
          BY <1>0, <2>1, <2>2, <3>1 DEF ProcessInv, TypeOK
        <4> QED
          BY <2>1, <2>2, <4>1, WaiterKept
      <3>2. CASE p = me
        <4>1. waitpid'[p] = pid
          BY <2>2, <3>2 DEF ProcessInv, TypeOK
        <4>2. Children(p)' = Children(p) /\ Children(p) \subseteq Task
          BY <2>1, <2>2, Slots DEF Children, Present, Steady
        <4>3. found # {} /\ \A c \in found : c \in Task /\ state'[c] # "DIED"
          BY <1>0, <1>2, <2>1, <3>2, <4>2 DEF Steady
        <4> QED
          BY <1>0, <3>2, <4>1, <4>2, <4>3
      <3> QED
        BY <3>1, <3>2
    <2> QED
      BY <2>1, <2>2, <2>3, <2>4, <2>5, <2>6, TreeKept DEF ProcessInv
  <1>3. CASE /\ Goto("ret")
             /\ UNCHANGED <<dispatchVars, taskVars, pending, armed, panic>>
    <2>1. TypeOK'
      BY <1>3 DEF Goto, dispatchVars, taskVars, ProcessInv, TypeOK
    <2> QED
      BY <1>3, <2>1, QuietInv DEF dispatchVars, taskVars, ProcessInv, Servants
  <1> QED
    BY <1>1, <1>2, <1>3 DEF WaitLoop

LEMMA WaitInv ==
    ASSUME ProcessInv, WaitPid \/ WaitResume
    PROVE  ProcessInv'
  <1>1. CASE WaitPid
    BY <1>1, WaitLoopInv, Slots DEF WaitPid, Syscall, At
  <1>2. CASE WaitResume
    <2>1. current # Idle /\ pc[current] = "wait"
      BY <1>2 DEF WaitResume, At, ProcessInv, Servants
    <2> QED
      BY <1>2, <2>1, WaitLoopInv DEF WaitResume, ProcessInv, TypeOK
  <1> QED
    BY <1>1, <1>2
-----------------------------------------------------------------------------
\* A signal recorded for a live task other than idle and init.
LEMMA KillInv ==
    ASSUME ProcessInv, Kill
    PROVE  ProcessInv'
  <1>1. PICK t \in Task \ {Idle, Init1}, sig \in Fatal :
            /\ Present(t)
            /\ pending' = [pending EXCEPT ![t] = @ \cup {sig}]
            /\ state' = IF state[t] \in {"WAITING", "SLEEPING"}
                        THEN Unblock(state, {t}) ELSE state
    BY ProcessAssumption DEF Kill
  <1>2. /\ pc' = [pc EXCEPT ![current] = "ret"] /\ current # Idle
        /\ UNCHANGED <<current, ppid, sid, waitpid, armed, panic>>
    BY DEF Kill, Syscall, Goto, taskVars
  <1>3. /\ current' \in Task /\ state' \in [Task -> States]
        /\ CurrentRunnable' /\ state'[Idle] \in {"RUNNING", "READY"}
        /\ Steady
        /\ \A u \in Task : state'[u] = "WAITING" => state[u] = "WAITING"
    <2>1. CASE state[t] \in {"WAITING", "SLEEPING"}
      <3>1. {t} \in SUBSET Task /\ \A u \in {t} : state[u] \notin {"DIED", "FREE"}
        BY <2>1
      <3> QED
        BY <1>1, <1>2, <2>1, <3>1, WokenSteady
    <2>2. CASE state[t] \notin {"WAITING", "SLEEPING"}
      <3>1. state' = state
        BY <1>1, <2>2
      <3> QED
        BY <1>2, <3>1
           DEF ProcessInv, TypeOK, States, CurrentRunnable, Servants, Steady
    <2> QED
      BY <2>1, <2>2
  <1>4. TypeOK'
    BY <1>1, <1>2, <1>3 DEF ProcessInv, TypeOK, States
  <1>5. Servants'
    <2>1. state'[Init1] \notin {"DIED", "FREE"}
      BY <1>3, Slots DEF ProcessInv, Servants, Steady
    <2>2. pending'[Idle] = pending[Idle] /\ pending'[Init1] = pending[Init1]
      BY <1>1, Slots DEF ProcessInv, TypeOK
    <2>3. /\ pc'[Idle] \in {"user", "ret"}
          /\ pc'[Init1] \in {"user", "ret", "wait"}
      BY <1>2, Slots DEF ProcessInv, TypeOK, Servants
    <2> QED
      BY <1>2, <1>3, <2>1, <2>2, <2>3 DEF ProcessInv, Servants
  <1>6. NoDanglingTimer'
    BY <1>2, <1>3 DEF ProcessInv, NoDanglingTimer, Steady
  <1> QED
    BY <1>2, <1>3, <1>4, <1>5, <1>6, TreeKept, WaitersKept DEF ProcessInv

\* A sleeper arms a timer for itself.
LEMMA SleepInv ==
    ASSUME ProcessInv, Sleep
    PROVE  ProcessInv'
  <1>1. /\ pc' = [pc EXCEPT ![current] = "ret"] /\ current # Idle
        /\ armed' = [armed EXCEPT ![current] = @ + 1]
        /\ UNCHANGED <<ppid, sid, waitpid, pending, panic>>
        /\ Block("SLEEPING")
    BY DEF Sleep, Syscall, Goto, taskVars
  <1>2. /\ current' \in Task /\ state' \in [Task -> States]
        /\ CurrentRunnable' /\ state'[Idle] \in {"RUNNING", "READY"}
        /\ Steady
        /\ \A u \in Task : state'[u] = "WAITING" => state[u] = "WAITING"
    BY <1>1, ParkedSteady DEF Parked
  <1>3. TypeOK'
    <2>1. armed' \in [Task -> Nat]
      BY <1>1 DEF ProcessInv, TypeOK
    <2>2. pc' \in [Task -> {"user", "ret", "wait", "exit", "gone"}]
      BY <1>1 DEF ProcessInv, TypeOK
    <2> QED
      BY <1>1, <1>2, <2>1, <2>2 DEF ProcessInv, TypeOK, States
  <1>4. Servants'
    <2>1. state'[Init1] \notin {"DIED", "FREE"}
      BY <1>2, Slots DEF ProcessInv, Servants, Steady
    <2>2. /\ pc'[Idle] \in {"user", "ret"}
          /\ pc'[Init1] \in {"user", "ret", "wait"}
      BY <1>1, Slots DEF ProcessInv, TypeOK, Servants
    <2> QED
      BY <1>1, <1>2, <2>1, <2>2 DEF ProcessInv, Servants
  <1>5. NoDanglingTimer'
    BY <1>1, <1>2
       DEF ProcessInv, TypeOK, CurrentRunnable, NoDanglingTimer, Steady
  <1> QED
    BY <1>1, <1>2, <1>3, <1>4, <1>5, TreeKept, WaitersKept DEF ProcessInv

\* setsid, and a return without a fatal signal, touch no state of a task.
LEMMA SetsidInv ==
    ASSUME ProcessInv, Setsid
    PROVE  ProcessInv'
  <1>1. /\ UNCHANGED <<state, current, ppid, armed, panic, pending, waitpid>>
        /\ Goto("ret") /\ current # Idle
        /\ sid' = [sid EXCEPT ![current] = current]
    BY DEF Setsid, Syscall, dispatchVars
  <1>2. TypeOK'
    <2>1. current \in Task /\ sid' \in [Task -> Task]
      BY <1>1 DEF ProcessInv, TypeOK
    <2>2. pc' \in [Task -> {"user", "ret", "wait", "exit", "gone"}]
      BY <1>1 DEF Goto, ProcessInv, TypeOK
    <2> QED
      BY <1>1, <2>1, <2>2 DEF ProcessInv, TypeOK
  <1>3. sid'[Idle] = 0 /\ sid'[Init1] \in {0, Init1}
    BY <1>1, Slots DEF ProcessInv, TypeOK, Servants
  <1> QED
    BY <1>1, <1>2, <1>3, QuietInv DEF ProcessInv, Servants

\* A timer that is due wakes a task that lives: the clock revives nobody.
LEMMA ClockInv ==
    ASSUME ProcessInv, Clock
    PROVE  ProcessInv'
  <1>1. PICK due \in SUBSET Task :
            /\ \A t \in due : armed[t] > 0
            /\ armed' = [t \in Task |-> IF t \in due THEN armed[t] - 1 ELSE armed[t]]
            /\ \/ Schedule(Unblock(state, due))
               \/ state' = Unblock(state, due) /\ UNCHANGED current
    BY DEF Clock
  <1>2. /\ pc' = [pc EXCEPT ![current] = "ret"]
        /\ UNCHANGED <<ppid, sid, waitpid, pending, panic>>
    BY DEF Clock, Goto, taskVars
  <1>3. \A t \in due : state[t] \notin {"DIED", "FREE"}
    <2> SUFFICES ASSUME NEW t \in due PROVE state[t] \notin {"DIED", "FREE"}
      OBVIOUS
    <2>1. armed[t] # 0
      BY <1>1 DEF ProcessInv, TypeOK
    <2> QED
      BY <2>1 DEF ProcessInv, NoDanglingTimer
  <1>4. /\ current' \in Task /\ state' \in [Task -> States]
        /\ CurrentRunnable' /\ state'[Idle] \in {"RUNNING", "READY"}
        /\ Steady
        /\ \A u \in Task : state'[u] = "WAITING" => state[u] = "WAITING"
    BY <1>1, <1>3, WokenSteady
  <1>5. TypeOK'
    <2>1. ASSUME NEW t \in Task
          PROVE  (IF t \in due THEN armed[t] - 1 ELSE armed[t]) \in Nat
      BY <1>1 DEF ProcessInv, TypeOK
    <2>2. armed' \in [Task -> Nat]
      BY <1>1, <2>1
    <2> QED
      BY <1>2, <1>4, <2>2 DEF ProcessInv, TypeOK, States
  <1>6. Servants'
    <2>1. state'[Init1] \notin {"DIED", "FREE"}
      BY <1>4, Slots DEF ProcessInv, Servants, Steady
    <2>2. /\ pc'[Idle] \in {"user", "ret"}
          /\ pc'[Init1] \in {"user", "ret", "wait"}
      BY <1>2, Slots DEF ProcessInv, TypeOK, Servants
    <2> QED
      BY <1>2, <1>4, <2>1, <2>2 DEF ProcessInv, Servants
  <1>7. NoDanglingTimer'
    BY <1>1, <1>3, <1>4 DEF ProcessInv, NoDanglingTimer, Steady
  <1> QED
    BY <1>2, <1>4, <1>5, <1>6, <1>7, TreeKept, WaitersKept DEF ProcessInv

\* task_signal ends neither idle nor init, whom no fatal signal reaches.
LEMMA ReturnInv ==
    ASSUME ProcessInv, Return
    PROVE  ProcessInv'
  <1>1. CASE /\ Goto("user") /\ pending[current] = {}
             /\ UNCHANGED <<dispatchVars, taskVars, pending, armed, panic>>
    <2>1. TypeOK'
      BY <1>1 DEF Goto, dispatchVars, taskVars, ProcessInv, TypeOK
    <2> QED
      BY <1>1, <2>1, QuietInv DEF dispatchVars, taskVars, ProcessInv, Servants
  <1>2. ASSUME NEW sig \in pending[current], sig = SIGCHLD, Goto("user"),
               pending' = [pending EXCEPT ![current] = pending[current] \ {sig}],
               UNCHANGED <<dispatchVars, taskVars, armed, panic>>
        PROVE  ProcessInv'
    <2>1. TypeOK'
      BY <1>2 DEF Goto, dispatchVars, taskVars, ProcessInv, TypeOK
    <2>2. pending'[Idle] = {} /\ pending'[Init1] \subseteq {SIGCHLD}
      BY <1>2, Slots DEF ProcessInv, TypeOK, Servants
    <2> QED
      BY <1>2, <2>1, <2>2, QuietInv DEF dispatchVars, taskVars, ProcessInv, Servants
  <1>3. ASSUME NEW sig \in pending[current], sig # SIGCHLD,
               Exit(pending[current] \ {sig})
        PROVE  ProcessInv'
    <2>1. current \in 2 .. NTask - 1
      BY <1>3, Slots DEF ProcessInv, TypeOK, Servants
    <2>2. pending[current] \ {sig} \in SUBSET (Fatal \cup {SIGHUP, SIGCHLD})
      BY DEF ProcessInv, TypeOK
    <2> QED
      BY <1>3, <2>1, <2>2, ExitInv DEF Return, At
  <1> QED
    BY <1>1, <1>2, <1>3 DEF Return

\* A dead task that is dispatched gives the processor away.
LEMMA GoneRunsInv ==
    ASSUME ProcessInv, GoneRuns
    PROVE  ProcessInv'
  <1>1. UNCHANGED <<ppid, sid, waitpid, pending, armed, pc, panic>>
    BY DEF GoneRuns, taskVars
  <1>2. /\ current' \in Task /\ state' \in [Task -> States]
        /\ CurrentRunnable' /\ state'[Idle] \in {"RUNNING", "READY"}
        /\ \A t \in Task : state'[t] = state[t]
                           \/ {state'[t], state[t]} \subseteq {"RUNNING", "READY"}
    BY Switched DEF GoneRuns, ProcessInv, TypeOK, Servants, States
  <1>3. /\ Steady
        /\ \A u \in Task : state'[u] = "WAITING" => state[u] = "WAITING"
    BY <1>2 DEF Steady
  <1>4. TypeOK'
    BY <1>1, <1>2 DEF ProcessInv, TypeOK, States
  <1>5. Servants'
    BY <1>1, <1>2, <1>3, Slots DEF ProcessInv, Servants, Steady
  <1>6. NoDanglingTimer'
    BY <1>1, <1>3 DEF ProcessInv, NoDanglingTimer, Steady
  <1> QED
    BY <1>1, <1>2, <1>3, <1>4, <1>5, <1>6, TreeKept, WaitersKept DEF ProcessInv
-----------------------------------------------------------------------------
\* idle and init are there, the test thread sleeps, and all have idle for
\* their parent.
LEMMA InitInv == Init => ProcessInv
  <1> SUFFICES ASSUME Init PROVE ProcessInv
    OBVIOUS
  <1>1. TypeOK
    BY Slots DEF Init, TypeOK, Parked
  <1>2. CurrentRunnable /\ Servants /\ ParentPresent
    BY Slots, ProcessAssumption
       DEF Init, CurrentRunnable, Servants, ParentPresent, Present
  <1>3. DeadHasNoChildren
    BY Slots DEF Init, DeadHasNoChildren, Children
  <1>4. Rooted
    <2>1. PICK r \in [Task -> Nat] : r = [t \in Task |-> IF t = Idle THEN 0 ELSE 1]
      <3>1. [t \in Task |-> IF t = Idle THEN 0 ELSE 1] \in [Task -> Nat]
        OBVIOUS
      <3> QED
        BY <3>1
    <2>2. Ranks(r)
      BY <2>1, Slots DEF Init, Ranks
    <2> QED
      BY <2>2 DEF Rooted
  <1>5. NoMissedExit /\ NoDanglingTimer
    BY DEF Init, NoMissedExit, NoDanglingTimer
  <1> QED
    BY <1>1, <1>2, <1>3, <1>4, <1>5 DEF ProcessInv

LEMMA NextInv == ProcessInv /\ [Next]_vars => ProcessInv'
  <1> SUFFICES ASSUME ProcessInv, [Next]_vars
               PROVE  ProcessInv'
    OBVIOUS
  <1>1. CASE UNCHANGED vars
    <2>1. UNCHANGED <<state, current, ppid, sid, waitpid, pending, armed, pc, panic>>
      BY <1>1 DEF vars, dispatchVars, taskVars
    <2>2. TypeOK' /\ CurrentRunnable' /\ Servants' /\ NoDanglingTimer'
      BY <2>1 DEF ProcessInv, TypeOK, CurrentRunnable, Servants, NoDanglingTimer
    <2>3. Steady
      BY <2>1 DEF Steady
    <2> QED
      BY <2>1, <2>2, <2>3, TreeKept, WaitersKept DEF ProcessInv
  <1>2. CASE Next
    BY <1>1, <1>2, ForkInv, ExitsInv, DiskReleasedInv, WaitInv, KillInv,
       SleepInv, SetsidInv, ClockInv, ReturnInv, GoneRunsInv
       DEF Next, Halted
  <1> QED
    BY <1>1, <1>2

LEMMA ProcessInvariant == Spec => []ProcessInv
  BY InitInv, NextInv, PTL DEF Spec
-----------------------------------------------------------------------------
\* Every value keeps its type; the timers armed for a task are a number that
\* no clock interrupt makes negative (timer.c:66-77).
THEOREM ProcessType == Spec => []TypeOK
  <1>1. ProcessInv => TypeOK
    BY DEF ProcessInv
  <1> QED
    BY <1>1, ProcessInvariant, PTL

\* The tree of the tasks stays whole for any size of the table and in every
\* order of exits, reaps and reuse of slots (task_exit, task.c:529-545;
\* task_waitpid, 569-576).
THEOREM Family == Spec => []FamilyRight
  <1>1. ProcessInv => FamilyRight
    BY DEF ProcessInv, FamilyRight
  <1> QED
    BY <1>1, ProcessInvariant, PTL

\* No exit that leaves its task DIED is missed by a task in waitpid (task.c:555-
\* 583 with 530-545).
THEOREM Exits == Spec => []NoMissedExit
  <1>1. ProcessInv => NoMissedExit
    BY DEF ProcessInv
  <1> QED
    BY <1>1, ProcessInvariant, PTL

\* No timer is left of a task that has exited (task.c:508, timer.c:66-77).
THEOREM Timers == Spec => []NoDanglingTimer
  <1>1. ProcessInv => NoDanglingTimer
    BY DEF ProcessInv
  <1> QED
    BY <1>1, ProcessInvariant, PTL
-----------------------------------------------------------------------------
\* While no task_exit waits for the disk: nobody is in the middle of one, and
\* who has reached its end is dead.
ExitsAtOnce ==
    \A t \in Task : /\ pc[t] # "exit"
                    /\ pc[t] = "gone" => state[t] \in {"DIED", "FREE"}

\* What an action that is not part of an exit keeps of it: the dead stay dead,
\* and the running task, which is none of them, goes elsewhere.
LEMMA ExitsKept ==
    ASSUME ProcessInv, ExitsAtOnce, NEW place \in {"user", "ret", "wait"},
           \/ Goto(place)
           \/ pc' = pc,
           \A t \in Task : state[t] \in {"DIED", "FREE"} => state'[t] \in {"DIED", "FREE"}
    PROVE  ExitsAtOnce'
  <1>1. \A t \in Task : pc'[t] = pc[t] \/ pc'[t] = place
    BY DEF Goto, ProcessInv, TypeOK
  <1> QED
    BY <1>1 DEF ExitsAtOnce

\* task_exit that does not wait: the task dies and stays dead.
LEMMA ExitAtOnce ==
    ASSUME ProcessInv, ExitsAtOnce, ~ExitBlocks, NEW p, Exit(p),
           current \in 2 .. NTask - 1
    PROVE  ExitsAtOnce'
  <1> DEFINE died == [state EXCEPT ![current] = "DIED"]
             parent == ppid[current]
             woken == IF Wakes(parent) THEN Unblock(died, {parent}) ELSE died
  <1>1. CASE UNCHANGED <<state, pc>>
    BY <1>1 DEF ExitsAtOnce
  <1>2. CASE Schedule(woken) /\ Goto("gone")
    <2>1. /\ current \in Task /\ current # Idle /\ parent \in Task
          /\ state[current] \in {"RUNNING", "READY"}
          /\ Wakes(parent) => state[parent] = "WAITING"
      BY Slots DEF ProcessInv, TypeOK, CurrentRunnable, Wakes
    <2>2. /\ woken \in [Task -> States]
          /\ woken[Idle] \in {"RUNNING", "READY"}
          /\ woken[current] = "DIED"
          /\ \A t \in Task : state[t] \in {"DIED", "FREE"} => woken[t] = state[t]
      BY <2>1, Slots DEF ProcessInv, TypeOK, Servants, States, Unblock
    <2> HIDE DEF woken
    <2>3. \A t \in Task : state'[t] = woken[t]
                           \/ {state'[t], woken[t]} \subseteq {"RUNNING", "READY"}
      BY <1>2, <2>1, <2>2, Switched
    <2>4. \A t \in Task : pc'[t] = IF t = current THEN "gone" ELSE pc[t]
      BY <1>2 DEF Goto, ProcessInv, TypeOK
    <2> QED
      BY <2>1, <2>2, <2>3, <2>4 DEF ExitsAtOnce
  <1> QED
    BY <1>1, <1>2 DEF Exit, ExitTail, Panic, dispatchVars

\* No other action begins an exit, revives a dead task or dispatches one.
LEMMA ExitsAtOnceNext ==
    ASSUME ProcessInv, ExitsAtOnce, ~ExitBlocks, [Next]_vars
    PROVE  ExitsAtOnce'
  <1>1. CASE UNCHANGED <<state, pc>>
    BY <1>1 DEF ExitsAtOnce
  <1>2. CASE Fork
    <2>1. CASE UNCHANGED <<state, pc>>
      BY <1>1, <2>1
    <2>2. CASE ~UNCHANGED <<state, pc>>
      <3>1. /\ state' = [state EXCEPT ![FreeSlot] = "READY"]
            /\ pc' = [pc EXCEPT ![FreeSlot] = "ret", ![current] = "ret"]
        BY <1>2, <2>2 DEF Fork, Panic, dispatchVars
      <3>2. \A t \in Task : \/ pc'[t] = "ret"
                            \/ pc'[t] = pc[t] /\ state'[t] = state[t]
        BY <3>1 DEF ProcessInv, TypeOK
      <3> QED
        BY <3>2 DEF ExitsAtOnce
    <2> QED
      BY <2>1, <2>2
  <1>3. CASE ExitCall
    <2>1. current \in 2 .. NTask - 1
      BY <1>3, Slots DEF ExitCall, Syscall, ProcessInv, TypeOK
    <2> QED
      BY <1>3, <2>1, ExitAtOnce DEF ExitCall
  <1>4. CASE ExitResume \/ DiskReleased
    BY <1>4 DEF ExitResume, DiskReleased, At, ExitsAtOnce, ProcessInv, TypeOK
  <1>5. ASSUME NEW pid, current # Idle, WaitLoop(pid) PROVE ExitsAtOnce'
    <2>1. CASE UNCHANGED state /\ Goto("ret")
      BY <2>1, ExitsKept
    <2>2. ASSUME NEW c \in Task, state' = [state EXCEPT ![c] = "FREE"], Goto("ret")
          PROVE  ExitsAtOnce'
      BY <2>2, ExitsKept DEF ProcessInv, TypeOK
    <2>3. CASE Block("WAITING") /\ Goto("wait")
      <3>1. Steady
        BY <1>5, <2>3, ParkedSteady DEF Parked
      <3> QED
        BY <2>3, <3>1, ExitsKept DEF Steady
    <2>4. Children(current) \subseteq Task
      BY Slots DEF Children
    <2> QED
      BY <1>5, <2>1, <2>2, <2>3, <2>4 DEF WaitLoop, dispatchVars
  <1>6. CASE WaitPid \/ WaitResume
    BY <1>5, <1>6 DEF WaitPid, WaitResume, Syscall, At, ProcessInv, Servants
  <1>7. CASE Kill
    BY <1>7, ExitsKept, ProcessAssumption DEF Kill, Unblock
  <1>8. CASE Sleep
    <2>1. Steady
      BY <1>8, ParkedSteady DEF Sleep, Syscall, Parked
    <2> QED
      BY <1>8, <2>1, ExitsKept DEF Sleep, Steady
  <1>9. CASE Setsid
    BY <1>9, ExitsKept DEF Setsid, dispatchVars
  <1>10. CASE Clock
    <2>1. PICK due \in SUBSET Task :
              /\ \A t \in due : armed[t] > 0
              /\ \/ Schedule(Unblock(state, due))
                 \/ state' = Unblock(state, due) /\ UNCHANGED current
      BY <1>10 DEF Clock
    <2>2. \A t \in due : state[t] \notin {"DIED", "FREE"}
      <3>1. \A t \in due : armed[t] # 0
        BY <2>1 DEF ProcessInv, TypeOK
      <3> QED
        BY <3>1 DEF ProcessInv, NoDanglingTimer
    <2>3. Steady
      BY <2>1, <2>2, WokenSteady
    <2> QED
      BY <1>10, <2>3, ExitsKept DEF Clock, Steady
  <1>11. CASE Return
    <2>1. CASE UNCHANGED state /\ Goto("user")
      BY <2>1, ExitsKept
    <2>2. ASSUME NEW sig \in pending[current], sig # SIGCHLD,
                 Exit(pending[current] \ {sig})
          PROVE  ExitsAtOnce'
      <3>1. current \in 2 .. NTask - 1
        BY <2>2, Slots DEF ProcessInv, TypeOK, Servants
      <3> QED
        BY <2>2, <3>1, ExitAtOnce
    <2> QED
      BY <1>11, <2>1, <2>2 DEF Return, dispatchVars
  <1>12. CASE GoneRuns
    BY <1>12 DEF GoneRuns, At, ExitsAtOnce, ProcessInv, TypeOK, CurrentRunnable
  <1> QED
    BY <1>1, <1>2, <1>3, <1>4, <1>6, <1>7, <1>8, <1>9, <1>10, <1>11, <1>12
       DEF Next, Halted, vars, dispatchVars

\* While no task_exit has to wait for the disk, a task that has exited is dead
\* until it is reaped, and its parent finds it (task.c:501, 569): the wait is
\* what brings an exited task back.
THEOREM DeadStayDead ==
    ASSUME ~ExitBlocks
    PROVE  Spec => []ExitedIsDead
  <1>1. Init => ExitsAtOnce
    BY Slots DEF Init, ExitsAtOnce
  <1>2. ProcessInv /\ ExitsAtOnce /\ [Next]_vars => ExitsAtOnce'
    BY ExitsAtOnceNext
  <1>3. ExitsAtOnce => ExitedIsDead
    BY DEF ExitsAtOnce, ExitedIsDead
  <1> QED
    BY <1>1, <1>2, <1>3, ProcessInvariant, PTL DEF Spec
=============================================================================
