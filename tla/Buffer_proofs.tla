--------------------------- MODULE Buffer_proofs ---------------------------
(***************************************************************************)
(* The buffer cache for any number of tasks, buffers and blocks, and       *)
(* whatever sleep timers outlive their sleeps: counts, clean free buffers, *)
(* no sleeper forgotten, one buffer per block, and what can change the     *)
(* contents of a block and leave a change off the disk (StaleSpec, whose   *)
(* behaviours include those of Spec).  The queue of the disk, too, when no *)
(* sleep timer outlives its sleep (Spec).                                  *)
(***************************************************************************)
EXTENDS Buffer, Dispatch_proofs, SequenceTheorems, FiniteSetTheorems

In(x, s) == \E i \in DOMAIN s : s[i] = x
Once(s) == \A i, j \in DOMAIN s : s[i] = s[j] => i = j

LEMMA AppendOnce ==
    ASSUME NEW S, NEW s \in Seq(S), NEW x \in S
    PROVE  /\ Append(s, x) \in Seq(S) /\ Len(Append(s, x)) = Len(s) + 1
           /\ Append(s, x) # << >>
           /\ \A y : In(y, Append(s, x)) <=> In(y, s) \/ y = x
           /\ Once(s) /\ ~In(x, s) => Once(Append(s, x))
  <1>1. /\ Append(s, x) \in Seq(S) /\ Len(Append(s, x)) = Len(s) + 1
        /\ Append(s, x) # << >>
        /\ \A i \in 1 .. Len(s) : Append(s, x)[i] = s[i]
        /\ Append(s, x)[Len(s) + 1] = x
    BY AppendProperties
  <1>2. Len(s) \in Nat /\ DOMAIN s = 1 .. Len(s) /\ DOMAIN Append(s, x) = 1 .. Len(s) + 1
    BY <1>1, LenProperties
  <1>3. ASSUME NEW y PROVE In(y, Append(s, x)) <=> In(y, s) \/ y = x
    <2>1. Len(s) + 1 \in 1 .. Len(s) + 1 /\ \A i \in 1 .. Len(s) : i \in 1 .. Len(s) + 1
      BY <1>2
    <2>2. \A i \in 1 .. Len(s) + 1 : i \in 1 .. Len(s) \/ i = Len(s) + 1
      BY <1>2
    <2> QED
      BY <1>1, <1>2, <2>1, <2>2 DEF In
  <1>4. ASSUME Once(s), ~In(x, s) PROVE Once(Append(s, x))
    <2>1. \A i \in 1 .. Len(s) + 1 : i \in 1 .. Len(s) \/ i = Len(s) + 1
      BY <1>2
    <2> QED
      BY <1>1, <1>2, <1>4, <2>1 DEF In, Once
  <1> QED
    BY <1>1, <1>3, <1>4

LEMMA TailOnce ==
    ASSUME NEW S, NEW s \in Seq(S), s # << >>
    PROVE  /\ Tail(s) \in Seq(S) /\ Len(Tail(s)) = Len(s) - 1
           /\ Head(s) \in S /\ In(Head(s), s)
           /\ \A y : In(y, Tail(s)) => In(y, s)
           /\ Once(s) => /\ Once(Tail(s))
                         /\ \A y : In(y, Tail(s)) <=> In(y, s) /\ y # Head(s)
  <1>1. /\ Tail(s) \in Seq(S) /\ Len(Tail(s)) = Len(s) - 1 /\ Head(s) \in S
        /\ \A i \in 1 .. Len(Tail(s)) : Tail(s)[i] = s[i + 1]
    BY HeadTailProperties
  <1>2. Len(s) \in Nat /\ Len(s) # 0 /\ DOMAIN s = 1 .. Len(s)
        /\ DOMAIN Tail(s) = 1 .. Len(s) - 1
    BY <1>1, LenProperties, EmptySeq
  <1>3. Head(s) = s[1]
    OBVIOUS
  <1>4. \A i \in 1 .. Len(s) - 1 : Tail(s)[i] = s[i + 1] /\ i + 1 \in 1 .. Len(s)
    BY <1>1, <1>2
  <1>5. 1 \in 1 .. Len(s)
    BY <1>2
  <1>6. In(Head(s), s)
    BY <1>2, <1>3, <1>5 DEF In
  <1>7. \A y : In(y, Tail(s)) => In(y, s)
    BY <1>2, <1>4 DEF In
  <1>8. ASSUME Once(s)
        PROVE  /\ Once(Tail(s))
               /\ \A y : In(y, Tail(s)) <=> In(y, s) /\ y # Head(s)
    <2>1. \A i, j \in 1 .. Len(s) - 1 : i + 1 = j + 1 => i = j
      BY <1>2
    <2>2. Once(Tail(s))
      BY <1>2, <1>4, <1>8, <2>1 DEF Once
    <2>3. ASSUME NEW y, In(y, Tail(s)) PROVE y # Head(s)
      <3>1. PICK i \in 1 .. Len(s) - 1 : Tail(s)[i] = y
        BY <1>2, <2>3 DEF In
      <3>2. i + 1 # 1 /\ i + 1 \in 1 .. Len(s)
        BY <1>2
      <3> QED
        BY <1>2, <1>3, <1>4, <1>5, <1>8, <3>1, <3>2 DEF Once
    <2>4. ASSUME NEW y, In(y, s), y # Head(s) PROVE In(y, Tail(s))
      <3>1. PICK i \in 1 .. Len(s) : s[i] = y
        BY <1>2, <2>4 DEF In
      <3>2. i - 1 \in 1 .. Len(s) - 1 /\ (i - 1) + 1 = i
        BY <1>2, <1>3, <2>4, <3>1
      <3> QED
        BY <1>2, <1>4, <3>1, <3>2 DEF In
    <2> QED
      BY <1>7, <2>2, <2>3, <2>4
  <1> QED
    BY <1>1, <1>6, <1>7, <1>8

LEMMA RemoveAtProperties ==
    ASSUME NEW S, NEW s \in Seq(S), NEW m \in 1 .. Len(s)
    PROVE  /\ RemoveAt(s, m) \in Seq(S) /\ Len(RemoveAt(s, m)) = Len(s) - 1
           /\ \A i \in 1 .. Len(s) - 1 :
                RemoveAt(s, m)[i] = IF i < m THEN s[i] ELSE s[i + 1]
  <1> DEFINE a == SubSeq(s, 1, m - 1)
             b == SubSeq(s, m + 1, Len(s))
             c == a \o b
  <1>1. /\ Len(s) \in Nat
        /\ \A i \in 1 .. Len(s) : s[i] \in S
    BY LenProperties, ElementOfSeq
  <1>2. /\ a \in Seq(S) /\ Len(a) = m - 1
        /\ \A i \in 1 .. m - 1 : a[i] = s[i]
    BY <1>1, SubSeqProperties
  <1>3. /\ b \in Seq(S) /\ Len(b) = Len(s) - m
        /\ \A i \in 1 .. Len(s) - m : b[i] = s[m + i]
    <2>1. \A i \in m + 1 .. Len(s) : s[i] \in S
      BY <1>1
    <2>2. /\ b \in Seq(S) /\ Len(b) = IF m + 1 <= Len(s) THEN Len(s) - (m + 1) + 1 ELSE 0
          /\ \A i \in 1 .. Len(s) - (m + 1) + 1 : b[i] = s[(m + 1) + i - 1]
      BY <1>1, <2>1, SubSeqProperties
    <2> QED
      BY <1>1, <2>2
  <1>4. RemoveAt(s, m) = c
    BY DEF RemoveAt
  <1> HIDE DEF a, b
  <1>5. /\ c \in Seq(S)
        /\ Len(c) = Len(a) + Len(b)
        /\ \A i \in 1 .. Len(a) + Len(b) :
             c[i] = IF i <= Len(a) THEN a[i] ELSE b[i - Len(a)]
    BY <1>2, <1>3, ConcatProperties
  <1> HIDE DEF c
  <1>6. Len(c) = Len(s) - 1
    BY <1>1, <1>2, <1>3, <1>5
  <1>7. ASSUME NEW i \in 1 .. Len(s) - 1
        PROVE  c[i] = IF i < m THEN s[i] ELSE s[i + 1]
    <2>1. CASE i < m
      <3>1. i \in 1 .. Len(a) + Len(b) /\ i <= Len(a) /\ i \in 1 .. m - 1
        BY <1>1, <1>2, <1>3, <2>1
      <3>2. c[i] = a[i]
        BY <1>5, <3>1
      <3> QED
        BY <1>2, <2>1, <3>1, <3>2
    <2>2. CASE i >= m
      <3> DEFINE j == i - (m - 1)
      <3>0. i \in 1 .. Len(a) + Len(b) /\ ~(i <= Len(a)) /\ i - Len(a) = j
        BY <1>1, <1>2, <1>3, <2>2
      <3>1. c[i] = b[j]
        BY <1>5, <3>0
      <3>2. j \in 1 .. Len(s) - m /\ m + j = i + 1
        BY <1>1, <2>2
      <3> HIDE DEF j
      <3>3. b[j] = s[i + 1]
        BY <1>3, <3>2
      <3> QED
        BY <1>1, <2>2, <3>1, <3>3
    <2> QED
      BY <1>1, <2>1, <2>2
  <1> QED
    BY <1>4, <1>5, <1>6, <1>7

LEMMA InsertAtProperties ==
    ASSUME NEW S, NEW s \in Seq(S), NEW m \in 1 .. Len(s) + 1, NEW e \in S
    PROVE  /\ InsertAt(s, m, e) \in Seq(S)
           /\ Len(InsertAt(s, m, e)) = Len(s) + 1
           /\ \A i \in 1 .. Len(s) + 1 :
                InsertAt(s, m, e)[i] = IF i < m THEN s[i]
                                       ELSE IF i = m THEN e ELSE s[i - 1]
  <1> DEFINE a == SubSeq(s, 1, m - 1)
             b == SubSeq(s, m, Len(s))
             c == a \o <<e>>
             d == c \o b
  <1>1. /\ Len(s) \in Nat
        /\ \A i \in 1 .. Len(s) : s[i] \in S
    BY LenProperties, ElementOfSeq
  <1>2. /\ a \in Seq(S) /\ Len(a) = m - 1
        /\ \A i \in 1 .. m - 1 : a[i] = s[i]
    BY <1>1, SubSeqProperties
  <1>3. /\ b \in Seq(S) /\ Len(b) = Len(s) - m + 1
        /\ \A i \in 1 .. Len(s) - m + 1 : b[i] = s[m + i - 1]
    BY <1>1, SubSeqProperties
  <1>4. InsertAt(s, m, e) = d
    BY DEF InsertAt
  <1> HIDE DEF a, b
  <1>5. /\ c \in Seq(S) /\ Len(c) = m
        /\ \A i \in 1 .. m : c[i] = IF i < m THEN s[i] ELSE e
    BY <1>1, <1>2
  <1> HIDE DEF c
  <1>6. /\ d \in Seq(S)
        /\ Len(d) = Len(c) + Len(b)
        /\ \A i \in 1 .. Len(c) + Len(b) :
             d[i] = IF i <= Len(c) THEN c[i] ELSE b[i - Len(c)]
    BY <1>3, <1>5, ConcatProperties
  <1> HIDE DEF d
  <1>7. Len(d) = Len(s) + 1 /\ Len(c) + Len(b) = Len(s) + 1
    BY <1>1, <1>3, <1>5, <1>6
  <1>8. ASSUME NEW i \in 1 .. Len(s) + 1
        PROVE  d[i] = IF i < m THEN s[i] ELSE IF i = m THEN e ELSE s[i - 1]
    <2>1. CASE i <= m
      BY <1>1, <1>5, <1>6, <1>7, <2>1
    <2>2. CASE i > m
      <3> DEFINE j == i - m
      <3>1. d[i] = b[j]
        BY <1>1, <1>5, <1>6, <1>7, <2>2
      <3>2. j \in 1 .. Len(s) - m + 1 /\ m + j - 1 = i - 1
        BY <1>1, <2>2
      <3> HIDE DEF j
      <3>3. b[j] = s[i - 1]
        BY <1>3, <3>2
      <3> QED
        BY <1>1, <2>2, <3>1, <3>3
    <2> QED
      BY <1>1, <2>1, <2>2
  <1> QED
    BY <1>4, <1>6, <1>7, <1>8

LEMMA RemoveOnce ==
    ASSUME NEW S, NEW s \in Seq(S), Once(s), NEW m \in DOMAIN s
    PROVE  /\ RemoveAt(s, m) \in Seq(S) /\ Len(RemoveAt(s, m)) = Len(s) - 1
           /\ Once(RemoveAt(s, m))
           /\ \A y : In(y, RemoveAt(s, m)) <=> In(y, s) /\ y # s[m]
  <1>0. Len(s) \in Nat /\ DOMAIN s = 1 .. Len(s)
    BY LenProperties
  <1> DEFINE r == RemoveAt(s, m)
  <1>1. /\ r \in Seq(S) /\ Len(r) = Len(s) - 1
        /\ \A i \in 1 .. Len(s) - 1 : r[i] = IF i < m THEN s[i] ELSE s[i + 1]
    BY <1>0, RemoveAtProperties
  <1> HIDE DEF r
  <1>2. DOMAIN r = 1 .. Len(s) - 1
    BY <1>1, LenProperties
  <1>3. \A i \in 1 .. Len(s) - 1 : i \in 1 .. Len(s) /\ i + 1 \in 1 .. Len(s)
    BY <1>0
  <1>4. Once(r)
    <2> SUFFICES ASSUME NEW i \in 1 .. Len(s) - 1, NEW j \in 1 .. Len(s) - 1, r[i] = r[j]
                 PROVE  i = j
      BY <1>2 DEF Once
    <2>1. PICK x \in 1 .. Len(s) : x = (IF i < m THEN i ELSE i + 1) /\ r[i] = s[x]
      BY <1>1, <1>3
    <2>2. PICK y \in 1 .. Len(s) : y = (IF j < m THEN j ELSE j + 1) /\ r[j] = s[y]
      BY <1>1, <1>3
    <2>3. x = y
      BY <1>0, <2>1, <2>2 DEF Once
    <2> QED
      BY <1>0, <2>1, <2>2, <2>3
  <1>5. ASSUME NEW y PROVE In(y, r) <=> In(y, s) /\ y # s[m]
    <2>1. ASSUME NEW i \in 1 .. Len(s) - 1, r[i] = y
          PROVE  In(y, s) /\ y # s[m]
      <3>1. CASE i < m
        BY <1>0, <1>1, <1>3, <2>1, <3>1 DEF In, Once
      <3>2. CASE ~(i < m)
        <4>1. y = s[i + 1] /\ i + 1 # m
          BY <1>0, <1>1, <2>1, <3>2
        <4> QED
          BY <1>0, <1>3, <4>1 DEF In, Once
      <3> QED
        BY <3>1, <3>2
    <2>2. ASSUME NEW i \in 1 .. Len(s), s[i] = y, y # s[m]
          PROVE  \E k \in 1 .. Len(s) - 1 : r[k] = y
      <3>1. CASE i < m
        <4>1. i \in 1 .. Len(s) - 1
          BY <1>0, <3>1
        <4> QED
          BY <1>1, <2>2, <3>1, <4>1
      <3>2. CASE i > m
        <4>1. i - 1 \in 1 .. Len(s) - 1 /\ ~(i - 1 < m) /\ (i - 1) + 1 = i
          BY <1>0, <3>2
        <4>2. r[i - 1] = y
          BY <1>1, <2>2, <4>1
        <4> QED
          BY <4>1, <4>2
      <3> QED
        BY <1>0, <2>2, <3>1, <3>2
    <2> QED
      BY <1>0, <1>2, <2>1, <2>2 DEF In
  <1> QED
    BY <1>1, <1>4, <1>5 DEF r

LEMMA TakenOffOnce ==
    ASSUME NEW S, NEW s \in Seq(S), Once(s), NEW W, \A t, u \in W : t = u
    PROVE  /\ TakenOff(s, W) \in Seq(S) /\ Once(TakenOff(s, W))
           /\ \A y : In(y, TakenOff(s, W)) => In(y, s) /\ y \notin W
           /\ TakenOff(s, W) # << >> => s # << >>
  <1>1. CASE \E i \in DOMAIN s : s[i] \in W
    <2>1. PICK m : m = CHOOSE i \in DOMAIN s : s[i] \in W
      OBVIOUS
    <2>2. m \in DOMAIN s /\ s[m] \in W
      BY <1>1, <2>1
    <2>3. TakenOff(s, W) = RemoveAt(s, m)
      BY <1>1, <2>1 DEF TakenOff
    <2>4. /\ RemoveAt(s, m) \in Seq(S) /\ Once(RemoveAt(s, m))
          /\ \A y : In(y, RemoveAt(s, m)) <=> In(y, s) /\ y # s[m]
      BY <2>2, RemoveOnce
    <2>5. s # << >>
      BY <2>2
    <2> QED
      BY <2>2, <2>3, <2>4, <2>5
  <1>2. CASE ~\E i \in DOMAIN s : s[i] \in W
    BY <1>2 DEF TakenOff, In
  <1> QED
    BY <1>1, <1>2
-----------------------------------------------------------------------------
\* Where a task may be while another one runs.
Away == {"user", "waitbuf", "lock", "request", "io", "served", "unlocked", "hold"}
NoBuffer == {"user", "getblk", "waitbuf"}

PlaceRight(t) ==
    /\ pc[t] \in Away \/ t = current
    /\ buf[t] = 0 <=> pc[t] \in NoBuffer
    /\ want[t] = Unused <=> pc[t] = "user"
    /\ buf[t] # 0 => block[buf[t]] # Unused
    /\ pc[t] = "waitbuf" => slept /\ \A b \in Buf : block[b] # Unused

PlacesRight == pc[Idle] = "user" /\ \A t \in Task : PlaceRight(t)

\* The free list holds the buffers that are handed out and have no user.
Users(b) == {t \in Task : buf[t] = b}
FreeRight ==
    /\ \A b \in Buf : count[b] = Cardinality(Users(b))
    /\ Once(free)
    /\ \A b \in Buf : In(b, free) <=> block[b] # Unused /\ count[b] = 0

\* brelse lets a clean buffer go.
ReleaseClean == \A t \in Task : pc[t] = "release" => ~dirty[buf[t]]

\* Who sleeps on a list sleeps, and for nothing else.
Blocked(t) == state[t] = "BLOCKED"
ListRight(list, place) ==
    /\ Once(list)
    /\ \A t \in Task : In(t, list) => pc[t] = place /\ Blocked(t)

SleepersRight == ListRight(starved, "waitbuf")
CtrlersRight == ListRight(ctrlers, "request")
LockersRight ==
    \A b \in Buf : /\ ListRight(lockers[b], "lock")
                   /\ \A t \in Task : In(t, lockers[b]) => buf[t] = b

ListsRight == SleepersRight /\ CtrlersRight /\ LockersRight

\* A sleeper was woken for each buffer that is free while others sleep.
Woken == {t \in Task : pc[t] = "waitbuf" /\ ~Blocked(t)}
SleepersWoken == starved # << >> => Len(free) <= Cardinality(Woken)

\* The inductive invariant of the cache.
CacheInv ==
    /\ TypeOK /\ DispatchInv /\ PlacesRight
    /\ FreeRight /\ FreeIsClean /\ ReleaseClean
    /\ ListsRight /\ SleepersWoken
    /\ OneBufferPerBlock

\* The queue of the disk: one task at a time is let to the controller.
Owned(q) == \A i, j \in DOMAIN q : q[i].task = q[j].task => i = j
Asks(t, q) == \E i \in DOMAIN q : q[i].task = t
Requests == [task : Task, idx : Nat, named : BOOLEAN]
Waits(t) == pc[t] \in {"request", "io", "served"}
Let(t) == pc[t] \in {"io", "served"} \/ (pc[t] = "request" /\ ~Blocked(t))
QueueRight ==
    /\ Owned(queue)
    /\ \A t \in Task : Waits(t) <=> Asks(t, queue)
    /\ \A t, u \in Task : Let(t) /\ Let(u) => t = u
    /\ queue # << >> => \E t \in Task : Let(t)
    /\ \A i \in DOMAIN queue : queue[i].named \/ Let(queue[i].task)
    /\ waiter # NoTask => pc[waiter] = "io" /\ Blocked(waiter)
    /\ ctrl # NoTask => pc[ctrl] = "io"
    /\ ctrlers = << >>

\* With it, the inductive invariant of the queue.
QueueInv == CacheInv /\ QueueRight

\* What a task knows of the contents of its buffer.
Reading(t) == Waits(t) /\ doing[t] = "bread"
Writing(t) == Waits(t) /\ doing[t] # "bread"
Knows(t) == pc[t] \in {"unlocked", "hold", "release"} \/ Writing(t)
KnowersRight ==
    \A t \in Task : /\ Knows(t) => valid[buf[t]]
                    /\ pc[t] = "locked" \/ Reading(t) => holder[buf[t]] = t
                    /\ Reading(t) => ~valid[buf[t]]

\* A block that has been read is in the buffer, and a buffer that is marked as
\* different from its block has a task that has yet to write it.
Has(t) == Reading(t) /\ pc[t] = "served"
ToWrite(t) == pc[t] = "hold" \/ (pc[t] = "request" /\ doing[t] # "bread")
Differs(b) == block[b] # Unused /\ valid[b] /\ data[b] # disk[block[b]]
ReadersRight == \A t \in Task : Has(t) => data[buf[t]] = disk[block[buf[t]]]
WritersRight ==
    \A b \in Buf : Differs(b) /\ dirty[b] => \E t \in Task : buf[t] = b /\ ToWrite(t)

\* With them, the inductive invariant of the contents.
DataInv ==
    /\ CacheInv /\ KnowersRight
    /\ ~slept => ReadersRight /\ WritersRight
-----------------------------------------------------------------------------
LEMMA Basics ==
    /\ IsFiniteSet(Task) /\ \A S \in SUBSET Task : IsFiniteSet(S)
    /\ 0 \notin Buf /\ Unused \notin Blocks /\ Idle \in Task
  BY BufferAssumption, DispatchAssumption, FS_Subset DEF Buf, Unused

\* What an action does to the processor: the tasks A block and W are woken.
Parks(A, W) ==
    /\ DispatchInv'
    /\ \A t \in Task : Blocked(t)' <=> t \in A \/ (Blocked(t) /\ t \notin W)

LEMMA StayParks ==
    ASSUME DispatchInv, UNCHANGED dispatchVars
    PROVE  Parks({}, {})
  BY DEF Parks, Blocked, dispatchVars, DispatchInv, DispatchTypeOK, OneRunning,
         IdleRunnable, CurrentRunnable

LEMMA BlockParks ==
    ASSUME DispatchInv, current # Idle, Block("BLOCKED")
    PROVE  Parks({current}, {})
  <1>0. current \in Task /\ "BLOCKED" \in Parked /\ state \in [Task -> Parked \cup {"RUNNING", "READY"}]
    BY DEF DispatchInv, DispatchTypeOK, Parked
  <1>1. PICK s : s = [state EXCEPT ![current] = "BLOCKED"]
    OBVIOUS
  <1>2. Schedulable(s) /\ Schedule(s)
    BY <1>0, <1>1, BlockSchedulable DEF Block
  <1>3. DispatchInv'
    BY <1>0, <1>2, ScheduleSafe
  <1>4. \A t \in Task : state'[t] = "BLOCKED" <=> s[t] = "BLOCKED"
    BY <1>0, <1>2, ScheduleParks
  <1>5. \A t \in Task : s[t] = "BLOCKED" <=> t = current \/ state[t] = "BLOCKED"
    BY <1>0, <1>1
  <1> QED
    BY <1>3, <1>4, <1>5 DEF Parks, Blocked

LEMMA WakeParks ==
    ASSUME DispatchInv, NEW W \in SUBSET Task, state' = Unblock(state, W),
           current' = current
    PROVE  Parks({}, W)
  <1>1. DispatchInv'
    BY UnblockSafe
  <1>2. \A t \in Task : state'[t] = IF t \in W THEN "READY" ELSE state[t]
    BY DEF Unblock
  <1> QED
    BY <1>1, <1>2 DEF Parks, Blocked

LEMMA SwitchParks ==
    ASSUME DispatchInv, NEW W \in SUBSET Task, Schedule(Unblock(state, W))
    PROVE  Parks({}, W)
  <1>0. current \in Task /\ "BLOCKED" \in Parked
    BY DEF DispatchInv, DispatchTypeOK, Parked
  <1>1. PICK s : s = Unblock(state, W)
    OBVIOUS
  <1>2. Schedulable(s) /\ Schedule(s)
    BY <1>1, UnblockSchedulable
  <1>3. DispatchInv'
    BY <1>0, <1>2, ScheduleSafe
  <1>4. \A t \in Task : state'[t] = "BLOCKED" <=> s[t] = "BLOCKED"
    BY <1>0, <1>2, ScheduleParks
  <1>5. \A t \in Task : s[t] = IF t \in W THEN "READY" ELSE state[t]
    BY <1>1 DEF Unblock
  <1> QED
    BY <1>3, <1>4, <1>5 DEF Parks, Blocked

LEMMA PreemptParks ==
    ASSUME DispatchInv, Schedule(state)
    PROVE  Parks({}, {})
  <1>1. state = Unblock(state, {})
    BY DEF Unblock, DispatchInv, DispatchTypeOK
  <1>2. Schedule(Unblock(state, {}))
    BY <1>1
  <1> QED
    BY <1>2, SwitchParks
-----------------------------------------------------------------------------
\* The parts of the invariant and what keeps them.
Places == {"user", "getblk", "waitbuf", "lock", "locked", "request", "io", "served",
           "unlocked", "hold", "release"}

Moves(p) == p \in Places /\ pc' = [pc EXCEPT ![current] = p]

LEMMA MovesTo ==
    ASSUME TypeOK, NEW p, Moves(p)
    PROVE  /\ current \in Task /\ pc' \in [Task -> Places] /\ pc'[current] = p
           /\ \A t \in Task : t # current => pc'[t] = pc[t]
  BY DEF TypeOK, DispatchTypeOK, Moves, Places

\* Facts about the running task.
LEMMA Running ==
    ASSUME CacheInv
    PROVE  /\ current \in Task /\ ~Blocked(current)
           /\ ~At("user") => current # Idle
           /\ Mine \in Buf \cup {0}
           /\ ~(pc[current] \in NoBuffer) => Mine \in Buf /\ block[Mine] \in Blocks
           /\ want[current] \in Blocks \cup {Unused}
           /\ ~At("user") => want[current] \in Blocks
  BY DEF CacheInv, TypeOK, DispatchInv, DispatchTypeOK, CurrentRunnable, Blocked,
         PlacesRight, PlaceRight, At, Mine

PlacesTo(p) ==
    /\ Moves(p)
    /\ current # Idle \/ p = "user"
    /\ p \in Away \/ current' = current
    /\ \A t \in Task : t # current => buf'[t] = buf[t] /\ want'[t] = want[t]
    /\ buf'[current] = 0 <=> p \in NoBuffer
    /\ want'[current] = Unused <=> p = "user"
    /\ buf'[current] # 0 => block'[buf'[current]] # Unused
    /\ \A b \in Buf : block[b] # Unused => block'[b] # Unused
    /\ slept => slept'
    /\ p = "waitbuf" => slept' /\ \A b \in Buf : block'[b] # Unused

LEMMA PlacesKept ==
    ASSUME CacheInv, NEW p, PlacesTo(p)
    PROVE  PlacesRight'
  <1>1. /\ current \in Task /\ pc' \in [Task -> Places] /\ pc'[current] = p
        /\ \A t \in Task : t # current => pc'[t] = pc[t]
    BY MovesTo DEF CacheInv, PlacesTo
  <1>2. pc'[Idle] = "user"
    BY <1>1, Basics DEF CacheInv, PlacesRight, PlacesTo
  <1>3. ASSUME NEW t \in Task PROVE PlaceRight(t)'
    <2>1. CASE t = current
      BY <1>1, <2>1 DEF PlaceRight, PlacesTo
    <2>2. CASE t # current
      <3>1. PlaceRight(t)
        BY DEF CacheInv, PlacesRight
      <3>2. pc'[t] = pc[t] /\ buf'[t] = buf[t] /\ want'[t] = want[t]
        BY <1>1, <2>2 DEF PlacesTo
      <3>3. buf[t] \in Buf \cup {0}
        BY DEF CacheInv, TypeOK
      <3> QED
        BY <2>2, <3>1, <3>2, <3>3 DEF PlaceRight, PlacesTo
    <2> QED
      BY <2>1, <2>2
  <1> QED
    BY <1>2, <1>3 DEF PlacesRight

\* The free list does not grow.
LEMMA SameFree ==
    ASSUME CacheInv, free' = free
    PROVE  Len(free') <= Len(free) /\ Len(free') \in Nat
  <1>1. Len(free) \in Nat
    BY LenProperties DEF CacheInv, TypeOK
  <1> QED
    BY <1>1

\* The lists of sleepers: the running task is on none of them, and a step that
\* wakes W leaves those who are on a list and not in W asleep.
LEMMA ListKept ==
    ASSUME CacheInv, NEW p, Moves(p), NEW A \in SUBSET {current}, NEW W, Parks(A, W),
           NEW l, NEW place, ListRight(l, place),
           NEW k, Once(k), \A t \in Task : In(t, k) => In(t, l) /\ t \notin W
    PROVE  Once(k) /\ \A t \in Task : In(t, k) => pc'[t] = place /\ Blocked(t)'
  <1>1. /\ ~Blocked(current)
        /\ \A t \in Task : t # current => pc'[t] = pc[t]
    BY MovesTo, Running DEF CacheInv
  <1>2. ASSUME NEW t \in Task, In(t, k) PROVE pc'[t] = place /\ Blocked(t)'
    <2>1. pc[t] = place /\ Blocked(t) /\ t \notin W
      BY <1>2 DEF ListRight
    <2>2. Blocked(t)'
      BY <2>1 DEF Parks
    <2>3. t # current
      BY <1>1, <2>1
    <2> QED
      BY <1>1, <2>1, <2>2, <2>3
  <1> QED
    BY <1>2

LEMMA ListJoined ==
    ASSUME CacheInv, NEW p, Moves(p), Parks({current}, {}),
           NEW l \in Seq(Task), ListRight(l, p)
    PROVE  /\ Append(l, current) \in Seq(Task) /\ Once(Append(l, current))
           /\ \A t \in Task : In(t, Append(l, current)) =>
                 pc'[t] = p /\ Blocked(t)' /\ (In(t, l) \/ t = current)
  <1>1. current \in Task /\ ~Blocked(current) /\ pc'[current] = p
    BY MovesTo, Running DEF CacheInv
  <1>2. Once(l) /\ ~In(current, l)
    BY <1>1 DEF ListRight
  <1>3. /\ Append(l, current) \in Seq(Task) /\ Once(Append(l, current))
        /\ \A t : In(t, Append(l, current)) <=> In(t, l) \/ t = current
    BY <1>1, <1>2, AppendOnce
  <1>4. \A t \in Task : In(t, l) => pc'[t] = p /\ Blocked(t)'
    BY <1>2, ListKept
  <1>5. PICK c \in Task : c = current
    BY <1>1
  <1>6. pc'[c] = p /\ Blocked(c)'
    BY <1>1, <1>5 DEF Parks
  <1> QED
    BY <1>3, <1>4, <1>5, <1>6

LEMMA ListHead ==
    ASSUME NEW l \in Seq(Task), l # << >>, NEW place, ListRight(l, place)
    PROVE  Head(l) \in Task /\ In(Head(l), l) /\ pc[Head(l)] = place /\ Blocked(Head(l))
  <1>1. Head(l) \in Task /\ In(Head(l), l)
    BY TailOnce
  <1> QED
    BY <1>1 DEF ListRight

LEMMA ListLeft ==
    ASSUME CacheInv, NEW p, Moves(p), NEW l \in Seq(Task), l # << >>, NEW place,
           ListRight(l, place), NEW h, h = Head(l), Parks({}, {h})
    PROVE  /\ Tail(l) \in Seq(Task) /\ Once(Tail(l))
           /\ \A t \in Task : In(t, Tail(l)) =>
                 pc'[t] = place /\ Blocked(t)' /\ In(t, l)
  <1>1. Once(l)
    BY DEF ListRight
  <1>2. /\ Tail(l) \in Seq(Task) /\ Once(Tail(l))
        /\ \A t : In(t, Tail(l)) <=> In(t, l) /\ t # h
    BY <1>1, TailOnce
  <1>3. \A t \in Task : In(t, Tail(l)) => In(t, l) /\ t \notin {h}
    BY <1>2
  <1>4. \A t \in Task : In(t, Tail(l)) => pc'[t] = place /\ Blocked(t)'
    BY <1>2, <1>3, ListKept
  <1> QED
    BY <1>2, <1>3, <1>4

\* An action that has nothing to do with a list.
LEMMA SleepersKept ==
    ASSUME CacheInv, NEW p, Moves(p), NEW A \in SUBSET {current}, NEW W, Parks(A, W),
           starved' = starved, \A t \in W : pc[t] # "waitbuf"
    PROVE  SleepersRight'
  <1>1. ListRight(starved, "waitbuf")
    BY DEF CacheInv, ListsRight, SleepersRight
  <1>2. Once(starved) /\ \A t \in Task : In(t, starved) => In(t, starved) /\ t \notin W
    BY <1>1 DEF ListRight
  <1>3. \A t \in Task : In(t, starved) => pc'[t] = "waitbuf" /\ Blocked(t)'
    BY <1>1, <1>2, ListKept
  <1> QED
    BY <1>2, <1>3 DEF SleepersRight, ListRight, Once, In

LEMMA CtrlersKept ==
    ASSUME CacheInv, NEW p, Moves(p), NEW A \in SUBSET {current}, NEW W, Parks(A, W),
           ctrlers' = ctrlers, \A t \in W : pc[t] # "request"
    PROVE  CtrlersRight'
  <1>1. ListRight(ctrlers, "request")
    BY DEF CacheInv, ListsRight, CtrlersRight
  <1>2. Once(ctrlers) /\ \A t \in Task : In(t, ctrlers) => In(t, ctrlers) /\ t \notin W
    BY <1>1 DEF ListRight
  <1>3. \A t \in Task : In(t, ctrlers) => pc'[t] = "request" /\ Blocked(t)'
    BY <1>1, <1>2, ListKept
  <1> QED
    BY <1>2, <1>3 DEF CtrlersRight, ListRight, Once, In

LEMMA LockersKept ==
    ASSUME CacheInv, NEW p, Moves(p), NEW A \in SUBSET {current}, NEW W, Parks(A, W),
           lockers' = lockers, \A t \in W : pc[t] # "lock",
           \A t \in Task : t # current => buf'[t] = buf[t]
    PROVE  LockersRight'
  <1> SUFFICES ASSUME NEW b \in Buf
               PROVE  ListRight(lockers[b], "lock")' /\ \A t \in Task : In(t, lockers[b])' => buf'[t] = b
    BY DEF LockersRight
  <1>0. ~Blocked(current)
    BY Running
  <1>1. ListRight(lockers[b], "lock") /\ \A t \in Task : In(t, lockers[b]) => buf[t] = b
    BY DEF CacheInv, ListsRight, LockersRight
  <1>2. Once(lockers[b]) /\ \A t \in Task : In(t, lockers[b]) => In(t, lockers[b]) /\ t \notin W
    BY <1>1 DEF ListRight
  <1>3. \A t \in Task : In(t, lockers[b]) => pc'[t] = "lock" /\ Blocked(t)'
    BY <1>1, <1>2, ListKept
  <1>4. \A t \in Task : In(t, lockers[b]) => t # current /\ buf'[t] = b
    BY <1>0, <1>1 DEF ListRight
  <1> QED
    BY <1>2, <1>3, <1>4 DEF ListRight, Once, In

LEMMA WokenKept ==
    ASSUME CacheInv, NEW p, Moves(p), NEW A \in SUBSET {current}, NEW W, Parks(A, W),
           starved' # << >> => starved # << >>, Len(free') <= Len(free), Len(free') \in Nat,
           pc[current] # "waitbuf"
    PROVE  SleepersWoken'
  <1>1. \A t \in Task : t # current => pc'[t] = pc[t]
    BY MovesTo DEF CacheInv
  <1>2. ASSUME NEW t \in Task, pc[t] = "waitbuf", ~Blocked(t)
        PROVE  pc'[t] = "waitbuf" /\ ~Blocked(t)'
    <2>1. t # current /\ t \notin A
      BY <1>2
    <2> QED
      BY <1>1, <1>2, <2>1 DEF Parks
  <1>3. Woken \subseteq Woken'
    BY <1>2 DEF Woken
  <1>4. IsFiniteSet(Woken') /\ IsFiniteSet(Woken)
    BY Basics DEF Woken
  <1>5. /\ Cardinality(Woken) <= Cardinality(Woken')
        /\ Cardinality(Woken) \in Nat /\ Cardinality(Woken') \in Nat
    BY <1>3, <1>4, FS_Subset, FS_CardinalityType
  <1>6. Len(free) \in Nat
    BY LenProperties DEF CacheInv, TypeOK
  <1> QED
    BY <1>5, <1>6 DEF CacheInv, SleepersWoken

\* task_unblock of at most one task, which takes it off its list.
LEMMA WakeKept ==
    ASSUME CacheInv, NEW p, Moves(p), NEW W \in SUBSET Task, \A t, u \in W : t = u,
           Wakes(W), Unlisted(W), current' = current, free' = free, buf' = buf,
           pc[current] # "waitbuf"
    PROVE  /\ Parks({}, W) /\ ListsRight' /\ SleepersWoken'
           /\ ctrlers' \in Seq(Task) /\ starved' \in Seq(Task) /\ lockers' \in [Buf -> Seq(Task)]
  <1>0. TypeOK /\ DispatchInv /\ ListsRight
    BY DEF CacheInv
  <1>1. Parks({}, W) /\ {} \in SUBSET {current}
    BY <1>0, WakeParks DEF Wakes
  <1>2. /\ ctrlers' = TakenOff(ctrlers, W) /\ starved' = TakenOff(starved, W)
        /\ lockers' = [b \in Buf |-> TakenOff(lockers[b], W)]
    BY DEF Wakes, Unlisted
  <1>3. ASSUME NEW l \in Seq(Task), NEW place, ListRight(l, place)
        PROVE  /\ TakenOff(l, W) \in Seq(Task) /\ Once(TakenOff(l, W))
               /\ \A t \in Task : In(t, TakenOff(l, W)) =>
                     pc'[t] = place /\ Blocked(t)' /\ In(t, l)
    <2>1. /\ TakenOff(l, W) \in Seq(Task) /\ Once(TakenOff(l, W))
          /\ \A y : In(y, TakenOff(l, W)) => In(y, l) /\ y \notin W
      BY <1>3, TakenOffOnce DEF ListRight
    <2>2. PICK k : k = TakenOff(l, W)
      OBVIOUS
    <2>3. Once(k) /\ \A t \in Task : In(t, k) => In(t, l) /\ t \notin W
      BY <2>1, <2>2
    <2>4. \A t \in Task : In(t, k) => pc'[t] = place /\ Blocked(t)'
      BY <1>1, <1>3, <2>3, ListKept
    <2> QED
      BY <2>1, <2>2, <2>4
  <1>4. starved' \in Seq(Task) /\ SleepersRight'
    <2>1. starved \in Seq(Task) /\ ListRight(starved, "waitbuf")
      BY <1>0 DEF TypeOK, ListsRight, SleepersRight
    <2>2. /\ starved' \in Seq(Task) /\ Once(starved')
          /\ \A t \in Task : In(t, starved') => pc'[t] = "waitbuf" /\ Blocked(t)'
      BY <1>2, <1>3, <2>1
    <2> QED
      BY <2>2 DEF SleepersRight, ListRight, Once, In
  <1>5. ctrlers' \in Seq(Task) /\ CtrlersRight'
    <2>1. ctrlers \in Seq(Task) /\ ListRight(ctrlers, "request")
      BY <1>0 DEF TypeOK, DeviceTypeOK, ListsRight, CtrlersRight
    <2>2. /\ ctrlers' \in Seq(Task) /\ Once(ctrlers')
          /\ \A t \in Task : In(t, ctrlers') => pc'[t] = "request" /\ Blocked(t)'
      BY <1>2, <1>3, <2>1
    <2> QED
      BY <2>2 DEF CtrlersRight, ListRight, Once, In
  <1>6. lockers' \in [Buf -> Seq(Task)] /\ LockersRight'
    <2>1. ASSUME NEW b \in Buf
          PROVE  /\ lockers'[b] \in Seq(Task) /\ Once(lockers'[b])
                 /\ \A t \in Task : In(t, lockers'[b]) =>
                        pc'[t] = "lock" /\ Blocked(t)' /\ buf'[t] = b
      <3>1. /\ lockers[b] \in Seq(Task) /\ ListRight(lockers[b], "lock")
            /\ \A t \in Task : In(t, lockers[b]) => buf[t] = b
        BY <1>0 DEF TypeOK, ListsRight, LockersRight
      <3>2. lockers'[b] = TakenOff(lockers[b], W)
        BY <1>2
      <3> QED
        BY <1>3, <3>1, <3>2
    <2>2. lockers' \in [Buf -> Seq(Task)]
      BY <1>2, <2>1
    <2> QED
      BY <2>1, <2>2 DEF LockersRight, ListRight, Once, In
  <1>7. SleepersWoken'
    <2>1. starved' # << >> => starved # << >>
      <3>1. starved \in Seq(Task) /\ Once(starved)
        BY <1>0 DEF TypeOK, ListsRight, SleepersRight, ListRight
      <3> QED
        BY <1>2, <3>1, TakenOffOnce
    <2>2. Len(free') <= Len(free) /\ Len(free') \in Nat
      BY <1>0, SameFree
    <2> QED
      BY <1>1, <2>1, <2>2, WokenKept
  <1> QED
    BY <1>1, <1>4, <1>5, <1>6, <1>7 DEF ListsRight

\* An action that gives no buffer away and takes none.
LEMMA Used ==
    ASSUME CacheInv, NEW t \in Task, buf[t] \in Buf
    PROVE  count[buf[t]] # 0
  <1>1. count[buf[t]] = Cardinality(Users(buf[t])) /\ t \in Users(buf[t])
    BY DEF CacheInv, FreeRight, Users
  <1>2. IsFiniteSet(Users(buf[t]))
    BY Basics DEF Users
  <1> QED
    BY <1>1, <1>2, FS_EmptySet

BuffersKept(p) ==
    /\ UNCHANGED <<block, count, free, buf, slept>>
    /\ \A b \in Buf : dirty'[b] => dirty[b] \/ b = Mine
    /\ p = "release" => ~dirty'[Mine]

LEMMA CountsKept ==
    ASSUME CacheInv, NEW p, Moves(p), BuffersKept(p)
    PROVE  FreeRight' /\ FreeIsClean' /\ ReleaseClean' /\ OneBufferPerBlock'
  <1>1. /\ current \in Task /\ pc'[current] = p
        /\ \A t \in Task : t # current => pc'[t] = pc[t]
    BY MovesTo DEF CacheInv
  <1>2. FreeRight' /\ OneBufferPerBlock'
    BY DEF CacheInv, BuffersKept, FreeRight, Users, Once, In, OneBufferPerBlock
  <1>3. FreeIsClean'
    <2> SUFFICES ASSUME NEW b \in Buf, count[b] = 0 PROVE ~dirty'[b]
      BY DEF FreeIsClean, BuffersKept
    <2>1. b # Mine
      BY <1>1, Used DEF Mine
    <2> QED
      BY <2>1 DEF CacheInv, FreeIsClean, BuffersKept
  <1>4. ReleaseClean'
    <2> SUFFICES ASSUME NEW t \in Task, pc'[t] = "release" PROVE ~dirty'[buf'[t]]
      BY DEF ReleaseClean
    <2>1. t = current
      BY <1>1 DEF CacheInv, PlacesRight, PlaceRight, Away
    <2> QED
      BY <1>1, <2>1 DEF BuffersKept, Mine
  <1> QED
    BY <1>2, <1>3, <1>4

\* A step that blocks nobody but the running task, and of that changes neither
\* the buffer nor a list.
Quiet(A, p) ==
    /\ PlacesTo(p) /\ BuffersKept(p) /\ Parks(A, {}) /\ A \in SUBSET {current}
    /\ UNCHANGED <<ctrlers, starved, lockers>>
    /\ pc[current] # "waitbuf"

LEMMA QuietKept ==
    ASSUME CacheInv, TypeOK', NEW A, NEW p, Quiet(A, p)
    PROVE  CacheInv'
  <1>1. Moves(p) /\ pc[current] # "waitbuf" /\ A \in SUBSET {current} /\ Parks(A, {})
    BY DEF Quiet, PlacesTo
  <1>2. PlacesRight'
    BY PlacesKept DEF Quiet
  <1>3. FreeRight' /\ FreeIsClean' /\ ReleaseClean' /\ OneBufferPerBlock'
    BY <1>1, CountsKept DEF Quiet
  <1>4. ListsRight'
    <2>1. starved' = starved /\ ctrlers' = ctrlers /\ lockers' = lockers /\ buf' = buf
      BY DEF Quiet, BuffersKept
    <2>2. SleepersRight'
      BY <1>1, <2>1, SleepersKept
    <2>3. CtrlersRight'
      BY <1>1, <2>1, CtrlersKept
    <2>4. LockersRight'
      BY <1>1, <2>1, LockersKept
    <2> QED
      BY <2>2, <2>3, <2>4 DEF ListsRight
  <1>5. SleepersWoken'
    <2>1. Len(free') <= Len(free) /\ Len(free') \in Nat /\ starved' = starved
      BY SameFree DEF Quiet, BuffersKept
    <2> QED
      BY <1>1, <2>1, WokenKept
  <1> QED
    BY <1>1, <1>2, <1>3, <1>4, <1>5 DEF CacheInv, Parks

LEMMA QuietSteps ==
    ASSUME CacheInv, Bread \/ BreadReturn \/ Modify \/ BrelseClean \/ Preempt
    PROVE  CacheInv'
  <1> USE DEF At, Goto, bufferVars, lockVars, taskVars, deviceVars
  <1>0. TypeOK /\ DispatchInv /\ PlacesRight /\ ReleaseClean
    BY DEF CacheInv
  <1>1. PlaceRight(current) /\ Mine = buf[current] /\ {} \in SUBSET {current}
    BY Running, <1>0 DEF PlacesRight, Mine
  <1>2. ASSUME UNCHANGED dispatchVars PROVE Parks({}, {}) /\ current' = current /\ state' = state
    BY <1>0, <1>2, StayParks DEF dispatchVars
  <1>3. CASE Bread
    <2>1. TypeOK'
      BY <1>0, <1>2, <1>3 DEF TypeOK, DispatchTypeOK, DeviceTypeOK, Bread
    <2>2. Moves("getblk")
      BY <1>3 DEF Bread, Moves, Places
    <2>3. /\ \A t \in Task : t # current => want'[t] = want[t]
          /\ want'[current] # Unused
      BY <1>0, <1>3, Running, Basics DEF Bread, TypeOK
    <2>4. PlacesTo("getblk")
      BY <1>1, <1>2, <1>3, <2>2, <2>3 DEF Bread, PlacesTo, PlaceRight, NoBuffer
    <2>5. Quiet({}, "getblk")
      BY <1>1, <1>2, <1>3, <2>4 DEF Bread, Quiet, BuffersKept
    <2> QED
      BY <2>1, <2>5, QuietKept
  <1>4. CASE BreadReturn
    <2>1. TypeOK'
      BY <1>0, <1>2, <1>4 DEF TypeOK, DispatchTypeOK, DeviceTypeOK, BreadReturn, Clean, Validate
    <2>2. Moves("hold")
      BY <1>4 DEF BreadReturn, Moves, Places
    <2>3. PlacesTo("hold")
      BY <1>1, <1>2, <1>4, <2>2, Running DEF BreadReturn, PlacesTo, PlaceRight, NoBuffer
    <2>4. \A b \in Buf : dirty'[b] => dirty[b]
      BY <1>0, <1>4 DEF BreadReturn, Clean, TypeOK
    <2>5. Quiet({}, "hold")
      BY <1>1, <1>2, <1>4, <2>3, <2>4 DEF BreadReturn, Quiet, BuffersKept
    <2> QED
      BY <2>1, <2>5, QuietKept
  <1>5. CASE Modify
    <2>1. TypeOK'
      <3>1. data' \in [Buf -> 0 .. Version - 1]
        <4>1. ASSUME NEW n \in 0 .. Version - 1
              PROVE  (n + 1) % Version \in 0 .. Version - 1
          <5>1. Version \in Nat /\ Version > 0 /\ n + 1 \in Nat
            BY BufferAssumption
          <5> QED
            BY <5>1
        <4> QED
          BY <1>0, <1>5, <4>1 DEF Modify, TypeOK
      <3> QED
        BY <1>0, <1>2, <1>5, <3>1 DEF TypeOK, DispatchTypeOK, DeviceTypeOK, Modify
    <2>2. Moves("hold")
      BY <1>0, <1>5 DEF Modify, Moves, Places, TypeOK
    <2>3. PlacesTo("hold")
      BY <1>1, <1>2, <1>5, <2>2, Running DEF Modify, PlacesTo, PlaceRight, NoBuffer
    <2>4. \A b \in Buf : dirty'[b] => dirty[b] \/ b = Mine
      BY <1>0, <1>5 DEF Modify, TypeOK
    <2>5. Quiet({}, "hold")
      BY <1>1, <1>2, <1>5, <2>3, <2>4 DEF Modify, Quiet, BuffersKept
    <2> QED
      BY <2>1, <2>5, QuietKept
  <1>6. CASE BrelseClean
    <2>1. TypeOK'
      BY <1>0, <1>2, <1>6 DEF TypeOK, DispatchTypeOK, DeviceTypeOK, BrelseClean
    <2>2. Moves("release")
      BY <1>6 DEF BrelseClean, Moves, Places
    <2>3. PlacesTo("release")
      BY <1>1, <1>2, <1>6, <2>2, Running DEF BrelseClean, PlacesTo, PlaceRight, NoBuffer
    <2>4. Quiet({}, "release")
      BY <1>1, <1>2, <1>6, <2>3 DEF BrelseClean, Quiet, BuffersKept
    <2> QED
      BY <2>1, <2>4, QuietKept
  <1>7. CASE Preempt
    <2>1. Parks({}, {})
      BY <1>0, <1>7, PreemptParks DEF Preempt
    <2>2. TypeOK'
      BY <1>0, <1>7, <2>1 DEF TypeOK, DispatchInv, DeviceTypeOK, Preempt, Parks
    <2>3. PICK p : p = pc[current]
      OBVIOUS
    <2>4. p \in {"user", "hold"} /\ Moves(p)
      <3>1. p \in {"user", "hold"}
        BY <1>7, <2>3 DEF Preempt, InUserMode
      <3>2. pc' = [pc EXCEPT ![current] = p]
        BY <1>0, <1>7, <2>3 DEF Preempt, TypeOK
      <3> QED
        BY <3>1, <3>2 DEF Moves, Places
    <2>5. PlacesTo(p)
      BY <1>1, <1>7, <2>3, <2>4, Running DEF Preempt, PlacesTo, PlaceRight, NoBuffer, Away
    <2>6. Quiet({}, p)
      BY <1>1, <1>7, <2>1, <2>3, <2>4, <2>5 DEF Preempt, Quiet, BuffersKept
    <2> QED
      BY <2>2, <2>6, QuietKept
  <1> QED
    BY <1>3, <1>4, <1>5, <1>6, <1>7

\* The lock of a buffer and the lock of the controller: a task waits for its
\* turn, is given the lock, or gives it to the oldest waiter.
LEMMA LockSteps ==
    ASSUME CacheInv, BreadLock
    PROVE  CacheInv'
  <1> USE DEF At, Goto, bufferVars, lockVars, taskVars, deviceVars
  <1>0. TypeOK /\ DispatchInv /\ PlacesRight /\ ListsRight
    BY DEF CacheInv
  <1>1. PlaceRight(current) /\ Mine = buf[current]
    BY Running, <1>0 DEF PlacesRight, Mine
  <1>2. /\ current \in Task /\ current # Idle /\ Mine \in Buf /\ block[Mine] \in Blocks
        /\ pc[current] = "lock" /\ ~Blocked(current)
    BY Running DEF BreadLock, NoBuffer
  <1>3. CASE holder[Mine] = NoTask
    <2>1. /\ UNCHANGED dispatchVars /\ lockers' = lockers
          /\ holder' = [holder EXCEPT ![Mine] = current] /\ pc' = [pc EXCEPT ![current] = "locked"]
      BY <1>3 DEF BreadLock
    <2>2. Parks({}, {}) /\ current' = current /\ state' = state
      BY <1>0, <2>1, StayParks DEF dispatchVars
    <2>3. TypeOK'
      BY <1>0, <1>2, <2>1, <2>2 DEF TypeOK, DispatchTypeOK, DeviceTypeOK, BreadLock
    <2>4. Moves("locked")
      BY <2>1 DEF Moves, Places
    <2>5. PlacesTo("locked")
      BY <1>1, <1>2, <2>2, <2>4 DEF BreadLock, PlacesTo, PlaceRight, NoBuffer
    <2>6. Quiet({}, "locked")
      BY <1>2, <2>1, <2>2, <2>5 DEF BreadLock, Quiet, BuffersKept
    <2> QED
      BY <2>3, <2>6, QuietKept
  <1>4. CASE holder[Mine] # NoTask
    <2>1. /\ Block("BLOCKED") /\ holder' = holder /\ pc' = pc
          /\ lockers' = [lockers EXCEPT ![Mine] = Append(@, current)]
      BY <1>4 DEF BreadLock
    <2>2. Parks({current}, {}) /\ Moves("lock") /\ {current} \in SUBSET {current}
      <3>1. pc' = [pc EXCEPT ![current] = "lock"]
        BY <1>0, <1>2, <2>1 DEF TypeOK
      <3> QED
        BY <1>0, <1>2, <2>1, <3>1, BlockParks DEF Moves, Places
    <2>3. lockers[Mine] \in Seq(Task) /\ ListRight(lockers[Mine], "lock")
      BY <1>0, <1>2 DEF TypeOK, ListsRight, LockersRight
    <2>4. /\ Append(lockers[Mine], current) \in Seq(Task) /\ Once(Append(lockers[Mine], current))
          /\ \A t \in Task : In(t, Append(lockers[Mine], current)) =>
                pc'[t] = "lock" /\ Blocked(t)' /\ (In(t, lockers[Mine]) \/ t = current)
      BY <2>2, <2>3, ListJoined
    <2>5. /\ lockers' \in [Buf -> Seq(Task)] /\ lockers'[Mine] = Append(lockers[Mine], current)
          /\ \A b \in Buf : b # Mine => lockers'[b] = lockers[b]
      BY <1>0, <1>2, <2>1, <2>4 DEF TypeOK
    <2>6. TypeOK'
      <3>1. DispatchTypeOK'
        BY <2>2 DEF Parks, DispatchInv
      <3> QED
        BY <1>0, <2>1, <2>5, <3>1 DEF TypeOK, DeviceTypeOK, BreadLock
    <2>7. PlacesRight'
      <3>1. PlacesTo("lock")
        BY <1>1, <1>2, <2>1, <2>2 DEF BreadLock, PlacesTo, PlaceRight, NoBuffer, Away
      <3> QED
        BY <3>1, PlacesKept
    <2>8. FreeRight' /\ FreeIsClean' /\ ReleaseClean' /\ OneBufferPerBlock'
      <3>1. BuffersKept("lock")
        BY DEF BreadLock, BuffersKept
      <3> QED
        BY <2>2, <3>1, CountsKept
    <2>9. SleepersRight' /\ CtrlersRight' /\ SleepersWoken'
      BY <1>2, <2>2, SleepersKept, CtrlersKept, WokenKept, SameFree DEF BreadLock
    <2>10. LockersRight'
      <3> SUFFICES ASSUME NEW b \in Buf
                   PROVE  /\ Once(lockers'[b])
                          /\ \A t \in Task : In(t, lockers'[b]) =>
                                pc'[t] = "lock" /\ Blocked(t)' /\ buf'[t] = b
        BY DEF LockersRight, ListRight, Once, In
      <3>1. buf' = buf /\ ListRight(lockers[b], "lock") /\ \A t \in Task : In(t, lockers[b]) => buf[t] = b
        BY <1>0 DEF BreadLock, ListsRight, LockersRight
      <3>2. CASE b = Mine
        BY <1>1, <2>4, <2>5, <3>1, <3>2
      <3>3. CASE b # Mine
        <4>1. Once(lockers[b]) /\ \A t \in Task : In(t, lockers[b]) => In(t, lockers[b]) /\ t \notin {}
          BY <3>1 DEF ListRight
        <4>2. \A t \in Task : In(t, lockers[b]) => pc'[t] = "lock" /\ Blocked(t)'
          BY <2>2, <3>1, <4>1, ListKept
        <4> QED
          BY <2>5, <3>1, <3>3, <4>1, <4>2
      <3> QED
        BY <3>2, <3>3
    <2> QED
      BY <2>2, <2>6, <2>7, <2>8, <2>9, <2>10 DEF CacheInv, ListsRight, Parks
  <1> QED
    BY <1>3, <1>4

LEMMA SkipStep ==
    ASSUME CacheInv, BreadSkip
    PROVE  CacheInv'
  <1> USE DEF At, Goto, bufferVars, lockVars, taskVars, deviceVars
  <1>0. TypeOK /\ DispatchInv /\ PlacesRight /\ ListsRight
    BY DEF CacheInv
  <1>1. PlaceRight(current) /\ Mine = buf[current]
    BY Running, <1>0 DEF PlacesRight, Mine
  <1>2. /\ current \in Task /\ current # Idle /\ Mine \in Buf /\ block[Mine] \in Blocks
        /\ pc[current] = "locked" /\ {} \in SUBSET {current}
    BY Running DEF BreadSkip, NoBuffer
  <1>3. /\ holder' = [holder EXCEPT ![Mine] = NoTask] /\ pc' = [pc EXCEPT ![current] = "unlocked"]
        /\ Moves("unlocked")
    BY DEF BreadSkip, Unlock, Moves, Places
  <1>4. CASE lockers[Mine] = << >>
    <2>1. UNCHANGED dispatchVars /\ lockers' = lockers
      BY <1>4 DEF BreadSkip, Unlock
    <2>2. Parks({}, {}) /\ current' = current /\ state' = state
      BY <1>0, <2>1, StayParks DEF dispatchVars
    <2>3. TypeOK'
      BY <1>0, <1>2, <1>3, <2>1, <2>2 DEF TypeOK, DispatchTypeOK, DeviceTypeOK, BreadSkip
    <2>4. PlacesTo("unlocked")
      BY <1>1, <1>2, <1>3, <2>2 DEF BreadSkip, PlacesTo, PlaceRight, NoBuffer
    <2>5. Quiet({}, "unlocked")
      BY <1>2, <2>1, <2>2, <2>4 DEF BreadSkip, Quiet, BuffersKept
    <2> QED
      BY <2>3, <2>5, QuietKept
  <1>5. CASE lockers[Mine] # << >>
    <2>0. PICK h : h = Head(lockers[Mine])
      OBVIOUS
    <2>1. lockers' = [lockers EXCEPT ![Mine] = Tail(@)] /\ Schedule(Unblock(state, {h}))
      BY <1>5, <2>0 DEF BreadSkip, Unlock
    <2>2. lockers[Mine] \in Seq(Task) /\ ListRight(lockers[Mine], "lock")
          /\ \A t \in Task : In(t, lockers[Mine]) => buf[t] = Mine
      BY <1>0, <1>2 DEF TypeOK, ListsRight, LockersRight
    <2>3. h \in Task /\ pc[h] = "lock" /\ buf[h] = Mine
      BY <1>5, <2>0, <2>2, ListHead
    <2>4. Parks({}, {h})
      BY <1>0, <2>1, <2>3, SwitchParks
    <2>5. /\ Tail(lockers[Mine]) \in Seq(Task) /\ Once(Tail(lockers[Mine]))
          /\ \A t \in Task : In(t, Tail(lockers[Mine])) =>
                pc'[t] = "lock" /\ Blocked(t)' /\ In(t, lockers[Mine])
      BY <1>3, <1>5, <2>0, <2>2, <2>4, ListLeft
    <2>6. /\ lockers' \in [Buf -> Seq(Task)] /\ lockers'[Mine] = Tail(lockers[Mine])
          /\ \A b \in Buf : b # Mine => lockers'[b] = lockers[b]
      BY <1>0, <1>2, <2>1, <2>5 DEF TypeOK
    <2>7. TypeOK'
      <3>1. DispatchTypeOK'
        BY <2>4 DEF Parks, DispatchInv
      <3>2. pc' \in [Task -> Places]
        BY <1>0, <1>3, MovesTo
      <3> QED
        BY <1>0, <1>3, <2>6, <3>1, <3>2 DEF TypeOK, DeviceTypeOK, BreadSkip, Places
    <2>8. PlacesRight'
      <3>1. PlacesTo("unlocked")
        BY <1>1, <1>2, <1>3 DEF BreadSkip, PlacesTo, PlaceRight, NoBuffer, Away
      <3> QED
        BY <3>1, PlacesKept
    <2>9. FreeRight' /\ FreeIsClean' /\ ReleaseClean' /\ OneBufferPerBlock'
      <3>1. BuffersKept("unlocked")
        BY DEF BreadSkip, BuffersKept
      <3> QED
        BY <1>3, <3>1, CountsKept
    <2>10. SleepersRight' /\ CtrlersRight' /\ SleepersWoken'
      BY <1>2, <1>3, <2>3, <2>4, SleepersKept, CtrlersKept, WokenKept, SameFree DEF BreadSkip
    <2>11. LockersRight'
      <3> SUFFICES ASSUME NEW b \in Buf
                   PROVE  /\ Once(lockers'[b])
                          /\ \A t \in Task : In(t, lockers'[b]) =>
                                pc'[t] = "lock" /\ Blocked(t)' /\ buf'[t] = b
        BY DEF LockersRight, ListRight, Once, In
      <3>1. buf' = buf /\ ListRight(lockers[b], "lock") /\ \A t \in Task : In(t, lockers[b]) => buf[t] = b
        BY <1>0 DEF BreadSkip, ListsRight, LockersRight
      <3>2. CASE b = Mine
        BY <2>2, <2>5, <2>6, <3>1, <3>2
      <3>3. CASE b # Mine
        <4>1. Once(lockers[b]) /\ \A t \in Task : In(t, lockers[b]) => In(t, lockers[b]) /\ t \notin {h}
          BY <2>3, <3>1, <3>3 DEF ListRight
        <4>2. \A t \in Task : In(t, lockers[b]) => pc'[t] = "lock" /\ Blocked(t)'
          BY <1>2, <1>3, <2>4, <3>1, <4>1, ListKept
        <4> QED
          BY <2>6, <3>1, <3>3, <4>1, <4>2
      <3> QED
        BY <3>2, <3>3
    <2> QED
      BY <2>4, <2>7, <2>8, <2>9, <2>10, <2>11 DEF CacheInv, ListsRight, Parks
  <1> QED
    BY <1>4, <1>5

LEMMA CtrlStep ==
    ASSUME CacheInv, DoRequestWait
    PROVE  CacheInv'
  <1> USE DEF At, bufferVars, lockVars, taskVars
  <1>0. TypeOK /\ DispatchInv /\ PlacesRight /\ ListsRight
    BY DEF CacheInv
  <1>1. /\ PlaceRight(current) /\ Mine = buf[current] /\ current \in Task /\ current # Idle
        /\ pc[current] = "request" /\ pc' = pc
    BY Running, <1>0 DEF PlacesRight, Mine, DoRequestWait
  <1>2. Parks({current}, {}) /\ Moves("request") /\ {current} \in SUBSET {current}
    <2>1. pc' = [pc EXCEPT ![current] = "request"]
      BY <1>0, <1>1 DEF TypeOK
    <2> QED
      BY <1>0, <1>1, <2>1, BlockParks DEF DoRequestWait, AwaitCtrl, Moves, Places
  <1>3. ctrlers \in Seq(Task) /\ ListRight(ctrlers, "request")
    BY <1>0 DEF TypeOK, DeviceTypeOK, ListsRight, CtrlersRight
  <1>4. /\ ctrlers' \in Seq(Task) /\ Once(ctrlers')
        /\ \A t \in Task : In(t, ctrlers') => pc'[t] = "request" /\ Blocked(t)'
    BY <1>2, <1>3, ListJoined DEF DoRequestWait, AwaitCtrl
  <1>5. CtrlersRight'
    BY <1>4 DEF CtrlersRight, ListRight, Once, In
  <1>6. TypeOK'
    <2>1. DispatchTypeOK'
      BY <1>2 DEF Parks, DispatchInv
    <2> QED
      BY <1>0, <1>4, <2>1 DEF TypeOK, DeviceTypeOK, DoRequestWait, AwaitCtrl
  <1>7. PlacesRight'
    <2>1. PlacesTo("request")
      BY <1>1, <1>2 DEF DoRequestWait, PlacesTo, PlaceRight, NoBuffer, Away
    <2> QED
      BY <2>1, PlacesKept
  <1>8. FreeRight' /\ FreeIsClean' /\ ReleaseClean' /\ OneBufferPerBlock'
    <2>1. BuffersKept("request")
      BY DEF DoRequestWait, BuffersKept
    <2> QED
      BY <1>2, <2>1, CountsKept
  <1>9. SleepersRight' /\ LockersRight' /\ SleepersWoken'
    BY <1>1, <1>2, SleepersKept, LockersKept, WokenKept, SameFree DEF DoRequestWait
  <1> QED
    BY <1>2, <1>5, <1>6, <1>7, <1>8, <1>9 DEF CacheInv, ListsRight, Parks

LEMMA TransferredStep ==
    ASSUME CacheInv, Transferred
    PROVE  CacheInv'
  <1> USE DEF At, Goto, bufferVars, lockVars, taskVars
  <1>0. TypeOK /\ DispatchInv /\ PlacesRight /\ ListsRight
    BY DEF CacheInv
  <1>1. PlaceRight(current) /\ Mine = buf[current]
    BY Running, <1>0 DEF PlacesRight, Mine
  <1>2. /\ current \in Task /\ current # Idle /\ Mine \in Buf /\ block[Mine] \in Blocks
        /\ pc[current] = "io" /\ {} \in SUBSET {current}
    BY Running DEF Transferred, NoBuffer
  <1>3. Moves("served") /\ pc' \in [Task -> Places]
    <2>1. Moves("served")
      BY DEF Transferred, Moves, Places
    <2> QED
      BY <1>0, <2>1, MovesTo
  <1>4. data' \in [Buf -> 0 .. Version - 1]
    <2>1. disk[block[Mine]] \in 0 .. Version - 1
      BY <1>0, <1>2 DEF TypeOK
    <2> QED
      BY <1>0, <1>2, <2>1 DEF TypeOK, Transferred
  <1>5. BuffersKept("served")
    BY DEF Transferred, BuffersKept
  <1>6. PlacesTo("served")
    BY <1>1, <1>2, <1>3 DEF Transferred, PlacesTo, PlaceRight, NoBuffer, Away
  <1>7. ASSUME ctrlers' \in Seq(Task), DispatchTypeOK' PROVE TypeOK'
    BY <1>0, <1>3, <1>4, <1>7 DEF TypeOK, DeviceTypeOK, Transferred, LeaveCtrl, Places
  <1>8. CASE ctrlers = << >>
    <2>1. UNCHANGED dispatchVars /\ ctrlers' = ctrlers
      BY <1>8 DEF Transferred, LeaveCtrl
    <2>2. Parks({}, {})
      BY <1>0, <2>1, StayParks
    <2>3. TypeOK'
      BY <1>0, <1>7, <2>1, <2>2 DEF Parks, DispatchInv, TypeOK, DeviceTypeOK
    <2>4. Quiet({}, "served")
      BY <1>2, <1>5, <1>6, <2>1, <2>2 DEF Quiet, Transferred
    <2> QED
      BY <2>3, <2>4, QuietKept
  <1>9. CASE ctrlers # << >>
    <2>0. PICK h : h = Head(ctrlers)
      OBVIOUS
    <2>1. ctrlers' = Tail(ctrlers) /\ Schedule(Unblock(state, {h}))
      BY <1>9, <2>0 DEF Transferred, LeaveCtrl
    <2>2. ctrlers \in Seq(Task) /\ ListRight(ctrlers, "request")
      BY <1>0 DEF TypeOK, DeviceTypeOK, ListsRight, CtrlersRight
    <2>3. h \in Task /\ pc[h] = "request"
      BY <1>9, <2>0, <2>2, ListHead
    <2>4. Parks({}, {h})
      BY <1>0, <2>1, <2>3, SwitchParks
    <2>5. /\ ctrlers' \in Seq(Task) /\ Once(ctrlers')
          /\ \A t \in Task : In(t, ctrlers') => pc'[t] = "request" /\ Blocked(t)'
      BY <1>3, <1>9, <2>0, <2>1, <2>2, <2>4, ListLeft
    <2>6. CtrlersRight'
      BY <2>5 DEF CtrlersRight, ListRight, Once, In
    <2>7. TypeOK' /\ DispatchInv'
      BY <1>7, <2>4, <2>5 DEF Parks, DispatchInv
    <2>8. FreeRight' /\ FreeIsClean' /\ ReleaseClean' /\ OneBufferPerBlock' /\ PlacesRight'
      BY <1>3, <1>5, <1>6, CountsKept, PlacesKept
    <2>9. SleepersRight' /\ LockersRight' /\ SleepersWoken'
      BY <1>2, <1>3, <2>3, <2>4, SleepersKept, LockersKept, WokenKept, SameFree DEF Transferred
    <2> QED
      BY <2>6, <2>7, <2>8, <2>9 DEF CacheInv, ListsRight
  <1> QED
    BY <1>8, <1>9

\* A task is woken by the interrupt or by a timer.
LEMMA WakeStep ==
    ASSUME CacheInv, InUserMode, NEW W \in SUBSET Task, \A t, u \in W : t = u,
           Wakes(W), Unlisted(W), waiter' \in {waiter, NoTask},
           UNCHANGED <<current, queue, direct, ctrl, bufferVars, holder, free, disk, pc,
                       taskVars, slept>>
    PROVE  CacheInv'
  <1> USE DEF At, bufferVars, taskVars
  <1>0. TypeOK /\ DispatchInv /\ PlacesRight
    BY DEF CacheInv
  <1>1. /\ PlaceRight(current) /\ Mine = buf[current]
        /\ current \in Task /\ (current # Idle \/ pc[current] = "user")
    BY Running, <1>0 DEF PlacesRight, Mine
  <1>2. PICK p : p = pc[current]
    OBVIOUS
  <1>3. p \in {"user", "hold"} /\ Moves(p)
    <2>1. pc' = [pc EXCEPT ![current] = p]
      BY <1>0, <1>2 DEF TypeOK
    <2> QED
      BY <1>2, <2>1 DEF InUserMode, Moves, Places
  <1>4. /\ Parks({}, W) /\ ListsRight' /\ SleepersWoken'
        /\ ctrlers' \in Seq(Task) /\ starved' \in Seq(Task) /\ lockers' \in [Buf -> Seq(Task)]
    BY <1>2, <1>3, WakeKept
  <1>5. TypeOK'
    <2>1. DispatchTypeOK'
      BY <1>4 DEF Parks, DispatchInv
    <2> QED
      BY <1>0, <1>4, <2>1 DEF TypeOK, DeviceTypeOK
  <1>6. PlacesRight'
    <2>1. PlacesTo(p)
      BY <1>1, <1>2, <1>3, Running DEF PlacesTo, PlaceRight, NoBuffer, Away
    <2> QED
      BY <2>1, PlacesKept
  <1>7. FreeRight' /\ FreeIsClean' /\ ReleaseClean' /\ OneBufferPerBlock'
    <2>1. BuffersKept(p)
      BY <1>3 DEF BuffersKept
    <2> QED
      BY <1>3, <2>1, CountsKept
  <1> QED
    BY <1>4, <1>5, <1>6, <1>7 DEF CacheInv, Parks

LEMMA WakeSteps ==
    ASSUME CacheInv, DeviceInterrupt \/ StaleTimeout
    PROVE  CacheInv'
  <1>1. CASE DeviceInterrupt
    <2>1. PICK w \in Task : w = waiter
      BY <1>1 DEF DeviceInterrupt, Interrupt, CacheInv, TypeOK, DeviceTypeOK
    <2>2. Wakes({w}) /\ Unlisted({w}) /\ {w} \in SUBSET Task
      BY <1>1, <2>1 DEF DeviceInterrupt, Interrupt
    <2> QED
      BY <1>1, <2>2, WakeStep DEF DeviceInterrupt, Interrupt
  <1>2. CASE StaleTimeout
    <2>1. PICK w \in Task : Wakes({w}) /\ Unlisted({w})
      BY <1>2 DEF StaleTimeout
    <2> QED
      BY <1>2, <2>1, WakeStep DEF StaleTimeout
  <1> QED
    BY <1>1, <1>2

\* A request is put into the queue.
LEMMA Submitted ==
    ASSUME CacheInv, current # Idle, NEW idx \in Nat, Submit(idx)
    PROVE  /\ DeviceTypeOK' /\ ctrlers' = ctrlers
           /\ \E A \in SUBSET {current} : Parks(A, {}) /\ (current \in A <=> queue # << >>)
           /\ \E n \in 1 .. Len(queue) + 1, e \in Requests :
                /\ queue' = InsertAt(queue, n, e)
                /\ e.task = current /\ (e.named <=> queue # << >>)
  <1>0. TypeOK /\ DispatchInv /\ current \in Task
    BY Running DEF CacheInv
  <1>1. PICK e : e = [task |-> current, idx |-> idx, named |-> queue # << >>]
    OBVIOUS
  <1>2. e \in Requests /\ e.task = current /\ (e.named <=> queue # << >>)
    BY <1>0, <1>1 DEF Requests
  <1>3. PICK S : S = Requests
    OBVIOUS
  <1>4. queue \in Seq(S) /\ e \in S /\ Len(queue) \in Nat
    BY <1>0, <1>2, <1>3, LenProperties DEF TypeOK, DeviceTypeOK, Requests
  <1>5. PICK n \in 1 .. Len(queue) + 1 : queue' = InsertAt(queue, n, e)
    <2>1. PICK n \in 0 .. Len(queue) : queue' = InsertAt(queue, n + 1, e)
      BY <1>1 DEF Submit
    <2>2. n + 1 \in 1 .. Len(queue) + 1
      BY <1>4
    <2> QED
      BY <2>1, <2>2
  <1>6. queue' \in Seq(S)
    BY <1>4, <1>5, InsertAtProperties
  <1>7. DeviceTypeOK' /\ ctrlers' = ctrlers
    BY <1>0, <1>3, <1>6 DEF DeviceTypeOK, Requests, TypeOK, Submit
  <1>8. CASE queue = << >>
    <2>1. Parks({}, {})
      BY <1>0, <1>8, StayParks DEF Submit
    <2> QED
      BY <1>2, <1>5, <1>7, <1>8, <2>1
  <1>9. CASE queue # << >>
    <2>1. Parks({current}, {})
      BY <1>0, <1>9, BlockParks DEF Submit
    <2> QED
      BY <1>2, <1>5, <1>7, <1>9, <2>1
  <1> QED
    BY <1>8, <1>9

LEMMA RequestStep ==
    ASSUME CacheInv, NEW what \in {"bread", "bwrite", "brelse"}, Request(what),
           pc[current] \in {"locked", "hold"}
    PROVE  CacheInv'
  <1> USE DEF At, Goto, bufferVars, lockVars, taskVars
  <1>0. TypeOK /\ PlacesRight
    BY DEF CacheInv
  <1>1. /\ PlaceRight(current) /\ Mine = buf[current] /\ current \in Task /\ current # Idle
        /\ Mine \in Buf /\ block[Mine] \in Blocks /\ block[Mine] \in Nat
    BY Running, <1>0, BufferAssumption DEF PlacesRight, Mine, NoBuffer
  <1>2. Moves("request") /\ pc' \in [Task -> Places]
    <2>1. Moves("request")
      BY DEF Request, Moves, Places
    <2> QED
      BY <1>0, <2>1, MovesTo
  <1>3. PICK idx \in Nat : idx = block[Mine]
    BY <1>1
  <1>4. /\ DeviceTypeOK' /\ ctrlers' = ctrlers
        /\ \E A \in SUBSET {current} : Parks(A, {}) /\ (current \in A <=> queue # << >>)
    BY <1>1, <1>3, Submitted DEF Request
  <1>5. PICK A \in SUBSET {current} : Parks(A, {})
    BY <1>4
  <1>6. TypeOK'
    <2>1. DispatchTypeOK'
      BY <1>5 DEF Parks, DispatchInv
    <2>2. doing' \in [Task -> {"bread", "bwrite", "brelse"}]
      BY <1>0, <1>1 DEF Request, TypeOK
    <2> QED
      BY <1>0, <1>2, <1>4, <2>1, <2>2 DEF TypeOK, Request, Places
  <1>7. PlacesTo("request")
    BY <1>1, <1>2 DEF Request, PlacesTo, PlaceRight, NoBuffer, Away
  <1>8. Quiet(A, "request")
    BY <1>1, <1>4, <1>5, <1>7 DEF Request, Quiet, BuffersKept
  <1> QED
    BY <1>6, <1>8, QuietKept

LEMMA CommandStep ==
    ASSUME CacheInv, DoRequest
    PROVE  CacheInv'
  <1> USE DEF At, Goto, bufferVars, lockVars, taskVars
  <1>0. TypeOK /\ DispatchInv /\ PlacesRight
    BY DEF CacheInv
  <1>1. /\ PlaceRight(current) /\ Mine = buf[current] /\ current \in Task /\ current # Idle
        /\ Mine \in Buf /\ block[Mine] \in Blocks /\ pc[current] = "request"
    BY Running, <1>0 DEF PlacesRight, Mine, NoBuffer, DoRequest
  <1>2. Moves("io") /\ pc' \in [Task -> Places]
    <2>1. Moves("io")
      BY DEF DoRequest, Moves, Places
    <2> QED
      BY <1>0, <2>1, MovesTo
  <1>3. PICK A \in SUBSET {current} : Parks(A, {})
    <2>1. CASE state[current] = "RUNNING"
      BY <1>0, <1>1, <2>1, BlockParks DEF DoRequest, Command
    <2>2. CASE state[current] # "RUNNING"
      BY <1>0, <2>2, StayParks DEF DoRequest, Command
    <2> QED
      BY <2>1, <2>2
  <1>4. TypeOK'
    <2>1. DispatchTypeOK'
      BY <1>3 DEF Parks, DispatchInv
    <2>2. disk' \in [Blocks -> 0 .. Version - 1]
      BY <1>0, <1>1 DEF DoRequest, TypeOK
    <2>3. DeviceTypeOK'
      BY <1>0, <1>1 DEF TypeOK, DeviceTypeOK, DoRequest, Command
    <2> QED
      BY <1>0, <1>2, <2>1, <2>2, <2>3 DEF TypeOK, DoRequest, Places
  <1>5. PlacesTo("io")
    BY <1>1, <1>2 DEF DoRequest, PlacesTo, PlaceRight, NoBuffer, Away
  <1>6. Quiet(A, "io")
    BY <1>1, <1>3, <1>5 DEF DoRequest, Command, Quiet, BuffersKept
  <1> QED
    BY <1>4, <1>6, QuietKept

\* A request is taken off the queue, and the task of the next one is let go.
LEMMA Completed ==
    ASSUME CacheInv, Served
    PROVE  /\ DeviceTypeOK' /\ current' = current
           /\ \E i \in DOMAIN queue : \E W \in SUBSET Task :
                /\ queue[i].task = current /\ direct' = Turned(i)
                /\ W = {r.task : r \in Neighbour(i)} /\ \A t, u \in W : t = u
                /\ Wakes(W) /\ Unlisted(W) /\ queue' = RemoveAt(queue, i)
                /\ waiter' = waiter /\ ctrl' = ctrl
  <1>0. TypeOK
    BY DEF CacheInv
  <1>1. PICK i \in DOMAIN queue : Complete(i) /\ Unlisted({r.task : r \in Neighbour(i)})
    BY DEF Served
  <1>2. PICK W : W = {r.task : r \in Neighbour(i)}
    OBVIOUS
  <1>3. Wakes(W) /\ Unlisted(W) /\ queue' = RemoveAt(queue, i) /\ direct' = Turned(i)
        /\ UNCHANGED <<current, waiter, ctrl>> /\ queue[i].task = current
    BY <1>1, <1>2 DEF Complete
  <1>4. PICK S : S = Requests
    OBVIOUS
  <1>5. queue \in Seq(S) /\ i \in 1 .. Len(queue) /\ \A j \in DOMAIN queue : queue[j] \in Requests
    <2>1. queue \in Seq(S)
      BY <1>0, <1>4 DEF TypeOK, DeviceTypeOK, Requests
    <2> QED
      BY <1>4, <2>1, LenProperties, ElementOfSeq
  <1>6. W \in SUBSET Task /\ \A t, u \in W : t = u
    <2>1. Neighbour(i) \subseteq Requests /\ \A r, s \in Neighbour(i) : r = s
      BY <1>5 DEF Neighbour
    <2> QED
      BY <1>2, <2>1 DEF Requests
  <1>7. queue' \in Seq(S)
    BY <1>3, <1>5, RemoveAtProperties
  <1>8. DeviceTypeOK'
    <2>1. direct' \in {"UP", "DOWN"}
      BY <1>0, <1>3 DEF Turned, TypeOK, DeviceTypeOK
    <2>2. ctrlers' \in Seq(Task)
      <3>1. ctrlers \in Seq(Task) /\ Once(ctrlers)
        BY <1>0 DEF TypeOK, DeviceTypeOK, CacheInv, ListsRight, CtrlersRight, ListRight
      <3> QED
        BY <1>3, <1>6, <3>1, TakenOffOnce DEF Wakes
    <2> QED
      BY <1>0, <1>3, <1>4, <1>7, <2>1, <2>2 DEF DeviceTypeOK, Requests, TypeOK
  <1> QED
    BY <1>2, <1>3, <1>6, <1>8

LEMMA DoneSteps ==
    ASSUME CacheInv, ReadDone \/ WriteDone
    PROVE  CacheInv'
  <1> USE DEF At, Goto, bufferVars, lockVars, taskVars
  <1>0. TypeOK /\ PlacesRight
    BY DEF CacheInv
  <1>1. /\ PlaceRight(current) /\ Mine = buf[current] /\ current \in Task /\ current # Idle
        /\ Mine \in Buf /\ block[Mine] \in Blocks /\ pc[current] = "served"
    BY Running, <1>0 DEF PlacesRight, Mine, NoBuffer, ReadDone, WriteDone
  <1>2. PICK p \in {"locked", "hold", "release"} : pc' = [pc EXCEPT ![current] = p]
    <2>1. CASE ReadDone
      BY <2>1 DEF ReadDone
    <2>2. CASE WriteDone
      BY <2>2 DEF WriteDone
    <2> QED
      BY <2>1, <2>2
  <1>3. Moves(p) /\ pc' \in [Task -> Places]
    <2>1. Moves(p)
      BY <1>2 DEF Moves, Places
    <2> QED
      BY <1>0, <2>1, MovesTo
  <1>4. /\ Served /\ Clean /\ Validate
        /\ UNCHANGED <<block, count, data, holder, free, disk, want, buf, slept>>
        /\ doing' \in [Task -> {"bread", "bwrite", "brelse"}]
    BY <1>0 DEF ReadDone, WriteDone, TypeOK
  <1>5. DeviceTypeOK' /\ current' = current
    BY <1>4, Completed
  <1>6. PICK W \in SUBSET Task : (\A t, u \in W : t = u) /\ Wakes(W) /\ Unlisted(W)
    BY <1>4, Completed
  <1>7. /\ Parks({}, W) /\ ListsRight' /\ SleepersWoken'
        /\ starved' \in Seq(Task) /\ lockers' \in [Buf -> Seq(Task)]
    BY <1>1, <1>3, <1>4, <1>5, <1>6, WakeKept
  <1>8. TypeOK'
    <2>1. DispatchTypeOK'
      BY <1>7 DEF Parks, DispatchInv
    <2>2. dirty' \in [Buf -> BOOLEAN] /\ valid' \in [Buf -> BOOLEAN]
      BY <1>0, <1>4 DEF Clean, Validate, TypeOK
    <2> QED
      BY <1>0, <1>3, <1>4, <1>5, <1>7, <2>1, <2>2 DEF TypeOK, Places
  <1>9. PlacesRight'
    <2>1. PlacesTo(p)
      BY <1>1, <1>2, <1>3, <1>4, <1>5 DEF PlacesTo, PlaceRight, NoBuffer
    <2> QED
      BY <2>1, PlacesKept
  <1>10. FreeRight' /\ FreeIsClean' /\ ReleaseClean' /\ OneBufferPerBlock'
    <2>1. \A b \in Buf : dirty'[b] => dirty[b] /\ b # Mine
      BY <1>0, <1>4 DEF Clean, TypeOK
    <2>2. BuffersKept(p)
      BY <1>1, <1>4, <2>1 DEF BuffersKept
    <2> QED
      BY <1>3, <2>2, CountsKept
  <1> QED
    BY <1>7, <1>8, <1>9, <1>10 DEF CacheInv, Parks

\* Counting who has a buffer, when the running task takes b or gives one up.
LEMMA Joined ==
    ASSUME CacheInv, NEW b \in Buf, buf[current] = 0, buf' = [buf EXCEPT ![current] = b]
    PROVE  \A c \in Buf : Cardinality(Users(c)') = IF c = b THEN Cardinality(Users(c)) + 1
                                                   ELSE Cardinality(Users(c))
  <1>1. current \in Task /\ buf \in [Task -> Buf \cup {0}] /\ 0 \notin Buf
    BY Running, Basics DEF CacheInv, TypeOK
  <1>2. \A c \in Buf : Users(c)' = IF c = b THEN Users(c) \cup {current} ELSE Users(c)
    BY <1>1 DEF Users
  <1>3. current \notin Users(b) /\ IsFiniteSet(Users(b))
    BY <1>1, Basics DEF Users
  <1>4. Cardinality(Users(b) \cup {current}) = Cardinality(Users(b)) + 1
    BY <1>3, FS_AddElement
  <1> QED
    BY <1>2, <1>4

LEMMA Left ==
    ASSUME CacheInv, buf[current] \in Buf, buf' = [buf EXCEPT ![current] = 0]
    PROVE  \A c \in Buf : Cardinality(Users(c)') = IF c = buf[current] THEN Cardinality(Users(c)) - 1
                                                   ELSE Cardinality(Users(c))
  <1>1. current \in Task /\ buf \in [Task -> Buf \cup {0}] /\ 0 \notin Buf
    BY Running, Basics DEF CacheInv, TypeOK
  <1>2. PICK b \in Buf : b = buf[current]
    OBVIOUS
  <1>3. \A c \in Buf : Users(c)' = IF c = b THEN Users(c) \ {current} ELSE Users(c)
    BY <1>1, <1>2 DEF Users
  <1>4. current \in Users(b) /\ IsFiniteSet(Users(b))
    BY <1>1, <1>2, Basics DEF Users
  <1>5. Cardinality(Users(b) \ {current}) = Cardinality(Users(b)) - 1
    BY <1>4, FS_RemoveElement
  <1> QED
    BY <1>2, <1>3, <1>5

\* What the running task does with the buffer it has found or been given.
LEMMA HitStep ==
    ASSUME CacheInv, GetblkHit
    PROVE  CacheInv'
  <1> USE DEF At, Goto, bufferVars, lockVars, deviceVars
  <1>0. TypeOK /\ DispatchInv /\ PlacesRight /\ FreeRight
    BY DEF CacheInv
  <1>1. /\ PlaceRight(current) /\ current \in Task /\ current # Idle
        /\ pc[current] = "getblk" /\ want[current] \in Blocks
        /\ buf[current] = 0 /\ Unused \notin Blocks /\ 0 \notin Buf
    BY Running, Basics, <1>0 DEF PlacesRight, PlaceRight, NoBuffer, GetblkHit
  <1>2. PICK b \in Buf : /\ block[b] = want[current] /\ Found(b)
                         /\ buf' = [buf EXCEPT ![current] = b]
    BY DEF GetblkHit, Cached
  <1>p. PICK p \in {"hold", "lock"} : pc' = [pc EXCEPT ![current] = p]
    BY DEF GetblkHit
  <1>3. /\ Moves(p) /\ pc' \in [Task -> Places] /\ pc'[current] = p
        /\ \A t \in Task : t # current => pc'[t] = pc[t]
    <2>1. Moves(p)
      BY <1>p DEF Moves, Places
    <2> QED
      BY <1>0, <2>1, MovesTo
  <1>4. Parks({}, {}) /\ {} \in SUBSET {current} /\ current' = current /\ state' = state
    BY <1>0, StayParks DEF GetblkHit, dispatchVars
  <1>5. free \in Seq(Buf) /\ Once(free) /\ Len(free) \in Nat
    BY <1>0, LenProperties DEF TypeOK, FreeRight
  <1>6. /\ free' \in Seq(Buf) /\ Once(free') /\ Len(free') <= Len(free) /\ Len(free') \in Nat
        /\ \A c : In(c, free') <=> In(c, free) /\ c # b
    <2>1. CASE \E i \in DOMAIN free : free[i] = b /\ free' = RemoveAt(free, i)
      <3>1. PICK i \in DOMAIN free : free[i] = b /\ free' = RemoveAt(free, i)
        BY <2>1
      <3>2. /\ free' \in Seq(Buf) /\ Once(free') /\ Len(free') = Len(free) - 1
            /\ \A c : In(c, free') <=> In(c, free) /\ c # b
        BY <1>5, <3>1, RemoveOnce
      <3>3. Len(free') \in Nat
        BY <3>2, LenProperties
      <3> QED
        BY <1>5, <3>2, <3>3
    <2>2. CASE (\A i \in DOMAIN free : free[i] # b) /\ UNCHANGED free
      BY <1>5, <2>2 DEF In
    <2> QED
      BY <1>2, <2>1, <2>2 DEF Found
  <1>7. /\ count' \in [Buf -> Nat]
        /\ \A c \in Buf : count'[c] = IF c = b THEN count[c] + 1 ELSE count[c]
    BY <1>0, <1>2 DEF Found, TypeOK
  <1>8. TypeOK'
    <2>1. DispatchTypeOK'
      BY <1>4 DEF Parks, DispatchInv
    <2> QED
      BY <1>0, <1>1, <1>2, <1>3, <1>6, <1>7, <2>1 DEF TypeOK, DeviceTypeOK, GetblkHit, Places
  <1>9. PlacesRight'
    <2>1. /\ buf'[current] = b /\ \A t \in Task : t # current => buf'[t] = buf[t]
      BY <1>0, <1>1, <1>2 DEF TypeOK
    <2>2. PlacesTo(p)
      BY <1>1, <1>2, <1>p, <1>3, <1>4, <2>1 DEF GetblkHit, PlacesTo, PlaceRight, NoBuffer
    <2> QED
      BY <2>2, PlacesKept
  <1>10. FreeRight'
    <2>1. \A c \in Buf : count'[c] = Cardinality(Users(c)')
      BY <1>0, <1>1, <1>2, <1>7, Joined DEF FreeRight
    <2>2. ASSUME NEW c \in Buf PROVE In(c, free') <=> block'[c] # Unused /\ count'[c] = 0
      <3>1. In(c, free) <=> block[c] # Unused /\ count[c] = 0
        BY <1>0 DEF FreeRight
      <3>2. block'[c] = block[c] /\ count[c] \in Nat
        BY <1>0 DEF GetblkHit, TypeOK
      <3>3. CASE c = b
        BY <1>6, <1>7, <3>2, <3>3
      <3>4. CASE c # b
        BY <1>6, <1>7, <3>1, <3>2, <3>4
      <3> QED
        BY <3>3, <3>4
    <2> QED
      BY <1>6, <2>1, <2>2 DEF FreeRight, Once, In
  <1>11. FreeIsClean' /\ OneBufferPerBlock'
    <2>1. \A c \in Buf : count'[c] = 0 => count[c] = 0
      BY <1>0, <1>7 DEF TypeOK
    <2> QED
      BY <2>1 DEF CacheInv, FreeIsClean, OneBufferPerBlock, GetblkHit
  <1>12. ReleaseClean'
    <2>1. \A t \in Task : pc'[t] # "release"
      BY <1>0, <1>p, <1>3 DEF PlacesRight, PlaceRight, Away
    <2> QED
      BY <2>1 DEF ReleaseClean
  <1>13. SleepersRight' /\ CtrlersRight' /\ SleepersWoken'
    BY <1>1, <1>3, <1>4, <1>6, SleepersKept, CtrlersKept, WokenKept DEF GetblkHit
  <1>14. LockersRight'
    <2>1. \A t \in Task : t # current => buf'[t] = buf[t]
      BY <1>0, <1>2 DEF TypeOK
    <2> QED
      BY <1>3, <1>4, <2>1, LockersKept DEF GetblkHit
  <1> QED
    BY <1>4, <1>8, <1>9, <1>10, <1>11, <1>12, <1>13, <1>14 DEF CacheInv, ListsRight, Parks

\* A sleeper that was woken goes on.
LEMMA Awake ==
    ASSUME CacheInv, pc[current] = "waitbuf", NEW p, Moves(p), p # "waitbuf", Parks({}, {}),
           starved' = starved, Len(free') < Len(free), Len(free') \in Nat
    PROVE  SleepersWoken'
  <1>1. /\ current \in Task /\ pc'[current] = p /\ ~Blocked(current)
        /\ \A t \in Task : t # current => pc'[t] = pc[t]
    BY MovesTo, Running DEF CacheInv
  <1>2. ASSUME NEW t \in Task
        PROVE  (pc'[t] = "waitbuf" /\ ~Blocked(t)') <=> (pc[t] = "waitbuf" /\ ~Blocked(t) /\ t # current)
    BY <1>1 DEF Parks
  <1>3. Woken' = Woken \ {current} /\ current \in Woken
    BY <1>1, <1>2 DEF Woken
  <1>4. IsFiniteSet(Woken)
    BY Basics DEF Woken
  <1>5. Cardinality(Woken') = Cardinality(Woken) - 1 /\ Cardinality(Woken) \in Nat
    BY <1>3, <1>4, FS_CardinalityType, FS_RemoveElement
  <1>6. Len(free) \in Nat
    BY LenProperties DEF CacheInv, TypeOK
  <1> QED
    BY <1>5, <1>6 DEF CacheInv, SleepersWoken

\* The buffer b, which nobody uses, is given to the block of the running task.
Given(b) ==
    /\ count[b] = 0
    /\ slept \/ Cached(want[current]) = {}
    /\ free' \in Seq(Buf) /\ Once(free') /\ Len(free') \in Nat /\ Len(free') <= Len(free)
    /\ pc[current] = "waitbuf" => Len(free') < Len(free)
    /\ \A c : In(c, free') <=> In(c, free) /\ c # b
    /\ Assign(b)
    /\ UNCHANGED <<deviceVars, lockVars, disk, want, doing>>

LEMMA GivenKept ==
    ASSUME CacheInv, pc[current] \in {"getblk", "waitbuf"}, NEW b \in Buf, Given(b)
    PROVE  CacheInv'
  <1> USE DEF At, Goto, lockVars, deviceVars
  <1>0. TypeOK /\ DispatchInv /\ PlacesRight /\ FreeRight
    BY DEF CacheInv
  <1>1. /\ PlaceRight(current) /\ current \in Task /\ current # Idle
        /\ want[current] \in Blocks
        /\ buf[current] = 0 /\ Unused \notin Blocks /\ 0 \notin Buf
    BY Running, Basics, <1>0 DEF PlacesRight, PlaceRight, NoBuffer
  <1>2. /\ Moves("lock") /\ pc' \in [Task -> Places] /\ pc'[current] = "lock"
        /\ \A t \in Task : t # current => pc'[t] = pc[t]
    <2>1. Moves("lock")
      BY DEF Given, Assign, Moves, Places
    <2> QED
      BY <1>0, <2>1, MovesTo
  <1>3. Parks({}, {}) /\ {} \in SUBSET {current} /\ current' = current /\ state' = state
    BY <1>0, StayParks DEF Given, Assign, dispatchVars
  <1>4. /\ block' \in [Buf -> Blocks \cup {Unused}] /\ count' \in [Buf -> Nat]
        /\ valid' \in [Buf -> BOOLEAN] /\ buf' \in [Task -> Buf \cup {0}]
        /\ dirty' = dirty /\ data' = data /\ starved' = starved /\ slept' = slept
        /\ \A c \in Buf : /\ block'[c] = IF c = b THEN want[current] ELSE block[c]
                          /\ count'[c] = IF c = b THEN 1 ELSE count[c]
    BY <1>0, <1>1 DEF Given, Assign, TypeOK
  <1>5. buf' = [buf EXCEPT ![current] = b]
        /\ buf'[current] = b /\ \A t \in Task : t # current => buf'[t] = buf[t]
    BY <1>0, <1>1 DEF Given, Assign, TypeOK
  <1>6. TypeOK'
    <2>1. DispatchTypeOK'
      BY <1>3 DEF Parks, DispatchInv
    <2> QED
      BY <1>0, <1>2, <1>4, <2>1 DEF TypeOK, DeviceTypeOK, Given, Places
  <1>7. PlacesRight'
    <2>1. PlacesTo("lock")
      BY <1>1, <1>2, <1>3, <1>4, <1>5 DEF Given, PlacesTo, PlaceRight, NoBuffer
    <2> QED
      BY <2>1, PlacesKept
  <1>8. FreeRight'
    <2>1. \A c \in Buf : count'[c] = Cardinality(Users(c)')
      <3>1. \A c \in Buf : count[c] = Cardinality(Users(c))
        BY <1>0 DEF FreeRight
      <3>2. \A c \in Buf : Cardinality(Users(c)') = IF c = b THEN Cardinality(Users(c)) + 1
                                                    ELSE Cardinality(Users(c))
        BY <1>1, <1>5, Joined
      <3>3. Cardinality(Users(b)) = 0
        BY <3>1 DEF Given
      <3> QED
        BY <1>4, <3>1, <3>2, <3>3
    <2>2. ASSUME NEW c \in Buf PROVE In(c, free') <=> block'[c] # Unused /\ count'[c] = 0
      <3>1. In(c, free) <=> block[c] # Unused /\ count[c] = 0
        BY <1>0 DEF FreeRight
      <3>2. In(c, free') <=> In(c, free) /\ c # b
        BY DEF Given
      <3>3. CASE c = b
        BY <1>4, <3>2, <3>3
      <3>4. CASE c # b
        BY <1>4, <3>1, <3>2, <3>4
      <3> QED
        BY <3>3, <3>4
    <2> QED
      BY <2>1, <2>2 DEF FreeRight, Once, In, Given
  <1>9. FreeIsClean'
    <2>1. \A c \in Buf : count'[c] = 0 => count[c] = 0
      BY <1>4
    <2> QED
      BY <1>4, <2>1 DEF CacheInv, FreeIsClean
  <1>10. OneBufferPerBlock'
    <2> SUFFICES ASSUME ~slept, NEW c \in Buf, NEW d \in Buf,
                        block'[c] = block'[d], block'[c] # Unused
                 PROVE  c = d
      BY <1>4 DEF OneBufferPerBlock
    <2>1. \A e \in Buf : block[e] # want[current]
      BY DEF Given, Cached
    <2>2. CASE c = b \/ d = b
      BY <1>4, <2>1, <2>2
    <2>3. CASE c # b /\ d # b
      BY <1>4, <2>3 DEF CacheInv, OneBufferPerBlock
    <2> QED
      BY <2>2, <2>3
  <1>11. ReleaseClean'
    <2>1. \A t \in Task : pc'[t] # "release"
      BY <1>0, <1>2 DEF PlacesRight, PlaceRight, Away
    <2> QED
      BY <2>1 DEF ReleaseClean
  <1>12. SleepersRight' /\ CtrlersRight' /\ LockersRight'
    BY <1>2, <1>3, <1>4, <1>5, SleepersKept, CtrlersKept, LockersKept DEF Given
  <1>13. SleepersWoken'
    <2>1. CASE pc[current] = "waitbuf"
      BY <1>2, <1>3, <1>4, <2>1, Awake DEF Given
    <2>2. CASE pc[current] # "waitbuf"
      BY <1>2, <1>3, <1>4, <2>2, WokenKept DEF Given
    <2> QED
      BY <2>1, <2>2
  <1> QED
    BY <1>3, <1>6, <1>7, <1>8, <1>9, <1>10, <1>11, <1>12, <1>13 DEF CacheInv, ListsRight, Parks

\* get_free_buffer finds no buffer.
Sleeps ==
    /\ \A b \in Buf : block[b] # Unused
    /\ free = << >> /\ starved' = Append(starved, current) /\ slept' = TRUE
    /\ Block("BLOCKED") /\ pc' = [pc EXCEPT ![current] = "waitbuf"]
    /\ UNCHANGED <<bufferVars, free, buf, deviceVars, lockVars, disk, want, doing>>

LEMMA Search ==
    ASSUME CacheInv, GetblkMiss \/ GetblkResume
    PROVE  Sleeps \/ \E b \in Buf : Given(b)
  <1> USE DEF At, Goto, lockVars, deviceVars
  <1>0. TypeOK /\ PlacesRight /\ FreeRight
    BY DEF CacheInv
  <1>1. /\ PlaceRight(current) /\ current \in Task
        /\ pc[current] \in {"getblk", "waitbuf"} /\ want[current] \in Blocks
        /\ buf[current] = 0 /\ Unused \notin Blocks /\ 0 \notin Buf
    BY Running, Basics, <1>0 DEF PlacesRight, PlaceRight, NoBuffer, GetblkMiss, GetblkResume
  <1>2. /\ GetFreeBuffer /\ UNCHANGED <<deviceVars, lockVars, disk, want, doing>>
        /\ slept \/ Cached(want[current]) = {}
    BY <1>1 DEF GetblkMiss, GetblkResume, PlaceRight
  <1>3. free \in Seq(Buf) /\ Once(free) /\ Len(free) \in Nat
    BY <1>0, LenProperties DEF TypeOK, FreeRight
  <1>4. pc[current] = "waitbuf" => \A b \in Buf : block[b] # Unused
    BY <1>1 DEF PlaceRight
  <1>5. CASE \E b \in Buf : block[b] = Unused /\ Assign(b) /\ UNCHANGED free
    <2>1. PICK b \in Buf : block[b] = Unused /\ Assign(b) /\ free' = free
      BY <1>5
    <2>2. count[b] = 0
      <3>1. \A t \in Task : buf[t] # b
        BY <1>1, <2>1, <1>0 DEF PlacesRight, PlaceRight
      <3>2. Users(b) = {} /\ count[b] = Cardinality(Users(b))
        BY <1>0, <3>1 DEF Users, FreeRight
      <3> QED
        BY <3>2, FS_EmptySet
    <2>3. ~In(b, free)
      BY <1>0, <2>1 DEF FreeRight
    <2>4. \A c : In(c, free') <=> In(c, free) /\ c # b
      BY <2>1, <2>3
    <2>5. Given(b)
      BY <1>2, <1>3, <1>4, <2>1, <2>2, <2>4 DEF Given
    <2> QED
      BY <2>5
  <1>6. CASE free # << >> /\ Assign(Head(free)) /\ free' = Tail(free)
    <2>1. PICK b : b = Head(free)
      OBVIOUS
    <2>2. /\ b \in Buf /\ In(b, free) /\ free' \in Seq(Buf) /\ Once(free')
          /\ Len(free') = Len(free) - 1
          /\ \A c : In(c, free') <=> In(c, free) /\ c # b
      BY <1>3, <1>6, <2>1, TailOnce
    <2>3. count[b] = 0
      BY <1>0, <2>2 DEF FreeRight
    <2>4. Len(free') \in Nat
      BY <2>2, LenProperties
    <2>5. Given(b)
      BY <1>2, <1>3, <1>6, <2>1, <2>2, <2>3, <2>4 DEF Given
    <2> QED
      BY <2>2, <2>5
  <1>7. CASE /\ \A b \in Buf : block[b] # Unused
             /\ free = << >> /\ starved' = Append(starved, current) /\ slept' = TRUE
             /\ Block("BLOCKED") /\ pc' = [pc EXCEPT ![current] = "waitbuf"]
             /\ UNCHANGED <<bufferVars, free, buf>>
    BY <1>2, <1>7 DEF Sleeps
  <1> QED
    BY <1>2, <1>5, <1>6, <1>7 DEF GetFreeBuffer

LEMMA SleepsKept ==
    ASSUME CacheInv, pc[current] \in {"getblk", "waitbuf"}, Sleeps
    PROVE  CacheInv'
  <1> USE DEF bufferVars, lockVars, deviceVars
  <1>0. TypeOK /\ DispatchInv /\ PlacesRight /\ FreeRight
    BY DEF CacheInv
  <1>1. /\ PlaceRight(current) /\ current \in Task /\ current # Idle /\ ~Blocked(current)
        /\ want[current] \in Blocks /\ buf[current] = 0 /\ Unused \notin Blocks /\ 0 \notin Buf
    BY Running, Basics, <1>0 DEF PlacesRight, PlaceRight, NoBuffer, At
  <1>2. Parks({current}, {}) /\ {current} \in SUBSET {current} /\ Moves("waitbuf")
    BY <1>0, <1>1, BlockParks DEF Moves, Places, Sleeps
  <1>3. pc' \in [Task -> Places] /\ pc'[current] = "waitbuf"
        /\ \A t \in Task : t # current => pc'[t] = pc[t]
    BY <1>0, <1>2, MovesTo
  <1>4. starved \in Seq(Task) /\ ListRight(starved, "waitbuf")
    BY <1>0 DEF CacheInv, TypeOK, ListsRight, SleepersRight
  <1>5. /\ starved' \in Seq(Task) /\ Once(starved')
        /\ \A t \in Task : In(t, starved') => pc'[t] = "waitbuf" /\ Blocked(t)'
    BY <1>2, <1>4, ListJoined DEF Sleeps
  <1>6. TypeOK'
    <2>1. DispatchTypeOK'
      BY <1>2 DEF Parks, DispatchInv
    <2> QED
      BY <1>0, <1>3, <1>5, <2>1 DEF TypeOK, DeviceTypeOK, Places, Sleeps
  <1>7. PlacesRight'
    <2>1. PlacesTo("waitbuf")
      BY <1>1, <1>2 DEF PlacesTo, PlaceRight, NoBuffer, Away, Sleeps
    <2> QED
      BY <2>1, PlacesKept
  <1>8. FreeRight' /\ FreeIsClean' /\ OneBufferPerBlock'
    BY <1>0 DEF CacheInv, FreeRight, Users, Once, In, FreeIsClean, OneBufferPerBlock, Sleeps
  <1>9. ReleaseClean'
    <2>1. \A t \in Task : pc'[t] # "release"
      BY <1>0, <1>3 DEF PlacesRight, PlaceRight, Away
    <2> QED
      BY <2>1 DEF ReleaseClean
  <1>10. SleepersRight'
    BY <1>5 DEF SleepersRight, ListRight, Once, In
  <1>11. SleepersWoken'
    <2>1. IsFiniteSet(Woken')
      BY Basics DEF Woken
    <2>2. Cardinality(Woken') \in Nat
      BY <2>1, FS_CardinalityType
    <2>3. Len(free') = 0
      BY DEF Sleeps
    <2> QED
      BY <2>2, <2>3 DEF SleepersWoken
  <1>12. CtrlersRight' /\ LockersRight'
    BY <1>2, CtrlersKept, LockersKept DEF Sleeps
  <1> QED
    BY <1>2, <1>6, <1>7, <1>8, <1>9, <1>10, <1>11, <1>12 DEF CacheInv, ListsRight, Parks

LEMMA SearchSteps ==
    ASSUME CacheInv, GetblkMiss \/ GetblkResume
    PROVE  CacheInv'
  <1>1. pc[current] \in {"getblk", "waitbuf"}
    BY DEF GetblkMiss, GetblkResume, At
  <1> QED
    BY <1>1, Search, SleepsKept, GivenKept

\* brelse lets a buffer go: the last user puts it on the free list and wakes
\* one sleeper for it.
LEMMA FreedKept ==
    ASSUME CacheInv, Freed, Moves("user"), pc[current] # "waitbuf", Mine \in Buf,
           ~In(Mine, free)
    PROVE  /\ free' \in Seq(Buf) /\ Once(free') /\ starved' \in Seq(Task)
           /\ \A c : In(c, free') <=> In(c, free) \/ c = Mine
           /\ SleepersRight' /\ SleepersWoken' /\ current' = current
           /\ \E W \in SUBSET Task : Parks({}, W) /\ \A t \in W : pc[t] = "waitbuf"
  <1>0. TypeOK /\ DispatchInv
    BY DEF CacheInv
  <1>1. /\ current \in Task /\ pc'[current] = "user" /\ {} \in SUBSET {current}
        /\ \A t \in Task : t # current => pc'[t] = pc[t]
    BY <1>0, MovesTo
  <1>2. free \in Seq(Buf) /\ Once(free) /\ Len(free) \in Nat
    BY LenProperties DEF CacheInv, TypeOK, FreeRight
  <1>3. /\ free' \in Seq(Buf) /\ Len(free') = Len(free) + 1 /\ Once(free')
        /\ \A c : In(c, free') <=> In(c, free) \/ c = Mine
    BY <1>2, AppendOnce DEF Freed
  <1>4. starved \in Seq(Task) /\ ListRight(starved, "waitbuf")
    BY <1>0 DEF CacheInv, ListsRight, SleepersRight, TypeOK
  <1>5. CASE starved = << >>
    <2>1. UNCHANGED dispatchVars /\ starved' = starved
      BY <1>5 DEF Freed
    <2>2. Parks({}, {}) /\ current' = current
      BY <1>0, <2>1, StayParks DEF dispatchVars
    <2>3. SleepersRight'
      BY <1>1, <2>1, <2>2, SleepersKept
    <2>4. SleepersWoken'
      BY <1>5, <2>1 DEF SleepersWoken
    <2>5. {} \in SUBSET Task /\ \A t \in {} : pc[t] = "waitbuf"
      OBVIOUS
    <2> QED
      BY <1>3, <1>4, <2>1, <2>2, <2>3, <2>4, <2>5
  <1>6. CASE starved # << >>
    <2>1. PICK h : h = Head(starved)
      OBVIOUS
    <2>2. starved' = Tail(starved) /\ state' = Unblock(state, {h}) /\ current' = current
      BY <1>6, <2>1 DEF Freed
    <2>3. h \in Task /\ pc[h] = "waitbuf" /\ Blocked(h) /\ h # current
      BY <1>4, <1>6, <2>1, ListHead
    <2>4. Parks({}, {h}) /\ \A t \in Task : Blocked(t)' <=> Blocked(t) /\ t # h
      <3>1. Parks({}, {h})
        BY <1>0, <2>2, <2>3, WakeParks
      <3> QED
        BY <3>1 DEF Parks
    <2>5. /\ starved' \in Seq(Task) /\ Once(starved')
          /\ \A t \in Task : In(t, starved') => pc'[t] = "waitbuf" /\ Blocked(t)'
      BY <1>4, <1>6, <2>1, <2>2, <2>4, ListLeft
    <2>6. SleepersRight'
      BY <2>5 DEF SleepersRight, ListRight, Once, In
    <2>7. SleepersWoken'
      <3>1. ASSUME NEW t \in Task
            PROVE  (pc'[t] = "waitbuf" /\ ~Blocked(t)') <=> ((pc[t] = "waitbuf" /\ ~Blocked(t)) \/ t = h)
        <4>1. CASE t = current
          BY <1>1, <2>3, <4>1
        <4>2. CASE t # current
          BY <1>1, <2>3, <2>4, <4>2
        <4> QED
          BY <4>1, <4>2
      <3>2. Woken' = Woken \cup {h} /\ h \notin Woken
        BY <2>3, <3>1 DEF Woken
      <3>3. IsFiniteSet(Woken)
        BY Basics DEF Woken
      <3>4. Cardinality(Woken') = Cardinality(Woken) + 1 /\ Cardinality(Woken) \in Nat
        BY <3>2, <3>3, FS_CardinalityType, FS_AddElement
      <3>5. Len(free) <= Cardinality(Woken)
        BY <1>6 DEF CacheInv, SleepersWoken
      <3> QED
        BY <1>2, <1>3, <3>4, <3>5 DEF SleepersWoken
    <2>8. {h} \in SUBSET Task /\ \A t \in {h} : pc[t] = "waitbuf"
      BY <2>3
    <2> QED
      BY <1>3, <2>2, <2>4, <2>5, <2>6, <2>7, <2>8
  <1> QED
    BY <1>5, <1>6

LEMMA ReleaseStep ==
    ASSUME CacheInv, Release
    PROVE  CacheInv'
  <1> USE DEF At, Goto, lockVars, deviceVars
  <1>0. TypeOK /\ DispatchInv /\ PlacesRight /\ FreeRight /\ ReleaseClean
    BY DEF CacheInv
  <1>1. /\ PlaceRight(current) /\ Mine = buf[current] /\ current \in Task /\ current # Idle
        /\ pc[current] = "release" /\ Mine \in Buf /\ block[Mine] \in Blocks
        /\ 0 \notin Buf /\ Unused \notin Blocks /\ ~dirty[Mine] /\ {} \in SUBSET {current}
    BY Running, Basics, <1>0 DEF PlacesRight, Mine, NoBuffer, Release, ReleaseClean
  <1>2. /\ Moves("user") /\ pc' \in [Task -> Places] /\ pc'[current] = "user"
        /\ \A t \in Task : t # current => pc'[t] = pc[t]
    <2>1. Moves("user")
      BY DEF Release, Moves, Places
    <2> QED
      BY <1>0, <2>1, MovesTo
  <1>3. PICK m \in Buf : m = Mine
    BY <1>1
  <1>4. count[m] \in Nat /\ count[m] # 0 /\ ~In(m, free)
    <2>1. count[m] \in Nat /\ count[m] # 0
      BY <1>0, <1>1, <1>3, Used DEF TypeOK
    <2> QED
      BY <1>0, <2>1 DEF FreeRight
  <1>5. /\ count' \in [Buf -> Nat]
        /\ \A c \in Buf : count'[c] = IF c = m THEN count[c] - 1 ELSE count[c]
    <2>1. count' = [count EXCEPT ![m] = count[m] - 1] /\ count[m] - 1 \in Nat
      BY <1>3, <1>4 DEF Release
    <2> QED
      BY <1>0, <2>1 DEF TypeOK
  <1>6. /\ buf' = [buf EXCEPT ![current] = 0] /\ buf'[current] = 0
        /\ \A t \in Task : t # current => buf'[t] = buf[t] /\ want'[t] = want[t]
        /\ want'[current] = Unused
    BY <1>0, <1>1 DEF Release, TypeOK
  <1>7. /\ free' \in Seq(Buf) /\ Once(free') /\ starved' \in Seq(Task)
        /\ \A c : In(c, free') <=> In(c, free) \/ (c = m /\ count[m] = 1)
        /\ SleepersRight' /\ SleepersWoken' /\ current' = current
        /\ \E W \in SUBSET Task : Parks({}, W) /\ \A t \in W : pc[t] = "waitbuf"
    <2>1. CASE count[m] = 1
      <3>1. Freed
        BY <1>3, <2>1 DEF Release
      <3> QED
        BY <1>1, <1>2, <1>3, <1>4, <2>1, <3>1, FreedKept
    <2>2. CASE count[m] # 1
      <3>1. UNCHANGED <<dispatchVars, free, starved>>
        BY <1>3, <2>2 DEF Release
      <3>2. Parks({}, {}) /\ current' = current
        BY <1>0, <3>1, StayParks DEF dispatchVars
      <3>3. SleepersRight' /\ SleepersWoken'
        BY <1>1, <1>2, <3>1, <3>2, SleepersKept, WokenKept, SameFree
      <3>4. /\ free' = free /\ starved' = starved /\ free \in Seq(Buf) /\ Once(free)
            /\ starved \in Seq(Task)
        BY <1>0, <3>1 DEF TypeOK, FreeRight
      <3>5. \A c : In(c, free') <=> In(c, free) \/ (c = m /\ count[m] = 1)
        BY <2>2, <3>4
      <3>6. Once(free') /\ \A t \in {} : pc[t] = "waitbuf"
        BY <3>4
      <3>7. \E W \in SUBSET Task : Parks({}, W) /\ \A t \in W : pc[t] = "waitbuf"
        BY <3>2, <3>6
      <3> QED
        BY <3>2, <3>3, <3>4, <3>5, <3>6, <3>7
    <2> QED
      BY <2>1, <2>2
  <1>8. PICK W \in SUBSET Task : Parks({}, W) /\ \A t \in W : pc[t] = "waitbuf"
    BY <1>7
  <1>9. TypeOK'
    <2>1. DispatchTypeOK'
      BY <1>8 DEF Parks, DispatchInv
    <2>2. want' \in [Task -> Blocks \cup {Unused}] /\ buf' \in [Task -> Buf \cup {0}]
          /\ doing' \in [Task -> {"bread", "bwrite", "brelse"}]
      BY <1>0 DEF Release, TypeOK
    <2> QED
      BY <1>0, <1>2, <1>5, <1>7, <2>1, <2>2 DEF TypeOK, DeviceTypeOK, Release, Places
  <1>10. PlacesRight'
    <2>1. PlacesTo("user")
      BY <1>1, <1>2, <1>6, <1>7 DEF PlacesTo, NoBuffer, Release
    <2> QED
      BY <2>1, PlacesKept
  <1>11. FreeRight'
    <2>1. \A c \in Buf : count'[c] = Cardinality(Users(c)')
      <3>1. \A c \in Buf : count[c] = Cardinality(Users(c))
        BY <1>0 DEF FreeRight
      <3>2. \A c \in Buf : Cardinality(Users(c)') = IF c = m THEN Cardinality(Users(c)) - 1
                                                    ELSE Cardinality(Users(c))
        BY <1>1, <1>3, <1>6, Left
      <3> QED
        BY <1>5, <3>1, <3>2
    <2>2. ASSUME NEW c \in Buf PROVE In(c, free') <=> block'[c] # Unused /\ count'[c] = 0
      <3>1. In(c, free) <=> block[c] # Unused /\ count[c] = 0
        BY <1>0 DEF FreeRight
      <3>2. block' = block
        BY DEF Release
      <3>3. CASE c = m
        <4>1. count'[m] = 0 <=> count[m] = 1
          BY <1>4, <1>5
        <4>2. block[m] # Unused
          BY <1>1, <1>3
        <4> QED
          BY <1>4, <1>7, <3>2, <3>3, <4>1, <4>2
      <3>4. CASE c # m
        BY <1>5, <1>7, <3>1, <3>2, <3>4
      <3> QED
        BY <3>3, <3>4
    <2> QED
      BY <1>7, <2>1, <2>2 DEF FreeRight, Once, In
  <1>12. FreeIsClean' /\ OneBufferPerBlock'
    <2>1. \A c \in Buf : count'[c] = 0 => count[c] = 0 \/ c = m
      BY <1>5
    <2> QED
      BY <1>1, <1>3, <2>1 DEF CacheInv, FreeIsClean, OneBufferPerBlock, Release
  <1>13. ReleaseClean'
    <2>1. \A t \in Task : pc'[t] # "release"
      BY <1>0, <1>2 DEF PlacesRight, PlaceRight, Away
    <2> QED
      BY <2>1 DEF ReleaseClean
  <1>14. CtrlersRight' /\ LockersRight'
    BY <1>1, <1>2, <1>6, <1>8, CtrlersKept, LockersKept DEF Release
  <1> QED
    BY <1>7, <1>8, <1>9, <1>10, <1>11, <1>12, <1>13, <1>14 DEF CacheInv, ListsRight, Parks
-----------------------------------------------------------------------------
LEMMA Initially ==
    ASSUME Init
    PROVE  CacheInv
  <1> USE DEF Init
  <1>1. DispatchInv
    BY DispatchAssumption
       DEF DispatchInit, DispatchInv, DispatchTypeOK, OneRunning, IdleRunnable,
           CurrentRunnable, Parked
  <1>2. TypeOK
    <2>1. DispatchTypeOK
      BY <1>1 DEF DispatchInv
    <2>2. 0 \in 0 .. Version - 1
      BY BufferAssumption
    <2>3. << >> \in Seq(Requests) /\ << >> \in Seq(Task) /\ << >> \in Seq(Buf)
      OBVIOUS
    <2>4. DeviceTypeOK
      BY <2>3 DEF DeviceInit, DeviceTypeOK, Requests
    <2> QED
      BY <2>1, <2>2, <2>3, <2>4 DEF TypeOK, Unused
  <1>3. DOMAIN << >> = {}
    OBVIOUS
  <1>4. PlacesRight /\ ReleaseClean /\ FreeIsClean /\ OneBufferPerBlock
    BY Basics DEF PlacesRight, PlaceRight, NoBuffer, Away, ReleaseClean, FreeIsClean,
                  OneBufferPerBlock
  <1>5. FreeRight
    <2>1. \A b \in Buf : Users(b) = {}
      BY Basics DEF Users
    <2>2. \A b \in Buf : count[b] = Cardinality(Users(b))
      BY <2>1, FS_EmptySet
    <2> QED
      BY <1>3, <2>2 DEF FreeRight, Once, In
  <1>6. ListsRight /\ SleepersWoken
    BY <1>3 DEF ListsRight, SleepersRight, CtrlersRight, LockersRight, ListRight,
                DeviceInit, SleepersWoken, Once, In
  <1> QED
    BY <1>1, <1>2, <1>4, <1>5, <1>6 DEF CacheInv

LEMMA Unchanged ==
    ASSUME CacheInv, UNCHANGED vars
    PROVE  CacheInv'
  <1>1. TypeOK' /\ DispatchInv'
    BY DEF vars, dispatchVars, deviceVars, bufferVars, lockVars, taskVars,
        CacheInv, TypeOK, DispatchInv, DispatchTypeOK, OneRunning, IdleRunnable,
        CurrentRunnable, DeviceTypeOK
  <1>2. PlacesRight' /\ FreeRight' /\ FreeIsClean' /\ ReleaseClean' /\ OneBufferPerBlock'
    BY DEF vars, dispatchVars, bufferVars, taskVars, CacheInv, PlacesRight, PlaceRight,
        FreeRight, Users, Once, In, FreeIsClean, ReleaseClean, OneBufferPerBlock
  <1>3. ListsRight' /\ SleepersWoken'
    BY DEF vars, dispatchVars, deviceVars, lockVars, taskVars, CacheInv, ListsRight,
        SleepersRight, CtrlersRight, LockersRight, ListRight, Blocked, Once, In,
        SleepersWoken, Woken
  <1> QED
    BY <1>1, <1>2, <1>3 DEF CacheInv

LEMMA Step ==
    ASSUME CacheInv, [StaleNext]_vars
    PROVE  CacheInv'
  <1>1. CASE StaleNext
    <2>1. CASE BreadRead
      BY <2>1, RequestStep DEF BreadRead, At
    <2>2. CASE Write
      BY <2>2, RequestStep DEF Write, At
    <2>3. CASE Crashed
      BY <2>3, Unchanged DEF Crashed
    <2> QED
      BY <1>1, <2>1, <2>2, <2>3, QuietSteps, LockSteps, SkipStep, CtrlStep, TransferredStep,
         WakeSteps, CommandStep, DoneSteps, HitStep, SearchSteps, ReleaseStep DEF StaleNext, Next
  <1> QED
    BY <1>1, Unchanged

LEMMA CacheInvariant == StaleSpec => []CacheInv
  BY Initially, Step, PTL DEF StaleSpec

\* What is shown of StaleSpec holds of Spec, too.
LEMMA FewerSteps == Spec => StaleSpec
  <1>1. [Next]_vars => [StaleNext]_vars
    BY DEF StaleNext
  <1> QED
    BY <1>1, PTL DEF Spec, StaleSpec

\* The types of the variables (buffer.h, device.h).
THEOREM BufferType == StaleSpec => []TypeOK
  <1>1. CacheInv => TypeOK
    BY DEF CacheInv
  <1> QED
    BY <1>1, CacheInvariant, PTL

\* A buffer's count is the number of its users and the free list holds the
\* buffers that are handed out and have no user, each once (getblk and brelse,
\* buffer.c:134-153 and 199-219).
THEOREM Counts == StaleSpec => []CountsRight
  <1>1. CacheInv => CountsRight
    BY DEF CacheInv, FreeRight, CountsRight, Users, Once, In
  <1> QED
    BY <1>1, CacheInvariant, PTL

\* A buffer nobody uses is clean, so that reusing it loses nothing (getblk,
\* buffer.c:145).
THEOREM NothingLost == StaleSpec => []FreeIsClean
  <1>1. CacheInv => FreeIsClean
    BY DEF CacheInv
  <1> QED
    BY <1>1, CacheInvariant, PTL

\* No task is left asleep beside a free buffer that nobody was woken for,
\* whatever timers wake the sleepers (buffer.c:108-132 and 213-218).
THEOREM Sleepers == StaleSpec => []NoForgottenSleeper
  <1>1. CacheInv => NoForgottenSleeper
    BY DEF CacheInv, SleepersWoken, Woken, Blocked, NoForgottenSleeper
  <1> QED
    BY <1>1, CacheInvariant, PTL

\* A block has one buffer, as long as no getblk has slept between its search
\* of the hash table and its use of a buffer (getblk, buffer.c:134-153).
THEOREM OneBuffer == StaleSpec => []OneBufferPerBlock
  <1>1. CacheInv => OneBufferPerBlock
    BY DEF CacheInv
  <1> QED
    BY <1>1, CacheInvariant, PTL
-----------------------------------------------------------------------------
\* The queue: a request is put into it, and one is taken off it.
LEMMA Inserted ==
    ASSUME NEW q \in Seq(Requests), Owned(q), NEW e \in Requests, ~Asks(e.task, q),
           NEW m \in 1 .. Len(q) + 1
    PROVE  /\ InsertAt(q, m, e) \in Seq(Requests) /\ InsertAt(q, m, e) # << >>
           /\ Owned(InsertAt(q, m, e))
           /\ \A t : Asks(t, InsertAt(q, m, e)) <=> Asks(t, q) \/ t = e.task
           /\ \A k \in DOMAIN InsertAt(q, m, e) :
                InsertAt(q, m, e)[k] = e \/ \E i \in DOMAIN q : InsertAt(q, m, e)[k] = q[i]
  <1> DEFINE r == InsertAt(q, m, e)
  <1>0. Len(q) \in Nat /\ DOMAIN q = 1 .. Len(q) /\ \A i \in 1 .. Len(q) : q[i] \in Requests
    BY LenProperties, ElementOfSeq
  <1>1. /\ r \in Seq(Requests) /\ Len(r) = Len(q) + 1
        /\ \A i \in 1 .. Len(q) + 1 : r[i] = IF i < m THEN q[i] ELSE IF i = m THEN e ELSE q[i - 1]
    <2>1. PICK S : S = Requests
      OBVIOUS
    <2>2. q \in Seq(S) /\ e \in S
      BY <2>1
    <2>3. r \in Seq(S) /\ Len(r) = Len(q) + 1
      BY <2>2, InsertAtProperties
    <2>4. \A i \in 1 .. Len(q) + 1 :
              r[i] = IF i < m THEN q[i] ELSE IF i = m THEN e ELSE q[i - 1]
      BY <2>2, InsertAtProperties
    <2> HIDE DEF r
    <2> QED
      BY <2>1, <2>3, <2>4
  <1> HIDE DEF r
  <1>2. DOMAIN r = 1 .. Len(q) + 1 /\ r # << >>
    BY <1>0, <1>1, LenProperties, EmptySeq
  <1>3. \A i \in 1 .. Len(q) : q[i].task # e.task
    BY <1>0 DEF Asks
  <1>4. Owned(r)
    <2> SUFFICES ASSUME NEW i \in 1 .. Len(q) + 1, NEW j \in 1 .. Len(q) + 1,
                        r[i].task = r[j].task
                 PROVE  i = j
      BY <1>2 DEF Owned
    <2>1. \A k \in 1 .. Len(q) + 1 : k # m =>
              \E x \in 1 .. Len(q) : r[k] = q[x] /\ x = IF k < m THEN k ELSE k - 1
      BY <1>0, <1>1
    <2>2. r[m] = e
      BY <1>0, <1>1
    <2>3. CASE i = m
      BY <1>3, <2>1, <2>2, <2>3
    <2>4. CASE j = m
      BY <1>3, <2>1, <2>2, <2>4
    <2>5. CASE i # m /\ j # m
      <3>1. PICK x \in 1 .. Len(q) : r[i] = q[x] /\ x = IF i < m THEN i ELSE i - 1
        BY <2>1, <2>5
      <3>2. PICK y \in 1 .. Len(q) : r[j] = q[y] /\ y = IF j < m THEN j ELSE j - 1
        BY <2>1, <2>5
      <3>3. x = y
        BY <1>0, <3>1, <3>2 DEF Owned
      <3> QED
        BY <1>0, <2>5, <3>1, <3>2, <3>3
    <2> QED
      BY <2>3, <2>4, <2>5
  <1>5. ASSUME NEW t PROVE Asks(t, r) <=> Asks(t, q) \/ t = e.task
    <2>1. ASSUME NEW i \in 1 .. Len(q), q[i].task = t PROVE Asks(t, r)
      <3>1. PICK k \in 1 .. Len(q) + 1 : r[k] = q[i]
        <4>1. CASE i < m
          BY <1>0, <1>1, <4>1
        <4>2. CASE ~(i < m)
          <5>1. i + 1 \in 1 .. Len(q) + 1 /\ ~(i + 1 < m) /\ i + 1 # m /\ (i + 1) - 1 = i
            BY <1>0, <4>2
          <5> QED
            BY <1>1, <5>1
        <4> QED
          BY <4>1, <4>2
      <3> QED
        BY <1>2, <2>1, <3>1 DEF Asks
    <2>2. r[m] = e
      BY <1>0, <1>1
    <2>3. ASSUME NEW k \in 1 .. Len(q) + 1, r[k].task = t PROVE Asks(t, q) \/ t = e.task
      <3>1. CASE k = m
        BY <2>2, <2>3, <3>1
      <3>2. CASE k # m
        <4>1. PICK x \in 1 .. Len(q) : r[k] = q[x]
          BY <1>0, <1>1, <3>2
        <4> QED
          BY <1>0, <2>3, <4>1 DEF Asks
      <3> QED
        BY <3>1, <3>2
    <2> QED
      BY <1>0, <1>2, <2>1, <2>2, <2>3 DEF Asks
  <1>6. ASSUME NEW k \in DOMAIN r PROVE r[k] = e \/ \E i \in DOMAIN q : r[k] = q[i]
    <2>1. CASE k = m
      BY <1>1, <1>2, <2>1
    <2>2. CASE k < m
      BY <1>0, <1>1, <1>2, <2>2
    <2>3. CASE k > m
      <3>1. k - 1 \in DOMAIN q /\ r[k] = q[k - 1]
        BY <1>0, <1>1, <1>2, <2>3
      <3> QED
        BY <3>1
    <2> QED
      BY <1>2, <2>1, <2>2, <2>3
  <1> QED
    BY <1>1, <1>2, <1>4, <1>5, <1>6 DEF r

LEMMA Removed ==
    ASSUME NEW q \in Seq(Requests), Owned(q), NEW m \in DOMAIN q
    PROVE  /\ RemoveAt(q, m) \in Seq(Requests) /\ Owned(RemoveAt(q, m))
           /\ RemoveAt(q, m) = << >> <=> Len(q) = 1
           /\ \A t : Asks(t, RemoveAt(q, m)) <=> Asks(t, q) /\ t # q[m].task
           /\ \A k \in DOMAIN RemoveAt(q, m) :
                \E i \in DOMAIN q : i # m /\ RemoveAt(q, m)[k] = q[i]
  <1> DEFINE r == RemoveAt(q, m)
  <1>0. Len(q) \in Nat /\ DOMAIN q = 1 .. Len(q) /\ m \in 1 .. Len(q)
    BY LenProperties
  <1>1. /\ r \in Seq(Requests) /\ Len(r) = Len(q) - 1
        /\ \A i \in 1 .. Len(q) - 1 : r[i] = IF i < m THEN q[i] ELSE q[i + 1]
    BY <1>0, RemoveAtProperties
  <1> HIDE DEF r
  <1>2. DOMAIN r = 1 .. Len(q) - 1 /\ (r = << >> <=> Len(q) = 1)
    BY <1>0, <1>1, LenProperties, EmptySeq
  <1>3. \A i \in 1 .. Len(q) - 1 :
            \E x \in 1 .. Len(q) : r[i] = q[x] /\ x # m /\ x = IF i < m THEN i ELSE i + 1
    BY <1>0, <1>1
  <1>4. Owned(r)
    <2> SUFFICES ASSUME NEW i \in 1 .. Len(q) - 1, NEW j \in 1 .. Len(q) - 1,
                        r[i].task = r[j].task
                 PROVE  i = j
      BY <1>2 DEF Owned
    <2>1. PICK x \in 1 .. Len(q) : r[i] = q[x] /\ x = IF i < m THEN i ELSE i + 1
      BY <1>3
    <2>2. PICK y \in 1 .. Len(q) : r[j] = q[y] /\ y = IF j < m THEN j ELSE j + 1
      BY <1>3
    <2>3. x = y
      BY <1>0, <2>1, <2>2 DEF Owned
    <2> QED
      BY <1>0, <2>1, <2>2, <2>3
  <1>5. ASSUME NEW t PROVE Asks(t, r) <=> Asks(t, q) /\ t # q[m].task
    <2>1. ASSUME NEW i \in 1 .. Len(q) - 1, r[i].task = t PROVE Asks(t, q) /\ t # q[m].task
      <3>1. PICK x \in 1 .. Len(q) : r[i] = q[x] /\ x # m
        BY <1>3
      <3> QED
        BY <1>0, <2>1, <3>1 DEF Asks, Owned
    <2>2. ASSUME NEW i \in 1 .. Len(q), q[i].task = t, t # q[m].task PROVE Asks(t, r)
      <3>1. PICK k \in 1 .. Len(q) - 1 : r[k] = q[i]
        <4>1. CASE i < m
          <5>1. i \in 1 .. Len(q) - 1
            BY <1>0, <4>1
          <5> QED
            BY <1>1, <4>1, <5>1
        <4>2. CASE i > m
          <5>1. i - 1 \in 1 .. Len(q) - 1 /\ ~(i - 1 < m) /\ (i - 1) + 1 = i
            BY <1>0, <4>2
          <5> QED
            BY <1>1, <5>1
        <4> QED
          BY <1>0, <2>2, <4>1, <4>2
      <3> QED
        BY <1>2, <2>2, <3>1 DEF Asks
    <2> QED
      BY <1>0, <1>2, <2>1, <2>2 DEF Asks
  <1>6. \A k \in DOMAIN r : \E i \in DOMAIN q : i # m /\ r[k] = q[i]
    BY <1>0, <1>2, <1>3
  <1> QED
    BY <1>1, <1>2, <1>4, <1>5, <1>6 DEF r

LEMMA NextInQueue ==
    ASSUME TypeOK, NEW i \in DOMAIN queue, Len(queue) # 1
    PROVE  \E j \in DOMAIN queue : j # i /\ j = IF Turned(i) = "UP" THEN i + 1 ELSE i - 1
  <1>1. Len(queue) \in Nat /\ DOMAIN queue = 1 .. Len(queue) /\ i \in 1 .. Len(queue)
        /\ direct \in {"UP", "DOWN"}
    BY LenProperties DEF TypeOK, DeviceTypeOK
  <1>2. CASE direct = "UP" /\ i = Len(queue)
    <2>1. Turned(i) = "DOWN"
      BY <1>2 DEF Turned
    <2>2. i - 1 \in 1 .. Len(queue) /\ i - 1 # i
      <3>1. i \in Nat /\ i >= 1 /\ i # 1 /\ i <= Len(queue) /\ Len(queue) \in Nat
        BY <1>1, <1>2
      <3> QED
        BY <3>1
    <2> QED
      BY <1>1, <2>1, <2>2
  <1>3. CASE direct = "UP" /\ i # Len(queue)
    <2>1. Turned(i) = "UP" /\ i + 1 \in 1 .. Len(queue) /\ i + 1 # i
      BY <1>1, <1>3 DEF Turned
    <2> QED
      BY <1>1, <2>1
  <1>4. CASE direct = "DOWN" /\ i = 1
    <2>1. Turned(i) = "UP" /\ i + 1 \in 1 .. Len(queue) /\ i + 1 # i
      BY <1>1, <1>4 DEF Turned
    <2> QED
      BY <1>1, <2>1
  <1>5. CASE direct = "DOWN" /\ i # 1
    <2>1. Turned(i) = "DOWN" /\ i - 1 \in 1 .. Len(queue) /\ i - 1 # i
      BY <1>1, <1>5 DEF Turned
    <2> QED
      BY <1>1, <2>1
  <1> QED
    BY <1>1, <1>2, <1>3, <1>4, <1>5

\* There is a next request unless the one that is done is alone.
LEMMA Neighbours ==
    ASSUME TypeOK, NEW i \in DOMAIN queue
    PROVE  /\ Len(queue) = 1 => Neighbour(i) = {}
           /\ Len(queue) # 1 => \E j \in DOMAIN queue : j # i /\ Neighbour(i) = {queue[j]}
  <1>0. Len(queue) \in Nat /\ DOMAIN queue = 1 .. Len(queue) /\ i \in 1 .. Len(queue)
    BY LenProperties DEF TypeOK, DeviceTypeOK
  <1>1. PICK next : next = IF Turned(i) = "UP" THEN i + 1 ELSE i - 1
    OBVIOUS
  <1>2. Neighbour(i) = {queue[j] : j \in {next} \cap DOMAIN queue}
    BY <1>1 DEF Neighbour
  <1>3. CASE Len(queue) = 1
    <2>1. next \notin DOMAIN queue
      BY <1>0, <1>1, <1>3
    <2> QED
      BY <1>2, <1>3, <2>1
  <1>4. CASE Len(queue) # 1
    <2>1. PICK j \in DOMAIN queue : j # i /\ j = next
      BY <1>1, <1>4, NextInQueue
    <2>2. {next} \cap DOMAIN queue = {j}
      BY <2>1
    <2> QED
      BY <1>2, <1>4, <2>1, <2>2
  <1> QED
    BY <1>3, <1>4

\* Who is let, and that it is one task.
LEMMA OneLet ==
    ASSUME QueueInv
    PROVE  /\ CacheInv /\ TypeOK /\ DispatchInv /\ current \in Task /\ ~Blocked(current)
           /\ Waits(current) => Let(current)
           /\ \A t \in Task : Let(t) /\ Let(current) => t = current
           /\ waiter # NoTask => waiter \in Task /\ Let(waiter) /\ waiter # current
           /\ ctrl # NoTask => ctrl \in Task /\ Let(ctrl) /\ pc[ctrl] = "io"
           /\ Let(current) => waiter = NoTask
           /\ Let(current) /\ pc[current] # "io" => ctrl = NoTask
           /\ queue \in Seq(Requests) /\ \A i \in DOMAIN queue : queue[i] \in Requests
  <1>1. CacheInv /\ TypeOK /\ DispatchInv /\ QueueRight
    BY DEF QueueInv, CacheInv
  <1>2. current \in Task /\ ~Blocked(current)
    BY <1>1, Running
  <1>3. Waits(current) => Let(current)
    BY <1>2 DEF Waits, Let
  <1>4. waiter # NoTask => waiter \in Task /\ Let(waiter) /\ waiter # current
    BY <1>1, <1>2 DEF QueueRight, TypeOK, DeviceTypeOK, Let
  <1>5. ctrl # NoTask => ctrl \in Task /\ Let(ctrl) /\ pc[ctrl] = "io"
    BY <1>1 DEF QueueRight, TypeOK, DeviceTypeOK, Let
  <1>6. \A t \in Task : Let(t) /\ Let(current) => t = current
    BY <1>1, <1>2 DEF QueueRight
  <1>7. queue \in Seq(Requests) /\ \A i \in DOMAIN queue : queue[i] \in Requests
    <2>1. queue \in Seq(Requests)
      BY <1>1 DEF TypeOK, DeviceTypeOK, Requests
    <2> QED
      BY <2>1, ElementOfSeq, LenProperties
  <1>8. /\ Let(current) => waiter = NoTask
        /\ Let(current) /\ pc[current] # "io" => ctrl = NoTask
    BY <1>4, <1>5, <1>6
  <1> QED
    BY <1>1, <1>2, <1>3, <1>4, <1>5, <1>6, <1>7, <1>8

\* An action of a task that is not at the disk.
Apart(p, A, W) ==
    /\ Moves(p) /\ Parks(A, W) /\ A \subseteq {current}
    /\ UNCHANGED <<queue, waiter, ctrl, ctrlers>>
    /\ {p, pc[current]} \cap {"request", "io", "served"} = {}
    /\ \A t \in W : ~Waits(t)

LEMMA QueueKept ==
    ASSUME QueueInv, NEW p, NEW A, NEW W, Apart(p, A, W)
    PROVE  QueueRight'
  <1>1. /\ current \in Task /\ pc'[current] = p
        /\ \A t \in Task : t # current => pc'[t] = pc[t]
    BY MovesTo, OneLet DEF Apart
  <1>2. \A t \in Task : Waits(t)' <=> Waits(t)
    BY <1>1 DEF Waits, Apart
  <1>3. \A t \in Task : Let(t)' <=> Let(t)
    BY <1>1 DEF Let, Parks, Apart, Waits
  <1>4. /\ waiter' # NoTask => pc'[waiter'] = "io" /\ Blocked(waiter)'
        /\ ctrl' # NoTask => pc'[ctrl'] = "io"
    <2>1. waiter # NoTask => pc'[waiter] = "io" /\ Blocked(waiter)'
      <3> SUFFICES ASSUME waiter # NoTask PROVE pc'[waiter] = "io" /\ Blocked(waiter)'
        OBVIOUS
      <3>1. waiter \in Task /\ pc[waiter] = "io" /\ Blocked(waiter) /\ waiter # current
        BY OneLet DEF QueueInv, QueueRight
      <3>2. waiter \notin W
        BY <3>1 DEF Apart, Waits
      <3> QED
        BY <1>1, <3>1, <3>2 DEF Parks, Blocked, Apart
    <2>2. ctrl # NoTask => pc'[ctrl] = "io"
      <3> SUFFICES ASSUME ctrl # NoTask PROVE pc'[ctrl] = "io"
        OBVIOUS
      <3>1. ctrl \in Task /\ pc[ctrl] = "io"
        BY OneLet
      <3> QED
        BY <1>1, <3>1 DEF Apart
    <2>3. waiter' = waiter /\ ctrl' = ctrl
      BY DEF Apart
    <2>4. Blocked(waiter)' <=> state'[waiter] = "BLOCKED"
      BY <2>3 DEF Blocked
    <2> QED
      BY <2>1, <2>2, <2>3, <2>4 DEF Blocked
  <1>5. queue' = queue /\ ctrlers' = ctrlers /\ QueueRight
    BY DEF Apart, QueueInv
  <1>6. \A i \in DOMAIN queue : queue[i].named \/ Let(queue[i].task)'
    BY <1>3, <1>5, OneLet DEF QueueRight, Requests
  <1> QED
    BY <1>2, <1>3, <1>4, <1>5, <1>6 DEF QueueRight, Owned, Asks, Let, Blocked, Waits

\* The steps of the tasks that are not at the disk.
LEMMA ApartStep ==
    ASSUME QueueInv, UNCHANGED deviceVars, NEW p \in Places, pc' = [pc EXCEPT ![current] = p],
           p \notin {"request", "io", "served"}, pc[current] \notin {"request", "io", "served"},
           NEW A, NEW W, Parks(A, W), A \subseteq {current}, \A t \in W : ~Waits(t)
    PROVE  QueueRight'
  <1>1. Apart(p, A, W)
    BY DEF Apart, Moves, deviceVars
  <1> QED
    BY <1>1, QueueKept

LEMMA ApartSteps ==
    ASSUME QueueInv,
           \/ Bread \/ GetblkHit \/ GetblkMiss \/ GetblkResume \/ BreadLock \/ BreadSkip
           \/ BreadReturn \/ Modify \/ BrelseClean \/ Release \/ Preempt
    PROVE  QueueRight'
  <1> USE DEF At, Goto, Places
  <1>0. CacheInv /\ TypeOK /\ DispatchInv /\ pc = [pc EXCEPT ![current] = pc[current]]
    BY OneLet DEF TypeOK
  <1>1. UNCHANGED dispatchVars => Parks({}, {})
    BY <1>0, StayParks
  <1>2. current # Idle /\ Block("BLOCKED") => Parks({current}, {})
    BY <1>0, BlockParks
  <1>3. \A t \in {} : ~Waits(t)
    OBVIOUS
  <1>4. CASE Bread
    BY <1>1, <1>3, <1>4, ApartStep DEF Bread
  <1>5. CASE GetblkHit
    <2>1. PICK b \in Buf : Goto(IF valid[b] THEN "hold" ELSE "lock")
      BY <1>5 DEF GetblkHit, Cached
    <2>2. PICK p \in {"hold", "lock"} : Goto(p)
      BY <2>1
    <2>3. UNCHANGED deviceVars /\ Parks({}, {}) /\ pc[current] = "getblk"
      BY <1>1, <1>5 DEF GetblkHit
    <2>4. CASE Goto("hold")
      BY <1>3, <2>3, <2>4, ApartStep
    <2>5. CASE Goto("lock")
      BY <1>3, <2>3, <2>5, ApartStep
    <2> QED
      BY <2>2, <2>4, <2>5
  <1>6. CASE GetblkMiss \/ GetblkResume
    <2>1. pc[current] \in {"getblk", "waitbuf"} /\ current # Idle
      BY <1>0, <1>6, Running DEF GetblkMiss, GetblkResume
    <2>2. CASE Sleeps
      BY <1>2, <1>3, <2>1, <2>2, ApartStep DEF Sleeps
    <2>3. CASE \E b \in Buf : Given(b)
      BY <1>1, <1>3, <2>1, <2>3, ApartStep DEF Given, Assign
    <2> QED
      BY <1>0, <1>6, <2>2, <2>3, Search
  <1>7. CASE BreadLock
    <2>1. current # Idle
      BY <1>0, <1>7, Running DEF BreadLock
    <2>2. CASE holder[Mine] = NoTask
      BY <1>1, <1>3, <1>7, <2>2, ApartStep DEF BreadLock
    <2>3. CASE holder[Mine] # NoTask
      BY <1>0, <1>2, <1>3, <1>7, <2>1, <2>3, ApartStep DEF BreadLock
    <2> QED
      BY <2>2, <2>3
  <1>8. CASE BreadSkip
    <2>1. Mine \in Buf
      BY <1>0, <1>8, Running DEF BreadSkip, NoBuffer
    <2>2. CASE lockers[Mine] = << >>
      BY <1>1, <1>3, <1>8, <2>2, ApartStep DEF BreadSkip, Unlock
    <2>3. CASE lockers[Mine] # << >>
      <3>1. PICK h : h = Head(lockers[Mine])
        OBVIOUS
      <3>2. h \in Task /\ pc[h] = "lock"
        <4>1. lockers[Mine] \in Seq(Task) /\ ListRight(lockers[Mine], "lock")
          BY <1>0, <2>1 DEF TypeOK, CacheInv, ListsRight, LockersRight
        <4> QED
          BY <2>3, <3>1, <4>1, ListHead
      <3>3. Parks({}, {h}) /\ \A t \in {h} : ~Waits(t)
        BY <1>0, <1>8, <2>3, <3>1, <3>2, SwitchParks DEF BreadSkip, Unlock, Waits
      <3> QED
        BY <1>8, <3>3, ApartStep DEF BreadSkip, Unlock
    <2> QED
      BY <2>2, <2>3
  <1>9. CASE BreadReturn
    BY <1>1, <1>3, <1>9, ApartStep DEF BreadReturn
  <1>10. CASE Modify
    BY <1>0, <1>1, <1>3, <1>10, ApartStep DEF Modify
  <1>11. CASE BrelseClean
    BY <1>1, <1>3, <1>11, ApartStep DEF BrelseClean
  <1>12. CASE Release
    <2>1. PICK W : Parks({}, W) /\ \A t \in W : ~Waits(t)
      <3>1. CASE count[Mine] = 1 /\ starved # << >>
        <4>1. PICK h : h = Head(starved)
          OBVIOUS
        <4>2. h \in Task /\ pc[h] = "waitbuf"
          BY <1>0, <3>1, <4>1, ListHead DEF CacheInv, ListsRight, SleepersRight, TypeOK
        <4>3. Parks({}, {h}) /\ \A t \in {h} : ~Waits(t)
          BY <1>0, <1>12, <3>1, <4>1, <4>2, WakeParks DEF Release, Freed, Waits
        <4> QED
          BY <4>3
      <3>2. CASE ~(count[Mine] = 1 /\ starved # << >>)
        BY <1>1, <1>3, <1>12, <3>2 DEF Release, Freed
      <3> QED
        BY <3>1, <3>2
    <2> QED
      BY <1>12, <2>1, ApartStep DEF Release
  <1>13. CASE Preempt
    <2>1. Parks({}, {}) /\ pc[current] \in {"user", "hold"}
      BY <1>0, <1>13, PreemptParks DEF Preempt, InUserMode
    <2> QED
      BY <1>0, <1>3, <1>13, <2>1, ApartStep DEF Preempt
  <1> QED
    BY <1>4, <1>5, <1>6, <1>7, <1>8, <1>9, <1>10, <1>11, <1>12, <1>13

\* A task comes to the disk: it is let to the controller or blocks.
LEMMA SubmitKept ==
    ASSUME QueueInv, NEW what \in {"bread", "bwrite", "brelse"}, Request(what),
           pc[current] \in {"locked", "hold"}
    PROVE  QueueRight'
  <1>0. /\ CacheInv /\ TypeOK /\ QueueRight /\ current \in Task /\ ~Waits(current)
        /\ queue \in Seq(Requests) /\ \A i \in DOMAIN queue : queue[i] \in Requests
    BY OneLet DEF QueueInv, Waits
  <1>00. PICK c : c = current
    OBVIOUS
  <1>1. current # Idle /\ block[Mine] \in Nat
    BY <1>0, Running, BufferAssumption DEF At, NoBuffer
  <1>2. /\ pc'[current] = "request" /\ \A t \in Task : t # current => pc'[t] = pc[t]
    BY <1>0, MovesTo DEF Request, Goto, Moves, Places
  <1>3. PICK idx \in Nat : idx = block[Mine] /\ Submit(idx)
    BY <1>1 DEF Request
  <1>4. PICK n \in 1 .. Len(queue) + 1, e \in Requests :
            queue' = InsertAt(queue, n, e) /\ e.task = current /\ (e.named <=> queue # << >>)
    BY <1>0, <1>1, <1>3, Submitted
  <1>5. PICK A \in SUBSET {current} : Parks(A, {}) /\ (current \in A <=> queue # << >>)
    BY <1>0, <1>1, <1>3, Submitted
  <1>6. /\ Owned(queue') /\ queue' # << >>
        /\ \A t \in Task : Asks(t, queue') <=> Asks(t, queue) \/ t = current
        /\ \A k \in DOMAIN queue' : queue'[k] = e \/ \E i \in DOMAIN queue : queue'[k] = queue[i]
    <2>1. ~Asks(e.task, queue) /\ Owned(queue)
      BY <1>0, <1>4 DEF QueueRight
    <2> QED
      BY <1>0, <1>4, <2>1, Inserted
  <1>7. \A t \in Task : Waits(t)' <=> Asks(t, queue')
    BY <1>0, <1>2, <1>6 DEF Waits, QueueRight
  <1>8. \A t \in Task : t # current => (Let(t)' <=> Let(t))
    BY <1>2, <1>5 DEF Let, Parks
  <1>9. /\ c = current /\ c \in Task
        /\ Let(c)' <=> queue = << >>
    BY <1>0, <1>00, <1>2, <1>5, Running DEF Let, Parks
  <1>10. queue = << >> => \A t \in Task : ~Let(t)
    <2> SUFFICES ASSUME queue = << >>, NEW t \in Task PROVE ~Let(t)
      OBVIOUS
    <2>1. ~Asks(t, queue)
      BY DEF Asks
    <2> QED
      BY <1>0, <2>1 DEF QueueRight, Let, Waits
  <1>11. \A t, u \in Task : Let(t)' /\ Let(u)' => t = u
    <2>1. CASE queue = << >>
      BY <1>8, <1>10, <2>1
    <2>2. CASE queue # << >>
      <3>1. \A t \in Task : Let(t)' => Let(t)
        BY <1>8, <1>9, <2>2
      <3> QED
        BY <1>0, <3>1 DEF QueueRight
    <2> QED
      BY <2>1, <2>2
  <1>12. \E t \in Task : Let(t)'
    <2>1. CASE queue # << >>
      <3>1. PICK t \in Task : Let(t)
        BY <1>0, <2>1 DEF QueueRight
      <3> QED
        BY <1>0, <1>8, <3>1 DEF Let, Waits
    <2> QED
      BY <1>0, <1>9, <2>1
  <1>13. \A k \in DOMAIN queue' :
            queue'[k].named \/ \E t \in Task : t = queue'[k].task /\ Let(t)'
    <2> SUFFICES ASSUME NEW k \in DOMAIN queue'
                 PROVE  queue'[k].named \/ \E t \in Task : t = queue'[k].task /\ Let(t)'
      OBVIOUS
    <2>1. CASE queue'[k] = e
      BY <1>4, <1>9, <2>1
    <2>2. CASE \E i \in DOMAIN queue : queue'[k] = queue[i]
      <3>1. PICK i \in DOMAIN queue : queue'[k] = queue[i]
        BY <2>2
      <3>2. queue[i].task \in Task /\ queue[i].task # current
        BY <1>0, <3>1 DEF Requests, QueueRight, Asks
      <3>3. queue[i].named \/ Let(queue[i].task)
        BY <1>0 DEF QueueRight
      <3> QED
        BY <1>8, <3>1, <3>2, <3>3
    <2> QED
      BY <1>6, <2>1, <2>2
  <1>14. /\ waiter' = waiter /\ ctrl' = ctrl /\ ctrlers' = << >>
         /\ waiter # NoTask => pc'[waiter] = "io" /\ state'[waiter] = "BLOCKED"
         /\ ctrl # NoTask => pc'[ctrl] = "io"
    <2>1. waiter' = waiter /\ ctrl' = ctrl /\ ctrlers' = << >>
      BY <1>0, <1>3 DEF Submit, QueueRight
    <2>2. waiter # NoTask => waiter \in Task /\ waiter # current /\ pc[waiter] = "io" /\ Blocked(waiter)
      BY <1>0, OneLet DEF QueueRight
    <2>3. ctrl # NoTask => ctrl \in Task /\ ctrl # current /\ pc[ctrl] = "io"
      BY <1>0, OneLet DEF QueueRight, Waits
    <2> QED
      BY <1>2, <1>5, <2>1, <2>2, <2>3 DEF Parks, Blocked
  <1> QED
    BY <1>6, <1>7, <1>11, <1>12, <1>13, <1>14 DEF QueueRight, Owned, Asks, Let, Blocked, Waits

\* The task that is let to the controller goes on; the others do not move.
Proceeds(p, A) ==
    /\ Moves(p) /\ p \in {"io", "served"} /\ Waits(current)
    /\ Parks(A, {}) /\ A \subseteq {current} /\ queue' = queue /\ ctrlers' = << >>
    /\ waiter' # NoTask => waiter' = current /\ p = "io" /\ current \in A
    /\ ctrl' # NoTask => ctrl' = current /\ p = "io"

LEMMA ProceedsKept ==
    ASSUME QueueInv, NEW p, NEW A, Proceeds(p, A)
    PROVE  QueueRight'
  <1>1. /\ QueueRight /\ current \in Task /\ pc'[current] = p /\ Let(current)
        /\ \A t \in Task : t # current => pc'[t] = pc[t]
        /\ \A i \in DOMAIN queue : queue[i].task \in Task
    BY MovesTo, OneLet DEF Proceeds, QueueInv, Requests
  <1>2. \A t \in Task : (Waits(t)' <=> Waits(t)) /\ (Let(t)' <=> Let(t))
    BY <1>1 DEF Waits, Let, Parks, Proceeds
  <1>3. /\ waiter' # NoTask => pc'[waiter'] = "io" /\ state'[waiter'] = "BLOCKED"
        /\ ctrl' # NoTask => pc'[ctrl'] = "io"
    BY <1>1 DEF Proceeds, Parks, Blocked
  <1>4. queue' = queue /\ ctrlers' = << >>
    BY DEF Proceeds
  <1> QED
    BY <1>1, <1>2, <1>3, <1>4 DEF QueueRight, Owned, Asks, Let, Blocked, Waits

LEMMA ControllerSteps ==
    ASSUME QueueInv, DoRequest \/ Transferred
    PROVE  QueueRight'
  <1> USE DEF At, Goto
  <1>0. /\ CacheInv /\ DispatchInv /\ current \in Task /\ ~Blocked(current) /\ ctrlers = << >>
    BY OneLet DEF QueueInv, QueueRight
  <1>1. Waits(current) /\ Let(current) /\ waiter = NoTask /\ current # Idle
    BY OneLet, Running DEF DoRequest, Transferred, Waits
  <1>2. CASE DoRequest
    <2>1. ctrl' = current /\ queue' = queue /\ ctrlers' = ctrlers /\ Moves("io")
      BY <1>2 DEF DoRequest, Command, Moves, Places
    <2>2. CASE state[current] = "RUNNING"
      <3>1. Parks({current}, {}) /\ waiter' = current
        BY <1>0, <1>1, <1>2, <2>2, BlockParks DEF DoRequest, Command
      <3>2. Proceeds("io", {current})
        BY <1>0, <1>1, <2>1, <3>1 DEF Proceeds
      <3> QED
        BY <3>2, ProceedsKept
    <2>3. CASE state[current] # "RUNNING"
      <3>1. Parks({}, {}) /\ waiter' = waiter
        BY <1>0, <1>2, <2>3, StayParks DEF DoRequest, Command
      <3>2. Proceeds("io", {})
        BY <1>0, <1>1, <2>1, <3>1 DEF Proceeds
      <3> QED
        BY <3>2, ProceedsKept
    <2> QED
      BY <2>2, <2>3
  <1>3. CASE Transferred
    <2>1. /\ ctrl' = NoTask /\ queue' = queue /\ ctrlers' = ctrlers /\ waiter' = waiter
          /\ UNCHANGED dispatchVars /\ Moves("served")
      BY <1>0, <1>3 DEF Transferred, LeaveCtrl, Moves, Places
    <2>2. Parks({}, {})
      BY <1>0, <2>1, StayParks
    <2>3. Proceeds("served", {})
      BY <1>0, <1>1, <2>1, <2>2 DEF Proceeds
    <2> QED
      BY <2>3, ProceedsKept
  <1> QED
    BY <1>2, <1>3

\* A task leaves the disk: the next one on the elevator's way, if there is
\* any, is let to the controller.
LEMMA ServedKept ==
    ASSUME QueueInv, Served, pc[current] = "served",
           NEW p, Moves(p), p \notin {"request", "io", "served"}
    PROVE  QueueRight'
  <1>0. /\ CacheInv /\ TypeOK /\ DispatchInv /\ QueueRight /\ current \in Task /\ Let(current)
        /\ waiter = NoTask /\ ctrl = NoTask /\ ctrlers = << >>
        /\ queue \in Seq(Requests) /\ \A i \in DOMAIN queue : queue[i] \in Requests
    BY OneLet DEF QueueInv, QueueRight, Waits
  <1>1. /\ pc'[current] = p /\ \A t \in Task : t # current => pc'[t] = pc[t]
    BY <1>0, MovesTo
  <1>2. PICK i \in DOMAIN queue : \E W \in SUBSET Task :
            /\ queue[i].task = current /\ W = {r.task : r \in Neighbour(i)}
            /\ Wakes(W) /\ queue' = RemoveAt(queue, i) /\ waiter' = waiter /\ ctrl' = ctrl
    BY <1>0, Completed
  <1>3. PICK W \in SUBSET Task :
            /\ queue[i].task = current /\ W = {r.task : r \in Neighbour(i)}
            /\ Wakes(W) /\ queue' = RemoveAt(queue, i) /\ waiter' = waiter /\ ctrl' = ctrl
    BY <1>2
  <1>4. Parks({}, W)
    <2>1. current' = current
      BY <1>0, Completed
    <2> QED
      BY <1>0, <1>3, <2>1, WakeParks DEF Wakes
  <1>5. ctrlers' = << >>
    BY <1>0, <1>3 DEF Wakes, TakenOff
  <1>6. /\ Owned(queue') /\ (queue' = << >> <=> Len(queue) = 1)
        /\ \A t \in Task : Asks(t, queue') <=> Asks(t, queue) /\ t # current
        /\ \A k \in DOMAIN queue' : \E j \in DOMAIN queue : j # i /\ queue'[k] = queue[j]
    BY <1>0, <1>3, Removed DEF QueueRight
  <1>7. \A t \in Task : Waits(t)' <=> Asks(t, queue')
    BY <1>0, <1>1, <1>6 DEF QueueRight, Waits
  <1>8. \A t \in Task : t # current /\ Waits(t) => pc[t] = "request" /\ Blocked(t)
    BY <1>0, OneLet DEF Waits, Let
  <1>9. \A t \in Task : Let(t)' <=> t \in W /\ t # current /\ Waits(t)
    BY <1>1, <1>4, <1>8 DEF Let, Waits, Parks
  <1>10. \A t, u \in W : t = u
    BY <1>3, Neighbours, <1>0
  <1>11. queue' # << >> => \E t \in Task : Let(t)'
    <2> SUFFICES ASSUME Len(queue) # 1 PROVE \E t \in Task : Let(t)'
      BY <1>6
    <2>1. PICK j \in DOMAIN queue : j # i /\ Neighbour(i) = {queue[j]}
      BY <1>0, Neighbours
    <2>2. PICK t : t = queue[j].task
      OBVIOUS
    <2>3. t \in Task /\ t # current /\ Waits(t)
      BY <1>0, <1>3, <2>1, <2>2 DEF QueueRight, Owned, Asks, Requests
    <2>4. t \in W
      BY <1>3, <2>1, <2>2
    <2> QED
      BY <1>9, <2>3, <2>4
  <1>12. \A k \in DOMAIN queue' : queue'[k].named
    <2> SUFFICES ASSUME NEW k \in DOMAIN queue' PROVE queue'[k].named
      OBVIOUS
    <2>1. PICK j \in DOMAIN queue : j # i /\ queue'[k] = queue[j]
      BY <1>6
    <2>2. queue[j].task \in Task /\ queue[j].task # current
      BY <1>0, <1>3, <2>1 DEF QueueRight, Owned, Requests
    <2> QED
      BY <1>0, <2>1, <2>2, OneLet DEF QueueRight
  <1>13. \A t, u \in Task : Let(t)' /\ Let(u)' => t = u
    BY <1>9, <1>10
  <1>14. ctrl' = NoTask /\ waiter' = NoTask
    BY <1>0, <1>3
  <1>15. \A t \in Task : Asks(t, queue') <=> Asks(t, queue)'
    BY DEF Asks
  <1> QED
    BY <1>5, <1>6, <1>7, <1>11, <1>12, <1>13, <1>14, <1>15 DEF QueueRight, Owned

LEMMA InterruptKept ==
    ASSUME QueueInv, DeviceInterrupt
    PROVE  QueueRight'
  <1>0. /\ CacheInv /\ TypeOK /\ DispatchInv /\ QueueRight /\ current \in Task
        /\ waiter \in Task /\ waiter # current /\ pc[waiter] = "io" /\ ctrlers = << >>
    BY OneLet DEF QueueInv, QueueRight, DeviceInterrupt, Interrupt
  <1>1. /\ pc' = pc /\ queue' = queue /\ ctrl' = ctrl /\ waiter' = NoTask /\ ctrlers' = << >>
    BY <1>0 DEF DeviceInterrupt, Interrupt, Wakes, TakenOff
  <1>2. Parks({}, {waiter})
    BY <1>0, WakeParks DEF DeviceInterrupt, Interrupt, Wakes
  <1>3. \A t \in Task : (Let(t)' <=> Let(t)) /\ (Waits(t)' <=> Waits(t))
    BY <1>0, <1>1, <1>2 DEF Let, Waits, Parks
  <1>4. \A i \in DOMAIN queue : queue[i].task \in Task
    BY OneLet DEF Requests
  <1> QED
    BY <1>0, <1>1, <1>3, <1>4 DEF QueueRight, Owned, Asks, Let, Blocked, Waits

LEMMA QueueStep ==
    ASSUME QueueInv, [Next]_vars
    PROVE  QueueInv'
  <1>1. CacheInv'
    BY Step DEF QueueInv, StaleNext
  <1>2. QueueRight'
    <2>0. CASE UNCHANGED vars
      BY <2>0 DEF QueueInv, QueueRight, vars, dispatchVars, deviceVars,
                  Owned, Asks, Waits, Let, Blocked
    <2>1. CASE BreadRead
      BY <2>1, SubmitKept DEF BreadRead, At
    <2>2. CASE Write
      BY <2>2, SubmitKept DEF Write, At
    <2>3. CASE ReadDone
      <3>1. Moves("locked")
        BY <2>3 DEF ReadDone, Goto, Moves, Places
      <3> QED
        BY <2>3, <3>1, ServedKept DEF ReadDone, At
    <2>4. CASE WriteDone
      <3>1. PICK p \in {"hold", "release"} : Goto(p)
        BY <2>4 DEF WriteDone
      <3>2. Moves(p)
        BY <3>1 DEF Goto, Moves, Places
      <3> QED
        BY <2>4, <3>1, <3>2, ServedKept DEF WriteDone, At
    <2> QED
      BY <2>0, <2>1, <2>2, <2>3, <2>4, ApartSteps, ControllerSteps, InterruptKept DEF Next
  <1> QED
    BY <1>1, <1>2 DEF QueueInv

LEMMA QueueInvariant == Spec => []QueueInv
  <1>1. Init => QueueInv
    <2>1. DOMAIN << >> = {}
      OBVIOUS
    <2> QED
      BY <2>1, Initially DEF QueueInv, QueueRight, Init, DeviceInit, Owned, Asks, Waits, Let
  <1>2. QueueInv /\ [Next]_vars => QueueInv'
    BY QueueStep
  <1> QED
    BY <1>1, <1>2, PTL DEF Spec

\* The queues of the cache when no sleep timer outlives its sleep: one task at
\* a time at the controller, each request that is next with a task to let go,
\* no request and no sleeper forgotten (device.c:133-214, buffer.c:108-132).
THEOREM Queues == Spec => []QueuesRight
  <1>1. ASSUME QueueInv PROVE OneAtDisk
    <2>1. QueueRight /\ TypeOK
      BY <1>1, OneLet DEF QueueInv
    <2>2. waiter # NoTask => pc[waiter] = "io" /\ state[waiter] = "BLOCKED"
      BY <2>1 DEF QueueRight, Blocked
    <2>3. OneServed
      BY <2>1 DEF QueueRight, Let, OneServed
    <2>4. \A t \in Task : pc[t] \in {"request", "io", "served"}
                           <=> \E i \in DOMAIN queue : queue[i].task = t
      BY <2>1 DEF QueueRight, Waits, Asks
    <2>5. \A t \in Task : pc[t] = "request" /\ state[t] # "BLOCKED" => ctrl = NoTask
      <3> SUFFICES ASSUME NEW t \in Task, Let(t), pc[t] = "request" PROVE ctrl = NoTask
        BY DEF Let, Blocked
      <3>1. ctrl \in Task \cup {NoTask} /\ (ctrl # NoTask => Let(ctrl) /\ ctrl # t)
        BY <2>1 DEF QueueRight, TypeOK, DeviceTypeOK, Let
      <3> QED
        BY <2>1, <3>1 DEF QueueRight
    <2> QED
      BY <2>2, <2>3, <2>4, <2>5 DEF OneAtDisk
  <1>2. QueueInv => NoForgottenRequest
    BY DEF QueueInv, QueueRight, Let, Blocked, NoForgottenRequest
  <1>3. QueueInv => NoForgottenSleeper
    BY DEF QueueInv, CacheInv, SleepersWoken, Woken, Blocked, NoForgottenSleeper
  <1>4. ASSUME QueueInv PROVE NextHasTask
    <2> SUFFICES ASSUME NEW i \in DOMAIN queue, pc[queue[i].task] = "served",
                        NEW r \in Neighbour(i)
                 PROVE  r.named
      BY DEF NextHasTask
    <2>1. /\ TypeOK /\ QueueRight /\ queue[i].task \in Task
          /\ \A j \in DOMAIN queue : queue[j].task \in Task
      BY <1>4, OneLet DEF QueueInv, Requests
    <2>2. PICK j \in DOMAIN queue : j # i /\ r = queue[j]
      BY <2>1, Neighbours
    <2> QED
      BY <2>1, <2>2 DEF QueueRight, Owned, Let
  <1>5. QueueInv => QueuesRight
    BY <1>1, <1>2, <1>3, <1>4 DEF QueuesRight
  <1> QED
    BY <1>5, QueueInvariant, PTL
-----------------------------------------------------------------------------
\* What an action does to what its task c knows, and to what the others know.
Learns(c, p) ==
    /\ c \in Task /\ c = current /\ Moves(p) /\ (slept => slept')
    /\ \A t \in Task \ {c} :
          /\ buf'[t] = buf[t] /\ doing'[t] = doing[t]
          /\ Knows(t) => valid'[buf[t]]
          /\ Reading(t) => holder'[buf[t]] = t /\ ~valid'[buf[t]]
    /\ Knows(c)' => valid'[buf'[c]]
    /\ p = "locked" \/ Reading(c)' => holder'[buf'[c]] = c
    /\ Reading(c)' => ~valid'[buf'[c]]

LEMMA KnowersKept ==
    ASSUME DataInv, NEW c, NEW p, Learns(c, p)
    PROVE  KnowersRight'
  <1>1. TypeOK /\ PlacesRight /\ Moves(p) /\ c \in Task /\ c = current
    BY DEF DataInv, CacheInv, Learns
  <1>2. /\ pc'[c] = p /\ \A t \in Task : t # c => pc'[t] = pc[t]
    BY <1>1, MovesTo
  <1>3. ASSUME NEW t \in Task, t # c
        PROVE  /\ Knows(t)' => valid'[buf'[t]]
               /\ pc'[t] = "locked" \/ Reading(t)' => holder'[buf'[t]] = t
               /\ Reading(t)' => ~valid'[buf'[t]]
    <2>1. buf'[t] = buf[t] /\ doing'[t] = doing[t] /\ pc'[t] = pc[t]
      BY <1>2, <1>3 DEF Learns
    <2>2. pc[t] \in Away
      BY <1>1, <1>3 DEF PlacesRight, PlaceRight
    <2>3. (Knows(t)' <=> Knows(t)) /\ (Reading(t)' <=> Reading(t))
      BY <2>1 DEF Knows, Reading, Writing, Waits
    <2> QED
      BY <1>3, <2>1, <2>2, <2>3 DEF Learns, Away
  <1>4. /\ Knows(c)' => valid'[buf'[c]]
        /\ pc'[c] = "locked" \/ Reading(c)' => holder'[buf'[c]] = c
        /\ Reading(c)' => ~valid'[buf'[c]]
    BY <1>2 DEF Learns
  <1> QED
    BY <1>3, <1>4 DEF KnowersRight

\* What an action does to the contents: a block that has been read for another
\* task stays so, and a buffer that is dirty and differs from its block did so
\* before or is that of the running task, which has yet to write it.
Spares(c) ==
    /\ \A t \in Task \ {c} : Has(t) => data'[buf[t]] = disk'[block'[buf[t]]]
    /\ Has(c)' => data'[buf'[c]] = disk'[block'[buf'[c]]]
    /\ \A b \in Buf : Differs(b)' /\ dirty'[b] =>
          \/ ToWrite(c)' /\ buf'[c] = b
          \/ Differs(b) /\ dirty[b] /\ ~(ToWrite(c) /\ buf[c] = b)

LEMMA ContentsRight ==
    ASSUME DataInv, NEW c, NEW p, Learns(c, p), ~slept' => Spares(c)
    PROVE  KnowersRight' /\ (~slept' => ReadersRight' /\ WritersRight')
  <1>1. TypeOK /\ Moves(p) /\ c \in Task /\ c = current
    BY DEF DataInv, CacheInv, Learns
  <1>2. \A t \in Task : t # c => pc'[t] = pc[t] /\ buf'[t] = buf[t] /\ doing'[t] = doing[t]
    BY <1>1, MovesTo DEF Learns
  <1>3. ASSUME ~slept' PROVE ReadersRight'
    <2> SUFFICES ASSUME NEW t \in Task, Has(t)' PROVE data'[buf'[t]] = disk'[block'[buf'[t]]]
      BY DEF ReadersRight
    <2>1. CASE t = c
      BY <1>3, <2>1 DEF Spares
    <2>2. CASE t # c
      BY <1>2, <1>3, <2>2 DEF Spares, Has, Reading, Waits
    <2> QED
      BY <2>1, <2>2
  <1>4. ASSUME ~slept' PROVE WritersRight'
    <2> SUFFICES ASSUME NEW b \in Buf, Differs(b)', dirty'[b]
                 PROVE  \E t \in Task : buf'[t] = b /\ ToWrite(t)'
      BY DEF WritersRight
    <2>1. CASE ToWrite(c)' /\ buf'[c] = b
      BY <1>1, <2>1
    <2>2. CASE Differs(b) /\ dirty[b] /\ ~(ToWrite(c) /\ buf[c] = b)
      <3>1. PICK t \in Task : buf[t] = b /\ ToWrite(t)
        BY <1>4, <2>2 DEF Learns, DataInv, WritersRight
      <3>2. t # c
        BY <2>2, <3>1
      <3> QED
        BY <1>2, <3>1, <3>2 DEF ToWrite
    <2> QED
      BY <1>4, <2>1, <2>2 DEF Spares
  <1> QED
    BY <1>3, <1>4, KnowersKept

\* What the running task knows of its buffer.
LEMMA Known ==
    ASSUME DataInv
    PROVE  /\ current \in Task /\ TypeOK /\ Mine = buf[current] /\ pc \in [Task -> Places]
           /\ \A t \in Task \ {current} :
                /\ Knows(t) => valid[buf[t]]
                /\ Reading(t) => holder[buf[t]] = t /\ ~valid[buf[t]]
                /\ pc[t] \in Away
                /\ Knows(t) \/ Reading(t) => buf[t] \in Buf /\ block[buf[t]] \in Blocks
           /\ Knows(current) => valid[Mine]
           /\ At("locked") \/ Reading(current) => holder[Mine] = current
           /\ Reading(current) => ~valid[Mine]
           /\ Has(current) /\ ~slept => data[Mine] = disk[block[Mine]]
  <1>1. current \in Task /\ TypeOK /\ PlacesRight /\ KnowersRight
    BY Running DEF DataInv, CacheInv
  <1>2. \A t \in Task : buf[t] \in Buf \cup {0} /\ (Knows(t) \/ Reading(t) => pc[t] \notin NoBuffer)
    BY <1>1 DEF TypeOK, Knows, Reading, Writing, Waits, NoBuffer
  <1>3. \A t \in Task : Knows(t) \/ Reading(t) => buf[t] \in Buf /\ block[buf[t]] \in Blocks
    BY <1>1, <1>2 DEF TypeOK, PlacesRight, PlaceRight
  <1>4. Has(current) /\ ~slept => data[Mine] = disk[block[Mine]]
    BY <1>1 DEF DataInv, ReadersRight, Mine
  <1>5. pc \in [Task -> Places]
    BY <1>1 DEF TypeOK, Places
  <1> QED
    BY <1>1, <1>2, <1>3, <1>4, <1>5 DEF KnowersRight, PlacesRight, PlaceRight, Mine, At
-----------------------------------------------------------------------------
\* The contents of the buffers, their blocks and the disk are left alone, and
\* no buffer but the running task's, at the end of its bread or bwrite, is
\* marked or unmarked.
Same ==
    /\ UNCHANGED <<block, valid, data, disk>>
    /\ \A b \in Buf : \/ dirty'[b] = dirty[b]
                      \/ b = Mine /\ ~dirty'[b] /\ At("unlocked")
                      \/ b = Mine /\ ~dirty'[b] /\ At("served")

\* A step that changes no contents: the task that has yet to write its buffer
\* still has, or leaves a clean one.
LEMMA SameKept ==
    ASSUME DataInv, Same, NEW c, NEW p, Learns(c, p),
           Has(c)' => Has(c) /\ buf'[c] = buf[c],
           ToWrite(c) => (ToWrite(c)' /\ buf'[c] = buf[c]) \/ ~dirty'[Mine]
    PROVE  KnowersRight' /\ (~slept' => ReadersRight' /\ WritersRight')
  <1>1. c \in Task /\ c = current /\ Mine = buf[c]
    BY Known DEF Learns
  <1>2. ASSUME ~slept' PROVE Spares(c)
    <2>1. ~slept /\ ReadersRight /\ WritersRight
      BY <1>2 DEF Learns, DataInv
    <2>2. \A t \in Task : Has(t) => data'[buf[t]] = disk'[block'[buf[t]]]
      BY <2>1 DEF ReadersRight, Same
    <2>3. Has(c)' => data'[buf'[c]] = disk'[block'[buf'[c]]]
      BY <1>1, <2>2
    <2>4. ASSUME NEW b \in Buf, Differs(b)', dirty'[b]
          PROVE  \/ ToWrite(c)' /\ buf'[c] = b
                 \/ Differs(b) /\ dirty[b] /\ ~(ToWrite(c) /\ buf[c] = b)
      <3>1. Differs(b) /\ dirty[b]
        BY <2>4 DEF Same, Differs
      <3> QED
        BY <1>1, <2>4, <3>1
    <2> QED
      BY <1>1, <2>2, <2>3, <2>4 DEF Spares
  <1> QED
    BY <1>2, ContentsRight

\* A step of a task that changes neither contents nor locks nor its buffer.
Plain(p) ==
    /\ Moves(p) /\ p \in {"user", "getblk", "waitbuf", "lock", "hold", "release"}
    /\ Same /\ UNCHANGED <<holder, buf>> /\ (slept => slept')
    /\ \A t \in Task \ {current} : doing'[t] = doing[t]
    /\ p \in {"hold", "release"} => valid[Mine]
    /\ ToWrite(current) => p = "hold" \/ ~dirty'[Mine]

LEMMA PlainKept ==
    ASSUME DataInv, NEW p, Plain(p)
    PROVE  KnowersRight' /\ (~slept' => ReadersRight' /\ WritersRight')
  <1>1. PICK c \in Task : c = current
    BY Known
  <1>2. pc'[c] = p /\ buf[c] = Mine
    BY <1>1, Known, MovesTo DEF Plain
  <1>3. /\ Knows(c)' => p \in {"hold", "release"}
        /\ ~Reading(c)' /\ ~Has(c)' /\ (p = "hold" => ToWrite(c)')
    BY <1>2 DEF Knows, Reading, Writing, Waits, Plain, Has, ToWrite
  <1>4. Learns(c, p)
    BY <1>1, <1>2, <1>3, Known DEF Learns, Plain, Same
  <1> QED
    BY <1>1, <1>3, <1>4, SameKept DEF Plain

LEMMA PlainSteps ==
    ASSUME DataInv,
           \/ Bread \/ BreadReturn \/ BrelseClean
           \/ WriteDone \/ DeviceInterrupt \/ StaleTimeout \/ Preempt
           \/ (Sleeps /\ pc[current] \in {"getblk", "waitbuf"})
    PROVE  Same /\ KnowersRight' /\ (~slept' => ReadersRight' /\ WritersRight')
  <1> USE DEF At, Goto, bufferVars, lockVars, taskVars, Places
  <1>0. TypeOK /\ current \in Task
    BY Known
  <1>1. CASE Bread
    <2>1. Same
      BY <1>1 DEF Bread, Same
    <2> QED
      BY <1>1, <2>1, PlainKept DEF Bread, Plain, Moves, ToWrite
  <1>3. CASE BreadReturn
    <2>1. valid[Mine] /\ ~ToWrite(current)
      BY <1>3, Known DEF BreadReturn, Knows, ToWrite
    <2>2. valid' = valid
      BY <1>0, <1>3, <2>1 DEF BreadReturn, Validate, TypeOK
    <2>3. Same
      BY <1>0, <1>3, <2>2 DEF BreadReturn, Clean, Same, TypeOK
    <2>4. Plain("hold")
      BY <1>3, <2>1, <2>3 DEF BreadReturn, Plain, Moves
    <2> QED
      BY <2>3, <2>4, PlainKept
  <1>6. CASE BrelseClean
    <2>1. valid[Mine] /\ Same /\ ~dirty'[Mine]
      BY <1>6, Known DEF BrelseClean, Knows, Same
    <2> QED
      BY <1>6, <2>1, PlainKept DEF BrelseClean, Plain, Moves
  <1>7. CASE WriteDone
    <2>1. valid[Mine] /\ ~ToWrite(current)
      BY <1>7, Known DEF WriteDone, Knows, Writing, Waits, ToWrite
    <2>2. valid' = valid
      BY <1>0, <1>7, <2>1 DEF WriteDone, Validate, TypeOK
    <2>3. PICK p \in {"hold", "release"} : pc' = [pc EXCEPT ![current] = p]
      BY <1>7 DEF WriteDone
    <2>4. Same
      BY <1>0, <1>7, <2>2 DEF WriteDone, Clean, Same, TypeOK
    <2>5. \A t \in Task \ {current} : doing'[t] = doing[t]
      BY <1>0, <1>7 DEF WriteDone, TypeOK
    <2>6. Plain(p)
      BY <1>7, <2>1, <2>3, <2>4, <2>5 DEF WriteDone, Plain, Moves
    <2> QED
      BY <2>4, <2>6, PlainKept
  <1>8. CASE DeviceInterrupt \/ StaleTimeout \/ Preempt
    <2>1. PICK p \in {"user", "hold"} : p = pc[current]
      BY <1>8 DEF DeviceInterrupt, StaleTimeout, Preempt, InUserMode
    <2>2. /\ pc' = pc /\ UNCHANGED <<block, valid, data, disk, dirty, holder, buf, doing, slept>>
      BY <1>8 DEF DeviceInterrupt, StaleTimeout, Preempt
    <2>3. p = "hold" => valid[Mine]
      BY <2>1, Known DEF Knows
    <2>4. Same /\ (ToWrite(current) => p = "hold")
      BY <2>1, <2>2 DEF Same, ToWrite
    <2>5. Plain(p)
      BY <1>0, <2>1, <2>2, <2>3, <2>4 DEF Plain, Moves, TypeOK
    <2> QED
      BY <2>4, <2>5, PlainKept
  <1>9. CASE Sleeps /\ pc[current] \in {"getblk", "waitbuf"}
    <2>1. pc' = [pc EXCEPT ![current] = "waitbuf"] /\ ~ToWrite(current) /\ Same
      BY <1>9 DEF Sleeps, ToWrite, Same
    <2> QED
      BY <1>9, <2>1, PlainKept DEF Sleeps, Plain, Moves
  <1> QED
    BY <1>1, <1>3, <1>6, <1>7, <1>8, <1>9

\* The lock of a buffer is taken and let go.
LEMMA LockData ==
    ASSUME DataInv, BreadLock \/ BreadSkip
    PROVE  Same /\ KnowersRight' /\ (~slept' => ReadersRight' /\ WritersRight')
  <1> USE DEF At, Goto, bufferVars, lockVars, taskVars, Places
  <1>0. TypeOK /\ Mine \in Buf /\ Same /\ UNCHANGED <<buf, doing, slept>>
    <2>1. Mine \in Buf
      BY Running DEF DataInv, BreadLock, BreadSkip, NoBuffer
    <2> QED
      BY <2>1, Known DEF BreadLock, BreadSkip, Same
  <1>00. PICK c \in Task : c = current /\ buf[c] = Mine /\ ~ToWrite(c)
    BY Known DEF BreadLock, BreadSkip, ToWrite
  <1>1. CASE BreadLock /\ holder[Mine] # NoTask
    <2>1. pc' = [pc EXCEPT ![current] = "lock"] /\ holder' = holder /\ ~ToWrite(current)
      BY <1>0, <1>1, <1>00 DEF BreadLock, TypeOK
    <2>2. Plain("lock")
      BY <1>0, <2>1 DEF Plain, Moves
    <2> QED
      BY <1>0, <2>2, PlainKept
  <1>2. CASE BreadLock /\ holder[Mine] = NoTask
    <2>1. holder' = [holder EXCEPT ![Mine] = c] /\ Moves("locked") /\ pc'[c] = "locked"
      BY <1>0, <1>2, <1>00 DEF BreadLock, Moves, TypeOK
    <2>2. ASSUME NEW t \in Task \ {c}, Reading(t) PROVE holder'[buf[t]] = t
      <3>1. holder[buf[t]] = t /\ buf[t] \in Buf
        BY <1>00, <2>2, Known
      <3>2. buf[t] # Mine
        BY <1>2, <3>1, DeviceAssumption
      <3> QED
        BY <1>0, <2>1, <3>1, <3>2 DEF TypeOK
    <2>3. ~Knows(c)' /\ ~Reading(c)' /\ ~Has(c)' /\ holder'[Mine] = c
      BY <1>0, <2>1 DEF Knows, Reading, Writing, Waits, Has, TypeOK
    <2>4. Learns(c, "locked")
      BY <1>0, <1>00, <2>1, <2>2, <2>3, Known DEF Learns, Same
    <2> QED
      BY <1>0, <1>00, <2>3, <2>4, SameKept
  <1>3. CASE BreadSkip
    <2>1. /\ holder' = [holder EXCEPT ![Mine] = NoTask] /\ Moves("unlocked")
          /\ pc'[c] = "unlocked" /\ pc[c] = "locked" /\ valid[Mine]
      BY <1>0, <1>3, <1>00 DEF BreadSkip, Unlock, Moves, TypeOK
    <2>2. ASSUME NEW t \in Task \ {c}, Reading(t) PROVE holder'[buf[t]] = t
      <3>1. holder[buf[t]] = t /\ buf[t] \in Buf /\ holder[Mine] = c
        BY <1>00, <2>1, <2>2, Known
      <3> QED
        BY <1>0, <2>1, <3>1 DEF TypeOK
    <2>3. ~Reading(c)' /\ ~Has(c)'
      BY <2>1 DEF Reading, Waits, Has
    <2>4. Learns(c, "unlocked")
      BY <1>0, <1>00, <2>1, <2>2, <2>3, Known DEF Learns, Same
    <2> QED
      BY <1>0, <1>00, <2>3, <2>4, SameKept
  <1> QED
    BY <1>1, <1>2, <1>3

\* A buffer is found, or let go.
LEMMA HandData ==
    ASSUME DataInv, GetblkHit \/ Release
    PROVE  Same /\ KnowersRight' /\ (~slept' => ReadersRight' /\ WritersRight')
  <1> USE DEF At, Goto, bufferVars, lockVars, taskVars, Places
  <1>00. PICK c \in Task : c = current /\ ~ToWrite(c)
    BY Known DEF GetblkHit, Release, ToWrite
  <1>1. PICK p \in {"hold", "lock", "user"} : pc' = [pc EXCEPT ![current] = p]
    <2>1. CASE Release
      BY <2>1 DEF Release
    <2>2. CASE GetblkHit
      BY <2>2 DEF GetblkHit
    <2> QED
      BY <2>1, <2>2
  <1>2. Moves(p) /\ pc'[c] = p
    BY <1>1, <1>00, Known DEF Moves, TypeOK
  <1>3. /\ Same /\ holder' = holder /\ slept' = slept /\ doing' = doing
        /\ \A t \in Task \ {c} : buf'[t] = buf[t]
    BY <1>00, Known DEF GetblkHit, Release, Same, TypeOK
  <1>4. p = "hold" => valid'[buf'[c]]
    <2>1. CASE Release
      BY <1>1, <1>2, <2>1, <1>00 DEF Release
    <2>2. CASE GetblkHit
      BY <1>1, <1>2, <1>00, <2>2, Known DEF GetblkHit, TypeOK
    <2> QED
      BY <2>1, <2>2
  <1>5. (Knows(c)' => p = "hold") /\ ~Reading(c)' /\ ~Has(c)'
    BY <1>2 DEF Knows, Reading, Writing, Waits, Has
  <1>6. Learns(c, p)
    BY <1>1, <1>2, <1>3, <1>4, <1>5, <1>00, Known DEF Learns, Same
  <1> QED
    BY <1>3, <1>5, <1>6, <1>00, SameKept

\* A request is made, of a reader with the lock or of a writer, or waits for
\* the controller.
LEMMA RequestData ==
    ASSUME DataInv, BreadRead \/ Write \/ DoRequestWait
    PROVE  Same /\ KnowersRight' /\ (~slept' => ReadersRight' /\ WritersRight')
  <1> USE DEF At, Goto, bufferVars, lockVars, taskVars, Places
  <1>00. PICK c \in Task : c = current /\ buf[c] = Mine
    BY Known
  <1>1. PICK what \in {"bread", "bwrite", "brelse"} :
            /\ doing' = [doing EXCEPT ![current] = what]
            /\ UNCHANGED <<block, count, dirty, valid, data, holder, disk, buf, slept>>
            /\ pc' = [pc EXCEPT ![current] = "request"]
            /\ \/ what = "bread" /\ At("locked") /\ ~valid[Mine]
               \/ what # "bread" /\ At("hold")
               \/ what = doing[current] /\ At("request")
    <2>1. CASE BreadRead
      BY <2>1 DEF BreadRead, Request
    <2>2. CASE Write
      BY <2>2 DEF Write, Request
    <2>3. CASE DoRequestWait
      BY <2>3, Known DEF DoRequestWait, TypeOK
    <2> QED
      BY <2>1, <2>2, <2>3
  <1>2. /\ Moves("request") /\ pc'[c] = "request" /\ doing'[c] = what
        /\ Same /\ UNCHANGED <<holder, buf, slept>>
        /\ \A t \in Task \ {c} : doing'[t] = doing[t]
    BY <1>1, <1>00, Known DEF Moves, Same, TypeOK
  <1>3. /\ what = "bread" => ~Knows(c)' /\ ~valid[Mine] /\ holder[Mine] = c
        /\ what # "bread" => ~Reading(c)' /\ valid[Mine] /\ ToWrite(c)'
        /\ ~Has(c)'
    BY <1>1, <1>2, <1>00, Known DEF Knows, Reading, Writing, Waits, ToWrite, Has
  <1>4. Learns(c, "request")
    BY <1>2, <1>3, <1>00, Known DEF Learns, Same
  <1>5. ToWrite(c) => ToWrite(c)'
    BY <1>1, <1>3, <1>00 DEF ToWrite
  <1> QED
    BY <1>2, <1>3, <1>4, <1>5, <1>00, SameKept
-----------------------------------------------------------------------------
\* A buffer changes its block.
LEMMA GivenData ==
    ASSUME DataInv, NEW g \in Buf, Given(g), pc[current] \in {"getblk", "waitbuf"}
    PROVE  KnowersRight' /\ (~slept' => ReadersRight' /\ WritersRight')
  <1> USE DEF At, Goto, bufferVars, lockVars, taskVars, Places
  <1>0. TypeOK /\ CacheInv
    BY Known DEF DataInv
  <1>00. PICK c \in Task : c = current /\ buf[c] = 0 /\ ~ToWrite(c)
    BY Known, Running DEF NoBuffer, DataInv, CacheInv, PlacesRight, PlaceRight, ToWrite
  <1>1. /\ Moves("lock") /\ pc'[c] = "lock"
        /\ UNCHANGED <<holder, doing, disk, slept, data, dirty>>
        /\ valid' = [valid EXCEPT ![g] = FALSE]
        /\ \A b \in Buf : b # g => block'[b] = block[b]
        /\ \A t \in Task \ {c} : buf'[t] = buf[t]
    BY <1>0, <1>00 DEF Given, Assign, Moves, TypeOK
  <1>2. \A t \in Task : buf[t] # g
    BY <1>0, Used DEF Given
  <1>3. ~Knows(c)' /\ ~Reading(c)' /\ ~Has(c)'
    BY <1>1 DEF Knows, Reading, Writing, Waits, Has
  <1>4. Learns(c, "lock")
    <2>1. \A t \in Task \ {c} : Knows(t) => valid'[buf[t]]
      BY <1>0, <1>1, <1>2, <1>00, Known DEF TypeOK
    <2>2. \A t \in Task \ {c} : Reading(t) => holder'[buf[t]] = t /\ ~valid'[buf[t]]
      BY <1>0, <1>1, <1>2, <1>00, Known DEF TypeOK
    <2> QED
      BY <1>1, <1>00, <1>3, <2>1, <2>2 DEF Learns
  <1>5. ASSUME ~slept' PROVE Spares(c)
    <2>1. ASSUME NEW t \in Task \ {c}, Has(t) PROVE data'[buf[t]] = disk'[block'[buf[t]]]
      <3>1. data[buf[t]] = disk[block[buf[t]]]
        BY <1>1, <1>5, <2>1 DEF DataInv, ReadersRight
      <3>2. buf[t] \in Buf /\ buf[t] # g
        BY <1>2, <1>00, <2>1, Known DEF Has
      <3> QED
        BY <1>1, <3>1, <3>2
    <2>2. ASSUME NEW b \in Buf, Differs(b)', dirty'[b]
          PROVE  Differs(b) /\ dirty[b]
      <3>1. b # g
        BY <1>0, <1>1, <2>2 DEF Differs, TypeOK
      <3> QED
        BY <1>0, <1>1, <2>2, <3>1 DEF Differs, TypeOK
    <2> QED
      BY <1>00, <1>3, <2>1, <2>2 DEF Spares
  <1> QED
    BY <1>4, <1>5, ContentsRight

LEMMA ModifyData ==
    ASSUME DataInv, Modify
    PROVE  KnowersRight' /\ (~slept' => ReadersRight' /\ WritersRight')
  <1> USE DEF At, Goto, bufferVars, lockVars, taskVars, Places
  <1>0. TypeOK /\ Mine \in Buf
    BY Known, Running DEF DataInv, Modify, NoBuffer
  <1>00. PICK c \in Task : c = current /\ buf[c] = Mine
    BY Known
  <1>1. /\ Moves("hold") /\ pc'[c] = "hold" /\ valid[Mine]
        /\ UNCHANGED <<holder, doing, disk, slept, valid, block, buf>>
        /\ \A b \in Buf : b # Mine => data'[b] = data[b] /\ dirty'[b] = dirty[b]
    BY <1>0, <1>00, Known DEF Modify, Moves, TypeOK, Knows
  <1>2. ~Reading(c)' /\ ~Has(c)' /\ ToWrite(c)'
    BY <1>1 DEF Reading, Waits, Has, ToWrite
  <1>3. Learns(c, "hold")
    BY <1>1, <1>00, <1>2, Known DEF Learns
  <1>4. ASSUME ~slept' PROVE Spares(c)
    <2>1. ASSUME NEW t \in Task \ {c}, Has(t) PROVE data'[buf[t]] = disk'[block'[buf[t]]]
      <3>1. data[buf[t]] = disk[block[buf[t]]]
        BY <1>1, <1>4, <2>1 DEF DataInv, ReadersRight
      <3>2. buf[t] \in Buf /\ buf[t] # Mine
        BY <1>1, <1>00, <2>1, Known DEF Has
      <3> QED
        BY <1>1, <3>1, <3>2
    <2>2. ASSUME NEW b \in Buf, b # Mine, Differs(b)', dirty'[b]
          PROVE  Differs(b) /\ dirty[b]
      BY <1>1, <2>2 DEF Differs
    <2> QED
      BY <1>1, <1>00, <1>2, <2>1, <2>2 DEF Spares
  <1> QED
    BY <1>3, <1>4, ContentsRight

\* The command goes to the controller: a write changes the disk.
LEMMA CommandData ==
    ASSUME DataInv, DoRequest
    PROVE  KnowersRight' /\ (~slept' => ReadersRight' /\ WritersRight')
  <1> USE DEF At, Goto, bufferVars, lockVars, taskVars, Places
  <1>0. TypeOK /\ Mine \in Buf /\ block[Mine] \in Blocks
    BY Known, Running DEF DataInv, DoRequest, NoBuffer
  <1>00. PICK c \in Task : c = current /\ buf[c] = Mine
    BY Known
  <1>1. /\ Moves("io") /\ pc'[c] = "io" /\ pc[c] = "request"
        /\ UNCHANGED <<holder, doing, slept, valid, dirty, block, buf, data>>
    BY <1>0, <1>00 DEF DoRequest, Moves, TypeOK
  <1>2. (Knows(c)' <=> Knows(c)) /\ (Reading(c)' <=> Reading(c)) /\ ~Has(c)'
    BY <1>1 DEF Knows, Reading, Writing, Waits, Has
  <1>3. Learns(c, "io")
    BY <1>1, <1>00, <1>2, Known DEF Learns
  <1>4. CASE doing[c] = "bread"
    <2>1. Same /\ ~ToWrite(c)
      BY <1>1, <1>00, <1>4 DEF DoRequest, Same, ToWrite
    <2> QED
      BY <1>2, <1>3, <2>1, SameKept
  <1>5. CASE doing[c] # "bread"
    <2>1. /\ disk' = [disk EXCEPT ![block[Mine]] = data[Mine]] /\ disk'[block[Mine]] = data[Mine]
          /\ valid[Mine]
      BY <1>0, <1>1, <1>00, <1>5, Known DEF DoRequest, TypeOK, Knows, Writing, Waits
    <2>2. ASSUME ~slept', NEW b \in Buf, b # Mine, block[b] \in Blocks
          PROVE  disk'[block[b]] = disk[block[b]]
      <3>1. block[b] # block[Mine]
        BY <1>0, <1>1, <2>2, Basics DEF DataInv, CacheInv, OneBufferPerBlock
      <3> QED
        BY <1>0, <2>1, <2>2, <3>1 DEF TypeOK
    <2>3. ASSUME ~slept' PROVE Spares(c)
      <3>1. ASSUME NEW t \in Task \ {c}, Has(t) PROVE data'[buf[t]] = disk'[block'[buf[t]]]
        <4>1. data[buf[t]] = disk[block[buf[t]]]
          BY <1>1, <2>3, <3>1 DEF DataInv, ReadersRight
        <4>2. buf[t] \in Buf /\ buf[t] # Mine /\ block[buf[t]] \in Blocks
          BY <2>1, <1>00, <3>1, Known DEF Has
        <4> QED
          BY <1>1, <2>2, <2>3, <4>1, <4>2
      <3>2. ASSUME NEW b \in Buf, Differs(b)', dirty'[b]
            PROVE  Differs(b) /\ dirty[b] /\ buf[c] # b
        <4>1. b # Mine
          BY <1>1, <2>1, <3>2 DEF Differs
        <4>2. block[b] \in Blocks
          BY <1>0, <1>1, <3>2 DEF Differs, TypeOK
        <4> QED
          BY <1>1, <1>00, <2>2, <2>3, <3>2, <4>1, <4>2 DEF Differs
      <3> QED
        BY <1>2, <3>1, <3>2 DEF Spares
    <2> QED
      BY <1>3, <2>3, ContentsRight
  <1> QED
    BY <1>4, <1>5

\* The data of a read arrives.
LEMMA TransferData ==
    ASSUME DataInv, Transferred
    PROVE  KnowersRight' /\ (~slept' => ReadersRight' /\ WritersRight')
  <1> USE DEF At, Goto, bufferVars, lockVars, taskVars, Places
  <1>0. TypeOK /\ Mine \in Buf /\ block[Mine] \in Blocks
    BY Known, Running DEF DataInv, Transferred, NoBuffer
  <1>00. PICK c \in Task : c = current /\ buf[c] = Mine
    BY Known
  <1>1. /\ Moves("served") /\ pc'[c] = "served" /\ pc[c] = "io"
        /\ UNCHANGED <<holder, doing, slept, valid, dirty, block, buf, disk>>
    BY <1>0, <1>00 DEF Transferred, Moves, TypeOK
  <1>2. (Knows(c)' <=> Knows(c)) /\ (Reading(c)' <=> Reading(c)) /\ ~ToWrite(c) /\ (Has(c)' => Reading(c))
    BY <1>1 DEF Knows, Reading, Writing, Waits, Has, ToWrite
  <1>3. Learns(c, "served")
    BY <1>1, <1>00, <1>2, Known DEF Learns
  <1>4. CASE doing[c] # "bread"
    <2>1. Same /\ ~Has(c)'
      BY <1>1, <1>2, <1>00, <1>4 DEF Transferred, Same, Reading
    <2> QED
      BY <1>2, <1>3, <2>1, SameKept
  <1>5. CASE doing[c] = "bread"
    <2>1. /\ Reading(c) /\ ~valid[Mine] /\ holder[Mine] = c
      BY <1>1, <1>00, <1>5, Known DEF Reading, Waits
    <2>2. /\ data'[Mine] = disk[block[Mine]]
          /\ \A b \in Buf : b # Mine => data'[b] = data[b]
      BY <1>0, <1>00, <1>5 DEF Transferred, TypeOK
    <2>3. ASSUME ~slept' PROVE Spares(c)
      <3>1. ASSUME NEW t \in Task \ {c}, Has(t) PROVE data'[buf[t]] = disk'[block'[buf[t]]]
        <4>1. data[buf[t]] = disk[block[buf[t]]]
          BY <1>1, <2>3, <3>1 DEF DataInv, ReadersRight
        <4>2. buf[t] \in Buf /\ buf[t] # Mine
          BY <2>1, <1>00, <3>1, Known DEF Has
        <4> QED
          BY <1>1, <2>2, <4>1, <4>2
      <3>2. ASSUME NEW b \in Buf, Differs(b)', dirty'[b]
            PROVE  Differs(b) /\ dirty[b]
        BY <1>1, <2>1, <2>2, <3>2 DEF Differs
      <3> QED
        BY <1>1, <1>2, <1>00, <2>2, <3>1, <3>2 DEF Spares
    <2> QED
      BY <1>3, <2>3, ContentsRight
  <1> QED
    BY <1>4, <1>5

\* The block that has been read becomes valid.
LEMMA ReadData ==
    ASSUME DataInv, ReadDone
    PROVE  /\ ~valid[Mine] /\ KnowersRight' /\ (~slept' => ReadersRight' /\ WritersRight')
           /\ ~slept => data[Mine] = disk[block[Mine]]
  <1> USE DEF At, Goto, bufferVars, lockVars, taskVars, Places
  <1>0. TypeOK /\ Mine \in Buf /\ block[Mine] \in Blocks
    BY Known, Running DEF DataInv, ReadDone, NoBuffer
  <1>00. PICK c \in Task : c = current /\ buf[c] = Mine /\ Has(c) /\ Reading(c) /\ ~ToWrite(c)
    BY Known DEF ReadDone, Reading, Waits, Has, ToWrite
  <1>1. /\ Moves("locked") /\ pc'[c] = "locked"
        /\ UNCHANGED <<holder, doing, slept, disk, block, buf, data>>
        /\ valid' = [valid EXCEPT ![Mine] = TRUE] /\ dirty' = [dirty EXCEPT ![Mine] = FALSE]
    BY <1>0, <1>00 DEF ReadDone, Clean, Validate, Moves, TypeOK
  <1>2. holder[Mine] = c /\ ~valid[Mine] /\ (~slept => data[Mine] = disk[block[Mine]])
    BY <1>00, Known
  <1>3. ~Knows(c)' /\ ~Reading(c)' /\ ~Has(c)'
    BY <1>1 DEF Knows, Reading, Writing, Waits, Has
  <1>4. Learns(c, "locked")
    <2>1. \A t \in Task \ {c} : Knows(t) => valid'[buf[t]]
      BY <1>0, <1>1, <1>00, Known DEF TypeOK
    <2>2. ASSUME NEW t \in Task \ {c}, Reading(t)
          PROVE  holder'[buf[t]] = t /\ ~valid'[buf[t]]
      <3>1. holder[buf[t]] = t /\ ~valid[buf[t]] /\ buf[t] \in Buf
        BY <1>00, <2>2, Known
      <3>2. buf[t] # Mine
        BY <1>2, <3>1
      <3> QED
        BY <1>0, <1>1, <3>1, <3>2 DEF TypeOK
    <2> QED
      BY <1>1, <1>2, <1>00, <1>3, <2>1, <2>2 DEF Learns
  <1>5. ASSUME ~slept' PROVE Spares(c)
    <2>1. ASSUME NEW t \in Task \ {c}, Has(t) PROVE data'[buf[t]] = disk'[block'[buf[t]]]
      BY <1>1, <1>5, <2>1 DEF DataInv, ReadersRight
    <2>2. ASSUME NEW b \in Buf, Differs(b)', dirty'[b]
          PROVE  Differs(b) /\ dirty[b]
      <3>1. b # Mine
        BY <1>0, <1>1, <2>2 DEF TypeOK
      <3> QED
        BY <1>0, <1>1, <2>2, <3>1 DEF Differs, TypeOK
    <2> QED
      BY <1>00, <1>3, <2>1, <2>2 DEF Spares
  <1> QED
    BY <1>2, <1>4, <1>5, ContentsRight
-----------------------------------------------------------------------------
\* The steps that change contents, blocks or the disk.
Changes ==
    \/ Modify \/ DoRequest \/ Transferred \/ ReadDone
    \/ \E g \in Buf : Given(g) /\ pc[current] \in {"getblk", "waitbuf"}

LEMMA DataStep ==
    ASSUME DataInv, [StaleNext]_vars
    PROVE  DataInv' /\ (Same \/ Changes)
  <1>1. CacheInv'
    BY Step DEF DataInv
  <1>2. CASE UNCHANGED vars
    <2>1. Same /\ KnowersRight' /\ (~slept' => ReadersRight' /\ WritersRight')
      BY <1>2 DEF vars, dispatchVars, deviceVars, bufferVars, lockVars, taskVars, DataInv,
          KnowersRight, Knows, Reading, Writing, Waits, ReadersRight, Has, WritersRight,
          ToWrite, Differs, Same
    <2> QED
      BY <1>1, <2>1 DEF DataInv
  <1>3. CASE StaleNext
    <2>1. CASE GetblkMiss \/ GetblkResume
      <3>1. pc[current] \in {"getblk", "waitbuf"}
        BY <2>1 DEF GetblkMiss, GetblkResume, At
      <3>2. CASE Sleeps
        BY <1>1, <3>1, <3>2, PlainSteps DEF DataInv
      <3>3. CASE \E g \in Buf : Given(g)
        BY <1>1, <3>1, <3>3, GivenData DEF DataInv, Changes
      <3> QED
        BY <2>1, <3>2, <3>3, Search DEF DataInv
    <2>2. CASE \/ Bread \/ BreadReturn \/ BrelseClean \/ WriteDone
               \/ DeviceInterrupt \/ StaleTimeout \/ Preempt
      BY <1>1, <2>2, PlainSteps DEF DataInv
    <2>3. CASE BreadLock \/ BreadSkip \/ GetblkHit \/ Release
      BY <1>1, <2>3, LockData, HandData DEF DataInv
    <2>4. CASE BreadRead \/ Write \/ DoRequestWait
      BY <1>1, <2>4, RequestData DEF DataInv
    <2>5. CASE Modify \/ DoRequest \/ Transferred \/ ReadDone
      BY <1>1, <2>5, ModifyData, CommandData, TransferData, ReadData DEF DataInv, Changes
    <2>6. CASE Crashed
      BY <1>2, <2>6 DEF Crashed
    <2> QED
      BY <1>3, <2>1, <2>2, <2>3, <2>4, <2>5, <2>6 DEF StaleNext, Next
  <1> QED
    BY <1>2, <1>3

LEMMA DataInvariant == StaleSpec => []DataInv
  <1>1. Init => DataInv
    <2> SUFFICES ASSUME Init PROVE KnowersRight /\ ReadersRight /\ WritersRight
      BY Initially DEF DataInv
    <2> QED
      BY DEF Init, KnowersRight, Knows, Reading, Writing, Waits, ReadersRight, Has,
             WritersRight, Differs
  <1>2. DataInv /\ [StaleNext]_vars => DataInv'
    BY DataStep
  <1> QED
    BY <1>1, <1>2, PTL DEF StaleSpec

\* Once a getblk has slept, slept stays.
LEMMA SleptStays ==
    ASSUME [StaleNext]_vars
    PROVE  slept => slept'
  <1> USE DEF bufferVars, taskVars
  <1>1. CASE StaleNext
    <2>1. CASE GetblkMiss \/ GetblkResume
      BY <2>1 DEF GetblkMiss, GetblkResume, GetFreeBuffer, Assign
    <2>2. CASE Bread \/ GetblkHit \/ BreadLock \/ BreadRead \/ BreadSkip \/ BreadReturn
      BY <2>2 DEF Bread, GetblkHit, BreadLock, BreadRead, Request, BreadSkip, BreadReturn
    <2>3. CASE DoRequest \/ DoRequestWait \/ Transferred \/ ReadDone \/ WriteDone \/ Crashed
      BY <2>3 DEF DoRequest, DoRequestWait, Transferred, ReadDone, WriteDone, Crashed, vars
    <2>4. CASE Modify \/ Write \/ BrelseClean \/ Release
      BY <2>4 DEF Modify, Write, Request, BrelseClean, Release
    <2>5. CASE DeviceInterrupt \/ StaleTimeout \/ Preempt
      BY <2>5 DEF DeviceInterrupt, StaleTimeout, Preempt
    <2> QED
      BY <1>1, <2>1, <2>2, <2>3, <2>4, <2>5 DEF StaleNext, Next
  <1>2. CASE UNCHANGED vars
    BY <1>2 DEF vars
  <1> QED
    BY <1>1, <1>2

\* Contents(n) for the values bl, va, da and di of the variables.
Content(bl, va, da, di, n) ==
    IF \E b \in Buf : bl[b] = n /\ va[b]
    THEN da[CHOOSE b \in Buf : bl[b] = n /\ va[b]] ELSE di[n]

LEMMA ContentsAre ==
    ASSUME NEW n
    PROVE  /\ Contents(n) = Content(block, valid, data, disk, n)
           /\ Contents(n)' = Content(block', valid', data', disk', n)
  BY DEF Contents, Content

LEMMA OneContent ==
    ASSUME NEW bl, NEW va, NEW da, NEW di, NEW n,
           \A b, c \in Buf : bl[b] = n /\ bl[c] = n => b = c
    PROVE  /\ \A b \in Buf : bl[b] = n =>
                Content(bl, va, da, di, n) = IF va[b] THEN da[b] ELSE di[n]
           /\ (\A b \in Buf : bl[b] # n) => Content(bl, va, da, di, n) = di[n]
  <1>1. ASSUME NEW b \in Buf, bl[b] = n, va[b]
        PROVE  Content(bl, va, da, di, n) = da[b]
    <2>1. (CHOOSE c \in Buf : bl[c] = n /\ va[c]) = b
      BY <1>1
    <2> QED
      BY <1>1, <2>1 DEF Content
  <1>2. ASSUME NEW b \in Buf, bl[b] = n, ~va[b]
        PROVE  Content(bl, va, da, di, n) = di[n]
    BY <1>2 DEF Content
  <1>3. (\A b \in Buf : bl[b] # n) => Content(bl, va, da, di, n) = di[n]
    BY DEF Content
  <1> QED
    BY <1>1, <1>2, <1>3

\* What each of those steps does to the contents.
LEMMA DoneContents ==
    ASSUME DataInv, DoRequest \/ Transferred \/ ReadDone, ~slept
    PROVE  /\ block' = block /\ Mine \in Buf /\ block[Mine] \in Blocks
           /\ \A b \in Buf : b # Mine => valid'[b] = valid[b] /\ data'[b] = data[b]
           /\ \A n \in Blocks : n # block[Mine] => disk'[n] = disk[n]
           /\ IF valid[Mine] THEN valid'[Mine] /\ data'[Mine] = data[Mine]
              ELSE /\ disk'[block[Mine]] = disk[block[Mine]]
                   /\ valid'[Mine] => data'[Mine] = disk[block[Mine]]
           /\ valid[Mine] => disk'[block[Mine]] \in {disk[block[Mine]], data[Mine]}
  <1> USE DEF At, bufferVars
  <1>0. /\ TypeOK /\ Mine \in Buf /\ block[Mine] \in Blocks /\ current \in Task
        /\ Mine = buf[current]
    BY Known, Running DEF DataInv, DoRequest, Transferred, ReadDone, NoBuffer
  <1>1. CASE ReadDone
    BY <1>0, <1>1, ReadData DEF ReadDone, Validate, TypeOK
  <1>2. CASE Transferred
    <2>1. doing[current] = "bread" => ~valid[Mine]
      BY <1>0, <1>2, Known DEF Transferred, Reading, Waits
    <2>2. block' = block /\ valid' = valid /\ disk' = disk
      BY <1>2 DEF Transferred
    <2>3. CASE doing[current] = "bread"
      BY <1>0, <1>2, <2>1, <2>2, <2>3 DEF Transferred, TypeOK
    <2>4. CASE doing[current] # "bread"
      <3>1. data' = data
        BY <1>2, <2>4 DEF Transferred
      <3>2. valid[Mine]
        BY <1>0, <1>2, <2>4, Known DEF Transferred, Knows, Writing, Waits
      <3> QED
        BY <1>0, <2>2, <3>1, <3>2
    <2> QED
      BY <2>3, <2>4
  <1>3. CASE DoRequest
    <2>1. block' = block /\ valid' = valid /\ data' = data
      BY <1>3 DEF DoRequest
    <2>2. CASE doing[current] = "bread"
      <3>1. disk' = disk /\ ~valid[Mine]
        BY <1>0, <1>3, <2>2, Known DEF DoRequest, Reading, Waits
      <3> QED
        BY <1>0, <2>1, <3>1
    <2>3. CASE doing[current] # "bread"
      <3>1. disk' = [disk EXCEPT ![block[Mine]] = data[Mine]] /\ valid[Mine]
        BY <1>0, <1>3, <2>3, Known DEF DoRequest, Knows, Writing, Waits
      <3> QED
        BY <1>0, <2>1, <3>1 DEF TypeOK
    <2> QED
      BY <2>2, <2>3
  <1> QED
    BY <1>1, <1>2, <1>3

LEMMA ContentsStay ==
    ASSUME DataInv, DataInv', ~slept, ~slept', Same \/ Changes, NEW n \in Blocks
    PROVE  \/ Contents(n)' = Contents(n)
           \/ At("hold") /\ n = block[Mine] /\ dirty'[Mine]
           \/ \E b \in Forgotten : block[b] = n /\ block'[b] # n
  <1> DEFINE old == Content(block, valid, data, disk, n)
             new == Content(block', valid', data', disk', n)
  <1>0. /\ TypeOK /\ OneBufferPerBlock' /\ n # Unused
        /\ Contents(n) = old /\ Contents(n)' = new
    BY Known, ContentsAre, Basics DEF DataInv, CacheInv
  <1>1. CASE Same
    BY <1>0, <1>1 DEF Same
  <1>2. /\ \A b \in Buf : block[b] = n => old = IF valid[b] THEN data[b] ELSE disk[n]
        /\ (\A b \in Buf : block[b] # n) => old = disk[n]
        /\ \A b, c \in Buf : block[b] = n /\ block[c] = n => b = c
    <2>1. \A b, c \in Buf : block[b] = n /\ block[c] = n => b = c
      BY <1>0 DEF DataInv, CacheInv, OneBufferPerBlock
    <2> QED
      BY <2>1, OneContent
  <1>3. /\ \A b \in Buf : block'[b] = n => new = IF valid'[b] THEN data'[b] ELSE disk'[n]
        /\ (\A b \in Buf : block'[b] # n) => new = disk'[n]
    <2>1. \A b, c \in Buf : block'[b] = n /\ block'[c] = n => b = c
      BY <1>0 DEF OneBufferPerBlock
    <2> QED
      BY <2>1, OneContent
  <1> HIDE DEF old, new
  \* The buffer of the block stays, if it has one.
  <1>4. ASSUME block' = block, NEW b \in Buf, block[b] = n,
               valid'[b] = valid[b], data'[b] = data[b], disk'[n] = disk[n]
        PROVE  new = old
    BY <1>2, <1>3, <1>4
  <1>5. ASSUME block' = block, \A b \in Buf : block[b] # n, disk'[n] = disk[n]
        PROVE  new = old
    BY <1>2, <1>3, <1>5
  <1>6. CASE Modify
    <2>1. /\ Mine \in Buf /\ block' = block /\ valid' = valid /\ disk' = disk /\ At("hold")
          /\ \A b \in Buf : b # Mine => data'[b] = data[b]
          /\ dirty'[Mine]
      BY <1>0, <1>6, Running DEF Modify, DataInv, NoBuffer, At, TypeOK
    <2>2. CASE block[Mine] = n
      BY <2>1, <2>2
    <2>3. CASE block[Mine] # n
      <3>1. CASE \E b \in Buf : block[b] = n
        BY <1>0, <1>4, <2>1, <2>3, <3>1
      <3>2. CASE \A b \in Buf : block[b] # n
        BY <1>0, <1>5, <2>1, <3>2
      <3> QED
        BY <3>1, <3>2
    <2> QED
      BY <2>2, <2>3
  <1>7. CASE DoRequest \/ Transferred \/ ReadDone
    <2>1. CASE block[Mine] = n
      BY <1>0, <1>2, <1>3, <1>7, <2>1, DoneContents
    <2>2. CASE block[Mine] # n
      <3>1. CASE \E b \in Buf : block[b] = n
        BY <1>0, <1>4, <1>7, <2>2, <3>1, DoneContents
      <3>2. CASE \A b \in Buf : block[b] # n
        BY <1>0, <1>5, <1>7, <2>2, <3>2, DoneContents
      <3> QED
        BY <3>1, <3>2
    <2> QED
      BY <2>1, <2>2
  <1>8. ASSUME NEW g \in Buf, Given(g)
        PROVE  Contents(n)' = Contents(n) \/ \E b \in Forgotten : block[b] = n /\ block'[b] # n
    <2>1. /\ disk' = disk /\ data' = data
          /\ valid' = [valid EXCEPT ![g] = FALSE]
          /\ block' = [block EXCEPT ![g] = want[current]]
          /\ \A b \in Buf : block[b] # want[current]
      BY <1>8 DEF Given, Assign, Cached
    <2>2. block'[g] = want[current] /\ ~valid'[g]
          /\ \A b \in Buf : b # g => block'[b] = block[b] /\ valid'[b] = valid[b]
      BY <1>0, <1>8, <2>1 DEF TypeOK
    <2>3. CASE n = want[current]
      BY <1>0, <1>2, <1>3, <1>8, <2>1, <2>2, <2>3
    <2>4. CASE n # want[current] /\ block[g] = n
      <3>1. ~dirty[g]
        BY <1>8 DEF Given, DataInv, CacheInv, FreeIsClean
      <3>2. \A b \in Buf : block[b] = n => b = g
        BY <1>2, <2>4
      <3>3. new = disk[n]
        BY <1>3, <2>1, <2>2, <2>4, <3>2
      <3>4. CASE valid[g] /\ data[g] # disk[n]
        <4>1. g \in Forgotten /\ block'[g] # n
          BY <1>0, <2>2, <2>4, <3>1, <3>4 DEF Forgotten
        <4> QED
          BY <2>4, <4>1
      <3>5. CASE valid[g] => data[g] = disk[n]
        BY <1>0, <1>2, <1>8, <2>4, <3>3, <3>5
      <3> QED
        BY <3>4, <3>5
    <2>5. CASE n # want[current] /\ block[g] # n
      <3>1. \A b \in Buf : block'[b] = n <=> block[b] = n /\ b # g
        BY <2>2, <2>5
      <3>2. CASE \E b \in Buf : block[b] = n
        <4>1. PICK b \in Buf : block[b] = n
          BY <3>2
        <4>2. b # g /\ block'[b] = n /\ valid'[b] = valid[b]
          BY <2>2, <2>5, <4>1
        <4>3. old = IF valid[b] THEN data[b] ELSE disk[n]
          BY <1>2, <4>1
        <4>4. new = IF valid'[b] THEN data'[b] ELSE disk'[n]
          BY <1>3, <4>2
        <4> QED
          BY <1>0, <2>1, <4>2, <4>3, <4>4
      <3>3. CASE \A b \in Buf : block[b] # n
        BY <1>0, <1>2, <1>3, <2>1, <3>1, <3>3
      <3> QED
        BY <3>2, <3>3
    <2> QED
      BY <2>3, <2>4, <2>5
  <1> QED
    BY <1>1, <1>6, <1>7, <1>8 DEF Changes

\* A buffer that becomes one that is clean and differs from its block.
LEMMA ForgetStep ==
    ASSUME DataInv, ~slept, ~slept', Same \/ Changes, NEW b \in Forgotten' \ Forgotten
    PROVE  /\ Mine = b /\ pc[current] \in {"unlocked", "served"}
           /\ \E t \in Task \ {current} : buf[t] = b /\ pc[t] \in {"hold", "request"}
  <1>0. /\ TypeOK /\ b \in Buf /\ WritersRight /\ Differs(b)' /\ ~dirty'[b]
        /\ ~(Differs(b) /\ ~dirty[b]) /\ Mine = buf[current]
    BY Known DEF Forgotten, Differs, DataInv
  <1>1. CASE Same
    <2>1. Differs(b) /\ dirty[b]
      BY <1>0, <1>1 DEF Same, Differs
    <2>2. b = Mine /\ pc[current] \in {"unlocked", "served"}
      BY <1>0, <1>1, <2>1 DEF Same, At
    <2>3. PICK t \in Task : buf[t] = b /\ ToWrite(t)
      BY <1>0, <2>1 DEF WritersRight
    <2> QED
      BY <2>2, <2>3 DEF ToWrite
  <1>2. CASE Modify
    BY <1>0, <1>2 DEF Modify, Differs, TypeOK
  <1>3. CASE DoRequest \/ Transferred \/ ReadDone
    <2>1. /\ block[b] \in Blocks /\ (b # Mine => block[b] # block[Mine])
      BY <1>0, <1>3, DoneContents, Basics DEF Differs, TypeOK, DataInv, CacheInv, OneBufferPerBlock
    <2>2. b # Mine => dirty'[b] = dirty[b]
      BY <1>0, <1>3 DEF DoRequest, Transferred, ReadDone, Clean, TypeOK, bufferVars
    <2>3. CASE b # Mine
      BY <1>0, <1>3, <2>1, <2>2, <2>3, DoneContents DEF Differs
    <2>4. CASE b = Mine
      <3>1. CASE ~valid[Mine]
        BY <1>0, <1>3, <2>4, <3>1, DoneContents DEF Differs
      <3>2. CASE valid[Mine]
        <4>1. ~ReadDone
          BY <3>2, ReadData
        <4>2. dirty' = dirty
          BY <1>3, <4>1 DEF DoRequest, Transferred, bufferVars
        <4> QED
          BY <1>0, <1>3, <2>4, <3>2, <4>2, DoneContents DEF Differs
      <3> QED
        BY <3>1, <3>2
    <2> QED
      BY <2>3, <2>4
  <1>4. ASSUME NEW g \in Buf, Given(g) PROVE FALSE
    <2>1. b # g
      BY <1>0, <1>4 DEF Given, Assign, Differs, TypeOK
    <2> QED
      BY <1>0, <1>4, <2>1 DEF Given, Assign, Differs, TypeOK
  <1> QED
    BY <1>1, <1>2, <1>3, <1>4 DEF Changes

\* What readers find in a block changes when a task modifies it and marks it
\* dirty, or when a forgotten buffer is given to another block, and a buffer
\* becomes a forgotten one only when a task marks it clean at the end of its
\* bread or bwrite while another has it, as long as no getblk has slept after
\* its search (bread, bwrite, brelse, getblk, buffer.c:108-219).
THEOREM Kept == StaleSpec => ContentsKept
  <1> DEFINE Act == ~slept' => ChangesKept /\ ForgottenInRaces
  <1>1. DataInv /\ [StaleNext]_vars => [Act]_vars
    <2> SUFFICES ASSUME DataInv, [StaleNext]_vars, ~slept'
                 PROVE  ChangesKept /\ ForgottenInRaces
      OBVIOUS
    <2>1. /\ ~slept /\ DataInv'
          /\ Same \/ Changes
      BY SleptStays, DataStep
    <2>2. ChangesKept
      BY <2>1, ContentsStay DEF ChangesKept
    <2>3. ForgottenInRaces
      BY <2>1, ForgetStep DEF ForgottenInRaces
    <2> QED
      BY <2>2, <2>3
  <1> QED
    BY <1>1, DataInvariant, PTL DEF StaleSpec, ContentsKept
=============================================================================
