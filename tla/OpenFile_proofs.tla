--------------------------- MODULE OpenFile_proofs ---------------------------
(***************************************************************************)
(* The counts of files and inodes, for any number of tasks, descriptors,   *)
(* files and inodes, and what follows for descriptors and offsets.         *)
(***************************************************************************)
EXTENDS OpenFile, FiniteSetTheorems, WellFoundedInduction, TLAPS

\* What the locals of a suspended call are, and the descriptor it closes.
CallRight(t) ==
    LET c == call[t]
    IN  /\ c.op = "none" => c = NoCall
        /\ c.op = "open" => c.fd = None /\ c.inode # None
        /\ c.op = "transfer" => c.fd # None /\ c.inode = None /\ fd[t][c.fd] # None
        /\ c.op = "close" => c.inode # None
        /\ c.op = "dup2" => c.fd # None /\ (c.inode = None => fd[t][c.fd] = None)
        /\ c.op = "exit" => (c.inode = None <=> c.fd = None)
        /\ c.inode # None /\ c.fd # None => fd[t][c.fd] # None

CallsRight == \A t \in Task : CallRight(t)

DeadHasNothing ==
    \A t \in Task \ live : call[t] = NoCall /\ \A d \in Fd : fd[t][d] = None

FileRight(f) == IF file[f].count = 0 THEN file[f] = NoFile ELSE file[f].inode # None
FilesRight == \A f \in File : FileRight(f)

\* The inductive invariant.
OpenInv ==
    /\ TypeOK /\ CallsRight /\ DeadHasNothing /\ FilesRight
    /\ FilesCounted /\ InodesCounted

\* What the counts count.
Refers(t, d, f) == Holds(t, d) /\ fd[t][d] = f
Held(f) == {p \in Task \X Fd : Refers(p[1], p[2], f)}
IsOn(f, m) == file[f].count > 0 /\ file[f].inode = m
FilesOn(m) == {f \in File : IsOn(f, m)}
CallsOn(m) == {t \in Task : call[t].inode = m}
-----------------------------------------------------------------------------
LEMMA Numbers ==
    /\ NTask \in Nat /\ NFd \in Nat /\ NFile \in Nat /\ NMem \in Nat
    /\ Std \in Nat /\ MaxOffset \in Nat
    /\ 0 < NTask /\ 0 < NFd /\ 0 < NFile /\ 0 < NMem /\ Std < NFd /\ Std < NFile
    /\ 0 < Std
    /\ None \notin Fd /\ None \notin File /\ None \notin Mem
    /\ 1 \in Task /\ 1 \in Mem
  <1>1. /\ NTask \in Nat /\ NFd \in Nat /\ NFile \in Nat /\ NMem \in Nat
        /\ Std \in Nat /\ MaxOffset \in Nat
        /\ 0 < NTask /\ 0 < NFd /\ 0 < NFile /\ 0 < NMem /\ 0 < Std
        /\ Std < NFd /\ Std < NFile
    BY OpenFileAssumption
  <1> QED
    BY <1>1 DEF None, Fd, File, Mem, Task

LEMMA Finite ==
    /\ \A S \in SUBSET (Task \X Fd) : IsFiniteSet(S)
    /\ \A S \in SUBSET File : IsFiniteSet(S)
    /\ \A S \in SUBSET Task : IsFiniteSet(S)
    /\ \A S \in SUBSET Fd : IsFiniteSet(S)
  <1>1. IsFiniteSet(Task) /\ IsFiniteSet(Fd) /\ IsFiniteSet(File)
    <2>1. 0 \in Int /\ 1 \in Int /\ NTask \in Int /\ NFd - 1 \in Int /\ NFile - 1 \in Int
      BY Numbers
    <2> QED
      BY <2>1, FS_Interval DEF Task, Fd, File
  <1>2. IsFiniteSet(Task \X Fd)
    BY <1>1, FS_Product
  <1> QED
    BY <1>1, <1>2, FS_Subset

\* A set of numbers that is not empty has a least element.
LEMMA LeastNumber ==
    ASSUME NEW S \in SUBSET Nat, S # {}
    PROVE  Least(S) \in S
  <1>1. PICK x \in S : \A y \in S : ~(<<y, x>> \in OpToRel(<, Nat))
    BY NatLessThanWellFounded, WFMin
  <1>2. \A y \in S : ~(y < x)
    BY <1>1 DEF OpToRel
  <1>3. \E z \in S : \A y \in S : z <= y
    BY <1>2
  <1> QED
    BY <1>3 DEF Least
-----------------------------------------------------------------------------
\* The descriptors of a file are the same, one more or one less.
LEMMA HeldSame ==
    ASSUME NEW f,
           \A t \in Task, d \in Fd : Refers(t, d, f)' <=> Refers(t, d, f)
    PROVE  Held(f)' = Held(f)
  BY DEF Held

LEMMA HeldMore ==
    ASSUME NEW f, NEW a \in Task, NEW b \in Fd, ~Refers(a, b, f),
           \A t \in Task, d \in Fd :
               Refers(t, d, f)' <=> Refers(t, d, f) \/ (t = a /\ d = b)
    PROVE  Cardinality(Held(f)') = Cardinality(Held(f)) + 1
  <1>1. Held(f)' = Held(f) \cup {<<a, b>>} /\ <<a, b>> \notin Held(f)
    BY DEF Held
  <1>2. IsFiniteSet(Held(f))
    BY Finite DEF Held
  <1> QED
    BY <1>1, <1>2, FS_AddElement

LEMMA HeldLess ==
    ASSUME NEW f, NEW a \in Task, NEW b \in Fd, Refers(a, b, f),
           \A t \in Task, d \in Fd :
               Refers(t, d, f)' <=> Refers(t, d, f) /\ ~(t = a /\ d = b)
    PROVE  Cardinality(Held(f)') = Cardinality(Held(f)) - 1
  <1>1. Held(f)' = Held(f) \ {<<a, b>>} /\ <<a, b>> \in Held(f)
    BY DEF Held
  <1>2. IsFiniteSet(Held(f))
    BY Finite DEF Held
  <1> QED
    BY <1>1, <1>2, FS_RemoveElement

\* The open files on an inode, and the calls that have it.
LEMMA FilesOnSame ==
    ASSUME NEW m, \A f \in File : IsOn(f, m)' <=> IsOn(f, m)
    PROVE  Cardinality(FilesOn(m)') = Cardinality(FilesOn(m))
  <1>1. FilesOn(m)' = FilesOn(m)
    BY DEF FilesOn
  <1> QED
    BY <1>1

LEMMA FilesOnMore ==
    ASSUME NEW m, NEW g \in File, ~IsOn(g, m),
           \A f \in File : IsOn(f, m)' <=> IsOn(f, m) \/ f = g
    PROVE  Cardinality(FilesOn(m)') = Cardinality(FilesOn(m)) + 1
  <1>1. FilesOn(m)' = FilesOn(m) \cup {g} /\ g \notin FilesOn(m)
    BY DEF FilesOn
  <1>2. IsFiniteSet(FilesOn(m))
    BY Finite DEF FilesOn
  <1> QED
    BY <1>1, <1>2, FS_AddElement

LEMMA FilesOnLess ==
    ASSUME NEW m, NEW g \in File, IsOn(g, m),
           \A f \in File : IsOn(f, m)' <=> IsOn(f, m) /\ f # g
    PROVE  Cardinality(FilesOn(m)') = Cardinality(FilesOn(m)) - 1
  <1>1. FilesOn(m)' = FilesOn(m) \ {g} /\ g \in FilesOn(m)
    BY DEF FilesOn
  <1>2. IsFiniteSet(FilesOn(m))
    BY Finite DEF FilesOn
  <1> QED
    BY <1>1, <1>2, FS_RemoveElement

LEMMA CallsOnSame ==
    ASSUME NEW m, \A t \in Task : call'[t].inode = m <=> call[t].inode = m
    PROVE  Cardinality(CallsOn(m)') = Cardinality(CallsOn(m))
  <1>1. CallsOn(m)' = CallsOn(m)
    BY DEF CallsOn
  <1> QED
    BY <1>1

LEMMA CallsOnMore ==
    ASSUME NEW m, NEW a \in Task, call[a].inode # m,
           \A t \in Task : call'[t].inode = m <=> call[t].inode = m \/ t = a
    PROVE  Cardinality(CallsOn(m)') = Cardinality(CallsOn(m)) + 1
  <1>1. CallsOn(m)' = CallsOn(m) \cup {a} /\ a \notin CallsOn(m)
    BY DEF CallsOn
  <1>2. IsFiniteSet(CallsOn(m))
    BY Finite DEF CallsOn
  <1> QED
    BY <1>1, <1>2, FS_AddElement

LEMMA CallsOnLess ==
    ASSUME NEW m, NEW a \in Task, call[a].inode = m,
           \A t \in Task : call'[t].inode = m <=> call[t].inode = m /\ t # a
    PROVE  Cardinality(CallsOn(m)') = Cardinality(CallsOn(m)) - 1
  <1>1. CallsOn(m)' = CallsOn(m) \ {a} /\ a \in CallsOn(m)
    BY DEF CallsOn
  <1>2. IsFiniteSet(CallsOn(m))
    BY Finite DEF CallsOn
  <1> QED
    BY <1>1, <1>2, FS_RemoveElement

\* The invariant in these words.
LEMMA Counted ==
    /\ FilesCounted <=> \A f \in File : file[f].count = Cardinality(Held(f))
    /\ InodesCounted <=>
         \A m \in Mem :
            /\ inode[m].count = Cardinality(FilesOn(m)) + Cardinality(CallsOn(m))
            /\ inode[m].kind = "free" <=> inode[m].count = 0
    /\ \A f : Cardinality(Held(f)) \in Nat
    /\ \A m : Cardinality(FilesOn(m)) \in Nat /\ Cardinality(CallsOn(m)) \in Nat
  <1>1. /\ FilesCounted <=> \A f \in File : file[f].count = Cardinality(Held(f))
        /\ InodesCounted <=>
             \A m \in Mem :
                /\ inode[m].count = Cardinality(FilesOn(m)) + Cardinality(CallsOn(m))
                /\ inode[m].kind = "free" <=> inode[m].count = 0
    BY DEF FilesCounted, InodesCounted, Held, Refers, FilesOn, IsOn, CallsOn
  <1>2. \A f : IsFiniteSet(Held(f))
    BY Finite DEF Held
  <1>3. \A m : IsFiniteSet(FilesOn(m)) /\ IsFiniteSet(CallsOn(m))
    BY Finite DEF FilesOn, CallsOn
  <1> QED
    BY <1>1, <1>2, <1>3, FS_CardinalityType
LEMMA CountedNext ==
    /\ FilesCounted' <=> \A f \in File : file'[f].count = Cardinality(Held(f)')
    /\ InodesCounted' <=>
         \A m \in Mem :
            /\ inode'[m].count = Cardinality(FilesOn(m)') + Cardinality(CallsOn(m)')
            /\ inode'[m].kind = "free" <=> inode'[m].count = 0
  BY DEF FilesCounted, InodesCounted, Held, Refers, FilesOn, IsOn, CallsOn
-----------------------------------------------------------------------------
\* A task that holds a descriptor has an open file, and the file an inode.
LEMMA Holder ==
    ASSUME OpenInv, NEW t \in Task, NEW d \in Fd, Holds(t, d)
    PROVE  /\ fd[t][d] \in File /\ file[fd[t][d]].count \in Nat
           /\ file[fd[t][d]].count > 0
           /\ file[fd[t][d]].inode \in Mem
  <1>1. PICK f \in File : f = fd[t][d]
    BY DEF OpenInv, TypeOK, Holds
  <1>2. Held(f) # {} /\ IsFiniteSet(Held(f))
    <2>1. <<t, d>> \in Held(f)
      BY <1>1 DEF Held, Refers
    <2> QED
      BY <2>1, Finite DEF Held
  <1>3. file[f].count = Cardinality(Held(f)) /\ Cardinality(Held(f)) \in Nat
    BY Counted DEF OpenInv
  <1>4. file[f].count # 0
    BY <1>2, <1>3, FS_EmptySet
  <1>5. file[f].inode \in Mem
    BY <1>4, Numbers DEF OpenInv, TypeOK, FileRecord, FilesRight, FileRight
  <1> QED
    BY <1>1, <1>3, <1>4, <1>5

\* The holder of a file that is counted once is the only one.
LEMMA OnlyHolder ==
    ASSUME OpenInv, NEW f \in File, file[f].count = 1,
           NEW t \in Task, NEW d \in Fd, Refers(t, d, f),
           NEW u \in Task, NEW e \in Fd, Refers(u, e, f)
    PROVE  u = t /\ e = d
  <1>1. <<t, d>> \in Held(f) /\ <<u, e>> \in Held(f)
    BY DEF Held
  <1>2. IsFiniteSet(Held(f)) /\ Cardinality(Held(f)) = 1
    BY Finite, Counted DEF Held, OpenInv
  <1>3. PICK x : Held(f) = {x}
    BY <1>2, FS_Singleton
  <1> QED
    BY <1>1, <1>3

\* Nobody holds a free file, and nothing is open on a free inode.
LEMMA FreeFile ==
    ASSUME OpenInv, NEW f \in File, file[f].count = 0
    PROVE  \A t \in Task, d \in Fd : ~Refers(t, d, f)
  <1>1. IsFiniteSet(Held(f)) /\ Cardinality(Held(f)) = 0
    BY Finite, Counted DEF Held, OpenInv
  <1>2. Held(f) = {}
    BY <1>1, FS_EmptySet
  <1> SUFFICES ASSUME NEW t \in Task, NEW d \in Fd, Refers(t, d, f) PROVE FALSE
    OBVIOUS
  <1>3. <<t, d>> \in Held(f)
    BY DEF Held
  <1> QED
    BY <1>2, <1>3

LEMMA FreeOne ==
    ASSUME OpenInv, NEW m \in Mem, inode[m].kind = "free"
    PROVE  /\ inode[m].count = 0
           /\ \A f \in File : ~IsOn(f, m)
           /\ \A t \in Task : call[t].inode # m
  <1>1. /\ IsFiniteSet(FilesOn(m)) /\ IsFiniteSet(CallsOn(m))
        /\ inode[m].count = 0
        /\ Cardinality(FilesOn(m)) + Cardinality(CallsOn(m)) = 0
        /\ Cardinality(FilesOn(m)) \in Nat /\ Cardinality(CallsOn(m)) \in Nat
    BY Finite, Counted DEF FilesOn, CallsOn, OpenInv
  <1>2. Cardinality(FilesOn(m)) = 0 /\ Cardinality(CallsOn(m)) = 0
    BY <1>1
  <1>3. FilesOn(m) = {} /\ CallsOn(m) = {}
    BY <1>1, <1>2, FS_EmptySet
  <1> QED
    BY <1>1, <1>3 DEF FilesOn, CallsOn

\* The locals of a call.
LEMMA SuspendedRecord ==
    ASSUME NEW op \in {"none", "open", "transfer", "close", "dup2", "exit"},
           NEW d \in Fd \cup {None}, NEW m \in Mem \cup {None}
    PROVE  LET c == Suspended(op, d, m)
           IN  c \in Call /\ c.op = op /\ c.fd = d /\ c.inode = m /\ c.offset = 0
  <1>1. 0 \in Offset
    BY Numbers DEF Offset
  <1> QED
    BY <1>1 DEF Suspended, Call

LEMMA NoCallRecord ==
    /\ NoCall \in Call
    /\ NoCall.op = "none" /\ NoCall.fd = None /\ NoCall.inode = None
    /\ NoCall.offset = 0
  BY SuspendedRecord DEF NoCall

\* A task in user mode closes nothing.
LEMMA UserCall ==
    ASSUME OpenInv, NEW t \in Task, InUser(t)
    PROVE  t \in live /\ call[t] = NoCall /\ \A d \in Fd : ~Closing(t, d)
  BY NoCallRecord DEF OpenInv, CallsRight, CallRight, InUser, Closing

\* A step of task t that gives its call the locals c.
LEMMA CallStep ==
    ASSUME OpenInv, NEW t \in live, NEW c \in Call,
           call' = [call EXCEPT ![t] = c], CallRight(t)',
           \A u \in Task \ {t} : fd'[u] = fd[u], live' = live
    PROVE  CallsRight' /\ DeadHasNothing' /\ call' \in [Task -> Call]
           /\ \A u \in Task : call'[u] = IF u = t THEN c ELSE call[u]
  <1>1. /\ call' \in [Task -> Call] /\ t \in Task
        /\ \A u \in Task : call'[u] = IF u = t THEN c ELSE call[u]
    BY DEF OpenInv, TypeOK
  <1>2. CallsRight'
    <2> SUFFICES ASSUME NEW u \in Task, u # t PROVE CallRight(u)'
      BY DEF CallsRight
    <2>1. call'[u] = call[u] /\ fd'[u] = fd[u] /\ CallRight(u)
      BY <1>1 DEF OpenInv, CallsRight
    <2> QED
      BY <2>1 DEF CallRight
  <1>3. DeadHasNothing'
    BY <1>1 DEF OpenInv, DeadHasNothing
  <1> QED
    BY <1>1, <1>2, <1>3

\* When no descriptor begins or ends to be held, the files need no counting.
LEMMA HeldStands ==
    ASSUME OpenInv, \A f \in File : file'[f].count = file[f].count,
           \A t \in Task, d \in Fd : /\ Holds(t, d)' <=> Holds(t, d)
                                     /\ Holds(t, d) => fd'[t][d] = fd[t][d]
    PROVE  FilesCounted'
  <1>1. \A f \in File : Held(f)' = Held(f)
    BY HeldSame DEF Refers
  <1> QED
    BY <1>1, Counted, CountedNext DEF OpenInv

\* Nor the inodes, when no file and no call takes or leaves one.
LEMMA UsersStand ==
    ASSUME OpenInv, inode' = inode,
           \A f \in File, m \in Mem : IsOn(f, m)' <=> IsOn(f, m),
           \A t \in Task, m \in Mem : call'[t].inode = m <=> call[t].inode = m
    PROVE  InodesCounted'
  BY FilesOnSame, CallsOnSame, Counted, CountedNext DEF OpenInv
-----------------------------------------------------------------------------
LEMMA OpenStep ==
    ASSUME OpenInv, NEW t \in Task, Open(t)
    PROVE  OpenInv'
  <1>1. PICK n \in Number :
            LET known == {m \in Mem : inode[m].nr = n}
                m == Least(IF known # {} THEN known ELSE FreeInodes) IN
            /\ known \cup FreeInodes # {}
            /\ inode' = [inode EXCEPT ![m] = [kind |-> "regular", nr |-> n, count |-> @.count + 1]]
            /\ call' = [call EXCEPT ![t] = Suspended("open", None, m)]
    BY DEF Open
  <1>2. PICK m \in Mem :
            /\ inode' = [inode EXCEPT ![m] = [kind |-> "regular", nr |-> n, count |-> @.count + 1]]
            /\ call' = [call EXCEPT ![t] = Suspended("open", None, m)]
    <2> DEFINE S == IF {m \in Mem : inode[m].nr = n} # {}
                    THEN {m \in Mem : inode[m].nr = n} ELSE FreeInodes
    <2>1. S \in SUBSET Nat /\ S \subseteq Mem /\ S # {}
      BY <1>1 DEF FreeInodes, Mem
    <2> HIDE DEF S
    <2>2. Least(S) \in Mem
      BY <2>1, LeastNumber
    <2> QED
      BY <1>1, <2>2 DEF S
  <1>3. UNCHANGED <<live, fd, file>> /\ t \in live /\ call[t] = NoCall
    BY UserCall DEF Open
  <1>4. PICK c \in Call : c = Suspended("open", None, m)
    BY SuspendedRecord
  <1>5. call' = [call EXCEPT ![t] = c]
    BY <1>2, <1>4
  <1>6. call'[t] = c
    BY <1>5 DEF OpenInv, TypeOK
  <1>7. CallRight(t)'
    BY <1>4, <1>6, Numbers, SuspendedRecord DEF CallRight
  <1>8. /\ CallsRight' /\ DeadHasNothing' /\ call' \in [Task -> Call]
        /\ \A u \in Task : call'[u] = IF u = t THEN c ELSE call[u]
    BY <1>3, <1>5, <1>7, CallStep
  <1>9. TypeOK'
    BY <1>2, <1>3, <1>8 DEF OpenInv, TypeOK, InodeRecord
  <1>10. FilesRight'
    BY <1>3 DEF OpenInv, FilesRight, FileRight
  <1>11. FilesCounted'
    <2>1. \A u \in Task, d \in Fd : Closing(u, d)' <=> Closing(u, d)
      BY <1>3, <1>4, <1>8, SuspendedRecord, NoCallRecord DEF Closing
    <2> QED
      BY <1>3, <2>1, HeldStands DEF Holds
  <1>12. InodesCounted'
    <2>1. \A u \in Mem : Cardinality(FilesOn(u)') = Cardinality(FilesOn(u))
      BY <1>3, FilesOnSame DEF IsOn
    <2>2. \A u \in Mem \ {m} : Cardinality(CallsOn(u)') = Cardinality(CallsOn(u))
      BY <1>3, <1>4, <1>8, Numbers, CallsOnSame, SuspendedRecord, NoCallRecord
    <2>3. Cardinality(CallsOn(m)') = Cardinality(CallsOn(m)) + 1
      BY <1>3, <1>4, <1>8, Numbers, CallsOnMore, SuspendedRecord, NoCallRecord
    <2>4. /\ inode'[m] = [kind |-> "regular", nr |-> n, count |-> inode[m].count + 1]
          /\ \A u \in Mem \ {m} : inode'[u] = inode[u]
      BY <1>2 DEF OpenInv, TypeOK
    <2>5. \A u \in Mem : inode[u].count \in Nat
      BY DEF OpenInv, TypeOK, InodeRecord
    <2>6. ASSUME NEW u \in Mem
          PROVE  /\ inode'[u].count = Cardinality(FilesOn(u)') + Cardinality(CallsOn(u)')
                 /\ inode'[u].kind = "free" <=> inode'[u].count = 0
      <3>1. /\ inode[u].count = Cardinality(FilesOn(u)) + Cardinality(CallsOn(u))
            /\ inode[u].kind = "free" <=> inode[u].count = 0
            /\ Cardinality(FilesOn(u)) \in Nat /\ Cardinality(CallsOn(u)) \in Nat
        BY Counted DEF OpenInv
      <3>2. CASE u = m
        <4>1. inode'[m].count = inode[m].count + 1 /\ inode'[m].kind = "regular"
          BY <2>4
        <4> QED
          BY <2>1, <2>3, <2>5, <3>1, <3>2, <4>1
      <3>3. CASE u # m
        BY <2>1, <2>2, <2>4, <3>1, <3>3
      <3> QED
        BY <3>2, <3>3
    <2> QED
      BY <2>6, CountedNext
  <1> QED
    BY <1>8, <1>9, <1>10, <1>11, <1>12 DEF OpenInv
-----------------------------------------------------------------------------
\* One inode is counted anew.
LEMMA InodeRecount ==
    ASSUME OpenInv, NEW m \in Mem, NEW a \in Int,
           \A u \in Mem \ {m} :
               /\ inode'[u] = inode[u]
               /\ Cardinality(FilesOn(u)') = Cardinality(FilesOn(u))
               /\ Cardinality(CallsOn(u)') = Cardinality(CallsOn(u)),
           Cardinality(FilesOn(m)') + Cardinality(CallsOn(m)')
               = Cardinality(FilesOn(m)) + Cardinality(CallsOn(m)) + a,
           inode'[m].count = inode[m].count + a,
           inode'[m].kind = "free" <=> inode'[m].count = 0
    PROVE  InodesCounted'
  <1> SUFFICES ASSUME NEW u \in Mem
               PROVE  /\ inode'[u].count = Cardinality(FilesOn(u)') + Cardinality(CallsOn(u)')
                      /\ inode'[u].kind = "free" <=> inode'[u].count = 0
    BY CountedNext
  <1>1. /\ inode[u].count = Cardinality(FilesOn(u)) + Cardinality(CallsOn(u))
        /\ inode[u].kind = "free" <=> inode[u].count = 0
    BY Counted DEF OpenInv
  <1>2. CASE u = m
    BY <1>1, <1>2
  <1>3. CASE u # m
    BY <1>1, <1>3
  <1> QED
    BY <1>2, <1>3

\* get_file and task_get_fd choose a free entry.
LEMMA FreeFd ==
    ASSUME OpenInv, NEW t \in Task, NEW S \in SUBSET FreeFds(t), S # {}
    PROVE  Least(S) \in S /\ Least(S) \in Fd /\ fd[t][Least(S)] = None
  <1>1. S \in SUBSET Nat /\ S \subseteq Fd
    BY Numbers DEF FreeFds, Fd
  <1>2. Least(S) \in S
    BY <1>1, LeastNumber
  <1> QED
    BY <1>1, <1>2 DEF FreeFds

LEMMA FreeFileFound ==
    ASSUME OpenInv, NEW S \in SUBSET FreeFiles, S # {}
    PROVE  Least(S) \in S /\ Least(S) \in File /\ file[Least(S)] = NoFile
           /\ file[Least(S)].count = 0
  <1>1. S \in SUBSET Nat /\ S \subseteq File
    BY Numbers DEF FreeFiles, File
  <1>2. Least(S) \in S
    BY <1>1, LeastNumber
  <1> QED
    BY <1>1, <1>2 DEF FreeFiles, OpenInv, FilesRight, FileRight

\* open has its file: the call's use of the inode is the file's now.
LEMMA OpenDoneEntries ==
    ASSUME OpenInv, NEW t \in Task, OpenDone(t)
    PROVE  \E f \in File, d \in Fd, offset \in Offset :
            /\ file[f] = NoFile /\ file[f].count = 0 /\ fd[t][d] = None
            /\ fd' = [fd EXCEPT ![t][d] = f]
            /\ file' = [file EXCEPT ![f] = [count |-> 1, inode |-> call[t].inode,
                                            offset |-> offset]]
  <1>1. FreeFds(t) \in SUBSET FreeFds(t) /\ FreeFiles \in SUBSET FreeFiles
        /\ FreeFds(t) # {} /\ FreeFiles # {}
    BY DEF OpenDone
  <1>2. PICK d \in Fd : d = Least(FreeFds(t)) /\ fd[t][d] = None
    BY <1>1, FreeFd
  <1>3. PICK f \in File : f = Least(FreeFiles) /\ file[f] = NoFile /\ file[f].count = 0
    BY <1>1, FreeFileFound
  <1> QED
    BY <1>2, <1>3 DEF OpenDone

LEMMA OpenDoneStep ==
    ASSUME OpenInv, NEW t \in Task, OpenDone(t)
    PROVE  OpenInv'
  <1>1. PICK f \in File, d \in Fd, offset \in Offset :
            /\ file[f] = NoFile /\ file[f].count = 0 /\ fd[t][d] = None
            /\ fd' = [fd EXCEPT ![t][d] = f]
            /\ file' = [file EXCEPT ![f] = [count |-> 1, inode |-> call[t].inode,
                                            offset |-> offset]]
    BY OpenDoneEntries
  <1>2. /\ call[t].op = "open" /\ call' = [call EXCEPT ![t] = NoCall]
        /\ UNCHANGED <<live, inode>>
    BY DEF OpenDone
  <1>3. t \in live /\ call[t].fd = None /\ call[t].inode # None
    BY <1>2, NoCallRecord DEF OpenInv, DeadHasNothing, CallsRight, CallRight
  <1>4. PICK m \in Mem : m = call[t].inode
    BY <1>3 DEF OpenInv, TypeOK, Call
  <1>5. /\ \A u \in Task, e \in Fd :
               fd'[u][e] = IF u = t /\ e = d THEN f ELSE fd[u][e]
        /\ \A u \in Task \ {t} : fd'[u] = fd[u]
        /\ fd' \in [Task -> [Fd -> File \cup {None}]]
    BY <1>1 DEF OpenInv, TypeOK
  <1>6. /\ call'[t] = NoCall
        /\ CallRight(t)'
    BY <1>2, NoCallRecord, Numbers DEF OpenInv, TypeOK, CallRight
  <1>7. /\ CallsRight' /\ DeadHasNothing' /\ call' \in [Task -> Call]
        /\ \A u \in Task : call'[u] = IF u = t THEN NoCall ELSE call[u]
    BY <1>2, <1>3, <1>5, <1>6, CallStep, NoCallRecord
  <1>8. /\ file' \in [File -> FileRecord]
        /\ file'[f].count = 1 /\ file'[f].inode = m
        /\ \A g \in File \ {f} : file'[g] = file[g]
    BY <1>1, <1>4 DEF OpenInv, TypeOK, FileRecord
  <1>9. TypeOK'
    BY <1>2, <1>5, <1>7, <1>8 DEF OpenInv, TypeOK
  <1>10. FilesRight'
    BY <1>4, <1>8, Numbers DEF OpenInv, FilesRight, FileRight
  <1>11. FilesCounted'
    <2>1. \A u \in Task, e \in Fd : Closing(u, e)' <=> Closing(u, e)
      BY <1>2, <1>7, NoCallRecord DEF Closing
    <2>2. ~Closing(t, d)
      BY <1>2 DEF Closing
    <2>3. Cardinality(Held(f)') = Cardinality(Held(f)) + 1
      <3>1. \A u \in Task, e \in Fd : ~Refers(u, e, f)
        BY <1>1, FreeFile
      <3>2. \A u \in Task, e \in Fd : Refers(u, e, f)' <=> (u = t /\ e = d)
        BY <1>5, <2>1, <2>2, <3>1, Numbers DEF Refers, Holds
      <3> QED
        BY <3>1, <3>2, HeldMore
    <2>4. \A g \in File \ {f} : Held(g)' = Held(g)
      BY <1>1, <1>5, <2>1, Numbers, HeldSame DEF Refers, Holds
    <2> QED
      BY <1>1, <1>8, <2>3, <2>4, Counted, CountedNext DEF OpenInv
  <1>12. InodesCounted'
    <2>1. \A u \in Mem : ~IsOn(f, u)
      BY <1>1 DEF IsOn
    <2>2. \A g \in File, u \in Mem : IsOn(g, u)' <=> IsOn(g, u) \/ (g = f /\ u = m)
      BY <1>8, <2>1 DEF IsOn
    <2>3. \A v \in Task, u \in Mem : call'[v].inode = u <=> call[v].inode = u /\ v # t
      BY <1>4, <1>7, NoCallRecord, Numbers
    <2>4. Cardinality(FilesOn(m)') = Cardinality(FilesOn(m)) + 1
      BY <2>1, <2>2, FilesOnMore
    <2>5. Cardinality(CallsOn(m)') = Cardinality(CallsOn(m)) - 1
      BY <1>4, <2>3, CallsOnLess
    <2>6. \A u \in Mem \ {m} :
              /\ Cardinality(FilesOn(u)') = Cardinality(FilesOn(u))
              /\ Cardinality(CallsOn(u)') = Cardinality(CallsOn(u))
      BY <1>4, <2>2, <2>3, FilesOnSame, CallsOnSame
    <2>7. /\ inode'[m].count = inode[m].count + 0
          /\ inode'[m].kind = "free" <=> inode'[m].count = 0
      BY <1>2, Counted DEF OpenInv, TypeOK, InodeRecord
    <2>8. Cardinality(FilesOn(m)') + Cardinality(CallsOn(m)')
              = Cardinality(FilesOn(m)) + Cardinality(CallsOn(m)) + 0
      BY <2>4, <2>5, Counted
    <2>9. 0 \in Int /\ \A u \in Mem \ {m} : inode'[u] = inode[u]
      BY <1>2
    <2> QED
      BY <2>6, <2>7, <2>8, <2>9, InodeRecount
  <1> QED
    BY <1>7, <1>9, <1>10, <1>11, <1>12 DEF OpenInv

\* A step that moves only the call of a task, which keeps its inode and closes
\* no descriptor.
LEMMA CallOnly ==
    ASSUME OpenInv, NEW t \in live, NEW c \in Call,
           call' = [call EXCEPT ![t] = c], UNCHANGED <<live, fd, file, inode>>,
           CallRight(t)', c.inode = call[t].inode,
           \A d \in Fd : ~Closing(t, d),
           c.inode = None \/ c.fd = None
    PROVE  OpenInv'
  <1>1. /\ CallsRight' /\ DeadHasNothing' /\ call' \in [Task -> Call]
        /\ \A u \in Task : call'[u] = IF u = t THEN c ELSE call[u]
    BY CallStep
  <1>2. \A u \in Task, e \in Fd : Closing(u, e)' <=> Closing(u, e)
    BY <1>1, Numbers DEF Closing
  <1>3. FilesCounted'
    BY <1>2, HeldStands DEF Holds
  <1>4. InodesCounted'
    BY <1>1, UsersStand DEF IsOn
  <1> QED
    BY <1>1, <1>3, <1>4 DEF OpenInv, TypeOK, FilesRight, FileRight

LEMMA OpenFailsStep ==
    ASSUME OpenInv, NEW t \in Task, OpenFails(t)
    PROVE  OpenInv'
  <1>1. /\ call[t].op = "open"
        /\ call' = [call EXCEPT ![t] = Suspended("close", None, call[t].inode)]
        /\ UNCHANGED <<live, fd, file, inode>>
    BY DEF OpenFails
  <1>2. t \in live /\ call[t].inode # None
    BY <1>1, NoCallRecord DEF OpenInv, DeadHasNothing, CallsRight, CallRight
  <1>3. PICK m \in Mem : m = call[t].inode
    BY <1>2 DEF OpenInv, TypeOK, Call
  <1>4. PICK c \in Call : /\ c = Suspended("close", None, m)
                          /\ c.op = "close" /\ c.fd = None /\ c.inode = m
    BY SuspendedRecord
  <1>5. call'[t] = c
    BY <1>1, <1>3, <1>4 DEF OpenInv, TypeOK
  <1>6. CallRight(t)'
    BY <1>4, <1>5, Numbers DEF CallRight
  <1>7. \A d \in Fd : ~Closing(t, d)
    BY <1>1 DEF Closing
  <1> QED
    BY <1>1, <1>2, <1>3, <1>4, <1>6, <1>7, CallOnly
-----------------------------------------------------------------------------
\* iput counts an inode down and frees it with the last count.
LEMMA LessCounts ==
    ASSUME OpenInv, NEW m \in Mem, inode[m].count > 0, inode' = Less(m)
    PROVE  /\ inode' \in [Mem -> InodeRecord]
           /\ \A u \in Mem \ {m} : inode'[u] = inode[u]
           /\ inode'[m].count = inode[m].count + (0 - 1)
           /\ inode'[m].kind = "free" <=> inode'[m].count = 0
  <1>1. inode[m] \in InodeRecord /\ inode[m].count \in Nat /\ inode \in [Mem -> InodeRecord]
    BY DEF OpenInv, TypeOK, InodeRecord
  <1>2. inode[m].kind # "free"
    BY <1>1, Counted DEF OpenInv
  <1>3. CASE inode[m].count = 1
    <2>1. inode' = [inode EXCEPT ![m] = FreeInode]
      BY <1>3 DEF Less
    <2>2. FreeInode \in InodeRecord /\ FreeInode.count = 0 /\ FreeInode.kind = "free"
      BY DEF FreeInode, InodeRecord
    <2> QED
      BY <1>1, <1>3, <2>1, <2>2
  <1>4. CASE inode[m].count # 1
    <2>1. PICK r \in InodeRecord : r = [inode[m] EXCEPT !.count = inode[m].count - 1]
      <3>1. inode[m].count - 1 \in Nat
        BY <1>1
      <3>2. [inode[m] EXCEPT !.count = inode[m].count - 1] \in InodeRecord
        BY <1>1, <3>1 DEF InodeRecord
      <3> QED
        BY <3>2
    <2>2. r.count = inode[m].count - 1 /\ r.kind = inode[m].kind
      BY <1>1, <2>1 DEF InodeRecord
    <2>3. inode' = [inode EXCEPT ![m] = r]
      <3>1. Less(m) = [inode EXCEPT ![m].count = inode[m].count - 1]
        BY <1>4 DEF Less
      <3> QED
        BY <2>1, <3>1
    <2>4. inode' \in [Mem -> InodeRecord] /\ inode'[m] = r
          /\ \A u \in Mem \ {m} : inode'[u] = inode[u]
      BY <1>1, <2>3
    <2> QED
      BY <1>1, <1>2, <1>4, <2>2, <2>4
  <1> QED
    BY <1>3, <1>4

\* A user of an inode is counted.
LEMMA UserCounts ==
    ASSUME OpenInv, NEW m \in Mem,
           (\E f \in File : IsOn(f, m)) \/ (\E t \in Task : call[t].inode = m)
    PROVE  inode[m].count > 0
  <1>1. inode[m].count \in Nat
    BY DEF OpenInv, TypeOK, InodeRecord
  <1>2. inode[m].count # 0
    BY FreeOne, Counted DEF OpenInv
  <1> QED
    BY <1>1, <1>2

\* One file loses one descriptor.
LEMMA PutCounted ==
    ASSUME OpenInv, NEW t \in Task, NEW d \in Fd, NEW f \in File, Refers(t, d, f),
           \A u \in Task, e \in Fd :
               /\ Holds(u, e)' <=> Holds(u, e) /\ ~(u = t /\ e = d)
               /\ ~(u = t /\ e = d) => fd'[u][e] = fd[u][e],
           file'[f].count = file[f].count - 1,
           \A g \in File \ {f} : file'[g] = file[g]
    PROVE  FilesCounted'
  <1>1. \A u \in Task, e \in Fd, g \in File :
            Refers(u, e, g)' <=> Refers(u, e, g) /\ ~(u = t /\ e = d)
    BY DEF Refers
  <1>2. Cardinality(Held(f)') = Cardinality(Held(f)) - 1
    BY <1>1, HeldLess
  <1>3. \A g \in File \ {f} : Held(g)' = Held(g)
    <2> SUFFICES ASSUME NEW g \in File \ {f} PROVE Held(g)' = Held(g)
      OBVIOUS
    <2>1. ~Refers(t, d, g)
      BY DEF Refers
    <2> QED
      BY <1>1, <2>1, HeldSame
  <1> QED
    BY <1>2, <1>3, Counted, CountedNext DEF OpenInv

\* put_file, whether or not its iput waits.
LEMMA PutStep ==
    ASSUME OpenInv, NEW t \in live, NEW c \in Call, NEW d \in Fd,
           c.op \in {"close", "dup2", "exit"}, c.fd = d, c.inode = None,
           fd[t][d] # None, call[t].inode = None,
           PutFile(t, c), live' = live
    PROVE  OpenInv'
  <1>1. t \in Task
    BY DEF OpenInv, TypeOK
  <1>2. \A e \in Fd : ~Closing(t, e)
    BY DEF Closing
  <1>3. PICK f \in File : f = fd[t][d] /\ Refers(t, d, f)
    BY <1>1, <1>2 DEF OpenInv, TypeOK, Refers, Holds
  <1>4. PICK m \in Mem : m = file[f].inode /\ file[f].count > 0 /\ file[f].count \in Nat
    BY <1>1, <1>3, Holder DEF Refers
  <1> DEFINE last == file[f].count = 1
             waits == last /\ inode[m].kind # "pipe"
  <1>5. /\ file' = IF last THEN [file EXCEPT ![f] = NoFile]
                   ELSE [file EXCEPT ![f].count = file[f].count - 1]
        /\ waits => /\ call' = [call EXCEPT ![t] = [c EXCEPT !.inode = m]]
                    /\ UNCHANGED <<fd, inode>>
        /\ ~waits => /\ fd' = [fd EXCEPT ![t][d] = None]
                     /\ inode' = IF last THEN Less(m) ELSE inode
                     /\ call' = [call EXCEPT ![t] = After(c)]
    <2>1. /\ file' = IF file[f].count = 1 THEN [file EXCEPT ![f] = NoFile]
                     ELSE [file EXCEPT ![f].count = file[f].count - 1]
          /\ IF file[f].count = 1 /\ inode[m].kind # "pipe"
             THEN /\ call' = [call EXCEPT ![t] = [c EXCEPT !.inode = m]]
                  /\ UNCHANGED <<fd, inode>>
             ELSE /\ fd' = [fd EXCEPT ![t][d] = None]
                  /\ inode' = IF file[f].count = 1 THEN Less(m) ELSE inode
                  /\ call' = [call EXCEPT ![t] = After(c)]
      BY <1>3, <1>4 DEF PutFile
    <2> QED
      BY <2>1
  <1>6. /\ file' \in [File -> FileRecord]
        /\ file'[f].count = file[f].count - 1
        /\ last => file'[f] = NoFile
        /\ ~last => file'[f].inode = m /\ file'[f].count > 0
        /\ \A g \in File \ {f} : file'[g] = file[g]
    <2>1. NoFile \in FileRecord /\ NoFile.count = 0
      BY Numbers DEF NoFile, FileRecord, Offset
    <2>2. file \in [File -> FileRecord] /\ file[f] \in FileRecord
      BY DEF OpenInv, TypeOK
    <2>3. CASE last
      <3>1. file' = [file EXCEPT ![f] = NoFile]
        BY <1>5, <2>3
      <3> QED
        BY <2>1, <2>2, <2>3, <3>1
    <2>4. CASE ~last
      <3>1. file[f].count - 1 \in Nat /\ file[f].count - 1 > 0
        BY <1>4, <2>4
      <3>2. PICK r \in FileRecord : r = [file[f] EXCEPT !.count = file[f].count - 1]
        <4>1. [file[f] EXCEPT !.count = file[f].count - 1] \in FileRecord
          BY <2>2, <3>1 DEF FileRecord
        <4> QED
          BY <4>1
      <3>3. r.count = file[f].count - 1 /\ r.inode = m
        BY <1>4, <2>2, <3>2 DEF FileRecord
      <3>4. file' = [file EXCEPT ![f] = r]
        BY <1>5, <2>4, <3>2
      <3> QED
        BY <2>2, <2>4, <3>1, <3>3, <3>4
    <2> QED
      BY <2>3, <2>4
  <1>7. FilesRight'
    <2>1. FileRight(f)'
      BY <1>4, <1>6, Numbers DEF FileRight
    <2> QED
      BY <1>6, <2>1 DEF OpenInv, FilesRight, FileRight
  <1> HIDE DEF last, waits
  <1>8. PICK b \in Call :
            /\ call' = [call EXCEPT ![t] = b]
            /\ waits => b.op = c.op /\ b.fd = d /\ b.inode = m
            /\ ~waits => /\ b.inode = None
                         /\ b.op \in {"none", "dup2", "exit"}
                         /\ b.op = "none" => b = NoCall
                         /\ b.op = "dup2" => b.fd = d
                         /\ b.op = "exit" => b.fd = None
    <2>1. CASE waits
      <3>1. [c EXCEPT !.inode = m] \in Call
        BY DEF Call
      <3>2. [c EXCEPT !.inode = m].op = c.op /\ [c EXCEPT !.inode = m].fd = d
            /\ [c EXCEPT !.inode = m].inode = m
        BY DEF Call
      <3> QED
        BY <1>5, <2>1, <3>1, <3>2
    <2>2. CASE ~waits /\ c.op = "close"
      BY <1>5, <2>2, NoCallRecord DEF After
    <2>3. CASE ~waits /\ c.op = "dup2"
      <3>1. After(c) = [c EXCEPT !.inode = None]
        BY <2>3 DEF After
      <3>2. [c EXCEPT !.inode = None] = c
        BY DEF Call
      <3> QED
        BY <1>5, <2>3, <3>1, <3>2
    <2>4. CASE ~waits /\ c.op = "exit"
      <3>1. After(c) = Suspended("exit", None, None)
        BY <2>4 DEF After
      <3> QED
        BY <1>5, <2>4, <3>1, SuspendedRecord
    <2> QED
      BY <2>1, <2>2, <2>3, <2>4
  <1>9. /\ fd' \in [Task -> [Fd -> File \cup {None}]]
        /\ \A u \in Task \ {t} : fd'[u] = fd[u]
        /\ \A e \in Fd \ {d} : fd'[t][e] = fd[t][e]
        /\ fd'[t][d] = IF waits THEN f ELSE None
    <2>0. fd \in [Task -> [Fd -> File \cup {None}]]
      BY DEF OpenInv, TypeOK
    <2>1. CASE waits
      <3>1. fd' = fd
        BY <1>5, <2>1
      <3> QED
        BY <1>1, <1>3, <2>0, <2>1, <3>1
    <2>2. CASE ~waits
      <3>1. fd' = [fd EXCEPT ![t][d] = None]
        BY <1>5, <2>2
      <3> QED
        BY <1>1, <2>0, <2>2, <3>1
    <2> QED
      BY <2>1, <2>2
  <1>10. CallRight(t)'
    <2>1. call'[t] = b
      BY <1>1, <1>8 DEF OpenInv, TypeOK
    <2>2. CASE waits
      BY <1>8, <1>9, <2>1, <2>2, Numbers DEF CallRight
    <2>3. CASE ~waits
      BY <1>8, <1>9, <2>1, <2>3, Numbers DEF CallRight
    <2> QED
      BY <2>2, <2>3
  <1>11. /\ CallsRight' /\ DeadHasNothing' /\ call' \in [Task -> Call]
         /\ \A u \in Task : call'[u] = IF u = t THEN b ELSE call[u]
    BY <1>8, <1>9, <1>10, CallStep
  <1>12. FilesCounted'
    <2>1. \A u \in Task \ {t}, e \in Fd : Holds(u, e)' <=> Holds(u, e)
      BY <1>9, <1>11 DEF Holds, Closing
    <2>2. \A e \in Fd \ {d} : Holds(t, e)' <=> Holds(t, e)
      BY <1>1, <1>2, <1>8, <1>9, <1>11 DEF Holds, Closing
    <2>3. ~Holds(t, d)'
      <3>1. CASE waits
        BY <1>1, <1>8, <1>11, <3>1, Numbers DEF Holds, Closing
      <3>2. CASE ~waits
        BY <1>9, <3>2 DEF Holds
      <3> QED
        BY <3>1, <3>2
    <2> QED
      BY <1>1, <1>3, <1>6, <1>9, <2>1, <2>2, <2>3, PutCounted
  <1>13. inode' \in [Mem -> InodeRecord] /\ InodesCounted'
    <2>1. IsOn(f, m) /\ inode[m].count > 0
      BY <1>4, UserCounts DEF IsOn
    <2>2. \A g \in File, u \in Mem :
              IsOn(g, u)' <=> IsOn(g, u) /\ ~(last /\ g = f)
      <3>1. \A g \in File \ {f}, u \in Mem : IsOn(g, u)' <=> IsOn(g, u)
        BY <1>6 DEF IsOn
      <3>2. \A u \in Mem : IsOn(f, u)' <=> IsOn(f, u) /\ ~last
        BY <1>4, <1>6 DEF IsOn, last
      <3> QED
        BY <3>1, <3>2
    <2>3. \A v \in Task, u \in Mem :
              call'[v].inode = u <=> call[v].inode = u \/ (waits /\ v = t /\ u = m)
      BY <1>8, <1>11, Numbers
    <2>4. CASE ~last
      <3>1. inode' = inode /\ ~waits
        BY <1>5, <2>4 DEF waits
      <3>2. InodesCounted'
        BY <2>2, <2>3, <2>4, <3>1, UsersStand
      <3> QED
        BY <3>1, <3>2 DEF OpenInv, TypeOK
    <2>5. CASE last
      <3>1. Cardinality(FilesOn(m)') = Cardinality(FilesOn(m)) - 1
        BY <2>1, <2>2, <2>5, FilesOnLess
      <3>2. \A u \in Mem \ {m} :
                /\ Cardinality(FilesOn(u)') = Cardinality(FilesOn(u))
                /\ Cardinality(CallsOn(u)') = Cardinality(CallsOn(u))
        <4> SUFFICES ASSUME NEW u \in Mem \ {m}
                     PROVE  /\ Cardinality(FilesOn(u)') = Cardinality(FilesOn(u))
                            /\ Cardinality(CallsOn(u)') = Cardinality(CallsOn(u))
          OBVIOUS
        <4>1. ~IsOn(f, u)
          BY <1>4 DEF IsOn
        <4> QED
          BY <2>2, <2>3, <4>1, FilesOnSame, CallsOnSame
      <3>3. Cardinality(FilesOn(m)) \in Nat /\ Cardinality(CallsOn(m)) \in Nat
        BY Counted
      <3>4. CASE waits
        <4>1. Cardinality(CallsOn(m)') = Cardinality(CallsOn(m)) + 1
          BY <1>1, <2>3, <3>4, Numbers, CallsOnMore
        <4>2. Cardinality(FilesOn(m)') + Cardinality(CallsOn(m)')
                  = Cardinality(FilesOn(m)) + Cardinality(CallsOn(m)) + 0
          BY <3>1, <3>3, <4>1
        <4>3. /\ inode' = inode /\ inode[m].count + 0 = inode[m].count
              /\ inode[m].kind = "free" <=> inode[m].count = 0
          BY <1>5, <3>4, Counted DEF OpenInv, TypeOK, InodeRecord
        <4> HIDE DEF OpenInv
        <4>4. 0 \in Int
          OBVIOUS
        <4>5. InodesCounted'
          BY <3>2, <4>2, <4>3, <4>4, InodeRecount
        <4> QED
          BY <4>3, <4>5 DEF OpenInv, TypeOK
      <3>5. CASE ~waits
        <4>1. Cardinality(CallsOn(m)') = Cardinality(CallsOn(m))
          BY <2>3, <3>5, CallsOnSame
        <4>2. Cardinality(FilesOn(m)') + Cardinality(CallsOn(m)')
                  = Cardinality(FilesOn(m)) + Cardinality(CallsOn(m)) + (0 - 1)
          BY <3>1, <3>3, <4>1
        <4>3. /\ inode' \in [Mem -> InodeRecord]
              /\ \A u \in Mem \ {m} : inode'[u] = inode[u]
              /\ inode'[m].count = inode[m].count + (0 - 1)
              /\ inode'[m].kind = "free" <=> inode'[m].count = 0
          BY <1>5, <2>1, <2>5, <3>5, LessCounts
        <4>4. 0 - 1 \in Int
          OBVIOUS
        <4> QED
          BY <3>2, <4>2, <4>3, <4>4, InodeRecount
      <3> QED
        BY <3>4, <3>5
    <2> QED
      BY <2>4, <2>5
  <1>14. TypeOK'
    BY <1>6, <1>9, <1>11, <1>13 DEF OpenInv, TypeOK
  <1> QED
    BY <1>7, <1>11, <1>12, <1>13, <1>14 DEF OpenInv
LEMMA CloseStep ==
    ASSUME OpenInv, NEW t \in Task, Close(t)
    PROVE  OpenInv'
  <1>1. PICK d \in OpenFds(t), op \in {"close", "dup2"} :
            PutFile(t, Suspended(op, d, None)) /\ live' = live
    BY DEF Close
  <1>2. t \in live /\ call[t].inode = None
    BY UserCall, NoCallRecord DEF Close
  <1>3. d \in Fd /\ fd[t][d] # None
    BY DEF OpenFds
  <1>4. PICK c \in Call : /\ c = Suspended(op, d, None)
                          /\ c.op = op /\ c.fd = d /\ c.inode = None
    BY <1>3, SuspendedRecord
  <1> QED
    BY <1>1, <1>2, <1>3, <1>4, PutStep

LEMMA ExitCloseStep ==
    ASSUME OpenInv, NEW t \in Task, ExitClose(t)
    PROVE  OpenInv'
  <1>1. call[t].op = "exit" /\ call[t].inode = None
    BY DEF ExitClose
  <1>2. t \in live /\ call[t] \in Call
    BY <1>1, NoCallRecord DEF OpenInv, DeadHasNothing, TypeOK
  <1>3. CASE OpenFds(t) # {}
    <2>1. PICK d \in Fd : d = Least(OpenFds(t)) /\ fd[t][d] # None
      <3>1. OpenFds(t) \in SUBSET Nat
        BY Numbers DEF OpenFds, Fd
      <3> QED
        BY <1>3, <3>1, LeastNumber DEF OpenFds
    <2>2. PICK c \in Call : /\ c = [call[t] EXCEPT !.fd = d]
                            /\ c.op = "exit" /\ c.fd = d /\ c.inode = None
      <3>1. [call[t] EXCEPT !.fd = d] \in Call
        BY <1>2 DEF Call
      <3> QED
        BY <1>1, <1>2, <3>1 DEF Call
    <2>3. PutFile(t, c) /\ live' = live
      BY <1>3, <2>1, <2>2 DEF ExitClose
    <2> QED
      BY <1>1, <1>2, <2>1, <2>2, <2>3, PutStep
  <1>4. CASE OpenFds(t) = {}
    <2>1. /\ live' = live \ {t} /\ call' = [call EXCEPT ![t] = NoCall]
          /\ UNCHANGED <<fd, file, inode>>
      BY <1>4 DEF ExitClose
    <2>2. /\ call' \in [Task -> Call]
          /\ \A u \in Task : call'[u] = IF u = t THEN NoCall ELSE call[u]
      BY <2>1, NoCallRecord DEF OpenInv, TypeOK
    <2>3. \A d \in Fd : fd[t][d] = None
      BY <1>4 DEF OpenFds
    <2>4. CallsRight'
      BY <2>1, <2>2, NoCallRecord DEF OpenInv, CallsRight, CallRight
    <2>5. DeadHasNothing'
      BY <2>1, <2>2, <2>3 DEF OpenInv, DeadHasNothing
    <2>6. \A u \in Task, e \in Fd : Closing(u, e)' <=> Closing(u, e)
      BY <1>1, <2>2, NoCallRecord DEF Closing
    <2>7. FilesCounted'
      BY <2>1, <2>6, HeldStands DEF Holds
    <2>8. InodesCounted'
      BY <1>1, <2>1, <2>2, NoCallRecord, UsersStand DEF IsOn
    <2> QED
      BY <2>1, <2>2, <2>4, <2>5, <2>7, <2>8
         DEF OpenInv, TypeOK, FilesRight, FileRight
  <1> QED
    BY <1>3, <1>4

\* The iput that a close waited in: the descriptor it takes away was held no
\* more.
LEMMA PutDoneStep ==
    ASSUME OpenInv, NEW t \in Task, PutDone(t)
    PROVE  OpenInv'
  <1>1. PICK c \in Call : c = call[t]
    BY DEF OpenInv, TypeOK
  <1>2. /\ c.op \in {"close", "dup2", "exit"} /\ c.inode # None
        /\ inode' = Less(c.inode)
        /\ fd' = IF c.fd = None THEN fd ELSE [fd EXCEPT ![t][c.fd] = None]
        /\ call' = [call EXCEPT ![t] = After(c)]
        /\ UNCHANGED <<live, file>>
    BY <1>1 DEF PutDone
  <1>3. PICK m \in Mem : m = c.inode
    BY <1>2 DEF Call
  <1>4. t \in live
    BY <1>1, <1>2, NoCallRecord DEF OpenInv, DeadHasNothing
  <1>5. CallRight(t)
    BY DEF OpenInv, CallsRight
  <1>6. c.fd = None \/ (c.fd \in Fd /\ fd[t][c.fd] # None)
    BY <1>1, <1>2, <1>5 DEF Call, CallRight
  <1>7. PICK b \in Call :
            /\ call' = [call EXCEPT ![t] = b]
            /\ b.inode = None
            /\ b.op \in {"none", "dup2", "exit"}
            /\ b.op = "none" => b = NoCall
            /\ b.op = "dup2" => b.fd = c.fd /\ c.fd # None
            /\ b.op = "exit" => b.fd = None
    <2>1. CASE c.op = "close"
      BY <1>2, <2>1, NoCallRecord DEF After
    <2>2. CASE c.op = "dup2"
      <3>1. After(c) = [c EXCEPT !.inode = None]
        BY <2>2 DEF After
      <3>2. PICK b \in Call : b = [c EXCEPT !.inode = None]
        <4>1. [c EXCEPT !.inode = None] \in Call
          BY DEF Call
        <4> QED
          BY <4>1
      <3>3. b.op = "dup2" /\ b.fd = c.fd /\ b.inode = None
        BY <2>2, <3>2 DEF Call
      <3>4. c.fd # None
        BY <1>1, <1>5, <2>2 DEF CallRight
      <3>5. call' = [call EXCEPT ![t] = b]
        BY <1>2, <3>1, <3>2
      <3> WITNESS b \in Call
      <3> QED
        BY <3>3, <3>4, <3>5
    <2>3. CASE c.op = "exit"
      <3>1. After(c) = Suspended("exit", None, None)
        BY <2>3 DEF After
      <3>2. PICK b \in Call : /\ b = Suspended("exit", None, None)
                              /\ b.op = "exit" /\ b.fd = None /\ b.inode = None
        BY SuspendedRecord
      <3>3. call' = [call EXCEPT ![t] = b]
        BY <1>2, <3>1, <3>2
      <3> WITNESS b \in Call
      <3> QED
        BY <3>2, <3>3
    <2> QED
      BY <1>2, <2>1, <2>2, <2>3
  <1>8. /\ fd' \in [Task -> [Fd -> File \cup {None}]]
        /\ \A u \in Task \ {t} : fd'[u] = fd[u]
        /\ \A e \in Fd : fd'[t][e] = IF e = c.fd THEN None ELSE fd[t][e]
    <2>1. fd \in [Task -> [Fd -> File \cup {None}]]
      BY DEF OpenInv, TypeOK
    <2>2. CASE c.fd = None
      BY <1>2, <2>1, <2>2, Numbers
    <2>3. CASE c.fd # None
      <3>1. fd' = [fd EXCEPT ![t][c.fd] = None]
        BY <1>2, <2>3
      <3> QED
        BY <1>6, <2>1, <2>3, <3>1
    <2> QED
      BY <2>2, <2>3
  <1>9. CallRight(t)'
    <2>1. call'[t] = b
      BY <1>7 DEF OpenInv, TypeOK
    <2>2. b.op = "dup2" => fd'[t][b.fd] = None /\ b.fd # None
      BY <1>6, <1>7, <1>8
    <2> QED
      BY <1>7, <2>1, <2>2 DEF CallRight
  <1>10. /\ CallsRight' /\ DeadHasNothing' /\ call' \in [Task -> Call]
         /\ \A u \in Task : call'[u] = IF u = t THEN b ELSE call[u]
    BY <1>2, <1>4, <1>7, <1>8, <1>9, CallStep
  <1>11. FilesCounted'
    <2>1. ASSUME NEW u \in Task, NEW e \in Fd
          PROVE  /\ Holds(u, e)' <=> Holds(u, e)
                 /\ Holds(u, e) => fd'[u][e] = fd[u][e]
      <3>1. CASE u # t
        BY <1>8, <1>10, <3>1 DEF Holds, Closing
      <3>2. CASE u = t /\ e = c.fd
        BY <1>1, <1>2, <1>8, <3>2 DEF Holds, Closing
      <3>3. CASE u = t /\ e # c.fd
        BY <1>1, <1>7, <1>8, <1>10, <3>3 DEF Holds, Closing
      <3> QED
        BY <3>1, <3>2, <3>3
    <2> QED
      BY <1>2, <2>1, HeldStands
  <1>12. inode' \in [Mem -> InodeRecord] /\ InodesCounted'
    <2>1. inode[m].count > 0
      BY <1>1, <1>3, UserCounts
    <2>2. /\ inode' \in [Mem -> InodeRecord]
          /\ \A u \in Mem \ {m} : inode'[u] = inode[u]
          /\ inode'[m].count = inode[m].count + (0 - 1)
          /\ inode'[m].kind = "free" <=> inode'[m].count = 0
      BY <1>2, <1>3, <2>1, LessCounts
    <2>3. \A u \in Mem : Cardinality(FilesOn(u)') = Cardinality(FilesOn(u))
      BY <1>2, FilesOnSame DEF IsOn
    <2>4. \A v \in Task, u \in Mem : call'[v].inode = u <=> call[v].inode = u /\ v # t
      BY <1>7, <1>10, Numbers
    <2>5. Cardinality(CallsOn(m)') = Cardinality(CallsOn(m)) - 1
      BY <1>1, <1>3, <2>4, CallsOnLess
    <2>6. \A u \in Mem \ {m} : Cardinality(CallsOn(u)') = Cardinality(CallsOn(u))
      BY <1>1, <1>3, <2>4, CallsOnSame
    <2>7. Cardinality(FilesOn(m)) \in Nat /\ Cardinality(CallsOn(m)) \in Nat
      BY Counted
    <2>8. Cardinality(FilesOn(m)') + Cardinality(CallsOn(m)')
              = Cardinality(FilesOn(m)) + Cardinality(CallsOn(m)) + (0 - 1)
      BY <2>3, <2>5, <2>7
    <2>9. 0 - 1 \in Int
      OBVIOUS
    <2> QED
      BY <2>2, <2>3, <2>6, <2>8, <2>9, InodeRecount
  <1> QED
    BY <1>2, <1>8, <1>10, <1>11, <1>12
       DEF OpenInv, TypeOK, FilesRight, FileRight
-----------------------------------------------------------------------------
\* dupfd by a task that closes nothing: the file it copies has one descriptor
\* more.
LEMMA DupfdStep ==
    ASSUME OpenInv, NEW t \in Task, NEW old \in Fd, NEW arg \in Fd,
           \A d \in Fd : ~Closing(t, d),
           \A u \in Task, e \in Fd : Closing(u, e)' <=> Closing(u, e),
           Dupfd(t, old, arg)
    PROVE  /\ fd' \in [Task -> [Fd -> File \cup {None}]]
           /\ file' \in [File -> FileRecord]
           /\ \A u \in Task \ {t} : fd'[u] = fd[u]
           /\ \A u \in Task, e \in Fd : fd[u][e] # None => fd'[u][e] = fd[u][e]
           /\ \A f \in File : /\ file'[f].inode = file[f].inode
                              /\ file'[f].offset = file[f].offset
           /\ \A f \in File, m \in Mem : IsOn(f, m)' <=> IsOn(f, m)
           /\ FilesRight' /\ FilesCounted'
  <1>0. fd \in [Task -> [Fd -> File \cup {None}]] /\ file \in [File -> FileRecord]
    BY DEF OpenInv, TypeOK
  <1> DEFINE free == {d \in arg .. NFd - 1 : fd[t][d] = None}
  <1>1. CASE fd[t][old] = None \/ free = {}
    <2>1. UNCHANGED <<fd, file>>
      BY <1>1 DEF Dupfd
    <2> QED
      BY <1>0, <2>1, HeldStands DEF Holds, IsOn, OpenInv, FilesRight, FileRight
  <1>2. CASE ~(fd[t][old] = None \/ free = {})
    <2>1. PICK d \in Fd : d = Least(free) /\ fd[t][d] = None
      <3>1. free \in SUBSET Nat /\ free \subseteq Fd /\ free # {}
        BY <1>2, Numbers DEF Fd
      <3>2. Least(free) \in free
        <4> HIDE DEF free
        <4> QED
          BY <3>1, LeastNumber
      <3> QED
        BY <3>1, <3>2
    <2>2. PICK f \in File : f = fd[t][old]
      BY <1>0, <1>2
    <2>3. /\ fd' = [fd EXCEPT ![t][d] = f]
          /\ file' = [file EXCEPT ![f].count = file[f].count + 1]
      BY <1>2, <2>1, <2>2 DEF Dupfd
    <2>4. /\ fd' \in [Task -> [Fd -> File \cup {None}]]
          /\ \A u \in Task, e \in Fd :
                 fd'[u][e] = IF u = t /\ e = d THEN f ELSE fd[u][e]
          /\ \A u \in Task \ {t} : fd'[u] = fd[u]
      BY <1>0, <2>3
    <2>5. file[f].count > 0 /\ file[f].count \in Nat /\ file[f].inode \in Mem
      <3>1. Holds(t, old)
        BY <2>2, Numbers DEF Holds
      <3> QED
        BY <2>2, <3>1, Holder
    <2>6. /\ file' \in [File -> FileRecord]
          /\ file'[f].count = file[f].count + 1
          /\ file'[f].inode = file[f].inode /\ file'[f].offset = file[f].offset
          /\ \A g \in File \ {f} : file'[g] = file[g]
      <3>1. file[f].count + 1 \in Nat
        BY <2>5
      <3> QED
        BY <1>0, <2>3, <3>1 DEF FileRecord
    <2>7. FilesRight'
      <3>1. FileRight(f)'
        BY <2>5, <2>6, Numbers DEF FileRight
      <3> QED
        BY <2>6, <3>1 DEF OpenInv, FilesRight, FileRight
    <2>8. \A g \in File, m \in Mem : IsOn(g, m)' <=> IsOn(g, m)
      <3>1. \A m \in Mem : IsOn(f, m)' <=> IsOn(f, m)
        BY <2>5, <2>6 DEF IsOn
      <3> QED
        BY <2>6, <3>1 DEF IsOn
    <2>9. FilesCounted'
      <3>1. ~Refers(t, d, f) /\ Refers(t, d, f)'
        BY <2>1, <2>4, Numbers DEF Refers, Holds
      <3>2. \A u \in Task, e \in Fd, g \in File :
                ~(u = t /\ e = d) => (Refers(u, e, g)' <=> Refers(u, e, g))
        BY <2>4 DEF Refers, Holds
      <3>3. \A u \in Task, e \in Fd : Refers(u, e, f)' <=> Refers(u, e, f) \/ (u = t /\ e = d)
        BY <3>1, <3>2
      <3>4. Cardinality(Held(f)') = Cardinality(Held(f)) + 1
        BY <3>1, <3>3, HeldMore
      <3>5. ASSUME NEW g \in File \ {f} PROVE Held(g)' = Held(g)
        <4>1. ~Refers(t, d, g) /\ ~Refers(t, d, g)'
          BY <2>1, <2>4, Numbers DEF Refers, Holds
        <4>2. \A u \in Task, e \in Fd : Refers(u, e, g)' <=> Refers(u, e, g)
          BY <3>2, <4>1
        <4> QED
          BY <4>2, HeldSame
      <3> QED
        BY <2>6, <3>4, <3>5, Counted, CountedNext DEF OpenInv
    <2> QED
      BY <2>1, <2>4, <2>6, <2>7, <2>8, <2>9
  <1> QED
    BY <1>1, <1>2

LEMMA DupStep ==
    ASSUME OpenInv, NEW t \in Task, Dup(t)
    PROVE  OpenInv'
  <1>1. PICK old \in Fd, arg \in Fd : Dupfd(t, old, arg)
    <2>1. 0 \in Fd
      BY Numbers DEF Fd
    <2> QED
      BY <2>1 DEF Dup
  <1>2. UNCHANGED <<live, inode, call>>
    BY DEF Dup
  <1>3. t \in live /\ call[t] = NoCall /\ \A d \in Fd : ~Closing(t, d)
    BY UserCall DEF Dup
  <1>4. \A u \in Task, e \in Fd : Closing(u, e)' <=> Closing(u, e)
    BY <1>2 DEF Closing
  <1>5. /\ fd' \in [Task -> [Fd -> File \cup {None}]]
        /\ file' \in [File -> FileRecord]
        /\ \A u \in Task \ {t} : fd'[u] = fd[u]
        /\ \A f \in File, m \in Mem : IsOn(f, m)' <=> IsOn(f, m)
        /\ FilesRight' /\ FilesCounted'
    BY <1>1, <1>3, <1>4, DupfdStep
  <1>6. CallRight(t)'
    BY <1>2, <1>3, NoCallRecord DEF CallRight
  <1>7. CallsRight' /\ DeadHasNothing'
    <2>1. ASSUME NEW u \in Task, u # t PROVE CallRight(u)'
      <3>1. call'[u] = call[u] /\ fd'[u] = fd[u] /\ CallRight(u)
        BY <1>2, <1>5, <2>1 DEF OpenInv, CallsRight
      <3> QED
        BY <3>1 DEF CallRight
    <2>2. CallsRight'
      BY <1>6, <2>1 DEF CallsRight
    <2>3. DeadHasNothing'
      BY <1>2, <1>3, <1>5 DEF OpenInv, DeadHasNothing
    <2> QED
      BY <2>2, <2>3
  <1>8. InodesCounted'
    BY <1>2, <1>5, UsersStand
  <1> QED
    BY <1>2, <1>5, <1>7, <1>8 DEF OpenInv, TypeOK

LEMMA Dup2Step ==
    ASSUME OpenInv, NEW t \in Task, Dup2(t)
    PROVE  OpenInv'
  <1>1. /\ call[t].op = "dup2" /\ call[t].inode = None
        /\ call' = [call EXCEPT ![t] = NoCall]
        /\ UNCHANGED <<live, inode>>
    BY DEF Dup2
  <1>2. call[t].fd \in Fd /\ t \in live
    BY <1>1, NoCallRecord
       DEF OpenInv, TypeOK, Call, CallsRight, CallRight, DeadHasNothing
  <1>3. PICK old \in Fd : Dupfd(t, old, call[t].fd)
    BY DEF Dup2
  <1>4. /\ call' \in [Task -> Call]
        /\ \A u \in Task : call'[u] = IF u = t THEN NoCall ELSE call[u]
    BY <1>1, NoCallRecord DEF OpenInv, TypeOK
  <1>5. \A d \in Fd : ~Closing(t, d)
    BY <1>1 DEF Closing
  <1>6. \A u \in Task, e \in Fd : Closing(u, e)' <=> Closing(u, e)
    BY <1>4, <1>5, NoCallRecord DEF Closing
  <1>7. /\ fd' \in [Task -> [Fd -> File \cup {None}]]
        /\ file' \in [File -> FileRecord]
        /\ \A u \in Task \ {t} : fd'[u] = fd[u]
        /\ \A f \in File, m \in Mem : IsOn(f, m)' <=> IsOn(f, m)
        /\ FilesRight' /\ FilesCounted'
    BY <1>2, <1>3, <1>5, <1>6, DupfdStep
  <1>8. CallRight(t)'
    BY <1>4, NoCallRecord DEF CallRight
  <1>9. CallsRight' /\ DeadHasNothing'
    <2>1. t \in live /\ live' = live /\ call' = [call EXCEPT ![t] = NoCall]
      BY <1>1, <1>2
    <2>2. NoCall \in Call
      BY NoCallRecord
    <2>3. \A u \in Task \ {t} : fd'[u] = fd[u]
      BY <1>7
    <2> QED
      BY <1>8, <2>1, <2>2, <2>3, CallStep
  <1>10. InodesCounted'
    BY <1>1, <1>4, <1>7, NoCallRecord, Numbers, UsersStand
  <1> QED
    BY <1>1, <1>4, <1>7, <1>9, <1>10 DEF OpenInv, TypeOK
-----------------------------------------------------------------------------
LEMMA ExitStep ==
    ASSUME OpenInv, NEW t \in Task, Exit(t)
    PROVE  OpenInv'
  <1>1. /\ call' = [call EXCEPT ![t].op = "exit"]
        /\ UNCHANGED <<live, fd, file, inode>>
    BY DEF Exit
  <1>2. t \in live /\ call[t] = NoCall /\ \A d \in Fd : ~Closing(t, d)
    BY UserCall DEF Exit
  <1>3. PICK c \in Call : /\ c = Suspended("exit", None, None)
                          /\ c.op = "exit" /\ c.fd = None /\ c.inode = None
    BY SuspendedRecord
  <1>4. [NoCall EXCEPT !.op = "exit"] = c
    BY <1>3 DEF NoCall, Suspended
  <1>5. call' = [call EXCEPT ![t] = c]
    BY <1>1, <1>2, <1>4
  <1>6. call'[t] = c
    BY <1>5 DEF OpenInv, TypeOK
  <1>7. CallRight(t)'
    BY <1>3, <1>6, Numbers DEF CallRight
  <1>8. c.inode = call[t].inode
    BY <1>2, <1>3, NoCallRecord
  <1> QED
    BY <1>1, <1>2, <1>3, <1>5, <1>7, <1>8, CallOnly

LEMMA TransferStep ==
    ASSUME OpenInv, NEW t \in Task, Transfer(t)
    PROVE  OpenInv'
  <1>1. PICK d \in Fd :
            /\ fd[t][d] # None
            /\ call' = [call EXCEPT ![t] = [Suspended("transfer", d, None) EXCEPT
                                               !.offset = OfDescriptor(t, d).offset]]
            /\ UNCHANGED <<live, fd, file, inode>>
    BY DEF Transfer, OpenFds
  <1>2. t \in live /\ call[t] = NoCall /\ \A e \in Fd : ~Closing(t, e)
    BY UserCall DEF Transfer
  <1>3. PICK s \in Call : /\ s = Suspended("transfer", d, None)
                          /\ s.op = "transfer" /\ s.fd = d /\ s.inode = None
    BY SuspendedRecord
  <1>4. OfDescriptor(t, d).offset \in Offset
    <2>1. fd[t][d] \in File
      BY <1>1 DEF OpenInv, TypeOK
    <2> QED
      BY <2>1 DEF OpenInv, TypeOK, FileRecord, OfDescriptor
  <1>5. PICK c \in Call : c = [s EXCEPT !.offset = OfDescriptor(t, d).offset]
    <2>1. [s EXCEPT !.offset = OfDescriptor(t, d).offset] \in Call
      BY <1>4 DEF Call
    <2> QED
      BY <2>1
  <1>6. c.op = "transfer" /\ c.fd = d /\ c.inode = None
    BY <1>3, <1>5 DEF Call
  <1>7. call' = [call EXCEPT ![t] = c] /\ call'[t] = c
    BY <1>1, <1>3, <1>5 DEF OpenInv, TypeOK
  <1>8. CallRight(t)'
    BY <1>1, <1>6, <1>7, Numbers DEF CallRight
  <1>9. c.inode = call[t].inode
    BY <1>2, <1>6, NoCallRecord
  <1> QED
    BY <1>1, <1>2, <1>6, <1>7, <1>8, <1>9, CallOnly

\* A step that moves the offset of a file.
LEMMA OffsetStep ==
    ASSUME OpenInv, NEW f \in File, NEW x \in Offset, file[f].count > 0,
           file' = [file EXCEPT ![f].offset = x]
    PROVE  /\ file' \in [File -> FileRecord] /\ FilesRight'
           /\ \A g \in File : /\ file'[g].count = file[g].count
                              /\ file'[g].inode = file[g].inode
           /\ \A g \in File \ {f} : file'[g] = file[g]
           /\ file'[f].offset = x
  <1>1. file \in [File -> FileRecord] /\ file[f] \in FileRecord /\ file[f].count \in Nat
    BY DEF OpenInv, TypeOK, FileRecord
  <1>2. PICK r \in FileRecord : r = [file[f] EXCEPT !.offset = x]
    <2>1. [file[f] EXCEPT !.offset = x] \in FileRecord
      BY <1>1 DEF FileRecord
    <2> QED
      BY <2>1
  <1>3. r.count = file[f].count /\ r.inode = file[f].inode /\ r.offset = x
    BY <1>1, <1>2 DEF FileRecord
  <1>4. file' = [file EXCEPT ![f] = r]
    BY <1>2
  <1>5. /\ file' \in [File -> FileRecord] /\ file'[f] = r
        /\ \A g \in File \ {f} : file'[g] = file[g]
    BY <1>1, <1>4
  <1>6. FilesRight'
    <2>1. FileRight(f)'
      BY <1>1, <1>3, <1>5 DEF OpenInv, FilesRight, FileRight
    <2> QED
      BY <1>5, <2>1 DEF OpenInv, FilesRight, FileRight
  <1> QED
    BY <1>3, <1>5, <1>6

LEMMA AdvancedOffset ==
    ASSUME OpenInv, NEW f \in File, NEW c
    PROVE  Advanced(f, c) \in Offset /\ file[f].offset <= Advanced(f, c)
  <1>1. file[f].offset \in Offset
    BY DEF OpenInv, TypeOK, FileRecord
  <1> QED
    BY <1>1, Numbers DEF Advanced, Offset

LEMMA TransferDoneStep ==
    ASSUME OpenInv, NEW t \in Task, TransferDone(t)
    PROVE  OpenInv'
  <1>1. /\ call[t].op = "transfer" /\ call' = [call EXCEPT ![t] = NoCall]
        /\ UNCHANGED <<live, fd, inode>>
    BY DEF TransferDone
  <1>2. /\ t \in live /\ call[t].fd \in Fd /\ call[t].inode = None
        /\ fd[t][call[t].fd] # None
    BY <1>1, NoCallRecord
       DEF OpenInv, TypeOK, Call, CallsRight, CallRight, DeadHasNothing
  <1>3. PICK f \in File : f = fd[t][call[t].fd]
    BY <1>2 DEF OpenInv, TypeOK
  <1>4. file[f].count > 0
    <2>1. Holds(t, call[t].fd)
      BY <1>1, <1>2 DEF Holds, Closing
    <2> QED
      BY <1>2, <1>3, <2>1, Holder
  <1>5. PICK x \in Offset : file' = [file EXCEPT ![f].offset = x]
    BY <1>3, AdvancedOffset DEF TransferDone
  <1>6. /\ file' \in [File -> FileRecord] /\ FilesRight'
        /\ \A g \in File : /\ file'[g].count = file[g].count
                           /\ file'[g].inode = file[g].inode
    BY <1>4, <1>5, OffsetStep
  <1>7. CallRight(t)'
    BY <1>1, NoCallRecord DEF OpenInv, TypeOK, CallRight
  <1>8. /\ CallsRight' /\ DeadHasNothing' /\ call' \in [Task -> Call]
        /\ \A u \in Task : call'[u] = IF u = t THEN NoCall ELSE call[u]
    BY <1>1, <1>2, <1>7, NoCallRecord, CallStep
  <1>9. FilesCounted'
    <2>1. \A u \in Task, e \in Fd : Closing(u, e)' <=> Closing(u, e)
      BY <1>1, <1>8, NoCallRecord DEF Closing
    <2> QED
      BY <1>1, <1>6, <2>1, HeldStands DEF Holds
  <1>10. InodesCounted'
    <2>1. \A u \in Task, m \in Mem : call'[u].inode = m <=> call[u].inode = m
      BY <1>2, <1>8, NoCallRecord
    <2> QED
      BY <1>1, <1>6, <2>1, UsersStand DEF IsOn
  <1> QED
    BY <1>1, <1>6, <1>8, <1>9, <1>10 DEF OpenInv, TypeOK

LEMMA LseekStep ==
    ASSUME OpenInv, NEW t \in Task, Lseek(t)
    PROVE  OpenInv'
  <1>1. PICK d \in Fd, x \in Offset :
            /\ fd[t][d] # None
            /\ file' = [file EXCEPT ![fd[t][d]].offset = x]
    BY DEF Lseek, OpenFds
  <1>2. UNCHANGED <<live, fd, inode, call>>
    BY DEF Lseek
  <1>3. PICK f \in File : f = fd[t][d]
    BY <1>1 DEF OpenInv, TypeOK
  <1>4. file[f].count > 0
    <2>1. Holds(t, d)
      BY <1>1, UserCall DEF Holds, Lseek
    <2> QED
      BY <1>3, <2>1, Holder
  <1>5. /\ file' \in [File -> FileRecord] /\ FilesRight'
        /\ \A g \in File : /\ file'[g].count = file[g].count
                           /\ file'[g].inode = file[g].inode
    BY <1>1, <1>3, <1>4, OffsetStep
  <1>6. FilesCounted'
    BY <1>2, <1>5, HeldStands DEF Holds, Closing
  <1>7. InodesCounted'
    BY <1>2, <1>5, UsersStand DEF IsOn
  <1> QED
    BY <1>2, <1>5, <1>6, <1>7
       DEF OpenInv, TypeOK, CallsRight, CallRight, DeadHasNothing
-----------------------------------------------------------------------------
LEMMA Another ==
    ASSUME NEW S, IsFiniteSet(S), Cardinality(S) >= 2, NEW x \in S
    PROVE  S \ {x} # {}
  <1>1. IsFiniteSet(S \ {x}) /\ Cardinality(S \ {x}) = Cardinality(S) - 1
    BY FS_RemoveElement
  <1>2. Cardinality(S) \in Nat
    BY FS_CardinalityType
  <1> QED
    BY <1>1, <1>2, FS_EmptySet

LEMMA Pair ==
    ASSUME NEW x, NEW y, x # y
    PROVE  Cardinality({x, y}) = 2
  <1>1. IsFiniteSet({x}) /\ Cardinality({x}) = 1 /\ y \notin {x} /\ {x} \cup {y} = {x, y}
    BY FS_Singleton
  <1>2. Cardinality({x} \cup {y}) = Cardinality({x}) + 1
    BY <1>1, FS_AddElement
  <1> QED
    BY <1>1, <1>2

\* A pipe takes a free inode, two free files and two free descriptors.
PipeTakes(t, m, d1, d2, f1, f2) ==
    /\ inode[m].kind = "free"
    /\ fd[t][d1] = None /\ fd[t][d2] = None /\ d2 # d1
    /\ file[f1].count = 0 /\ file[f2].count = 0 /\ f2 # f1
    /\ inode' = [inode EXCEPT ![m] = NewPipe]
    /\ fd' = [fd EXCEPT ![t][d1] = f1, ![t][d2] = f2]
    /\ file' = [f \in File |-> IF f \in {f1, f2}
                               THEN [count |-> 1, inode |-> m, offset |-> 0]
                               ELSE file[f]]

LEMMA PipeEntries ==
    ASSUME OpenInv, NEW t \in Task, Pipe(t)
    PROVE  \E m \in Mem, d1 \in Fd, d2 \in Fd, f1 \in File, f2 \in File :
            PipeTakes(t, m, d1, d2, f1, f2)
  <1>1. PICK m \in Mem : m = Least(FreeInodes) /\ inode[m].kind = "free"
    <2>1. FreeInodes \in SUBSET Nat /\ FreeInodes # {}
      BY DEF Pipe, FreeInodes, Mem
    <2> QED
      BY <2>1, LeastNumber DEF FreeInodes
  <1>2. PICK d1 \in Fd : d1 = Least(FreeFds(t)) /\ fd[t][d1] = None /\ d1 \in FreeFds(t)
    <2>1. FreeFds(t) \in SUBSET FreeFds(t) /\ FreeFds(t) # {}
      BY FS_EmptySet DEF Pipe
    <2> QED
      BY <2>1, FreeFd
  <1>3. PICK d2 \in Fd : /\ d2 = Least(FreeFds(t) \ {d1}) /\ fd[t][d2] = None
                         /\ d2 # d1
    <2>1. FreeFds(t) \subseteq Fd
      BY Numbers DEF FreeFds, Fd
    <2>2. IsFiniteSet(FreeFds(t)) /\ Cardinality(FreeFds(t)) >= 2
      BY <2>1, Finite DEF Pipe
    <2>3. FreeFds(t) \ {d1} \in SUBSET FreeFds(t) /\ FreeFds(t) \ {d1} # {}
      BY <1>2, <2>2, Another
    <2>4. Least(FreeFds(t) \ {d1}) \in FreeFds(t) \ {d1}
          /\ Least(FreeFds(t) \ {d1}) \in Fd /\ fd[t][Least(FreeFds(t) \ {d1})] = None
      BY <2>3, FreeFd
    <2> QED
      BY <2>4
  <1>4. PICK f1 \in File : /\ f1 = Least(FreeFiles) /\ file[f1].count = 0
                           /\ f1 \in FreeFiles
    <2>0. Cardinality(FreeFiles) >= 2
      BY DEF Pipe
    <2>1. FreeFiles \in SUBSET FreeFiles /\ FreeFiles # {}
      BY <2>0, FS_EmptySet
    <2> QED
      BY <2>1, FreeFileFound
  <1>5. PICK f2 \in File : /\ f2 = Least(FreeFiles \ {f1}) /\ file[f2].count = 0
                           /\ f2 # f1
    <2>1. FreeFiles \subseteq File
      BY Numbers DEF FreeFiles, File
    <2>2. IsFiniteSet(FreeFiles) /\ Cardinality(FreeFiles) >= 2
      BY <2>1, Finite DEF Pipe
    <2>3. FreeFiles \ {f1} \in SUBSET FreeFiles /\ FreeFiles \ {f1} # {}
      BY <1>4, <2>2, Another
    <2>4. Least(FreeFiles \ {f1}) \in FreeFiles \ {f1}
          /\ Least(FreeFiles \ {f1}) \in File /\ file[Least(FreeFiles \ {f1})].count = 0
      BY <2>3, FreeFileFound
    <2> QED
      BY <2>4
  <1>6. /\ inode' = [inode EXCEPT ![m] = NewPipe]
        /\ fd' = [fd EXCEPT ![t][d1] = f1, ![t][d2] = f2]
        /\ file' = [f \in File |-> IF f \in {f1, f2}
                                   THEN [count |-> 1, inode |-> m, offset |-> 0]
                                   ELSE file[f]]
    BY <1>1, <1>2, <1>3, <1>4, <1>5 DEF Pipe
  <1>7. PipeTakes(t, m, d1, d2, f1, f2)
    BY <1>1, <1>2, <1>3, <1>4, <1>5, <1>6 DEF PipeTakes
  <1>8. m \in Mem /\ d1 \in Fd /\ d2 \in Fd /\ f1 \in File /\ f2 \in File
    BY <1>1, <1>2, <1>3, <1>4, <1>5
  <1> QED
    BY <1>7, <1>8

LEMMA PipeStep ==
    ASSUME OpenInv, NEW t \in Task, Pipe(t)
    PROVE  OpenInv'
  <1>0. PICK m \in Mem, d1 \in Fd, d2 \in Fd, f1 \in File, f2 \in File :
            PipeTakes(t, m, d1, d2, f1, f2)
    BY PipeEntries
  <1>1. inode[m].kind = "free"
    BY <1>0 DEF PipeTakes
  <1>2. d1 \in Fd /\ fd[t][d1] = None
    BY <1>0 DEF PipeTakes
  <1>3. d2 \in Fd /\ fd[t][d2] = None /\ d2 # d1
    BY <1>0 DEF PipeTakes
  <1>4. file[f1].count = 0
    BY <1>0 DEF PipeTakes
  <1>5. file[f2].count = 0 /\ f2 # f1
    BY <1>0 DEF PipeTakes
  <1>6. /\ inode' = [inode EXCEPT ![m] = NewPipe]
        /\ fd' = [fd EXCEPT ![t][d1] = f1, ![t][d2] = f2]
        /\ file' = [f \in File |-> IF f \in {f1, f2}
                                   THEN [count |-> 1, inode |-> m, offset |-> 0]
                                   ELSE file[f]]
        /\ UNCHANGED <<live, call>>
    BY <1>0 DEF PipeTakes, Pipe
  <1>7. t \in live /\ call[t] = NoCall /\ \A d \in Fd : ~Closing(t, d)
    BY UserCall DEF Pipe
  <1>8. /\ fd' \in [Task -> [Fd -> File \cup {None}]]
        /\ \A u \in Task, e \in Fd :
               fd'[u][e] = IF u = t /\ e = d1 THEN f1
                           ELSE IF u = t /\ e = d2 THEN f2 ELSE fd[u][e]
        /\ \A u \in Task \ {t} : fd'[u] = fd[u]
    <2>1. fd \in [Task -> [Fd -> File \cup {None}]]
      BY DEF OpenInv, TypeOK
    <2> DEFINE g == [fd[t] EXCEPT ![d1] = f1, ![d2] = f2]
    <2>2. fd' = [fd EXCEPT ![t] = g]
      BY <1>6, <2>1
    <2>3. /\ g \in [Fd -> File \cup {None}]
          /\ \A e \in Fd : g[e] = IF e = d1 THEN f1 ELSE IF e = d2 THEN f2 ELSE fd[t][e]
      BY <1>3, <2>1
    <2> HIDE DEF g
    <2> QED
      BY <2>1, <2>2, <2>3
  <1>9. /\ file' \in [File -> FileRecord]
        /\ \A f \in {f1, f2} : file'[f].count = 1 /\ file'[f].inode = m
        /\ \A f \in File \ {f1, f2} : file'[f] = file[f]
    <2>1. [count |-> 1, inode |-> m, offset |-> 0] \in FileRecord
      BY Numbers DEF FileRecord, Offset
    <2> QED
      BY <1>6, <2>1 DEF OpenInv, TypeOK
  <1>10. FilesRight'
    BY <1>9, Numbers DEF OpenInv, FilesRight, FileRight
  <1>11. CallsRight' /\ DeadHasNothing'
    <2>1. ASSUME NEW u \in Task, u # t PROVE CallRight(u)'
      <3>1. call'[u] = call[u] /\ fd'[u] = fd[u] /\ CallRight(u)
        BY <1>6, <1>8, <2>1 DEF OpenInv, CallsRight
      <3> QED
        BY <3>1 DEF CallRight
    <2>2. CallRight(t)'
      BY <1>6, <1>7, NoCallRecord DEF CallRight
    <2>3. CallsRight'
      BY <2>1, <2>2 DEF CallsRight
    <2>4. DeadHasNothing'
      BY <1>6, <1>7, <1>8 DEF OpenInv, DeadHasNothing
    <2> QED
      BY <2>3, <2>4
  <1>12. FilesCounted'
    <2>1. \A u \in Task, e \in Fd : Closing(u, e)' <=> Closing(u, e)
      BY <1>6 DEF Closing
    <2>2. \A u \in Task, e \in Fd : ~Refers(u, e, f1) /\ ~Refers(u, e, f2)
      BY <1>4, <1>5, FreeFile
    <2>3. \A u \in Task, e \in Fd : Refers(u, e, f1)' <=> (u = t /\ e = d1)
      <3> SUFFICES ASSUME NEW u \in Task, NEW e \in Fd
                   PROVE  Refers(u, e, f1)' <=> (u = t /\ e = d1)
        OBVIOUS
      <3>1. /\ Refers(u, e, f1)' <=> (fd'[u][e] = f1 /\ ~Closing(u, e))
            /\ Refers(u, e, f1) <=> (fd[u][e] = f1 /\ ~Closing(u, e))
        BY <2>1, Numbers DEF Refers, Holds
      <3> QED
        BY <1>3, <1>5, <1>7, <1>8, <2>2, <3>1
    <2>4. \A u \in Task, e \in Fd : Refers(u, e, f2)' <=> (u = t /\ e = d2)
      <3> SUFFICES ASSUME NEW u \in Task, NEW e \in Fd
                   PROVE  Refers(u, e, f2)' <=> (u = t /\ e = d2)
        OBVIOUS
      <3>1. /\ Refers(u, e, f2)' <=> (fd'[u][e] = f2 /\ ~Closing(u, e))
            /\ Refers(u, e, f2) <=> (fd[u][e] = f2 /\ ~Closing(u, e))
        BY <2>1, Numbers DEF Refers, Holds
      <3> QED
        BY <1>3, <1>5, <1>7, <1>8, <2>2, <3>1
    <2>5. Cardinality(Held(f1)') = Cardinality(Held(f1)) + 1
      BY <1>2, <2>2, <2>3, HeldMore
    <2>6. Cardinality(Held(f2)') = Cardinality(Held(f2)) + 1
      <3>1. /\ d2 \in Fd /\ ~Refers(t, d2, f2)
            /\ \A u \in Task, e \in Fd :
                   Refers(u, e, f2)' <=> Refers(u, e, f2) \/ (u = t /\ e = d2)
        BY <1>3, <2>2, <2>4
      <3> QED
        BY <3>1, HeldMore
    <2>7. ASSUME NEW g \in File, g # f1, g # f2
          PROVE  Held(g)' = Held(g)
      <3>1. \A u \in Task, e \in Fd : Refers(u, e, g)' <=> Refers(u, e, g)
        BY <1>2, <1>3, <1>8, <2>1, <2>7, Numbers DEF Refers, Holds
      <3> QED
        BY <3>1, HeldSame
    <2>8. Cardinality(Held(f1)) = 0 /\ Cardinality(Held(f2)) = 0
      BY <1>4, <1>5, Counted DEF OpenInv
    <2>9. ASSUME NEW g \in File PROVE file'[g].count = Cardinality(Held(g)')
      <3>1. CASE g \in {f1, f2}
        BY <1>9, <2>5, <2>6, <2>8, <3>1
      <3>2. CASE g \notin {f1, f2}
        BY <1>9, <2>7, <3>2, Counted DEF OpenInv
      <3> QED
        BY <3>1, <3>2
    <2> QED
      BY <2>9, CountedNext
  <1>13. inode' \in [Mem -> InodeRecord] /\ InodesCounted'
    <2>1. /\ inode[m].count = 0
          /\ \A f \in File : ~IsOn(f, m)
          /\ \A v \in Task : call[v].inode # m
      BY <1>1, FreeOne
    <2>2. NewPipe \in InodeRecord /\ NewPipe.count = 2 /\ NewPipe.kind # "free"
      BY DEF NewPipe, InodeRecord
    <2>3. /\ inode' \in [Mem -> InodeRecord] /\ inode'[m] = NewPipe
          /\ \A u \in Mem \ {m} : inode'[u] = inode[u]
      BY <1>6, <2>2 DEF OpenInv, TypeOK
    <2>4. \A f \in File, u \in Mem :
              IsOn(f, u)' <=> IsOn(f, u) \/ (f \in {f1, f2} /\ u = m)
      <3>1. \A u \in Mem : ~IsOn(f1, u) /\ ~IsOn(f2, u)
        BY <1>4, <1>5 DEF IsOn
      <3> QED
        BY <1>9, <3>1 DEF IsOn
    <2>5. \A u \in Mem : Cardinality(CallsOn(u)') = Cardinality(CallsOn(u))
      BY <1>6, CallsOnSame
    <2>6. \A u \in Mem \ {m} : Cardinality(FilesOn(u)') = Cardinality(FilesOn(u))
      BY <2>4, FilesOnSame
    <2>7. FilesOn(m) = {} /\ FilesOn(m)' = {f1, f2}
      BY <2>1, <2>4 DEF FilesOn
    <2>8. Cardinality(FilesOn(m)) = 0 /\ Cardinality(FilesOn(m)') = 2
      <3>1. f1 # f2
        BY <1>5
      <3>2. Cardinality({f1, f2}) = 2
        BY <3>1, Pair
      <3> QED
        BY <2>7, <3>2, FS_EmptySet
    <2>9. Cardinality(FilesOn(m)') + Cardinality(CallsOn(m)')
              = Cardinality(FilesOn(m)) + Cardinality(CallsOn(m)) + 2
      BY <2>5, <2>8, Counted
    <2>10. /\ inode'[m].count = inode[m].count + 2 /\ 2 \in Int
           /\ inode'[m].kind = "free" <=> inode'[m].count = 0
      BY <2>1, <2>2, <2>3
    <2>11. InodesCounted'
      BY <2>3, <2>5, <2>6, <2>9, <2>10, InodeRecount
    <2> QED
      BY <2>3, <2>11
  <1> QED
    BY <1>6, <1>8, <1>9, <1>10, <1>11, <1>12, <1>13 DEF OpenInv, TypeOK
-----------------------------------------------------------------------------
\* What fork adds to the count of a file is what the child will hold.
Row(t, D) == {t} \X D

LEMMA RowCount ==
    ASSUME NEW t, NEW u, NEW D, IsFiniteSet(D)
    PROVE  IsFiniteSet(Row(u, D)) /\ Cardinality(Row(u, D)) = Cardinality(Row(t, D))
  <1>1. /\ IsFiniteSet({t}) /\ Cardinality({t}) = 1
        /\ IsFiniteSet({u}) /\ Cardinality({u}) = 1
    BY FS_Singleton
  <1> QED
    BY <1>1, FS_Product DEF Row

LEMMA ForkStep ==
    ASSUME OpenInv, NEW t \in Task, Fork(t)
    PROVE  OpenInv'
  <1>1. PICK child \in Task : /\ child \notin live
                              /\ live' = live \cup {child}
                              /\ fd' = [fd EXCEPT ![child] = fd[t]]
    BY DEF Fork
  <1>2. /\ file' = [f \in File |->
                       [file[f] EXCEPT !.count = @ + Cardinality(Uses({t}, f))]]
        /\ UNCHANGED <<inode, call>>
    BY DEF Fork
  <1>3. t \in live /\ call[t] = NoCall /\ \A d \in Fd : ~Closing(t, d)
    BY UserCall DEF Fork
  <1>4. call[child] = NoCall /\ \A d \in Fd : fd[child][d] = None /\ ~Closing(child, d)
    BY <1>1, NoCallRecord DEF OpenInv, DeadHasNothing, Closing
  <1>5. /\ fd' \in [Task -> [Fd -> File \cup {None}]]
        /\ \A u \in Task : fd'[u] = IF u = child THEN fd[t] ELSE fd[u]
    BY <1>1 DEF OpenInv, TypeOK
  <1>6. ASSUME NEW f \in File
        PROVE  /\ Cardinality(Uses({t}, f)) \in Nat
               /\ Cardinality(Held(f)') = Cardinality(Held(f)) + Cardinality(Uses({t}, f))
               /\ file[f].count = 0 => Cardinality(Uses({t}, f)) = 0
    <2> DEFINE D == {e \in Fd : fd[t][e] = f}
    <2>1. IsFiniteSet(D)
      BY Finite
    <2>2. Uses({t}, f) = {t} \X D
      BY DEF Uses
    <2>3. /\ \A u \in Task, e \in Fd :
                 Refers(u, e, f)' <=> (fd'[u][e] = f /\ ~Closing(u, e))
          /\ \A u \in Task, e \in Fd :
                 Refers(u, e, f) <=> (fd[u][e] = f /\ ~Closing(u, e))
      BY <1>2, Numbers DEF Refers, Holds, Closing
    <2>4. ASSUME NEW u \in Task, NEW e \in Fd
          PROVE  Refers(u, e, f)' <=> Refers(u, e, f) \/ (u = child /\ e \in D)
      <3>1. CASE u = child
        <4>1. fd'[u][e] = fd[t][e] /\ ~Closing(u, e)
          BY <1>4, <1>5, <3>1
        <4>2. fd[u][e] # f
          BY <1>4, <3>1, Numbers
        <4> QED
          BY <2>3, <3>1, <4>1, <4>2
      <3>2. CASE u # child
        BY <1>5, <2>3, <3>2
      <3> QED
        BY <3>1, <3>2
    <2>5. \A e \in Fd : ~Refers(child, e, f)
      BY <1>4, Numbers DEF Refers, Holds
    <2>6. Held(f)' = Held(f) \cup ({child} \X D) /\ Held(f) \cap ({child} \X D) = {}
      <3>1. D \subseteq Fd
        OBVIOUS
      <3> HIDE DEF D
      <3> QED
        BY <2>4, <2>5, <3>1 DEF Held
    <2>7. /\ IsFiniteSet(Held(f)) /\ IsFiniteSet({child} \X D)
          /\ Cardinality({child} \X D) = Cardinality(Uses({t}, f))
      <3>1. IsFiniteSet(Held(f))
        BY Finite DEF Held
      <3> HIDE DEF D
      <3>2. /\ IsFiniteSet({child} \X D)
            /\ Cardinality({child} \X D) = Cardinality({t} \X D)
        <4>1. /\ IsFiniteSet(Row(child, D))
              /\ Cardinality(Row(child, D)) = Cardinality(Row(t, D))
          BY <2>1, RowCount
        <4> QED
          BY <4>1 DEF Row
      <3> QED
        BY <2>2, <3>1, <3>2
    <2>8. /\ Cardinality({child} \X D) \in Nat /\ Cardinality(Held(f)) \in Nat
          /\ Cardinality(Held(f)') = Cardinality(Held(f)) + Cardinality({child} \X D)
      <3>1. Cardinality(Held(f) \cap ({child} \X D)) = 0
        BY <2>6, FS_EmptySet
      <3>2. Cardinality(Held(f) \cup ({child} \X D))
              = Cardinality(Held(f)) + Cardinality({child} \X D)
                - Cardinality(Held(f) \cap ({child} \X D))
        <4> HIDE DEF D
        <4> QED
          BY <2>7, FS_Union
      <3>3. Cardinality({child} \X D) \in Nat /\ Cardinality(Held(f)) \in Nat
        <4> HIDE DEF D
        <4> QED
          BY <2>7, FS_CardinalityType
      <3> HIDE DEF D
      <3> QED
        BY <2>6, <3>1, <3>2, <3>3
    <2>9. ASSUME file[f].count = 0 PROVE Cardinality(Uses({t}, f)) = 0
      <3>1. D = {}
        BY <1>3, <2>3, <2>9, FreeFile
      <3>2. Uses({t}, f) = {}
        BY <2>2, <3>1
      <3> QED
        BY <3>2, FS_EmptySet
    <2> HIDE DEF D
    <2> QED
      BY <2>7, <2>8, <2>9
  <1>7. ASSUME NEW f \in File
        PROVE  /\ file'[f] \in FileRecord
               /\ file'[f].count = file[f].count + Cardinality(Uses({t}, f))
               /\ file'[f].inode = file[f].inode
               /\ file[f].count = 0 => file'[f] = file[f]
               /\ file[f].count # 0 => file'[f].count # 0
    <2>1. file[f] \in FileRecord /\ file[f].count \in Nat
      BY DEF OpenInv, TypeOK, FileRecord
    <2>2. PICK n \in Nat : n = file[f].count + Cardinality(Uses({t}, f))
      BY <1>6, <2>1
    <2>3. file'[f] = [file[f] EXCEPT !.count = n]
      BY <1>2, <2>2
    <2>4. [file[f] EXCEPT !.count = n] \in FileRecord
      BY <2>1, <2>2 DEF FileRecord
    <2>5. file'[f].count = n /\ file'[f].inode = file[f].inode
      BY <2>1, <2>3 DEF FileRecord
    <2>6. file[f].count = 0 => n = file[f].count
      BY <1>6, <2>2
    <2>7. [file[f] EXCEPT !.count = file[f].count] = file[f]
      BY <2>1 DEF FileRecord
    <2>8. file[f].count # 0 => n # 0
      BY <1>6, <2>1, <2>2
    <2> QED
      BY <2>2, <2>3, <2>4, <2>5, <2>6, <2>7, <2>8
  <1>8. file' \in [File -> FileRecord]
    <2>1. /\ file' = [f \in File |-> file'[f]]
          /\ \A f \in File : file'[f] \in FileRecord
      BY <1>2, <1>7
    <2> QED
      BY <2>1
  <1>9. FilesRight'
    BY <1>7 DEF OpenInv, FilesRight, FileRight
  <1>10. FilesCounted'
    BY <1>6, <1>7, Counted, CountedNext DEF OpenInv
  <1>11. InodesCounted'
    <2>1. \A f \in File, m \in Mem : IsOn(f, m)' <=> IsOn(f, m)
      <3> SUFFICES ASSUME NEW f \in File, NEW m \in Mem
                   PROVE  IsOn(f, m)' <=> IsOn(f, m)
        OBVIOUS
      <3>1. file[f].count \in Nat /\ file'[f].count \in Nat
        BY <1>7 DEF OpenInv, TypeOK, FileRecord
      <3> QED
        BY <1>7, <3>1 DEF IsOn
    <2> QED
      BY <1>2, <2>1, UsersStand
  <1>12. CallsRight'
    <2> SUFFICES ASSUME NEW u \in Task PROVE CallRight(u)'
      BY DEF CallsRight
    <2>1. CASE u = child
      BY <1>2, <1>4, <2>1, NoCallRecord DEF CallRight
    <2>2. CASE u # child
      <3>1. call'[u] = call[u] /\ fd'[u] = fd[u] /\ CallRight(u)
        BY <1>2, <1>5, <2>2 DEF OpenInv, CallsRight
      <3> QED
        BY <3>1 DEF CallRight
    <2> QED
      BY <2>1, <2>2
  <1>13. DeadHasNothing'
    BY <1>1, <1>2, <1>5 DEF OpenInv, DeadHasNothing
  <1> QED
    BY <1>1, <1>2, <1>5, <1>8, <1>9, <1>10, <1>11, <1>12, <1>13 DEF OpenInv, TypeOK
-----------------------------------------------------------------------------
LEMMA InitInv ==
    ASSUME Init
    PROVE  OpenInv
  <1>1. /\ live = {1}
        /\ \A t \in Task, d \in Fd : fd[t][d] = IF t = 1 /\ d < Std THEN d ELSE None
        /\ \A f \in File : file[f] = IF f < Std THEN [count |-> 1, inode |-> 1, offset |-> 0]
                                     ELSE NoFile
        /\ \A m \in Mem : inode[m] = IF m = 1 THEN [kind |-> "device", nr |-> 0, count |-> Std]
                                     ELSE FreeInode
        /\ \A t \in Task : call[t] = NoCall
    BY DEF Init
  <1>2. TypeOK
    <2>1. live \subseteq Task
      BY <1>1, Numbers
    <2>2. fd \in [Task -> [Fd -> File \cup {None}]]
      BY Numbers DEF Init, Fd, File
    <2>3. file \in [File -> FileRecord]
      <3>1. NoFile \in FileRecord /\ [count |-> 1, inode |-> 1, offset |-> 0] \in FileRecord
        BY Numbers DEF NoFile, FileRecord, Offset
      <3> QED
        BY <3>1 DEF Init
    <2>4. inode \in [Mem -> InodeRecord]
      <3>1. /\ FreeInode \in InodeRecord
            /\ [kind |-> "device", nr |-> 0, count |-> Std] \in InodeRecord
        BY Numbers DEF FreeInode, InodeRecord
      <3> QED
        BY <3>1 DEF Init
    <2>5. call \in [Task -> Call]
      BY NoCallRecord DEF Init
    <2> QED
      BY <2>1, <2>2, <2>3, <2>4, <2>5 DEF TypeOK
  <1>3. CallsRight
    BY <1>1, NoCallRecord DEF CallsRight, CallRight
  <1>4. DeadHasNothing
    BY <1>1 DEF DeadHasNothing
  <1>5. FilesRight
    <2> SUFFICES ASSUME NEW f \in File PROVE FileRight(f)
      BY DEF FilesRight
    <2>1. CASE f < Std
      <3>1. file[f].count = 1 /\ file[f].inode = 1
        BY <1>1, <2>1
      <3> QED
        BY <3>1, Numbers DEF FileRight
    <2>2. CASE ~(f < Std)
      BY <1>1, <2>2 DEF FileRight, NoFile
    <2> QED
      BY <2>1, <2>2
  <1>6. FilesCounted
    <2>1. \A t \in Task, d \in Fd : ~Closing(t, d)
      BY <1>1, NoCallRecord DEF Closing
    <2> SUFFICES ASSUME NEW f \in File PROVE file[f].count = Cardinality(Held(f))
      BY Counted
    <2>2. \A t \in Task, d \in Fd : Refers(t, d, f) <=> fd[t][d] = f
      BY <2>1, Numbers DEF Refers, Holds
    <2>3. CASE f < Std
      <3>1. f \in Fd /\ 1 \in Task
        BY <2>3, Numbers DEF File, Fd
      <3>2. \A t \in Task, d \in Fd : fd[t][d] = f <=> t = 1 /\ d = f
        BY <1>1, <2>3, <3>1, Numbers
      <3>3. Held(f) = {<<1, f>>}
        BY <2>2, <3>1, <3>2 DEF Held
      <3>4. file[f].count = 1
        BY <1>1, <2>3
      <3> QED
        BY <3>3, <3>4, FS_Singleton
    <2>4. CASE ~(f < Std)
      <3>1. \A t \in Task, d \in Fd : fd[t][d] # f
        BY <1>1, <2>4, Numbers
      <3>2. Held(f) = {}
        BY <2>2, <3>1 DEF Held
      <3>3. file[f].count = 0
        BY <1>1, <2>4 DEF NoFile
      <3> QED
        BY <3>2, <3>3, FS_EmptySet
    <2> QED
      BY <2>3, <2>4
  <1>7. InodesCounted
    <2> SUFFICES ASSUME NEW m \in Mem
                 PROVE  /\ inode[m].count = Cardinality(FilesOn(m)) + Cardinality(CallsOn(m))
                        /\ inode[m].kind = "free" <=> inode[m].count = 0
      BY Counted
    <2>1. Cardinality(CallsOn(m)) = 0
      <3>1. CallsOn(m) = {}
        BY <1>1, NoCallRecord, Numbers DEF CallsOn
      <3> QED
        BY <3>1, FS_EmptySet
    <2>2. \A f \in File : IsOn(f, m) <=> f < Std /\ m = 1
      <3> SUFFICES ASSUME NEW f \in File PROVE IsOn(f, m) <=> f < Std /\ m = 1
        OBVIOUS
      <3>1. CASE f < Std
        <4>1. file[f].count = 1 /\ file[f].inode = 1
          BY <1>1, <3>1
        <4> QED
          BY <3>1, <4>1 DEF IsOn
      <3>2. CASE ~(f < Std)
        BY <1>1, <3>2 DEF IsOn, NoFile
      <3> QED
        BY <3>1, <3>2
    <2>3. CASE m = 1
      <3>1. FilesOn(m) = 0 .. Std - 1
        BY <2>2, <2>3, Numbers DEF FilesOn, File
      <3>2. 0 \in Int /\ Std - 1 \in Int
        BY Numbers
      <3>3. Cardinality(0 .. Std - 1) = Std
        BY <3>2, Numbers, FS_Interval
      <3>4. inode[m].count = Std /\ inode[m].kind = "device"
        BY <1>1, <2>3
      <3> QED
        BY <2>1, <3>1, <3>3, <3>4, Numbers
    <2>4. CASE m # 1
      <3>1. FilesOn(m) = {}
        BY <2>2, <2>4 DEF FilesOn
      <3>2. inode[m].count = 0 /\ inode[m].kind = "free"
        BY <1>1, <2>4 DEF FreeInode
      <3> QED
        BY <2>1, <3>1, <3>2, FS_EmptySet
    <2> QED
      BY <2>3, <2>4
  <1> QED
    BY <1>2, <1>3, <1>4, <1>5, <1>6, <1>7 DEF OpenInv

LEMMA NextInv ==
    ASSUME OpenInv, [Next]_vars
    PROVE  OpenInv'
  <1>1. CASE UNCHANGED vars
    <2>1. live' = live /\ fd' = fd /\ file' = file /\ inode' = inode /\ call' = call
      BY <1>1 DEF vars
    <2>2. FilesCounted' /\ InodesCounted'
      BY <2>1 DEF OpenInv, FilesCounted, InodesCounted, Holds, Closing
    <2> QED
      BY <2>1, <2>2
         DEF OpenInv, TypeOK, CallsRight, CallRight, DeadHasNothing, FilesRight, FileRight
  <1>2. CASE Next
    <2>1. PICK t \in Task :
            \/ Open(t) \/ OpenDone(t) \/ OpenFails(t) \/ Pipe(t)
            \/ Close(t) \/ PutDone(t) \/ Dup(t) \/ Dup2(t)
            \/ Fork(t) \/ Exit(t) \/ ExitClose(t)
            \/ Transfer(t) \/ TransferDone(t) \/ Lseek(t)
      BY <1>2 DEF Next
    <2>2. CASE Open(t) \/ OpenDone(t) \/ OpenFails(t) \/ Pipe(t)
      BY <2>2, OpenStep, OpenDoneStep, OpenFailsStep, PipeStep
    <2>3. CASE Close(t) \/ PutDone(t) \/ Dup(t) \/ Dup2(t)
      BY <2>3, CloseStep, PutDoneStep, DupStep, Dup2Step
    <2>4. CASE Fork(t) \/ Exit(t) \/ ExitClose(t)
      BY <2>4, ForkStep, ExitStep, ExitCloseStep
    <2>5. CASE Transfer(t) \/ TransferDone(t) \/ Lseek(t)
      BY <2>5, TransferStep, TransferDoneStep, LseekStep
    <2> QED
      BY <2>1, <2>2, <2>3, <2>4, <2>5
  <1> QED
    BY <1>1, <1>2

LEMMA OpenInvariant == Spec => []OpenInv
  <1>1. Init => OpenInv
    BY InitInv
  <1>2. OpenInv /\ [Next]_vars => OpenInv'
    BY NextInv
  <1> QED
    BY <1>1, <1>2, PTL DEF Spec
-----------------------------------------------------------------------------
\* What a step does to the entries that are in use before and after it.
EntriesKept ==
    /\ \A t \in Task, d \in Fd :
           fd[t][d] # None /\ fd'[t][d] # None => fd'[t][d] = fd[t][d]
    /\ \A f \in File :
           file[f].count > 0 /\ file'[f].count > 0 => file'[f].inode = file[f].inode

OffsetsForward ==
    \A f \in File : file'[f].count > 0 => file[f].offset <= file'[f].offset

LEMMA SameKept ==
    ASSUME OpenInv, \A f \in File : /\ file'[f].inode = file[f].inode
                                    /\ file'[f].offset = file[f].offset,
           \A t \in Task, d \in Fd : fd[t][d] # None => fd'[t][d] = fd[t][d]
    PROVE  EntriesKept /\ OffsetsForward
  <1>1. \A f \in File : file[f].offset \in Nat
    BY Numbers DEF OpenInv, TypeOK, FileRecord, Offset
  <1> QED
    BY <1>1 DEF EntriesKept, OffsetsForward

LEMMA NewKept ==
    ASSUME OpenInv, OpenInv', NEW S \in SUBSET File, \A f \in S : file[f].count = 0,
           \A f \in File \ S : file'[f] = file[f],
           \A t \in Task, d \in Fd : fd[t][d] # None => fd'[t][d] = fd[t][d]
    PROVE  EntriesKept /\ OffsetsForward
  <1>1. \A f \in File : file[f].offset \in Nat /\ file'[f].offset \in Nat
    BY Numbers DEF OpenInv, TypeOK, FileRecord, Offset
  <1>2. \A f \in S : file[f].offset = 0
    BY DEF OpenInv, FilesRight, FileRight, NoFile
  <1>3. EntriesKept
    BY DEF EntriesKept
  <1>4. OffsetsForward
    <2> SUFFICES ASSUME NEW f \in File PROVE file[f].offset <= file'[f].offset
      BY DEF OffsetsForward
    <2>1. CASE f \in S
      BY <1>1, <1>2, <2>1
    <2>2. CASE f \notin S
      BY <1>1, <2>2
    <2> QED
      BY <2>1, <2>2
  <1> QED
    BY <1>3, <1>4

LEMMA PutFileKept ==
    ASSUME OpenInv, NEW t \in Task, NEW c, PutFile(t, c)
    PROVE  EntriesKept /\ OffsetsForward
  <1> DEFINE f == fd[t][c.fd]
  <1>1. file' = IF file[f].count = 1 THEN [file EXCEPT ![f] = NoFile]
                ELSE [file EXCEPT ![f].count = @ - 1]
    BY DEF PutFile
  <1>2. fd' = fd \/ fd' = [fd EXCEPT ![t][c.fd] = None]
    BY DEF PutFile
  <1>3. \A u \in Task, e \in Fd : fd'[u][e] = fd[u][e] \/ fd'[u][e] = None
    BY <1>2 DEF OpenInv, TypeOK
  <1> HIDE DEF f
  <1>4. ASSUME NEW g \in File
        PROVE  \/ file'[g].count = 0
               \/ file'[g].inode = file[g].inode /\ file'[g].offset = file[g].offset
    <2>1. file \in [File -> FileRecord] /\ file[g] \in FileRecord
      BY DEF OpenInv, TypeOK
    <2>2. CASE file[f].count = 1
      <3>1. file' = [file EXCEPT ![f] = NoFile]
        BY <1>1, <2>2
      <3>2. CASE g = f
        BY <2>1, <3>1, <3>2 DEF NoFile
      <3>3. CASE g # f
        BY <2>1, <3>1, <3>3
      <3> QED
        BY <3>2, <3>3
    <2>3. CASE file[f].count # 1
      <3>1. file' = [file EXCEPT ![f].count = file[f].count - 1]
        BY <1>1, <2>3
      <3>2. CASE g = f
        <4>1. file'[g] = [file[g] EXCEPT !.count = file[f].count - 1]
          BY <2>1, <3>1, <3>2
        <4> QED
          BY <2>1, <4>1 DEF FileRecord
      <3>3. CASE g # f
        BY <2>1, <3>1, <3>3
      <3> QED
        BY <3>2, <3>3
    <2> QED
      BY <2>2, <2>3
  <1>5. \A g \in File : file[g].offset \in Nat
    BY Numbers DEF OpenInv, TypeOK, FileRecord, Offset
  <1>6. EntriesKept
    BY <1>3, <1>4 DEF EntriesKept
  <1>7. OffsetsForward
    <2> SUFFICES ASSUME NEW g \in File, file'[g].count > 0
                 PROVE  file[g].offset <= file'[g].offset
      BY DEF OffsetsForward
    <2>1. file'[g].count # 0
      OBVIOUS
    <2> QED
      BY <1>4, <1>5, <2>1
  <1> QED
    BY <1>6, <1>7
\* Every step but lseek only moves offsets on, and no step changes an entry in
\* use.
LEMMA NewFilesKept ==
    ASSUME OpenInv, OpenInv', NEW t \in Task, OpenDone(t) \/ Pipe(t)
    PROVE  EntriesKept /\ OffsetsForward
  <1>0. fd \in [Task -> [Fd -> File \cup {None}]]
    BY DEF OpenInv, TypeOK
  <1>1. CASE OpenDone(t)
    <2>1. PICK f \in File, d \in Fd, offset \in Offset :
              /\ file[f] = NoFile /\ file[f].count = 0 /\ fd[t][d] = None
              /\ fd' = [fd EXCEPT ![t][d] = f]
              /\ file' = [file EXCEPT ![f] = [count |-> 1, inode |-> call[t].inode,
                                              offset |-> offset]]
      BY <1>1, OpenDoneEntries
    <2>2. \A g \in File \ {f} : file'[g] = file[g]
      BY <2>1 DEF OpenInv, TypeOK
    <2>3. \A u \in Task, e \in Fd : fd[u][e] # None => fd'[u][e] = fd[u][e]
      BY <1>0, <2>1
    <2>4. {f} \in SUBSET File /\ \A g \in {f} : file[g].count = 0
      BY <2>1
    <2> QED
      BY <2>2, <2>3, <2>4, NewKept
  <1>2. CASE Pipe(t)
    <2>1. PICK m \in Mem, d1 \in Fd, d2 \in Fd, f1 \in File, f2 \in File :
            PipeTakes(t, m, d1, d2, f1, f2)
      BY <1>2, PipeEntries
    <2>2. \A g \in File \ {f1, f2} : file'[g] = file[g]
      BY <2>1 DEF PipeTakes
    <2>3. \A u \in Task, e \in Fd : fd[u][e] # None => fd'[u][e] = fd[u][e]
      <3> DEFINE g == [fd[t] EXCEPT ![d1] = f1, ![d2] = f2]
      <3>1. fd' = [fd EXCEPT ![t] = g]
        BY <1>0, <2>1 DEF PipeTakes
      <3>2. \A e \in Fd : fd[t][e] # None => g[e] = fd[t][e]
        BY <1>0, <2>1 DEF PipeTakes
      <3> HIDE DEF g
      <3> QED
        BY <1>0, <3>1, <3>2
    <2>4. {f1, f2} \in SUBSET File /\ \A g \in {f1, f2} : file[g].count = 0
      BY <2>1 DEF PipeTakes
    <2> QED
      BY <2>2, <2>3, <2>4, NewKept
  <1> QED
    BY <1>1, <1>2

LEMMA PutKept ==
    ASSUME OpenInv, NEW t \in Task, Close(t) \/ PutDone(t) \/ ExitClose(t)
    PROVE  EntriesKept /\ OffsetsForward
  <1>0. \A f \in File : file[f].offset \in Nat
    BY Numbers DEF OpenInv, TypeOK, FileRecord, Offset
  <1>1. CASE Close(t)
    BY <1>1, PutFileKept DEF Close
  <1>2. CASE PutDone(t)
    <2>1. /\ file' = file
          /\ fd' = fd \/ fd' = [fd EXCEPT ![t][call[t].fd] = None]
      BY <1>2 DEF PutDone
    <2>2. \A u \in Task, e \in Fd : fd'[u][e] = fd[u][e] \/ fd'[u][e] = None
      BY <2>1 DEF OpenInv, TypeOK
    <2> QED
      BY <1>0, <2>1, <2>2 DEF EntriesKept, OffsetsForward
  <1>3. CASE ExitClose(t)
    <2>1. CASE OpenFds(t) # {}
      BY <1>3, <2>1, PutFileKept DEF ExitClose
    <2>2. CASE OpenFds(t) = {}
      <3>1. UNCHANGED <<fd, file>>
        BY <1>3, <2>2 DEF ExitClose
      <3> QED
        BY <3>1, SameKept
    <2> QED
      BY <2>1, <2>2
  <1> QED
    BY <1>1, <1>2, <1>3

LEMMA ShareKept ==
    ASSUME OpenInv, NEW t \in Task, Dup(t) \/ Dup2(t) \/ Fork(t)
    PROVE  EntriesKept /\ OffsetsForward
  <1>1. CASE Dup(t)
    <2>1. PICK old \in Fd, arg \in Fd : Dupfd(t, old, arg)
      <3>1. 0 \in Fd
        BY Numbers DEF Fd
      <3> QED
        BY <1>1, <3>1 DEF Dup
    <2>2. \A d \in Fd : ~Closing(t, d)
      BY <1>1, UserCall DEF Dup
    <2>3. \A u \in Task, e \in Fd : Closing(u, e)' <=> Closing(u, e)
      BY <1>1 DEF Dup, Closing
    <2>4. /\ \A u \in Task, e \in Fd : fd[u][e] # None => fd'[u][e] = fd[u][e]
          /\ \A f \in File : /\ file'[f].inode = file[f].inode
                             /\ file'[f].offset = file[f].offset
      BY <2>1, <2>2, <2>3, DupfdStep
    <2> QED
      BY <2>4, SameKept
  <1>2. CASE Dup2(t)
    <2>1. /\ call[t].op = "dup2" /\ call[t].inode = None
          /\ call' = [call EXCEPT ![t] = NoCall]
      BY <1>2 DEF Dup2
    <2>2. call[t].fd \in Fd
      BY <2>1 DEF OpenInv, TypeOK, Call, CallsRight, CallRight
    <2>3. PICK old \in Fd : Dupfd(t, old, call[t].fd)
      BY <1>2 DEF Dup2
    <2>4. \A d \in Fd : ~Closing(t, d)
      BY <2>1 DEF Closing
    <2>5. \A u \in Task, e \in Fd : Closing(u, e)' <=> Closing(u, e)
      <3>1. \A u \in Task : call'[u] = IF u = t THEN NoCall ELSE call[u]
        BY <2>1 DEF OpenInv, TypeOK
      <3> QED
        BY <2>4, <3>1, NoCallRecord DEF Closing
    <2>6. /\ \A u \in Task, e \in Fd : fd[u][e] # None => fd'[u][e] = fd[u][e]
          /\ \A f \in File : /\ file'[f].inode = file[f].inode
                             /\ file'[f].offset = file[f].offset
      BY <2>2, <2>3, <2>4, <2>5, DupfdStep
    <2> QED
      BY <2>6, SameKept
  <1>3. CASE Fork(t)
    <2>1. PICK child \in Task : child \notin live /\ fd' = [fd EXCEPT ![child] = fd[t]]
      BY <1>3 DEF Fork
    <2>2. \A d \in Fd : fd[child][d] = None
      BY <2>1 DEF OpenInv, DeadHasNothing
    <2>3. \A u \in Task, e \in Fd : fd[u][e] # None => fd'[u][e] = fd[u][e]
      BY <2>1, <2>2 DEF OpenInv, TypeOK
    <2>4. ASSUME NEW f \in File
          PROVE  file'[f].inode = file[f].inode /\ file'[f].offset = file[f].offset
      <3>1. file'[f] = [file[f] EXCEPT !.count = @ + Cardinality(Uses({t}, f))]
        BY <1>3 DEF Fork
      <3>2. file[f] \in FileRecord
        BY DEF OpenInv, TypeOK
      <3> QED
        BY <3>1, <3>2 DEF FileRecord
    <2> QED
      BY <2>3, <2>4, SameKept
  <1> QED
    BY <1>1, <1>2, <1>3

LEMMA MoveKept ==
    ASSUME OpenInv, NEW t \in Task, TransferDone(t) \/ Lseek(t)
    PROVE  EntriesKept /\ (TransferDone(t) => OffsetsForward)
  <1>1. CASE TransferDone(t)
    <2>1. /\ fd' = fd
          /\ file' = [file EXCEPT ![fd[t][call[t].fd]].offset
                          = Advanced(fd[t][call[t].fd], call[t])]
      BY <1>1 DEF TransferDone
    <2>2. PICK f \in File : f = fd[t][call[t].fd]
      BY <1>1 DEF TransferDone, OpenInv, TypeOK, Call, CallsRight, CallRight
    <2>3. \A g \in File : file'[g] = IF g = f
                                     THEN [file[g] EXCEPT !.offset = Advanced(f, call[t])]
                                     ELSE file[g]
      BY <2>1, <2>2 DEF OpenInv, TypeOK
    <2>4. ASSUME NEW g \in File
          PROVE  /\ file'[g].inode = file[g].inode
                 /\ file[g].offset <= file'[g].offset
      <3>1. file[g] \in FileRecord /\ file[g].offset \in Nat
        BY Numbers DEF OpenInv, TypeOK, FileRecord, Offset
      <3>2. CASE g = f
        <4>1. file'[g] = [file[g] EXCEPT !.offset = Advanced(f, call[t])]
          BY <2>3, <3>2
        <4>2. file'[g].inode = file[g].inode /\ file'[g].offset = Advanced(f, call[t])
          BY <3>1, <4>1 DEF FileRecord
        <4> QED
          <5>1. file[f].offset <= Advanced(f, call[t])
            BY AdvancedOffset
          <5> QED
            BY <3>2, <4>2, <5>1
      <3>3. CASE g # f
        <4>1. file'[g] = file[g]
          BY <2>3, <3>3
        <4> QED
          BY <3>1, <4>1
      <3> QED
        BY <3>2, <3>3
    <2> QED
      BY <2>1, <2>4 DEF EntriesKept, OffsetsForward
  <1>2. CASE Lseek(t) /\ ~TransferDone(t)
    <2>1. PICK d \in Fd, x \in Offset : file' = [file EXCEPT ![fd[t][d]].offset = x]
      BY <1>2 DEF Lseek, OpenFds
    <2>2. ASSUME NEW g \in File PROVE file'[g].inode = file[g].inode
      <3>1. file[g] \in FileRecord /\ file \in [File -> FileRecord]
        BY DEF OpenInv, TypeOK
      <3>2. file'[g] = file[g] \/ file'[g] = [file[g] EXCEPT !.offset = x]
        BY <2>1, <3>1
      <3> QED
        BY <3>1, <3>2 DEF FileRecord
    <2>3. fd' = fd
      BY <1>2 DEF Lseek
    <2> QED
      BY <1>2, <2>2, <2>3 DEF EntriesKept
  <1> QED
    BY <1>1, <1>2

LEMMA StepKept ==
    ASSUME OpenInv, OpenInv', Next
    PROVE  EntriesKept /\ (OffsetsForward \/ \E t \in Task : Lseek(t))
  <1>1. PICK t \in Task :
          \/ Open(t) \/ OpenDone(t) \/ OpenFails(t) \/ Pipe(t)
          \/ Close(t) \/ PutDone(t) \/ Dup(t) \/ Dup2(t)
          \/ Fork(t) \/ Exit(t) \/ ExitClose(t)
          \/ Transfer(t) \/ TransferDone(t) \/ Lseek(t)
    BY DEF Next
  <1>2. CASE Open(t) \/ OpenFails(t) \/ Exit(t) \/ Transfer(t)
    <2>1. UNCHANGED <<fd, file>>
      BY <1>2 DEF Open, OpenFails, Exit, Transfer
    <2> QED
      BY <2>1, SameKept
  <1>3. CASE OpenDone(t) \/ Pipe(t)
    BY <1>3, NewFilesKept
  <1>4. CASE Close(t) \/ PutDone(t) \/ ExitClose(t)
    BY <1>4, PutKept
  <1>5. CASE Dup(t) \/ Dup2(t) \/ Fork(t)
    BY <1>5, ShareKept
  <1>6. CASE TransferDone(t) \/ Lseek(t)
    BY <1>6, MoveKept
  <1> QED
    BY <1>1, <1>2, <1>3, <1>4, <1>5, <1>6
LEMMA HolderNext ==
    ASSUME OpenInv', NEW t \in Task, NEW d \in Fd, Holds(t, d)'
    PROVE  fd'[t][d] \in File /\ file'[fd'[t][d]].count > 0
  <1>1. PICK f \in File : f = fd'[t][d]
    BY DEF OpenInv, TypeOK, Holds
  <1>2. PICK S : S = Held(f)'
    OBVIOUS
  <1>3. <<t, d>> \in S
    BY <1>1, <1>2 DEF Held, Refers
  <1>4. IsFiniteSet(S)
    BY <1>2, Finite DEF Held
  <1>5. file'[f].count = Cardinality(S) /\ file'[f].count \in Nat
    BY <1>2, CountedNext DEF OpenInv, TypeOK, FileRecord
  <1>6. file'[f].count # 0
    BY <1>3, <1>4, <1>5, FS_EmptySet
  <1> QED
    BY <1>1, <1>5, <1>6
-----------------------------------------------------------------------------
\* The tables are what they are declared to be, in every state: a descriptor
\* names an entry of file_table or none, a file an entry of inode_table
\* (file.c:9, inode.c:14).
THEOREM OpenFileType == Spec => []TypeOK
  BY OpenInvariant, PTL DEF OpenInv

\* The count of a file is the number of the descriptors that refer to it, and the
\* count of an inode the number of its open files and of the calls that have it:
\* through open, pipe, fork, dup, dup2, exit and closes that wait in iput
\* (file.c:14-48, inode.c:40-81, 180-211, task.c:433-439, 520-527).
THEOREM Counts == Spec => []CountsRight
  <1>1. OpenInv => CountsRight
    BY DEF OpenInv, CountsRight
  <1> QED
    BY <1>1, OpenInvariant, PTL

\* A descriptor refers to the same inode until its task closes it: get_file
\* (file.c:14-26) and get_free_inode never give out an entry that is still in use.
THEOREM Descriptors == Spec => DescriptorsKept
  <1>1. ASSUME OpenInv, OpenInv', [Next]_vars
        PROVE  [\A t \in Task, d \in Fd :
                   Holds(t, d) /\ Holds(t, d)'
                   => file'[fd'[t][d]].inode = file[fd[t][d]].inode]_vars
    <2>1. CASE UNCHANGED vars
      BY <2>1
    <2>2. CASE Next
      <3> SUFFICES ASSUME NEW t \in Task, NEW d \in Fd, Holds(t, d), Holds(t, d)'
                   PROVE  file'[fd'[t][d]].inode = file[fd[t][d]].inode
        OBVIOUS
      <3>1. EntriesKept
        BY <1>1, <2>2, StepKept
      <3>2. PICK f \in File : f = fd[t][d] /\ file[f].count > 0
        BY <1>1, Holder
      <3>3. fd'[t][d] = f
        BY <3>1, <3>2 DEF EntriesKept, Holds
      <3>4. file'[f].count > 0
        BY <1>1, <3>3, HolderNext
      <3> QED
        BY <3>1, <3>2, <3>3, <3>4 DEF EntriesKept
    <2> QED
      BY <1>1, <2>1, <2>2
  <1> QED
    BY <1>1, OpenInvariant, PTL DEF Spec, DescriptorsKept

\* The offset of an open file goes back only by lseek: read and write, which wait
\* between reading and changing it (file.c:130-135, 176-183), add to what it is
\* then.
THEOREM Offsets == Spec => OffsetsAdvance
  <1>1. ASSUME OpenInv, OpenInv', [Next]_vars
        PROVE  [\A f \in File :
                   file'[f].count > 0 /\ file'[f].offset < file[f].offset
                   => \E t \in Task : Lseek(t)]_vars
    <2>1. CASE UNCHANGED vars
      BY <2>1
    <2>2. CASE Next
      <3> SUFFICES ASSUME NEW f \in File, file'[f].count > 0,
                          file'[f].offset < file[f].offset,
                          ~ \E t \in Task : Lseek(t)
                   PROVE  FALSE
        OBVIOUS
      <3>1. file[f].offset <= file'[f].offset
        BY <1>1, <2>2, StepKept DEF OffsetsForward
      <3>2. file[f].offset \in Nat /\ file'[f].offset \in Nat
        BY <1>1, Numbers DEF OpenInv, TypeOK, FileRecord, Offset
      <3> QED
        BY <3>1, <3>2
    <2> QED
      BY <1>1, <2>1, <2>2
  <1> QED
    BY <1>1, OpenInvariant, PTL DEF Spec, OffsetsAdvance
=============================================================================
