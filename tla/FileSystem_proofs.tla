------------------------- MODULE FileSystem_proofs -------------------------
(***************************************************************************)
(* A mounted file system, for all sizes of the disk and of the tables and  *)
(* all sets of tasks, names and devices: first the types and the counts,   *)
(* whatever risks the callers take; then the inodes in memory, the names   *)
(* and the blocks on the disk, when they take none.                        *)
(***************************************************************************)
EXTENDS FileSystem, FiniteSetTheorems, WellFoundedInduction, TLAPS

\* The sizes are numbers.
LEMMA Sizes ==
    /\ NInode \in Nat \ {0} /\ NBlock \in Nat \ {0} /\ NIndex \in Nat \ {0}
    /\ NSlot \in Nat \ {0} /\ NMem \in Nat \ {0} /\ NFile \in Nat \ {0}
    /\ IsFiniteSet(Task) /\ Device \subseteq Nat \ {0}
    /\ Root \in Mem /\ Root \in Inode
  BY FileSystemAssumption DEF Root, Mem, Inode

\* A set of numbers that is not empty has a least element.
LEMMA LeastNumber ==
    ASSUME NEW S \in SUBSET Nat, S # {}
    PROVE  Least(S) \in S
  <1>1. PICK x \in S : \A y \in S : ~(<<y, x>> \in OpToRel(<, Nat))
    BY NatLessThanWellFounded, WFMin
  <1>2. \A y \in S : ~(y < x)
    BY <1>1 DEF OpToRel
  <1>3. \E z \in S : \A y \in S : z <= y
    BY <1>2
  <1> QED
    BY <1>3 DEF Least

LEMMA Finite ==
    /\ IsFiniteSet(Task)
    /\ IsFiniteSet(File)
    /\ \A S \in SUBSET Task : IsFiniteSet(S) /\ Cardinality(S) \in Nat
    /\ \A S \in SUBSET File : IsFiniteSet(S) /\ Cardinality(S) \in Nat
  <1>1. IsFiniteSet(Task) /\ IsFiniteSet(File)
    BY Sizes, FS_Interval DEF File
  <1> QED
    BY <1>1, FS_Subset, FS_CardinalityType
-----------------------------------------------------------------------------
Ind(b) == IF b THEN 1 ELSE 0
Leaves(j) == j.call = "chdir" /\ j.keep # 0
Occ(h, m) == Cardinality({i \in DOMAIN h : h[i] = m})

\* What a task with the working directory w and the locals j holds of inode m.
Refs(w, j, m) == Ind(w = m /\ ~Leaves(j)) + Occ(j.held, m) + Ind(j.keep = m)

Closing(t) == pc[t] = "put" /\ job[t].call = "close"
Users(f) == {t \in Task : fd[t] = f /\ ~Closing(t)}

\* Two sets with the same elements but for one.
LEMMA Differ ==
    ASSUME NEW S, IsFiniteSet(S), NEW T, IsFiniteSet(T), NEW x,
           \A y : y # x => (y \in S <=> y \in T)
    PROVE  /\ Cardinality(T) + Ind(x \in S) = Cardinality(S) + Ind(x \in T)
           /\ Cardinality(S) \in Nat /\ Cardinality(T) \in Nat
           /\ Ind(x \in S) <= Cardinality(S)
  <1>1. S \ {x} = T \ {x}
    OBVIOUS
  <1>2. Cardinality(S) \in Nat /\ Cardinality(T) \in Nat
    BY FS_CardinalityType
  <1>3. IsFiniteSet(S \ {x}) /\ Cardinality(S \ {x}) \in Nat
    BY FS_RemoveElement, FS_CardinalityType
  <1>4. /\ Cardinality(S \ {x}) = IF x \in S THEN Cardinality(S) - 1 ELSE Cardinality(S)
        /\ Cardinality(T \ {x}) = IF x \in T THEN Cardinality(T) - 1 ELSE Cardinality(T)
    BY FS_RemoveElement
  <1> QED
    BY <1>1, <1>2, <1>3, <1>4 DEF Ind

\* A sequence that holds inodes.
LEMMA OccType ==
    ASSUME NEW h \in Seq(Mem), NEW m
    PROVE  /\ Occ(h, m) \in Nat
           /\ IsFiniteSet({i \in DOMAIN h : h[i] = m})
           /\ Occ(h, m) = 0 <=> \A i \in DOMAIN h : h[i] # m
  <1>1. IsFiniteSet(DOMAIN h)
    BY FS_Interval
  <1>2. IsFiniteSet({i \in DOMAIN h : h[i] = m})
    BY <1>1, FS_Subset
  <1> QED
    BY <1>2, FS_CardinalityType, FS_EmptySet DEF Occ

LEMMA OccNone == ASSUME NEW m PROVE Occ(<< >>, m) = 0
  <1>1. {i \in DOMAIN << >> : << >>[i] = m} = {}
    OBVIOUS
  <1> QED
    BY <1>1, FS_EmptySet DEF Occ

LEMMA OccOne == ASSUME NEW a, NEW m PROVE Occ(<<a>>, m) = Ind(a = m)
  <1>1. {i \in DOMAIN <<a>> : <<a>>[i] = m} = IF a = m THEN {1} ELSE {}
    OBVIOUS
  <1> QED
    BY <1>1, FS_EmptySet, FS_Singleton DEF Occ, Ind

\* Sequences of one and two elements.
LEMMA AppendNone ==
    ASSUME NEW S, NEW a \in S
    PROVE  Append(<< >>, a) = <<a>>
  <1> DEFINE One(s) == s \in Seq(S) /\ Len(s) = 1 /\ s[1] = a
  <1>1. << >> \in Seq(S) /\ Len(<< >>) = 0
    OBVIOUS
  <1>2. One(Append(<< >>, a))
    BY <1>1
  <1>3. \A s : One(s) => s = <<a>>
    OBVIOUS
  <1> HIDE DEF One
  <1> QED
    BY <1>2, <1>3, Zenon

LEMMA AppendOne ==
    ASSUME NEW S, NEW a \in S, NEW b \in S
    PROVE  Append(<<b>>, a) = <<b, a>>
  <1> DEFINE Pair(s) == s \in Seq(S) /\ Len(s) = 2 /\ s[1] = b /\ s[2] = a
  <1>1. <<b>> \in Seq(S) /\ Len(<<b>>) = 1 /\ <<b>>[1] = b
    OBVIOUS
  <1>2. Pair(Append(<<b>>, a))
    BY <1>1
  <1>3. \A s : Pair(s) => s = <<b, a>>
    OBVIOUS
  <1> HIDE DEF Pair
  <1> QED
    BY <1>2, <1>3, Zenon

LEMMA Join ==
    ASSUME NEW S, NEW a \in S, NEW b \in S
    PROVE  <<a>> \o <<b>> = <<a,b>>
  <1> DEFINE Pair(s) == s \in Seq(S) /\ Len(s) = 2 /\ s[1] = a /\ s[2] = b
  <1>1. <<a>> \in Seq(S) /\ <<b>> \in Seq(S) /\ Len(<<a>>) = 1 /\ Len(<<b>>) = 1
    OBVIOUS
  <1>2. Pair(<<a>> \o <<b>>)
    BY <1>1
  <1>3. \A s : Pair(s) => s = <<a, b>>
    OBVIOUS
  <1> HIDE DEF Pair
  <1> QED
    BY <1>2, <1>3, Zenon

LEMMA TailPair == ASSUME NEW a, NEW b PROVE Tail(<<a, b>>) = <<b>>
  OBVIOUS

LEMMA OccTwo == ASSUME NEW a, NEW b, NEW m PROVE Occ(<<a, b>>, m) = Ind(a = m) + Ind(b = m)
  <1>1. {i \in DOMAIN <<a, b>> : <<a, b>>[i] = m} =
            IF a = m THEN IF b = m THEN {1, 2} ELSE {1}
            ELSE IF b = m THEN {2} ELSE {}
    OBVIOUS
  <1>2. Cardinality({1, 2}) = 2
    <2>1. {1, 2} = {1} \cup {2}
      OBVIOUS
    <2>2. IsFiniteSet({1}) /\ Cardinality({1}) = 1
      BY FS_Singleton
    <2> QED
      BY <2>1, <2>2, FS_AddElement
  <1>3. Cardinality({1}) = 1 /\ Cardinality({2}) = 1 /\ Cardinality({}) = 0
    BY FS_EmptySet, FS_Singleton
  <1> QED
    BY <1>1, <1>2, <1>3 DEF Occ, Ind
-----------------------------------------------------------------------------
\* The references to a place in memory: of working directories, of open files,
\* and of the calls in progress; and those that the root always has.
Staying(m) == {t \in Task : pwd[t] = m /\ ~Leaves(job[t])}
Opened(m) == {f \in File : file[f].count > 0 /\ file[f].inode = m}
HoldingIn(J, m) == UNION {{<<t, i>> : i \in {k \in DOMAIN J[t].held : J[t].held[k] = m}} : t \in Task}
Holding(m) == HoldingIn(job, m)
Keeping(m) == {t \in Task : job[t].keep = m}
Own(m) == IF m = Root THEN 2 + Cardinality(Task) ELSE 0

References(m) == Cardinality(Staying(m)) + Cardinality(Opened(m)) + Cardinality(Holding(m))
                 + Cardinality(Keeping(m)) + Own(m)

LEMMA CountsEq ==
    /\ CountsRight <=> \A m \in Mem : inode[m].count = References(m)
    /\ CountsRight' <=> \A m \in Mem : inode'[m].count = References(m)'
  BY DEF CountsRight, References, Staying, Opened, Holding, HoldingIn, Keeping, Own, Leaves

\* What task t alone holds of m, and what all the others hold.
HoldingBut(J, t, m) == {x \in HoldingIn(J, m) : x[1] # t}

LEMMA HoldingFinite ==
    ASSUME NEW J \in [Task -> Job], NEW m
    PROVE  IsFiniteSet(HoldingIn(J, m))
  <1> DEFINE row(t) == {<<t, i>> : i \in {k \in DOMAIN J[t].held : J[t].held[k] = m}}
  <1>1. \A t \in Task : IsFiniteSet(row(t))
    <2> SUFFICES ASSUME NEW t \in Task PROVE IsFiniteSet(row(t))
      OBVIOUS
    <2>1. IsFiniteSet({k \in DOMAIN J[t].held : J[t].held[k] = m})
      BY OccType DEF Job
    <2>2. IsFiniteSet({t} \X {k \in DOMAIN J[t].held : J[t].held[k] = m})
      BY <2>1, FS_Singleton, FS_Product
    <2>3. row(t) = {t} \X {k \in DOMAIN J[t].held : J[t].held[k] = m}
      OBVIOUS
    <2> QED
      BY <2>2, <2>3
  <1>2. IsFiniteSet({row(t) : t \in Task})
    <2> DEFINE R == {row(t) : t \in Task}
               f == [t \in Task |-> row(t)]
    <2> HIDE DEF row
    <2>1. f \in Surjection(Task, R)
      <3>1. f \in [Task -> R] /\ \A y \in R : \E t \in Task : f[t] = y
        OBVIOUS
      <3> QED
        BY <3>1 DEF Surjection
    <2> QED
      BY <2>1, Sizes, FS_Surjection
  <1>3. IsFiniteSet(UNION {row(t) : t \in Task})
    BY <1>1, <1>2, FS_UNION
  <1> QED
    BY <1>3 DEF HoldingIn
LEMMA HoldingSplit ==
    ASSUME NEW J \in [Task -> Job], NEW t \in Task, NEW m
    PROVE  /\ Cardinality(HoldingIn(J, m)) = Occ(J[t].held, m) + Cardinality(HoldingBut(J, t, m))
           /\ Occ(J[t].held, m) \in Nat /\ Cardinality(HoldingBut(J, t, m)) \in Nat
           /\ \A u \in Task \ {t} : Occ(J[u].held, m) # 0 => Cardinality(HoldingBut(J, t, m)) > 0
  <1> DEFINE S == {i \in DOMAIN J[t].held : J[t].held[i] = m}
             Row == {x \in HoldingIn(J, m) : x[1] = t}
  <1>1. J[t].held \in Seq(Mem)
    BY DEF Job
  <1>2. IsFiniteSet(S) /\ Cardinality(S) = Occ(J[t].held, m) /\ Cardinality(S) \in Nat
    BY <1>1, OccType DEF Occ
  <1>3. Row = {<<t, i>> : i \in S}
    BY DEF HoldingIn
  <1>4. Cardinality(Row) = Cardinality(S)
    <2> DEFINE f == [i \in S |-> <<t, i>>]
    <2> HIDE DEF S
    <2> DEFINE R == {<<t, i>> : i \in S}
    <2>1. f \in Bijection(S, R)
      <3>1. f \in [S -> R] /\ \A y \in R : \E i \in S : f[i] = y
        OBVIOUS
      <3>2. \A i, k \in S : f[i] = f[k] => i = k
        OBVIOUS
      <3> HIDE DEF f, R
      <3>3. f \in Injection(S, R) /\ f \in Surjection(S, R)
        BY <3>1, <3>2 DEF Injection, Surjection, IsInjective
      <3> QED
        BY <3>3 DEF Bijection
    <2> QED
      BY <1>2, <1>3, <2>1, FS_Bijection DEF ExistsBijection
  <1>5. IsFiniteSet(Row) /\ IsFiniteSet(HoldingBut(J, t, m))
    BY HoldingFinite, FS_Subset DEF HoldingBut
  <1>6. HoldingIn(J, m) = Row \cup HoldingBut(J, t, m) /\ Row \cap HoldingBut(J, t, m) = {}
    BY DEF HoldingBut
  <1>7. Cardinality(HoldingBut(J, t, m)) \in Nat
    BY <1>5, FS_CardinalityType
  <1>8. Cardinality(HoldingIn(J, m)) = Cardinality(Row) + Cardinality(HoldingBut(J, t, m))
    <2> HIDE DEF Row
    <2>1. Cardinality({}) = 0
      BY FS_EmptySet
    <2>2. Cardinality(Row) \in Nat
      BY <1>5, FS_CardinalityType
    <2>3. Cardinality(Row \cup HoldingBut(J, t, m)) =
              Cardinality(Row) + Cardinality(HoldingBut(J, t, m)) - Cardinality(Row \cap HoldingBut(J, t, m))
      BY <1>5, FS_Union
    <2>4. Cardinality(Row \cap HoldingBut(J, t, m)) = 0
      BY <1>6, <2>1
    <2>5. Cardinality(HoldingIn(J, m)) = Cardinality(Row \cup HoldingBut(J, t, m))
      BY <1>6
    <2> QED
      BY <1>7, <2>2, <2>3, <2>4, <2>5
  <1>9. ASSUME NEW u \in Task \ {t}, Occ(J[u].held, m) # 0
        PROVE  Cardinality(HoldingBut(J, t, m)) > 0
    <2>1. J[u].held \in Seq(Mem)
      BY DEF Job
    <2>2. PICK i \in DOMAIN J[u].held : J[u].held[i] = m
      BY <1>9, <2>1, OccType
    <2>3. <<u, i>> \in HoldingBut(J, t, m)
      BY <2>2 DEF HoldingIn, HoldingBut
    <2>4. Cardinality(HoldingBut(J, t, m)) # 0
      BY <1>5, <2>3, FS_EmptySet
    <2> QED
      BY <1>7, <2>4
  <1> QED
    BY <1>2, <1>4, <1>7, <1>8, <1>9
LEMMA RefsType ==
    ASSUME NEW w, NEW j \in Job, NEW m
    PROVE  /\ Refs(w, j, m) \in Nat
           /\ Refs(w, j, m) = Ind(w = m /\ ~Leaves(j)) + Occ(j.held, m) + Ind(j.keep = m)
           /\ Occ(j.held, m) \in Nat
  <1>1. Occ(j.held, m) \in Nat
    BY OccType DEF Job
  <1> QED
    BY <1>1 DEF Refs, Ind

\* A step that changes the working directory and the call of task t, and the
\* file f, changes the references by what these hold.
Moves(t, w, j, f) ==
    /\ t \in Task /\ w \in Mem /\ j \in Job /\ f \in File
    /\ pwd' = [pwd EXCEPT ![t] = w]
    /\ job' = [job EXCEPT ![t] = j]
    /\ \A g \in File \ {f} : file'[g] = file[g]

LEMMA ReferencesNext ==
    ASSUME pwd \in [Task -> Mem], job \in [Task -> Job], NEW t, NEW w, NEW j, NEW f, NEW m,
           Moves(t, w, j, f)
    PROVE  /\ References(m)' + Refs(pwd[t], job[t], m) + Ind(f \in Opened(m))
                = References(m) + Refs(w, j, m) + Ind(f \in Opened(m)')
           /\ References(m) \in Nat /\ References(m)' \in Nat
           /\ Refs(pwd[t], job[t], m) \in Nat /\ Refs(w, j, m) \in Nat
  <1>1. /\ job' \in [Task -> Job] /\ pwd'[t] = w /\ job'[t] = j /\ t \in Task
        /\ \A u \in Task \ {t} : pwd'[u] = pwd[u] /\ job'[u] = job[u]
    BY DEF Moves
  <1>2. /\ Cardinality(Staying(m)') + Ind(t \in Staying(m)) = Cardinality(Staying(m)) + Ind(t \in Staying(m)')
        /\ Cardinality(Staying(m)) \in Nat /\ Cardinality(Staying(m)') \in Nat
    <2>1. IsFiniteSet(Staying(m)) /\ IsFiniteSet(Staying(m)')
      BY Finite DEF Staying
    <2>2. \A u : u # t => (u \in Staying(m) <=> u \in Staying(m)')
      BY <1>1 DEF Staying
    <2> QED
      BY <2>1, <2>2, Differ
  <1>3. /\ Cardinality(Opened(m)') + Ind(f \in Opened(m)) = Cardinality(Opened(m)) + Ind(f \in Opened(m)')
        /\ Cardinality(Opened(m)) \in Nat /\ Cardinality(Opened(m)') \in Nat
    <2>1. IsFiniteSet(Opened(m)) /\ IsFiniteSet(Opened(m)')
      BY Finite DEF Opened
    <2>2. \A g : g # f => (g \in Opened(m) <=> g \in Opened(m)')
      BY DEF Opened, Moves
    <2> QED
      BY <2>1, <2>2, Differ
  <1>4. /\ Cardinality(Keeping(m)') + Ind(t \in Keeping(m)) = Cardinality(Keeping(m)) + Ind(t \in Keeping(m)')
        /\ Cardinality(Keeping(m)) \in Nat /\ Cardinality(Keeping(m)') \in Nat
    <2>1. IsFiniteSet(Keeping(m)) /\ IsFiniteSet(Keeping(m)')
      BY Finite DEF Keeping
    <2>2. \A u : u # t => (u \in Keeping(m) <=> u \in Keeping(m)')
      BY <1>1 DEF Keeping
    <2> QED
      BY <2>1, <2>2, Differ
  <1>5. /\ Cardinality(Holding(m)') + Occ(job[t].held, m) = Cardinality(Holding(m)) + Occ(j.held, m)
        /\ Cardinality(Holding(m)) \in Nat /\ Cardinality(Holding(m)') \in Nat
        /\ Occ(job[t].held, m) \in Nat /\ Occ(j.held, m) \in Nat
    <2>1. HoldingBut(job', t, m) = HoldingBut(job, t, m)
      BY <1>1 DEF HoldingBut, HoldingIn
    <2>2. /\ Cardinality(Holding(m)) = Occ(job[t].held, m) + Cardinality(HoldingBut(job, t, m))
          /\ Occ(job[t].held, m) \in Nat /\ Cardinality(HoldingBut(job, t, m)) \in Nat
      BY <1>1, HoldingSplit DEF Holding
    <2>3. /\ Cardinality(HoldingIn(job', m)) = Occ(j.held, m) + Cardinality(HoldingBut(job', t, m))
          /\ Occ(j.held, m) \in Nat
      BY <1>1, HoldingSplit
    <2> QED
      BY <2>1, <2>2, <2>3 DEF Holding
  <1>6. /\ Ind(t \in Staying(m)) = Ind(pwd[t] = m /\ ~Leaves(job[t]))
        /\ Ind(t \in Staying(m)') = Ind(w = m /\ ~Leaves(j))
        /\ Ind(t \in Keeping(m)) = Ind(job[t].keep = m)
        /\ Ind(t \in Keeping(m)') = Ind(j.keep = m)
    BY <1>1 DEF Staying, Keeping, Ind
  <1>7. Own(m) \in Nat /\ Own(m)' = Own(m)
    BY Finite DEF Own
  <1>8. \A b : Ind(b) \in {0, 1}
    BY DEF Ind
  <1>9. Refs(pwd[t], job[t], m) \in Nat /\ Refs(w, j, m) \in Nat
    BY <1>1, RefsType
  <1>10. References(m) \in Nat /\ References(m)' \in Nat
    BY <1>2, <1>3, <1>4, <1>5, <1>7 DEF References
  <1> QED
    BY <1>2, <1>3, <1>4, <1>5, <1>6, <1>7, <1>8, <1>9, <1>10 DEF References, Refs
-----------------------------------------------------------------------------

\* A place in memory whose inode has been read.
Read(m) == m \in Mem /\ inode[m].desc # 0

\* file->count, and the inode of an open file (sys_open, sys_close, task_fork).
FilesRight ==
    \A f \in File : /\ file[f].count = Cardinality(Users(f))
                    /\ file[f].count > 0 => Read(file[f].inode)

\* A place is in use as long as it is counted, and empty otherwise.
InodesRight ==
    \A m \in Mem : /\ inode[m].used <=> inode[m].count > 0
                   /\ ~inode[m].used => inode[m] = NoInode
                   /\ inode[m].used /\ inode[m].desc = 0 => inode[m].nr # 0

\* The call has a directory, w, and an inode in it.
InDir(w, j) == j.dir = w /\ j.dir # 0 /\ j.keep = 0
OnInode(w, j) == InDir(w, j) /\ j.mem # 0 /\ j.held = <<j.mem, j.dir>>

\* The locals of a call at a place, for a task with the working directory w
\* and the descriptor f.
Shape(w, f, place, j) ==
    /\ place = "user" => j = NoJob
    /\ place \in {"load", "unread"} => OnInode(w, j) /\ (j.nr # 0 => j.call \in Creating)
    /\ place = "linkto" => OnInode(w, j) /\ j.call = "link" /\ j.nr = 0
    /\ place \in {"empty", "ifreed"} => OnInode(w, j) /\ j.call = "rmdir"
    /\ place \in {"trunc", "freed"} => OnInode(w, j) /\ j.call \in {"creat", "unlink", "rmdir"}
    /\ place = "freed" => j.index # 0
    /\ place = "block" => /\ j.index # 0 /\ j.block # 0 /\ j.mem # 0 /\ j.keep = 0
                          /\ \/ j.call = "write" /\ j.held = << >> /\ f # 0
                             \/ j.call = "mkdir" /\ OnInode(w, j)
    /\ place = "add" => /\ InDir(w, j) /\ j.nr = 0
                        /\ \/ j.call \in Creating /\ j.mem = 0 /\ j.held = <<j.dir>>
                           \/ j.call = "link" /\ OnInode(w, j)
    /\ place = "enter" => /\ InDir(w, j) /\ j.call \in Creating /\ j.mem = 0 /\ j.held = <<j.dir>>
                          /\ j.nr # 0 /\ j.slot # 0
    /\ place = "put" => /\ j.held # << >> /\ j.mem = 0 /\ j.dir = 0 /\ j.nr = 0
                        /\ \/ j.call \in {"open", "creat", "chdir"} /\ j.keep # 0
                           \/ j.call \in {"none", "close"} /\ j.keep = 0
                        /\ j.call = "close" => f # 0
                        /\ Leaves(j) => \E i \in DOMAIN j.held : j.held[i] = w
    /\ j.call \in {"open", "creat"} => f = 0

JobsRight ==
    \A t \in Task :
        /\ Shape(pwd[t], fd[t], pc[t], job[t])
        /\ Read(pwd[t])
        /\ job[t].keep # 0 => Read(job[t].keep)
        /\ job[t].mem # 0 /\ pc[t] \notin {"load", "unread"} => Read(job[t].mem)
        /\ pc[t] = "block" /\ job[t].call = "write" => job[t].mem = file[fd[t]].inode

CountInv == TypeOK /\ CountsRight /\ FilesRight /\ InodesRight /\ JobsRight /\ Read(Root)

DiskType ==
    /\ imap \subseteq Inode /\ zmap \subseteq Block
    /\ kind \in [Inode -> {"file", "dir", "device"}]
    /\ nlinks \in [Inode -> 0 .. 255]
    /\ zone \in [Inode -> [Index -> Block \cup Device \cup {0}]]
    /\ entry \in [Inode -> [Slot -> [name : Name \cup {NoName}, nr : 0 .. NInode]]]

LEMMA TypeEq ==
    TypeOK <=> /\ DiskType
               /\ inode \in [Mem -> InodeRecord]
               /\ pwd \in [Task -> Mem]
               /\ file \in [File -> [count : Nat, inode : Mem \cup {0}]]
               /\ fd \in [Task -> File \cup {0}]
               /\ pc \in [Task -> Places]
               /\ job \in [Task -> Job]
  BY DEF TypeOK, DiskType

-----------------------------------------------------------------------------
LEMMA ReferencesType ==
    ASSUME job \in [Task -> Job], NEW m
    PROVE  /\ Cardinality(Staying(m)) \in Nat /\ Cardinality(Opened(m)) \in Nat
           /\ Cardinality(Holding(m)) \in Nat /\ Cardinality(Keeping(m)) \in Nat
           /\ Own(m) \in Nat
           /\ Staying(m) # {} => Cardinality(Staying(m)) > 0
           /\ Opened(m) # {} => Cardinality(Opened(m)) > 0
           /\ Keeping(m) # {} => Cardinality(Keeping(m)) > 0
  <1>1. /\ IsFiniteSet(Staying(m)) /\ IsFiniteSet(Opened(m)) /\ IsFiniteSet(Keeping(m))
        /\ IsFiniteSet(Holding(m))
    BY Finite, HoldingFinite DEF Staying, Opened, Keeping, Holding
  <1>2. Own(m) \in Nat
    BY Finite DEF Own
  <1>3. \A S : IsFiniteSet(S) => Cardinality(S) \in Nat /\ (S # {} => Cardinality(S) # 0)
    BY FS_CardinalityType, FS_EmptySet
  <1> QED
    BY <1>1, <1>2, <1>3

\* Place m has a reference besides those that the call of task t holds.
Other(t, m) ==
    \/ m = Root
    \/ \E u \in Task : pwd[u] = m /\ ~Leaves(job[u])
    \/ \E u \in Task : job[u].keep = m
    \/ \E u \in Task \ {t} : \E i \in DOMAIN job[u].held : job[u].held[i] = m
    \/ \E f \in File : file[f].count > 0 /\ file[f].inode = m

LEMMA CountAbove ==
    ASSUME TypeOK, CountsRight, NEW t \in Task, NEW m \in Mem
    PROVE  /\ inode[m].count \in Nat /\ Occ(job[t].held, m) \in Nat
           /\ inode[m].count >= Occ(job[t].held, m)
           /\ Other(t, m) => inode[m].count > Occ(job[t].held, m)
  <1>0. job \in [Task -> Job] /\ inode[m].count = References(m)
    BY CountsEq DEF TypeOK
  <1>1. /\ Cardinality(Holding(m)) = Occ(job[t].held, m) + Cardinality(HoldingBut(job, t, m))
        /\ Occ(job[t].held, m) \in Nat /\ Cardinality(HoldingBut(job, t, m)) \in Nat
        /\ \A u \in Task \ {t} : Occ(job[u].held, m) # 0 => Cardinality(HoldingBut(job, t, m)) > 0
    BY <1>0, HoldingSplit DEF Holding
  <1>2. /\ Cardinality(Staying(m)) \in Nat /\ Cardinality(Opened(m)) \in Nat
        /\ Cardinality(Keeping(m)) \in Nat /\ Own(m) \in Nat
        /\ Staying(m) # {} => Cardinality(Staying(m)) > 0
        /\ Opened(m) # {} => Cardinality(Opened(m)) > 0
        /\ Keeping(m) # {} => Cardinality(Keeping(m)) > 0
    BY <1>0, ReferencesType
  <1>3. inode[m].count \in Nat /\ inode[m].count >= Occ(job[t].held, m)
    BY <1>0, <1>1, <1>2 DEF References
  <1>4. ASSUME Other(t, m) PROVE inode[m].count > Occ(job[t].held, m)
    <2>1. \/ Own(m) > 0 \/ Cardinality(Staying(m)) > 0 \/ Cardinality(Keeping(m)) > 0
          \/ Cardinality(Opened(m)) > 0 \/ Cardinality(HoldingBut(job, t, m)) > 0
      <3>1. CASE m = Root
        BY <3>1, Finite DEF Own
      <3>2. CASE \E u \in Task : pwd[u] = m /\ ~Leaves(job[u])
        BY <3>2, <1>2 DEF Staying
      <3>3. CASE \E u \in Task : job[u].keep = m
        BY <3>3, <1>2 DEF Keeping
      <3>4. CASE \E u \in Task \ {t} : \E i \in DOMAIN job[u].held : job[u].held[i] = m
        <4>1. PICK u \in Task \ {t} : \E i \in DOMAIN job[u].held : job[u].held[i] = m
          BY <3>4
        <4>2. job[u].held \in Seq(Mem)
          BY <1>0 DEF Job
        <4>3. Occ(job[u].held, m) # 0
          BY <4>1, <4>2, OccType
        <4> QED
          BY <1>1, <4>3
      <3>5. CASE \E f \in File : file[f].count > 0 /\ file[f].inode = m
        BY <3>5, <1>2 DEF Opened
      <3> QED
        BY <1>4, <3>1, <3>2, <3>3, <3>4, <3>5 DEF Other
    <2> QED
      BY <1>0, <1>1, <1>2, <2>1 DEF References
  <1> QED
    BY <1>1, <1>3, <1>4
-----------------------------------------------------------------------------
LEMMA UsersType ==
    ASSUME NEW f
    PROVE  /\ IsFiniteSet(Users(f)) /\ Cardinality(Users(f)) \in Nat
           /\ Cardinality(Users(f)) = 0 <=> Users(f) = {}
  <1>1. IsFiniteSet(Users(f))
    BY Finite DEF Users
  <1> QED
    BY <1>1, FS_CardinalityType, FS_EmptySet

\* The file of a task is open, and its inode read.
LEMMA UserFile ==
    ASSUME TypeOK, FilesRight, NEW t \in Task, fd[t] # 0, ~Closing(t)
    PROVE  /\ fd[t] \in File /\ file[fd[t]].count > 0 /\ Read(file[fd[t]].inode)
           /\ \A u \in Task \ {t} : file[fd[t]].count = 1 => fd[u] # fd[t] \/ Closing(u)
  <1>1. PICK f \in File : f = fd[t]
    BY DEF TypeOK
  <1>2. t \in Users(f)
    BY <1>1 DEF Users
  <1>3. file[f].count = Cardinality(Users(f)) /\ (file[f].count > 0 => Read(file[f].inode))
    BY DEF FilesRight
  <1>4. file[f].count > 0
    BY <1>2, <1>3, UsersType
  <1>5. ASSUME NEW u \in Task \ {t}, file[f].count = 1, fd[u] = f, ~Closing(u) PROVE FALSE
    <2>1. u \in Users(f)
      BY <1>5 DEF Users
    <2>2. \E x : Users(f) = {x}
      BY <1>3, <1>5, UsersType, FS_Singleton
    <2> QED
      BY <1>2, <2>1, <2>2
  <1> QED
    BY <1>1, <1>3, <1>4, <1>5

\* A step that does not touch the files.
LEMMA FilesStand ==
    ASSUME TypeOK, FilesRight, file' = file, fd' = fd,
           \A t \in Task : fd[t] # 0 => (Closing(t)' <=> Closing(t)),
           \A m \in Mem : inode[m].desc # 0 => inode'[m].desc # 0
    PROVE  FilesRight'
  <1>1. \A f \in File : Users(f)' = Users(f)
    BY DEF Users, File
  <1> QED
    BY <1>1 DEF FilesRight, Read

\* Task t goes on at a place with the locals j, and the table of inodes as it
\* is then.
GoesTo(t, place, j) == At(t, place, j) /\ UNCHANGED fileVars

\* That is right when it has in place what the place needs, and when what it
\* gets and gives is counted.
Balanced(t, j) ==
    \A m \in Mem : inode'[m].count + Refs(pwd[t], job[t], m) = inode[m].count + Refs(pwd[t], j, m)

Ready(t, place, j) ==
    /\ t \in Task /\ place \in Places /\ j \in Job
    /\ Shape(pwd[t], fd[t], place, j)
    /\ j.keep # 0 => inode'[j.keep].desc # 0
    /\ j.mem # 0 /\ place \notin {"load", "unread"} => inode'[j.mem].desc # 0
    /\ place = "block" /\ j.call = "write" => j.mem = file[fd[t]].inode
    /\ ~(place = "put" /\ j.call = "close")

TableRight ==
    /\ inode' \in [Mem -> InodeRecord]
    /\ InodesRight'
    /\ \A m \in Mem : inode[m].desc # 0 => inode'[m].desc # 0

LEMMA GoesToInv ==
    ASSUME CountInv, NEW t, NEW place, NEW j, GoesTo(t, place, j), Ready(t, place, j),
           pc[t] # "put", DiskType', TableRight, Balanced(t, j)
    PROVE  CountInv'
  <1>0. /\ TypeOK /\ CountsRight /\ FilesRight /\ InodesRight /\ JobsRight
        /\ t \in Task /\ j \in Job /\ place \in Places
        /\ pwd' = pwd /\ fd' = fd /\ file' = file
        /\ pc' = [pc EXCEPT ![t] = place] /\ job' = [job EXCEPT ![t] = j]
    BY DEF CountInv, GoesTo, At, fileVars, Ready
  <1>1. TypeOK'
    <2>1. pc' \in [Task -> Places] /\ job' \in [Task -> Job]
      BY <1>0 DEF TypeOK
    <2> QED
      BY <1>0, <2>1 DEF TypeOK, DiskType, TableRight
  <1>2. CountsRight'
    <2>1. PICK f : f \in File
      BY Sizes DEF File
    <2>2. pwd \in [Task -> Mem] /\ job \in [Task -> Job]
      BY <1>0 DEF TypeOK
    <2>3. Moves(t, pwd[t], j, f)
      BY <1>0, <2>1, <2>2 DEF Moves
    <2>4. ASSUME NEW m \in Mem PROVE inode'[m].count = References(m)'
      <3>1. /\ References(m)' + Refs(pwd[t], job[t], m) + Ind(f \in Opened(m))
                 = References(m) + Refs(pwd[t], j, m) + Ind(f \in Opened(m)')
            /\ References(m) \in Nat /\ References(m)' \in Nat
            /\ Refs(pwd[t], job[t], m) \in Nat /\ Refs(pwd[t], j, m) \in Nat
        BY <2>2, <2>3, ReferencesNext
      <3>2. Ind(f \in Opened(m)) = Ind(f \in Opened(m)') /\ Ind(f \in Opened(m)) \in Nat
        BY <1>0 DEF Opened, Ind
      <3>3. inode[m].count = References(m)
        BY <1>0, CountsEq
      <3>4. inode'[m].count + Refs(pwd[t], job[t], m) = inode[m].count + Refs(pwd[t], j, m)
        BY DEF Balanced
      <3>5. inode'[m].count \in Nat
        BY <1>1 DEF TypeOK, InodeRecord
      <3> QED
        BY <3>1, <3>2, <3>3, <3>4, <3>5
    <2> QED
      BY <2>4, CountsEq
  <1>3. FilesRight'
    <2>1. \A u \in Task : Closing(u)' <=> Closing(u)
      BY <1>0 DEF Closing, Ready, TypeOK
    <2> QED
      BY <1>0, <2>1, FilesStand DEF TableRight
  <1>4. JobsRight'
    <2> SUFFICES ASSUME NEW u \in Task
                 PROVE  /\ Shape(pwd[u], fd[u], pc'[u], job'[u])
                        /\ Read(pwd[u])'
                        /\ job'[u].keep # 0 => Read(job[u].keep)'
                        /\ job'[u].mem # 0 /\ pc'[u] \notin {"load", "unread"} => Read(job[u].mem)'
                        /\ pc'[u] = "block" /\ job'[u].call = "write" => job'[u].mem = file[fd[u]].inode
      BY <1>0 DEF JobsRight
    <2>1. CASE u = t
      <3>1. pc'[u] = place /\ job'[u] = j
        BY <1>0, <2>1 DEF TypeOK
      <3>2. Read(pwd[u])'
        BY <1>0, <2>1 DEF JobsRight, Read, TableRight
      <3>3. j.keep \in Mem \cup {0} /\ j.mem \in Mem \cup {0}
        BY <1>0 DEF Job
      <3> QED
        BY <1>0, <2>1, <3>1, <3>2, <3>3 DEF Ready, Read
    <2>2. CASE u # t
      <3>1. pc'[u] = pc[u] /\ job'[u] = job[u]
        BY <1>0, <2>2 DEF TypeOK
      <3> QED
        BY <1>0, <3>1 DEF JobsRight, Read, TableRight
    <2> QED
      BY <2>1, <2>2
  <1>5. Read(Root)'
    BY DEF CountInv, Read, TableRight
  <1> QED
    BY <1>1, <1>2, <1>3, <1>4, <1>5 DEF CountInv, TableRight
-----------------------------------------------------------------------------
\* A table of inodes that is right.
TableOK(T) ==
    /\ T \in [Mem -> InodeRecord]
    /\ \A m \in Mem : /\ T[m].used <=> T[m].count > 0
                      /\ ~T[m].used => T[m] = NoInode
                      /\ T[m].used /\ T[m].desc = 0 => T[m].nr # 0

LEMMA TableEq ==
    /\ TypeOK /\ InodesRight => TableOK(inode)
    /\ inode' \in [Mem -> InodeRecord] /\ InodesRight' <=> TableOK(inode')
  BY DEF TypeOK, InodesRight, TableOK

LEMMA MoreOK ==
    ASSUME NEW T, TableOK(T), NEW d \in Mem, T[d].count > 0
    PROVE  /\ TableOK(More(T, d))
           /\ \A m \in Mem : /\ More(T, d)[m].desc = T[m].desc /\ More(T, d)[m].nr = T[m].nr
                             /\ More(T, d)[m].used = T[m].used
                             /\ More(T, d)[m].count = T[m].count + Ind(d = m)
  BY DEF TableOK, More, Ind, InodeRecord

LEMMA FewerMore ==
    ASSUME NEW T \in [Mem -> InodeRecord], NEW d \in Mem, T[d].count > 0
    PROVE  More(Fewer(T, d), d) = T
  <1>1. PICK r \in InodeRecord : r = T[d]
    OBVIOUS
  <1>2. PICK c : c = r.count - 1
    OBVIOUS
  <1>3. c + 1 = r.count
    BY <1>2 DEF InodeRecord
  <1>4. Fewer(T, d) = [T EXCEPT ![d] = [r EXCEPT !.count = c]]
    BY <1>1, <1>2 DEF Fewer
  <1>5. [[r EXCEPT !.count = c] EXCEPT !.count = c + 1] = r
    BY <1>3 DEF InodeRecord
  <1>6. More(Fewer(T, d), d) = [T EXCEPT ![d] = [[r EXCEPT !.count = c] EXCEPT !.count = c + 1]]
    <2>1. Fewer(T, d)[d] = [r EXCEPT !.count = c]
      BY <1>4
    <2>2. [r EXCEPT !.count = c].count = c
      BY DEF InodeRecord
    <2> QED
      BY <1>4, <2>1, <2>2 DEF More
  <1> QED
    BY <1>1, <1>5, <1>6

LEMMA PlaceFound ==
    ASSUME NEW T, NEW nr, Found(T, nr) # {}
    PROVE  /\ Place(T, nr) \in Mem
           /\ \/ T[Place(T, nr)].used /\ T[Place(T, nr)].nr = nr
              \/ ~T[Place(T, nr)].used /\ \A m \in Mem : ~(T[m].used /\ T[m].nr = nr)
  <1>1. Found(T, nr) \in SUBSET Nat
    BY Sizes DEF Found, Mem
  <1>2. Place(T, nr) \in Found(T, nr)
    BY <1>1, LeastNumber DEF Place
  <1> QED
    BY <1>2 DEF Found

LEMMA GettingOK ==
    ASSUME NEW T, TableOK(T), NEW nr \in Inode, Found(T, nr) # {}
    PROVE  LET m == Place(T, nr) IN
           /\ m \in Mem
           /\ TableOK(Getting(T, m, nr))
           /\ \A o \in Mem : /\ Getting(T, m, nr)[o].desc = T[o].desc
                             /\ Getting(T, m, nr)[o].count = T[o].count + Ind(m = o)
  <1>1. PICK m \in Mem : /\ m = Place(T, nr)
                         /\ (T[m].used /\ T[m].nr = nr) \/ ~T[m].used
    BY PlaceFound
  <1>2. nr \in 0 .. NInode /\ nr # 0
    BY Sizes DEF Inode
  <1>3. T[m].count \in Nat /\ T \in [Mem -> InodeRecord] /\ T[m] \in InodeRecord
    BY DEF TableOK, InodeRecord
  <1> DEFINE r == [T[m] EXCEPT !.used = TRUE, !.nr = nr, !.count = @ + 1]
  <1>4. Getting(T, m, nr) = [T EXCEPT ![m] = r]
    BY <1>3 DEF Getting, InodeRecord
  <1>5. r \in InodeRecord /\ r.used /\ r.nr = nr /\ r.desc = T[m].desc /\ r.count = T[m].count + 1
    <2>1. PICK q \in InodeRecord : q = T[m]
      BY <1>3
    <2>2. PICK c \in Nat : c = q.count + 1
      BY DEF InodeRecord
    <2>3. [q EXCEPT !.used = TRUE, !.nr = nr, !.count = @ + 1] \in InodeRecord
      BY <1>2, <2>2 DEF InodeRecord
    <2> QED
      BY <1>2, <2>1, <2>2, <2>3 DEF InodeRecord
  <1>6. \A o \in Mem : Getting(T, m, nr)[o] = IF o = m THEN r ELSE T[o]
    BY <1>3, <1>4
  <1>7. \A o \in Mem : /\ Getting(T, m, nr)[o].desc = T[o].desc
                        /\ Getting(T, m, nr)[o].count = T[o].count + Ind(m = o)
    <2>1. \A o \in Mem : T[o].count \in Nat
      BY DEF TableOK, InodeRecord
    <2> HIDE DEF r
    <2> QED
      BY <1>5, <1>6, <2>1 DEF Ind
  <1>8. Getting(T, m, nr) \in [Mem -> InodeRecord]
    BY <1>3, <1>4, <1>5
  <1>9. TableOK(Getting(T, m, nr))
    <2>1. r.used /\ r.count > 0 /\ r.nr # 0
      BY <1>2, <1>3, <1>5
    <2> HIDE DEF r
    <2> QED
      BY <1>6, <1>8, <2>1 DEF TableOK
  <1> QED
    BY <1>1, <1>7, <1>9
-----------------------------------------------------------------------------
\* What is left of a call when it is done but for what it holds.
Done(j, keep) ==
    [NoJob EXCEPT !.call = IF keep = 0 THEN "none" ELSE j.call, !.keep = keep,
                  !.held = IF keep = 0 THEN j.held ELSE Tail(j.held)]

LEMMA NoJobType == NoJob \in Job
  <1>1. << >> \in Seq(Mem)
    OBVIOUS
  <1>2. 0 \in 0 .. NInode /\ 0 \in 0 .. NBlock
    BY Sizes
  <1> QED
    BY <1>1, <1>2 DEF NoJob, Job

Putting(c, keep, h) == [NoJob EXCEPT !.call = c, !.keep = keep, !.held = h]

LEMMA PutJob ==
    ASSUME NEW c \in Calls \cup {"write", "close", "none"}, NEW keep \in Mem \cup {0}, NEW h \in Seq(Mem)
    PROVE  Putting(c, keep, h) \in Job
  BY NoJobType DEF Job, Putting

LEMMA DoneJob ==
    ASSUME NEW j \in Job, NEW keep \in Mem \cup {0}, keep # 0 => j.held = <<j.mem, j.dir>> /\ j.dir # 0
    PROVE  /\ Done(j, keep) \in Job
           /\ Done(j, keep).call = (IF keep = 0 THEN "none" ELSE j.call)
           /\ Done(j, keep).keep = keep
           /\ Done(j, keep).held = (IF keep = 0 THEN j.held ELSE <<j.dir>>)
           /\ Done(j, keep).mem = 0 /\ Done(j, keep).dir = 0 /\ Done(j, keep).nr = 0
  <1> DEFINE h == IF keep = 0 THEN j.held ELSE Tail(j.held)
             c == IF keep = 0 THEN "none" ELSE j.call
  <1>1. h = (IF keep = 0 THEN j.held ELSE <<j.dir>>)
    BY TailPair
  <1>2. j.held \in Seq(Mem) /\ j.dir \in Mem \cup {0}
    BY DEF Job
  <1>3. h \in Seq(Mem)
    BY <1>1, <1>2
  <1>4. c \in Calls \cup {"write", "close", "none"}
    BY DEF Job
  <1>5. Done(j, keep) = Putting(c, keep, h)
    BY DEF Done, Putting
  <1>6. /\ Done(j, keep) \in Job
        /\ Done(j, keep).call = c /\ Done(j, keep).keep = keep /\ Done(j, keep).held = h
        /\ Done(j, keep).mem = 0 /\ Done(j, keep).dir = 0 /\ Done(j, keep).nr = 0
    <2> HIDE DEF h, c
    <2>1. Putting(c, keep, h) \in Job
      BY <1>3, <1>4, PutJob
    <2> QED
      BY <1>5, <2>1 DEF Putting, NoJob
  <1> QED
    BY <1>1, <1>6

\* A call that has nothing to give away, or gives away the inode it is on.
LEMMA FinishGoes ==
    ASSUME NEW t \in Task, NEW j \in Job, NEW keep \in Mem \cup {0}, Finish(t, j, keep),
           j.keep = 0, j.held # << >>,
           keep # 0 => /\ OnInode(pwd[t], j) /\ keep = j.mem /\ j.call \in {"open", "creat"}
                       /\ fd[t] = 0 /\ inode'[keep].desc # 0
    PROVE  /\ GoesTo(t, "put", Done(j, keep))
           /\ Ready(t, "put", Done(j, keep))
           /\ \A m \in Mem : Refs(pwd[t], Done(j, keep), m) = Refs(pwd[t], j, m)
  <1>1. /\ Done(j, keep) \in Job
        /\ Done(j, keep).call = (IF keep = 0 THEN "none" ELSE j.call)
        /\ Done(j, keep).keep = keep
        /\ Done(j, keep).held = (IF keep = 0 THEN j.held ELSE <<j.dir>>)
        /\ Done(j, keep).mem = 0 /\ Done(j, keep).dir = 0 /\ Done(j, keep).nr = 0
    BY DoneJob DEF OnInode, InDir
  <1>2. Done(j, keep).held # << >>
    BY <1>1
  <1>3. GoesTo(t, "put", Done(j, keep))
    <2>1. Resume(t, Done(j, keep), file)
      BY DEF Finish, Done
    <2> QED
      BY <1>2, <2>1 DEF Resume, GoesTo, fileVars
  <1>4. ~Leaves(Done(j, keep)) /\ ~Leaves(j)
    BY <1>1 DEF Leaves
  <1>5. Ready(t, "put", Done(j, keep))
    BY <1>1, <1>2, <1>4 DEF Ready, Shape, Places
  <1>6. ASSUME NEW m \in Mem PROVE Refs(pwd[t], Done(j, keep), m) = Refs(pwd[t], j, m)
    <2>1. CASE keep = 0
      BY <1>1, <1>4, <2>1 DEF Refs
    <2>2. CASE keep # 0
      <3>0. j.held = <<j.mem, j.dir>> /\ Done(j, keep).held = <<j.dir>>
        BY <1>1, <2>2 DEF OnInode
      <3>1. /\ Occ(j.held, m) = Ind(j.mem = m) + Ind(j.dir = m)
            /\ Occ(Done(j, keep).held, m) = Ind(j.dir = m)
        BY <3>0, OccOne, OccTwo
      <3>2. m # 0
        BY DEF Mem
      <3>3. /\ Refs(pwd[t], j, m) = Ind(pwd[t] = m) + (Ind(j.mem = m) + Ind(j.dir = m)) + 0
            /\ Refs(pwd[t], Done(j, keep), m) = Ind(pwd[t] = m) + Ind(j.dir = m) + Ind(j.mem = m)
        BY <1>1, <1>4, <2>2, <3>1, <3>2 DEF Refs, Ind
      <3>4. Ind(pwd[t] = m) \in Nat /\ Ind(j.mem = m) \in Nat /\ Ind(j.dir = m) \in Nat
        BY DEF Ind
      <3> QED
        BY <3>3, <3>4
    <2> QED
      BY <2>1, <2>2
  <1> QED
    BY <1>3, <1>5, <1>6
-----------------------------------------------------------------------------
\* Task t goes on with the locals j, or with others that hold as much.
GoesOn(t, j) ==
    \E place, k : /\ GoesTo(t, place, k) /\ Ready(t, place, k)
                  /\ \A m \in Mem : Refs(pwd[t], k, m) = Refs(pwd[t], j, m)

\* The call with the locals j has just got its inode.
Gets(t, j) ==
    /\ t \in Task /\ j \in Job /\ pwd[t] \in Mem
    /\ OnInode(pwd[t], j)
    /\ j.nr # 0 => j.call \in Creating
    /\ j.call \in {"open", "creat"} => fd[t] = 0
    /\ inode'[j.mem].desc # 0
    /\ inode'[pwd[t]].desc # 0

LEMMA AbortGoes ==
    ASSUME NEW t \in Task, NEW j \in Job, j.keep = 0, j.held # << >>, Finish(t, j, 0)
    PROVE  GoesOn(t, j)
  BY FinishGoes DEF GoesOn

LEMMA StaysOn ==
    ASSUME NEW t, NEW place, NEW j, At(t, place, j), UNCHANGED fileVars, Ready(t, place, j)
    PROVE  GoesOn(t, j)
  BY DEF GoesOn, GoesTo

LEMMA GetsHeld ==
    ASSUME NEW t, NEW j, Gets(t, j)
    PROVE  /\ t \in Task /\ j \in Job /\ j.keep = 0 /\ j.held # << >> /\ j.held = <<j.mem, j.dir>>
           /\ j.mem \in Mem /\ j.dir = pwd[t] /\ j.dir \in Mem
  BY DEF Gets, OnInode, InDir, Job

LEMMA OpenFoundOK ==
    ASSUME NEW t, NEW j, NEW n, Gets(t, j), OpenFound(t, j, n), DiskType
    PROVE  GoesOn(t, j) /\ DiskType'
  <1>1. DiskType'
    BY DEF OpenFound, diskVars, DiskType
  <1>2. PICK keep : Finish(t, j, keep) /\ keep = (IF Permitted(n) THEN j.mem ELSE 0)
    BY DEF OpenFound
  <1>3. CASE keep = 0
    BY <1>1, <1>2, <1>3, GetsHeld, AbortGoes
  <1>4. CASE keep # 0
    <2>1. keep = j.mem /\ j.call = "open"
      BY <1>2, <1>4 DEF OpenFound
    <2> QED
      BY <1>1, <1>2, <1>4, <2>1, GetsHeld, FinishGoes DEF GoesOn, Gets
  <1> QED
    BY <1>3, <1>4

LEMMA TruncOK ==
    ASSUME NEW t, NEW j, Gets(t, j), At(t, "trunc", j), UNCHANGED fileVars,
           j.call \in {"creat", "unlink", "rmdir"}
    PROVE  GoesOn(t, j)
  <1>1. Ready(t, "trunc", j)
    BY GetsHeld DEF Ready, Shape, Gets, Places
  <1> QED
    BY <1>1, StaysOn

LEMMA CreatFoundOK ==
    ASSUME NEW t, NEW j, NEW n, Gets(t, j), CreatFound(t, j, n), DiskType
    PROVE  GoesOn(t, j) /\ DiskType'
  <1>1. j.call = "creat" /\ (Abort(t, j) \/ (At(t, "trunc", j) /\ UNCHANGED <<diskVars, fileVars>>))
    BY DEF CreatFound
  <1>2. DiskType'
    BY <1>1 DEF Abort, diskVars, DiskType
  <1> QED
    BY <1>1, <1>2, TruncOK, AbortGoes, GetsHeld DEF Abort

LEMMA RmdirOK ==
    ASSUME NEW t, NEW j, NEW n, NEW count, Gets(t, j), Rmdir(t, j, n, count), DiskType
    PROVE  GoesOn(t, j) /\ DiskType'
  <1>1. j.call = "rmdir" /\ (Abort(t, j) \/ (At(t, "empty", j) /\ UNCHANGED <<diskVars, fileVars>>))
    BY DEF Rmdir
  <1>2. DiskType'
    BY <1>1 DEF Abort, diskVars, DiskType
  <1>3. CASE Abort(t, j)
    BY <1>2, <1>3, AbortGoes, GetsHeld DEF Abort
  <1>4. CASE At(t, "empty", j) /\ UNCHANGED <<diskVars, fileVars>>
    <2>1. Ready(t, "empty", j)
      BY <1>1, GetsHeld DEF Ready, Shape, Gets, Places
    <2> QED
      BY <1>2, <1>4, <2>1, StaysOn
  <1> QED
    BY <1>1, <1>3, <1>4

LEMMA LinkFoundOK ==
    ASSUME NEW t, NEW j, NEW n, Gets(t, j), LinkFound(t, j, n), DiskType, j.nr = 0
    PROVE  GoesOn(t, j) /\ DiskType'
  <1>1. j.call = "link" /\ (Abort(t, j) \/ (At(t, "linkto", j) /\ UNCHANGED <<diskVars, fileVars>>))
    BY DEF LinkFound
  <1>2. DiskType'
    BY <1>1 DEF Abort, diskVars, DiskType
  <1>3. CASE Abort(t, j)
    BY <1>2, <1>3, AbortGoes, GetsHeld DEF Abort
  <1>4. CASE At(t, "linkto", j) /\ UNCHANGED <<diskVars, fileVars>>
    <2>1. Ready(t, "linkto", j)
      BY <1>1, GetsHeld DEF Ready, Shape, Gets, Places
    <2> QED
      BY <1>2, <1>4, <2>1, StaysOn
  <1> QED
    BY <1>1, <1>3, <1>4
\* chdir gives its inode away, and holds the directory that it leaves once more.
LEMMA ChdirOK ==
    ASSUME NEW t, NEW j, NEW n, Gets(t, j), Chdir(t, j, n), DiskType
    PROVE  GoesOn(t, j) /\ DiskType'
  <1>1. j.call = "chdir" /\ DiskType'
    BY DEF Chdir, Abort, diskVars, DiskType
  <1> DEFINE k == Putting("chdir", j.mem, <<j.dir, pwd[t]>>)
  <1>2. CASE Abort(t, j)
    BY <1>1, <1>2, AbortGoes, GetsHeld DEF Abort
  <1>3. CASE Resume(t, k, file)
    <2>1. /\ j.mem \in Mem /\ j.mem # 0 /\ j.dir = pwd[t] /\ j.dir \in Mem /\ j.dir # 0
          /\ j.keep = 0 /\ j.held = <<j.mem, j.dir>>
      BY GetsHeld DEF Mem
    <2>2. <<j.dir, pwd[t]>> \in Seq(Mem)
      BY <2>1
    <2>3. /\ k \in Job /\ k.call = "chdir" /\ k.keep = j.mem /\ k.held = <<j.dir, pwd[t]>>
          /\ k.mem = 0 /\ k.dir = 0 /\ k.nr = 0
      <3>1. "chdir" \in Calls \cup {"write", "close", "none"} /\ j.mem \in Mem \cup {0}
        BY <2>1 DEF Calls
      <3>2. k \in Job
        BY <2>2, <3>1, PutJob
      <3> QED
        BY <3>2 DEF Putting, NoJob
    <2> HIDE DEF k
    <2>4. GoesTo(t, "put", k)
      BY <1>3, <2>3 DEF Resume, GoesTo, fileVars
    <2>5. Ready(t, "put", k)
      <3>1. k.held[2] = pwd[t] /\ 2 \in DOMAIN k.held
        BY <2>3
      <3>2. Shape(pwd[t], fd[t], "put", k)
        BY <2>1, <2>3, <3>1 DEF Shape
      <3> QED
        BY <2>1, <2>3, <3>2 DEF Ready, Gets, Places
    <2>6. ASSUME NEW m \in Mem PROVE Refs(pwd[t], k, m) = Refs(pwd[t], j, m)
      <3>1. m # 0
        BY DEF Mem
      <3>2. /\ Occ(j.held, m) = Ind(j.mem = m) + Ind(pwd[t] = m)
            /\ Occ(k.held, m) = Ind(pwd[t] = m) + Ind(pwd[t] = m)
        BY <2>1, <2>3, OccTwo
      <3>3. /\ Refs(pwd[t], j, m) = Ind(pwd[t] = m) + (Ind(j.mem = m) + Ind(pwd[t] = m)) + 0
            /\ Refs(pwd[t], k, m) = 0 + (Ind(pwd[t] = m) + Ind(pwd[t] = m)) + Ind(j.mem = m)
        BY <2>1, <2>3, <3>1, <3>2 DEF Refs, Ind, Leaves
      <3>4. Ind(pwd[t] = m) \in Nat /\ Ind(j.mem = m) \in Nat
        BY DEF Ind
      <3> QED
        BY <3>3, <3>4
    <2> QED
      BY <1>1, <2>4, <2>5, <2>6 DEF GoesOn
  <1> QED
    BY <1>2, <1>3 DEF Chdir, Putting

LEMMA NoEntryType == NoEntry \in [name : Name \cup {NoName}, nr : 0 .. NInode]
  BY Sizes DEF NoEntry

\* nlinks keeps its width.
LEMMA Width == ASSUME NEW a \in 0 .. 255 PROVE (a + 1) % 256 \in 0 .. 255 /\ (a + 255) % 256 \in 0 .. 255
  OBVIOUS

LEMMA UnlinkOK ==
    ASSUME NEW t, NEW j, NEW n \in Inode, Gets(t, j), Unlink(t, j, n), DiskType
    PROVE  GoesOn(t, j) /\ DiskType'
  <1>1. j.call = "unlink"
    BY DEF Unlink
  <1>2. CASE Abort(t, j)
    <2>1. DiskType'
      BY <1>2 DEF Abort, diskVars, DiskType
    <2> QED
      BY <1>2, <2>1, AbortGoes, GetsHeld DEF Abort
  <1>3. CASE ~Abort(t, j)
    <2>1. /\ entry' = [entry EXCEPT ![Dir(j)][j.slot] = NoEntry]
          /\ nlinks' = [nlinks EXCEPT ![n] = (@ + 255) % 256]
          /\ (At(t, "trunc", j) /\ UNCHANGED fileVars) \/ Finish(t, j, 0)
          /\ UNCHANGED <<imap, zmap, kind, zone>>
      BY <1>3 DEF Unlink
    <2>2. nlinks' \in [Inode -> 0 .. 255]
      <3>1. PICK v \in 0 .. 255 : v = (nlinks[n] + 255) % 256
        BY Width DEF DiskType
      <3>2. nlinks' = [nlinks EXCEPT ![n] = v]
        BY <2>1, <3>1
      <3> QED
        BY <3>2 DEF DiskType
    <2>3. entry' \in [Inode -> [Slot -> [name : Name \cup {NoName}, nr : 0 .. NInode]]]
      <3>1. PICK e \in [name : Name \cup {NoName}, nr : 0 .. NInode] : e = NoEntry
        BY NoEntryType
      <3>2. PICK d : d = Dir(j)
        OBVIOUS
      <3> QED
        BY <2>1, <3>1, <3>2 DEF DiskType
    <2>4. DiskType'
      BY <2>1, <2>2, <2>3 DEF DiskType
    <2> QED
      BY <1>1, <2>1, <2>4, TruncOK, AbortGoes, GetsHeld
  <1> QED
    BY <1>2, <1>3

LEMMA NewFileOK ==
    ASSUME NEW t, NEW j, NEW n \in Inode, Gets(t, j), NewFile(t, j, n), DiskType
    PROVE  GoesOn(t, j) /\ DiskType'
  <1>1. /\ nlinks' = [nlinks EXCEPT ![n] = 1]
        /\ UNCHANGED <<imap, zmap, entry>>
    BY DEF NewFile
  <1>2. nlinks' \in [Inode -> 0 .. 255]
    BY <1>1 DEF DiskType
  <1>3. CASE j.call = "creat"
    <2>1. kind' = [kind EXCEPT ![n] = "file"] /\ At(t, "trunc", j) /\ UNCHANGED <<zone, fileVars>>
      BY <1>3 DEF NewFile
    <2>2. DiskType'
      BY <1>1, <1>2, <2>1 DEF DiskType
    <2> QED
      BY <1>3, <2>1, <2>2, TruncOK
  <1>4. CASE j.call # "creat"
    <2>1. PICK dev \in Device : zone' = [zone EXCEPT ![n][1] = dev]
      BY <1>4 DEF NewFile
    <2>2. kind' = [kind EXCEPT ![n] = "device"] /\ Finish(t, j, 0)
      BY <1>4 DEF NewFile
    <2>3. zone' \in [Inode -> [Index -> Block \cup Device \cup {0}]]
      BY <2>1 DEF DiskType
    <2>4. DiskType'
      BY <1>1, <1>2, <2>2, <2>3 DEF DiskType
    <2> QED
      BY <2>2, <2>4, AbortGoes, GetsHeld
  <1> QED
    BY <1>3, <1>4

LEMMA FreeBlockFound ==
    ASSUME Block \ zmap # {}
    PROVE  Least(Block \ zmap) \in Block \ zmap
  BY LeastNumber, Sizes DEF Block

LEMMA NewDirectoryOK ==
    ASSUME NEW t, NEW j, NEW n \in Inode, Gets(t, j), NewDirectory(t, j, n), DiskType
    PROVE  GoesOn(t, j) /\ DiskType'
  <1>1. /\ j.call = "mkdir"
        /\ kind' = [kind EXCEPT ![n] = "dir"]
        /\ nlinks' = [[nlinks EXCEPT ![n] = 2] EXCEPT ![Dir(j)] = (@ + 1) % 256]
        /\ entry' = [entry EXCEPT ![n] = [s \in Slot |-> NoEntry]]
        /\ (Balloc(t, j, 1) /\ UNCHANGED fileVars) \/ (Finish(t, j, 0) /\ UNCHANGED zmap)
        /\ UNCHANGED <<imap, zone>>
    BY DEF NewDirectory
  <1>2. nlinks' \in [Inode -> 0 .. 255]
    <2>0. [nlinks EXCEPT ![n] = 2] \in [Inode -> 0 .. 255]
      BY DEF DiskType
    <2>1. PICK N \in [Inode -> 0 .. 255] : N = [nlinks EXCEPT ![n] = 2]
      BY <2>0
    <2>2. PICK d : d = Dir(j)
      OBVIOUS
    <2>3. nlinks' = [N EXCEPT ![d] = (N[d] + 1) % 256]
      BY <1>1, <2>1, <2>2
    <2>4. d \in Inode => (N[d] + 1) % 256 \in 0 .. 255
      BY Width
    <2> QED
      BY <2>3, <2>4
  <1>3. entry' \in [Inode -> [Slot -> [name : Name \cup {NoName}, nr : 0 .. NInode]]]
    BY <1>1, NoEntryType DEF DiskType
  <1>4. CASE Finish(t, j, 0) /\ UNCHANGED zmap
    <2>1. DiskType'
      BY <1>1, <1>2, <1>3, <1>4 DEF DiskType
    <2> QED
      BY <1>4, <2>1, AbortGoes, GetsHeld
  <1>5. CASE Balloc(t, j, 1) /\ UNCHANGED fileVars
    <2>1. PICK b : b = Least(Block \ zmap)
      OBVIOUS
    <2>2. b \in Block /\ zmap' = zmap \cup {b} /\ At(t, "block", [j EXCEPT !.index = 1, !.block = b])
      BY <1>5, <2>1, FreeBlockFound DEF Balloc
    <2>3. DiskType'
      BY <1>1, <1>2, <1>3, <2>2 DEF DiskType
    <2> DEFINE k == [j EXCEPT !.index = 1, !.block = b]
    <2>4. /\ k \in Job /\ k.index # 0 /\ k.block # 0 /\ k.call = j.call /\ k.mem = j.mem /\ k.dir = j.dir
          /\ k.nr = j.nr /\ k.held = j.held /\ k.keep = j.keep
      <3>1. j \in Job /\ 1 \in Index /\ b \in 0 .. NBlock /\ b # 0
        BY <2>2, Sizes, GetsHeld DEF Block, Index
      <3>2. k \in Job
        BY <3>1 DEF Job
      <3> QED
        BY <3>1, <3>2 DEF Job
    <2> HIDE DEF k
    <2>5. Ready(t, "block", k)
      <3>1. OnInode(pwd[t], k)
        BY <2>4 DEF Gets, OnInode, InDir
      <3>2. Shape(pwd[t], fd[t], "block", k)
        BY <1>1, <2>4, <3>1 DEF Shape, OnInode, InDir
      <3> QED
        BY <1>1, <2>4, <3>1, <3>2 DEF Ready, Gets, Places, OnInode, InDir
    <2>6. \A m : Refs(pwd[t], k, m) = Refs(pwd[t], j, m)
      BY <2>4 DEF Refs, Leaves
    <2>7. GoesTo(t, "block", k)
      BY <1>5, <2>2 DEF GoesTo, k
    <2> QED
      BY <2>3, <2>5, <2>6, <2>7 DEF GoesOn
  <1> QED
    BY <1>1, <1>4, <1>5
-----------------------------------------------------------------------------
LEMMA GoesOnInv ==
    ASSUME CountInv, NEW t \in Task, NEW j, GoesOn(t, j), DiskType', TableRight, Balanced(t, j),
           pc[t] # "put"
    PROVE  CountInv'
  <1>1. PICK place, k : /\ GoesTo(t, place, k) /\ Ready(t, place, k)
                        /\ \A m \in Mem : Refs(pwd[t], k, m) = Refs(pwd[t], j, m)
    BY DEF GoesOn
  <1>2. Balanced(t, k)
    BY <1>1 DEF Balanced
  <1> QED
    BY <1>1, <1>2, GoesToInv

LEMMA GotOK ==
    ASSUME NEW t, NEW j, NEW n \in Inode, NEW count, Gets(t, j), Got(t, j, n, count), DiskType
    PROVE  GoesOn(t, j) /\ DiskType'
  <1>1. CASE OpenFound(t, j, n)
    BY <1>1, OpenFoundOK
  <1>2. CASE CreatFound(t, j, n)
    BY <1>2, CreatFoundOK
  <1>3. CASE Chdir(t, j, n)
    BY <1>3, ChdirOK
  <1>4. CASE Rmdir(t, j, n, count)
    BY <1>4, RmdirOK
  <1>5. CASE Unlink(t, j, n)
    BY <1>5, UnlinkOK
  <1>6. CASE j.nr = 0 /\ LinkFound(t, j, n)
    BY <1>6, LinkFoundOK
  <1>7. CASE NewFile(t, j, n)
    BY <1>7, NewFileOK
  <1>8. CASE NewDirectory(t, j, n)
    BY <1>8, NewDirectoryOK
  <1> QED
    BY <1>1, <1>2, <1>3, <1>4, <1>5, <1>6, <1>7, <1>8 DEF Got

LEMMA ReadInode ==
    ASSUME TableOK(inode), NEW m, Read(m)
    PROVE  m \in Mem /\ Desc(m) \in Inode /\ inode[m] \in InodeRecord
  <1>1. m \in Mem /\ inode[m] \in InodeRecord /\ inode[m].desc # 0
    BY DEF Read, TableOK
  <1>2. inode[m].desc \in 0 .. NInode
    BY <1>1 DEF InodeRecord
  <1> QED
    BY <1>1, <1>2, Sizes DEF Desc, Inode

\* What the places of a task have in common.
LEMMA Parts ==
    ASSUME CountInv, NEW t \in Task
    PROVE  /\ TypeOK /\ CountsRight /\ FilesRight /\ InodesRight /\ JobsRight
           /\ DiskType /\ TableOK(inode) /\ job[t] \in Job /\ pwd[t] \in Mem /\ pc[t] \in Places
           /\ Shape(pwd[t], fd[t], pc[t], job[t])
           /\ Read(pwd[t])
  BY TypeEq, TableEq DEF CountInv, JobsRight, TypeOK

LEMMA LoadInv ==
    ASSUME CountInv, NEW t \in Task, Load(t)
    PROVE  CountInv'
  <1> DEFINE m == job[t].mem
             n == IF Desc(m) = 0 THEN inode[m].nr ELSE Desc(m)
  <1>1. /\ pc[t] = "load"
        /\ inode' = [inode EXCEPT ![m].desc = n]
        /\ Got(t, job[t], n, inode[m].count)
    BY DEF Load
  <1>2. /\ TypeOK /\ DiskType /\ TableOK(inode) /\ Read(pwd[t]) /\ job[t] \in Job
        /\ Shape(pwd[t], fd[t], "load", job[t]) /\ CountsRight
    BY <1>1, Parts
  <1>3. /\ OnInode(pwd[t], job[t]) /\ (job[t].nr # 0 => job[t].call \in Creating)
        /\ job[t].call \in {"open", "creat"} => fd[t] = 0
    BY <1>2 DEF Shape
  <1>4. m \in Mem /\ job[t].held = <<m, pwd[t]>>
    BY <1>2, <1>3 DEF OnInode, InDir, Job
  <1>5. inode[m].count > 0 /\ inode[m].used
    <2>1. Occ(job[t].held, m) # 0
      BY <1>4, OccTwo DEF Ind
    <2>2. inode[m].count \in Nat /\ Occ(job[t].held, m) \in Nat /\ inode[m].count >= Occ(job[t].held, m)
      BY <1>2, <1>4, CountAbove
    <2> QED
      BY <1>2, <1>4, <2>1, <2>2 DEF TableOK
  <1>6. n \in Inode /\ n # 0
    <2>1. inode[m].desc \in 0 .. NInode /\ inode[m].nr \in 0 .. NInode
      BY <1>2, <1>4 DEF TableOK, InodeRecord
    <2>2. inode[m].desc = 0 => inode[m].nr # 0
      BY <1>2, <1>4, <1>5 DEF TableOK
    <2>3. n \in 0 .. NInode /\ n # 0
      BY <2>1, <2>2 DEF Desc
    <2> QED
      BY <2>3, Sizes DEF Inode
  <1>7. TableRight /\ inode'[m].desc # 0 /\ \A o \in Mem : inode'[o].count = inode[o].count
    <2> HIDE DEF n, m
    <2>1. inode' \in [Mem -> InodeRecord]
      BY <1>1, <1>2, <1>4, <1>6 DEF TableOK, InodeRecord, Inode
    <2>2. \A o \in Mem : inode'[o] = IF o = m THEN [inode[m] EXCEPT !.desc = n] ELSE inode[o]
      BY <1>1, <1>2, <1>4 DEF TableOK
    <2>3. inode[m] \in InodeRecord
      BY <1>2, <1>4 DEF TableOK
    <2>4. TableOK(inode')
      BY <1>2, <1>5, <1>6, <2>1, <2>2, <2>3 DEF TableOK, InodeRecord
    <2>5. \A o \in Mem : /\ inode'[o].count = inode[o].count
                         /\ inode[o].desc # 0 => inode'[o].desc # 0
                         /\ o = m => inode'[o].desc # 0
      BY <1>6, <2>2, <2>3 DEF InodeRecord
    <2> QED
      BY <1>4, <2>4, <2>5, TableEq DEF TableRight
  <1>8. Gets(t, job[t])
    BY <1>2, <1>3, <1>7 DEF Gets, Read, TableRight
  <1>9. GoesOn(t, job[t]) /\ DiskType'
    BY <1>1, <1>2, <1>6, <1>8, GotOK
  <1>10. Balanced(t, job[t])
    BY <1>7 DEF Balanced
  <1> QED
    BY <1>1, <1>7, <1>9, <1>10, GoesOnInv
-----------------------------------------------------------------------------
\* A task that starts a call takes its working directory once more, and the
\* inode that it finds.
LEMMA IdleRefs ==
    ASSUME CountInv, NEW t \in Task, pc[t] = "user"
    PROVE  /\ job[t] = NoJob
           /\ \A m \in Mem : Refs(pwd[t], job[t], m) = Ind(pwd[t] = m)
           /\ inode[pwd[t]].count > 0
  <1>1. job[t] = NoJob /\ pwd[t] \in Mem /\ TypeOK /\ CountsRight
    BY Parts DEF Shape
  <1>2. ~Leaves(NoJob) /\ NoJob.held = << >> /\ NoJob.keep = 0
    BY DEF Leaves, NoJob
  <1>3. ASSUME NEW m \in Mem PROVE Refs(pwd[t], job[t], m) = Ind(pwd[t] = m)
    <2>1. Occ(<< >>, m) = 0 /\ m # 0
      BY OccNone DEF Mem
    <2> QED
      BY <1>1, <1>2, <2>1 DEF Refs, Ind
  <1>4. Other(t, pwd[t])
    BY <1>1, <1>2 DEF Other
  <1>5. inode[pwd[t]].count \in Nat /\ Occ(job[t].held, pwd[t]) \in Nat
        /\ inode[pwd[t]].count > Occ(job[t].held, pwd[t])
    BY <1>1, <1>4, CountAbove
  <1> QED
    BY <1>1, <1>3, <1>5

\* The table when the call of task t has its directory.
Entered(t, T) ==
    /\ TableOK(T)
    /\ \A m \in Mem : /\ T[m].desc = inode[m].desc
                      /\ T[m].count = inode[m].count + Ind(pwd[t] = m)

LEMMA IGetInv ==
    ASSUME CountInv, NEW t \in Task, pc[t] = "user", NEW T, Entered(t, T), NEW nr \in Inode,
           NEW j \in Job, j.nr = 0, j.keep = 0, j.mem = 0, j.dir = pwd[t], j.held = <<pwd[t]>>,
           j.call \in {"open", "creat"} => fd[t] = 0,
           IGet(t, T, nr, j)
    PROVE  CountInv'
  <1>1. PICK m : m = Place(T, nr)
    OBVIOUS
  <1>2. /\ m \in Mem
        /\ inode' = Getting(T, m, nr)
        /\ TableOK(inode')
        /\ \A o \in Mem : inode'[o].desc = T[o].desc /\ inode'[o].count = T[o].count + Ind(m = o)
    <2>1. Found(T, nr) # {} /\ inode' = Getting(T, m, nr) /\ TableOK(T)
      BY <1>1 DEF IGet, Entered
    <2> QED
      BY <1>1, <2>1, GettingOK
  <1>3. /\ \/ T[m].desc # 0 /\ Got(t, With(j, m), T[m].desc, T[m].count + 1)
           \/ \E place \in {"load", "unread"} :
                /\ At(t, place, With(j, m))
                /\ UNCHANGED <<diskVars, fileVars>>
    BY <1>1 DEF IGet
  <1>4. PICK k : k = With(j, m)
    OBVIOUS
  <1>5. /\ k \in Job /\ k.mem = m /\ k.held = <<m, pwd[t]>> /\ k.dir = pwd[t] /\ k.keep = 0
        /\ k.nr = 0 /\ k.call = j.call
    <2>1. pwd[t] \in Mem
      BY Parts
    <2>2. <<m>> \o <<pwd[t]>> = <<m, pwd[t]>>
      BY <1>2, <2>1, Join
    <2>3. k = [j EXCEPT !.mem = m, !.held = <<m, pwd[t]>>] /\ <<m, pwd[t]>> \in Seq(Mem)
      <3>1. k = [j EXCEPT !.mem = m, !.held = <<m>> \o j.held]
        BY <1>4 DEF With
      <3>2. <<m>> \o j.held = <<m, pwd[t]>>
        BY <2>2, Zenon
      <3>3. <<m, pwd[t]>> \in Seq(Mem)
        BY <1>2, <2>1
      <3> QED
        BY <3>1, <3>2, <3>3
    <2>4. k \in Job
      BY <1>2, <2>3 DEF Job
    <2> QED
      BY <1>2, <2>3, <2>4 DEF Job
  <1>6. OnInode(pwd[t], k)
    BY <1>2, <1>5, Parts DEF OnInode, InDir, Mem
  <1>7. TableRight
    BY <1>2, TableEq DEF TableRight, Entered
  <1>8. Balanced(t, k)
    <2> SUFFICES ASSUME NEW o \in Mem
                 PROVE  inode'[o].count + Refs(pwd[t], job[t], o) = inode[o].count + Refs(pwd[t], k, o)
      BY DEF Balanced
    <2>1. Refs(pwd[t], job[t], o) = Ind(pwd[t] = o)
      BY IdleRefs
    <2>2. Occ(k.held, o) = Ind(m = o) + Ind(pwd[t] = o) /\ o # 0 /\ ~Leaves(k)
      BY <1>5, OccTwo DEF Mem, Leaves
    <2>3. Refs(pwd[t], k, o) = Ind(pwd[t] = o) + (Ind(m = o) + Ind(pwd[t] = o)) + 0
      BY <1>5, <2>2 DEF Refs, Ind
    <2>4. inode'[o].count = inode[o].count + Ind(pwd[t] = o) + Ind(m = o)
      BY <1>2 DEF Entered
    <2>5. inode[o].count \in Nat
      BY Parts DEF TableOK, InodeRecord
    <2>6. Ind(pwd[t] = o) \in Nat /\ Ind(m = o) \in Nat
      BY DEF Ind
    <2> QED
      BY <2>1, <2>3, <2>4, <2>5, <2>6
  <1>9. CASE T[m].desc # 0 /\ Got(t, k, T[m].desc, T[m].count + 1)
    <2>1. T[m].desc \in Inode
      BY <1>2, <1>9, Sizes DEF Entered, TableOK, InodeRecord, Inode
    <2>2. Gets(t, k)
      BY <1>2, <1>5, <1>6, <1>7, <1>9, Parts DEF Gets, TableRight, Read
    <2>3. GoesOn(t, k) /\ DiskType'
      BY <1>9, <2>1, <2>2, GotOK, Parts
    <2> QED
      BY <1>7, <1>8, <2>3, GoesOnInv
  <1>10. ASSUME NEW place \in {"load", "unread"}, At(t, place, k), UNCHANGED <<diskVars, fileVars>>
         PROVE  CountInv'
    <2>1. DiskType'
      BY <1>10, Parts DEF diskVars, DiskType
    <2>2. Ready(t, place, k)
      BY <1>5, <1>6 DEF Ready, Shape, Places
    <2>3. GoesTo(t, place, k)
      BY <1>10 DEF GoesTo
    <2> QED
      BY <1>7, <1>8, <2>1, <2>2, <2>3, GoesToInv
  <1> QED
    BY <1>3, <1>4, <1>9, <1>10
\* Lookup starts with the table T, and the locals j, whose call may hold the
\* inode that it links.
LEMMA MatchingFound ==
    ASSUME DiskType, NEW d \in Inode, NEW name, Matching(d, name) # {}
    PROVE  /\ Least(Matching(d, name)) \in Slot
           /\ entry[d][Least(Matching(d, name))].nr \in Inode
  <1>1. Matching(d, name) \in SUBSET Nat
    BY Sizes DEF Matching, Slot
  <1>2. Least(Matching(d, name)) \in Matching(d, name)
    BY <1>1, LeastNumber
  <1>3. PICK s \in Slot : s = Least(Matching(d, name)) /\ entry[d][s].nr # 0
    BY <1>2 DEF Matching
  <1>4. entry[d][s].nr \in 0 .. NInode
    BY DEF DiskType
  <1> QED
    BY <1>3, <1>4, Sizes DEF Inode

LEMMA BeginInv ==
    ASSUME CountInv, NEW t \in Task, Begin(t)
    PROVE  CountInv'
  <1>1. PICK call \in Calls : /\ call \in {"open", "creat"} => fd[t] = 0
                              /\ Lookup(t, call, inode, NoJob)
    BY DEF Begin
  <1>2. PICK name \in Name :
            LET dir == pwd[t]
                d == Desc(dir)
                slots == Matching(d, name)
                s == Least(slots)
                counted == More(inode, dir)
                next == [NoJob EXCEPT !.call = call, !.name = name, !.dir = dir, !.held = Append(@, dir)]
                creates == call \in Creating \/ (call = "link" /\ NoJob.mem # 0)
            IN  \/ /\ slots # {}
                   /\ IGet(t, counted, entry[d][s].nr, [next EXCEPT !.slot = s])
                \/ /\ creates
                   /\ inode' = counted
                   /\ At(t, "add", next)
                   /\ UNCHANGED <<diskVars, fileVars>>
                \/ NoJob.held # << >>
    BY <1>1 DEF Lookup
  <1>3. /\ pc[t] = "user" /\ job[t] = NoJob /\ pwd[t] \in Mem /\ inode[pwd[t]].count > 0
        /\ DiskType /\ TableOK(inode) /\ Read(pwd[t])
        /\ \A m \in Mem : Refs(pwd[t], job[t], m) = Ind(pwd[t] = m)
    <2>1. pc[t] = "user"
      BY DEF Begin
    <2> QED
      BY <2>1, IdleRefs, Parts
  <1> DEFINE T == More(inode, pwd[t])
             d == Desc(pwd[t])
             s == Least(Matching(d, name))
             next == [NoJob EXCEPT !.call = call, !.name = name, !.dir = pwd[t], !.held = Append(@, pwd[t])]
  <1>4. d \in Inode
    BY <1>3, ReadInode
  <1>5. Entered(t, T)
    BY <1>3, MoreOK DEF Entered
  <1>6. next \in Job
    <2>1. Append(NoJob.held, pwd[t]) \in Seq(Mem)
      BY <1>3 DEF NoJob
    <2>2. call \in Calls \cup {"write", "close", "none"} /\ name \in Name \cup {NoName} /\ pwd[t] \in Mem \cup {0}
      BY <1>3
    <2> QED
      BY <2>1, <2>2, NoJobType DEF Job
  <1>7. /\ next.call = call /\ next.dir = pwd[t] /\ next.held = <<pwd[t]>>
        /\ next.mem = 0 /\ next.nr = 0 /\ next.keep = 0
    <2>1. NoJob.held = << >> /\ Append(<< >>, pwd[t]) = <<pwd[t]>>
      BY <1>3, AppendNone DEF NoJob
    <2> QED
      BY <1>6, <2>1 DEF NoJob
  <1> HIDE DEF next, d, T
  <1>8. CASE Matching(d, name) # {} /\ IGet(t, T, entry[d][s].nr, [next EXCEPT !.slot = s])
    <2>1. PICK x : x = s
      OBVIOUS
    <2>2. x \in Slot /\ entry[d][x].nr \in Inode
      BY <1>3, <1>4, <1>8, <2>1, MatchingFound
    <2>3. PICK k : k = [next EXCEPT !.slot = x]
      OBVIOUS
    <2>4. /\ k \in Job /\ k.call = call /\ k.dir = pwd[t] /\ k.held = <<pwd[t]>>
          /\ k.mem = 0 /\ k.nr = 0 /\ k.keep = 0
      BY <1>6, <1>7, <2>2, <2>3 DEF Job
    <2>5. IGet(t, T, entry[d][x].nr, k)
      BY <1>8, <2>1, <2>3
    <2> QED
      BY <1>1, <1>3, <1>5, <2>2, <2>4, <2>5, IGetInv
  <1>9. CASE /\ call \in Creating \/ (call = "link" /\ NoJob.mem # 0)
             /\ inode' = T
             /\ At(t, "add", next)
             /\ UNCHANGED <<diskVars, fileVars>>
    <2>1. DiskType' /\ GoesTo(t, "add", next)
      BY <1>3, <1>9 DEF diskVars, DiskType, GoesTo
    <2>2. TableRight
      BY <1>5, <1>9, TableEq DEF TableRight, Entered
    <2>3. call \in Creating
      BY <1>9 DEF NoJob
    <2>4. Shape(pwd[t], fd[t], "add", next)
      BY <1>1, <1>3, <1>7, <2>3 DEF Shape, InDir, Mem
    <2>5. Ready(t, "add", next)
      BY <1>6, <1>7, <2>4 DEF Ready, Places
    <2>6. Balanced(t, next)
      <3> SUFFICES ASSUME NEW m \in Mem
                   PROVE  inode'[m].count + Refs(pwd[t], job[t], m) = inode[m].count + Refs(pwd[t], next, m)
        BY DEF Balanced
      <3>1. Occ(next.held, m) = Ind(pwd[t] = m) /\ m # 0 /\ ~Leaves(next)
        BY <1>7, OccOne DEF Mem, Leaves
      <3>2. Refs(pwd[t], next, m) = Ind(pwd[t] = m) + Ind(pwd[t] = m) + 0
        BY <1>7, <3>1 DEF Refs, Ind
      <3>3. inode'[m].count = inode[m].count + Ind(pwd[t] = m) /\ inode[m].count \in Nat
        BY <1>3, <1>5, <1>9 DEF Entered, TableOK, InodeRecord
      <3>4. Ind(pwd[t] = m) \in Nat
        BY DEF Ind
      <3> QED
        BY <1>3, <3>2, <3>3, <3>4
    <2> QED
      BY <1>3, <2>1, <2>2, <2>5, <2>6, GoesToInv
  <1>10. NoJob.held = << >>
    BY DEF NoJob
  <1> QED
    BY <1>2, <1>8, <1>9, <1>10 DEF next, d, T
LEMMA LinkNewInv ==
    ASSUME CountInv, NEW t \in Task, LinkNew(t)
    PROVE  CountInv'
  <1> DEFINE j == job[t]
             L == [NoJob EXCEPT !.mem = j.mem, !.held = <<j.mem>>]
             T == More(Fewer(inode, j.dir), pwd[t])
             next(name) == [L EXCEPT !.call = "link", !.name = name, !.dir = pwd[t], !.held = Append(@, pwd[t])]
  <1>1. /\ TypeOK /\ CountsRight /\ DiskType /\ TableOK(inode) /\ j \in Job /\ pwd[t] \in Mem
        /\ pc[t] = "linkto" /\ Shape(pwd[t], fd[t], "linkto", j) /\ JobsRight /\ Read(pwd[t])
    BY Parts DEF LinkNew
  <1>2. /\ j.mem \in Mem /\ j.dir = pwd[t] /\ j.held = <<j.mem, pwd[t]>> /\ j.keep = 0 /\ j.call = "link"
        /\ j.mem # 0
    BY <1>1 DEF Shape, OnInode, InDir, Job, Mem
  <1>3. L \in Job /\ L.mem = j.mem /\ L.held = <<j.mem>> /\ L.keep = 0 /\ L.nr = 0
    <2>1. <<j.mem>> \in Seq(Mem) /\ j.mem \in Mem \cup {0}
      BY <1>2
    <2>2. L \in Job
      BY <2>1, NoJobType DEF Job
    <2> QED
      BY <2>2 DEF NoJob
  <1>4. T = inode
    <2>1. inode[pwd[t]].count > 0
      <3>1. Occ(j.held, pwd[t]) # 0
        BY <1>1, <1>2, OccTwo DEF Ind
      <3> QED
        BY <1>1, <3>1, CountAbove
    <2> QED
      BY <1>1, <1>2, <2>1, FewerMore DEF TableOK
  <1>5. PICK name \in Name : /\ inode' = T
                             /\ \/ At(t, "add", next(name)) /\ UNCHANGED <<diskVars, fileVars>>
                                \/ Abort(t, next(name))
    <2>1. Lookup(t, "link", Fewer(inode, j.dir), L)
      BY DEF LinkNew
    <2> HIDE DEF L
    <2> QED
      BY <1>2, <1>3, <2>1 DEF Lookup
  <1> DEFINE k == next(name)
  <1>6. /\ k \in Job /\ k.call = "link" /\ k.dir = pwd[t] /\ k.held = <<j.mem, pwd[t]>> /\ k.mem = j.mem
        /\ k.keep = 0 /\ k.nr = 0
    <2> HIDE DEF L
    <2>1. Append(L.held, pwd[t]) = <<j.mem, pwd[t]>>
      BY <1>1, <1>2, <1>3, AppendOne
    <2>2. k = [L EXCEPT !.call = "link", !.name = name, !.dir = pwd[t], !.held = <<j.mem, pwd[t]>>]
      BY <2>1
    <2>3. <<j.mem, pwd[t]>> \in Seq(Mem) /\ "link" \in Calls /\ pwd[t] \in Mem
      BY <1>1, <1>2 DEF Calls
    <2>4. k \in Job
      BY <1>3, <2>2, <2>3 DEF Job
    <2> QED
      BY <1>3, <2>2, <2>4 DEF Job
  <1>7. Abort(t, k) \/ (At(t, "add", k) /\ UNCHANGED <<diskVars, fileVars>>)
    BY <1>5
  <1> HIDE DEF k
  <1>8. TableRight /\ inode' = inode
    BY <1>1, <1>4, <1>5, TableEq DEF TableRight
  <1>9. DiskType'
    BY <1>1, <1>5 DEF Abort, diskVars, DiskType
  <1>10. \A m \in Mem : Refs(pwd[t], k, m) = Refs(pwd[t], j, m)
    BY <1>2, <1>6 DEF Refs, Leaves
  <1>11. GoesOn(t, k)
    <2>1. CASE Abort(t, k)
      <3>1. k.held # << >>
        BY <1>6
      <3>2. Finish(t, k, 0)
        BY <2>1 DEF Abort
      <3> QED
        BY <1>6, <3>1, <3>2, AbortGoes
    <2>2. CASE At(t, "add", k) /\ UNCHANGED <<diskVars, fileVars>>
      <3>1. OnInode(pwd[t], k)
        BY <1>1, <1>2, <1>6 DEF OnInode, InDir, Mem
      <3>2. Shape(pwd[t], fd[t], "add", k)
        BY <1>6, <3>1 DEF Shape, OnInode
      <3>3. inode'[k.mem].desc # 0
        BY <1>1, <1>2, <1>6, <1>8 DEF JobsRight, Read
      <3>4. Ready(t, "add", k)
        BY <1>6, <3>2, <3>3 DEF Ready, Places
      <3> QED
        BY <2>2, <3>4, StaysOn
    <2> QED
      BY <1>7, <2>1, <2>2
  <1>12. Balanced(t, k)
    BY <1>8, <1>10 DEF Balanced
  <1> QED
    BY <1>1, <1>8, <1>9, <1>11, <1>12, GoesOnInv

LEMMA ChdirRootInv ==
    ASSUME CountInv, NEW t \in Task, ChdirRoot(t)
    PROVE  CountInv'
  <1> DEFINE k == Putting("chdir", Root, <<pwd[t]>>)
  <1>1. /\ pc[t] = "user" /\ TypeOK /\ CountsRight /\ DiskType /\ TableOK(inode) /\ pwd[t] \in Mem
        /\ job[t] = NoJob /\ \A m \in Mem : Refs(pwd[t], job[t], m) = Ind(pwd[t] = m)
        /\ inode' = More(inode, Root) /\ Resume(t, k, file) /\ UNCHANGED diskVars
    BY Parts, IdleRefs DEF ChdirRoot, Putting
  <1>2. /\ k \in Job /\ k.call = "chdir" /\ k.keep = Root /\ k.held = <<pwd[t]>>
        /\ k.mem = 0 /\ k.dir = 0 /\ k.nr = 0
    <2>1. <<pwd[t]>> \in Seq(Mem) /\ "chdir" \in Calls /\ Root \in Mem
      BY <1>1, Sizes DEF Calls
    <2>2. k \in Job
      BY <2>1, PutJob
    <2> QED
      BY <2>2 DEF Putting, NoJob
  <1> HIDE DEF k
  <1>3. GoesTo(t, "put", k)
    BY <1>1, <1>2 DEF Resume, GoesTo, fileVars
  <1>4. inode[Root].count > 0 /\ Root \in Mem
    BY <1>1, Sizes, CountAbove DEF Other
  <1>5. TableOK(inode') /\ \A m \in Mem : /\ inode'[m].desc = inode[m].desc
                                          /\ inode'[m].count = inode[m].count + Ind(Root = m)
    BY <1>1, <1>4, MoreOK
  <1>6. TableRight /\ DiskType'
    BY <1>1, <1>5, TableEq DEF TableRight, diskVars, DiskType
  <1>7. inode'[Root].desc # 0
    BY <1>4, <1>5 DEF CountInv, Read
  <1>8. Ready(t, "put", k)
    <2>1. 1 \in DOMAIN k.held /\ k.held[1] = pwd[t]
      BY <1>2
    <2>2. Shape(pwd[t], fd[t], "put", k)
      BY <1>2, <1>4, <2>1 DEF Shape, Mem
    <2> QED
      BY <1>2, <1>7, <2>2 DEF Ready, Places
  <1>9. Balanced(t, k)
    <2> SUFFICES ASSUME NEW m \in Mem
                 PROVE  inode'[m].count + Refs(pwd[t], job[t], m) = inode[m].count + Refs(pwd[t], k, m)
      BY DEF Balanced
    <2>1. Occ(k.held, m) = Ind(pwd[t] = m) /\ m # 0
      BY <1>2, OccOne DEF Mem
    <2>2. Refs(pwd[t], k, m) = 0 + Ind(pwd[t] = m) + Ind(Root = m)
      BY <1>2, <2>1 DEF Refs, Ind, Leaves, Root
    <2>3. inode[m].count \in Nat /\ Ind(pwd[t] = m) \in Nat /\ Ind(Root = m) \in Nat
      BY <1>1 DEF TableOK, InodeRecord, Ind
    <2> QED
      BY <1>1, <1>5, <2>2, <2>3
  <1> QED
    BY <1>1, <1>3, <1>6, <1>8, <1>9, GoesToInv
-----------------------------------------------------------------------------
\* A step that leaves the table of inodes as it is.
LEMMA TableStands ==
    ASSUME CountInv, UNCHANGED inode
    PROVE  /\ TableRight
           /\ \A t \in Task : \A j : (\A m \in Mem : Refs(pwd[t], j, m) = Refs(pwd[t], job[t], m)) => Balanced(t, j)
  <1>1. TableOK(inode)
    BY TableEq DEF CountInv
  <1> QED
    BY <1>1, TableEq DEF TableRight, Balanced

LEMMA StandsInv ==
    ASSUME CountInv, NEW t \in Task, UNCHANGED inode, GoesOn(t, job[t]), DiskType', pc[t] # "put"
    PROVE  CountInv'
  BY TableStands, GoesOnInv

\* The call is at the place of an inode.
LEMMA CallAt ==
    ASSUME CountInv, NEW t \in Task, pc[t] \in {"linkto", "empty", "trunc", "freed", "ifreed"}
    PROVE  /\ OnInode(pwd[t], job[t]) /\ job[t] \in Job /\ pwd[t] \in Mem
           /\ job[t].keep = 0 /\ job[t].held # << >> /\ job[t].held = <<job[t].mem, job[t].dir>>
           /\ job[t].mem \in Mem /\ Read(job[t].mem) /\ Desc(job[t].mem) \in Inode
           /\ job[t].dir = pwd[t] /\ Dir(job[t]) \in Inode
           /\ job[t].call \in {"open", "creat"} => fd[t] = 0
           /\ Shape(pwd[t], fd[t], pc[t], job[t])
  <1>1. job[t] \in Job /\ pwd[t] \in Mem /\ Shape(pwd[t], fd[t], pc[t], job[t]) /\ Read(pwd[t]) /\ TableOK(inode)
    BY Parts
  <1>2. OnInode(pwd[t], job[t])
    BY <1>1 DEF Shape
  <1>3. job[t].mem \in Mem /\ job[t].mem # 0
    BY <1>1, <1>2 DEF OnInode, Job
  <1>4. Read(job[t].mem)
    BY <1>3 DEF CountInv, JobsRight
  <1> QED
    BY <1>1, <1>2, <1>3, <1>4, ReadInode DEF OnInode, InDir, Dir, Shape

LEMMA AddSlotFound ==
    ASSUME NEW d, NEW name, AddSlot(d, name) # {}
    PROVE  Least(AddSlot(d, name)) \in AddSlot(d, name) /\ Least(AddSlot(d, name)) \in Slot
  <1>1. AddSlot(d, name) \in SUBSET Slot /\ Slot \subseteq Nat
    BY Sizes DEF AddSlot, Matching, Slot
  <1> QED
    BY <1>1, LeastNumber

LEMMA FreeInodeFound ==
    ASSUME Inode \ imap # {}
    PROVE  Least(Inode \ imap) \in Inode \ imap
  BY LeastNumber, Sizes DEF Inode

\* The directories when one field of an entry has been written.
Entries == [Inode -> [Slot -> [name : Name \cup {NoName}, nr : 0 .. NInode]]]

LEMMA EntryWritten ==
    ASSUME DiskType, NEW d \in Inode, NEW s \in Slot, NEW name \in Name \cup {NoName}, NEW nr \in 0 .. NInode
    PROVE  /\ [entry EXCEPT ![d][s].name = name] \in Entries
           /\ [entry EXCEPT ![d][s].nr = nr] \in Entries
  <1>1. PICK e : e = entry[d][s]
    OBVIOUS
  <1>2. e \in [name : Name \cup {NoName}, nr : 0 .. NInode]
    BY <1>1 DEF DiskType
  <1>3. /\ [e EXCEPT !.name = name] \in [name : Name \cup {NoName}, nr : 0 .. NInode]
        /\ [e EXCEPT !.nr = nr] \in [name : Name \cup {NoName}, nr : 0 .. NInode]
    BY <1>2
  <1>4. /\ [entry EXCEPT ![d][s].name = name] = [entry EXCEPT ![d][s] = [e EXCEPT !.name = name]]
        /\ [entry EXCEPT ![d][s].nr = nr] = [entry EXCEPT ![d][s] = [e EXCEPT !.nr = nr]]
    BY <1>1
  <1> QED
    BY <1>3, <1>4 DEF DiskType, Entries

LEMMA AddInv ==
    ASSUME CountInv, NEW t \in Task, Add(t)
    PROVE  CountInv'
  <1> DEFINE j == job[t]
             d == Dir(j)
             s == Least(AddSlot(d, j.name))
             n == Least(Inode \ imap)
  <1>1. /\ pc[t] = "add" /\ DiskType /\ TableOK(inode) /\ j \in Job /\ pwd[t] \in Mem
        /\ Shape(pwd[t], fd[t], "add", j) /\ JobsRight /\ Read(pwd[t])
    BY Parts DEF Add
  <1>2. /\ j.dir = pwd[t] /\ j.keep = 0 /\ d \in Inode /\ j.nr = 0 /\ j.held # << >>
    <2>1. j.held = <<j.dir>> \/ j.held = <<j.mem, j.dir>>
      BY <1>1 DEF Shape, OnInode
    <2>2. j.held # << >>
      BY <2>1
    <2> QED
      BY <1>1, <2>2, ReadInode DEF Shape, InDir, Dir
  <1>3. s \in Slot /\ UNCHANGED <<zmap, kind, zone, inode>>
    BY AddSlotFound DEF Add
  <1>4. CASE j.call = "link"
    <2>1. /\ entry' = [entry EXCEPT ![d][s] = [name |-> j.name, nr |-> Desc(j.mem)]]
          /\ nlinks' = [nlinks EXCEPT ![Desc(j.mem)] = (@ + 1) % 256]
          /\ Finish(t, j, 0) /\ UNCHANGED imap
      BY <1>4 DEF Add
    <2>2. OnInode(pwd[t], j) /\ j.mem \in Mem /\ j.mem # 0
      BY <1>1, <1>4 DEF Shape, OnInode, Creating, Adding, Job
    <2>3. Desc(j.mem) \in Inode
      BY <1>1, <2>2, ReadInode DEF JobsRight
    <2>4. DiskType'
      <3>1. PICK e : e = [name |-> j.name, nr |-> Desc(j.mem)]
        OBVIOUS
      <3>2. e \in [name : Name \cup {NoName}, nr : 0 .. NInode]
        BY <1>1, <2>3, <3>1, Sizes DEF Job, Inode
      <3>3. entry' \in [Inode -> [Slot -> [name : Name \cup {NoName}, nr : 0 .. NInode]]]
        BY <1>1, <1>2, <1>3, <2>1, <3>1, <3>2 DEF DiskType
      <3>4. nlinks' \in [Inode -> 0 .. 255]
        <4>1. PICK n0 \in Inode : n0 = Desc(j.mem)
          BY <2>3
        <4>2. PICK v \in 0 .. 255 : v = (nlinks[n0] + 1) % 256
          <5>1. nlinks[n0] \in 0 .. 255
            BY <1>1 DEF DiskType
          <5>2. (nlinks[n0] + 1) % 256 \in 0 .. 255
            BY <5>1, Width
          <5> QED
            BY <5>2
        <4>3. nlinks' = [nlinks EXCEPT ![n0] = v]
          BY <2>1, <4>1, <4>2
        <4> QED
          BY <1>1, <4>3 DEF DiskType
      <3> QED
        BY <1>1, <1>3, <2>1, <3>3, <3>4 DEF DiskType
    <2>5. GoesOn(t, j)
      BY <1>1, <1>2, <2>1, AbortGoes
    <2> QED
      BY <1>1, <1>3, <2>4, <2>5, StandsInv
  <1>5. CASE j.call # "link"
    <2> DEFINE k == [j EXCEPT !.slot = s, !.nr = n]
    <2>1. /\ Inode \ imap # {}
          /\ entry' = [entry EXCEPT ![d][s].name = j.name]
          /\ imap' = imap \cup {n}
          /\ At(t, "enter", k)
          /\ UNCHANGED <<nlinks, fileVars>>
      BY <1>5 DEF Add
    <2>2. n \in Inode
      BY <2>1, FreeInodeFound
    <2>3. DiskType'
      <3>1. entry' \in [Inode -> [Slot -> [name : Name \cup {NoName}, nr : 0 .. NInode]]]
        <4>1. PICK name \in Name \cup {NoName} : name = j.name
          BY <1>1 DEF Job
        <4>2. 0 \in 0 .. NInode
          BY Sizes
        <4> QED
          BY <1>1, <1>2, <1>3, <2>1, <4>1, <4>2, EntryWritten DEF Entries
      <3> QED
        BY <1>1, <1>3, <2>1, <2>2, <3>1 DEF DiskType
    <2>4. /\ k \in Job /\ k.slot = s /\ k.nr = n /\ k.call = j.call /\ k.dir = j.dir /\ k.mem = j.mem
          /\ k.held = j.held /\ k.keep = j.keep
      <3>1. s \in Slot \cup {0} /\ n \in 0 .. NInode
        BY <1>3, <2>2, Sizes DEF Inode
      <3> HIDE DEF s, n
      <3> QED
        BY <1>1, <3>1 DEF Job
    <2>5. s # 0 /\ n # 0
      BY <1>3, <2>2, Sizes DEF Slot, Inode
    <2> HIDE DEF k
    <2>6. Ready(t, "enter", k)
      <3>1. Shape(pwd[t], fd[t], "enter", k)
        BY <1>1, <1>5, <2>4, <2>5 DEF Shape, InDir
      <3>2. k.mem = 0 /\ k.keep = 0
        BY <1>1, <1>2, <1>5, <2>4 DEF Shape
      <3> QED
        BY <2>4, <3>1, <3>2 DEF Ready, Places
    <2>7. \A m \in Mem : Refs(pwd[t], k, m) = Refs(pwd[t], j, m)
      BY <2>4 DEF Refs, Leaves
    <2>8. GoesOn(t, j)
      BY <2>1, <2>6, <2>7 DEF GoesOn, GoesTo
    <2> QED
      BY <1>1, <1>3, <2>3, <2>8, StandsInv
  <1> QED
    BY <1>4, <1>5
LEMMA EnterInv ==
    ASSUME CountInv, NEW t \in Task, Enter(t)
    PROVE  CountInv'
  <1> DEFINE j == job[t]
             m == Place(inode, j.nr)
             k == With(j, m)
  <1>1. /\ pc[t] = "enter" /\ DiskType /\ TableOK(inode) /\ j \in Job /\ pwd[t] \in Mem
        /\ Shape(pwd[t], fd[t], "enter", j) /\ JobsRight /\ Read(pwd[t])
    BY Parts DEF Enter
  <1>2. /\ Found(inode, j.nr) # {}
        /\ entry' = [entry EXCEPT ![Dir(j)][j.slot].nr = j.nr]
        /\ inode' = Getting(inode, m, j.nr)
        /\ \E place \in {"load", "unread"} : At(t, place, k)
        /\ UNCHANGED <<imap, zmap, kind, nlinks, zone, fileVars>>
    BY DEF Enter
  <1>3. /\ j.dir = pwd[t] /\ j.keep = 0 /\ j.mem = 0 /\ j.held = <<pwd[t]>> /\ j.call \in Creating
        /\ j.nr \in Inode /\ j.slot \in Slot /\ Dir(j) \in Inode
    <2>1. /\ j.dir = pwd[t] /\ j.keep = 0 /\ j.mem = 0 /\ j.held = <<j.dir>> /\ j.call \in Creating
          /\ j.nr # 0 /\ j.slot # 0
      BY <1>1 DEF Shape, InDir
    <2>2. j.nr \in 0 .. NInode /\ j.slot \in Slot \cup {0}
      BY <1>1 DEF Job
    <2> QED
      BY <1>1, <2>1, <2>2, Sizes, ReadInode DEF Inode, Dir
  <1>4. m \in Mem /\ TableOK(inode') /\ \A o \in Mem : /\ inode'[o].desc = inode[o].desc
                                                      /\ inode'[o].count = inode[o].count + Ind(m = o)
    BY <1>1, <1>2, <1>3, GettingOK
  <1>5. TableRight
    BY <1>4, TableEq DEF TableRight
  <1>6. DiskType'
    <2>1. j.nr \in 0 .. NInode
      BY <1>3, Sizes DEF Inode
    <2>2. PICK nr \in 0 .. NInode : nr = j.nr
      BY <2>1
    <2>3. entry' \in Entries
      BY <1>1, <1>2, <1>3, <2>2, EntryWritten
    <2> QED
      BY <1>1, <1>2, <2>3 DEF DiskType, Entries
  <1> HIDE DEF m
  <1>7. /\ k \in Job /\ k.mem = m /\ k.held = <<m, pwd[t]>> /\ k.dir = pwd[t] /\ k.keep = 0
        /\ k.nr = j.nr /\ k.call = j.call
    <2>1. <<m>> \o <<pwd[t]>> = <<m, pwd[t]>>
      BY <1>1, <1>4, Join
    <2>2. <<m>> \o j.held = <<m, pwd[t]>>
      BY <1>3, <2>1
    <2>3. k = [j EXCEPT !.mem = m, !.held = <<m, pwd[t]>>]
      BY <2>2 DEF With
    <2>4. <<m, pwd[t]>> \in Seq(Mem)
      BY <1>1, <1>4
    <2>5. k \in Job
      BY <1>1, <1>4, <2>3, <2>4 DEF Job
    <2> QED
      BY <1>1, <1>3, <1>4, <2>3, <2>5 DEF Job
  <1> HIDE DEF k
  <1>8. Balanced(t, k)
    <2> SUFFICES ASSUME NEW o \in Mem
                 PROVE  inode'[o].count + Refs(pwd[t], j, o) = inode[o].count + Refs(pwd[t], k, o)
      BY DEF Balanced
    <2>1. /\ Occ(k.held, o) = Ind(m = o) + Ind(pwd[t] = o) /\ Occ(j.held, o) = Ind(pwd[t] = o)
          /\ o # 0 /\ ~Leaves(k) /\ ~Leaves(j)
      BY <1>3, <1>7, OccTwo, OccOne DEF Mem, Leaves
    <2>2. /\ Refs(pwd[t], k, o) = Ind(pwd[t] = o) + (Ind(m = o) + Ind(pwd[t] = o)) + 0
          /\ Refs(pwd[t], j, o) = Ind(pwd[t] = o) + Ind(pwd[t] = o) + 0
      BY <1>3, <1>7, <2>1 DEF Refs, Ind
    <2>3. inode[o].count \in Nat /\ Ind(pwd[t] = o) \in Nat /\ Ind(m = o) \in Nat
      BY <1>1 DEF TableOK, InodeRecord, Ind
    <2> QED
      BY <1>4, <2>2, <2>3
  <1>9. PICK place \in {"load", "unread"} : At(t, place, k)
    BY <1>2
  <1>10. Ready(t, place, k)
    <2>1. OnInode(pwd[t], k)
      BY <1>1, <1>4, <1>7 DEF OnInode, InDir, Mem
    <2>2. k.call \in {"open", "creat"} => fd[t] = 0
      BY <1>1, <1>7 DEF Shape
    <2>3. Shape(pwd[t], fd[t], place, k)
      BY <1>3, <1>7, <2>1, <2>2 DEF Shape
    <2> QED
      BY <1>7, <2>3 DEF Ready, Places
  <1> QED
    BY <1>1, <1>2, <1>5, <1>6, <1>8, <1>9, <1>10, GoesToInv DEF GoesTo

LEMMA RmdirEmptyInv ==
    ASSUME CountInv, NEW t \in Task, RmdirEmpty(t)
    PROVE  CountInv'
  <1> DEFINE j == job[t]
  <1>1. pc[t] = "empty" /\ UNCHANGED inode
    BY DEF RmdirEmpty
  <1>2. (At(t, "trunc", j) /\ UNCHANGED <<diskVars, fileVars>>) \/ Abort(t, j)
    BY DEF RmdirEmpty
  <1>3. DiskType'
    BY <1>2, Parts DEF Abort, diskVars, DiskType
  <1>4. GoesOn(t, j)
    <2>1. CASE Abort(t, j)
      BY <1>1, <2>1, CallAt, AbortGoes DEF Abort
    <2>2. CASE At(t, "trunc", j) /\ UNCHANGED <<diskVars, fileVars>>
      <3>1. Shape(pwd[t], fd[t], "trunc", j)
        BY <1>1, CallAt DEF Shape
      <3>2. Ready(t, "trunc", j)
        BY <1>1, <3>1, CallAt DEF Ready, Places, Read
      <3> QED
        BY <2>2, <3>2, StaysOn
    <2> QED
      BY <1>2, <2>1, <2>2
  <1> QED
    BY <1>1, <1>3, <1>4, StandsInv

LEMMA FreeBlockInv ==
    ASSUME CountInv, NEW t \in Task, FreeBlock(t)
    PROVE  CountInv'
  <1> DEFINE j == job[t]
             n == Desc(j.mem)
             S == {k \in Index : zone[n][k] # 0}
             i == Least(S)
             q == [j EXCEPT !.index = i]
  <1>1. /\ pc[t] = "trunc" /\ S # {} /\ zmap' = zmap \ {zone[n][i]}
        /\ At(t, "freed", q)
        /\ UNCHANGED <<imap, kind, nlinks, zone, entry, inode, fileVars>>
    BY DEF FreeBlock
  <1>2. i \in Index /\ i # 0
    <2>1. S \in SUBSET Nat /\ S \subseteq Index
      BY Sizes DEF Index
    <2>2. i \in S
      BY <1>1, <2>1, LeastNumber
    <2> QED
      BY <2>2, Sizes DEF Index
  <1>3. DiskType'
    BY <1>1, Parts DEF DiskType
  <1> HIDE DEF i
  <1>4. /\ q \in Job /\ q.index = i /\ q.call = j.call /\ q.dir = j.dir /\ q.mem = j.mem
        /\ q.nr = j.nr /\ q.held = j.held /\ q.keep = j.keep
    BY <1>1, <1>2, CallAt DEF Job
  <1> HIDE DEF q
  <1>5. Ready(t, "freed", q)
    <2>1. OnInode(pwd[t], q) /\ q.call \in {"creat", "unlink", "rmdir"}
      BY <1>1, <1>4, CallAt DEF OnInode, InDir, Shape
    <2>2. Shape(pwd[t], fd[t], "freed", q)
      BY <1>1, <1>2, <1>4, <2>1, CallAt DEF Shape
    <2> QED
      BY <1>1, <1>4, <2>2, CallAt DEF Ready, Places, Read
  <1>6. \A m \in Mem : Refs(pwd[t], q, m) = Refs(pwd[t], j, m)
    BY <1>4 DEF Refs, Leaves
  <1>7. GoesOn(t, j)
    BY <1>1, <1>5, <1>6 DEF GoesOn, GoesTo
  <1> QED
    BY <1>1, <1>3, <1>7, StandsInv

LEMMA ClearZoneInv ==
    ASSUME CountInv, NEW t \in Task, ClearZone(t)
    PROVE  CountInv'
  <1> DEFINE j == job[t]
             q == [j EXCEPT !.index = 0]
  <1>1. /\ pc[t] = "freed" /\ zone' = [zone EXCEPT ![Desc(j.mem)][j.index] = 0]
        /\ At(t, "trunc", q)
        /\ UNCHANGED <<imap, zmap, kind, nlinks, entry, inode, fileVars>>
    BY DEF ClearZone, Cleared
  <1>2. DiskType'
    <2>1. DiskType /\ Desc(j.mem) \in Inode
      BY <1>1, Parts, CallAt
    <2>2. zone' \in [Inode -> [Index -> Block \cup Device \cup {0}]]
      BY <1>1, <2>1 DEF DiskType
    <2> QED
      BY <1>1, <2>1, <2>2 DEF DiskType
  <1>3. /\ q \in Job /\ q.call = j.call /\ q.dir = j.dir /\ q.mem = j.mem
        /\ q.nr = j.nr /\ q.held = j.held /\ q.keep = j.keep
    BY <1>1, CallAt DEF Job
  <1> HIDE DEF q
  <1>4. Ready(t, "trunc", q)
    <2>1. OnInode(pwd[t], q) /\ q.call \in {"creat", "unlink", "rmdir"}
      BY <1>1, <1>3, CallAt DEF OnInode, InDir, Shape
    <2>2. Shape(pwd[t], fd[t], "trunc", q)
      BY <1>1, <1>3, <2>1, CallAt DEF Shape
    <2> QED
      BY <1>1, <1>3, <2>2, CallAt DEF Ready, Places, Read
  <1>5. \A m \in Mem : Refs(pwd[t], q, m) = Refs(pwd[t], j, m)
    BY <1>3 DEF Refs, Leaves
  <1>6. GoesOn(t, j)
    BY <1>1, <1>4, <1>5 DEF GoesOn, GoesTo
  <1> QED
    BY <1>1, <1>2, <1>6, StandsInv
LEMMA SetBlockInv ==
    ASSUME CountInv, NEW t \in Task, SetBlock(t)
    PROVE  CountInv'
  <1> DEFINE j == job[t]
  <1>1. /\ pc[t] = "block" /\ zone' = [zone EXCEPT ![Desc(j.mem)][j.index] = j.block]
        /\ Finish(t, j, 0) /\ UNCHANGED <<imap, zmap, kind, nlinks, entry, inode>>
    BY DEF SetBlock
  <1>2. /\ DiskType /\ TableOK(inode) /\ j \in Job /\ Shape(pwd[t], fd[t], "block", j) /\ JobsRight
        /\ pwd \in [Task -> Mem] /\ fd \in [Task -> File \cup {0}]
    BY <1>1, Parts DEF TypeOK
  <1>3. j.keep = 0 /\ j.mem # 0 /\ j.index # 0 /\ j.block # 0
    BY <1>2 DEF Shape
  <1>4. j.index \in Index /\ j.block \in Block /\ Desc(j.mem) \in Inode
    <2>1. Read(j.mem)
      BY <1>1, <1>3 DEF JobsRight, CountInv
    <2>2. j.index \in Index \cup {0} /\ j.block \in 0 .. NBlock
      BY <1>2 DEF Job
    <2> QED
      BY <1>2, <1>3, <2>1, <2>2, Sizes, ReadInode DEF Block
  <1>5. DiskType'
    <2>1. PICK d \in Inode : d = Desc(j.mem)
      BY <1>4
    <2>2. zone' \in [Inode -> [Index -> Block \cup Device \cup {0}]]
      BY <1>1, <1>2, <1>4, <2>1 DEF DiskType
    <2> QED
      BY <1>1, <1>2, <2>2 DEF DiskType
  <1>6. CASE j.held # << >>
    BY <1>1, <1>2, <1>3, <1>5, <1>6, AbortGoes, StandsInv
  <1>7. CASE j.held = << >>
    <2>1. /\ Done(j, 0).held = << >> /\ Done(j, 0).keep = 0 /\ Done(j, 0).call = "none"
          /\ Resume(t, Done(j, 0), file)
      <3>1. Resume(t, Done(j, 0), file)
        BY <1>1 DEF Finish, Done
      <3> QED
        BY <1>2, <1>7, <3>1, DoneJob
    <2>2. /\ At(t, "user", NoJob) /\ file' = file
          /\ fd' = [fd EXCEPT ![t] = @] /\ pwd' = [pwd EXCEPT ![t] = @]
      BY <2>1 DEF Resume
    <2>3. GoesTo(t, "user", NoJob)
      BY <1>2, <2>2 DEF GoesTo, fileVars
    <2>4. NoJob.call = "none" /\ NoJob.keep = 0 /\ NoJob.mem = 0 /\ NoJob.held = << >>
      BY DEF NoJob
    <2>5. Ready(t, "user", NoJob)
      <3>1. Shape(pwd[t], fd[t], "user", NoJob)
        BY <2>4 DEF Shape
      <3> QED
        BY <2>4, <3>1, NoJobType DEF Ready, Places
    <2>6. \A m \in Mem : Refs(pwd[t], NoJob, m) = Refs(pwd[t], j, m)
      BY <1>3, <1>7, <2>4 DEF Refs, Leaves
    <2>7. GoesOn(t, j)
      BY <2>3, <2>5, <2>6 DEF GoesOn
    <2> QED
      BY <1>1, <1>5, <2>7, StandsInv
  <1> QED
    BY <1>6, <1>7

LEMMA TruncatedInv ==
    ASSUME CountInv, NEW t \in Task, Truncated(t)
    PROVE  CountInv'
  <1> DEFINE j == job[t]
  <1>1. /\ pc[t] = "trunc" /\ imap' \subseteq imap /\ UNCHANGED <<zmap, kind, nlinks, zone, entry, inode>>
        /\ \/ j.call = "creat" /\ Finish(t, j, j.mem)
           \/ Finish(t, j, 0)
           \/ j.call \notin {"creat", "unlink"} /\ At(t, "ifreed", j) /\ UNCHANGED fileVars
    BY DEF Truncated
  <1>2. DiskType'
    BY <1>1, Parts DEF DiskType
  <1>3. GoesOn(t, j)
    <2>1. CASE j.call = "creat" /\ Finish(t, j, j.mem)
      <3>1. /\ OnInode(pwd[t], j) /\ j.mem \in Mem /\ j \in Job /\ j.keep = 0 /\ j.held # << >>
            /\ fd[t] = 0 /\ inode'[j.mem].desc # 0
        BY <1>1, <2>1, CallAt DEF Read
      <3> QED
        BY <2>1, <3>1, FinishGoes DEF GoesOn
    <2>2. CASE Finish(t, j, 0)
      BY <1>1, <2>2, CallAt, AbortGoes
    <2>3. CASE j.call \notin {"creat", "unlink"} /\ At(t, "ifreed", j) /\ UNCHANGED fileVars
      <3>1. Shape(pwd[t], fd[t], "ifreed", j)
        BY <1>1, <2>3, CallAt DEF Shape
      <3>2. Ready(t, "ifreed", j)
        BY <1>1, <3>1, CallAt DEF Ready, Places, Read
      <3> QED
        BY <2>3, <3>2, StaysOn
    <2> QED
      BY <1>1, <2>1, <2>2, <2>3
  <1> QED
    BY <1>1, <1>2, <1>3, StandsInv

LEMMA RmdiredInv ==
    ASSUME CountInv, NEW t \in Task, Rmdired(t)
    PROVE  CountInv'
  <1> DEFINE j == job[t]
  <1>1. /\ pc[t] = "ifreed"
        /\ nlinks' = [[nlinks EXCEPT ![Desc(j.mem)] = 0] EXCEPT ![Dir(j)] = (@ + 255) % 256]
        /\ inode' = [inode EXCEPT ![j.mem].nr = 0]
        /\ entry' = [entry EXCEPT ![Dir(j)][j.slot] = NoEntry]
        /\ Finish(t, j, 0) /\ UNCHANGED <<imap, zmap, kind, zone>>
    BY DEF Rmdired
  <1>2. /\ DiskType /\ TableOK(inode) /\ j \in Job /\ j.keep = 0 /\ j.held # << >>
        /\ j.mem \in Mem /\ inode[j.mem].desc # 0 /\ Desc(j.mem) \in Inode /\ Dir(j) \in Inode
    BY <1>1, Parts, CallAt DEF Read
  <1>3. DiskType'
    <2>0. [nlinks EXCEPT ![Desc(j.mem)] = 0] \in [Inode -> 0 .. 255]
      BY <1>2 DEF DiskType
    <2>1. PICK N \in [Inode -> 0 .. 255] : N = [nlinks EXCEPT ![Desc(j.mem)] = 0]
      BY <2>0
    <2>2. PICK d \in Inode : d = Dir(j)
      BY <1>2
    <2>3. (N[d] + 255) % 256 \in 0 .. 255
      BY Width
    <2>4. nlinks' \in [Inode -> 0 .. 255]
      BY <1>1, <2>1, <2>2, <2>3
    <2>5. PICK e \in [name : Name \cup {NoName}, nr : 0 .. NInode] : e = NoEntry
      BY NoEntryType
    <2>6. entry' \in [Inode -> [Slot -> [name : Name \cup {NoName}, nr : 0 .. NInode]]]
      BY <1>1, <1>2, <2>2, <2>5 DEF DiskType
    <2> QED
      BY <1>1, <1>2, <2>4, <2>6 DEF DiskType
  <1>4. TableOK(inode') /\ \A m \in Mem : inode'[m].count = inode[m].count /\ inode'[m].desc = inode[m].desc
    <2> DEFINE r == [inode[j.mem] EXCEPT !.nr = 0]
    <2>1. inode[j.mem] \in InodeRecord /\ 0 \in 0 .. NInode
      BY <1>2, Sizes DEF TableOK
    <2>2. /\ r \in InodeRecord /\ r.nr = 0 /\ r.used = inode[j.mem].used /\ r.count = inode[j.mem].count
          /\ r.desc = inode[j.mem].desc
      BY <2>1 DEF InodeRecord
    <2>3. inode[j.mem].used
      BY <1>2 DEF TableOK, NoInode
    <2> HIDE DEF r
    <2>4. inode' = [inode EXCEPT ![j.mem] = r]
      BY <1>1 DEF r
    <2> QED
      BY <1>2, <2>2, <2>3, <2>4 DEF TableOK
  <1>5. TableRight
    BY <1>4, TableEq DEF TableRight
  <1>6. Balanced(t, j)
    BY <1>4 DEF Balanced
  <1>7. GoesOn(t, j)
    BY <1>1, <1>2, AbortGoes
  <1> QED
    BY <1>1, <1>3, <1>5, <1>6, <1>7, GoesOnInv
-----------------------------------------------------------------------------
\* What another task has in memory does not go when task t puts what it holds.
LEMMA OthersStand ==
    ASSUME CountInv, NEW t \in Task, NEW u \in Task \ {t}
    PROVE  /\ Other(t, pwd[u])
           /\ job[u].keep # 0 => Other(t, job[u].keep)
           /\ job[u].mem # 0 /\ pc[u] \notin {"load", "unread"} => Other(t, job[u].mem)
  <1>1. /\ TypeOK /\ FilesRight /\ JobsRight /\ Shape(pwd[u], fd[u], pc[u], job[u]) /\ pc[u] \in Places
        /\ job[u] \in Job
    BY Parts
  <1>2. Other(t, pwd[u])
    <2>1. CASE ~Leaves(job[u])
      BY <2>1 DEF Other
    <2>2. CASE Leaves(job[u])
      <3>1. pc[u] = "put"
        BY <1>1, <2>2 DEF Shape, Places, OnInode, InDir, Leaves, NoJob
      <3>2. \E i \in DOMAIN job[u].held : job[u].held[i] = pwd[u]
        BY <1>1, <2>2, <3>1 DEF Shape
      <3> QED
        BY <3>2 DEF Other
    <2> QED
      BY <2>1, <2>2
  <1>3. job[u].keep # 0 => Other(t, job[u].keep)
    BY DEF Other
  <1>4. ASSUME job[u].mem # 0, pc[u] \notin {"load", "unread"} PROVE Other(t, job[u].mem)
    <2>1. CASE OnInode(pwd[u], job[u])
      <3>1. 1 \in DOMAIN job[u].held /\ job[u].held[1] = job[u].mem
        <4>1. job[u].held = <<job[u].mem, job[u].dir>>
          BY <2>1 DEF OnInode
        <4> QED
          BY <4>1
      <3> QED
        BY <3>1 DEF Other
    <2>2. CASE ~OnInode(pwd[u], job[u])
      <3>1. pc[u] = "block" /\ job[u].call = "write" /\ fd[u] # 0
        BY <1>1, <1>4, <2>2 DEF Shape, Places, NoJob
      <3>2. job[u].mem = file[fd[u]].inode /\ ~Closing(u)
        BY <1>1, <3>1 DEF JobsRight, Closing
      <3>3. fd[u] \in File /\ file[fd[u]].count > 0
        BY <1>1, <3>1, <3>2, UserFile
      <3> QED
        BY <3>2, <3>3 DEF Other
    <2> QED
      BY <2>1, <2>2
  <1> QED
    BY <1>2, <1>3, <1>4

\* Task t goes on with the working directory w, the descriptor g and the locals
\* j, and with the file f as it is then.
MovesOn(t, w, g, place, j, f) ==
    /\ Moves(t, w, j, f)
    /\ pc' = [pc EXCEPT ![t] = place]
    /\ fd' = [fd EXCEPT ![t] = g]

LEMMA MovesOnInv ==
    ASSUME CountInv, TypeOK', InodesRight', NEW t \in Task, NEW w, NEW g, NEW place, NEW j, NEW f,
           MovesOn(t, w, g, place, j, f),
           \A m \in Mem : Other(t, m) /\ inode[m].desc # 0 => inode'[m].desc # 0,
           \A m \in Mem : inode'[m].count + Refs(pwd[t], job[t], m) + Ind(f \in Opened(m))
                              = inode[m].count + Refs(w, j, m) + Ind(f \in Opened(m)'),
           \A h \in File \ {f} : Users(h)' = Users(h),
           file'[f].count = Cardinality(Users(f)'),
           file'[f].count > 0 => Read(file[f].inode)',
           \A u \in Task \ {t} : pc[u] = "block" /\ job[u].call = "write" =>
                                     file'[fd[u]].inode = file[fd[u]].inode,
           Shape(w, g, place, j), Read(w)', j.keep # 0 => Read(j.keep)', j.mem = 0
    PROVE  CountInv'
  <1>1. /\ TypeOK /\ CountsRight /\ FilesRight /\ JobsRight /\ pwd \in [Task -> Mem] /\ job \in [Task -> Job]
        /\ fd \in [Task -> File \cup {0}] /\ pc \in [Task -> Places] /\ f \in File
    BY DEF CountInv, TypeOK, MovesOn, Moves
  <1>2. CountsRight'
    <2>1. ASSUME NEW m \in Mem PROVE inode'[m].count = References(m)'
      <3>1. /\ References(m)' + Refs(pwd[t], job[t], m) + Ind(f \in Opened(m))
                 = References(m) + Refs(w, j, m) + Ind(f \in Opened(m)')
            /\ References(m) \in Nat /\ References(m)' \in Nat
            /\ Refs(pwd[t], job[t], m) \in Nat /\ Refs(w, j, m) \in Nat
        BY <1>1, ReferencesNext DEF MovesOn
      <3>2. Ind(f \in Opened(m)) \in Nat /\ Ind(f \in Opened(m)') \in Nat
        BY DEF Ind
      <3>3. inode[m].count = References(m)
        BY <1>1, CountsEq
      <3>4. inode'[m].count \in Nat
        BY DEF TypeOK, InodeRecord
      <3>5. inode'[m].count + Refs(pwd[t], job[t], m) + Ind(f \in Opened(m))
                = inode[m].count + Refs(w, j, m) + Ind(f \in Opened(m)')
        OBVIOUS
      <3> QED
        BY <3>1, <3>2, <3>3, <3>4, <3>5
    <2> QED
      BY <2>1, CountsEq
  <1>3. FilesRight'
    <2> SUFFICES ASSUME NEW h \in File
                 PROVE  /\ file'[h].count = Cardinality(Users(h)')
                        /\ file'[h].count > 0 => Read(file[h].inode)'
      BY DEF FilesRight, File
    <2>1. CASE h = f
      BY <2>1
    <2>2. CASE h # f
      <3>1. file'[h] = file[h] /\ Users(h)' = Users(h) /\ file[h].count = Cardinality(Users(h))
        BY <1>1, <2>2 DEF MovesOn, Moves, FilesRight
      <3>2. file[h].count > 0 => Read(file[h].inode) /\ Other(t, file[h].inode)
        BY <1>1 DEF FilesRight, Other
      <3> QED
        BY <3>1, <3>2 DEF Read
    <2> QED
      BY <2>1, <2>2
  <1>4. JobsRight'
    <2> SUFFICES ASSUME NEW u \in Task
                 PROVE  /\ Shape(pwd'[u], fd'[u], pc'[u], job'[u])
                        /\ Read(pwd[u])'
                        /\ job'[u].keep # 0 => Read(job[u].keep)'
                        /\ job'[u].mem # 0 /\ pc'[u] \notin {"load", "unread"} => Read(job[u].mem)'
                        /\ pc'[u] = "block" /\ job'[u].call = "write" => job'[u].mem = file'[fd'[u]].inode
      BY DEF JobsRight
    <2>1. CASE u = t
      <3>1. pwd'[u] = w /\ fd'[u] = g /\ pc'[u] = place /\ job'[u] = j
        BY <1>1, <2>1 DEF MovesOn, Moves
      <3>2. place # "block"
        BY DEF Shape
      <3> QED
        BY <3>1, <3>2
    <2>2. CASE u # t
      <3>1. pwd'[u] = pwd[u] /\ fd'[u] = fd[u] /\ pc'[u] = pc[u] /\ job'[u] = job[u]
        BY <1>1, <2>2 DEF MovesOn, Moves
      <3>2. /\ Other(t, pwd[u])
            /\ job[u].keep # 0 => Other(t, job[u].keep)
            /\ job[u].mem # 0 /\ pc[u] \notin {"load", "unread"} => Other(t, job[u].mem)
        BY <2>2, OthersStand
      <3>3. /\ Shape(pwd[u], fd[u], pc[u], job[u])
            /\ Read(pwd[u])
            /\ job[u].keep # 0 => Read(job[u].keep)
            /\ job[u].mem # 0 /\ pc[u] \notin {"load", "unread"} => Read(job[u].mem)
            /\ pc[u] = "block" /\ job[u].call = "write" => job[u].mem = file[fd[u]].inode
        BY <1>1 DEF JobsRight
      <3>4. \A m : Read(m) /\ Other(t, m) => m \in Mem /\ inode'[m].desc # 0
        BY DEF Read
      <3> QED
        BY <2>2, <3>1, <3>2, <3>3, <3>4 DEF Read
    <2> QED
      BY <2>1, <2>2
  <1>5. Read(Root)'
    BY DEF CountInv, Read, Other
  <1> QED
    BY <1>2, <1>3, <1>4, <1>5 DEF CountInv
-----------------------------------------------------------------------------
\* Every place gives up what task t holds of it.
LEMMA PutTable ==
    ASSUME CountInv, NEW t \in Task, Put(t)
    PROVE  /\ TableOK(inode')
           /\ \A m \in Mem : /\ inode'[m].count \in Nat
                             /\ inode'[m].count + Occ(job[t].held, m) = inode[m].count
                             /\ Other(t, m) => inode'[m].desc = inode[m].desc
  <1> DEFINE h == job[t].held
  <1>1. inode' = [m \in Mem |-> IF inode[m].count = Occ(h, m) THEN NoInode
                                ELSE [inode[m] EXCEPT !.count = @ - Occ(h, m)]]
    BY DEF Put, Occ
  <1>2. TableOK(inode) /\ TypeOK /\ CountsRight
    BY Parts
  <1>3. ASSUME NEW m \in Mem
        PROVE  /\ inode'[m] \in InodeRecord
               /\ inode'[m].count \in Nat
               /\ inode'[m].count + Occ(h, m) = inode[m].count
               /\ Other(t, m) => inode'[m].desc = inode[m].desc
               /\ inode'[m].used <=> inode'[m].count > 0
               /\ ~inode'[m].used => inode'[m] = NoInode
               /\ inode'[m].used /\ inode'[m].desc = 0 => inode'[m].nr # 0
    <2>1. /\ inode[m] \in InodeRecord /\ inode[m].count \in Nat /\ Occ(h, m) \in Nat
          /\ inode[m].count >= Occ(h, m) /\ (Other(t, m) => inode[m].count > Occ(h, m))
      BY <1>2, CountAbove DEF TableOK
    <2>2. CASE inode[m].count = Occ(h, m)
      <3>1. inode'[m] = NoInode
        BY <1>1, <2>2
      <3>2. NoInode \in InodeRecord /\ NoInode.count = 0 /\ ~NoInode.used
        BY Sizes DEF NoInode, InodeRecord
      <3> QED
        BY <2>1, <2>2, <3>1, <3>2
    <2>3. CASE inode[m].count # Occ(h, m)
      <3>1. PICK c \in Nat : c = inode[m].count - Occ(h, m) /\ c > 0
        BY <2>1, <2>3
      <3>2. inode'[m] = [inode[m] EXCEPT !.count = c]
        BY <1>1, <2>3, <3>1
      <3>3. /\ inode'[m] \in InodeRecord /\ inode'[m].count = c /\ inode'[m].used = inode[m].used
            /\ inode'[m].desc = inode[m].desc /\ inode'[m].nr = inode[m].nr
        BY <2>1, <3>2 DEF InodeRecord
      <3>4. inode[m].used /\ (inode[m].desc = 0 => inode[m].nr # 0)
        <4>1. inode[m].count > 0
          BY <2>1, <3>1
        <4> QED
          BY <1>2, <4>1 DEF TableOK
      <3> QED
        BY <2>1, <3>1, <3>3, <3>4
    <2> QED
      BY <2>2, <2>3
  <1>4. inode' \in [Mem -> InodeRecord]
    BY <1>1, <1>3
  <1> QED
    BY <1>3, <1>4 DEF TableOK

LEMMA PutInv ==
    ASSUME CountInv, NEW t \in Task, Put(t)
    PROVE  CountInv'
  <1> DEFINE j == job[t]
             opens == j.call \in {"open", "creat"} /\ j.keep # 0
             free == {x \in File : file[x].count = 0}
  <1>1. /\ pc[t] = "put" /\ DiskType /\ TableOK(inode) /\ j \in Job /\ Shape(pwd[t], fd[t], "put", j) /\ JobsRight
        /\ pwd \in [Task -> Mem] /\ fd \in [Task -> File \cup {0}] /\ pc \in [Task -> Places]
        /\ job \in [Task -> Job] /\ file \in [File -> [count : Nat, inode : Mem \cup {0}]]
        /\ Read(pwd[t]) /\ FilesRight /\ InodesRight /\ TypeOK
    BY Parts DEF Put, TypeOK
  <1>2. /\ j.mem = 0 /\ j.keep \in Mem \cup {0}
        /\ \/ j.call \in {"open", "creat", "chdir"} /\ j.keep # 0
           \/ j.call \in {"none", "close"} /\ j.keep = 0
        /\ opens => fd[t] = 0
        /\ j.keep # 0 => Read(j.keep)
    BY <1>1 DEF Shape, Job, JobsRight
  <1>3. /\ UNCHANGED diskVars /\ pc' = [pc EXCEPT ![t] = "user"] /\ job' = [job EXCEPT ![t] = NoJob]
        /\ opens => free # {}
        /\ file' = IF opens THEN [file EXCEPT ![Least(free)] = [count |-> 1, inode |-> j.keep]] ELSE file
        /\ fd' = [fd EXCEPT ![t] = IF opens THEN Least(free) ELSE IF j.call = "close" THEN 0 ELSE @]
        /\ pwd' = [pwd EXCEPT ![t] = IF j.call = "chdir" /\ j.keep # 0 THEN j.keep ELSE @]
    <2>1. PICK q : q = [j EXCEPT !.held = << >>]
      OBVIOUS
    <2>2. q.held = << >> /\ q.call = j.call /\ q.keep = j.keep
      BY <1>1, <2>1 DEF Job
    <2>3. Resume(t, q, file) /\ UNCHANGED diskVars
      BY <2>1 DEF Put
    <2> QED
      BY <2>2, <2>3 DEF Resume, At
  <1>4. opens => Least(free) \in free
    BY <1>3, LeastNumber, Sizes DEF File
  <1>5. PICK f \in File : opens => f = Least(free) /\ file[f].count = 0
    <2>1. 1 \in File
      BY Sizes DEF File
    <2> QED
      BY <1>4, <2>1
  <1>6. PICK w \in Mem : w = IF j.call = "chdir" /\ j.keep # 0 THEN j.keep ELSE pwd[t]
    BY <1>1, <1>2
  <1>7. PICK g \in File \cup {0} : g = IF opens THEN f ELSE IF j.call = "close" THEN 0 ELSE fd[t]
    BY <1>1
  <1>8. /\ file' = IF opens THEN [file EXCEPT ![f] = [count |-> 1, inode |-> j.keep]] ELSE file
        /\ fd' = [fd EXCEPT ![t] = g]
        /\ pwd' = [pwd EXCEPT ![t] = w]
    BY <1>3, <1>5, <1>6, <1>7
  <1>9. MovesOn(t, w, g, "user", NoJob, f)
    <2>1. \A h \in File \ {f} : file'[h] = file[h]
      BY <1>1, <1>8
    <2> QED
      BY <1>3, <1>8, <2>1, NoJobType DEF MovesOn, Moves
  <1>10. /\ TableOK(inode')
         /\ \A m \in Mem : /\ inode'[m].count \in Nat
                           /\ inode'[m].count + Occ(j.held, m) = inode[m].count
                           /\ Other(t, m) => inode'[m].desc = inode[m].desc
    BY PutTable
  <1>11. TypeOK' /\ InodesRight'
    <2>1. DiskType'
      BY <1>1, <1>3 DEF diskVars, DiskType
    <2>2. file' \in [File -> [count : Nat, inode : Mem \cup {0}]]
      <3>1. [count |-> 1, inode |-> j.keep] \in [count : Nat, inode : Mem \cup {0}]
        BY <1>2
      <3> QED
        BY <1>1, <1>8, <3>1
    <2>3. fd' \in [Task -> File \cup {0}] /\ pwd' \in [Task -> Mem]
      BY <1>1, <1>8
    <2>4. pc' \in [Task -> Places] /\ job' \in [Task -> Job]
      BY <1>1, <1>3, NoJobType DEF Places
    <2>5. inode' \in [Mem -> InodeRecord] /\ InodesRight'
      BY <1>10, TableEq
    <2> QED
      BY <2>1, <2>2, <2>3, <2>4, <2>5 DEF TypeOK, DiskType
  <1>12. ASSUME NEW m \in Mem
         PROVE  inode'[m].count + Refs(pwd[t], j, m) + Ind(f \in Opened(m))
                    = inode[m].count + Refs(w, NoJob, m) + Ind(f \in Opened(m)')
    <2>1. Refs(w, NoJob, m) = Ind(w = m)
      <3>1. NoJob.held = << >> /\ NoJob.keep = 0 /\ Occ(<< >>, m) = 0 /\ m # 0
        BY OccNone DEF NoJob, Mem
      <3> QED
        BY <3>1 DEF Refs, Ind, Leaves
    <2>2. Refs(pwd[t], j, m) = Ind(pwd[t] = m /\ ~Leaves(j)) + Occ(j.held, m) + Ind(j.keep = m)
      BY DEF Refs
    <2>3. /\ inode'[m].count \in Nat /\ inode'[m].count + Occ(j.held, m) = inode[m].count
          /\ Occ(j.held, m) \in Nat
      BY <1>1, <1>10, RefsType
    <2>4. /\ m # 0 /\ Ind(pwd[t] = m /\ ~Leaves(j)) \in Nat /\ Ind(j.keep = m) \in Nat
          /\ Ind(f \in Opened(m)) \in Nat /\ Ind(w = m) \in Nat /\ Ind(f \in Opened(m)') \in Nat
      BY DEF Mem, Ind
    <2>5. Ind(pwd[t] = m /\ ~Leaves(j)) + Ind(j.keep = m) + Ind(f \in Opened(m)) = Ind(w = m) + Ind(f \in Opened(m)')
      <3>1. CASE opens
        <4>1. f \notin Opened(m) /\ (f \in Opened(m)' <=> j.keep = m)
          <5>1. file[f].count = 0 /\ file'[f].count = 1 /\ file'[f].inode = j.keep
            BY <1>1, <1>5, <1>8, <3>1
          <5> QED
            BY <5>1 DEF Opened, File
        <4>2. w = pwd[t] /\ ~Leaves(j)
          BY <1>6, <3>1 DEF Leaves
        <4> QED
          BY <4>1, <4>2 DEF Ind
      <3>2. CASE ~opens
        <4>1. Ind(f \in Opened(m)) = Ind(f \in Opened(m)')
          BY <1>8, <3>2 DEF Opened, File, Ind
        <4>2. Ind(pwd[t] = m /\ ~Leaves(j)) + Ind(j.keep = m) = Ind(w = m)
          BY <1>2, <1>6, <2>4, <3>2 DEF Leaves, Ind
        <4> QED
          BY <2>4, <4>1, <4>2
      <3> QED
        BY <3>1, <3>2
    <2>6. inode'[m].count + (Ind(pwd[t] = m /\ ~Leaves(j)) + Occ(j.held, m) + Ind(j.keep = m)) + Ind(f \in Opened(m))
              = inode[m].count + Ind(w = m) + Ind(f \in Opened(m)')
      <3> DEFINE c == Ind(pwd[t] = m /\ ~Leaves(j))
                 d == Ind(j.keep = m)
                 e == Ind(f \in Opened(m))
                 x == Ind(w = m)
                 y == Ind(f \in Opened(m)')
                 a == inode'[m].count
                 b == Occ(j.held, m)
                 z == inode[m].count
      <3>1. /\ a \in Nat /\ b \in Nat /\ c \in Nat /\ d \in Nat /\ e \in Nat /\ x \in Nat /\ y \in Nat
            /\ a + b = z /\ c + d + e = x + y
        BY <2>3, <2>4, <2>5
      <3> HIDE DEF a, b, c, d, e, x, y, z
      <3>2. a + (c + b + d) + e = z + x + y
        BY <3>1
      <3> QED
        BY <3>2 DEF a, b, c, d, e, x, y, z
    <2> QED
      BY <2>1, <2>2, <2>6, Zenon
  <1>13. /\ \A h \in File \ {f} : Users(h)' = Users(h)
         /\ file'[f].count = Cardinality(Users(f)')
         /\ file'[f].count > 0 => Read(file[f].inode)'
    <2>1. /\ ~Closing(t)' /\ \A u \in Task \ {t} : Closing(u)' <=> Closing(u)
          /\ \A u \in Task \ {t} : fd'[u] = fd[u]
          /\ fd'[t] = g
      BY <1>1, <1>3, <1>8 DEF Closing
    <2>2. CASE opens
      <3>1. fd[t] = 0 /\ g = f /\ file[f].count = 0
        BY <1>2, <1>5, <1>7, <2>2
      <3>2. \A h \in File \ {f} : Users(h)' = Users(h)
        BY <1>1, <2>1, <3>1, Sizes DEF Users, File
      <3>3. Users(f) = {}
        BY <1>1, <3>1, UsersType DEF FilesRight
      <3>4. Users(f)' = {t}
        BY <2>1, <3>1, <3>3 DEF Users
      <3>5. file'[f].count = 1 /\ file'[f].inode = j.keep
        BY <1>1, <1>8, <2>2
      <3>6. Read(j.keep) /\ Other(t, j.keep)
        BY <1>2, <2>2 DEF Other
      <3>7. inode'[j.keep].desc # 0 /\ j.keep \in Mem
        BY <1>10, <3>6 DEF Read
      <3> QED
        BY <3>2, <3>4, <3>5, <3>7, FS_Singleton DEF Read
    <2>3. CASE ~opens
      <3>1. file' = file
        BY <1>8, <2>3
      <3>2. \A h \in File : Users(h)' = Users(h)
        <4>1. CASE j.call = "close"
          <5>1. Closing(t) /\ g = 0
            BY <1>1, <1>7, <2>3, <4>1 DEF Closing
          <5> QED
            BY <2>1, <5>1, Sizes DEF Users, File
        <4>2. CASE j.call # "close"
          <5>1. ~Closing(t) /\ g = fd[t]
            BY <1>7, <2>3, <4>2 DEF Closing
          <5> QED
            BY <2>1, <5>1 DEF Users, File
        <4> QED
          BY <4>1, <4>2
      <3>3. file[f].count = Cardinality(Users(f)) /\ (file[f].count > 0 => Read(file[f].inode) /\ Other(t, file[f].inode))
        BY <1>1 DEF FilesRight, Other
      <3>4. file[f].count > 0 => inode'[file[f].inode].desc # 0 /\ file[f].inode \in Mem
        BY <1>10, <3>3 DEF Read
      <3> QED
        BY <3>1, <3>2, <3>3, <3>4 DEF Read
    <2> QED
      BY <2>2, <2>3
  <1>14. \A u \in Task \ {t} : pc[u] = "block" /\ job[u].call = "write" => file'[fd[u]].inode = file[fd[u]].inode
    <2> SUFFICES ASSUME NEW u \in Task \ {t}, pc[u] = "block", job[u].call = "write"
                 PROVE  file'[fd[u]].inode = file[fd[u]].inode
      OBVIOUS
    <2>1. fd[u] # 0 /\ ~Closing(u)
      BY Parts DEF Shape, Closing
    <2>2. fd[u] \in File /\ file[fd[u]].count > 0
      BY <1>1, <2>1, UserFile
    <2>3. opens => fd[u] # f
      BY <1>5, <2>2
    <2> QED
      BY <1>1, <1>8, <2>2, <2>3
  <1>15. Shape(w, g, "user", NoJob) /\ NoJob.keep = 0 /\ NoJob.mem = 0
    BY DEF Shape, NoJob
  <1>16. Read(w)'
    <2>1. Other(t, w) /\ Read(w)
      <3>1. CASE Leaves(j)
        BY <1>2, <1>6, <3>1 DEF Leaves, Other
      <3>2. CASE ~Leaves(j)
        BY <1>1, <1>6, <3>2 DEF Leaves, Other
      <3> QED
        BY <3>1, <3>2
    <2> QED
      BY <1>10, <2>1 DEF Read
  <1> QED
    BY <1>9, <1>10, <1>11, <1>12, <1>13, <1>14, <1>15, <1>16, MovesOnInv
-----------------------------------------------------------------------------
LEMMA WriteInv ==
    ASSUME CountInv, NEW t \in Task, Write(t)
    PROVE  CountInv'
  <1>1. /\ pc[t] = "user" /\ fd[t] # 0 /\ TypeOK /\ FilesRight /\ DiskType
        /\ UNCHANGED <<imap, kind, nlinks, zone, entry, inode, fileVars>>
    BY Parts DEF Write
  <1>2. PICK m : m = file[fd[t]].inode
    OBVIOUS
  <1>3. PICK i \in Index : Balloc(t, [NoJob EXCEPT !.call = "write", !.mem = m], i)
    BY <1>2 DEF Write
  <1>4. PICK b \in Block : /\ zmap' = zmap \cup {b}
                           /\ At(t, "block", [NoJob EXCEPT !.call = "write", !.mem = m, !.index = i, !.block = b])
    BY <1>3, FreeBlockFound DEF Balloc
  <1>5. Read(m) /\ m \in Mem
    BY <1>1, <1>2, UserFile DEF Closing, Read
  <1> DEFINE k == [NoJob EXCEPT !.call = "write", !.mem = m, !.index = i, !.block = b]
  <1>6. /\ k \in Job /\ k.call = "write" /\ k.mem = m /\ k.index = i /\ k.block = b /\ k.keep = 0
        /\ k.held = << >>
    <2>1. b \in 0 .. NBlock
      BY Sizes DEF Block
    <2>2. k \in Job
      BY <1>5, <2>1, NoJobType DEF Job
    <2> QED
      BY <2>2 DEF NoJob
  <1>7. At(t, "block", k)
    BY <1>4
  <1> HIDE DEF k
  <1>8. Ready(t, "block", k)
    <2>1. i # 0 /\ b # 0 /\ m # 0
      BY <1>5, Sizes DEF Index, Block, Mem
    <2>2. Shape(pwd[t], fd[t], "block", k)
      BY <1>1, <1>6, <2>1 DEF Shape
    <2> QED
      BY <1>1, <1>2, <1>5, <1>6, <2>2 DEF Ready, Places, Read
  <1>9. job[t] = NoJob /\ NoJob.held = << >> /\ NoJob.keep = 0
    BY <1>1, IdleRefs DEF NoJob
  <1>10. \A o \in Mem : Refs(pwd[t], k, o) = Refs(pwd[t], job[t], o)
    BY <1>6, <1>9 DEF Refs, Leaves
  <1>11. GoesOn(t, job[t])
    BY <1>1, <1>7, <1>8, <1>10 DEF GoesOn, GoesTo
  <1>12. DiskType'
    BY <1>1, <1>4 DEF DiskType
  <1> QED
    BY <1>1, <1>11, <1>12, StandsInv

\* The files when one of them has been counted anew, or given up.
LEMMA FileWritten ==
    ASSUME NEW F \in [File -> [count : Nat, inode : Mem \cup {0}]], NEW f \in File,
           NEW c \in Nat
    PROVE  [F EXCEPT ![f].count = c] \in [File -> [count : Nat, inode : Mem \cup {0}]]
  <1>1. [F[f] EXCEPT !.count = c] \in [count : Nat, inode : Mem \cup {0}]
    OBVIOUS
  <1> QED
    BY <1>1

LEMMA InheritInv ==
    ASSUME CountInv, NEW t \in Task, Inherit(t)
    PROVE  CountInv'
  <1>1. PICK u \in Task : /\ pc[t] = "user" /\ fd[t] = 0 /\ pc[u] = "user" /\ fd[u] # 0
                          /\ fd' = [fd EXCEPT ![t] = fd[u]]
                          /\ file' = [file EXCEPT ![fd[u]].count = @ + 1]
                          /\ UNCHANGED <<diskVars, inode, pwd, pc, job>>
    BY DEF Inherit
  <1>2. /\ DiskType /\ TableOK(inode) /\ JobsRight
        /\ pwd \in [Task -> Mem] /\ fd \in [Task -> File \cup {0}] /\ pc \in [Task -> Places]
        /\ job \in [Task -> Job] /\ file \in [File -> [count : Nat, inode : Mem \cup {0}]]
        /\ Read(pwd[t]) /\ FilesRight /\ InodesRight /\ TypeOK /\ job[t] = NoJob
    BY <1>1, Parts, IdleRefs DEF TypeOK
  <1>3. PICK f \in File : f = fd[u] /\ file[f].count > 0 /\ Read(file[f].inode)
    BY <1>1, <1>2, UserFile DEF Closing
  <1>4. PICK c \in Nat : c = file[f].count + 1
    BY <1>2
  <1>5. file' = [file EXCEPT ![f].count = c] /\ fd' = [fd EXCEPT ![t] = f]
    BY <1>1, <1>3, <1>4
  <1>6. PICK w \in Mem : w = pwd[t]
    BY <1>2
  <1>7. MovesOn(t, w, f, "user", NoJob, f)
    <2>1. \A h \in File \ {f} : file'[h] = file[h]
      BY <1>2, <1>5
    <2>2. pwd' = [pwd EXCEPT ![t] = w] /\ job' = [job EXCEPT ![t] = NoJob] /\ pc' = [pc EXCEPT ![t] = "user"]
      BY <1>1, <1>2, <1>6
    <2> QED
      BY <1>5, <2>1, <2>2, NoJobType DEF MovesOn, Moves
  <1>8. TypeOK' /\ InodesRight'
    <2>1. file' \in [File -> [count : Nat, inode : Mem \cup {0}]]
      BY <1>2, <1>5, FileWritten
    <2>2. fd' \in [Task -> File \cup {0}]
      BY <1>2, <1>5
    <2>3. InodesRight'
      BY <1>1, <1>2 DEF InodesRight
    <2> QED
      BY <1>1, <1>2, <2>1, <2>2, <2>3 DEF TypeOK, diskVars
  <1>9. file'[f].count = c /\ file'[f].inode = file[f].inode /\ c > 0
    BY <1>2, <1>4, <1>5
  <1>10. ASSUME NEW m \in Mem
         PROVE  inode'[m].count + Refs(pwd[t], job[t], m) + Ind(f \in Opened(m))
                    = inode[m].count + Refs(w, NoJob, m) + Ind(f \in Opened(m)')
    <2>1. Ind(f \in Opened(m)) = Ind(f \in Opened(m)')
      BY <1>3, <1>9 DEF Opened, File, Ind
    <2>2. inode' = inode /\ Refs(pwd[t], job[t], m) = Refs(w, NoJob, m)
      BY <1>1, <1>2, <1>6
    <2> QED
      BY <2>1, <2>2
  <1>11. /\ \A h \in File \ {f} : Users(h)' = Users(h)
         /\ file'[f].count = Cardinality(Users(f)')
    <2>1. /\ \A x \in Task : Closing(x)' <=> Closing(x)
          /\ ~Closing(t)
          /\ \A x \in Task \ {t} : fd'[x] = fd[x]
          /\ fd'[t] = f
      BY <1>1, <1>2, <1>5 DEF Closing
    <2>2. \A h \in File \ {f} : Users(h)' = Users(h)
      BY <1>1, <2>1, Sizes DEF Users, File
    <2>3. Users(f)' = Users(f) \cup {t} /\ t \notin Users(f)
      BY <1>1, <2>1, Sizes DEF Users, File
    <2>4. Cardinality(Users(f) \cup {t}) = Cardinality(Users(f)) + 1
      BY <2>3, UsersType, FS_AddElement
    <2>5. file[f].count = Cardinality(Users(f))
      BY <1>2 DEF FilesRight
    <2> QED
      BY <1>4, <1>9, <2>2, <2>3, <2>4, <2>5
  <1>12. Read(file[f].inode)' /\ Read(w)'
    BY <1>1, <1>2, <1>3, <1>6, <1>9 DEF Read
  <1>13. Shape(w, f, "user", NoJob) /\ NoJob.keep = 0 /\ NoJob.mem = 0
    BY DEF Shape, NoJob
  <1>14. \A x \in Task \ {t} : pc[x] = "block" /\ job[x].call = "write" => file'[fd[x]].inode = file[fd[x]].inode
    <2> SUFFICES ASSUME NEW x \in Task \ {t}, pc[x] = "block", job[x].call = "write"
                 PROVE  file'[fd[x]].inode = file[fd[x]].inode
      OBVIOUS
    <2>1. fd[x] # 0
      BY Parts DEF Shape
    <2>2. fd[x] \in File
      BY <1>2, <2>1
    <2> QED
      BY <1>2, <1>5, <2>2
  <1> QED
    BY <1>1, <1>7, <1>8, <1>10, <1>11, <1>12, <1>13, <1>14, MovesOnInv
LEMMA CloseInv ==
    ASSUME CountInv, NEW t \in Task, Close(t)
    PROVE  CountInv'
  <1>1. /\ pc[t] = "user" /\ fd[t] # 0 /\ UNCHANGED <<diskVars, inode>>
    BY DEF Close
  <1>2. /\ DiskType /\ TableOK(inode) /\ JobsRight
        /\ pwd \in [Task -> Mem] /\ fd \in [Task -> File \cup {0}] /\ pc \in [Task -> Places]
        /\ job \in [Task -> Job] /\ file \in [File -> [count : Nat, inode : Mem \cup {0}]]
        /\ Read(pwd[t]) /\ FilesRight /\ InodesRight /\ TypeOK /\ job[t] = NoJob
        /\ \A o \in Mem : Refs(pwd[t], job[t], o) = Ind(pwd[t] = o)
    BY <1>1, Parts, IdleRefs DEF TypeOK
  <1>3. PICK f \in File : /\ f = fd[t] /\ file[f].count > 0 /\ Read(file[f].inode)
                          /\ \A u \in Task \ {t} : file[f].count = 1 => fd[u] # f \/ Closing(u)
    BY <1>1, <1>2, UserFile DEF Closing
  <1>4. PICK m : m = file[f].inode
    OBVIOUS
  <1>5. PICK w \in Mem : w = pwd[t]
    BY <1>2
  <1>6. t \in Users(f) /\ file[f].count = Cardinality(Users(f)) /\ m \in Mem /\ inode' = inode /\ Read(m)
    BY <1>1, <1>2, <1>3, <1>4 DEF Users, Closing, FilesRight, Read
  <1> DEFINE Same(u) == pc[u] = "block" /\ job[u].call = "write" => file'[fd[u]].inode = file[fd[u]].inode
  <1>7. \A u \in Task : pc[u] = "block" /\ job[u].call = "write" => fd[u] \in File /\ ~Closing(u)
    <2> SUFFICES ASSUME NEW u \in Task, pc[u] = "block", job[u].call = "write"
                 PROVE  fd[u] \in File /\ ~Closing(u)
      OBVIOUS
    <2>1. fd[u] # 0
      BY Parts DEF Shape
    <2> QED
      BY <1>2, <2>1 DEF Closing
  <1>8. ASSUME NEW o \in Mem PROVE Ind(f \in Opened(o)) = Ind(m = o)
    BY <1>3, <1>4 DEF Opened, Ind
  <1>9. CASE file[f].count = 1
    <2> DEFINE k == [NoJob EXCEPT !.call = "close", !.held = <<m>>]
    <2>1. /\ k \in Job /\ k.call = "close" /\ k.keep = 0 /\ k.held = <<m>> /\ k.mem = 0 /\ k.dir = 0 /\ k.nr = 0
      <3>1. <<m>> \in Seq(Mem)
        BY <1>6
      <3>2. k \in Job
        BY <3>1, NoJobType DEF Job
      <3> QED
        BY <3>2 DEF NoJob
    <2>2. Resume(t, k, [file EXCEPT ![f] = NoFile])
      BY <1>3, <1>4, <1>9 DEF Close
    <2> HIDE DEF k
    <2>3. At(t, "put", k) /\ file' = [file EXCEPT ![f] = NoFile] /\ UNCHANGED <<pwd, fd>>
      BY <2>1, <2>2 DEF Resume
    <2>4. PICK z \in [count : Nat, inode : Mem \cup {0}] : z = NoFile /\ z.count = 0
      <3>1. NoFile \in [count : Nat, inode : Mem \cup {0}] /\ NoFile.count = 0
        BY DEF NoFile
      <3> QED
        BY <3>1
    <2>5. file' = [file EXCEPT ![f] = z] /\ file'[f].count = 0
      BY <1>2, <2>3, <2>4
    <2>6. MovesOn(t, w, f, "put", k, f)
      <3>1. \A h \in File \ {f} : file'[h] = file[h]
        BY <1>2, <2>5
      <3>2. pwd' = [pwd EXCEPT ![t] = w] /\ fd' = [fd EXCEPT ![t] = f]
        BY <1>2, <1>3, <1>5, <2>3
      <3> QED
        BY <2>1, <2>3, <3>1, <3>2 DEF MovesOn, Moves, At
    <2>7. TypeOK' /\ InodesRight'
      <3>1. file' \in [File -> [count : Nat, inode : Mem \cup {0}]]
        BY <1>2, <2>5
      <3>2. pc' \in [Task -> Places] /\ job' \in [Task -> Job]
        BY <1>2, <2>1, <2>3 DEF At, Places
      <3>3. InodesRight'
        BY <1>2, <1>6 DEF InodesRight
      <3> QED
        BY <1>1, <1>2, <2>3, <3>1, <3>2, <3>3 DEF TypeOK, diskVars
    <2>8. ASSUME NEW o \in Mem
          PROVE  inode'[o].count + Refs(pwd[t], job[t], o) + Ind(f \in Opened(o))
                     = inode[o].count + Refs(w, k, o) + Ind(f \in Opened(o)')
      <3>1. Ind(f \in Opened(o)') = 0
        BY <2>5 DEF Opened, Ind
      <3>2. Occ(k.held, o) = Ind(m = o) /\ o # 0 /\ ~Leaves(k)
        BY <2>1, OccOne DEF Leaves, Mem
      <3>3. Refs(w, k, o) = Ind(pwd[t] = o) + Ind(m = o) + 0
        BY <1>5, <2>1, <3>2 DEF Refs, Ind
      <3>4. inode[o].count \in Nat /\ Ind(pwd[t] = o) \in Nat /\ Ind(m = o) \in Nat
        BY <1>2 DEF TableOK, InodeRecord, Ind
      <3>5. /\ inode'[o].count = inode[o].count /\ Refs(pwd[t], job[t], o) = Ind(pwd[t] = o)
            /\ Ind(f \in Opened(o)) = Ind(m = o)
        BY <1>2, <1>6, <1>8
      <3>6. inode[o].count + Ind(pwd[t] = o) + Ind(m = o) = inode[o].count + (Ind(pwd[t] = o) + Ind(m = o) + 0) + 0
        BY <3>4
      <3> QED
        BY <3>1, <3>3, <3>5, <3>6, Zenon
    <2>9. /\ \A h \in File \ {f} : Users(h)' = Users(h)
          /\ file'[f].count = Cardinality(Users(f)')
      <3>1. /\ \A u \in Task \ {t} : Closing(u)' <=> Closing(u)
            /\ Closing(t)' /\ fd' = fd
        BY <1>2, <2>1, <2>3 DEF Closing, At
      <3>2. \A h \in File \ {f} : Users(h)' = Users(h)
        BY <1>3, <3>1 DEF Users, File
      <3>3. Users(f)' = {}
        BY <1>3, <1>9, <3>1 DEF Users
      <3> QED
        BY <2>5, <3>2, <3>3, FS_EmptySet
    <2>10. \A u \in Task \ {t} : Same(u)
      BY <1>2, <1>3, <1>7, <1>9, <2>5
    <2>11. Shape(w, f, "put", k)
      <3>1. f # 0 /\ k.held # << >>
        BY <2>1, Sizes DEF File
      <3> QED
        BY <2>1, <3>1 DEF Shape, Leaves
    <2>12. Read(w)'
      BY <1>2, <1>5, <1>6 DEF Read
    <2> QED
      BY <1>6, <2>1, <2>5, <2>6, <2>7, <2>8, <2>9, <2>10, <2>11, <2>12, MovesOnInv
  <1>10. CASE file[f].count # 1
    <2>1. PICK c \in Nat : c = file[f].count - 1 /\ c > 0
      BY <1>2, <1>3, <1>10
    <2> DEFINE k == [NoJob EXCEPT !.call = "close", !.held = << >>]
    <2>2. k.call = "close" /\ k.keep = 0 /\ k.held = << >>
      BY DEF NoJob
    <2>3. Resume(t, k, [file EXCEPT ![f].count = c])
      <3>1. Resume(t, k, [file EXCEPT ![f].count = @ - 1])
        BY <1>3, <1>10 DEF Close
      <3>2. [file EXCEPT ![f].count = @ - 1] = [file EXCEPT ![f].count = c]
        BY <2>1
      <3> QED
        BY <3>1, <3>2, Zenon
    <2> HIDE DEF k
    <2>4. /\ At(t, "user", NoJob) /\ file' = [file EXCEPT ![f].count = c]
          /\ fd' = [fd EXCEPT ![t] = 0] /\ pwd' = [pwd EXCEPT ![t] = @]
      BY <2>2, <2>3 DEF Resume
    <2>5. file'[f].count = c /\ file'[f].inode = file[f].inode /\ \A h \in File \ {f} : file'[h] = file[h]
      BY <1>2, <2>4
    <2>6. MovesOn(t, w, 0, "user", NoJob, f)
      <3>1. pwd' = [pwd EXCEPT ![t] = w]
        BY <1>5, <2>4
      <3> QED
        BY <2>4, <2>5, <3>1, NoJobType DEF MovesOn, Moves, At
    <2>7. TypeOK' /\ InodesRight'
      <3>1. file' \in [File -> [count : Nat, inode : Mem \cup {0}]]
        BY <1>2, <2>4, FileWritten
      <3>2. pc' \in [Task -> Places] /\ job' \in [Task -> Job]
        BY <1>2, <2>4, NoJobType DEF At, Places
      <3>3. InodesRight'
        BY <1>2, <1>6 DEF InodesRight
      <3>4. pwd' \in [Task -> Mem] /\ fd' \in [Task -> File \cup {0}]
        BY <1>2, <2>4
      <3> QED
        BY <1>1, <1>2, <3>1, <3>2, <3>3, <3>4 DEF TypeOK, diskVars
    <2>8. ASSUME NEW o \in Mem
          PROVE  inode'[o].count + Refs(pwd[t], job[t], o) + Ind(f \in Opened(o))
                     = inode[o].count + Refs(w, NoJob, o) + Ind(f \in Opened(o)')
      <3>1. Ind(f \in Opened(o)) = Ind(f \in Opened(o)')
        BY <1>3, <2>1, <2>5 DEF Opened, File, Ind
      <3> QED
        BY <1>2, <1>5, <1>6, <3>1
    <2>9. /\ \A h \in File \ {f} : Users(h)' = Users(h)
          /\ file'[f].count = Cardinality(Users(f)')
      <3>1. /\ \A u \in Task \ {t} : Closing(u)' <=> Closing(u)
            /\ \A u \in Task \ {t} : fd'[u] = fd[u]
            /\ fd'[t] = 0
        BY <1>2, <2>4 DEF Closing, At
      <3>2. \A h \in File \ {f} : Users(h)' = Users(h)
        BY <1>3, <3>1, Sizes DEF Users, File
      <3>3. Users(f)' = Users(f) \ {t}
        BY <3>1, Sizes DEF Users, File
      <3>4. Cardinality(Users(f) \ {t}) = Cardinality(Users(f)) - 1
        BY <1>6, UsersType, FS_RemoveElement
      <3> QED
        BY <1>6, <2>1, <2>5, <3>2, <3>3, <3>4
    <2>10. \A u \in Task \ {t} : Same(u)
      BY <1>7, <2>5
    <2>11. Shape(w, 0, "user", NoJob) /\ NoJob.keep = 0 /\ NoJob.mem = 0
      BY DEF Shape, NoJob
    <2>12. Read(w)' /\ Read(file[f].inode)'
      BY <1>2, <1>3, <1>5, <1>6, <2>5 DEF Read
    <2> QED
      BY <1>6, <2>6, <2>7, <2>8, <2>9, <2>10, <2>11, <2>12, MovesOnInv
  <1> QED
    BY <1>9, <1>10
-----------------------------------------------------------------------------
LEMMA InitInv == Init => CountInv
  <1> SUFFICES ASSUME Init PROVE CountInv
    OBVIOUS
  <1>1. /\ pwd = [t \in Task |-> Root] /\ file = [f \in File |-> NoFile] /\ fd = [t \in Task |-> 0]
        /\ pc = [t \in Task |-> "user"] /\ job = [t \in Task |-> NoJob]
        /\ inode = [m \in Mem |-> IF m = Root
                                  THEN [used |-> TRUE, nr |-> Root, desc |-> Root,
                                        count |-> 2 + 2 * Cardinality(Task)]
                                  ELSE NoInode]
    BY DEF Init
  <1>2. Cardinality(Task) \in Nat /\ IsFiniteSet(Task)
    BY Finite
  <1>3. NoJob \in Job /\ NoJob.keep = 0 /\ NoJob.mem = 0 /\ NoJob.held = << >> /\ ~Leaves(NoJob)
    BY NoJobType DEF NoJob, Leaves
  <1>4. TypeOK
    <2>1. DiskType
      <3>1. imap \subseteq Inode /\ zmap \subseteq Block
        BY Sizes DEF Init, Block
      <3>2. kind \in [Inode -> {"file", "dir", "device"}] /\ nlinks \in [Inode -> 0 .. 255]
        BY DEF Init
      <3>3. zone \in [Inode -> [Index -> Block \cup Device \cup {0}]]
        BY Sizes DEF Init, Block
      <3>4. entry \in [Inode -> [Slot -> [name : Name \cup {NoName}, nr : 0 .. NInode]]]
        BY NoEntryType DEF Init
      <3> QED
        BY <3>1, <3>2, <3>3, <3>4 DEF DiskType
    <2>2. inode \in [Mem -> InodeRecord]
      <3>1. NoInode \in InodeRecord
        BY Sizes DEF NoInode, InodeRecord
      <3>2. PICK c \in Nat : c = 2 + 2 * Cardinality(Task)
        BY <1>2
      <3>3. [used |-> TRUE, nr |-> Root, desc |-> Root, count |-> c] \in InodeRecord
        BY Sizes DEF InodeRecord, Inode
      <3> QED
        BY <1>1, <3>1, <3>2, <3>3
    <2>3. file \in [File -> [count : Nat, inode : Mem \cup {0}]]
      BY <1>1 DEF NoFile
    <2> QED
      BY <1>1, <1>3, <2>1, <2>2, <2>3, Sizes DEF TypeOK, DiskType, Places
  <1>5. CountsRight
    <2> SUFFICES ASSUME NEW m \in Mem PROVE inode[m].count = References(m)
      BY CountsEq
    <2>1. m # 0 /\ Opened(m) = {} /\ Keeping(m) = {} /\ Holding(m) = {}
      BY <1>1, <1>3 DEF Mem, Opened, Keeping, Holding, HoldingIn, NoFile
    <2>2. Staying(m) = IF m = Root THEN Task ELSE {}
      BY <1>1, <1>3 DEF Staying
    <2>3. Cardinality({}) = 0
      BY FS_EmptySet
    <2>4. References(m) = Cardinality(Staying(m)) + 0 + 0 + 0 + Own(m)
      BY <2>1, <2>3 DEF References
    <2> QED
      BY <1>1, <1>2, <2>2, <2>3, <2>4 DEF Own, NoInode
  <1>6. FilesRight
    <2>1. ASSUME NEW f \in File PROVE Users(f) = {} /\ file[f].count = 0
      BY <1>1, Sizes DEF Users, File, NoFile
    <2> QED
      BY <2>1, FS_EmptySet DEF FilesRight
  <1>7. InodesRight
    <2> SUFFICES ASSUME NEW m \in Mem
                 PROVE  /\ inode[m].used <=> inode[m].count > 0
                        /\ ~inode[m].used => inode[m] = NoInode
                        /\ inode[m].used /\ inode[m].desc = 0 => inode[m].nr # 0
      BY DEF InodesRight
    <2>1. CASE m = Root
      <3>1. inode[m].used /\ inode[m].nr = Root /\ inode[m].count = 2 + 2 * Cardinality(Task)
        BY <1>1, <2>1
      <3> QED
        BY <1>2, <3>1 DEF Root
    <2>2. CASE m # Root
      <3>1. inode[m] = NoInode /\ ~NoInode.used /\ NoInode.count = 0
        BY <1>1, <2>2 DEF NoInode
      <3> QED
        BY <3>1
    <2> QED
      BY <2>1, <2>2
  <1>8. Read(Root)
    BY <1>1, Sizes DEF Read, Root
  <1>9. JobsRight
    <2>1. Shape(Root, 0, "user", NoJob)
      BY DEF Shape, NoJob
    <2> QED
      BY <1>1, <1>3, <1>8, <2>1 DEF JobsRight
  <1> QED
    BY <1>4, <1>5, <1>6, <1>7, <1>8, <1>9 DEF CountInv

LEMMA StepInv == CountInv /\ [Next]_vars => CountInv'
  <1> SUFFICES ASSUME CountInv, [Next]_vars PROVE CountInv'
    OBVIOUS
  <1>1. ASSUME NEW t \in Task, Step(t) PROVE CountInv'
    BY <1>1, BeginInv, ChdirRootInv, LoadInv, LinkNewInv, AddInv, EnterInv, SetBlockInv, RmdirEmptyInv,
       FreeBlockInv, ClearZoneInv, TruncatedInv, RmdiredInv, PutInv, CloseInv, WriteInv, InheritInv DEF Step
  <1>2. CASE UNCHANGED vars
    BY <1>2 DEF vars, diskVars, fileVars, CountInv, TypeOK, CountsRight, FilesRight, Users, Closing, InodesRight,
                JobsRight, Read
  <1> QED
    BY <1>1, <1>2 DEF Next

\* The counts of inodes and of files, the table of inodes and the places of the
\* calls hold together at every step of namei.c, file.c and inode.c.
THEOREM FileSystemCounts == Spec => []CountInv
  BY InitInv, StepInv, PTL DEF Spec

\* The types of the state of a file system, for every schedule of the calls
\* and whatever the callers do not avoid: no stretch of namei.c, inode.c or
\* bmap.c takes nlinks out of its eight bits, or an index out of its table.
THEOREM FileSystemType == Spec => []TypeOK
  BY FileSystemCounts, PTL DEF CountInv

\* inode->count is the number of references to the inode (iget, iput, and the
\* calls of namei.c and file.c that pass inodes on), whichever calls are
\* suspended, and whatever the callers do not avoid: none is freed while a
\* call, an open file or a working directory has it, and none stays behind.
THEOREM Counts == Spec => []CountsRight
  BY FileSystemCounts, PTL DEF CountInv

\* file->count is the number of descriptors of the file, but for those that
\* sys_close is giving up, and the inode of an open file has been read.
THEOREM FileCounts == Spec => []FilesRight
  BY FileSystemCounts, PTL DEF CountInv
-----------------------------------------------------------------------------
\* The number of the inode in place m, as iget has set it.
Nr(m) == inode[m].nr

\* The inode that a call is about, the directory that it works in, and the
\* working directory of the task, as numbers.
TargetIn(T, j) == IF j.nr # 0 THEN j.nr
                  ELSE IF j.mem # 0 THEN T[j.mem].nr
                  ELSE IF j.keep # 0 THEN T[j.keep].nr ELSE 0
Target(t) == TargetIn(inode, job[t])
In(t) == IF job[t].dir = 0 THEN 0 ELSE Nr(job[t].dir)
Home(t) == Nr(pwd[t])

\* A place in use, whose inode has been read.
Good(m) == m \in Mem /\ inode[m].desc # 0 /\ inode[m].nr = inode[m].desc

\* An inode is in memory once, and who finds it unread is reading it.
MemRight ==
    /\ \A m, o \in Mem : inode[m].used /\ inode[o].used /\ inode[m].nr = inode[o].nr
                         /\ inode[m].nr # 0 => m = o
    /\ \A m \in Mem : inode[m].used /\ inode[m].desc # 0 => inode[m].nr \in {inode[m].desc, 0}
    /\ \A m \in Mem : inode[m].used /\ inode[m].desc = 0 => \E t \in Task : pc[t] = "load" /\ job[t].mem = m

PlaceRight(t) ==
    /\ pc[t] # "unread"
    /\ Good(pwd[t])
    /\ job[t].keep # 0 => Good(job[t].keep)
    /\ job[t].mem # 0 /\ pc[t] # "load" => Good(job[t].mem)
    /\ pc[t] = "load" => inode[job[t].mem].used /\ Nr(job[t].mem) # 0
    /\ job[t].mem # 0 /\ job[t].nr # 0 => Nr(job[t].mem) = job[t].nr
    /\ job[t].dir \in {0, pwd[t]}

FilesGood == \A f \in File : file[f].count > 0 => Good(file[f].inode)

PlacesRight == (\A t \in Task : PlaceRight(t)) /\ FilesGood /\ Good(Root) /\ Nr(Root) = Root
-----------------------------------------------------------------------------
\* What a call has to iput is in use.
LEMMA HeldUsed ==
    CountInv => \A t \in Task : \A i \in DOMAIN job[t].held :
                    job[t].held[i] \in Mem /\ inode[job[t].held[i]].used
  <1> SUFFICES ASSUME CountInv, NEW t \in Task, NEW i \in DOMAIN job[t].held
               PROVE  job[t].held[i] \in Mem /\ inode[job[t].held[i]].used
    OBVIOUS
  <1>1. TypeOK /\ CountsRight /\ TableOK(inode) /\ job[t].held \in Seq(Mem)
    BY Parts DEF Job
  <1>2. PICK m \in Mem : m = job[t].held[i]
    BY <1>1
  <1>3. inode[m].count \in Nat /\ Occ(job[t].held, m) \in Nat /\ inode[m].count >= Occ(job[t].held, m)
    BY <1>1, CountAbove
  <1>4. Occ(job[t].held, m) # 0
    BY <1>1, <1>2, OccType
  <1> QED
    BY <1>1, <1>2, <1>3, <1>4 DEF TableOK

\* What is on hand in every state: what a call on an inode holds is in use,
\* and so is what has been read.
HeldRight ==
    /\ \A t \in Task : job[t].mem # 0 /\ job[t].held # << >> => job[t].mem \in Mem /\ inode[job[t].mem].used
    /\ \A m : Read(m) => inode[m].used
    /\ \A t \in Task : Read(pwd[t]) /\ (job[t].keep # 0 => Read(job[t].keep))
    /\ \A t \in Task : job[t].mem # 0 /\ pc[t] \notin {"load", "unread"} => Read(job[t].mem)
    /\ \A f \in File : file[f].count > 0 => Read(file[f].inode)
    /\ Read(Root)
    /\ \A m \in Mem : inode[m].used \/ inode[m] = NoInode
    /\ \A m \in Mem : inode[m] \in InodeRecord
    /\ \A t \in Task : pc[t] \in {"load", "unread"} => job[t].mem \in Mem /\ job[t].held # << >>
    /\ \A t \in Task : /\ pwd[t] \in Mem /\ job[t] \in Job /\ pc[t] \in Places
                       /\ pc[t] = "user" => job[t] = NoJob
                       /\ job[t].keep # 0 => pc[t] = "put" /\ job[t].mem = 0 /\ job[t].nr = 0 /\ job[t].dir = 0

LEMMA HeldIs == CountInv => HeldRight
  <1> SUFFICES ASSUME CountInv PROVE HeldRight
    OBVIOUS
  <1>0. TypeOK /\ InodesRight /\ JobsRight /\ FilesRight /\ Read(Root)
    BY DEF CountInv
  <1>1. ASSUME NEW t \in Task, job[t].mem # 0, job[t].held # << >>
        PROVE  job[t].mem \in Mem /\ inode[job[t].mem].used
    <2>1. Shape(pwd[t], fd[t], pc[t], job[t]) /\ pc[t] \in Places /\ job[t] \in Job
      BY Parts
    <2>2. OnInode(pwd[t], job[t])
      BY <1>1, <2>1 DEF Shape, Places, NoJob
    <2>3. 1 \in DOMAIN job[t].held /\ job[t].held[1] = job[t].mem
      <3>1. job[t].held = <<job[t].mem, job[t].dir>>
        BY <2>2 DEF OnInode
      <3> QED
        BY <3>1
    <2> QED
      BY <2>3, HeldUsed
  <1>2. ASSUME NEW m, Read(m) PROVE inode[m].used
    BY <1>0, <1>2 DEF InodesRight, Read, NoInode
  <1>3. ASSUME NEW t \in Task
        PROVE  pc[t] \in {"load", "unread"} => job[t].mem \in Mem /\ job[t].held # << >>
    <2>1. Shape(pwd[t], fd[t], pc[t], job[t]) /\ job[t] \in Job
      BY Parts
    <2>2. ASSUME pc[t] \in {"load", "unread"} PROVE job[t].mem \in Mem /\ job[t].held # << >>
      <3>1. OnInode(pwd[t], job[t])
        BY <2>1, <2>2 DEF Shape
      <3>2. job[t].held = <<job[t].mem, job[t].dir>> /\ job[t].mem # 0
        BY <3>1 DEF OnInode
      <3>3. job[t].mem \in Mem
        BY <2>1, <3>2 DEF Job
      <3> QED
        BY <3>2, <3>3
    <2> QED
      BY <2>2
  <1>4. ASSUME NEW t \in Task
        PROVE  /\ pc[t] = "user" => job[t] = NoJob
               /\ job[t].keep # 0 => pc[t] = "put" /\ job[t].mem = 0 /\ job[t].nr = 0 /\ job[t].dir = 0
    <2>1. Shape(pwd[t], fd[t], pc[t], job[t]) /\ pc[t] \in Places /\ job[t] \in Job
      BY Parts
    <2> QED
      BY <2>1 DEF Shape, Places, NoJob, OnInode, InDir
  <1> QED
    BY <1>0, <1>1, <1>2, <1>3, <1>4 DEF HeldRight, JobsRight, FilesRight, TypeOK, InodesRight

LEMMA HeldNext == CountInv' => HeldRight'
  BY HeldIs, PTL

\* The step of task t leaves the others where they are.
OthersSame(t) ==
    \A u \in Task \ {t} : pc'[u] = pc[u] /\ job'[u] = job[u] /\ pwd'[u] = pwd[u]

\* A place that stays in use keeps its inode, except for g.
TableStep(g) ==
    \A m \in Mem \ {g} : inode[m].used /\ inode'[m].used =>
        /\ inode'[m].nr = inode[m].nr
        /\ inode'[m].desc # inode[m].desc => inode[m].desc = 0 /\ inode'[m].desc = inode[m].nr

Spares(t, g) ==
    g # 0 => /\ g # Root
             /\ \A u \in Task \ {t} : pwd[u] # g /\ job[u].mem # g /\ job[u].keep # g

LEMMA GoodNext ==
    ASSUME HeldRight, HeldRight', NEW g, TableStep(g), NEW m, m # g, Good(m), Read(m)'
    PROVE  Good(m)' /\ Nr(m)' = Nr(m)
  BY DEF HeldRight, TableStep, Good, Read, Nr, NoInode

LEMMA OthersPlaces ==
    ASSUME HeldRight, HeldRight', PlacesRight, NEW t \in Task, OthersSame(t), NEW g, TableStep(g), Spares(t, g)
    PROVE  /\ \A u \in Task \ {t} : /\ PlaceRight(u)'
                                    /\ Target(u)' = Target(u) /\ In(u)' = In(u) /\ Home(u)' = Home(u)
           /\ Good(Root)' /\ Nr(Root)' = Root
  <1>1. Good(Root)' /\ Nr(Root)' = Root
    <2>1. Root # g
      BY DEF Spares, Root
    <2> QED
      BY <2>1, GoodNext DEF HeldRight, PlacesRight
  <1> SUFFICES ASSUME NEW u \in Task \ {t}
               PROVE  /\ PlaceRight(u)'
                      /\ Target(u)' = Target(u) /\ In(u)' = In(u) /\ Home(u)' = Home(u)
    BY <1>1
  <1>2. /\ pc'[u] = pc[u] /\ job'[u] = job[u] /\ pwd'[u] = pwd[u] /\ PlaceRight(u)
        /\ pwd[u] \in Mem /\ job[u] \in Job
    BY DEF OthersSame, PlacesRight, HeldRight
  <1>3. Good(pwd[u])' /\ Nr(pwd[u])' = Nr(pwd[u])
    <2>1. pwd[u] # g
      BY <1>2 DEF Spares, Mem
    <2>2. inode'[pwd'[u]].desc # 0
      BY DEF HeldRight, Read
    <2> QED
      BY <1>2, <2>1, <2>2, GoodNext DEF PlaceRight, Read, Good, Nr
  <1>4. ASSUME job[u].keep # 0 PROVE Good(job[u].keep)' /\ Nr(job[u].keep)' = Nr(job[u].keep)
    <2>1. job[u].keep # g
      BY <1>4 DEF Spares
    <2>2. inode'[job'[u].keep].desc # 0
      BY <1>2, <1>4 DEF HeldRight, Read
    <2> QED
      BY <1>2, <1>4, <2>1, <2>2, GoodNext DEF PlaceRight, Read, Good, Nr
  <1>5. ASSUME job[u].mem # 0, pc[u] # "load" PROVE Good(job[u].mem)' /\ Nr(job[u].mem)' = Nr(job[u].mem)
    <2>1. job[u].mem # g
      BY <1>5 DEF Spares
    <2>2. inode'[job'[u].mem].desc # 0
      BY <1>2, <1>5 DEF HeldRight, Read, PlaceRight
    <2> QED
      BY <1>2, <1>5, <2>1, <2>2, GoodNext DEF PlaceRight, Read, Good, Nr
  <1>6. ASSUME pc[u] = "load"
        PROVE  inode'[job[u].mem].used /\ Nr(job[u].mem)' = Nr(job[u].mem) /\ Nr(job[u].mem) # 0
    <2>1. job[u].mem # g /\ job[u].mem \in Mem /\ job[u].held # << >>
      BY <1>2, <1>6 DEF Spares, HeldRight, Mem
    <2>2. inode'[job[u].mem].used /\ inode[job[u].mem].used
      BY <1>2, <2>1 DEF HeldRight, Mem
    <2> QED
      BY <1>2, <1>6, <2>1, <2>2 DEF TableStep, PlaceRight, Nr
  <1>7. job[u].mem # 0 => Nr(job[u].mem)' = Nr(job[u].mem)
    BY <1>2, <1>5, <1>6 DEF Nr
  <1>8. PlaceRight(u)'
    BY <1>2, <1>3, <1>4, <1>5, <1>6, <1>7 DEF PlaceRight, Nr, Good
  <1>9. Home(u)' = Home(u)
    BY <1>2, <1>3 DEF Home, Nr
  <1>10. In(u)' = In(u)
    BY <1>2, <1>3 DEF In, Nr, PlaceRight
  <1>11. Target(u)' = Target(u)
    BY <1>2, <1>4, <1>7 DEF Target, TargetIn, Nr
  <1> QED
    BY <1>8, <1>9, <1>10, <1>11
\* A place that comes into use is the one that the step of task t gets, and no
\* other has its inode.
NewRight(t) ==
    \A m \in Mem : inode'[m].used /\ ~inode[m].used =>
        /\ pc'[t] = "load" /\ job'[t].mem = m /\ inode'[m].desc = 0
        /\ \A o \in Mem : inode[o].used => inode[o].nr # inode'[m].nr

LEMMA MemNext ==
    ASSUME HeldRight, HeldRight', MemRight, NEW t \in Task, OthersSame(t), NEW g, TableStep(g), NewRight(t),
           g # 0 => g \in Mem /\ inode'[g].nr = 0 /\ inode'[g].desc # 0,
           pc[t] = "load" => inode'[job[t].mem].desc # 0
    PROVE  MemRight'
  <1>1. ASSUME NEW m \in Mem, NEW o \in Mem, inode'[m].used, inode'[o].used, inode'[m].nr = inode'[o].nr,
               inode'[m].nr # 0
        PROVE  m = o
    <2>1. m # g /\ o # g
      BY <1>1 DEF Mem
    <2>2. CASE inode[m].used /\ inode[o].used
      BY <1>1, <2>1, <2>2 DEF TableStep, MemRight
    <2>3. CASE ~inode[m].used /\ ~inode[o].used
      BY <1>1, <2>3 DEF NewRight
    <2>4. CASE ~inode[m].used /\ inode[o].used
      BY <1>1, <2>1, <2>4 DEF NewRight, TableStep
    <2>5. CASE inode[m].used /\ ~inode[o].used
      BY <1>1, <2>1, <2>5 DEF NewRight, TableStep
    <2> QED
      BY <1>1, <2>2, <2>3, <2>4, <2>5 DEF HeldRight
  <1>2. ASSUME NEW m \in Mem, inode'[m].used, inode'[m].desc # 0
        PROVE  inode'[m].nr \in {inode'[m].desc, 0}
    <2>1. CASE m = g
      BY <2>1 DEF Mem
    <2>2. CASE m # g
      <3>1. inode[m].used
        BY <1>2 DEF NewRight
      <3>2. /\ inode'[m].nr = inode[m].nr
            /\ inode'[m].desc # inode[m].desc => inode'[m].desc = inode[m].nr
        BY <1>2, <2>2, <3>1 DEF TableStep
      <3> QED
        BY <1>2, <3>1, <3>2 DEF MemRight
    <2> QED
      BY <2>1, <2>2
  <1>3. ASSUME NEW m \in Mem, inode'[m].used, inode'[m].desc = 0
        PROVE  \E u \in Task : pc'[u] = "load" /\ job'[u].mem = m
    <2>1. m # g
      BY <1>3 DEF Mem
    <2>2. CASE inode[m].used
      <3>1. inode[m].desc = 0
        BY <1>3, <2>1, <2>2 DEF TableStep
      <3>2. PICK u \in Task : pc[u] = "load" /\ job[u].mem = m
        BY <2>2, <3>1 DEF MemRight
      <3>3. u # t
        BY <1>3, <3>2
      <3> QED
        BY <3>2, <3>3 DEF OthersSame
    <2>3. CASE ~inode[m].used
      BY <1>3, <2>3 DEF NewRight
    <2> QED
      BY <2>2, <2>3
  <1> QED
    BY <1>1, <1>2, <1>3 DEF MemRight
-----------------------------------------------------------------------------
\* The steps of the table.
LEMMA TableStays ==
    ASSUME inode' = inode, NEW t
    PROVE  TableStep(0) /\ NewRight(t)
  BY DEF TableStep, NewRight

\* Places in a table may be counted once more before an inode is got.
Same(T) == \A m \in Mem : T[m].used = inode[m].used /\ T[m].nr = inode[m].nr /\ T[m].desc = inode[m].desc

LEMMA TableSame ==
    ASSUME Same(inode'), NEW t
    PROVE  TableStep(0) /\ NewRight(t)
  BY DEF TableStep, NewRight, Same

\* What iget does to the table: m has the inode then, and was known or is new.
LEMMA TableGets ==
    ASSUME HeldRight, NEW T, TableOK(T), Same(T), NEW nr \in Inode, Found(T, nr) # {},
           inode' = Getting(T, Place(T, nr), nr)
    PROVE  LET m == Place(T, nr) IN
           /\ m \in Mem /\ inode'[m].used /\ inode'[m].nr = nr /\ inode'[m].desc = inode[m].desc
           /\ T[m].used = inode[m].used /\ T[m].desc = inode[m].desc
           /\ TableStep(0)
           /\ \A o \in Mem : inode'[o].used /\ ~inode[o].used =>
                  o = m /\ inode'[o].desc = 0 /\ \A q \in Mem : inode[q].used => inode[q].nr # nr
           /\ inode[m].used => inode[m].nr = nr
           /\ ~inode[m].used => inode[m].desc = 0
  <1>1. PICK m \in Mem : /\ m = Place(T, nr)
                         /\ \/ T[m].used /\ T[m].nr = nr
                            \/ ~T[m].used /\ \A o \in Mem : ~(T[o].used /\ T[o].nr = nr)
    BY PlaceFound
  <1>2. T[m] \in InodeRecord /\ T \in [Mem -> InodeRecord] /\ nr \in 0 .. NInode
    BY Sizes DEF TableOK, Inode
  <1>3. PICK r \in InodeRecord : r = T[m]
    BY <1>2
  <1>4. PICK c \in Nat : c = r.count + 1
    BY DEF InodeRecord
  <1>5. inode' = [T EXCEPT ![m] = [r EXCEPT !.used = TRUE, !.nr = nr, !.count = c]]
    BY <1>1, <1>2, <1>3, <1>4 DEF Getting, InodeRecord
  <1>6. PICK q \in InodeRecord : q = [r EXCEPT !.used = TRUE, !.nr = nr, !.count = c]
    BY <1>2, <1>3, <1>4 DEF InodeRecord
  <1>7. q.used /\ q.nr = nr /\ q.desc = T[m].desc
    BY <1>3, <1>6 DEF InodeRecord
  <1>8. \A o \in Mem : inode'[o] = IF o = m THEN q ELSE T[o]
    BY <1>2, <1>5, <1>6
  <1>9. ~inode[m].used => inode[m].desc = 0
    BY DEF HeldRight, NoInode
  <1>10. /\ \A o \in Mem : T[o].used = inode[o].used /\ T[o].nr = inode[o].nr /\ T[o].desc = inode[o].desc
         /\ inode[m].used => inode[m].nr = nr
    BY <1>1 DEF Same
  <1>11. TableStep(0)
    BY <1>7, <1>8, <1>10 DEF TableStep
  <1>12. \A o \in Mem : inode'[o].used /\ ~inode[o].used =>
                  o = m /\ inode'[o].desc = 0 /\ \A x \in Mem : inode[x].used => inode[x].nr # nr
    BY <1>1, <1>7, <1>8, <1>9, <1>10
  <1> QED
    BY <1>1, <1>7, <1>8, <1>9, <1>10, <1>11, <1>12

LEMMA TableLoads ==
    ASSUME HeldRight, NEW t \in Task, pc[t] = "load", MemRight, PlaceRight(t),
           inode' = [inode EXCEPT ![job[t].mem].desc =
                        IF Desc(job[t].mem) = 0 THEN Nr(job[t].mem) ELSE Desc(job[t].mem)],
           inode \in [Mem -> InodeRecord]
    PROVE  /\ TableStep(0) /\ NewRight(t)
           /\ job[t].mem \in Mem
           /\ inode'[job[t].mem].desc = Nr(job[t].mem)
           /\ inode'[job[t].mem].nr = Nr(job[t].mem)
           /\ Nr(job[t].mem) # 0 /\ inode[job[t].mem].used
  <1>1. PICK m \in Mem : m = job[t].mem
    BY DEF HeldRight
  <1>2. inode[m].used /\ inode[m].nr # 0
    BY <1>1 DEF PlaceRight, Nr
  <1>3. inode[m].desc # 0 => inode[m].desc = inode[m].nr
    BY <1>2 DEF MemRight
  <1>4. inode' = [inode EXCEPT ![m].desc = inode[m].nr]
    BY <1>1, <1>3 DEF Nr, Desc
  <1>5. PICK r \in InodeRecord : r = inode[m]
    BY DEF HeldRight
  <1>6. PICK q : q = [r EXCEPT !.desc = r.nr]
    OBVIOUS
  <1>7. /\ \A o \in Mem : inode'[o] = IF o = m THEN q ELSE inode[o]
        /\ q.used = r.used /\ q.nr = r.nr /\ q.desc = r.nr
    <2>1. inode' = [inode EXCEPT ![m] = q]
      BY <1>4, <1>5, <1>6
    <2> QED
      BY <1>6, <2>1 DEF InodeRecord
  <1>8. \A o \in Mem : /\ inode'[o].used = inode[o].used /\ inode'[o].nr = inode[o].nr
                        /\ inode'[o].desc = IF o = m THEN inode[m].nr ELSE inode[o].desc
    <2> SUFFICES ASSUME NEW o \in Mem
                 PROVE  /\ inode'[o].used = inode[o].used /\ inode'[o].nr = inode[o].nr
                        /\ inode'[o].desc = IF o = m THEN inode[m].nr ELSE inode[o].desc
      OBVIOUS
    <2>1. CASE o = m
      <3>1. inode'[o] = q
        BY <1>7, <2>1
      <3> QED
        BY <1>5, <1>7, <2>1, <3>1
    <2>2. CASE o # m
      <3>1. inode'[o] = inode[o]
        BY <1>7, <2>2
      <3> QED
        BY <2>2, <3>1
    <2> QED
      BY <2>1, <2>2
  <1>9. TableStep(0) /\ NewRight(t)
    BY <1>3, <1>8 DEF TableStep, NewRight
  <1> QED
    BY <1>1, <1>2, <1>8, <1>9 DEF Nr
LEMMA TableMore ==
    ASSUME HeldRight, NEW d \in Mem, inode \in [Mem -> InodeRecord]
    PROVE  Same(More(inode, d))
  <1>1. PICK r \in InodeRecord : r = inode[d]
    OBVIOUS
  <1>2. PICK q : q = [r EXCEPT !.count = @ + 1]
    OBVIOUS
  <1>3. q.used = r.used /\ q.nr = r.nr /\ q.desc = r.desc
    BY <1>2 DEF InodeRecord
  <1>4. \A o \in Mem : More(inode, d)[o] = IF o = d THEN q ELSE inode[o]
    BY <1>1, <1>2 DEF More
  <1> QED
    BY <1>1, <1>3, <1>4 DEF Same

LEMMA TablePuts ==
    ASSUME CountInv, NEW t \in Task, Put(t)
    PROVE  TableStep(0) /\ NewRight(t)
  <1>1. inode' = [m \in Mem |-> IF inode[m].count = Occ(job[t].held, m) THEN NoInode
                                ELSE [inode[m] EXCEPT !.count = @ - Occ(job[t].held, m)]]
    BY DEF Put, Occ
  <1>2. TableOK(inode)
    BY Parts
  <1>3. ASSUME NEW m \in Mem, inode'[m].used
        PROVE  inode[m].used /\ inode'[m].nr = inode[m].nr /\ inode'[m].desc = inode[m].desc
    <2>1. inode[m].count # Occ(job[t].held, m)
      BY <1>1, <1>3 DEF NoInode
    <2>2. PICK r \in InodeRecord : r = inode[m]
      BY <1>2 DEF TableOK
    <2>3. PICK c : c = r.count - Occ(job[t].held, m)
      OBVIOUS
    <2>4. inode'[m] = [r EXCEPT !.count = c]
      BY <1>1, <2>1, <2>2, <2>3
    <2> QED
      BY <1>3, <2>2, <2>4 DEF InodeRecord
  <1> QED
    BY <1>3 DEF TableStep, NewRight

LEMMA TableDrops ==
    ASSUME HeldRight, NEW m \in Mem, inode' = [inode EXCEPT ![m].nr = 0], inode \in [Mem -> InodeRecord], NEW t
    PROVE  TableStep(m) /\ NewRight(t) /\ inode'[m].nr = 0 /\ inode'[m].desc = inode[m].desc
  <1>1. PICK r \in InodeRecord : r = inode[m]
    OBVIOUS
  <1>2. PICK q : q = [r EXCEPT !.nr = 0]
    OBVIOUS
  <1>3. q.used = r.used /\ q.nr = 0 /\ q.desc = r.desc
    BY <1>2 DEF InodeRecord
  <1>4. \A o \in Mem : inode'[o] = IF o = m THEN q ELSE inode[o]
    BY <1>1, <1>2
  <1> QED
    BY <1>1, <1>3, <1>4 DEF TableStep, NewRight
-----------------------------------------------------------------------------
\* What the step of task t leaves: the others see the same numbers.
Seen(t) ==
    /\ OthersSame(t)
    /\ \A u \in Task \ {t} : Target(u)' = Target(u) /\ In(u)' = In(u) /\ Home(u)' = Home(u)

\* Task t has no call any more, or puts what it holds and gives nothing.
Free(t) ==
    /\ pc[t] \in {"user", "put"} /\ job[t].call \in {"none", "close"}
    /\ job[t].mem = 0 /\ job[t].nr = 0 /\ job[t].dir = 0 /\ job[t].keep = 0

\* Task t puts what it holds, and gives the inode keep to its caller.
Keeps(t, call, keep) ==
    /\ pc[t] = "put" /\ job[t].call = call
    /\ job[t].mem = 0 /\ job[t].nr = 0 /\ job[t].dir = 0 /\ job[t].keep = keep

LEMMA AtGoes ==
    ASSUME TypeOK, NEW t \in Task, NEW place, NEW j, At(t, place, j), UNCHANGED pwd
    PROVE  pc'[t] = place /\ job'[t] = j /\ OthersSame(t)
  BY DEF At, OthersSame, TypeOK

\* A call that ends without an inode for its caller.
LEMMA Finished ==
    ASSUME TypeOK, NEW t \in Task, NEW j, Finish(t, j, 0)
    PROVE  Free(t)' /\ OthersSame(t) /\ UNCHANGED fileVars
  <1> DEFINE k == [NoJob EXCEPT !.call = "none", !.keep = 0, !.held = j.held]
  <1>1. Resume(t, k, file)
    BY DEF Finish
  <1>2. k.call = "none" /\ k.mem = 0 /\ k.nr = 0 /\ k.dir = 0 /\ k.keep = 0
    BY DEF NoJob
  <1> HIDE DEF k
  <1>3. CASE k.held # << >>
    <2>1. At(t, "put", k) /\ UNCHANGED fileVars
      BY <1>1, <1>3 DEF Resume, fileVars
    <2>2. pc'[t] = "put" /\ job'[t] = k /\ OthersSame(t)
      BY <2>1, AtGoes DEF fileVars
    <2> QED
      BY <1>2, <2>1, <2>2 DEF Free
  <1>4. CASE k.held = << >>
    <2>1. At(t, "user", NoJob) /\ file' = file /\ fd' = [fd EXCEPT ![t] = fd[t]] /\ pwd' = [pwd EXCEPT ![t] = pwd[t]]
      BY <1>1, <1>2, <1>4 DEF Resume
    <2>2. UNCHANGED fileVars
      BY <2>1 DEF fileVars, TypeOK
    <2>3. pc'[t] = "user" /\ job'[t] = NoJob /\ OthersSame(t)
      BY <2>1, <2>2, AtGoes DEF fileVars
    <2> QED
      BY <2>2, <2>3 DEF Free, NoJob
  <1> QED
    BY <1>3, <1>4

\* A call that ends with an inode for its caller.
LEMMA FinishedKeeping ==
    ASSUME TypeOK, NEW t \in Task, NEW j \in Job, NEW keep \in Mem, Finish(t, j, keep),
           j.held = <<j.mem, j.dir>>, j.dir # 0
    PROVE  Keeps(t, j.call, keep)' /\ OthersSame(t) /\ UNCHANGED fileVars
  <1>1. keep # 0
    BY DEF Mem
  <1>2. /\ Done(j, keep).call = j.call /\ Done(j, keep).keep = keep /\ Done(j, keep).held = <<j.dir>>
        /\ Done(j, keep).mem = 0 /\ Done(j, keep).dir = 0 /\ Done(j, keep).nr = 0
    <2>1. keep \in Mem \cup {0} /\ (keep # 0 => j.held = <<j.mem, j.dir>> /\ j.dir # 0)
      OBVIOUS
    <2>2. /\ Done(j, keep).call = (IF keep = 0 THEN "none" ELSE j.call)
          /\ Done(j, keep).keep = keep
          /\ Done(j, keep).held = (IF keep = 0 THEN j.held ELSE <<j.dir>>)
          /\ Done(j, keep).mem = 0 /\ Done(j, keep).dir = 0 /\ Done(j, keep).nr = 0
      BY <2>1, DoneJob, Zenon
    <2> HIDE DEF Done
    <2> QED
      BY <1>1, <2>2
  <1>3. Resume(t, Done(j, keep), file)
    BY DEF Finish, Done
  <1>4. At(t, "put", Done(j, keep)) /\ UNCHANGED fileVars
    BY <1>2, <1>3 DEF Resume, fileVars
  <1>5. pc'[t] = "put" /\ job'[t] = Done(j, keep) /\ OthersSame(t)
    BY <1>4, AtGoes DEF fileVars
  <1> QED
    BY <1>2, <1>4, <1>5 DEF Keeps
-----------------------------------------------------------------------------
Opens(n) == \E f \in File : file[f].count > 0 /\ Nr(file[f].inode) = n
Removing(t) == job[t].call = "rmdir" /\ pc[t] \in {"empty", "trunc", "freed", "ifreed"}

\* What the calls of others leave to a call on inode n that works in directory
\* d: see Avoided.
Alone(t, call, n, d) ==
    /\ n = Root => call \in Reading
    /\ \A u \in Task \ {t} :
        /\ Target(u) = n /\ n # 0 => call \in Reading /\ job[u].call \in Reading
        /\ call \in Adding /\ job[u].call \in Adding /\ d # 0 /\ job[u].dir # 0 => In(u) # d
        /\ call = "rmdir" => job[u].call \notin Creating
        /\ job[u].call = "rmdir" => call \notin Creating

Apart == \A t \in Task : Alone(t, job[t].call, Target(t), In(t))

\* An inode that is to be freed is no open file and no working directory.
Unused(t) ==
    /\ job[t].call = "unlink" \/ Removing(t) => ~Opens(Target(t))
    /\ Removing(t) => /\ Target(t) # 0
                      /\ \A u \in Task : Home(u) # Target(t)

ViewInv == MemRight /\ PlacesRight /\ Apart /\ (\A t \in Task : Unused(t))

\* What the step of task t leaves to the others: it opens no inode and moves to
\* no directory but the one that its call has.
Views(t) ==
    /\ Seen(t)
    /\ \A n : Opens(n)' => Opens(n) \/ (n = Target(t) /\ n # 0)
    /\ Home(t)' = Home(t) \/ Home(t)' = Target(t)

NumberFacts(t) ==
    /\ Home(t) \in Inode /\ Home(t) # 0 /\ Home(t) = Desc(pwd[t])
    /\ job[t].dir # 0 => In(t) = Home(t) /\ job[t].dir = pwd[t] /\ Dir(job[t]) = In(t)
    /\ job[t].dir = 0 => In(t) = 0
    /\ Target(t) \in Inode \cup {0}
    /\ job[t].mem # 0 => Target(t) = Nr(job[t].mem) /\ Target(t) # 0
    /\ job[t].mem # 0 /\ pc[t] # "load" => Target(t) = Desc(job[t].mem)
    /\ job[t].keep # 0 => Target(t) = Nr(job[t].keep) /\ Target(t) # 0
    /\ job[t].nr # 0 => Target(t) = job[t].nr
    /\ job[t].nr = 0 /\ job[t].mem = 0 /\ job[t].keep = 0 => Target(t) = 0
    /\ Target(t) # 0 => Target(t) \in Targets(t)
    /\ ~Opens(0)
    /\ pc[t] = "user" => job[t].call = "none" /\ Target(t) = 0 /\ job[t].dir = 0

LEMMA NumbersAre == HeldRight /\ PlacesRight => \A t \in Task : NumberFacts(t)
  <1> SUFFICES ASSUME HeldRight, PlacesRight, NEW t \in Task PROVE NumberFacts(t)
    OBVIOUS
  <1>1. /\ PlaceRight(t) /\ pwd[t] \in Mem /\ job[t] \in Job /\ inode[pwd[t]] \in InodeRecord
        /\ job[t].mem # 0 => job[t].mem \in Mem /\ inode[job[t].mem] \in InodeRecord
        /\ job[t].keep # 0 => job[t].keep \in Mem /\ inode[job[t].keep] \in InodeRecord
        /\ job[t].keep # 0 => job[t].mem = 0 /\ job[t].nr = 0
        /\ job[t].nr \in 0 .. NInode
    BY DEF HeldRight, PlacesRight, Job
  <1>2. \A m \in Mem : inode[m] \in InodeRecord => Nr(m) \in Inode \cup {0}
    BY Sizes DEF InodeRecord, Inode, Nr
  <1>3. job[t].nr \in Inode \cup {0}
    BY <1>1, Sizes DEF Inode
  <1>4. Home(t) \in Inode /\ Home(t) # 0 /\ Home(t) = Desc(pwd[t])
    BY <1>1, <1>2 DEF PlaceRight, Good, Home, Nr, Desc
  <1>5. /\ job[t].mem # 0 => Target(t) = Nr(job[t].mem) /\ Target(t) # 0
        /\ job[t].mem # 0 /\ pc[t] # "load" => Target(t) = Desc(job[t].mem)
    BY <1>1 DEF PlaceRight, Good, Target, TargetIn, Nr, Desc
  <1>6. job[t].keep # 0 => Target(t) = Nr(job[t].keep) /\ Target(t) # 0
    BY <1>1 DEF PlaceRight, Good, Target, TargetIn, Nr, Desc
  <1>7. /\ job[t].nr # 0 => Target(t) = job[t].nr
        /\ job[t].nr = 0 /\ job[t].mem = 0 /\ job[t].keep = 0 => Target(t) = 0
    BY DEF Target, TargetIn
  <1>8. Target(t) # 0 => Target(t) \in Targets(t)
    BY <1>5, <1>6, <1>7 DEF Targets, Nr
  <1>9. Target(t) \in Inode \cup {0}
    BY <1>1, <1>2, <1>3, <1>5, <1>6, <1>7
  <1>10. ~Opens(0)
    BY DEF Opens, PlacesRight, FilesGood, Good, Nr
  <1>11. /\ job[t].dir # 0 => In(t) = Home(t) /\ job[t].dir = pwd[t] /\ Dir(job[t]) = In(t)
         /\ job[t].dir = 0 => In(t) = 0
    BY <1>1, <1>4 DEF PlaceRight, In, Home, Dir, Desc, Nr
  <1>12. pc[t] = "user" => job[t].call = "none" /\ Target(t) = 0 /\ job[t].dir = 0
    BY <1>7 DEF HeldRight, NoJob
  <1> QED
    BY <1>4, <1>5, <1>6, <1>7, <1>8, <1>9, <1>10, <1>11, <1>12 DEF NumberFacts

LEMMA NumbersNext == HeldRight' /\ PlacesRight' => (\A t \in Task : NumberFacts(t))'
  BY NumbersAre, PTL

LEMMA NumbersRight ==
    ASSUME HeldRight, PlacesRight, NEW t \in Task
    PROVE
    /\ Home(t) \in Inode /\ Home(t) # 0 /\ Home(t) = Desc(pwd[t])
    /\ job[t].dir # 0 => In(t) = Home(t) /\ job[t].dir = pwd[t] /\ Dir(job[t]) = In(t)
    /\ job[t].dir = 0 => In(t) = 0
    /\ Target(t) \in Inode \cup {0}
    /\ job[t].mem # 0 => Target(t) = Nr(job[t].mem) /\ Target(t) # 0
    /\ job[t].mem # 0 /\ pc[t] # "load" => Target(t) = Desc(job[t].mem)
    /\ job[t].keep # 0 => Target(t) = Nr(job[t].keep) /\ Target(t) # 0
    /\ job[t].nr # 0 => Target(t) = job[t].nr
    /\ job[t].nr = 0 /\ job[t].mem = 0 /\ job[t].keep = 0 => Target(t) = 0
    /\ Target(t) # 0 => Target(t) \in Targets(t)
    /\ ~Opens(0)
    /\ pc[t] = "user" => job[t].call = "none" /\ Target(t) = 0 /\ job[t].dir = 0
  BY NumbersAre DEF NumberFacts

\* The places and numbers after a step.
LEMMA StepPlaces ==
    ASSUME HeldRight, HeldRight', ViewInv, NEW t \in Task, OthersSame(t), NEW g, TableStep(g), Spares(t, g),
           NewRight(t),
           g # 0 => g \in Mem /\ inode'[g].nr = 0 /\ inode'[g].desc # 0,
           pc[t] = "load" => inode'[job[t].mem].desc # 0,
           PlaceRight(t)',
           \A f \in File : file'[f].count > 0 =>
                /\ file'[f].inode # g
                /\ \/ file[f].count > 0 /\ file'[f].inode = file[f].inode
                   \/ job[t].keep # 0 /\ file'[f].inode = job[t].keep,
           pwd[t] # g,
           pwd'[t] = pwd[t] \/ (job[t].keep # 0 /\ pwd'[t] = job[t].keep)
    PROVE  /\ MemRight' /\ PlacesRight' /\ Views(t)
           /\ file' = file => \A n : Opens(n)' => Opens(n)
  <1>0. MemRight /\ PlacesRight
    BY DEF ViewInv
  <1>1. MemRight'
    BY <1>0, MemNext
  <1>2. /\ \A u \in Task \ {t} : /\ PlaceRight(u)'
                                 /\ Target(u)' = Target(u) /\ In(u)' = In(u) /\ Home(u)' = Home(u)
        /\ Good(Root)' /\ Nr(Root)' = Root
    BY <1>0, OthersPlaces
  <1>3. ASSUME NEW f \in File, file'[f].count > 0
        PROVE  /\ Good(file[f].inode)'
               /\ \/ file[f].count > 0 /\ Nr(file[f].inode)' = Nr(file[f].inode)
                  \/ Nr(file[f].inode)' = Target(t) /\ Target(t) # 0
               /\ file' = file => Nr(file[f].inode)' = Nr(file[f].inode)
    <2>1. inode'[file'[f].inode].desc # 0
      BY <1>3 DEF HeldRight, Read
    <2>4. file' = file => file[f].count > 0 /\ file'[f].inode = file[f].inode
      BY <1>3
    <2>2. CASE file[f].count > 0 /\ file'[f].inode = file[f].inode
      <3>1. Good(file[f].inode) /\ file[f].inode # g
        BY <1>0, <1>3, <2>2 DEF PlacesRight, FilesGood
      <3>2. Read(file[f].inode)'
        BY <1>3 DEF HeldRight
      <3>3. PICK m : m = file[f].inode
        OBVIOUS
      <3>4. Good(m)' /\ Nr(m)' = Nr(m)
        <4>1. Read(m)'
          BY <2>2, <3>2, <3>3 DEF Read
        <4> QED
          BY <3>1, <3>3, <4>1, GoodNext
      <3> QED
        BY <2>2, <3>3, <3>4 DEF Good, Nr
    <2>3. CASE job[t].keep # 0 /\ file'[f].inode = job[t].keep
               /\ ~(file[f].count > 0 /\ file'[f].inode = file[f].inode)
      <3>1. PICK m : m = job[t].keep
        OBVIOUS
      <3>2. Good(m) /\ m # g /\ Target(t) = Nr(m) /\ Target(t) # 0
        BY <1>0, <1>3, <2>3, <3>1, NumbersRight DEF PlacesRight, PlaceRight
      <3>3. Read(m)'
        BY <1>3, <2>3, <3>1 DEF HeldRight, Read
      <3>4. Good(m)' /\ Nr(m)' = Nr(m)
        BY <3>2, <3>3, GoodNext
      <3> QED
        BY <2>3, <2>4, <3>1, <3>2, <3>4 DEF Good, Nr
    <2> QED
      BY <1>3, <2>2, <2>3
  <1>4. PlacesRight'
    BY <1>2, <1>3 DEF PlacesRight, FilesGood
  <1>5. \A n : Opens(n)' => Opens(n) \/ (n = Target(t) /\ n # 0)
    BY <1>3 DEF Opens
  <1>7. file' = file => \A n : Opens(n)' => Opens(n)
    BY <1>3 DEF Opens
  <1>6. Home(t)' = Home(t) \/ Home(t)' = Target(t)
    <2>1. CASE pwd'[t] = pwd[t]
      <3>1. PICK m : m = pwd[t]
        OBVIOUS
      <3>2. Good(m) /\ Read(m)' /\ m # g
        BY <1>0, <2>1, <3>1 DEF PlacesRight, PlaceRight, HeldRight, Read
      <3>3. Nr(m)' = Nr(m)
        BY <3>2, GoodNext
      <3> QED
        BY <2>1, <3>1, <3>3 DEF Home, Nr
    <2>2. CASE job[t].keep # 0 /\ pwd'[t] = job[t].keep
      <3>1. PICK m : m = job[t].keep
        OBVIOUS
      <3>2. Good(m) /\ Read(m)' /\ Target(t) = Nr(m)
        BY <1>0, <2>2, <3>1, NumbersRight DEF PlacesRight, PlaceRight, HeldRight, Read
      <3>3. m # g
        BY <2>2, <3>1, <3>2 DEF Good, Read, PlaceRight, Nr
      <3>4. Nr(m)' = Nr(m)
        BY <3>2, <3>3, GoodNext
      <3> QED
        BY <2>2, <3>1, <3>2, <3>4 DEF Home, Nr
    <2> QED
      BY <2>1, <2>2
  <1> QED
    BY <1>1, <1>2, <1>4, <1>5, <1>6, <1>7 DEF Views, Seen
-----------------------------------------------------------------------------
LEMMA ApartNext ==
    ASSUME HeldRight, HeldRight', PlacesRight', ViewInv, NEW t \in Task, Views(t),
           Alone(t, job'[t].call, Target(t)', In(t)'), Unused(t)'
    PROVE  Apart' /\ \A u \in Task : Unused(u)'
  <1>0. PlacesRight /\ Apart /\ \A u \in Task : Unused(u)
    BY DEF ViewInv
  <1>1. \A u \in Task : NumberFacts(u)'
    BY NumbersNext
  <1>2. \A u \in Task \ {t} : /\ job'[u] = job[u] /\ pc'[u] = pc[u]
                              /\ Target(u)' = Target(u) /\ In(u)' = In(u) /\ Home(u)' = Home(u)
    BY DEF Views, Seen, OthersSame
  <1>3. ASSUME NEW v \in Task PROVE Alone(v, job[v].call, Target(v), In(v))'
    <2>1. CASE v = t
      BY <1>2, <2>1 DEF Alone
    <2>2. CASE v # t
      <3>1. Alone(v, job[v].call, Target(v), In(v))
        BY <1>0 DEF Apart
      <3>2. In(t)' # 0 <=> job'[t].dir # 0
        BY <1>1 DEF NumberFacts, Home, In
      <3>3. job[v].dir # 0 => In(v) # 0
        BY <1>0, NumbersRight
      <3>4. Target(v) = Root => job[v].call \in Reading
        BY <3>1 DEF Alone
      <3>5. ASSUME NEW u \in Task \ {v}
            PROVE  /\ Target(u)' = Target(v) /\ Target(v) # 0 => job[v].call \in Reading /\ job'[u].call \in Reading
                   /\ job[v].call \in Adding /\ job'[u].call \in Adding /\ In(v) # 0 /\ job'[u].dir # 0
                        => In(u)' # In(v)
                   /\ job[v].call = "rmdir" => job'[u].call \notin Creating
                   /\ job'[u].call = "rmdir" => job[v].call \notin Creating
        <4>1. CASE u # t
          BY <1>2, <3>1, <3>5, <4>1 DEF Alone
        <4>2. CASE u = t
          <5>1. /\ Target(v) = Target(t)' /\ Target(t)' # 0 => job'[t].call \in Reading /\ job[v].call \in Reading
                /\ job'[t].call \in Adding /\ job[v].call \in Adding /\ In(t)' # 0 /\ job[v].dir # 0 => In(v) # In(t)'
                /\ job'[t].call = "rmdir" => job[v].call \notin Creating
                /\ job[v].call = "rmdir" => job'[t].call \notin Creating
            BY <2>2 DEF Alone
          <5>2. In(v) # 0 => job[v].dir # 0
            BY DEF In
          <5> QED
            BY <3>2, <4>2, <5>1, <5>2
        <4> QED
          BY <4>1, <4>2
      <3>6. job'[v] = job[v] /\ Target(v)' = Target(v) /\ In(v)' = In(v)
        BY <1>2, <2>2
      <3> QED
        BY <3>4, <3>5, <3>6 DEF Alone
    <2> QED
      BY <2>1, <2>2
  <1>4. ASSUME NEW v \in Task, v # t PROVE Unused(v)'
    <2>1. Unused(v) /\ Alone(v, job[v].call, Target(v), In(v))
      BY <1>0 DEF Apart
    <2>2. CASE ~(job[v].call = "unlink" \/ Removing(v))
      BY <1>2, <1>4, <2>2 DEF Unused, Removing
    <2>3. CASE job[v].call = "unlink" \/ Removing(v)
      <3>1. job[v].call \notin Reading
        BY <2>3 DEF Removing, Reading
      <3>2. Target(v) # 0 => Target(v) # Target(t)
        BY <1>4, <2>1, <3>1 DEF Alone
      <3>3. ~Opens(Target(v))'
        <4>1. ~(Opens(0)')
          BY <1>1 DEF NumberFacts
        <4>2. \A n : Opens(n)' => Opens(n) \/ (n = Target(t) /\ n # 0)
          BY DEF Views
        <4>3. ~Opens(Target(v))
          BY <2>1, <2>3 DEF Unused
        <4>4. PICK n : n = Target(v)
          OBVIOUS
        <4>5. ~(Opens(n)')
          BY <3>2, <4>1, <4>2, <4>3, <4>4
        <4>6. Target(v)' = n
          BY <1>2, <1>4, <4>4
        <4> QED
          BY <4>5, <4>6 DEF Opens
      <3>4. ASSUME Removing(v), NEW w \in Task PROVE Home(w)' # Target(v)
        <4>1. Home(w) # Target(v) /\ Target(v) # 0
          BY <2>1, <3>4 DEF Unused
        <4>2. Home(t)' = Home(t) \/ Home(t)' = Target(t)
          BY DEF Views
        <4> QED
          BY <1>2, <3>2, <4>1, <4>2
      <3>5. Removing(v)' => Removing(v)
        BY <1>2, <1>4 DEF Removing
      <3>6. Removing(v) => Target(v) # 0
        BY <2>1 DEF Unused
      <3> QED
        BY <1>2, <1>4, <3>3, <3>4, <3>5, <3>6 DEF Unused
    <2> QED
      BY <2>2, <2>3
  <1> QED
    BY <1>3, <1>4 DEF Apart

\* A call that goes on with less.
LEMMA AloneLess ==
    ASSUME NEW t, NEW c, NEW n, NEW d, NEW e, NEW m, NEW b, Alone(t, c, n, d),
           \/ e = c /\ m \in {0, n} /\ b \in {0, d}
           \/ e \in {"none", "close"} /\ m = 0
    PROVE  Alone(t, e, m, b)
  BY DEF Alone, Reading, Adding, Creating, Root
-----------------------------------------------------------------------------
\* The call of task t goes on with the locals k, but for a block of its inode,
\* or ends: it gives nothing, or the inode that it is on.
Alike(j, k) == /\ j.call = k.call /\ j.name = k.name /\ j.dir = k.dir /\ j.slot = k.slot
               /\ j.mem = k.mem /\ j.nr = k.nr /\ j.keep = k.keep

After(t, k) ==
    /\ OthersSame(t) /\ UNCHANGED fileVars
    /\ \/ Free(t)'
       \/ k.mem # 0 /\ Keeps(t, k.call, k.mem)' /\ k.call \in {"open", "creat", "chdir"}
       \/ Alike(job'[t], k) /\ pc'[t] \notin {"user", "put", "unread"}

\* What that needs of the table of inodes: n is the number of the inode.
Fits(t, k, n) ==
    /\ k.keep = 0 /\ k.dir \in {0, pwd[t]}
    /\ pc'[t] = "load" => inode'[k.mem].used /\ inode'[k.mem].nr # 0
    /\ pc'[t] # "load" /\ k.mem # 0 => Good(k.mem)'
    /\ k.mem # 0 /\ k.nr # 0 => inode'[k.mem].nr = k.nr
    /\ n = TargetIn(inode', k)

\* And of the other calls.
Clear(t, k, n) ==
    /\ Alone(t, k.call, n, IF k.dir = 0 THEN 0 ELSE Home(t))
    /\ k.call = "unlink" => ~Opens(n)
    /\ Removing(t)' => n # 0 /\ ~Opens(n) /\ \A u \in Task : Home(u) # n

\* The table after the step, where g is a place that loses its inode.
Table(t, g) ==
    /\ TableStep(g) /\ NewRight(t) /\ Spares(t, g)
    /\ g # 0 => /\ g \in Mem /\ inode'[g].nr = 0 /\ inode'[g].desc # 0
                /\ pwd[t] # g
                /\ \A f \in File : file[f].count > 0 => file[f].inode # g
    /\ pc[t] = "load" => inode'[job[t].mem].desc # 0

LEMMA AfterStep ==
    ASSUME HeldRight, HeldRight', ViewInv, NEW t \in Task, NEW k, After(t, k),
           NEW g, Table(t, g), NEW n, Free(t)' \/ (Fits(t, k, n) /\ Clear(t, k, n))
    PROVE  /\ ViewInv' /\ Views(t)
           /\ \A x : Opens(x)' => Opens(x)
           /\ Home(t)' = Home(t)
           /\ In(t)' = IF job'[t].dir = 0 THEN 0 ELSE Home(t)
           /\ Free(t)' => Target(t)' = 0 /\ In(t)' = 0
           /\ ~Free(t)' => Target(t)' = n
  <1>1. /\ pwd' = pwd /\ file' = file /\ PlacesRight /\ pwd[t] \in Mem /\ Good(pwd[t]) /\ pwd[t] # g
        /\ PlaceRight(t)
    BY DEF After, fileVars, ViewInv, PlacesRight, PlaceRight, HeldRight, Table, Mem
  <1>2. Good(pwd[t])' /\ Nr(pwd[t])' = Nr(pwd[t])
    <2>1. PICK m : m = pwd[t]
      OBVIOUS
    <2>2. Read(m)'
      BY <1>1, <2>1 DEF HeldRight, Read
    <2>3. Good(m)' /\ Nr(m)' = Nr(m)
      BY <1>1, <2>1, <2>2, GoodNext DEF Table
    <2> QED
      BY <1>1, <2>1, <2>3 DEF Good, Nr
  <1>3. PlaceRight(t)'
    <2>1. CASE Free(t)'
      BY <1>2, <2>1 DEF Free, PlaceRight
    <2>2. CASE ~Free(t)' /\ k.mem # 0 /\ Keeps(t, k.call, k.mem)'
      BY <1>2, <2>2 DEF Keeps, PlaceRight, Fits, Good
    <2>3. CASE ~Free(t)' /\ Alike(job'[t], k) /\ pc'[t] \notin {"user", "put", "unread"}
      BY <1>1, <1>2, <2>3 DEF Alike, PlaceRight, Fits, Good, Nr
    <2> QED
      BY <2>1, <2>2, <2>3 DEF After
  <1>4. MemRight' /\ PlacesRight' /\ Views(t) /\ \A x : Opens(x)' => Opens(x)
    <2>1. pc[t] = "load" => inode'[job[t].mem].desc # 0
      BY DEF Table
    <2>2. g # 0 => g \in Mem /\ inode'[g].nr = 0 /\ inode'[g].desc # 0
      BY DEF Table
    <2>3. \A f \in File : file'[f].count > 0 =>
                /\ file'[f].inode # g
                /\ \/ file[f].count > 0 /\ file'[f].inode = file[f].inode
                   \/ job[t].keep # 0 /\ file'[f].inode = job[t].keep
      BY <1>1 DEF Table, PlacesRight, FilesGood, Good, Mem
    <2>4. OthersSame(t) /\ TableStep(g) /\ Spares(t, g) /\ NewRight(t)
      BY DEF After, Table
    <2>5. pwd'[t] = pwd[t] \/ (job[t].keep # 0 /\ pwd'[t] = job[t].keep)
      BY <1>1
    <2> QED
      BY <1>1, <1>3, <2>1, <2>2, <2>3, <2>4, <2>5, StepPlaces
  <1>5. Home(t)' = Home(t)
    BY <1>1, <1>2 DEF Home, Nr
  <1>6. In(t)' = IF job'[t].dir = 0 THEN 0 ELSE Home(t)
    BY <1>1, <1>2, <1>3 DEF In, Home, Nr, PlaceRight
  <1>7. Free(t)' => Target(t)' = 0 /\ In(t)' = 0
    BY DEF Free, Target, TargetIn, In
  <1>8. ~Free(t)' => Target(t)' = n
    <2>1. CASE ~Free(t)' /\ k.mem # 0 /\ Keeps(t, k.call, k.mem)'
      BY <2>1 DEF Keeps, Fits, Target, TargetIn
    <2>2. CASE ~Free(t)' /\ Alike(job'[t], k)
      BY <2>2 DEF Alike, Fits, Target, TargetIn
    <2> QED
      BY <2>1, <2>2 DEF After
  <1>9. Alone(t, job'[t].call, Target(t)', In(t)')
    <2>1. CASE Free(t)'
      <3>1. /\ job'[t].call \in {"none", "close"} /\ Target(t)' = 0 /\ In(t)' = 0
        BY <1>7, <2>1 DEF Free
      <3>2. Alone(t, job[t].call, Target(t), In(t))
        BY DEF ViewInv, Apart
      <3> QED
        BY <3>1, <3>2, AloneLess
    <2>2. CASE ~Free(t)'
      <3>1. Alone(t, k.call, n, IF k.dir = 0 THEN 0 ELSE Home(t))
        BY <2>2 DEF Clear
      <3>2. job'[t].call = k.call /\ Target(t)' = n /\ In(t)' \in {0, IF k.dir = 0 THEN 0 ELSE Home(t)}
        BY <1>6, <1>8, <2>2 DEF After, Alike, Keeps
      <3> QED
        BY <3>1, <3>2, AloneLess
    <2> QED
      BY <2>1, <2>2
  <1>10. Unused(t)'
    <2>1. CASE Free(t)'
      BY <2>1 DEF Free, Unused, Removing
    <2>2. CASE ~Free(t)'
      <3>1. job'[t].call = k.call /\ Target(t)' = n
        BY <1>8, <2>2 DEF After, Alike, Keeps
      <3>2. ~Opens(n) => ~(Opens(n)')
        BY <1>4
      <3>3. \A u \in Task : Home(u)' = Home(u)
        BY <1>4, <1>5 DEF Views, Seen
      <3>4. Removing(t)' => job'[t].call = "rmdir"
        BY DEF Removing
      <3> QED
        BY <2>2, <3>1, <3>2, <3>3, <3>4 DEF Unused, Clear, Opens
    <2> QED
      BY <2>1, <2>2
  <1>11. Apart' /\ \A u \in Task : Unused(u)'
    BY <1>4, <1>9, <1>10, ApartNext
  <1> QED
    BY <1>4, <1>5, <1>6, <1>7, <1>8, <1>11 DEF ViewInv
-----------------------------------------------------------------------------
\* The inodes on the disk: those that ialloc has given to a call that has not
\* set them up yet, those that are there, and those that ifree has taken back
\* while rmdir has still to erase their entry.
Fresh(t) == pc[t] \in {"enter", "load"} /\ job[t].nr # 0
Pending(n) == \E t \in Task : Fresh(t) /\ job[t].nr = n
Live(n) == n \in imap /\ ~Pending(n)
Leaving(n) == \E t \in Task : pc[t] = "ifreed" /\ Target(t) = n
Unlinked(t) == job[t].call = "unlink" /\ pc[t] \in {"trunc", "freed"}

\* What a call knows of the names.
TaskNames(t) ==
    /\ Target(t) # 0 => (Target(t) \in imap <=> pc[t] # "ifreed")
    /\ Live(Home(t)) /\ kind[Home(t)] = "dir"
    /\ Leaves(job[t]) => kind[Target(t)] = "dir"
    /\ pc[t] = "load" \/ Removing(t) => job[t].slot \in Slot /\ entry[In(t)][job[t].slot].nr = Target(t)
    /\ pc[t] = "enter" => /\ job[t].slot \in Slot /\ entry[In(t)][job[t].slot].nr = 0
                          /\ \A d \in Inode : \A s \in Slot : entry[d][s].nr # job[t].nr
    /\ pc[t] = "add" => \A s \in Slot : entry[In(t)][s].nr # 0 => entry[In(t)][s].name # job[t].name
    /\ Removing(t) => /\ kind[Target(t)] = "dir"
                      /\ pc[t] # "empty" => \A s \in Slot : entry[Target(t)][s].nr = 0
    /\ Unlinked(t) => kind[Target(t)] = "file" /\ nlinks[Target(t)] = 0
    /\ pc[t] = "load" /\ job[t].call = "unlink" => kind[Target(t)] # "device"
    /\ pc[t] \in {"linkto", "add"} /\ job[t].mem # 0 => kind[Target(t)] # "dir"

RootRight ==
    /\ Live(Root) /\ kind[Root] = "dir"
    /\ \A n \in Inode : Opens(n) => n \in imap

\* An entry is in a directory, and points to an inode that is marked or whose
\* entry is to be erased.  A directory has one entry, and so has a new inode.
EntriesRight ==
    /\ \A d \in Inode : \A s \in Slot : entry[d][s].nr # 0 =>
            /\ Live(d) /\ kind[d] = "dir" /\ entry[d][s].nr # Root
            /\ entry[d][s].nr \in imap \/ Leaving(entry[d][s].nr)
    /\ \A d, c \in Inode : \A s, r \in Slot :
            (/\ entry[d][s].nr # 0 /\ entry[d][s].nr = entry[c][r].nr
             /\ kind[entry[d][s].nr] = "dir" \/ Pending(entry[d][s].nr)) => d = c /\ s = r

Pointing(n) == {ds \in Inode \X Slot : entry[ds[1]][ds[2]].nr = n}

\* The directories in directory n, by their slots.
IsDir(n) == kind[n] = "dir" /\ ~Pending(n)
Below(n) == {s \in Slot : entry[n][s].nr # 0 /\ IsDir(entry[n][s].nr)}

\* nlinks of an inode: its entries, or for a directory those of . and .. .
Links(n) == Live(n) => nlinks[n] = IF kind[n] = "dir" THEN 2 + Cardinality(Below(n)) ELSE Cardinality(Pointing(n))

NamesInv ==
    /\ \A t \in Task : TaskNames(t)
    /\ RootRight
    /\ EntriesRight
    /\ \A n \in Inode : Links(n)

\* The step of task t is about inode n, which no other call has.
About(t, n) ==
    /\ n # 0 /\ n # Root
    /\ \A u \in Task \ {t} : Target(u) # n /\ Home(u) # n
    /\ Home(t) # n /\ Home(t)' # n
    /\ Fresh(t) => job[t].nr = n
    /\ Fresh(t)' => job'[t].nr = n
    /\ pc[t] = "ifreed" => Target(t) = n
    /\ pc'[t] = "ifreed" => Target(t)' = n

LEMMA PendingNext ==
    ASSUME HeldRight, PlacesRight, NEW t \in Task, Seen(t), NEW n, About(t, n)
    PROVE  /\ \A x : x # n => (Pending(x)' <=> Pending(x)) /\ (Leaving(x)' <=> Leaving(x))
           /\ Pending(n) <=> Fresh(t)
           /\ Pending(n)' <=> Fresh(t)'
           /\ Leaving(n)' <=> pc'[t] = "ifreed"
  <1>1. \A u \in Task \ {t} : /\ Fresh(u)' <=> Fresh(u)
                              /\ job'[u].nr = job[u].nr /\ pc'[u] = pc[u]
                              /\ Target(u)' = Target(u) /\ Target(u) # n
                              /\ job[u].nr # 0 => Target(u) = job[u].nr
    BY NumbersRight DEF Seen, OthersSame, Fresh, About
  <1>2. ASSUME NEW x, x # n PROVE (Pending(x)' <=> Pending(x)) /\ (Leaving(x)' <=> Leaving(x))
    BY <1>1, <1>2 DEF Pending, Leaving, About
  <1>3. (Pending(n) <=> Fresh(t)) /\ (Pending(n)' <=> Fresh(t)')
    BY <1>1 DEF Pending, Fresh, About
  <1>4. Leaving(n)' <=> pc'[t] = "ifreed"
    BY <1>1 DEF Leaving, About
  <1> QED
    BY <1>2, <1>3, <1>4

\* What the step of task t may change: inode n, the links of directory d, and
\* the entry s of d, which points to n or to nothing.
Changes(t, n, d, s) ==
    /\ \A x \in Inode \ {n} : /\ x \in imap' <=> x \in imap
                              /\ kind'[x] = kind[x]
                              /\ x # d => nlinks'[x] = nlinks[x]
    /\ d \in Inode /\ d # n /\ kind[d] = "dir"
    /\ \A x \in Inode : \A r \in Slot :
            \/ entry'[x][r] = entry[x][r]
            \/ entry'[x][r].nr = 0 /\ entry[x][r].nr = 0
            \/ x = d /\ r = s
    /\ s \in Slot => {entry[d][s].nr, entry'[d][s].nr} \subseteq {0, n}
    /\ s \in Slot /\ entry'[d][s] # entry[d][s] /\ entry'[d][s].nr # 0 =>
            /\ entry[d][s].nr = 0
            /\ \A u \in Task \ {t} : /\ job[u].call \in Adding /\ job[u].dir # 0 => In(u) # d
                                     /\ Removing(u) => Target(u) # d

LEMMA OthersNames ==
    ASSUME HeldRight, PlacesRight, NamesInv, NEW t \in Task, Seen(t), NEW n, About(t, n), NEW d, NEW s,
           Changes(t, n, d, s), NEW u \in Task \ {t},
           Shape(pwd[u], fd[u], pc[u], job[u])
    PROVE  TaskNames(u)'
  <1>1. /\ TaskNames(u) /\ NumberFacts(u)
        /\ pc'[u] = pc[u] /\ job'[u] = job[u]
        /\ Target(u)' = Target(u) /\ In(u)' = In(u) /\ Home(u)' = Home(u)
        /\ Target(u) # n /\ Home(u) # n
    BY NumbersAre DEF NamesInv, Seen, OthersSame, About
  <1>2. \A x \in Inode \ {n} : /\ x \in imap' <=> x \in imap
                              /\ kind'[x] = kind[x]
                              /\ Live(x)' <=> Live(x)
    BY PendingNext DEF Changes, Live
  <1>3. /\ Home(u) \in Inode /\ Target(u) \in Inode \cup {0} /\ In(u) \in Inode \cup {0}
        /\ job[u].dir # 0 => In(u) = Home(u)
    BY <1>1 DEF NumberFacts
  <1>4. /\ pc[u] \in {"load", "linkto", "empty", "trunc", "freed", "ifreed", "add", "enter"} => In(u) \in Inode
        /\ pc[u] \in {"load", "linkto", "empty", "trunc", "freed", "ifreed", "enter"} => Target(u) \in Inode
        /\ pc[u] \in {"add", "enter"} => job[u].call \in Adding /\ job[u].dir # 0
        /\ pc[u] = "add" /\ job[u].mem # 0 => Target(u) \in Inode
        /\ pc[u] = "enter" => Target(u) = job[u].nr
    BY <1>1, <1>3 DEF NumberFacts, Shape, OnInode, InDir, Adding, Creating
  <1>5. ASSUME pc[u] = "load" \/ Removing(u)
        PROVE  entry'[In(u)][job[u].slot].nr = Target(u)
    <2>1. In(u) \in Inode /\ job[u].slot \in Slot /\ entry[In(u)][job[u].slot].nr = Target(u) /\ Target(u) # 0
      BY <1>1, <1>4, <1>5, Sizes DEF TaskNames, Removing, Inode
    <2> QED
      BY <1>1, <2>1 DEF Changes
  <1>6. ASSUME pc[u] = "enter"
        PROVE  /\ entry'[In(u)][job[u].slot].nr = 0
               /\ \A e \in Inode : \A r \in Slot : entry'[e][r].nr # job[u].nr
    <2>1. In(u) \in Inode /\ job[u].slot \in Slot /\ job[u].call \in Adding /\ job[u].dir # 0
          /\ job[u].nr = Target(u) /\ Target(u) \in Inode /\ Target(u) # 0
      BY <1>1, <1>4, <1>6, Sizes DEF TaskNames, Inode
    <2>2. entry[In(u)][job[u].slot].nr = 0 /\ \A e \in Inode : \A r \in Slot : entry[e][r].nr # job[u].nr
      BY <1>1, <1>6 DEF TaskNames
    <2> QED
      BY <1>1, <2>1, <2>2 DEF Changes
  <1>7. ASSUME pc[u] = "add", NEW r \in Slot, entry'[In(u)][r].nr # 0
        PROVE  entry'[In(u)][r].name # job[u].name
    <2>1. In(u) \in Inode /\ job[u].call \in Adding /\ job[u].dir # 0
      BY <1>1, <1>4, <1>7 DEF TaskNames
    <2>2. \A q \in Slot : entry[In(u)][q].nr # 0 => entry[In(u)][q].name # job[u].name
      BY <1>1, <1>7 DEF TaskNames
    <2> QED
      BY <1>1, <1>7, <2>1, <2>2 DEF Changes
  <1>8. ASSUME Removing(u), pc[u] # "empty", NEW r \in Slot
        PROVE  entry'[Target(u)][r].nr = 0
    <2>1. Target(u) \in Inode /\ entry[Target(u)][r].nr = 0
      BY <1>1, <1>4, <1>8 DEF TaskNames, Removing
    <2> QED
      BY <1>1, <1>8, <2>1 DEF Changes
  <1>9. ASSUME Unlinked(u) PROVE kind'[Target(u)] = "file" /\ nlinks'[Target(u)] = 0
    <2>1. Target(u) \in Inode /\ kind[Target(u)] = "file" /\ nlinks[Target(u)] = 0
      BY <1>1, <1>4, <1>9 DEF TaskNames, Unlinked
    <2>2. Target(u) # d
      BY <2>1 DEF Changes
    <2> QED
      BY <1>1, <2>1, <2>2 DEF Changes
  <1>10. Live(Home(u))' /\ kind'[Home(u)] = "dir"
    <2>1. PICK h \in Inode \ {n} : h = Home(u)
      BY <1>1, <1>3
    <2>2. Live(h)' /\ kind'[h] = "dir"
      BY <1>1, <1>2, <2>1 DEF TaskNames
    <2> QED
      BY <1>1, <2>1, <2>2 DEF Live, Pending
  <1>11. ASSUME Target(u) # 0
         PROVE  /\ Target(u) \in imap' <=> pc[u] # "ifreed"
                /\ kind'[Target(u)] = kind[Target(u)]
    <2>1. PICK x \in Inode \ {n} : x = Target(u)
      BY <1>1, <1>3, <1>11
    <2>2. x \in imap <=> pc[u] # "ifreed"
      BY <1>1, <1>11, <2>1 DEF TaskNames
    <2>3. (x \in imap' <=> x \in imap) /\ kind'[x] = kind[x]
      BY <2>1 DEF Changes
    <2> QED
      BY <2>1, <2>2, <2>3
  <1>12. Target(u) # 0 => kind'[Target(u)] = kind[Target(u)]
    BY <1>11
  <1>13. Leaves(job[u]) => Target(u) # 0
    BY <1>1 DEF Leaves, NumberFacts
  <1>14. (Removing(u)' <=> Removing(u)) /\ (Unlinked(u)' <=> Unlinked(u))
    BY <1>1 DEF Removing, Unlinked
  <1>15. Removing(u) \/ pc[u] \in {"load", "linkto"} \/ (pc[u] = "add" /\ job[u].mem # 0) => Target(u) # 0
    BY <1>4, Sizes DEF Removing, Inode
  <1>16. /\ Removing(u) => kind'[Target(u)] = "dir"
         /\ Leaves(job[u]) => kind'[Target(u)] = "dir"
         /\ pc[u] = "load" /\ job[u].call = "unlink" => kind'[Target(u)] # "device"
         /\ pc[u] \in {"linkto", "add"} /\ job[u].mem # 0 => kind'[Target(u)] # "dir"
    BY <1>1, <1>12, <1>13, <1>15 DEF TaskNames
  <1>17. /\ pc[u] = "load" \/ Removing(u) => job[u].slot \in Slot
         /\ pc[u] = "enter" => job[u].slot \in Slot
    BY <1>1 DEF TaskNames
  <1> QED
    BY <1>1, <1>5, <1>6, <1>7, <1>8, <1>9, <1>10, <1>11, <1>14, <1>16, <1>17 DEF TaskNames, Leaves
\* What makes the change right for n and d themselves.
Sound(n, d) ==
    /\ Live(d)
    /\ \A r \in Slot : entry[n][r].nr = 0
    /\ n \in imap' \/ ~Opens(n)
    /\ \A x \in Inode : \A r \in Slot : entry'[x][r].nr = n => n \in imap' \/ Leaving(n)'
    /\ kind'[n] = "dir" \/ Pending(n)' =>
            \A x, y \in Inode : \A r, q \in Slot : entry'[x][r].nr = n /\ entry'[y][q].nr = n => x = y /\ r = q
    /\ \A x \in Inode \ {d} : \A r \in Slot : entry[x][r].nr = n => (IsDir(n)' <=> IsDir(n))

\* The links of the other inodes stay.
LEMMA LinksStay ==
    ASSUME TypeOK, HeldRight, PlacesRight, NamesInv, NEW t \in Task, Seen(t), NEW n \in Inode, About(t, n),
           NEW d, NEW s, Changes(t, n, d, s), Sound(n, d), NEW x \in Inode, x # n, x # d
    PROVE  Links(x)'
  <1>1. /\ Live(x)' <=> Live(x)
        /\ nlinks'[x] = nlinks[x] /\ kind'[x] = kind[x]
    BY PendingNext DEF Changes, Live
  <1>2. Pointing(x)' = Pointing(x)
    <2>1. ASSUME NEW y \in Inode, NEW r \in Slot PROVE entry'[y][r].nr = x <=> entry[y][r].nr = x
      <3>1. x # 0
        BY Sizes DEF Inode
      <3> QED
        BY <3>1 DEF Changes
    <2> QED
      BY <2>1 DEF Pointing
  <1>3. Below(x)' = Below(x)
    <2>1. ASSUME NEW r \in Slot, NEW c, c = entry[x][r].nr, c # 0
          PROVE  IsDir(c)' <=> IsDir(c)
      <3>1. CASE c = n
        BY <2>1, <3>1 DEF Sound
      <3>2. CASE c # n
        <4>1. c \in Inode
          BY <2>1, Sizes DEF TypeOK, Inode
        <4> QED
          BY <3>2, <4>1, PendingNext DEF IsDir, Changes
      <3> QED
        BY <3>1, <3>2
    <2>2. \A r \in Slot : entry'[x][r].nr = entry[x][r].nr
      BY DEF Changes
    <2>3. ASSUME NEW r \in Slot
          PROVE  /\ entry'[x][r].nr # 0 /\ kind'[entry'[x][r].nr] = "dir"
                 /\ ~\E u \in Task : /\ pc'[u] \in {"enter", "load"} /\ job'[u].nr # 0
                                     /\ job'[u].nr = entry'[x][r].nr
                 <=> entry[x][r].nr # 0 /\ IsDir(entry[x][r].nr)
      <3>1. PICK c : c = entry[x][r].nr
        OBVIOUS
      <3>2. c # 0 => (IsDir(c)' <=> IsDir(c))
        BY <2>1, <3>1
      <3> QED
        BY <2>2, <3>1, <3>2 DEF IsDir, Pending, Fresh
    <2> QED
      BY <2>3 DEF Below, IsDir, Pending, Fresh
  <1>4. Links(x)
    BY DEF NamesInv
  <1> QED
    BY <1>1, <1>2, <1>3, <1>4 DEF Links

LEMMA NamesNext ==
    ASSUME TypeOK, HeldRight, PlacesRight, NamesInv, NEW t \in Task, Seen(t), NEW n \in Inode, About(t, n),
           NEW d, NEW s, Changes(t, n, d, s), Sound(n, d),
           \A u \in Task : Shape(pwd[u], fd[u], pc[u], job[u]),
           \A x : Opens(x)' => Opens(x),
           TaskNames(t)', Links(n)', Links(d)'
    PROVE  NamesInv'
  <1>1. \A u \in Task : TaskNames(u)'
    BY OthersNames
  <1>2. \A x \in Inode : x # n => (Live(x)' <=> Live(x)) /\ (Leaving(x)' <=> Leaving(x))
                                  /\ (Pending(x)' <=> Pending(x))
                                  /\ (x \in imap' <=> x \in imap) /\ kind'[x] = kind[x]
    BY PendingNext DEF Changes, Live
  <1>3. RootRight'
    <2>1. n # Root /\ Root \in Inode
      BY Sizes DEF About, Root, Inode
    <2>2. Live(Root)' /\ kind'[Root] = "dir"
      BY <1>2, <2>1 DEF NamesInv, RootRight
    <2>3. \A x \in Inode : Opens(x)' => x \in imap'
      BY <1>2 DEF NamesInv, RootRight, Sound
    <2> QED
      BY <2>2, <2>3 DEF RootRight
  <1>4. \A x \in Inode : \A r \in Slot :
            \/ entry'[x][r].nr = entry[x][r].nr
            \/ x = d /\ r = s /\ entry'[x][r].nr \in {0, n}
    BY DEF Changes
  <1>5. \A x \in Inode : \A r \in Slot : entry[x][r].nr \in Inode \cup {0}
    BY Sizes DEF TypeOK, Inode
  <1>6. ASSUME NEW x \in Inode, NEW r \in Slot, entry'[x][r].nr # 0
        PROVE  /\ Live(x)' /\ kind'[x] = "dir" /\ entry'[x][r].nr # Root
               /\ \/ entry'[x][r].nr \in imap'
                  \/ \E u \in Task : pc'[u] = "ifreed" /\ Target(u)' = entry'[x][r].nr
    <2>1. Live(x) /\ kind[x] = "dir" /\ x # n
      <3>1. CASE entry'[x][r].nr = entry[x][r].nr
        BY <1>6, <3>1 DEF NamesInv, EntriesRight, Sound
      <3>2. CASE x = d
        BY <3>2 DEF Sound, Changes
      <3> QED
        BY <1>4, <3>1, <3>2
    <2>2. Live(x)' /\ kind'[x] = "dir"
      BY <1>2, <2>1
    <2>3. PICK c : c = entry'[x][r].nr
      OBVIOUS
    <2>4. CASE c = n
      BY <2>2, <2>3, <2>4 DEF About, Sound, Leaving
    <2>5. CASE c # n
      <3>1. c = entry[x][r].nr /\ c # 0 /\ c \in Inode
        BY <1>4, <1>5, <1>6, <2>3, <2>5
      <3>2. c # Root /\ (c \in imap \/ Leaving(c))
        BY <3>1 DEF NamesInv, EntriesRight
      <3>3. c \in imap' \/ Leaving(c)'
        BY <1>2, <2>5, <3>1, <3>2
      <3> QED
        BY <2>2, <2>3, <3>2, <3>3 DEF Leaving
    <2> QED
      BY <2>4, <2>5
  <1>7. ASSUME NEW x \in Inode, NEW y \in Inode, NEW r \in Slot, NEW q \in Slot, NEW c,
               entry'[x][r].nr = c, entry'[y][q].nr = c, c # 0, kind'[c] = "dir" \/ Pending(c)'
        PROVE  x = y /\ r = q
    <2>1. CASE c = n
      BY <1>7, <2>1 DEF Sound
    <2>2. CASE c # n
      <3>1. c = entry[x][r].nr /\ c = entry[y][q].nr /\ c \in Inode
        BY <1>4, <1>5, <1>7, <2>2
      <3>2. kind[c] = "dir" \/ Pending(c)
        BY <1>2, <1>7, <2>2, <3>1
      <3>3. /\ entry[x][r].nr # 0 /\ entry[x][r].nr = entry[y][q].nr
            /\ kind[entry[x][r].nr] = "dir" \/ Pending(entry[x][r].nr)
        BY <1>7, <3>1, <3>2 DEF Pending
      <3> QED
        BY <3>3 DEF NamesInv, EntriesRight
    <2> QED
      BY <2>1, <2>2
  <1>8. EntriesRight'
    <2>1. \A x, y \in Inode : \A r, q \in Slot :
            (/\ entry'[x][r].nr # 0 /\ entry'[x][r].nr = entry'[y][q].nr
             /\ \/ kind'[entry'[x][r].nr] = "dir"
                \/ \E u \in Task : /\ pc'[u] \in {"enter", "load"} /\ job'[u].nr # 0
                                   /\ job'[u].nr = entry'[x][r].nr) => x = y /\ r = q
      BY <1>7 DEF Pending, Fresh
    <2> QED
      BY <1>6, <2>1 DEF EntriesRight, Leaving, Pending, Fresh
  <1>9. \A x \in Inode : Links(x)'
    BY LinksStay
  <1> QED
    BY <1>1, <1>3, <1>8, <1>9 DEF NamesInv
-----------------------------------------------------------------------------
\* A step that changes no names.
LEMMA PendingStays ==
    ASSUME NEW t \in Task, OthersSame(t), \A u \in Task \ {t} : Target(u)' = Target(u), ~Fresh(t), ~Fresh(t)',
           pc[t] # "ifreed", pc'[t] # "ifreed"
    PROVE  \A x : (Pending(x)' <=> Pending(x)) /\ (Leaving(x)' <=> Leaving(x))
  <1> SUFFICES ASSUME NEW x PROVE (Pending(x)' <=> Pending(x)) /\ (Leaving(x)' <=> Leaving(x))
    OBVIOUS
  <1>1. \A u \in Task : (Fresh(u)' <=> Fresh(u)) /\ (Fresh(u) => job'[u].nr = job[u].nr)
    BY DEF OthersSame, Fresh
  <1>2. \A u \in Task : pc'[u] = "ifreed" /\ Target(u)' = x <=> pc[u] = "ifreed" /\ Target(u) = x
    BY DEF OthersSame
  <1>3. Pending(x)' <=> Pending(x)
    BY <1>1 DEF Pending, Fresh
  <1>4. Leaving(x)' <=> Leaving(x)
    BY <1>2 DEF Leaving
  <1> QED
    BY <1>3, <1>4

LEMMA NamesStand ==
    ASSUME HeldRight, PlacesRight, NamesInv, NEW t \in Task, Views(t), UNCHANGED <<imap, kind, nlinks, entry>>,
           ~Fresh(t), ~Fresh(t)', pc[t] # "ifreed", pc'[t] # "ifreed", TaskNames(t)'
    PROVE  NamesInv'
  <1>0. Seen(t)
    BY DEF Views
  <1>1. \A x : (Pending(x)' <=> Pending(x)) /\ (Leaving(x)' <=> Leaving(x))
    <2>1. OthersSame(t) /\ \A u \in Task \ {t} : Target(u)' = Target(u)
      BY <1>0 DEF Seen
    <2> QED
      BY <2>1, PendingStays
  <1>2. \A x : (Live(x)' <=> Live(x)) /\ (IsDir(x)' <=> IsDir(x))
    BY <1>1 DEF Live, IsDir
  <1>3. ASSUME NEW u \in Task \ {t} PROVE TaskNames(u)'
    <2>1. /\ TaskNames(u) /\ pc'[u] = pc[u] /\ job'[u] = job[u]
          /\ Target(u)' = Target(u) /\ In(u)' = In(u) /\ Home(u)' = Home(u)
      BY <1>0 DEF NamesInv, Seen, OthersSame
    <2>2. PICK h : h = Home(u)
      OBVIOUS
    <2>3. Live(h)' <=> Live(h)
      BY <1>2
    <2>4. Live(Home(u))' <=> Live(Home(u))
      BY <2>1, <2>2, <2>3 DEF Live, Pending
    <2> QED
      BY <2>1, <2>4 DEF TaskNames, Leaves, Removing, Unlinked
  <1>4. RootRight'
    <2>1. Live(Root)' /\ kind'[Root] = "dir"
      BY <1>2 DEF NamesInv, RootRight
    <2>2. \A x \in Inode : Opens(x)' => x \in imap'
      <3>1. \A x : Opens(x)' => Opens(x) \/ (x = Target(t) /\ x # 0)
        BY DEF Views
      <3>2. Target(t) # 0 => Target(t) \in imap
        BY DEF NamesInv, TaskNames
      <3> QED
        BY <3>1, <3>2 DEF NamesInv, RootRight
    <2> QED
      BY <2>1, <2>2 DEF RootRight
  <1>5. EntriesRight'
    <2>1. ASSUME NEW x \in Inode, NEW r \in Slot, NEW c, c = entry[x][r].nr, c # 0
          PROVE  Live(x)' /\ kind'[x] = "dir" /\ c # Root /\ (c \in imap' \/ Leaving(c)')
      BY <1>1, <1>2, <2>1 DEF NamesInv, EntriesRight
    <2>2. ASSUME NEW x \in Inode, NEW y \in Inode, NEW r \in Slot, NEW q \in Slot, NEW c,
                 entry[x][r].nr = c, entry[y][q].nr = c, c # 0, kind[c] = "dir" \/ Pending(c)'
          PROVE  x = y /\ r = q
      <3>1. /\ entry[x][r].nr # 0 /\ entry[x][r].nr = entry[y][q].nr
            /\ kind[entry[x][r].nr] = "dir" \/ Pending(entry[x][r].nr)
        BY <1>1, <2>2 DEF Pending
      <3> QED
        BY <3>1 DEF NamesInv, EntriesRight
    <2>3. \A x, y \in Inode : \A r, q \in Slot :
            (/\ entry'[x][r].nr # 0 /\ entry'[x][r].nr = entry'[y][q].nr
             /\ \/ kind'[entry'[x][r].nr] = "dir"
                \/ \E u \in Task : /\ pc'[u] \in {"enter", "load"} /\ job'[u].nr # 0
                                   /\ job'[u].nr = entry'[x][r].nr) => x = y /\ r = q
      BY <2>2 DEF Pending, Fresh
    <2> QED
      BY <2>1, <2>3 DEF EntriesRight, Leaving, Pending, Fresh
  <1>6. ASSUME NEW x \in Inode PROVE Links(x)'
    <2>1. Pointing(x)' = Pointing(x)
      BY DEF Pointing
    <2>2. Below(x)' = Below(x)
      <3>1. ASSUME NEW r \in Slot, NEW c, c = entry[x][r].nr
            PROVE  IsDir(c)' <=> IsDir(c)
        BY <1>2
      <3>2. ASSUME NEW r \in Slot
            PROVE  /\ entry'[x][r].nr # 0 /\ kind'[entry'[x][r].nr] = "dir"
                   /\ ~\E u \in Task : /\ pc'[u] \in {"enter", "load"} /\ job'[u].nr # 0
                                       /\ job'[u].nr = entry'[x][r].nr
                   <=> entry[x][r].nr # 0 /\ IsDir(entry[x][r].nr)
        <4>1. PICK c : c = entry[x][r].nr
          OBVIOUS
        <4>2. IsDir(c)' <=> IsDir(c)
          BY <3>1, <4>1
        <4> QED
          BY <4>1, <4>2 DEF IsDir, Pending, Fresh
      <3> QED
        BY <3>2 DEF Below, IsDir, Pending, Fresh
    <2>3. Links(x)
      BY DEF NamesInv
    <2> QED
      BY <1>2, <2>1, <2>2, <2>3 DEF Links
  <1>7. \A u \in Task : TaskNames(u)'
    BY <1>3
  <1> QED
    BY <1>4, <1>5, <1>6, <1>7 DEF NamesInv
-----------------------------------------------------------------------------
\* What a call finds when the callers avoid all that Avoided lists.
LEMMA Claimed ==
    ASSUME Risks = {}, HeldRight, PlacesRight, NEW t \in Task, NEW call, NEW d, NEW name, NEW target,
           ~Avoided(t, call, d, name, target), NEW n, n \in target \cup {0}, n # Root
    PROVE  Alone(t, call, n, d)
  <1> SUFFICES ASSUME NEW u \in Task \ {t}
               PROVE  /\ Target(u) = n /\ n # 0 => call \in Reading /\ job[u].call \in Reading
                      /\ call \in Adding /\ job[u].call \in Adding /\ d # 0 /\ job[u].dir # 0 => In(u) # d
                      /\ call = "rmdir" => job[u].call \notin Creating
                      /\ job[u].call = "rmdir" => call \notin Creating
    BY DEF Alone
  <1>1. NumberFacts(u)
    BY NumbersAre
  <1>2. Target(u) = n /\ n # 0 => call \in Reading /\ job[u].call \in Reading
    <2> SUFFICES ASSUME Target(u) = n, n # 0 PROVE call \in Reading /\ job[u].call \in Reading
      OBVIOUS
    <2>1. pc[u] # "user" /\ n \in Targets(u) /\ n \in target
      BY <1>1 DEF NumberFacts
    <2>2. {call, job[u].call} \ Reading = {}
      BY <2>1 DEF Avoided
    <2> QED
      BY <2>2
  <1>3. call \in Adding /\ job[u].call \in Adding /\ d # 0 /\ job[u].dir # 0 => In(u) # d
    BY <1>1 DEF NumberFacts, Avoided
  <1>4. pc[u] = "user" => job[u].call \notin Creating \cup {"rmdir"}
    BY <1>1 DEF NumberFacts, Creating, Adding
  <1>5. /\ call = "rmdir" => job[u].call \notin Creating
        /\ job[u].call = "rmdir" => call \notin Creating
    BY <1>4 DEF Avoided
  <1> QED
    BY <1>2, <1>3, <1>5

\* No call is reading the inode that another one names, and no open file or
\* device is unlinked.
LEMMA ClaimedMore ==
    ASSUME Risks = {}, HeldRight, PlacesRight, NEW t \in Task, NEW call, NEW d, NEW name, NEW target,
           ~Avoided(t, call, d, name, target), NEW n \in target, n # 0
    PROVE  /\ \A u \in Task \ {t} : pc[u] = "load" => Target(u) # n
           /\ call = "unlink" => ~Opens(n) /\ kind[n] # "device"
  <1>1. ASSUME NEW u \in Task \ {t}, pc[u] = "load" PROVE Target(u) # n
    <2>1. Target(u) # 0 => Target(u) \in Targets(u)
      BY NumbersAre DEF NumberFacts
    <2> QED
      BY <1>1, <2>1 DEF Avoided
  <1>2. ASSUME call = "unlink" PROVE ~Opens(n) /\ kind[n] # "device"
    <2>1. kind[n] # "device"
      BY <1>2 DEF Avoided
    <2>2. ASSUME NEW f \in File, file[f].count > 0, Nr(file[f].inode) = n PROVE FALSE
      <3>1. Desc(file[f].inode) = n
        BY <2>2 DEF PlacesRight, FilesGood, Good, Nr, Desc
      <3> QED
        BY <1>2, <2>2, <3>1 DEF Avoided
    <2> QED
      BY <2>1, <2>2 DEF Opens
  <1> QED
    BY <1>1, <1>2
-----------------------------------------------------------------------------
\* Task t starts the call with the locals j, or goes on with it, and has got
\* inode n, whose count is then count.
Takes(t, j, n, count) ==
    /\ j \in Job /\ OnInode(pwd[t], j) /\ n \in Inode /\ n \in imap /\ n # Root
    /\ Good(j.mem)' /\ inode'[j.mem].nr = n /\ (j.nr # 0 => j.nr = n /\ j.call \in Creating)
    /\ Table(t, 0)
    /\ Alone(t, j.call, n, Home(t))
    /\ j.call = "unlink" => ~Opens(n) /\ kind[n] # "device"
    /\ j.call = "rmdir" /\ ~(count > 1) => ~Opens(n) /\ \A u \in Task : Home(u) # n
    /\ j.slot \in Slot /\ entry[Home(t)][j.slot].nr = n
    /\ \/ pc[t] = "user" /\ j.nr = 0
       \/ pc[t] = "load" /\ Alike(job[t], j)

LEMMA GotAfter ==
    ASSUME TypeOK, NEW t \in Task, NEW j \in Job, NEW n, NEW count, Got(t, j, n, count), OnInode(pwd[t], j)
    PROVE  /\ After(t, j) /\ pc'[t] \in {"user", "put", "trunc", "empty", "linkto", "block"}
           /\ j.nr = 0 => pc'[t] # "block"
           /\ Removing(t)' => j.call = "rmdir" /\ ~(count > 1)
  <1>1. j.mem \in Mem /\ j.dir # 0 /\ j.held = <<j.mem, j.dir>> /\ j.mem # 0 /\ j.keep = 0
    BY DEF OnInode, InDir, Job
  <1>2. ASSUME Finish(t, j, 0) PROVE After(t, j) /\ pc'[t] \in {"user", "put"} /\ ~Removing(t)'
    BY <1>2, Finished DEF After, Free, Removing
  <1>3. ASSUME NEW place \in {"trunc", "empty", "linkto"}, At(t, place, j), UNCHANGED fileVars
        PROVE  After(t, j) /\ pc'[t] = place /\ (Removing(t)' => j.call = "rmdir")
    <2>1. pc'[t] = place /\ job'[t] = j /\ OthersSame(t)
      BY <1>3, AtGoes DEF fileVars
    <2> QED
      BY <1>3, <2>1 DEF After, Alike, Removing
  <1>4. CASE OpenFound(t, j, n)
    <2>1. CASE Permitted(n)
      <3>1. Finish(t, j, j.mem) /\ j.call = "open"
        BY <1>1, <1>4, <2>1 DEF OpenFound
      <3>2. Keeps(t, "open", j.mem)' /\ OthersSame(t) /\ UNCHANGED fileVars
        BY <1>1, <3>1, FinishedKeeping
      <3> QED
        BY <1>1, <3>1, <3>2 DEF After, Keeps, Removing
    <2>2. CASE ~Permitted(n)
      BY <1>2, <1>4, <2>2 DEF OpenFound
    <2> QED
      BY <2>1, <2>2
  <1>5. CASE CreatFound(t, j, n)
    BY <1>2, <1>3, <1>5 DEF CreatFound, Abort, Removing
  <1>6. CASE Chdir(t, j, n)
    <2>1. CASE Abort(t, j)
      BY <1>2, <2>1 DEF Abort
    <2>2. CASE ~Abort(t, j)
      <3> DEFINE k == [NoJob EXCEPT !.call = "chdir", !.keep = j.mem, !.held = <<j.dir, pwd[t]>>]
      <3>1. j.call = "chdir" /\ Resume(t, k, file)
        BY <1>6, <2>2 DEF Chdir
      <3>2. /\ k.call = "chdir" /\ k.mem = 0 /\ k.nr = 0 /\ k.dir = 0 /\ k.keep = j.mem
            /\ k.held = <<j.dir, pwd[t]>>
        BY DEF NoJob
      <3> HIDE DEF k
      <3>3. k.held # << >>
        BY <3>2
      <3>4. At(t, "put", k) /\ UNCHANGED fileVars
        BY <3>1, <3>3 DEF Resume, fileVars
      <3>5. pc'[t] = "put" /\ job'[t] = k /\ OthersSame(t)
        BY <3>4, AtGoes DEF fileVars
      <3> QED
        BY <1>1, <3>1, <3>2, <3>4, <3>5 DEF After, Keeps, Removing
    <2> QED
      BY <2>1, <2>2
  <1>7. CASE Rmdir(t, j, n, count)
    <2>1. CASE Abort(t, j)
      BY <1>2, <2>1 DEF Abort
    <2>2. CASE ~Abort(t, j)
      BY <1>3, <1>7, <2>2 DEF Rmdir
    <2> QED
      BY <2>1, <2>2
  <1>8. CASE Unlink(t, j, n)
    <2>1. CASE Abort(t, j)
      BY <1>2, <2>1 DEF Abort
    <2>2. CASE ~Abort(t, j)
      BY <1>2, <1>3, <1>8, <2>2 DEF Unlink, Removing
    <2> QED
      BY <2>1, <2>2
  <1>9. CASE LinkFound(t, j, n)
    BY <1>2, <1>3, <1>9 DEF LinkFound, Abort, Removing
  <1>10. CASE NewFile(t, j, n)
    BY <1>2, <1>3, <1>10 DEF NewFile, Removing
  <1>11. CASE j.nr # 0 /\ NewDirectory(t, j, n)
    <2>1. CASE Finish(t, j, 0)
      BY <1>2, <2>1
    <2>2. CASE ~Finish(t, j, 0)
      <3>1. Balloc(t, j, 1) /\ UNCHANGED fileVars
        BY <1>11, <2>2 DEF NewDirectory
      <3> DEFINE k == [j EXCEPT !.index = 1, !.block = Least(Block \ zmap)]
      <3>2. At(t, "block", k)
        BY <3>1 DEF Balloc
      <3>3. Alike(k, j)
        BY DEF Alike, Job
      <3> HIDE DEF k
      <3>4. pc'[t] = "block" /\ job'[t] = k /\ OthersSame(t)
        BY <3>1, <3>2, AtGoes DEF fileVars
      <3> QED
        BY <1>11, <3>1, <3>3, <3>4 DEF After, Removing
    <2> QED
      BY <2>1, <2>2
  <1> QED
    BY <1>4, <1>5, <1>6, <1>7, <1>8, <1>9, <1>10, <1>11 DEF Got

\* What After says of the numbers.
Numbers(t, n) ==
    /\ \A x : Opens(x)' => Opens(x)
    /\ Home(t)' = Home(t)
    /\ In(t)' = IF job'[t].dir = 0 THEN 0 ELSE Home(t)
    /\ Free(t)' => Target(t)' = 0 /\ In(t)' = 0
    /\ ~Free(t)' => Target(t)' = n

LEMMA GotView ==
    ASSUME TypeOK, HeldRight, HeldRight', ViewInv, NEW t \in Task, NEW j, NEW n, NEW count,
           Takes(t, j, n, count), Got(t, j, n, count)
    PROVE  ViewInv' /\ Views(t) /\ Numbers(t, n)
  <1>1. /\ After(t, j) /\ pc'[t] \in {"user", "put", "trunc", "empty", "linkto", "block"}
        /\ Removing(t)' => j.call = "rmdir" /\ ~(count > 1)
    BY GotAfter DEF Takes
  <1>2. j.mem # 0 /\ j.keep = 0 /\ j.dir = pwd[t] /\ j.dir # 0 /\ n # 0
    BY Sizes DEF Takes, OnInode, InDir, Inode
  <1>3. Fits(t, j, n)
    BY <1>1, <1>2 DEF Fits, Takes, TargetIn
  <1>4. Clear(t, j, n)
    BY <1>1, <1>2 DEF Clear, Takes
  <1>5. Table(t, 0)
    BY DEF Takes
  <1> QED
    BY <1>1, <1>3, <1>4, <1>5, AfterStep DEF Numbers
-----------------------------------------------------------------------------
\* A call that has ended knows of no names but its working directory.
LEMMA EndedNames ==
    ASSUME NEW t \in Task, Free(t)', Target(t)' = 0, Live(Home(t))', kind'[Home(t)'] = "dir"
    PROVE  TaskNames(t)'
  BY DEF TaskNames, Free, Leaves, Removing, Unlinked

LEMMA HomeStays ==
    ASSUME NEW t \in Task, TaskNames(t), Home(t)' = Home(t), NEW d, d = Home(t), Live(d)' <=> Live(d),
           kind'[d] = kind[d]
    PROVE  Live(Home(t))' /\ kind'[Home(t)'] = "dir"
  BY DEF TaskNames, Live, Pending, Fresh

\* The calls that change no names when they get their inode.
LEMMA GotQuiet ==
    ASSUME TypeOK, HeldRight, ViewInv, NamesInv, NEW t \in Task, NEW j, NEW n, NEW count,
           Takes(t, j, n, count), j.nr = 0, Views(t), Numbers(t, n), UNCHANGED diskVars,
           \/ Finish(t, j, 0)
           \/ j.call = "open" /\ OpenFound(t, j, n)
           \/ j.call = "creat" /\ At(t, "trunc", j) /\ UNCHANGED fileVars
           \/ j.call = "rmdir" /\ At(t, "empty", j) /\ UNCHANGED fileVars /\ kind[n] = "dir"
           \/ j.call = "link" /\ At(t, "linkto", j) /\ UNCHANGED fileVars /\ kind[n] # "dir"
           \/ j.call = "chdir" /\ Keeps(t, "chdir", j.mem)' /\ kind[n] = "dir"
    PROVE  NamesInv'
  <1>1. UNCHANGED <<imap, kind, nlinks, entry>>
    BY DEF diskVars
  <1>2. /\ j.mem \in Mem /\ j.dir # 0 /\ j.held = <<j.mem, j.dir>> /\ j.mem # 0 /\ j.keep = 0 /\ j.dir = pwd[t]
        /\ j \in Job /\ PlacesRight
    BY DEF Takes, OnInode, InDir, Job, ViewInv
  <1>3. ~Fresh(t) /\ pc[t] # "ifreed"
    BY DEF Takes, Fresh, Alike
  <1>4. PICK d : d = Home(t)
    OBVIOUS
  <1>5. /\ pc'[t] \in {"user", "put", "trunc", "empty", "linkto"}
        /\ \/ Free(t)'
           \/ Keeps(t, "open", j.mem)'
           \/ Keeps(t, "chdir", j.mem)' /\ kind[n] = "dir"
           \/ job'[t] = j /\ pc'[t] = "trunc" /\ j.call = "creat"
           \/ job'[t] = j /\ pc'[t] = "empty" /\ j.call = "rmdir" /\ kind[n] = "dir"
           \/ job'[t] = j /\ pc'[t] = "linkto" /\ j.call = "link" /\ kind[n] # "dir"
    <2>1. CASE Finish(t, j, 0)
      BY <2>1, Finished DEF Free
    <2>2. CASE j.call = "open" /\ OpenFound(t, j, n)
      <3>1. CASE Permitted(n)
        <4>1. Finish(t, j, j.mem)
          BY <2>2, <3>1 DEF OpenFound
        <4> QED
          BY <1>2, <2>2, <4>1, FinishedKeeping DEF Keeps
      <3>2. CASE ~Permitted(n)
        BY <2>2, <3>2, Finished DEF OpenFound, Free
      <3> QED
        BY <3>1, <3>2
    <2>3. CASE j.call = "chdir" /\ Keeps(t, "chdir", j.mem)' /\ kind[n] = "dir"
      BY <2>3 DEF Keeps
    <2>4. ASSUME NEW place \in {"trunc", "empty", "linkto"}, At(t, place, j), UNCHANGED fileVars
          PROVE  pc'[t] = place /\ job'[t] = j
      BY <2>4, AtGoes DEF fileVars
    <2> QED
      BY <2>1, <2>2, <2>3, <2>4
  <1>6. ~Fresh(t)' /\ pc'[t] # "ifreed"
    BY <1>5 DEF Fresh
  <1>7. Live(d)' <=> Live(d)
    <2>1. OthersSame(t) /\ \A u \in Task \ {t} : Target(u)' = Target(u)
      BY DEF Views, Seen
    <2>2. Pending(d)' <=> Pending(d)
      BY <1>3, <1>6, <2>1, PendingStays
    <2> QED
      BY <1>1, <2>2 DEF Live
  <1>8. Live(Home(t))' /\ kind'[Home(t)'] = "dir"
    BY <1>1, <1>4, <1>7, HomeStays DEF NamesInv, Numbers
  <1>9. TaskNames(t)'
    <2>1. CASE Free(t)'
      BY <1>8, <2>1, EndedNames DEF Numbers
    <2>2. CASE ~Free(t)'
      <3>1. Target(t)' = n /\ (job'[t].dir # 0 => In(t)' = Home(t)) /\ n \in imap'
        BY <1>1, <2>2 DEF Numbers, Takes
      <3>2. Keeps(t, "open", j.mem)' \/ Keeps(t, "chdir", j.mem)' => pc'[t] = "put" /\ job'[t].call # "unlink"
        BY DEF Keeps
      <3>3. job'[t] = j => In(t)' = Home(t) /\ j.slot \in Slot /\ entry'[Home(t)][j.slot].nr = n /\ ~Leaves(j)
        BY <1>1, <1>2, <3>1 DEF Takes, Leaves
      <3>4. CASE Keeps(t, "open", j.mem)'
        BY <1>8, <3>1, <3>4 DEF Keeps, TaskNames, Leaves, Removing, Unlinked
      <3>5. CASE Keeps(t, "chdir", j.mem)' /\ kind[n] = "dir"
        BY <1>1, <1>8, <3>1, <3>5 DEF Keeps, TaskNames, Leaves, Removing, Unlinked
      <3>6. CASE job'[t] = j /\ pc'[t] = "trunc" /\ j.call = "creat"
        BY <1>1, <1>8, <3>1, <3>3, <3>6 DEF TaskNames, Removing, Unlinked
      <3>7. CASE job'[t] = j /\ pc'[t] = "empty" /\ j.call = "rmdir" /\ kind[n] = "dir"
        BY <1>1, <1>8, <3>1, <3>3, <3>7 DEF TaskNames, Removing, Unlinked
      <3>8. CASE job'[t] = j /\ pc'[t] = "linkto" /\ j.call = "link" /\ kind[n] # "dir"
        BY <1>1, <1>8, <3>1, <3>3, <3>8 DEF TaskNames, Removing, Unlinked
      <3> QED
        BY <1>5, <2>2, <3>4, <3>5, <3>6, <3>7, <3>8
    <2> QED
      BY <2>1, <2>2
  <1> QED
    BY <1>1, <1>2, <1>3, <1>6, <1>9, NamesStand
-----------------------------------------------------------------------------
\* Sets of entries.
LEMMA Limits ==
    /\ \A S \in SUBSET Slot : IsFiniteSet(S) /\ Cardinality(S) \in Nat /\ Cardinality(S) <= NSlot
    /\ \A S \in SUBSET (Inode \X Slot) : /\ IsFiniteSet(S) /\ Cardinality(S) \in Nat
                                         /\ Cardinality(S) <= NInode * NSlot
  <1>1. /\ IsFiniteSet(Slot) /\ Cardinality(Slot) = NSlot /\ IsFiniteSet(Inode) /\ Cardinality(Inode) = NInode
        /\ NSlot \in Nat /\ NInode \in Nat
    BY Sizes, FS_Interval DEF Slot, Inode
  <1>2. IsFiniteSet(Inode \X Slot) /\ Cardinality(Inode \X Slot) = NInode * NSlot
    BY <1>1, FS_Product
  <1> QED
    BY <1>1, <1>2, FS_Subset, FS_CardinalityType

LEMMA OneMore ==
    ASSUME NEW S, IsFiniteSet(S), NEW x, x \notin S
    PROVE  Cardinality(S \cup {x}) = Cardinality(S) + 1
  BY FS_AddElement

LEMMA OneLess ==
    ASSUME NEW S, IsFiniteSet(S), NEW x \in S
    PROVE  Cardinality(S) \in Nat \ {0} /\ Cardinality(S \ {x}) = Cardinality(S) - 1
  <1>1. Cardinality(S) \in Nat /\ Cardinality(S) # 0
    BY FS_CardinalityType, FS_EmptySet
  <1> QED
    BY <1>1, FS_RemoveElement

\* Nobody else has the inode of a call that changes it.
LEMMA Unshared ==
    ASSUME HeldRight, PlacesRight, NamesInv, NEW t \in Task, NEW call, NEW n, NEW d, Alone(t, call, n, d),
           call \notin Reading, n # 0
    PROVE  /\ \A u \in Task \ {t} : Target(u) # n
           /\ n # Root
           /\ kind[n] # "dir" => \A u \in Task : Home(u) # n
           /\ pc[t] # "ifreed" => ~Leaving(n)
           /\ ~Fresh(t) => ~Pending(n)
  <1>1. \A u \in Task \ {t} : Target(u) # n
    BY DEF Alone
  <1>2. n # Root
    BY DEF Alone
  <1>3. kind[n] # "dir" => \A u \in Task : Home(u) # n
    BY DEF NamesInv, TaskNames
  <1>4. pc[t] # "ifreed" => ~Leaving(n)
    BY <1>1 DEF Leaving
  <1>5. ASSUME ~Fresh(t) PROVE ~Pending(n)
    <2>1. \A u \in Task : job[u].nr # 0 => Target(u) = job[u].nr
      BY NumbersRight
    <2> QED
      BY <1>1, <1>5, <2>1 DEF Pending, Fresh
  <1> QED
    BY <1>1, <1>2, <1>3, <1>4, <1>5

\* A slot of a directory after a step.
LEMMA BelowNext ==
    ASSUME NEW d, NEW r \in Slot, NEW c, c = entry'[d][r].nr
    PROVE  r \in Below(d)' <=> c # 0 /\ IsDir(c)'
  <1>1. r \in Below(d)' <=>
            /\ entry'[d][r].nr # 0 /\ kind'[entry'[d][r].nr] = "dir"
            /\ ~\E u \in Task : /\ pc'[u] \in {"enter", "load"} /\ job'[u].nr # 0
                                /\ job'[u].nr = entry'[d][r].nr
    BY DEF Below, IsDir, Pending, Fresh
  <1> QED
    BY <1>1 DEF IsDir, Pending, Fresh

LEMMA GotUnlink ==
    ASSUME TypeOK, HeldRight, ViewInv, NamesInv, NEW t \in Task, NEW j, NEW n, NEW count,
           \A u \in Task : Shape(pwd[u], fd[u], pc[u], job[u]),
           Takes(t, j, n, count), j.nr = 0, Views(t), Numbers(t, n), Unlink(t, j, n), kind[n] # "dir"
    PROVE  NamesInv'
  <1>0. PICK d, s : d = Home(t) /\ s = j.slot
    OBVIOUS
  <1>1. /\ PlacesRight /\ j.call = "unlink" /\ j \in Job /\ n # 0 /\ n \in Inode /\ n \in imap /\ s \in Slot
        /\ entry[d][s].nr = n /\ kind[n] = "file"
        /\ j.dir = pwd[t] /\ j.keep = 0 /\ j.mem # 0
        /\ pc[t] \in {"user", "load"} /\ ~Fresh(t) /\ ~Opens(n)
    <2>1. kind[n] \in {"file", "dir", "device"}
      BY DEF TypeOK, Takes
    <2> QED
      BY <1>0, <2>1, Sizes DEF Takes, ViewInv, Unlink, OnInode, InDir, Inode, Alike, Fresh
  <1>2. d \in Inode /\ Dir(j) = d
    BY <1>0, <1>1, NumbersRight DEF Dir
  <1>3. /\ entry' = [entry EXCEPT ![d][s] = NoEntry]
        /\ nlinks' = [nlinks EXCEPT ![n] = (@ + 255) % 256]
        /\ UNCHANGED <<imap, kind>>
        /\ IF nlinks[n] = 1 THEN At(t, "trunc", j) /\ UNCHANGED fileVars ELSE Finish(t, j, 0)
    BY <1>0, <1>1, <1>2 DEF Unlink, Abort
  <1>4. /\ \A u \in Task \ {t} : Target(u) # n /\ Home(u) # n
        /\ n # Root /\ ~Leaving(n) /\ ~Pending(n) /\ Home(t) # n /\ d # n
    <2>1. Alone(t, "unlink", n, Home(t))
      BY <1>1 DEF Takes
    <2> QED
      BY <1>0, <1>1, <2>1, Unshared DEF Reading
  <1>5. \A x \in Inode : \A r \in Slot : entry'[x][r] = IF x = d /\ r = s THEN NoEntry ELSE entry[x][r]
    BY <1>1, <1>2, <1>3 DEF TypeOK
  <1>6. \A r \in Slot : entry[n][r].nr = 0
    BY <1>1 DEF NamesInv, EntriesRight
  <1>7. Live(n) /\ Live(d) /\ kind[d] = "dir"
    BY <1>0, <1>1, <1>4 DEF Live, NamesInv, TaskNames
  <1>8. IF nlinks[n] = 1 THEN pc'[t] = "trunc" /\ job'[t] = j ELSE Free(t)'
    <2>1. CASE nlinks[n] = 1
      BY <1>3, <2>1, AtGoes DEF fileVars
    <2>2. CASE nlinks[n] # 1
      BY <1>3, <2>2, Finished
    <2> QED
      BY <2>1, <2>2
  <1>9. ~Fresh(t)' /\ pc'[t] \in {"trunc", "user", "put"} /\ Home(t)' = d
    BY <1>0, <1>8 DEF Fresh, Free, Numbers
  <1>10. About(t, n)
    BY <1>0, <1>1, <1>4, <1>9 DEF About
  <1>11. Changes(t, n, d, s)
    <2>1. \A x \in Inode \ {n} : nlinks'[x] = nlinks[x]
      BY <1>1, <1>3 DEF TypeOK
    <2>2. entry'[d][s].nr = 0 /\ entry[d][s].nr = n
      BY <1>1, <1>2, <1>5 DEF NoEntry
    <2>3. /\ \A x \in Inode \ {n} : (x \in imap' <=> x \in imap) /\ kind'[x] = kind[x]
          /\ d \in Inode /\ d # n /\ kind[d] = "dir"
      BY <1>2, <1>3, <1>4, <1>7
    <2>4. \A x \in Inode : \A r \in Slot :
            \/ entry'[x][r] = entry[x][r]
            \/ entry'[x][r].nr = 0 /\ entry[x][r].nr = 0
            \/ x = d /\ r = s
      BY <1>5
    <2> QED
      BY <2>1, <2>2, <2>3, <2>4 DEF Changes
  <1>12. (Pending(n)' <=> FALSE) /\ (\A x : x # n => (Pending(x)' <=> Pending(x)))
    <2>1. Seen(t)
      BY DEF Views
    <2> QED
      BY <1>1, <1>9, <1>10, <2>1, PendingNext
  <1>13. Sound(n, d)
    <2>1. IsDir(n)' <=> IsDir(n)
      BY <1>1, <1>3 DEF IsDir
    <2>2. n \in imap' /\ kind'[n] # "dir" /\ ~Pending(n)'
      BY <1>1, <1>3, <1>12
    <2> QED
      BY <1>6, <1>7, <2>1, <2>2 DEF Sound
  <1>14. Pointing(n)' = Pointing(n) \ {<<d, s>>} /\ <<d, s>> \in Pointing(n)
    BY <1>1, <1>2, <1>4, <1>5 DEF Pointing, NoEntry
  <1>15. nlinks[n] = Cardinality(Pointing(n)) /\ nlinks'[n] = Cardinality(Pointing(n)')
    <2>1. IsFiniteSet(Pointing(n))
      BY Limits DEF Pointing
    <2>2. Cardinality(Pointing(n)) \in Nat \ {0} /\ Cardinality(Pointing(n)') = Cardinality(Pointing(n)) - 1
      BY <1>14, <2>1, OneLess
    <2>3. nlinks[n] = Cardinality(Pointing(n)) /\ nlinks[n] \in 0 .. 255
      BY <1>1, <1>7 DEF NamesInv, Links, TypeOK
    <2>4. nlinks'[n] = (nlinks[n] + 255) % 256
      BY <1>1, <1>3 DEF TypeOK
    <2> QED
      BY <2>2, <2>3, <2>4
  <1>16. Links(n)'
    BY <1>1, <1>3, <1>15 DEF Links
  <1>17. Below(d)' = Below(d)
    <2>1. ASSUME NEW r \in Slot
          PROVE  r \in Below(d)' <=> r \in Below(d)
      <3>1. CASE r = s
        <4>1. entry'[d][r].nr = 0 /\ entry[d][r].nr = n
          BY <1>1, <1>2, <1>5, <3>1 DEF NoEntry
        <4>2. r \notin Below(d)
          BY <1>1, <4>1 DEF Below, IsDir
        <4>3. r \notin Below(d)'
          BY <4>1, BelowNext
        <4> QED
          BY <4>2, <4>3
      <3>2. CASE r # s
        <4>1. PICK c : c = entry[d][r].nr /\ c = entry'[d][r].nr
          BY <1>2, <1>5, <3>2
        <4>2. IsDir(c)' <=> IsDir(c)
          BY <1>3, <1>4, <1>12 DEF IsDir
        <4>3. r \in Below(d)' <=> c # 0 /\ IsDir(c)'
          BY <4>1, BelowNext
        <4> QED
          BY <4>1, <4>2, <4>3 DEF Below
      <3> QED
        BY <3>1, <3>2
    <2> QED
      BY <2>1 DEF Below
  <1>18. Links(d)'
    <2>1. nlinks'[d] = nlinks[d] /\ kind'[d] = "dir"
      BY <1>2, <1>3, <1>4, <1>7 DEF TypeOK
    <2>2. Links(d) /\ Live(d)
      BY <1>2, <1>7 DEF NamesInv
    <2> QED
      BY <1>7, <1>17, <2>1, <2>2 DEF Links
  <1>19. TaskNames(t)'
    <2>1. Live(d)'
      BY <1>3, <1>4, <1>7, <1>12 DEF Live
    <2>2. Live(Home(t))' /\ kind'[Home(t)'] = "dir"
      BY <1>3, <1>7, <1>9, <2>1 DEF Live, Pending, Fresh
    <2>3. CASE nlinks[n] = 1
      <3>1. pc'[t] = "trunc" /\ job'[t] = j /\ ~Free(t)' /\ Target(t)' = n
        BY <1>8, <2>3 DEF Free, Numbers
      <3>2. nlinks'[n] = 0 /\ kind'[n] = "file" /\ n \in imap'
        BY <1>1, <1>3, <2>3 DEF TypeOK
      <3> QED
        BY <1>1, <2>2, <3>1, <3>2 DEF TaskNames, Leaves, Removing, Unlinked
    <2>4. CASE nlinks[n] # 1
      BY <1>8, <2>2, <2>4, EndedNames DEF Numbers
    <2> QED
      BY <2>3, <2>4
  <1>20. Seen(t) /\ \A x : Opens(x)' => Opens(x)
    BY DEF Views, Numbers
  <1> QED
    BY <1>1, <1>10, <1>11, <1>13, <1>16, <1>18, <1>19, <1>20, NamesNext

\* The inode that a call creates has one entry, and is counted nowhere yet.
LEMMA GotNew ==
    ASSUME TypeOK, HeldRight, ViewInv, NamesInv, NEW t \in Task, NEW j, NEW n, NEW count,
           Takes(t, j, n, count), j.nr # 0, Numbers(t, n), NEW d, d = Home(t), NEW s, s = j.slot
    PROVE  /\ PlacesRight /\ j \in Job /\ n # 0 /\ n \in Inode /\ n \in imap /\ s \in Slot
           /\ entry[d][s].nr = n /\ j.dir = pwd[t] /\ j.keep = 0 /\ j.mem # 0
           /\ pc[t] = "load" /\ Fresh(t) /\ job[t].nr = n /\ j.call \in Creating
           /\ d \in Inode /\ Dir(j) = d /\ d # n /\ Live(d) /\ kind[d] = "dir"
           /\ \A u \in Task \ {t} : Target(u) # n /\ Home(u) # n
           /\ n # Root /\ Pending(n)
           /\ \A r \in Slot : entry[n][r].nr = 0
           /\ \A x \in Inode : \A r \in Slot : entry[x][r].nr = n => x = d /\ r = s
  <1>1. /\ PlacesRight /\ j \in Job /\ n # 0 /\ n \in Inode /\ n \in imap /\ s \in Slot
        /\ entry[d][s].nr = n /\ j.dir = pwd[t] /\ j.keep = 0 /\ j.mem # 0
        /\ pc[t] = "load" /\ Fresh(t) /\ job[t].nr = n /\ j.call \in Creating
        /\ n # Root /\ Alone(t, j.call, n, d)
    BY Sizes DEF Takes, ViewInv, OnInode, InDir, Inode, Alike, Fresh
  <1>2. d \in Inode /\ Dir(j) = d
    BY <1>1, NumbersRight DEF Dir
  <1>3. Pending(n)
    BY <1>1 DEF Pending
  <1>4. \A u \in Task \ {t} : Target(u) # n
    BY <1>1 DEF Alone, Reading, Creating, Adding
  <1>5. \A u \in Task : Live(Home(u)) /\ kind[Home(u)] = "dir"
    BY DEF NamesInv, TaskNames
  <1>6. \A u \in Task : Home(u) # n
    BY <1>3, <1>5 DEF Live
  <1>7. \A r \in Slot : entry[n][r].nr = 0
    BY <1>1, <1>3 DEF NamesInv, EntriesRight, Live
  <1>8. ASSUME NEW x \in Inode, NEW r \in Slot, entry[x][r].nr = n
        PROVE  x = d /\ r = s
    <2>1. /\ entry[x][r].nr # 0 /\ entry[x][r].nr = entry[d][s].nr
          /\ kind[entry[x][r].nr] = "dir" \/ Pending(entry[x][r].nr)
      BY <1>1, <1>3, <1>8 DEF Pending
    <2> QED
      BY <1>1, <1>2, <2>1 DEF NamesInv, EntriesRight
  <1> QED
    BY <1>1, <1>2, <1>3, <1>4, <1>5, <1>6, <1>7, <1>8

LEMMA GotNewFile ==
    ASSUME TypeOK, HeldRight, ViewInv, NamesInv, NEW t \in Task, NEW j, NEW n, NEW count,
           \A u \in Task : Shape(pwd[u], fd[u], pc[u], job[u]),
           Takes(t, j, n, count), j.nr # 0, Views(t), Numbers(t, n), NewFile(t, j, n)
    PROVE  NamesInv'
  <1>0. PICK d, s : d = Home(t) /\ s = j.slot
    OBVIOUS
  <1>1. /\ PlacesRight /\ j \in Job /\ n # 0 /\ n \in Inode /\ n \in imap /\ s \in Slot
        /\ entry[d][s].nr = n /\ j.dir = pwd[t] /\ j.keep = 0 /\ j.mem # 0
        /\ pc[t] = "load" /\ Fresh(t) /\ job[t].nr = n /\ j.call \in Creating
        /\ d \in Inode /\ Dir(j) = d /\ d # n /\ Live(d) /\ kind[d] = "dir"
        /\ \A u \in Task \ {t} : Target(u) # n /\ Home(u) # n
        /\ n # Root /\ Pending(n)
        /\ \A r \in Slot : entry[n][r].nr = 0
        /\ \A x \in Inode : \A r \in Slot : entry[x][r].nr = n => x = d /\ r = s
    BY <1>0, GotNew
  <1>2. /\ nlinks' = [nlinks EXCEPT ![n] = 1]
        /\ \E k \in {"file", "device"} : kind' = [kind EXCEPT ![n] = k]
        /\ UNCHANGED <<imap, entry>>
        /\ \/ j.call = "creat" /\ At(t, "trunc", j) /\ UNCHANGED fileVars
           \/ Finish(t, j, 0)
    BY DEF NewFile
  <1>3. (pc'[t] = "trunc" /\ job'[t] = j /\ j.call = "creat") \/ Free(t)'
    <2>1. CASE j.call = "creat" /\ At(t, "trunc", j) /\ UNCHANGED fileVars
      BY <2>1, AtGoes DEF fileVars
    <2>2. CASE Finish(t, j, 0)
      BY <2>2, Finished
    <2> QED
      BY <1>2, <2>1, <2>2
  <1>4. ~Fresh(t)' /\ pc'[t] \in {"trunc", "user", "put"} /\ Home(t)' = d
    BY <1>0, <1>3 DEF Fresh, Free, Numbers
  <1>5. About(t, n)
    BY <1>0, <1>1, <1>4 DEF About
  <1>6. /\ \A x \in Inode \ {n} : nlinks'[x] = nlinks[x] /\ kind'[x] = kind[x]
        /\ nlinks'[n] = 1 /\ kind'[n] # "dir"
    BY <1>1, <1>2 DEF TypeOK
  <1>7. Changes(t, n, d, s)
    BY <1>1, <1>2, <1>6 DEF Changes
  <1>8. ~Pending(n)' /\ (\A x : x # n => (Pending(x)' <=> Pending(x)))
    <2>1. Seen(t)
      BY DEF Views
    <2> QED
      BY <1>1, <1>4, <1>5, <2>1, PendingNext
  <1>9. ~IsDir(n)' /\ ~IsDir(n)
    BY <1>1, <1>6 DEF IsDir
  <1>10. Sound(n, d)
    BY <1>1, <1>2, <1>6, <1>8, <1>9 DEF Sound
  <1>11. Links(n)'
    <2>1. Pointing(n)' = {<<d, s>>}
      BY <1>1, <1>2 DEF Pointing
    <2>2. Cardinality({<<d, s>>}) = 1
      BY FS_Singleton
    <2> QED
      BY <1>6, <2>1, <2>2 DEF Links
  <1>12. Below(d)' = Below(d)
    <2>1. ASSUME NEW r \in Slot
          PROVE  r \in Below(d)' <=> r \in Below(d)
      <3>1. PICK c : c = entry[d][r].nr /\ c = entry'[d][r].nr
        BY <1>2
      <3>2. c \in Inode \cup {0}
        <4>1. entry[d][r].nr \in 0 .. NInode
          BY <1>1 DEF TypeOK
        <4> QED
          BY <3>1, <4>1, Sizes DEF Inode
      <3>3. c # 0 => (IsDir(c)' <=> IsDir(c))
        BY <1>6, <1>8, <1>9, <3>2 DEF IsDir
      <3>4. r \in Below(d)' <=> c # 0 /\ IsDir(c)'
        BY <3>1, BelowNext
      <3> QED
        BY <3>1, <3>3, <3>4 DEF Below
    <2> QED
      BY <2>1 DEF Below
  <1>13. Links(d)'
    <2>1. Links(d)
      BY <1>1 DEF NamesInv
    <2> QED
      BY <1>1, <1>6, <1>12, <2>1 DEF Links
  <1>14. TaskNames(t)'
    <2>1. Live(d)'
      BY <1>1, <1>2, <1>8 DEF Live
    <2>2. Live(Home(t))' /\ kind'[Home(t)'] = "dir"
      BY <1>1, <1>4, <1>6, <2>1 DEF Live, Pending, Fresh
    <2>3. CASE pc'[t] = "trunc" /\ job'[t] = j /\ j.call = "creat"
      <3>1. Target(t)' = n
        BY <2>3 DEF Free, Numbers
      <3> QED
        BY <1>1, <1>2, <2>2, <2>3, <3>1 DEF TaskNames, Leaves, Removing, Unlinked
    <2>4. CASE Free(t)'
      BY <2>2, <2>4, EndedNames DEF Numbers
    <2> QED
      BY <1>3, <2>3, <2>4
  <1>15. Seen(t) /\ \A x : Opens(x)' => Opens(x)
    BY DEF Views, Numbers
  <1> QED
    BY <1>1, <1>5, <1>7, <1>10, <1>11, <1>13, <1>14, <1>15, NamesNext

LEMMA GotNewDirectory ==
    ASSUME TypeOK, HeldRight, ViewInv, NamesInv, NEW t \in Task, NEW j, NEW n, NEW count, NSlot <= 253,
           \A u \in Task : Shape(pwd[u], fd[u], pc[u], job[u]),
           Takes(t, j, n, count), j.nr # 0, Views(t), Numbers(t, n), NewDirectory(t, j, n)
    PROVE  NamesInv'
  <1>0. PICK d, s : d = Home(t) /\ s = j.slot
    OBVIOUS
  <1>1. /\ PlacesRight /\ j \in Job /\ n # 0 /\ n \in Inode /\ n \in imap /\ s \in Slot
        /\ entry[d][s].nr = n /\ j.dir = pwd[t] /\ j.keep = 0 /\ j.mem # 0
        /\ pc[t] = "load" /\ Fresh(t) /\ job[t].nr = n /\ j.call \in Creating
        /\ d \in Inode /\ Dir(j) = d /\ d # n /\ Live(d) /\ kind[d] = "dir"
        /\ \A u \in Task \ {t} : Target(u) # n /\ Home(u) # n
        /\ n # Root /\ Pending(n)
        /\ \A r \in Slot : entry[n][r].nr = 0
        /\ \A x \in Inode : \A r \in Slot : entry[x][r].nr = n => x = d /\ r = s
    BY <1>0, GotNew
  <1>2. /\ nlinks' = [[nlinks EXCEPT ![n] = 2] EXCEPT ![d] = (@ + 1) % 256]
        /\ kind' = [kind EXCEPT ![n] = "dir"]
        /\ entry' = [entry EXCEPT ![n] = [r \in Slot |-> NoEntry]]
        /\ UNCHANGED imap
        /\ \/ Balloc(t, j, 1) /\ UNCHANGED fileVars
           \/ Finish(t, j, 0)
        /\ j.call = "mkdir"
    BY <1>1 DEF NewDirectory
  <1>3. \/ /\ pc'[t] = "block" /\ Alike(job'[t], j)
        \/ Free(t)'
    <2>1. CASE Balloc(t, j, 1) /\ UNCHANGED fileVars
      <3> DEFINE k == [j EXCEPT !.index = 1, !.block = Least(Block \ zmap)]
      <3>1. At(t, "block", k)
        BY <2>1 DEF Balloc
      <3>2. Alike(k, j)
        BY <1>1 DEF Alike, Job
      <3> HIDE DEF k
      <3>3. pc'[t] = "block" /\ job'[t] = k
        BY <2>1, <3>1, AtGoes DEF fileVars
      <3> QED
        BY <3>2, <3>3
    <2>2. CASE Finish(t, j, 0)
      BY <2>2, Finished
    <2> QED
      BY <1>2, <2>1, <2>2
  <1>4. ~Fresh(t)' /\ pc'[t] \in {"block", "user", "put"} /\ Home(t)' = d
    BY <1>0, <1>3 DEF Fresh, Free, Numbers
  <1>5. About(t, n)
    BY <1>0, <1>1, <1>4 DEF About
  <1>6. /\ \A x \in Inode \ {n} : kind'[x] = kind[x] /\ (x # d => nlinks'[x] = nlinks[x])
        /\ nlinks'[n] = 2 /\ kind'[n] = "dir" /\ nlinks'[d] = (nlinks[d] + 1) % 256
    <2>0. [nlinks EXCEPT ![n] = 2] \in [Inode -> 0 .. 255]
      <3>1. nlinks \in [Inode -> 0 .. 255] /\ 2 \in 0 .. 255
        BY DEF TypeOK
      <3> QED
        BY <3>1
    <2>1. PICK N \in [Inode -> 0 .. 255] : N = [nlinks EXCEPT ![n] = 2]
      BY <2>0
    <2>2. nlinks' = [N EXCEPT ![d] = (N[d] + 1) % 256]
      BY <1>2, <2>1
    <2>3. \A x \in Inode : N[x] = IF x = n THEN 2 ELSE nlinks[x]
      BY <2>1 DEF TypeOK
    <2>4. \A x \in Inode : nlinks'[x] = IF x = d THEN (N[x] + 1) % 256 ELSE N[x]
      BY <2>1, <2>2
    <2>5. \A x \in Inode : kind'[x] = IF x = n THEN "dir" ELSE kind[x]
      BY <1>2 DEF TypeOK
    <2> QED
      BY <1>1, <2>3, <2>4, <2>5
  <1>7. \A x \in Inode : \A r \in Slot : entry'[x][r] = IF x = n THEN NoEntry ELSE entry[x][r]
    <2>1. \A x \in Inode : entry'[x] = IF x = n THEN [r \in Slot |-> NoEntry] ELSE entry[x]
      BY <1>2 DEF TypeOK
    <2> QED
      BY <2>1
  <1>8. Changes(t, n, d, s)
    <2>1. \A x \in Inode : \A r \in Slot :
              entry'[x][r] = entry[x][r] \/ (entry'[x][r].nr = 0 /\ entry[x][r].nr = 0)
      BY <1>1, <1>7 DEF NoEntry
    <2>2. entry'[d][s] = entry[d][s]
      BY <1>1, <1>7
    <2>3. \A x \in Inode \ {n} : x \in imap' <=> x \in imap
      BY <1>1, <1>2
    <2>4. d \in Inode /\ d # n /\ kind[d] = "dir"
      BY <1>1
    <2>5. s \in Slot => {entry[d][s].nr, entry'[d][s].nr} \subseteq {0, n}
      BY <1>1, <2>2
    <2> QED
      BY <1>6, <2>1, <2>3, <2>4, <2>5 DEF Changes
  <1>9. ~Pending(n)' /\ (\A x : x # n => (Pending(x)' <=> Pending(x)))
    <2>1. Seen(t)
      BY DEF Views
    <2> QED
      BY <1>1, <1>4, <1>5, <2>1, PendingNext
  <1>10. IsDir(n)' /\ ~IsDir(n)
    BY <1>1, <1>6, <1>9 DEF IsDir
  <1>11. \A x \in Inode : \A r \in Slot : entry'[x][r].nr = n => x = d /\ r = s
    BY <1>1, <1>7 DEF NoEntry
  <1>12. Sound(n, d)
    BY <1>1, <1>2, <1>11 DEF Sound
  <1>13. Links(n)'
    <2>1. Below(n)' = {}
      <3>1. ASSUME NEW r \in Slot PROVE r \notin Below(n)'
        <4>1. entry'[n][r].nr = 0
          BY <1>1, <1>7 DEF NoEntry
        <4> QED
          BY <4>1, BelowNext
      <3> QED
        BY <3>1 DEF Below
    <2>2. Cardinality(Below(n)') = 0
      BY <2>1, FS_EmptySet
    <2> QED
      BY <1>6, <2>2 DEF Links
  <1>14. Below(d)' = Below(d) \cup {s} /\ s \notin Below(d)
    <2>1. ASSUME NEW r \in Slot
          PROVE  r \in Below(d)' <=> r \in Below(d) \cup {s}
      <3>1. PICK c : c = entry[d][r].nr /\ c = entry'[d][r].nr
        BY <1>1, <1>7
      <3>2. c \in Inode \cup {0}
        <4>1. entry[d][r].nr \in 0 .. NInode
          BY <1>1 DEF TypeOK
        <4> QED
          BY <3>1, <4>1, Sizes DEF Inode
      <3>3. r \in Below(d)' <=> c # 0 /\ IsDir(c)'
        BY <3>1, BelowNext
      <3>4. CASE c = n
        BY <1>1, <1>10, <3>1, <3>3, <3>4
      <3>5. CASE c # n
        <4>1. r # s
          BY <1>1, <3>1, <3>5
        <4>2. c # 0 => (IsDir(c)' <=> IsDir(c))
          BY <1>6, <1>9, <3>2, <3>5 DEF IsDir
        <4> QED
          BY <3>1, <3>3, <4>1, <4>2 DEF Below
      <3> QED
        BY <3>4, <3>5
    <2>2. s \notin Below(d)
      BY <1>1, <1>10 DEF Below
    <2> QED
      BY <1>1, <2>1, <2>2 DEF Below
  <1>15. Links(d)'
    <2>1. Links(d)
      BY <1>1 DEF NamesInv
    <2>2. nlinks[d] = 2 + Cardinality(Below(d))
      BY <1>1, <2>1 DEF Links
    <2>3. IsFiniteSet(Below(d)) /\ Cardinality(Below(d)) \in Nat
      BY Limits DEF Below
    <2>4. Cardinality(Below(d)') = Cardinality(Below(d)) + 1
      BY <1>14, <2>3, OneMore
    <2>5. Cardinality(Below(d)') <= NSlot
      <3>1. Below(d)' \in SUBSET Slot
        BY DEF Below
      <3> QED
        BY <3>1, Limits
    <2>6. nlinks'[d] = 2 + Cardinality(Below(d)')
      BY <1>6, <2>2, <2>3, <2>4, <2>5, Sizes
    <2> QED
      BY <1>1, <1>6, <2>6 DEF Links
  <1>16. TaskNames(t)'
    <2>1. Live(d)'
      BY <1>1, <1>2, <1>9 DEF Live
    <2>2. Live(Home(t))' /\ kind'[Home(t)'] = "dir"
      BY <1>1, <1>4, <1>6, <2>1 DEF Live, Pending, Fresh
    <2>3. CASE pc'[t] = "block" /\ Alike(job'[t], j)
      <3>1. Target(t)' = n
        BY <2>3 DEF Free, Numbers
      <3> QED
        BY <1>1, <1>2, <2>2, <2>3, <3>1 DEF TaskNames, Leaves, Removing, Unlinked, Alike
    <2>4. CASE Free(t)'
      BY <2>2, <2>4, EndedNames DEF Numbers
    <2> QED
      BY <1>3, <2>3, <2>4
  <1>17. Seen(t) /\ \A x : Opens(x)' => Opens(x)
    BY DEF Views, Numbers
  <1> QED
    BY <1>1, <1>5, <1>8, <1>12, <1>13, <1>15, <1>16, <1>17, NamesNext

LEMMA GotNames ==
    ASSUME TypeOK, HeldRight, ViewInv, NamesInv, NEW t \in Task, NEW j, NEW n, NEW count, NSlot <= 253,
           \A u \in Task : Shape(pwd[u], fd[u], pc[u], job[u]),
           Takes(t, j, n, count), Views(t), Numbers(t, n), Got(t, j, n, count)
    PROVE  NamesInv'
  <1>1. j.mem \in Mem /\ j.dir # 0 /\ j.held = <<j.mem, j.dir>> /\ j.mem # 0 /\ j.keep = 0 /\ j \in Job
    BY DEF Takes, OnInode, InDir, Job
  <1>2. CASE j.nr # 0
    <2>1. CASE NewFile(t, j, n)
      BY <1>2, <2>1, GotNewFile
    <2>2. CASE NewDirectory(t, j, n)
      BY <1>2, <2>2, GotNewDirectory
    <2> QED
      BY <1>2, <2>1, <2>2 DEF Got
  <1>3. CASE j.nr = 0
    <2>1. CASE Abort(t, j)
      BY <1>3, <2>1, GotQuiet DEF Abort
    <2>2. CASE OpenFound(t, j, n)
      BY <1>3, <2>2, GotQuiet DEF OpenFound
    <2>3. CASE CreatFound(t, j, n) /\ ~Abort(t, j)
      BY <1>3, <2>3, GotQuiet DEF CreatFound
    <2>4. CASE Chdir(t, j, n) /\ ~Abort(t, j)
      <3>1. Keeps(t, "chdir", j.mem)'
        <4> DEFINE k == [NoJob EXCEPT !.call = "chdir", !.keep = j.mem, !.held = <<j.dir, pwd[t]>>]
        <4>1. Resume(t, k, file)
          BY <2>4 DEF Chdir
        <4>2. /\ k.call = "chdir" /\ k.mem = 0 /\ k.nr = 0 /\ k.dir = 0 /\ k.keep = j.mem
              /\ k.held = <<j.dir, pwd[t]>>
          BY DEF NoJob
        <4> HIDE DEF k
        <4>3. k.held # << >>
          BY <4>2
        <4>4. At(t, "put", k) /\ UNCHANGED fileVars
          BY <4>1, <4>3 DEF Resume, fileVars
        <4>5. pc'[t] = "put" /\ job'[t] = k
          BY <4>4, AtGoes DEF fileVars
        <4> QED
          BY <4>2, <4>5 DEF Keeps
      <3> QED
        BY <1>3, <2>4, <3>1, GotQuiet DEF Chdir
    <2>5. CASE Rmdir(t, j, n, count) /\ ~Abort(t, j)
      BY <1>3, <2>5, GotQuiet DEF Rmdir
    <2>6. CASE Unlink(t, j, n) /\ ~Abort(t, j)
      BY <1>3, <2>6, GotUnlink DEF Unlink
    <2>7. CASE LinkFound(t, j, n) /\ ~Abort(t, j)
      BY <1>3, <2>7, GotQuiet DEF LinkFound
    <2> QED
      BY <1>3, <2>1, <2>2, <2>3, <2>4, <2>5, <2>6, <2>7 DEF Got
  <1> QED
    BY <1>2, <1>3
-----------------------------------------------------------------------------
\* The blocks of files and directories.  Block b is that of index i of inode n,
\* unless inode_truncate is freeing it; or it is given to task t, which has not
\* set it in its inode yet.
Freeing(n, i) == \E t \in Task : pc[t] = "freed" /\ job[t].index = i /\ Target(t) = n
Owns(n, i, b) == n \in imap /\ kind[n] # "device" /\ b # 0 /\ zone[n][i] = b /\ ~Freeing(n, i)
Given(t, b) == pc[t] = "block" /\ job[t].block = b

ZonesRight == \A n \in Inode : ~Live(n) => \A i \in Index : zone[n][i] = 0

BlocksInv ==
    /\ ZonesRight
    /\ \A n \in Inode : \A i \in Index : \A b : Owns(n, i, b) => b \in zmap
    /\ \A n, o \in Inode : \A i, k \in Index : \A b : Owns(n, i, b) /\ Owns(o, k, b) => n = o /\ i = k
    /\ \A b \in zmap : \/ \E n \in Inode : \E i \in Index : Owns(n, i, b)
                       \/ \E t \in Task : Given(t, b)
    /\ \A t \in Task : \A b : Given(t, b) => b \in zmap
    /\ \A t \in Task : \A b : Given(t, b) => \A n \in Inode : \A i \in Index : ~Owns(n, i, b)
    /\ \A t, u \in Task : \A b : Given(t, b) /\ Given(u, b) => t = u
    /\ \A t \in Task : pc[t] = "block" => zone[Target(t)][job[t].index] = 0 /\ kind[Target(t)] # "device"

\* The step of task t changes no inode but n, which no other call frees or gives
\* a block.
Touches(t, n) ==
    /\ OthersSame(t) /\ \A u \in Task \ {t} : Target(u)' = Target(u)
    /\ \A u \in Task \ {t} : pc[u] \in {"freed", "block"} => Target(u) # n
    /\ \A x \in Inode \ {n} : /\ x \in imap' <=> x \in imap
                              /\ kind'[x] = kind[x] /\ zone'[x] = zone[x]
                              /\ Live(x)' <=> Live(x)
    /\ pc[t] = "freed" => Target(t) = n
    /\ pc'[t] = "freed" => Target(t)' = n
    /\ n \in Inode /\ ~Live(n)' => \A i \in Index : zone'[n][i] = 0

LEMMA OwnsNext ==
    ASSUME NEW t \in Task, NEW n, Touches(t, n)
    PROVE  /\ \A x \in Inode \ {n} : \A i \in Index : \A b : Owns(x, i, b)' <=> Owns(x, i, b)
           /\ \A u \in Task \ {t} : \A b : Given(u, b)' <=> Given(u, b)
  <1>1. ASSUME NEW x \in Inode \ {n}, NEW i \in Index, NEW b PROVE Owns(x, i, b)' <=> Owns(x, i, b)
    <2>1. Freeing(x, i)' <=> Freeing(x, i)
      <3>1. \A u \in Task : pc'[u] = "freed" /\ job'[u].index = i /\ Target(u)' = x
                            <=> pc[u] = "freed" /\ job[u].index = i /\ Target(u) = x
        BY DEF Touches, OthersSame
      <3> QED
        BY <3>1 DEF Freeing
    <2> QED
      BY <2>1 DEF Owns, Touches
  <1>2. \A u \in Task \ {t} : \A b : Given(u, b)' <=> Given(u, b)
    BY DEF Touches, OthersSame, Given
  <1> QED
    BY <1>1, <1>2

LEMMA BlocksFrame ==
    ASSUME HeldRight, PlacesRight, BlocksInv, NEW t \in Task, NEW n, Touches(t, n),
           \A u \in Task : Shape(pwd[u], fd[u], pc[u], job[u])
    PROVE  /\ ZonesRight'
           /\ \A u \in Task \ {t} : pc'[u] = "block" =>
                  zone'[Target(u)'][job'[u].index] = 0 /\ kind'[Target(u)'] # "device"
  <1>1. ZonesRight'
    BY DEF Touches, ZonesRight, BlocksInv
  <1>2. ASSUME NEW u \in Task \ {t}, pc'[u] = "block"
        PROVE  zone'[Target(u)'][job'[u].index] = 0 /\ kind'[Target(u)'] # "device"
    <2>1. pc[u] = "block" /\ job'[u] = job[u] /\ Target(u)' = Target(u) /\ Target(u) # n
      BY <1>2 DEF Touches, OthersSame
    <2>2. zone[Target(u)][job[u].index] = 0 /\ kind[Target(u)] # "device"
      BY <2>1 DEF BlocksInv
    <2>3. Target(u) \in Inode
      <3>1. job[u].mem # 0
        BY <2>1 DEF Shape
      <3>2. NumberFacts(u)
        BY NumbersAre
      <3> QED
        BY <3>1, <3>2 DEF NumberFacts
    <2> QED
      BY <2>1, <2>2, <2>3 DEF Touches
  <1> QED
    BY <1>1, <1>2

\* The four ways in which a step changes the blocks.
LEMMA BlocksStay ==
    ASSUME HeldRight, PlacesRight, BlocksInv, NEW t \in Task, NEW n, Touches(t, n), zmap' = zmap,
           \A u \in Task : Shape(pwd[u], fd[u], pc[u], job[u]),
           n \in Inode => \A i \in Index : \A b : Owns(n, i, b)' <=> Owns(n, i, b),
           pc[t] # "block", pc'[t] # "block"
    PROVE  BlocksInv'
  <1>1. \A x \in Inode : \A i \in Index : \A b : Owns(x, i, b)' <=> Owns(x, i, b)
    BY OwnsNext
  <1>2. \A u \in Task : \A b : Given(u, b)' <=> Given(u, b)
    BY OwnsNext DEF Given
  <1>3. /\ ZonesRight'
        /\ \A u \in Task : pc'[u] = "block" => zone'[Target(u)'][job'[u].index] = 0 /\ kind'[Target(u)'] # "device"
    BY BlocksFrame
  <1> QED
    BY <1>1, <1>2, <1>3 DEF BlocksInv

\* bfree: block b of index i is freed.
LEMMA BlockFreed ==
    ASSUME HeldRight, PlacesRight, BlocksInv, NEW t \in Task, NEW n \in Inode, Touches(t, n),
           \A u \in Task : Shape(pwd[u], fd[u], pc[u], job[u]),
           NEW i \in Index, NEW b, Owns(n, i, b), zmap' = zmap \ {b},
           \A k \in Index : \A c : Owns(n, k, c)' <=> Owns(n, k, c) /\ k # i,
           pc[t] # "block", pc'[t] # "block"
    PROVE  BlocksInv'
  <1>1. \A x \in Inode : \A k \in Index : \A c : Owns(x, k, c)' <=> Owns(x, k, c) /\ ~(x = n /\ k = i)
    BY OwnsNext
  <1>2. \A u \in Task : \A c : Given(u, c)' <=> Given(u, c)
    BY OwnsNext DEF Given
  <1>3. /\ ZonesRight'
        /\ \A u \in Task : pc'[u] = "block" => zone'[Target(u)'][job'[u].index] = 0 /\ kind'[Target(u)'] # "device"
    BY BlocksFrame
  <1>4. \A x \in Inode : \A k \in Index : \A c : Owns(x, k, c)' => c \in zmap' /\ c # b
    BY <1>1 DEF BlocksInv
  <1>5. ASSUME NEW c \in zmap'
        PROVE  \/ \E x \in Inode : \E k \in Index : Owns(x, k, c)'
               \/ \E u \in Task : Given(u, c)'
    <2>1. c \in zmap /\ c # b
      OBVIOUS
    <2>2. \A k \in Index : ~(Owns(n, i, c))
      BY <2>1 DEF Owns
    <2> QED
      BY <1>1, <1>2, <2>1, <2>2 DEF BlocksInv
  <1>6. \A u \in Task : \A c : Given(u, c)' => c # b /\ c \in zmap'
    BY <1>2 DEF BlocksInv
  <1> QED
    BY <1>1, <1>2, <1>3, <1>4, <1>5, <1>6 DEF BlocksInv

\* balloc: block b is given to the call of task t.
LEMMA BlockGiven ==
    ASSUME HeldRight, PlacesRight, BlocksInv, NEW t \in Task, NEW n \in Inode, Touches(t, n),
           \A u \in Task : Shape(pwd[u], fd[u], pc[u], job[u]),
           NEW b, b \notin zmap, zmap' = zmap \cup {b},
           \A k \in Index : \A c : Owns(n, k, c)' <=> Owns(n, k, c),
           pc[t] # "block", pc'[t] = "block", job'[t].block = b,
           zone'[Target(t)'][job'[t].index] = 0, kind'[Target(t)'] # "device"
    PROVE  BlocksInv'
  <1>1. \A x \in Inode : \A k \in Index : \A c : Owns(x, k, c)' <=> Owns(x, k, c)
    BY OwnsNext
  <1>2. \A u \in Task : \A c : Given(u, c)' <=> Given(u, c) \/ (u = t /\ c = b)
    BY OwnsNext DEF Given
  <1>3. /\ ZonesRight'
        /\ \A u \in Task : pc'[u] = "block" => zone'[Target(u)'][job'[u].index] = 0 /\ kind'[Target(u)'] # "device"
    BY BlocksFrame
  <1>4. \A u \in Task : \A c : Given(u, c)' => c \in zmap' /\ (c = b => u = t)
    BY <1>2 DEF BlocksInv
  <1>5. \A x \in Inode : \A k \in Index : \A c : Owns(x, k, c)' => c \in zmap /\ c # b
    BY <1>1 DEF BlocksInv
  <1>6. ASSUME NEW c \in zmap'
        PROVE  \/ \E x \in Inode : \E k \in Index : Owns(x, k, c)'
               \/ \E u \in Task : Given(u, c)'
    BY <1>1, <1>2 DEF BlocksInv
  <1>7. \A u, v \in Task : \A c : Given(u, c)' /\ Given(v, c)' => u = v
    BY <1>2, <1>4 DEF BlocksInv
  <1>8. \A u \in Task : \A c : Given(u, c)' => \A x \in Inode : \A k \in Index : ~(Owns(x, k, c)')
    BY <1>1, <1>2, <1>5 DEF BlocksInv
  <1> QED
    BY <1>1, <1>3, <1>4, <1>5, <1>6, <1>7, <1>8 DEF BlocksInv

\* bmap: the block that task t was given is set in its inode.
LEMMA BlockSet ==
    ASSUME HeldRight, PlacesRight, BlocksInv, NEW t \in Task, NEW n \in Inode, Touches(t, n),
           \A u \in Task : Shape(pwd[u], fd[u], pc[u], job[u]),
           NEW i \in Index, NEW b, Given(t, b), zmap' = zmap,
           \A k \in Index : \A c : Owns(n, k, c)' <=> (IF k = i THEN c = b ELSE Owns(n, k, c)),
           \A c : ~Owns(n, i, c),
           pc'[t] # "block"
    PROVE  BlocksInv'
  <1>1. \A x \in Inode : \A k \in Index : \A c :
            Owns(x, k, c)' <=> Owns(x, k, c) \/ (x = n /\ k = i /\ c = b)
    BY OwnsNext
  <1>2. \A u \in Task : \A c : Given(u, c)' <=> Given(u, c) /\ u # t
    BY OwnsNext DEF Given
  <1>3. /\ ZonesRight'
        /\ \A u \in Task : pc'[u] = "block" => zone'[Target(u)'][job'[u].index] = 0 /\ kind'[Target(u)'] # "device"
    BY BlocksFrame
  <1>4. b \in zmap /\ (\A x \in Inode : \A k \in Index : ~Owns(x, k, b))
        /\ \A u \in Task : Given(u, b) => u = t
    BY DEF BlocksInv
  <1>5. \A c : Given(t, c) => c = b
    BY DEF Given
  <1>6. ASSUME NEW c \in zmap'
        PROVE  \/ \E x \in Inode : \E k \in Index : Owns(x, k, c)'
               \/ \E u \in Task : Given(u, c)'
    BY <1>1, <1>2, <1>5 DEF BlocksInv
  <1>7. \A x \in Inode : \A k \in Index : \A c : Owns(x, k, c)' => c \in zmap'
    BY <1>1, <1>4 DEF BlocksInv
  <1>8. \A x, y \in Inode : \A k, l \in Index : \A c : Owns(x, k, c)' /\ Owns(y, l, c)' => x = y /\ k = l
    BY <1>1, <1>4 DEF BlocksInv
  <1>9. \A u \in Task : \A c : Given(u, c)' => \A x \in Inode : \A k \in Index : ~(Owns(x, k, c)')
    BY <1>1, <1>2, <1>4 DEF BlocksInv
  <1>10. /\ \A u \in Task : \A c : Given(u, c)' => c \in zmap'
         /\ \A u, v \in Task : \A c : Given(u, c)' /\ Given(v, c)' => u = v
    BY <1>2 DEF BlocksInv
  <1> QED
    BY <1>3, <1>6, <1>7, <1>8, <1>9, <1>10 DEF BlocksInv

\* A step that changes nothing of the blocks.
LEMMA BlocksQuiet ==
    ASSUME HeldRight, PlacesRight, BlocksInv, NEW t \in Task, Seen(t),
           \A u \in Task : Shape(pwd[u], fd[u], pc[u], job[u]),
           UNCHANGED <<imap, zmap, kind, zone>>, \A x : Pending(x)' <=> Pending(x),
           pc[t] \notin {"freed", "block"}, pc'[t] \notin {"freed", "block"}
    PROVE  BlocksInv'
  <1>1. ASSUME NEW u \in Task, pc[u] \in {"freed", "block"} PROVE Target(u) # 0
    <2>1. job[u].mem # 0
      BY <1>1 DEF Shape, OnInode
    <2> QED
      BY <2>1, NumbersRight
  <1>2. 0 \notin Inode
    BY Sizes DEF Inode
  <1>3. Touches(t, 0)
    BY <1>1, <1>2 DEF Touches, Seen, Live
  <1> QED
    BY <1>2, <1>3, BlocksStay

LEMMA GotBlocks ==
    ASSUME TypeOK, HeldRight, ViewInv, NamesInv, BlocksInv, NEW t \in Task, NEW j, NEW n, NEW count,
           \A u \in Task : Shape(pwd[u], fd[u], pc[u], job[u]),
           Takes(t, j, n, count), Views(t), Numbers(t, n), Got(t, j, n, count)
    PROVE  BlocksInv'
  <1>1. /\ PlacesRight /\ Seen(t) /\ j \in Job /\ OnInode(pwd[t], j) /\ j.keep = 0 /\ n \in Inode
        /\ pc[t] \in {"user", "load"}
    BY DEF Takes, ViewInv, Views, OnInode, InDir
  <1>2. /\ After(t, j) /\ pc'[t] \in {"user", "put", "trunc", "empty", "linkto", "block"}
        /\ j.nr = 0 => pc'[t] # "block"
    BY <1>1, GotAfter
  <1>3. CASE j.nr = 0
    <2>1. UNCHANGED <<imap, zmap, kind, zone>>
      BY <1>3 DEF Got, OpenFound, CreatFound, Chdir, Rmdir, Unlink, LinkFound, Abort, diskVars
    <2>2. ~Fresh(t) /\ ~Fresh(t)' /\ pc[t] # "ifreed" /\ pc'[t] # "ifreed"
      BY <1>2, <1>3 DEF Takes, Fresh, Alike
    <2>3. OthersSame(t) /\ \A u \in Task \ {t} : Target(u)' = Target(u)
      BY <1>1 DEF Seen
    <2>4. \A x : Pending(x)' <=> Pending(x)
      BY <2>2, <2>3, PendingStays
    <2> QED
      BY <1>1, <1>2, <1>3, <2>1, <2>4, BlocksQuiet
  <1>4. CASE j.nr # 0
    <2>0. PICK d, s : d = Home(t) /\ s = j.slot
      OBVIOUS
    <2>1. /\ n # 0 /\ n \in imap /\ pc[t] = "load" /\ Fresh(t) /\ job[t].nr = n
          /\ \A u \in Task \ {t} : Target(u) # n /\ Home(u) # n
          /\ n # Root /\ Pending(n) /\ d # n
      BY <1>4, <2>0, GotNew
    <2>2. About(t, n)
      BY <1>2, <2>0, <2>1 DEF About, Numbers, Fresh
    <2>3. (\A x : x # n => (Pending(x)' <=> Pending(x))) /\ ~Pending(n)'
      BY <1>1, <1>2, <2>1, <2>2, PendingNext DEF Fresh
    <2>4. \A i \in Index : zone[n][i] = 0
      BY <1>1, <2>1 DEF BlocksInv, ZonesRight, Live
    <2>5. UNCHANGED imap /\ \A x \in Inode \ {n} : kind'[x] = kind[x] /\ zone'[x] = zone[x]
      BY <1>1, <1>4 DEF Got, NewFile, NewDirectory, TypeOK
    <2>6. Touches(t, n)
      BY <1>1, <1>2, <2>1, <2>3, <2>5 DEF Touches, Seen, Live
    <2>7. CASE NewFile(t, j, n)
      <3>1. \A i \in Index : \A b : ~Owns(n, i, b)
        BY <2>4 DEF Owns
      <3>2. \A i \in Index : \A b : ~(Owns(n, i, b)')
        <4>1. CASE j.call = "creat"
          BY <2>4, <2>7, <4>1 DEF NewFile, Owns
        <4>2. CASE j.call # "creat"
          BY <1>1, <2>7, <4>2 DEF NewFile, Owns, TypeOK
        <4> QED
          BY <4>1, <4>2
      <3>3. zmap' = zmap
        BY <2>7 DEF NewFile
      <3>4. pc'[t] # "block"
        <4>1. CASE Finish(t, j, 0)
          BY <4>1, Finished DEF Free
        <4>2. CASE At(t, "trunc", j) /\ UNCHANGED fileVars
          BY <4>2, AtGoes DEF fileVars
        <4> QED
          BY <2>7, <4>1, <4>2 DEF NewFile
      <3> QED
        BY <1>1, <2>1, <2>6, <3>1, <3>2, <3>3, <3>4, BlocksStay
    <2>8. CASE NewDirectory(t, j, n)
      <3>1. Balloc(t, j, 1) /\ UNCHANGED fileVars /\ UNCHANGED zone /\ kind'[n] = "dir"
        <4>1. 1 \in Index
          BY Sizes DEF Index
        <4> QED
          BY <1>1, <2>4, <2>8, <4>1 DEF NewDirectory, TypeOK
      <3>2. PICK b : b = Least(Block \ zmap)
        OBVIOUS
      <3>3. b \notin zmap /\ zmap' = zmap \cup {b} /\ At(t, "block", [j EXCEPT !.index = 1, !.block = b])
        BY <3>1, <3>2, FreeBlockFound DEF Balloc
      <3> DEFINE k == [j EXCEPT !.index = 1, !.block = b]
      <3>4. k.index = 1 /\ k.block = b
        BY <1>1 DEF Job
      <3> HIDE DEF k
      <3>5. pc'[t] = "block" /\ job'[t] = k
        BY <3>1, <3>3, AtGoes DEF fileVars, k
      <3>6. \A i \in Index : \A c : ~Owns(n, i, c) /\ ~(Owns(n, i, c)')
        BY <2>4, <3>1 DEF Owns
      <3>7. Target(t)' = n
        BY <3>5 DEF Numbers, Free
      <3>8. zone'[n][1] = 0
        BY <2>4, <3>1, Sizes DEF Index
      <3> QED
        BY <1>1, <2>1, <2>6, <3>1, <3>3, <3>4, <3>5, <3>6, <3>7, <3>8, BlockGiven
    <2> QED
      BY <1>4, <2>7, <2>8 DEF Got
  <1> QED
    BY <1>3, <1>4
-----------------------------------------------------------------------------
\* The invariant of the disk and of the table of inodes, when the callers take
\* no risks.
DiskInv == CountInv /\ ViewInv /\ NamesInv /\ BlocksInv

Kept == ViewInv' /\ NamesInv' /\ BlocksInv'

\* What a step starts from.
LEMMA Base ==
    ASSUME DiskInv, CountInv'
    PROVE  /\ TypeOK /\ HeldRight /\ HeldRight' /\ CountInv /\ ViewInv /\ NamesInv /\ BlocksInv
           /\ MemRight /\ PlacesRight /\ TableOK(inode) /\ inode \in [Mem -> InodeRecord]
           /\ \A u \in Task : Shape(pwd[u], fd[u], pc[u], job[u])
           /\ \A u \in Task : /\ NumberFacts(u) /\ PlaceRight(u) /\ TaskNames(u) /\ Unused(u)
                              /\ Alone(u, job[u].call, Target(u), In(u))
                              /\ job[u] \in Job /\ pwd[u] \in Mem
  <1>1. CountInv /\ ViewInv /\ NamesInv /\ BlocksInv /\ TypeOK /\ HeldRight /\ HeldRight'
    BY HeldIs, HeldNext DEF DiskInv, CountInv
  <1>2. MemRight /\ PlacesRight
    BY <1>1 DEF ViewInv
  <1>3. \A u \in Task : NumberFacts(u)
    BY <1>1, <1>2, NumbersAre
  <1>4. \A u \in Task : PlaceRight(u) /\ TaskNames(u) /\ Unused(u) /\ Alone(u, job[u].call, Target(u), In(u))
    BY <1>1, <1>2 DEF ViewInv, Apart, NamesInv, PlacesRight
  <1>5. TableOK(inode) /\ inode \in [Mem -> InodeRecord]
    BY <1>1, TableEq DEF CountInv, TypeOK
  <1>6. \A u \in Task : job[u] \in Job /\ pwd[u] \in Mem
    BY <1>1 DEF TypeOK
  <1>7. \A u \in Task : Shape(pwd[u], fd[u], pc[u], job[u])
    BY <1>1 DEF CountInv, JobsRight
  <1> QED
    BY <1>1, <1>2, <1>3, <1>4, <1>5, <1>6, <1>7

\* An inode that is counted once is no open file and no working directory.
LEMMA Unreferenced ==
    ASSUME CountInv, HeldRight, MemRight, PlacesRight, NEW t \in Task, pc[t] = "load",
           ~(inode[job[t].mem].count > 1), NEW n, n = Nr(job[t].mem), n # 0
    PROVE  ~Opens(n) /\ \A u \in Task : Home(u) # n
  <1>1. PICK m \in Mem : m = job[t].mem /\ inode[m].used /\ job[t].held = <<m, pwd[t]>>
    <2>1. OnInode(pwd[t], job[t]) /\ job[t] \in Job
      BY Parts DEF Shape
    <2>2. job[t].mem \in Mem /\ job[t].held = <<job[t].mem, pwd[t]>>
      BY <2>1 DEF OnInode, InDir, Job
    <2>3. inode[job[t].mem].used
      BY <2>1, <2>2 DEF HeldRight, OnInode
    <2> QED
      BY <2>2, <2>3
  <1>2. ~Other(t, m)
    <2>1. inode[m].count \in Nat /\ (Other(t, m) => inode[m].count > Occ(job[t].held, m))
      BY CountAbove DEF CountInv
    <2>2. Occ(job[t].held, m) >= 1
      BY <1>1, OccTwo DEF Ind
    <2>3. Occ(job[t].held, m) \in Nat
      BY CountAbove DEF CountInv
    <2> QED
      BY <1>1, <2>1, <2>2, <2>3
  <1>3. ASSUME NEW o, Good(o), Read(o), Nr(o) = n PROVE o = m
    <2>1. inode[o].used /\ o \in Mem
      BY <1>3 DEF HeldRight, Read
    <2> QED
      BY <1>1, <1>3, <2>1 DEF MemRight, Nr
  <1>4. ~Opens(n)
    BY <1>2, <1>3 DEF Opens, Other, PlacesRight, FilesGood, HeldRight
  <1>5. ASSUME NEW u \in Task, Home(u) = n PROVE FALSE
    <2>1. pwd[u] = m
      BY <1>3, <1>5 DEF Home, PlacesRight, PlaceRight, HeldRight
    <2>2. Leaves(job[u])
      BY <1>2, <2>1 DEF Other
    <2>3. pc[u] = "put"
      BY <2>2 DEF Leaves, HeldRight
    <2>4. Shape(pwd[u], fd[u], "put", job[u])
      BY <2>3, Parts
    <2>5. \E i \in DOMAIN job[u].held : job[u].held[i] = m
      BY <2>1, <2>2, <2>4 DEF Shape
    <2> QED
      BY <1>2, <2>3, <2>5 DEF Other
  <1> QED
    BY <1>4, <1>5

LEMMA LoadKeeps ==
    ASSUME DiskInv, CountInv', NEW t \in Task, Load(t), NSlot <= 253
    PROVE  Kept
  <1>1. /\ TypeOK /\ HeldRight /\ HeldRight' /\ CountInv /\ ViewInv /\ NamesInv /\ BlocksInv
        /\ MemRight /\ PlacesRight /\ inode \in [Mem -> InodeRecord]
        /\ \A u \in Task : Shape(pwd[u], fd[u], pc[u], job[u])
        /\ NumberFacts(t) /\ PlaceRight(t) /\ TaskNames(t) /\ Unused(t)
        /\ Alone(t, job[t].call, Target(t), In(t)) /\ job[t] \in Job
    BY Base
  <1>2. PICK j : j = job[t]
    OBVIOUS
  <1>3. PICK n : n = IF Desc(j.mem) = 0 THEN inode[j.mem].nr ELSE Desc(j.mem)
    OBVIOUS
  <1>4. /\ pc[t] = "load" /\ inode' = [inode EXCEPT ![j.mem].desc = n]
        /\ Got(t, j, n, inode[j.mem].count)
    BY <1>2, <1>3 DEF Load
  <1>5. /\ TableStep(0) /\ NewRight(t) /\ j.mem \in Mem /\ inode'[j.mem].desc = Nr(j.mem)
        /\ inode'[j.mem].nr = Nr(j.mem) /\ Nr(j.mem) # 0 /\ inode[j.mem].used
    BY <1>1, <1>2, <1>3, <1>4, TableLoads DEF Nr
  <1>6. n = Nr(j.mem) /\ n = Target(t)
    <2>1. inode[j.mem].desc # 0 => inode[j.mem].nr = inode[j.mem].desc
      BY <1>1, <1>5 DEF MemRight, Nr
    <2>2. n = Nr(j.mem)
      BY <1>3, <2>1 DEF Desc, Nr
    <2>3. j.mem # 0
      BY <1>5 DEF Mem
    <2> QED
      BY <1>1, <1>2, <2>2, <2>3 DEF NumberFacts
  <1>7. OnInode(pwd[t], j) /\ (j.nr # 0 => j.call \in Creating) /\ j.dir # 0
    BY <1>1, <1>2, <1>4 DEF Shape, OnInode, InDir
  <1>8. In(t) = Home(t) /\ Home(t) \in Inode /\ n \in Inode /\ n # 0
    BY <1>1, <1>2, <1>5, <1>6, <1>7 DEF NumberFacts
  <1>9. n \in imap /\ j.slot \in Slot /\ entry[Home(t)][j.slot].nr = n
    BY <1>1, <1>2, <1>4, <1>6, <1>8 DEF TaskNames
  <1>10. n # Root
    BY <1>1, <1>8, <1>9 DEF NamesInv, EntriesRight
  <1>11. Table(t, 0)
    BY <1>2, <1>5 DEF Table, Spares
  <1>12. j.call = "rmdir" /\ ~(inode[j.mem].count > 1) => ~Opens(n) /\ \A u \in Task : Home(u) # n
    BY <1>1, <1>2, <1>4, <1>6, <1>8, Unreferenced
  <1>13. Takes(t, j, n, inode[j.mem].count)
    <2>1. Good(j.mem)' /\ inode'[j.mem].nr = n
      BY <1>5, <1>6 DEF Good
    <2>2. j.nr # 0 => j.nr = n
      BY <1>1, <1>2, <1>6 DEF NumberFacts
    <2>3. j.call = "unlink" => ~Opens(n) /\ kind[n] # "device"
      BY <1>1, <1>2, <1>4, <1>6 DEF Unused, TaskNames
    <2>4. Alone(t, j.call, n, Home(t))
      BY <1>1, <1>2, <1>6, <1>8
    <2>5. Alike(job[t], j)
      BY <1>2 DEF Alike
    <2> QED
      BY <1>1, <1>2, <1>4, <1>7, <1>8, <1>9, <1>10, <1>11, <1>12, <2>1, <2>2, <2>3, <2>4, <2>5 DEF Takes
  <1>14. ViewInv' /\ Views(t) /\ Numbers(t, n)
    BY <1>1, <1>4, <1>13, GotView
  <1>15. NamesInv'
    BY <1>1, <1>4, <1>13, <1>14, GotNames
  <1>16. BlocksInv'
    BY <1>1, <1>4, <1>13, <1>14, GotBlocks
  <1> QED
    BY <1>14, <1>15, <1>16 DEF Kept
-----------------------------------------------------------------------------
LEMMA TableUnchanged ==
    ASSUME HeldRight, NEW t \in Task, PlaceRight(t), inode' = inode, pc[t] # "load"
    PROVE  Table(t, 0)
  BY TableStays DEF Table, Spares

\* A step that changes no names.
LEMMA NamesQuiet ==
    ASSUME DiskInv, CountInv', NEW t \in Task, NEW k, After(t, k), Table(t, 0), NEW n,
           Free(t)' \/ (Fits(t, k, n) /\ Clear(t, k, n)),
           UNCHANGED <<imap, kind, nlinks, entry>>, ~Fresh(t), ~Fresh(t)', pc[t] # "ifreed", pc'[t] # "ifreed"
    PROVE  /\ ViewInv' /\ Seen(t) /\ Numbers(t, n) /\ Live(Home(t))' /\ kind'[Home(t)'] = "dir"
           /\ \A x : (Pending(x)' <=> Pending(x)) /\ (Leaving(x)' <=> Leaving(x)) /\ (Live(x)' <=> Live(x))
           /\ Free(t)' => NamesInv'
           /\ TaskNames(t)' => NamesInv'
  <1>1. HeldRight /\ HeldRight' /\ ViewInv /\ NamesInv /\ PlacesRight /\ TaskNames(t)
    BY Base
  <1>2. ViewInv' /\ Views(t) /\ Numbers(t, n)
    BY <1>1, AfterStep DEF Numbers
  <1>3. Seen(t) /\ OthersSame(t) /\ \A u \in Task \ {t} : Target(u)' = Target(u)
    BY <1>2 DEF Views, Seen
  <1>4. \A x : (Pending(x)' <=> Pending(x)) /\ (Leaving(x)' <=> Leaving(x))
    BY <1>3, PendingStays
  <1>5. \A x : Live(x)' <=> Live(x)
    BY <1>4 DEF Live
  <1>6. Live(Home(t))' /\ kind'[Home(t)'] = "dir"
    <2>1. PICK d : d = Home(t)
      OBVIOUS
    <2>2. Live(d)' <=> Live(d)
      BY <1>5
    <2> QED
      BY <1>1, <1>2, <2>1, <2>2, HomeStays DEF Numbers
  <1>7. Free(t)' => TaskNames(t)'
    BY <1>2, <1>6, EndedNames DEF Numbers
  <1>8. TaskNames(t)' => NamesInv'
    BY <1>1, <1>2, NamesStand
  <1> QED
    BY <1>2, <1>3, <1>4, <1>5, <1>6, <1>7, <1>8

\* A step that changes nothing on the disk.
LEMMA QuietStep ==
    ASSUME DiskInv, CountInv', NEW t \in Task, NEW k, After(t, k), Table(t, 0), NEW n,
           Free(t)' \/ (Fits(t, k, n) /\ Clear(t, k, n)),
           UNCHANGED diskVars, ~Fresh(t), ~Fresh(t)',
           pc[t] \notin {"ifreed", "freed", "block"}, pc'[t] \notin {"ifreed", "freed", "block"}
    PROVE  /\ Numbers(t, n) /\ Live(Home(t))' /\ kind'[Home(t)'] = "dir"
           /\ Free(t)' => Kept
           /\ TaskNames(t)' => Kept
  <1>1. /\ HeldRight /\ BlocksInv /\ PlacesRight
        /\ \A u \in Task : Shape(pwd[u], fd[u], pc[u], job[u])
    BY Base
  <1>2. UNCHANGED <<imap, zmap, kind, nlinks, zone, entry>>
    BY DEF diskVars
  <1>3. /\ ViewInv' /\ Seen(t) /\ Numbers(t, n) /\ Live(Home(t))' /\ kind'[Home(t)'] = "dir"
        /\ \A x : Pending(x)' <=> Pending(x)
        /\ Free(t)' => NamesInv'
        /\ TaskNames(t)' => NamesInv'
    BY <1>2, NamesQuiet
  <1>4. BlocksInv'
    BY <1>1, <1>2, <1>3, BlocksQuiet
  <1> QED
    BY <1>3, <1>4 DEF Kept

\* A call that fails.
LEMMA Aborts ==
    ASSUME DiskInv, CountInv', NEW t \in Task, NEW j, Abort(t, j), Table(t, 0),
           pc[t] \notin {"ifreed", "freed", "block", "load", "enter"}
    PROVE  Kept
  <1>1. TypeOK
    BY Base
  <1>2. Free(t)' /\ OthersSame(t) /\ UNCHANGED fileVars /\ UNCHANGED diskVars
    BY <1>1, Finished DEF Abort
  <1>3. After(t, j)
    BY <1>2 DEF After
  <1>4. ~Fresh(t) /\ ~Fresh(t)' /\ pc'[t] \notin {"ifreed", "freed", "block"}
    BY <1>2 DEF Fresh, Free
  <1>5. PICK n : n = 0
    OBVIOUS
  <1> QED
    BY <1>2, <1>3, <1>4, QuietStep

LEMMA RmdirEmptyKeeps ==
    ASSUME DiskInv, CountInv', NEW t \in Task, RmdirEmpty(t)
    PROVE  Kept
  <1>1. /\ TypeOK /\ HeldRight /\ PlacesRight
        /\ Shape(pwd[t], fd[t], pc[t], job[t])
        /\ NumberFacts(t) /\ PlaceRight(t) /\ TaskNames(t) /\ Unused(t)
        /\ Alone(t, job[t].call, Target(t), In(t)) /\ job[t] \in Job
    BY Base
  <1>2. pc[t] = "empty" /\ inode' = inode
    BY DEF RmdirEmpty
  <1>3. Table(t, 0)
    BY <1>1, <1>2, TableUnchanged
  <1>4. CASE Abort(t, job[t])
    BY <1>2, <1>3, <1>4, Aborts
  <1>5. CASE /\ IsEmpty(Desc(job[t].mem)) /\ At(t, "trunc", job[t]) /\ UNCHANGED <<diskVars, fileVars>>
    <2>1. OnInode(pwd[t], job[t]) /\ job[t].call = "rmdir" /\ Removing(t)
      BY <1>1, <1>2 DEF Shape, Removing
    <2>2. /\ job[t].keep = 0 /\ job[t].dir = pwd[t] /\ job[t].dir # 0 /\ job[t].mem # 0
          /\ In(t) = Home(t)
      BY <1>1, <2>1 DEF OnInode, InDir, NumberFacts
    <2>3. UNCHANGED fileVars /\ UNCHANGED pwd
      BY <1>5 DEF fileVars
    <2>4. pc'[t] = "trunc" /\ job'[t] = job[t] /\ OthersSame(t)
      BY <1>1, <1>5, <2>3, AtGoes
    <2>5. After(t, job[t])
      BY <2>3, <2>4 DEF After, Alike
    <2>6. PICK n : n = Target(t)
      OBVIOUS
    <2>7. Good(job[t].mem)'
      BY <1>1, <1>2, <2>2, <2>4 DEF PlaceRight, Good
    <2>8. Fits(t, job[t], n)
      BY <1>1, <1>2, <2>2, <2>4, <2>6, <2>7 DEF Fits, PlaceRight, Target, Nr, TargetIn
    <2>9. Clear(t, job[t], n)
      BY <1>1, <2>1, <2>2, <2>6 DEF Clear, Unused
    <2>10. ~Fresh(t) /\ ~Fresh(t)' /\ UNCHANGED diskVars
      BY <1>2, <1>5, <2>4 DEF Fresh
    <2>11. Numbers(t, n) /\ Live(Home(t))' /\ kind'[Home(t)'] = "dir" /\ (TaskNames(t)' => Kept)
      BY <1>2, <1>3, <2>4, <2>5, <2>8, <2>9, <2>10, QuietStep
    <2>12. Target(t)' = n /\ In(t)' = In(t)
      BY <2>2, <2>4, <2>11 DEF Numbers, Free
    <2>13. UNCHANGED <<imap, kind, nlinks, entry>> /\ n = Desc(job[t].mem)
      BY <1>1, <1>2, <2>2, <2>6, <2>10 DEF diskVars, NumberFacts
    <2>14. \A s \in Slot : entry[n][s].nr = 0
      BY <1>5, <2>13 DEF IsEmpty, Children
    <2>15. TaskNames(t)'
      BY <1>1, <1>2, <2>1, <2>4, <2>6, <2>11, <2>12, <2>13, <2>14
         DEF TaskNames, Leaves, Removing, Unlinked
    <2> QED
      BY <2>11, <2>15
  <1> QED
    BY <1>4, <1>5 DEF RmdirEmpty
-----------------------------------------------------------------------------
LEMMA LinkNewKeeps ==
    ASSUME DiskInv, CountInv', NEW t \in Task, LinkNew(t)
    PROVE  Kept
  <1>1. /\ TypeOK /\ CountInv /\ HeldRight /\ PlacesRight /\ TableOK(inode)
        /\ Shape(pwd[t], fd[t], pc[t], job[t])
        /\ NumberFacts(t) /\ PlaceRight(t) /\ TaskNames(t)
        /\ Alone(t, job[t].call, Target(t), In(t)) /\ job[t] \in Job /\ pwd[t] \in Mem
    BY Base
  <1>2. PICK j : j = job[t]
    OBVIOUS
  <1>3. PICK L : L = [NoJob EXCEPT !.mem = j.mem, !.held = <<j.mem>>]
    OBVIOUS
  <1>4. pc[t] = "linkto" /\ Lookup(t, "link", Fewer(inode, j.dir), L)
    BY <1>2, <1>3 DEF LinkNew
  <1>5. /\ j.mem \in Mem /\ j.mem # 0 /\ j.dir = pwd[t] /\ j.dir # 0 /\ j.held = <<j.mem, pwd[t]>>
        /\ j.call = "link" /\ j.nr = 0 /\ j.keep = 0
    BY <1>1, <1>2, <1>4 DEF Shape, OnInode, InDir, Job
  <1>6. L \in Job /\ L.mem = j.mem /\ L.held = <<j.mem>> /\ L.keep = 0 /\ L.nr = 0
    <2>1. <<j.mem>> \in Seq(Mem) /\ j.mem \in Mem \cup {0}
      BY <1>5
    <2>2. L \in Job
      BY <1>3, <2>1, NoJobType DEF Job
    <2> QED
      BY <1>3, <2>2 DEF NoJob
  <1>7. More(Fewer(inode, j.dir), pwd[t]) = inode
    <2>1. Occ(job[t].held, pwd[t]) # 0
      BY <1>1, <1>2, <1>5, OccTwo DEF Ind
    <2>2. inode[pwd[t]].count > 0
      BY <1>1, <2>1, CountAbove DEF CountInv
    <2> QED
      BY <1>1, <1>5, <2>2, FewerMore DEF TableOK
  <1>8. PICK name \in Name :
            LET d == Desc(pwd[t])
                slots == Matching(d, name)
                next == [L EXCEPT !.call = "link", !.name = name, !.dir = pwd[t], !.held = Append(@, pwd[t])]
            IN  /\ inode' = More(Fewer(inode, j.dir), pwd[t])
                /\ \/ slots = {} /\ At(t, "add", next) /\ UNCHANGED <<diskVars, fileVars>>
                   \/ Abort(t, next)
    BY <1>4, <1>5, <1>6 DEF Lookup
  <1>9. inode' = inode
    BY <1>7, <1>8
  <1>10. PICK k : k = [L EXCEPT !.call = "link", !.name = name, !.dir = pwd[t], !.held = Append(@, pwd[t])]
    OBVIOUS
  <1>11. k.call = "link" /\ k.name = name /\ k.dir = pwd[t] /\ k.mem = j.mem /\ k.keep = 0 /\ k.nr = 0
    BY <1>6, <1>10 DEF Job
  <1>12. Table(t, 0)
    BY <1>1, <1>4, <1>9, TableUnchanged
  <1>13. CASE Abort(t, k)
    BY <1>4, <1>12, <1>13, Aborts
  <1>14. CASE /\ Matching(Desc(pwd[t]), name) = {} /\ At(t, "add", k) /\ UNCHANGED <<diskVars, fileVars>>
    <2>1. UNCHANGED fileVars /\ UNCHANGED pwd /\ UNCHANGED diskVars
      BY <1>14 DEF fileVars
    <2>2. pc'[t] = "add" /\ job'[t] = k /\ OthersSame(t)
      BY <1>1, <1>14, <2>1, AtGoes
    <2>3. After(t, k)
      BY <2>1, <2>2 DEF After, Alike
    <2>4. PICK n : n = Target(t)
      OBVIOUS
    <2>5. In(t) = Home(t) /\ Target(t) # 0 /\ Home(t) = Desc(pwd[t])
      BY <1>1, <1>2, <1>5 DEF NumberFacts
    <2>6. Good(k.mem)'
      BY <1>1, <1>2, <1>4, <1>5, <1>9, <1>11, <2>2 DEF PlaceRight, Good
    <2>7. Fits(t, k, n)
      BY <1>2, <1>5, <1>9, <1>11, <2>2, <2>4, <2>6 DEF Fits, Target, Nr, TargetIn
    <2>8. Clear(t, k, n)
      BY <1>1, <1>2, <1>5, <1>11, <2>2, <2>4, <2>5 DEF Clear, Removing
    <2>9. ~Fresh(t) /\ ~Fresh(t)'
      BY <1>4, <2>2 DEF Fresh
    <2>10. Numbers(t, n) /\ Live(Home(t))' /\ kind'[Home(t)'] = "dir" /\ (TaskNames(t)' => Kept)
      BY <1>4, <1>12, <2>1, <2>2, <2>3, <2>7, <2>8, <2>9, QuietStep
    <2>11. Target(t)' = n /\ In(t)' = Home(t)
      BY <1>5, <1>11, <1>1, <2>2, <2>10 DEF Numbers, Free, Mem
    <2>12. UNCHANGED <<imap, kind, nlinks, entry>>
      BY <2>1 DEF diskVars
    <2>13. \A s \in Slot : entry[Home(t)][s].nr # 0 => entry[Home(t)][s].name # k.name
      BY <1>11, <1>14, <2>5 DEF Matching
    <2>14. n \in imap /\ kind[n] # "dir"
      BY <1>1, <1>2, <1>4, <1>5, <2>4, <2>5 DEF TaskNames
    <2>15. TaskNames(t)'
      <3>1. /\ Target(t)' # 0 /\ pc'[t] # "ifreed" => Target(t)' \in imap'
        BY <2>11, <2>12, <2>14
      <3>2. ~Leaves(job[t])' /\ ~Removing(t)' /\ ~Unlinked(t)'
        BY <1>11, <2>2 DEF Leaves, Removing, Unlinked
      <3>3. \A s \in Slot : entry'[In(t)'][s].nr # 0 => entry'[In(t)'][s].name # job'[t].name
        BY <2>2, <2>11, <2>12, <2>13
      <3> QED
        BY <2>2, <2>10, <2>11, <2>12, <2>14, <3>1, <3>2, <3>3 DEF TaskNames
    <2> QED
      BY <2>10, <2>15
  <1> QED
    BY <1>8, <1>10, <1>13, <1>14
-----------------------------------------------------------------------------
\* iget of inode n by a call that has just found its entry.
LEMMA IGetKeeps ==
    ASSUME DiskInv, CountInv', NEW t \in Task, NSlot <= 253, Risks = {}, pc[t] = "user",
           NEW T, TableOK(T), Same(T), NEW call, NEW name, NEW d, d = Home(t),
           ~Avoided(t, call, d, name, Named(d, name)),
           NEW s \in Matching(d, name), NEW n \in Inode, n = entry[d][s].nr, n # 0,
           NEW j \in Job, j.call = call, j.nr = 0, j.keep = 0, j.mem = 0, j.dir = pwd[t], j.held = <<pwd[t]>>,
           j.slot = s,
           IGet(t, T, n, j)
    PROVE  Kept
  <1>1. /\ TypeOK /\ HeldRight /\ HeldRight' /\ ViewInv /\ NamesInv /\ BlocksInv
        /\ MemRight /\ PlacesRight
        /\ \A u \in Task : Shape(pwd[u], fd[u], pc[u], job[u])
        /\ \A u \in Task : NumberFacts(u)
        /\ PlaceRight(t) /\ TaskNames(t) /\ pwd[t] \in Mem
    BY Base
  <1>2. PICK m : m = Place(T, n)
    OBVIOUS
  <1>3. Found(T, n) # {} /\ inode' = Getting(T, m, n)
    BY <1>2 DEF IGet
  <1>4. /\ m \in Mem /\ inode'[m].used /\ inode'[m].nr = n /\ inode'[m].desc = inode[m].desc
        /\ T[m].used = inode[m].used /\ T[m].desc = inode[m].desc
        /\ TableStep(0)
        /\ \A o \in Mem : inode'[o].used /\ ~inode[o].used =>
               o = m /\ inode'[o].desc = 0 /\ \A q \in Mem : inode[q].used => inode[q].nr # n
        /\ inode[m].used => inode[m].nr = n
    <2>1. HeldRight /\ inode' = Getting(T, Place(T, n), n) /\ Found(T, n) # {}
      BY <1>1, <1>2, <1>3
    <2>2. LET p == Place(T, n) IN
          /\ p \in Mem /\ inode'[p].used /\ inode'[p].nr = n /\ inode'[p].desc = inode[p].desc
          /\ T[p].used = inode[p].used /\ T[p].desc = inode[p].desc
          /\ TableStep(0)
          /\ \A o \in Mem : inode'[o].used /\ ~inode[o].used =>
                 o = p /\ inode'[o].desc = 0 /\ \A q \in Mem : inode[q].used => inode[q].nr # n
          /\ inode[p].used => inode[p].nr = n
      BY <2>1, TableGets, SMTT(30)
    <2> QED
      BY <1>2, <2>2
  <1>5. PICK k : k = With(j, m)
    OBVIOUS
  <1>6. /\ k \in Job /\ k.mem = m /\ k.held = <<m, pwd[t]>> /\ k.dir = pwd[t] /\ k.keep = 0
        /\ k.nr = 0 /\ k.call = call /\ k.slot = s
    <2>1. <<m>> \o <<pwd[t]>> = <<m, pwd[t]>>
      BY <1>1, <1>4, Join
    <2>2. k = [j EXCEPT !.mem = m, !.held = <<m, pwd[t]>>] /\ <<m, pwd[t]>> \in Seq(Mem)
      <3>1. k = [j EXCEPT !.mem = m, !.held = <<m>> \o j.held]
        BY <1>5 DEF With
      <3>2. <<m>> \o j.held = <<m, pwd[t]>>
        BY <2>1, Zenon
      <3>3. <<m, pwd[t]>> \in Seq(Mem)
        BY <1>1, <1>4
      <3> QED
        BY <3>1, <3>2, <3>3
    <2>3. k \in Job
      BY <1>4, <2>2 DEF Job
    <2> QED
      BY <1>4, <2>2, <2>3 DEF Job
  <1>7. OnInode(pwd[t], k) /\ k.mem # 0 /\ k.dir # 0
    BY <1>1, <1>4, <1>6 DEF OnInode, InDir, Mem
  <1>8. n \in Named(d, name) /\ s \in Slot
    BY DEF Named, Matching
  <1>9. n # Root
    <2>1. d \in Inode
      BY <1>1 DEF NumberFacts
    <2> QED
      BY <1>1, <1>8, <2>1 DEF NamesInv, EntriesRight
  <1>10. Alone(t, call, n, d)
    BY <1>1, <1>8, <1>9, Claimed
  <1>11. /\ \A u \in Task \ {t} : pc[u] = "load" => Target(u) # n
         /\ call = "unlink" => ~Opens(n) /\ kind[n] # "device"
    BY <1>1, <1>8, ClaimedMore
  <1>12. n \in imap
    <2>1. d \in Inode
      BY <1>1 DEF NumberFacts
    <2>2. n \in imap \/ Leaving(n)
      BY <1>1, <1>8, <2>1 DEF NamesInv, EntriesRight
    <2>3. ASSUME NEW u \in Task, pc[u] = "ifreed", Target(u) = n PROVE FALSE
      <3>1. job[u].call = "rmdir" /\ u # t
        BY <1>1, <2>3 DEF Shape
      <3> QED
        BY <1>10, <2>3, <3>1 DEF Alone, Reading
    <2> QED
      BY <2>2, <2>3 DEF Leaving
  <1>13. \A o \in Mem : inode'[o].used /\ ~inode[o].used => o = m
    BY <1>4
  <1>14. CASE T[m].desc # 0
    <2>1. inode[m].desc = n /\ inode[m].used
      BY <1>1, <1>4, <1>14 DEF HeldRight, Read, MemRight
    <2>2. Got(t, k, n, T[m].count + 1)
      BY <1>2, <1>4, <1>5, <1>14, <2>1 DEF IGet
    <2>3. T[m].count + 1 > 1
      <3>1. T[m].count \in Nat /\ T[m].count > 0
        BY <1>4, <2>1 DEF TableOK, InodeRecord
      <3> QED
        BY <3>1
    <2>4. NewRight(t)
      BY <1>13, <2>1 DEF NewRight
    <2>5. Table(t, 0)
      BY <1>4, <2>4 DEF Table, Spares
    <2>6. Good(k.mem)' /\ inode'[k.mem].nr = n
      BY <1>4, <1>6, <2>1 DEF Good
    <2>7. Takes(t, k, n, T[m].count + 1)
      BY <1>6, <1>7, <1>8, <1>9, <1>10, <1>11, <1>12, <2>3, <2>5, <2>6 DEF Takes
    <2>8. ViewInv' /\ Views(t) /\ Numbers(t, n)
      BY <1>1, <2>2, <2>7, GotView
    <2>9. NamesInv'
      BY <1>1, <2>2, <2>7, <2>8, GotNames
    <2>10. BlocksInv'
      BY <1>1, <2>2, <2>7, <2>8, GotBlocks
    <2> QED
      BY <2>8, <2>9, <2>10 DEF Kept
  <1>15. CASE T[m].desc = 0
    <2>1. ~inode[m].used
      <3> SUFFICES ASSUME inode[m].used PROVE FALSE
        OBVIOUS
      <3>1. PICK u \in Task : pc[u] = "load" /\ job[u].mem = m
        BY <1>1, <1>4, <1>15 DEF MemRight
      <3>2. Target(u) = n
        BY <1>1, <1>4, <3>1 DEF NumberFacts, Nr, Mem
      <3> QED
        BY <1>11, <3>1, <3>2
    <2>2. At(t, "load", k) /\ UNCHANGED <<diskVars, fileVars>>
      BY <1>2, <1>4, <1>5, <1>15, <2>1 DEF IGet
    <2>3. UNCHANGED fileVars /\ UNCHANGED pwd /\ UNCHANGED diskVars
      BY <2>2 DEF fileVars
    <2>4. pc'[t] = "load" /\ job'[t] = k /\ OthersSame(t)
      BY <1>1, <2>2, <2>3, AtGoes
    <2>5. After(t, k)
      BY <2>3, <2>4 DEF After, Alike
    <2>6. NewRight(t)
      BY <1>4, <1>6, <2>4 DEF NewRight
    <2>7. Table(t, 0)
      BY <1>4, <2>6 DEF Table, Spares
    <2>8. Fits(t, k, n)
      BY <1>4, <1>6, <1>7, <2>4 DEF Fits, TargetIn
    <2>9. Clear(t, k, n)
      BY <1>6, <1>7, <1>10, <1>11, <2>4 DEF Clear, Removing
    <2>10. ~Fresh(t) /\ ~Fresh(t)'
      BY <1>6, <2>4 DEF Fresh
    <2>11. Numbers(t, n) /\ Live(Home(t))' /\ kind'[Home(t)'] = "dir" /\ (TaskNames(t)' => Kept)
      BY <2>3, <2>4, <2>5, <2>7, <2>8, <2>9, <2>10, QuietStep
    <2>12. Target(t)' = n /\ In(t)' = d
      BY <1>6, <1>7, <2>4, <2>11 DEF Numbers, Free
    <2>13. UNCHANGED <<imap, kind, nlinks, entry>>
      BY <2>3 DEF diskVars
    <2>14. TaskNames(t)'
      <3>1. ~Leaves(job[t])' /\ ~Removing(t)' /\ ~Unlinked(t)'
        BY <1>6, <2>4 DEF Leaves, Removing, Unlinked
      <3> QED
        BY <1>6, <1>8, <1>11, <1>12, <2>4, <2>11, <2>12, <2>13, <3>1 DEF TaskNames
    <2> QED
      BY <2>11, <2>14
  <1> QED
    BY <1>14, <1>15

LEMMA BeginKeeps ==
    ASSUME DiskInv, CountInv', NEW t \in Task, Begin(t), NSlot <= 253, Risks = {}
    PROVE  Kept
  <1>1. /\ TypeOK /\ CountInv /\ HeldRight /\ PlacesRight /\ TableOK(inode) /\ inode \in [Mem -> InodeRecord]
        /\ NumberFacts(t) /\ PlaceRight(t) /\ pwd[t] \in Mem
    BY Base
  <1>2. pc[t] = "user"
    BY DEF Begin
  <1>3. PICK call \in Calls, name \in Name :
            LET d == Desc(pwd[t])
                slots == Matching(d, name)
                next == [NoJob EXCEPT !.call = call, !.name = name, !.dir = pwd[t], !.held = Append(@, pwd[t])]
            IN  /\ ~Avoided(t, call, d, name, Named(d, name))
                /\ \/ /\ slots # {}
                      /\ IGet(t, More(inode, pwd[t]), entry[d][Least(slots)].nr, [next EXCEPT !.slot = Least(slots)])
                   \/ /\ slots = {} /\ (call \in Creating \/ (call = "link" /\ NoJob.mem # 0))
                      /\ inode' = More(inode, pwd[t])
                      /\ At(t, "add", next)
                      /\ UNCHANGED <<diskVars, fileVars>>
                   \/ NoJob.held # << >>
    BY DEF Begin, Lookup
  <1>4. PICK d : d = Desc(pwd[t])
    OBVIOUS
  <1>5. d = Home(t) /\ d \in Inode
    BY <1>1, <1>4 DEF NumberFacts
  <1>6. PICK next : next = [NoJob EXCEPT !.call = call, !.name = name, !.dir = pwd[t], !.held = Append(@, pwd[t])]
    OBVIOUS
  <1>7. next \in Job
    <2>1. Append(NoJob.held, pwd[t]) \in Seq(Mem)
      BY <1>1 DEF NoJob
    <2>2. call \in Calls \cup {"write", "close", "none"} /\ name \in Name \cup {NoName} /\ pwd[t] \in Mem \cup {0}
      BY <1>1
    <2> QED
      BY <1>6, <2>1, <2>2, NoJobType DEF Job
  <1>8. /\ next.call = call /\ next.name = name /\ next.dir = pwd[t] /\ next.held = <<pwd[t]>>
        /\ next.mem = 0 /\ next.nr = 0 /\ next.keep = 0
    <2>1. NoJob.held = << >> /\ Append(<< >>, pwd[t]) = <<pwd[t]>>
      BY <1>1, AppendNone DEF NoJob
    <2> QED
      BY <1>6, <1>7, <2>1 DEF NoJob
  <1>9. PICK T : T = More(inode, pwd[t])
    OBVIOUS
  <1>10. TableOK(T) /\ Same(T)
    <2>1. inode[pwd[t]].count > 0
      BY <1>2, <1>1, IdleRefs
    <2> QED
      BY <1>1, <1>9, <2>1, MoreOK, TableMore
  <1>11. ~Avoided(t, call, d, name, Named(d, name))
    BY <1>3, <1>4
  <1>12. CASE /\ Matching(d, name) # {}
              /\ IGet(t, T, entry[d][Least(Matching(d, name))].nr, [next EXCEPT !.slot = Least(Matching(d, name))])
    <2>1. PICK s : s = Least(Matching(d, name))
      OBVIOUS
    <2>2. s \in Matching(d, name)
      <3>1. Matching(d, name) \in SUBSET Nat
        BY Sizes DEF Matching, Slot
      <3> QED
        BY <1>12, <2>1, <3>1, LeastNumber
    <2>3. s \in Slot /\ entry[d][s].nr \in Inode /\ entry[d][s].nr # 0
      BY <1>1, <1>5, <1>12, <2>1, <2>2, MatchingFound, TypeEq DEF Matching
    <2>4. PICK k : k = [next EXCEPT !.slot = s]
      OBVIOUS
    <2>5. /\ k \in Job /\ k.call = call /\ k.dir = pwd[t] /\ k.held = <<pwd[t]>>
          /\ k.mem = 0 /\ k.nr = 0 /\ k.keep = 0 /\ k.slot = s
      BY <1>7, <1>8, <2>3, <2>4 DEF Job
    <2>6. PICK n : n = entry[d][s].nr
      OBVIOUS
    <2>7. IGet(t, T, n, k)
      BY <1>12, <2>1, <2>4, <2>6
    <2> QED
      BY <1>2, <1>5, <1>10, <1>11, <2>2, <2>3, <2>5, <2>6, <2>7, IGetKeeps
  <1>13. CASE /\ Matching(d, name) = {} /\ call \in Creating
              /\ inode' = T
              /\ At(t, "add", next)
              /\ UNCHANGED <<diskVars, fileVars>>
    <2>1. UNCHANGED fileVars /\ UNCHANGED pwd /\ UNCHANGED diskVars
      BY <1>13 DEF fileVars
    <2>2. pc'[t] = "add" /\ job'[t] = next /\ OthersSame(t)
      BY <1>1, <1>13, <2>1, AtGoes
    <2>3. After(t, next)
      BY <2>1, <2>2 DEF After, Alike
    <2>4. PICK n : n = 0
      OBVIOUS
    <2>5. TableStep(0) /\ NewRight(t)
      BY <1>10, <1>13, TableSame
    <2>6. Table(t, 0)
      BY <1>2, <2>5 DEF Table, Spares
    <2>7. Fits(t, next, n)
      BY <1>8, <2>2, <2>4 DEF Fits, TargetIn
    <2>8. Alone(t, call, n, d)
      BY <1>1, <1>11, <2>4, Claimed DEF Root
    <2>9. Clear(t, next, n)
      <3>1. next.dir # 0
        BY <1>1, <1>8 DEF Mem
      <3> QED
        BY <1>5, <1>8, <1>13, <2>2, <2>8, <3>1 DEF Clear, Removing, Creating, Adding
    <2>10. ~Fresh(t) /\ ~Fresh(t)'
      BY <1>2, <2>2 DEF Fresh
    <2>11. Numbers(t, n) /\ Live(Home(t))' /\ kind'[Home(t)'] = "dir" /\ (TaskNames(t)' => Kept)
      BY <1>2, <2>1, <2>2, <2>3, <2>6, <2>7, <2>9, <2>10, QuietStep
    <2>12. Target(t)' = 0 /\ In(t)' = d
      BY <1>1, <1>5, <1>8, <2>2, <2>4, <2>11 DEF Numbers, Free, Mem
    <2>13. UNCHANGED <<imap, kind, nlinks, entry>>
      BY <2>1 DEF diskVars
    <2>14. \A r \in Slot : entry[d][r].nr # 0 => entry[d][r].name # name
      BY <1>13 DEF Matching
    <2>15. TaskNames(t)'
      <3>1. ~Leaves(job[t])' /\ ~Removing(t)' /\ ~Unlinked(t)'
        BY <1>8, <2>2 DEF Leaves, Removing, Unlinked
      <3> QED
        BY <1>8, <2>2, <2>11, <2>12, <2>13, <2>14, <3>1 DEF TaskNames
    <2> QED
      BY <2>11, <2>15
  <1> QED
    BY <1>3, <1>4, <1>6, <1>9, <1>12, <1>13 DEF NoJob
-----------------------------------------------------------------------------
\* The inode n of a call that changes it is no other call's.
Sole(t, n) ==
    /\ n \in Inode /\ n # 0 /\ n # Root
    /\ n = Target(t) /\ n = Desc(job[t].mem) /\ n = Nr(job[t].mem)
    /\ \A u \in Task \ {t} : Target(u) # n
    /\ ~Pending(n)
    /\ pc[t] # "ifreed" => Live(n) /\ n \in imap /\ ~Leaving(n)
    /\ \A i : Freeing(n, i) <=> pc[t] = "freed" /\ job[t].index = i

LEMMA SoleCall ==
    ASSUME DiskInv, CountInv', NEW t \in Task, job[t].call \notin Reading, job[t].mem # 0,
           pc[t] \in {"empty", "trunc", "freed", "ifreed", "block"}
    PROVE  Sole(t, Target(t))
  <1>1. /\ HeldRight /\ PlacesRight /\ NamesInv /\ NumberFacts(t) /\ TaskNames(t)
        /\ Alone(t, job[t].call, Target(t), In(t))
    BY Base
  <1>2. PICK n : n = Target(t)
    OBVIOUS
  <1>3. n # 0 /\ n = Nr(job[t].mem) /\ n = Desc(job[t].mem) /\ n \in Inode
    BY <1>1, <1>2 DEF NumberFacts
  <1>4. ~Fresh(t)
    BY DEF Fresh
  <1>5. (\A u \in Task \ {t} : Target(u) # n) /\ n # Root /\ ~Pending(n) /\ (pc[t] # "ifreed" => ~Leaving(n))
    BY <1>1, <1>2, <1>3, <1>4, Unshared
  <1>6. pc[t] # "ifreed" => n \in imap
    BY <1>1, <1>2, <1>3 DEF TaskNames
  <1>7. \A i : Freeing(n, i) <=> pc[t] = "freed" /\ job[t].index = i
    BY <1>2, <1>5 DEF Freeing
  <1> QED
    BY <1>2, <1>3, <1>5, <1>6, <1>7 DEF Sole, Live

\* Task t changes the blocks of its inode.
LEMMA SoleTouches ==
    ASSUME NEW t \in Task, NEW n, Sole(t, n), pc[t] # "ifreed", Seen(t),
           \A x : Live(x)' <=> Live(x), UNCHANGED <<imap, kind>>,
           \A x \in Inode \ {n} : zone'[x] = zone[x],
           pc'[t] = "freed" => Target(t)' = n
    PROVE  Touches(t, n)
  BY DEF Sole, Touches, Seen

LEMMA SetBlockKeeps ==
    ASSUME DiskInv, CountInv', NEW t \in Task, SetBlock(t)
    PROVE  Kept
  <1>1. /\ TypeOK /\ HeldRight /\ PlacesRight /\ BlocksInv
        /\ \A u \in Task : Shape(pwd[u], fd[u], pc[u], job[u])
        /\ PlaceRight(t) /\ job[t] \in Job
    BY Base
  <1>2. /\ pc[t] = "block" /\ inode' = inode /\ UNCHANGED <<imap, kind, nlinks, entry>> /\ zmap' = zmap
        /\ zone' = [zone EXCEPT ![Desc(job[t].mem)][job[t].index] = job[t].block]
        /\ Finish(t, job[t], 0)
    BY DEF SetBlock
  <1>3. job[t].call \in {"write", "mkdir"} /\ job[t].index # 0 /\ job[t].block # 0 /\ job[t].mem # 0
    BY <1>1, <1>2 DEF Shape
  <1>4. PICK n, i, b : n = Target(t) /\ i = job[t].index /\ b = job[t].block
    OBVIOUS
  <1>5. Sole(t, n)
    BY <1>2, <1>3, <1>4, SoleCall DEF Reading
  <1>6. Free(t)' /\ After(t, job[t])
    BY <1>1, <1>2, Finished DEF After
  <1>7. Table(t, 0)
    BY <1>1, <1>2, TableUnchanged
  <1>8. ~Fresh(t) /\ ~Fresh(t)' /\ pc'[t] \notin {"ifreed", "freed", "block"}
    BY <1>2, <1>6 DEF Fresh, Free
  <1>9. ViewInv' /\ Seen(t) /\ NamesInv' /\ \A x : Live(x)' <=> Live(x)
    BY <1>2, <1>6, <1>7, <1>8, NamesQuiet
  <1>10. n \in Inode /\ n = Desc(job[t].mem) /\ i \in Index
    BY <1>1, <1>3, <1>4, <1>5 DEF Sole, Job
  <1>11. \A x \in Inode : \A k \in Index : zone'[x][k] = IF x = n /\ k = i THEN b ELSE zone[x][k]
    BY <1>1, <1>2, <1>4, <1>10 DEF TypeOK
  <1>12. \A x \in Inode \ {n} : zone'[x] = zone[x]
    BY <1>1, <1>2, <1>10 DEF TypeOK
  <1>13. Touches(t, n)
    BY <1>2, <1>5, <1>8, <1>9, <1>12, SoleTouches
  <1>14. zone[n][i] = 0 /\ kind[n] # "device" /\ Given(t, b)
    BY <1>1, <1>2, <1>4 DEF BlocksInv, Given
  <1>15. \A k : ~Freeing(n, k)
    BY <1>2, <1>5 DEF Sole
  <1>16. \A k : ~(Freeing(n, k)')
    <2>1. \A u \in Task \ {t} : Target(u)' # n
      BY <1>5, <1>9 DEF Sole, Seen
    <2> QED
      BY <1>8, <2>1 DEF Freeing
  <1>17. \A k \in Index : \A c : Owns(n, k, c)' <=> (IF k = i THEN c = b ELSE Owns(n, k, c))
    BY <1>2, <1>3, <1>4, <1>5, <1>10, <1>11, <1>14, <1>15, <1>16 DEF Owns, Sole
  <1>18. \A c : ~Owns(n, i, c)
    BY <1>14 DEF Owns
  <1>19. BlocksInv'
    BY <1>1, <1>2, <1>8, <1>10, <1>13, <1>14, <1>17, <1>18, BlockSet
  <1> QED
    BY <1>9, <1>19 DEF Kept

\* What inode_truncate leaves while it works.
LEMMA Truncating ==
    ASSUME DiskInv, CountInv', NEW t \in Task, pc[t] \in {"trunc", "freed"}, NEW place \in {"trunc", "freed"},
           NEW i, At(t, place, [job[t] EXCEPT !.index = i]),
           UNCHANGED <<imap, kind, nlinks, entry, inode, fileVars>>
    PROVE  /\ ViewInv' /\ NamesInv' /\ Seen(t) /\ Sole(t, Target(t)) /\ Target(t)' = Target(t)
           /\ \A x : Live(x)' <=> Live(x)
           /\ pc'[t] = place /\ job'[t].index = i
           /\ \A u \in Task \ {t} : Target(u)' # Target(t)
  <1>1. /\ TypeOK /\ HeldRight /\ PlacesRight
        /\ Shape(pwd[t], fd[t], pc[t], job[t])
        /\ NumberFacts(t) /\ PlaceRight(t) /\ TaskNames(t) /\ Unused(t)
        /\ Alone(t, job[t].call, Target(t), In(t)) /\ job[t] \in Job
    BY Base
  <1>2. PICK j : j = job[t]
    OBVIOUS
  <1>3. /\ j.call \in {"creat", "unlink", "rmdir"} /\ j.mem # 0 /\ j.dir = pwd[t] /\ j.dir # 0 /\ j.keep = 0
    BY <1>1, <1>2 DEF Shape, OnInode, InDir
  <1>4. PICK n : n = Target(t)
    OBVIOUS
  <1>5. Sole(t, n)
    BY <1>2, <1>3, <1>4, SoleCall DEF Reading
  <1>6. PICK k : k = [j EXCEPT !.index = i]
    OBVIOUS
  <1>7. Alike(k, j) /\ k.index = i
    BY <1>1, <1>2, <1>6 DEF Alike, Job
  <1>8. pc'[t] = place /\ job'[t] = k /\ OthersSame(t)
    BY <1>1, <1>2, <1>6, AtGoes DEF fileVars
  <1>9. After(t, j)
    BY <1>7, <1>8 DEF After
  <1>10. Table(t, 0)
    BY <1>1, TableUnchanged
  <1>11. In(t) = Home(t)
    BY <1>1, <1>2, <1>3 DEF NumberFacts
  <1>12. Removing(t)' <=> Removing(t)
    BY <1>2, <1>7, <1>8 DEF Removing, Alike
  <1>13. Good(j.mem)'
    BY <1>1, <1>2, <1>3 DEF PlaceRight, Good
  <1>14. Fits(t, j, n)
    BY <1>1, <1>2, <1>3, <1>4, <1>8, <1>13 DEF Fits, PlaceRight, Target, Nr, TargetIn
  <1>15. Clear(t, j, n)
    BY <1>1, <1>2, <1>3, <1>4, <1>11, <1>12 DEF Clear, Unused
  <1>16. ~Fresh(t) /\ ~Fresh(t)'
    BY <1>8 DEF Fresh
  <1>17. /\ ViewInv' /\ Seen(t) /\ Numbers(t, n) /\ Live(Home(t))' /\ kind'[Home(t)'] = "dir"
         /\ (\A x : Live(x)' <=> Live(x)) /\ (TaskNames(t)' => NamesInv')
    BY <1>8, <1>9, <1>10, <1>14, <1>15, <1>16, NamesQuiet
  <1>18. Target(t)' = n /\ In(t)' = In(t)
    BY <1>3, <1>7, <1>8, <1>11, <1>17 DEF Numbers, Free, Alike
  <1>19. TaskNames(t)'
    <2>1. ~Leaves(job[t])' /\ (Unlinked(t)' <=> Unlinked(t))
      BY <1>2, <1>3, <1>7, <1>8 DEF Leaves, Unlinked, Alike
    <2>2. job'[t].slot = job[t].slot
      BY <1>2, <1>7, <1>8 DEF Alike
    <2>3. Removing(t) => pc[t] # "empty"
      BY DEF Removing
    <2> QED
      BY <1>1, <1>4, <1>8, <1>12, <1>17, <1>18, <2>1, <2>2, <2>3 DEF TaskNames
  <1>20. \A u \in Task \ {t} : Target(u)' # n
    BY <1>5, <1>17 DEF Sole, Seen
  <1> QED
    BY <1>4, <1>5, <1>7, <1>8, <1>17, <1>18, <1>19, <1>20

LEMMA FreeBlockKeeps ==
    ASSUME DiskInv, CountInv', NEW t \in Task, FreeBlock(t)
    PROVE  Kept
  <1>1. /\ TypeOK /\ HeldRight /\ PlacesRight /\ BlocksInv
        /\ \A u \in Task : Shape(pwd[u], fd[u], pc[u], job[u])
    BY Base
  <1>2. PICK n : n = Desc(job[t].mem)
    OBVIOUS
  <1>3. PICK i : i = Least({k \in Index : zone[n][k] # 0})
    OBVIOUS
  <1>4. PICK b : b = zone[n][i]
    OBVIOUS
  <1>5. /\ pc[t] = "trunc" /\ Truncates(n) /\ \E k \in Index : zone[n][k] # 0
        /\ zmap' = zmap \ {b}
        /\ At(t, "freed", [job[t] EXCEPT !.index = i])
        /\ UNCHANGED <<imap, kind, nlinks, zone, entry, inode, fileVars>>
    BY <1>2, <1>3, <1>4 DEF FreeBlock
  <1>6. i \in Index /\ b # 0
    <2>1. {k \in Index : zone[n][k] # 0} \in SUBSET Nat
      BY Sizes DEF Index
    <2>2. i \in {k \in Index : zone[n][k] # 0}
      BY <1>3, <1>5, <2>1, LeastNumber
    <2> QED
      BY <1>4, <2>2
  <1>7. /\ ViewInv' /\ NamesInv' /\ Seen(t) /\ Sole(t, Target(t)) /\ Target(t)' = Target(t)
        /\ \A x : Live(x)' <=> Live(x)
        /\ pc'[t] = "freed" /\ job'[t].index = i
        /\ \A u \in Task \ {t} : Target(u)' # Target(t)
    BY <1>5, Truncating
  <1>8. n = Target(t) /\ n \in Inode /\ n \in imap
    BY <1>2, <1>5, <1>7 DEF Sole
  <1>9. Touches(t, n)
    BY <1>5, <1>7, <1>8, SoleTouches
  <1>10. \A k : ~Freeing(n, k)
    BY <1>5, <1>7, <1>8 DEF Sole
  <1>11. \A k : Freeing(n, k)' <=> k = i
    BY <1>7, <1>8 DEF Freeing
  <1>12. Owns(n, i, b) /\ \A k \in Index : \A c : Owns(n, k, c)' <=> Owns(n, k, c) /\ k # i
    BY <1>4, <1>5, <1>6, <1>8, <1>10, <1>11 DEF Owns, Truncates
  <1>13. BlocksInv'
    BY <1>1, <1>5, <1>6, <1>7, <1>8, <1>9, <1>12, BlockFreed
  <1> QED
    BY <1>7, <1>13 DEF Kept

LEMMA ClearZoneKeeps ==
    ASSUME DiskInv, CountInv', NEW t \in Task, ClearZone(t)
    PROVE  Kept
  <1>1. /\ TypeOK /\ HeldRight /\ PlacesRight /\ BlocksInv
        /\ \A u \in Task : Shape(pwd[u], fd[u], pc[u], job[u])
        /\ job[t] \in Job
    BY Base
  <1>2. PICK n, i : n = Desc(job[t].mem) /\ i = job[t].index
    OBVIOUS
  <1>3. /\ pc[t] = "freed" /\ zone' = [zone EXCEPT ![n][i] = 0] /\ zmap' = zmap
        /\ At(t, "trunc", [job[t] EXCEPT !.index = 0])
        /\ UNCHANGED <<imap, kind, nlinks, entry, inode, fileVars>>
    BY <1>2 DEF ClearZone, Cleared
  <1>4. i \in Index
    BY <1>1, <1>2, <1>3 DEF Shape, Job
  <1>5. /\ ViewInv' /\ NamesInv' /\ Seen(t) /\ Sole(t, Target(t)) /\ Target(t)' = Target(t)
        /\ \A x : Live(x)' <=> Live(x)
        /\ pc'[t] = "trunc"
        /\ \A u \in Task \ {t} : Target(u)' # Target(t)
    BY <1>3, Truncating
  <1>6. n = Target(t) /\ n \in Inode /\ n \in imap
    BY <1>2, <1>3, <1>5 DEF Sole
  <1>7. \A x \in Inode : \A k \in Index : zone'[x][k] = IF x = n /\ k = i THEN 0 ELSE zone[x][k]
    BY <1>1, <1>3, <1>4, <1>6 DEF TypeOK
  <1>8. \A x \in Inode \ {n} : zone'[x] = zone[x]
    BY <1>1, <1>3, <1>6 DEF TypeOK
  <1>9. Touches(t, n)
    BY <1>3, <1>5, <1>6, <1>8, SoleTouches
  <1>10. \A k : Freeing(n, k) <=> k = i
    BY <1>2, <1>3, <1>5, <1>6 DEF Sole
  <1>11. \A k : ~(Freeing(n, k)')
    BY <1>5, <1>6 DEF Freeing
  <1>12. \A k \in Index : \A c : Owns(n, k, c)' <=> Owns(n, k, c)
    BY <1>3, <1>6, <1>7, <1>10, <1>11 DEF Owns
  <1>13. BlocksInv'
    BY <1>1, <1>3, <1>5, <1>9, <1>12, BlocksStay
  <1> QED
    BY <1>5, <1>13 DEF Kept
-----------------------------------------------------------------------------
\* inode_truncate is done: what the call that frees its inode starts from.
LEMMA Freed ==
    ASSUME DiskInv, CountInv', NEW t \in Task, pc[t] \in {"trunc", "ifreed"}, job[t].call # "creat"
    PROVE  LET n == Target(t)
               d == Home(t) IN
           /\ Sole(t, n) /\ d \in Inode /\ Live(d) /\ kind[d] = "dir" /\ d # n /\ In(t) = d
            /\ job[t].slot \in Slot \cup {0}
           /\ job[t].mem # 0 /\ job[t].mem \in Mem /\ job[t].dir = pwd[t] /\ job[t].dir # 0 /\ job[t].keep = 0
           /\ Dir(job[t]) = d
           /\ job[t].call \in {"unlink", "rmdir"}
           /\ \A u \in Task : Home(u) # n
           /\ ~Opens(n)
           /\ \A s \in Slot : entry[n][s].nr = 0
           /\ job[t].call = "unlink" => /\ kind[n] = "file" /\ pc[t] = "trunc"
                                        /\ \A x \in Inode : \A r \in Slot : entry[x][r].nr # n
           /\ job[t].call = "rmdir" => /\ kind[n] = "dir" /\ job[t].slot \in Slot
                                       /\ entry[d][job[t].slot].nr = n
                                       /\ \A x \in Inode : \A r \in Slot :
                                              entry[x][r].nr = n => x = d /\ r = job[t].slot
  <1>1. /\ TypeOK /\ HeldRight /\ PlacesRight /\ NamesInv
        /\ Shape(pwd[t], fd[t], pc[t], job[t])
        /\ NumberFacts(t) /\ PlaceRight(t) /\ TaskNames(t) /\ Unused(t)
        /\ Alone(t, job[t].call, Target(t), In(t)) /\ job[t] \in Job /\ pwd[t] \in Mem
    BY Base
  <1>2. PICK n, d, s : n = Target(t) /\ d = Home(t) /\ s = job[t].slot
    OBVIOUS
  <1>3. /\ job[t].call \in {"unlink", "rmdir"} /\ job[t].mem # 0 /\ job[t].dir = pwd[t] /\ job[t].dir # 0
        /\ job[t].keep = 0 /\ job[t].mem \in Mem /\ s \in Slot \cup {0}
        /\ job[t].call = "unlink" => pc[t] = "trunc"
    BY <1>1, <1>2 DEF Shape, OnInode, InDir, Job
  <1>4. Sole(t, n)
    BY <1>2, <1>3, SoleCall DEF Reading
  <1>5. /\ d \in Inode /\ Live(d) /\ kind[d] = "dir" /\ In(t) = d /\ Dir(job[t]) = d
    BY <1>1, <1>2, <1>3 DEF NumberFacts, TaskNames
  <1>6. ~Opens(n) /\ (job[t].call = "rmdir" => \A u \in Task : Home(u) # n)
    BY <1>1, <1>2, <1>3 DEF Unused, Removing
  <1>7. ASSUME job[t].call = "unlink"
        PROVE  /\ kind[n] = "file" /\ \A u \in Task : Home(u) # n
               /\ \A x \in Inode : \A r \in Slot : entry[x][r].nr # n
               /\ \A r \in Slot : entry[n][r].nr = 0
    <2>1. kind[n] = "file" /\ nlinks[n] = 0 /\ pc[t] = "trunc"
      BY <1>1, <1>2, <1>3, <1>7 DEF TaskNames, Unlinked
    <2>2. \A u \in Task : Home(u) # n
      <3>1. \A u \in Task : kind[Home(u)] = "dir"
        BY <1>1 DEF NamesInv, TaskNames
      <3> QED
        BY <2>1, <3>1
    <2>3. n \in Inode /\ Live(n)
      BY <1>4, <2>1 DEF Sole
    <2>4. nlinks[n] = Cardinality(Pointing(n))
      BY <1>1, <2>1, <2>3 DEF NamesInv, Links
    <2>5. Pointing(n) = {}
      <3>1. IsFiniteSet(Pointing(n))
        BY Limits DEF Pointing
      <3> QED
        BY <2>1, <2>4, <3>1, FS_EmptySet
    <2>6. \A x \in Inode : \A r \in Slot : entry[x][r].nr # n
      <3> SUFFICES ASSUME NEW x \in Inode, NEW r \in Slot, entry[x][r].nr = n PROVE FALSE
        OBVIOUS
      <3>1. <<x, r>> \in Pointing(n)
        BY DEF Pointing
      <3> QED
        BY <2>5, <3>1
    <2>7. \A r \in Slot : entry[n][r].nr = 0
      BY <1>1, <2>1, <2>3 DEF NamesInv, EntriesRight
    <2> QED
      BY <2>1, <2>2, <2>6, <2>7
  <1>8. ASSUME job[t].call = "rmdir"
        PROVE  /\ kind[n] = "dir" /\ s \in Slot /\ entry[d][s].nr = n
               /\ \A x \in Inode : \A r \in Slot : entry[x][r].nr = n => x = d /\ r = s
               /\ \A r \in Slot : entry[n][r].nr = 0
    <2>1. Removing(t) /\ pc[t] # "empty"
      BY <1>8 DEF Removing
    <2>2. kind[n] = "dir" /\ s \in Slot /\ entry[d][s].nr = n /\ \A r \in Slot : entry[n][r].nr = 0
      BY <1>1, <1>2, <1>5, <2>1 DEF TaskNames
    <2>3. n # 0
      BY <1>4 DEF Sole
    <2>4. ASSUME NEW x \in Inode, NEW r \in Slot, entry[x][r].nr = n PROVE x = d /\ r = s
      BY <1>1, <1>5, <2>2, <2>3, <2>4 DEF NamesInv, EntriesRight
    <2> QED
      BY <2>2, <2>4
  <1> QED
    BY <1>2, <1>3, <1>4, <1>5, <1>6, <1>7, <1>8

\* creat goes on with the file that it has emptied.
LEMMA EmptiedKeeps ==
    ASSUME DiskInv, CountInv', NEW t \in Task, pc[t] = "trunc", job[t].call = "creat",
           Finish(t, job[t], job[t].mem), UNCHANGED diskVars, inode' = inode
    PROVE  Kept
  <1>1. /\ TypeOK /\ HeldRight /\ PlacesRight
        /\ Shape(pwd[t], fd[t], pc[t], job[t])
        /\ NumberFacts(t) /\ PlaceRight(t) /\ TaskNames(t)
        /\ Alone(t, job[t].call, Target(t), In(t)) /\ job[t] \in Job
    BY Base
  <1>2. PICK j, n : j = job[t] /\ n = Target(t)
    OBVIOUS
  <1>3. /\ j.mem \in Mem /\ j.mem # 0 /\ j.dir = pwd[t] /\ j.dir # 0 /\ j.keep = 0 /\ j.held = <<j.mem, j.dir>>
        /\ j.call = "creat"
    BY <1>1, <1>2 DEF Shape, OnInode, InDir, Job
  <1>4. Keeps(t, j.call, j.mem)' /\ OthersSame(t) /\ UNCHANGED fileVars
    BY <1>1, <1>2, <1>3, FinishedKeeping
  <1>5. After(t, j)
    BY <1>3, <1>4 DEF After
  <1>6. pc'[t] = "put" /\ job'[t].call = "creat" /\ job'[t].keep = j.mem
    BY <1>3, <1>4 DEF Keeps
  <1>7. Table(t, 0)
    BY <1>1, TableUnchanged
  <1>8. Good(j.mem)'
    BY <1>1, <1>2, <1>3 DEF PlaceRight, Good
  <1>9. Fits(t, j, n)
    BY <1>1, <1>2, <1>3, <1>6, <1>8 DEF Fits, PlaceRight, Target, Nr, TargetIn
  <1>10. Clear(t, j, n)
    BY <1>1, <1>2, <1>3, <1>6 DEF Clear, Removing, NumberFacts
  <1>11. ~Fresh(t) /\ ~Fresh(t)'
    BY <1>6 DEF Fresh
  <1>12. Numbers(t, n) /\ Live(Home(t))' /\ kind'[Home(t)'] = "dir" /\ (TaskNames(t)' => Kept)
    BY <1>5, <1>6, <1>7, <1>9, <1>10, <1>11, QuietStep
  <1>13. Target(t)' = n /\ n \in imap /\ imap' = imap
    BY <1>1, <1>2, <1>3, <1>6, <1>12 DEF Numbers, Free, NumberFacts, TaskNames, diskVars
  <1>14. TaskNames(t)'
    BY <1>6, <1>12, <1>13 DEF TaskNames, Leaves, Removing, Unlinked
  <1> QED
    BY <1>12, <1>14

\* ifree of an inode whose blocks are freed.
LEMMA IfreeKeeps ==
    ASSUME DiskInv, CountInv', NEW t \in Task, pc[t] = "trunc", job[t].call # "creat",
           ~Truncates(Target(t)) \/ \A i \in Index : zone[Target(t)][i] = 0,
           imap' = imap \ {Target(t)},
           IF job[t].call = "unlink" THEN Finish(t, job[t], 0)
           ELSE At(t, "ifreed", job[t]) /\ UNCHANGED fileVars,
           UNCHANGED <<zmap, kind, nlinks, zone, entry, inode>>
    PROVE  Kept
  <1>1. /\ TypeOK /\ HeldRight /\ HeldRight' /\ ViewInv /\ PlacesRight /\ NamesInv /\ BlocksInv
        /\ \A u \in Task : Shape(pwd[u], fd[u], pc[u], job[u])
        /\ NumberFacts(t) /\ PlaceRight(t) /\ TaskNames(t) /\ Unused(t)
        /\ Alone(t, job[t].call, Target(t), In(t)) /\ job[t] \in Job
    BY Base
  <1>2. PICK n, d, j : n = Target(t) /\ d = Home(t) /\ j = job[t]
    OBVIOUS
  <1>3. /\ Sole(t, n) /\ d \in Inode /\ Live(d) /\ kind[d] = "dir" /\ d # n /\ In(t) = d
        /\ j.mem # 0 /\ j.dir = pwd[t] /\ j.dir # 0 /\ j.keep = 0
        /\ j.call \in {"unlink", "rmdir"}
        /\ \A u \in Task : Home(u) # n
        /\ ~Opens(n)
        /\ \A s \in Slot : entry[n][s].nr = 0
        /\ j.call = "unlink" => /\ kind[n] = "file"
                                /\ \A x \in Inode : \A r \in Slot : entry[x][r].nr # n
        /\ j.call = "rmdir" => /\ kind[n] = "dir" /\ j.slot \in Slot /\ entry[d][j.slot].nr = n
                               /\ \A x \in Inode : \A r \in Slot : entry[x][r].nr = n => x = d /\ r = j.slot
    BY <1>2, Freed
  <1>4. n \in Inode /\ n # 0 /\ n # Root /\ (\A u \in Task \ {t} : Target(u) # n) /\ Live(n) /\ ~Pending(n)
    BY <1>3 DEF Sole
  <1>5. IF j.call = "unlink" THEN Free(t)' ELSE pc'[t] = "ifreed" /\ job'[t] = j
    BY <1>1, <1>2, Finished, AtGoes DEF fileVars
  <1>6. OthersSame(t) /\ UNCHANGED fileVars
    BY <1>1, <1>2, Finished, AtGoes DEF fileVars
  <1>7. After(t, j)
    BY <1>5, <1>6 DEF After, Alike
  <1>8. Table(t, 0)
    BY <1>1, TableUnchanged
  <1>9. Good(j.mem)'
    BY <1>1, <1>2, <1>3 DEF PlaceRight, Good
  <1>10. ASSUME j.call = "rmdir" PROVE Fits(t, j, n) /\ Clear(t, j, n)
    <2>1. Fits(t, j, n)
      BY <1>1, <1>2, <1>3, <1>5, <1>9, <1>10 DEF Fits, PlaceRight, Target, Nr, TargetIn
    <2> QED
      BY <1>1, <1>2, <1>3, <1>4, <1>10, <2>1 DEF Clear
  <1>11. ViewInv' /\ Views(t) /\ Numbers(t, n)
    BY <1>1, <1>3, <1>5, <1>7, <1>8, <1>10, AfterStep DEF Numbers
  <1>12. Seen(t) /\ Home(t)' = d /\ (\A x : Opens(x)' => Opens(x)) /\ ~Fresh(t) /\ ~Fresh(t)'
    BY <1>2, <1>3, <1>5, <1>11 DEF Views, Numbers, Fresh, Free
  <1>13. pc'[t] = "ifreed" <=> j.call = "rmdir"
    BY <1>3, <1>5 DEF Free
  <1>14. ~Free(t)' => Target(t)' = n /\ In(t)' = d
    BY <1>2, <1>3, <1>5, <1>11 DEF Numbers
  <1>15. About(t, n)
    BY <1>3, <1>4, <1>12, <1>14, <1>13 DEF About, Free
  <1>16. \A x : (Pending(x)' <=> Pending(x))
    BY <1>1, <1>12, <1>15, PendingNext
  <1>17. Leaving(n)' <=> j.call = "rmdir"
    BY <1>1, <1>12, <1>13, <1>15, PendingNext
  <1>18. Changes(t, n, d, 0)
    <2>1. 0 \notin Slot
      BY Sizes DEF Slot
    <2> QED
      BY <1>2, <1>3, <2>1 DEF Changes
  <1>19. Sound(n, d)
    <2>1. \A x \in Inode : \A r \in Slot : entry'[x][r].nr = n => Leaving(n)'
      BY <1>3, <1>17
    <2>2. \A x, y \in Inode : \A r, q \in Slot : entry'[x][r].nr = n /\ entry'[y][q].nr = n => x = y /\ r = q
      BY <1>3
    <2>3. IsDir(n)' <=> IsDir(n)
      BY <1>16 DEF IsDir
    <2> QED
      BY <1>3, <2>1, <2>2, <2>3 DEF Sound
  <1>20. ~Live(n)'
    BY <1>2 DEF Live
  <1>21. Links(n)'
    BY <1>20 DEF Links, Live, Pending, Fresh
  <1>22. Links(d)'
    <2>1. Live(d)' <=> Live(d)
      BY <1>2, <1>3, <1>16 DEF Live
    <2>2. Below(d)' = Below(d)
      <3>1. \A x : IsDir(x)' <=> IsDir(x)
        BY <1>16 DEF IsDir
      <3>2. ASSUME NEW r \in Slot PROVE r \in Below(d)' <=> r \in Below(d)
        <4>1. PICK c : c = entry[d][r].nr
          OBVIOUS
        <4>2. c = entry'[d][r].nr
          BY <4>1
        <4>3. r \in Below(d)' <=> c # 0 /\ IsDir(c)'
          BY <4>2, BelowNext
        <4> QED
          BY <3>1, <4>1, <4>3 DEF Below
      <3> QED
        BY <3>2 DEF Below
    <2> QED
      BY <1>1, <1>3, <2>1, <2>2 DEF Links, NamesInv
  <1>23. TaskNames(t)'
    <2>1. Live(d)' /\ kind'[d] = "dir"
      BY <1>2, <1>3, <1>16 DEF Live
    <2>2. Live(Home(t))' /\ kind'[Home(t)'] = "dir"
      BY <1>12, <2>1 DEF Live, Pending, Fresh
    <2>3. CASE j.call = "unlink"
      BY <1>5, <1>11, <2>2, <2>3, EndedNames DEF Numbers
    <2>4. CASE j.call = "rmdir"
      <3>1. pc'[t] = "ifreed" /\ job'[t] = j /\ Target(t)' = n /\ In(t)' = d
        BY <1>5, <1>14, <2>4 DEF Free
      <3>2. n \notin imap'
        BY <1>2
      <3> QED
        BY <1>3, <2>2, <2>4, <3>1, <3>2 DEF TaskNames, Leaves, Unlinked
    <2> QED
      BY <1>3, <2>3, <2>4
  <1>24. NamesInv'
    BY <1>1, <1>4, <1>12, <1>15, <1>18, <1>19, <1>21, <1>22, <1>23, NamesNext
  <1>25. \A i \in Index : zone[n][i] = 0
    BY <1>2, <1>3 DEF Truncates
  <1>26. Touches(t, n)
    <2>1. \A x \in Inode \ {n} : Live(x)' <=> Live(x)
      BY <1>2, <1>16 DEF Live
    <2>2. pc'[t] # "freed"
      BY <1>3, <1>5 DEF Free
    <2> QED
      BY <1>2, <1>4, <1>12, <1>25, <2>1, <2>2 DEF Touches, Seen
  <1>27. \A i \in Index : \A b : ~Owns(n, i, b) /\ ~(Owns(n, i, b)')
    BY <1>25 DEF Owns
  <1>28. pc'[t] # "block"
    BY <1>3, <1>5 DEF Free
  <1>29. BlocksInv'
    BY <1>1, <1>26, <1>27, <1>28, BlocksStay
  <1> QED
    BY <1>11, <1>24, <1>29 DEF Kept

LEMMA TruncatedKeeps ==
    ASSUME DiskInv, CountInv', NEW t \in Task, Truncated(t)
    PROVE  Kept
  <1>1. /\ pc[t] = "trunc" /\ UNCHANGED <<zmap, kind, nlinks, zone, entry, inode>>
        /\ ~Truncates(Desc(job[t].mem)) \/ \A k \in Index : zone[Desc(job[t].mem)][k] = 0
        /\ \/ /\ job[t].call = "creat"
              /\ Finish(t, job[t], job[t].mem)
              /\ UNCHANGED imap
           \/ /\ job[t].call # "creat"
              /\ imap' = imap \ {Nr(job[t].mem)}
              /\ IF job[t].call = "unlink" THEN Finish(t, job[t], 0)
                 ELSE At(t, "ifreed", job[t]) /\ UNCHANGED fileVars
    BY DEF Truncated, Nr
  <1>2. job[t].call = "creat" => Kept
    BY <1>1, EmptiedKeeps DEF diskVars
  <1>3. ASSUME job[t].call # "creat" PROVE Kept
    <2>1. Sole(t, Target(t))
      BY <1>1, <1>3, Freed
    <2>2. Target(t) = Desc(job[t].mem) /\ Target(t) = Nr(job[t].mem)
      BY <2>1 DEF Sole
    <2>3. /\ ~Truncates(Target(t)) \/ \A i \in Index : zone[Target(t)][i] = 0
          /\ imap' = imap \ {Target(t)}
          /\ IF job[t].call = "unlink" THEN Finish(t, job[t], 0)
             ELSE At(t, "ifreed", job[t]) /\ UNCHANGED fileVars
      BY <1>1, <1>3, <2>2
    <2> QED
      BY <1>1, <1>3, <2>3, IfreeKeeps
  <1> QED
    BY <1>2, <1>3
-----------------------------------------------------------------------------
LEMMA WidthLess == ASSUME NEW a \in 1 .. 255 PROVE (a + 255) % 256 = a - 1
  OBVIOUS

LEMMA WidthMore == ASSUME NEW a \in 0 .. 254 PROVE (a + 1) % 256 = a + 1
  OBVIOUS

\* rmdir erases the entry of the directory that it has freed, and takes it
\* from the table.
LEMMA RmdiredKeeps ==
    ASSUME DiskInv, CountInv', NEW t \in Task, Rmdired(t)
    PROVE  Kept
  <1>1. /\ TypeOK /\ HeldRight /\ HeldRight' /\ ViewInv /\ PlacesRight /\ NamesInv /\ BlocksInv
        /\ inode \in [Mem -> InodeRecord]
        /\ \A u \in Task : Shape(pwd[u], fd[u], pc[u], job[u])
        /\ \A u \in Task : NumberFacts(u)
        /\ TaskNames(t)
    BY Base
  <1>2. PICK n, d, j, s : n = Target(t) /\ d = Home(t) /\ j = job[t] /\ s = job[t].slot
    OBVIOUS
  <1>3. pc[t] = "ifreed" /\ j.call = "rmdir"
    BY <1>1, <1>2 DEF Rmdired, Shape
  <1>4. /\ Sole(t, n) /\ d \in Inode /\ Live(d) /\ kind[d] = "dir" /\ d # n /\ In(t) = d /\ Dir(j) = d
        /\ j.mem # 0 /\ j.mem \in Mem /\ j.dir = pwd[t] /\ j.dir # 0 /\ j.keep = 0
        /\ \A u \in Task : Home(u) # n
        /\ ~Opens(n)
        /\ \A r \in Slot : entry[n][r].nr = 0
        /\ kind[n] = "dir" /\ s \in Slot /\ entry[d][s].nr = n
        /\ \A x \in Inode : \A r \in Slot : entry[x][r].nr = n => x = d /\ r = s
    BY <1>2, <1>3, Freed
  <1>5. /\ n \in Inode /\ n # 0 /\ n # Root /\ (\A u \in Task \ {t} : Target(u) # n) /\ ~Pending(n)
        /\ n = Desc(j.mem) /\ n = Nr(j.mem)
    BY <1>2, <1>4 DEF Sole
  <1>6. n \notin imap
    BY <1>1, <1>2, <1>3, <1>5 DEF TaskNames
  <1>7. /\ nlinks' = [[nlinks EXCEPT ![n] = 0] EXCEPT ![d] = (@ + 255) % 256]
        /\ inode' = [inode EXCEPT ![j.mem].nr = 0]
        /\ entry' = [entry EXCEPT ![d][s] = NoEntry]
        /\ Finish(t, j, 0)
        /\ UNCHANGED <<imap, zmap, kind, zone>>
    BY <1>2, <1>4, <1>5 DEF Rmdired
  <1>8. Free(t)' /\ OthersSame(t) /\ UNCHANGED fileVars /\ After(t, j)
    BY <1>1, <1>7, Finished DEF After
  <1>9. Table(t, j.mem)
    <2>1. PICK g : g = j.mem
      OBVIOUS
    <2>2. TableStep(g) /\ NewRight(t) /\ inode'[g].nr = 0 /\ inode'[g].desc = inode[g].desc
      BY <1>1, <1>4, <1>7, <2>1, TableDrops
    <2>3. inode[g].desc # 0
      BY <1>5, <2>1 DEF Desc
    <2>4. g # Root
      BY <1>1, <1>5, <2>1 DEF PlacesRight
    <2>5. \A u \in Task : pwd[u] # g
      BY <1>4, <1>5, <2>1 DEF Home
    <2>6. \A u \in Task \ {t} : job[u].mem # g /\ job[u].keep # g
      <3>1. \A u \in Task \ {t} : /\ job[u].mem # 0 => Target(u) = Nr(job[u].mem)
                                  /\ job[u].keep # 0 => Target(u) = Nr(job[u].keep)
        BY <1>1 DEF NumberFacts
      <3> QED
        BY <1>4, <1>5, <2>1, <3>1
    <2>7. \A f \in File : file[f].count > 0 => file[f].inode # g
      BY <1>4, <1>5, <2>1 DEF Opens
    <2> QED
      BY <1>3, <1>4, <2>1, <2>2, <2>3, <2>4, <2>5, <2>6, <2>7 DEF Table, Spares
  <1>10. ViewInv' /\ Views(t) /\ Numbers(t, n)
    BY <1>1, <1>8, <1>9, AfterStep DEF Numbers
  <1>11. /\ Seen(t) /\ Home(t)' = d /\ (\A x : Opens(x)' => Opens(x)) /\ ~Fresh(t) /\ ~Fresh(t)'
         /\ pc'[t] \notin {"ifreed", "freed", "block"}
    BY <1>2, <1>3, <1>8, <1>10 DEF Views, Numbers, Fresh, Free
  <1>12. About(t, n)
    BY <1>2, <1>4, <1>5, <1>11 DEF About
  <1>13. \A x : (Pending(x)' <=> Pending(x))
    BY <1>1, <1>11, <1>12, PendingNext
  <1>14. \A x : Live(x)' <=> Live(x)
    BY <1>7, <1>13 DEF Live
  <1>15. \A x \in Inode : \A r \in Slot : entry'[x][r] = IF x = d /\ r = s THEN NoEntry ELSE entry[x][r]
    BY <1>1, <1>4, <1>7 DEF TypeOK
  <1>16. Changes(t, n, d, s)
    <2>1. \A x \in Inode \ {n} : x # d => nlinks'[x] = nlinks[x]
      BY <1>1, <1>4, <1>5, <1>7 DEF TypeOK
    <2>2. entry'[d][s].nr = 0
      BY <1>4, <1>15 DEF NoEntry
    <2>3. {entry[d][s].nr, entry'[d][s].nr} \subseteq {0, n}
      BY <1>4, <2>2
    <2>4. \A x \in Inode : \A r \in Slot : entry'[x][r] = entry[x][r] \/ (x = d /\ r = s)
      BY <1>15
    <2>5. \A x \in Inode \ {n} : (x \in imap' <=> x \in imap) /\ kind'[x] = kind[x]
      BY <1>7
    <2> QED
      BY <1>4, <2>1, <2>2, <2>3, <2>4, <2>5 DEF Changes
  <1>17. \A x \in Inode : \A r \in Slot : entry'[x][r].nr # n
    BY <1>4, <1>5, <1>15 DEF NoEntry
  <1>18. Sound(n, d)
    <2>1. \A x \in Inode \ {d} : \A r \in Slot : entry[x][r].nr # n
      BY <1>4
    <2> QED
      BY <1>4, <1>17, <2>1 DEF Sound
  <1>19. Links(n)'
    <2>1. ~(Live(n)')
      BY <1>6, <1>14 DEF Live
    <2> QED
      BY <2>1 DEF Links, Live, Pending, Fresh
  <1>20. Links(d)'
    <2>1. Below(d)' = Below(d) \ {s} /\ s \in Below(d)
      <3>1. \A x : IsDir(x)' <=> IsDir(x)
        BY <1>7, <1>13 DEF IsDir
      <3>2. ASSUME NEW r \in Slot PROVE r \in Below(d)' <=> r \in Below(d) /\ r # s
        <4>1. PICK c : c = entry'[d][r].nr
          OBVIOUS
        <4>2. r \in Below(d)' <=> c # 0 /\ IsDir(c)'
          BY <4>1, BelowNext
        <4>3. CASE r = s
          <5>1. c = 0
            BY <1>4, <1>15, <4>1, <4>3 DEF NoEntry
          <5> QED
            BY <4>2, <4>3, <5>1
        <4>4. CASE r # s
          <5>1. c = entry[d][r].nr
            BY <1>4, <1>15, <4>1, <4>4
          <5> QED
            BY <3>1, <4>2, <4>4, <5>1 DEF Below
        <4> QED
          BY <4>3, <4>4
      <3>3. s \in Below(d)
        BY <1>4, <1>5 DEF Below, IsDir
      <3> QED
        BY <3>2, <3>3 DEF Below
    <2>2. Below(d) \in SUBSET Slot
      BY DEF Below
    <2>3. /\ Cardinality(Below(d)) \in Nat \ {0}
          /\ Cardinality(Below(d) \ {s}) = Cardinality(Below(d)) - 1
      BY <2>1, <2>2, Limits, OneLess
    <2>4. nlinks[d] = 2 + Cardinality(Below(d))
      BY <1>1, <1>4 DEF NamesInv, Links
    <2>5. nlinks[d] \in 1 .. 255
      <3>1. nlinks[d] \in 0 .. 255
        BY <1>1, <1>4 DEF TypeOK
      <3> QED
        BY <2>3, <2>4, <3>1
    <2>6. nlinks'[d] = nlinks[d] - 1
      <3>1. nlinks'[d] = (nlinks[d] + 255) % 256
        <4>1. nlinks \in [Inode -> 0 .. 255]
          BY <1>1 DEF TypeOK
        <4> QED
          BY <1>4, <1>5, <1>7, <4>1
      <3> QED
        BY <2>5, <3>1, WidthLess
    <2>7. nlinks'[d] = 2 + Cardinality(Below(d)')
      BY <2>1, <2>3, <2>4, <2>6
    <2>8. kind'[d] = "dir"
      BY <1>4, <1>7
    <2> QED
      BY <2>7, <2>8 DEF Links
  <1>21. TaskNames(t)'
    <2>1. Live(d)' /\ kind'[d] = "dir"
      BY <1>4, <1>7, <1>14
    <2>2. Live(Home(t))' /\ kind'[Home(t)'] = "dir"
      BY <1>11, <2>1 DEF Live, Pending, Fresh
    <2> QED
      BY <1>8, <1>10, <2>2, EndedNames DEF Numbers
  <1>22. NamesInv'
    BY <1>1, <1>5, <1>11, <1>12, <1>16, <1>18, <1>19, <1>20, <1>21, NamesNext
  <1>23. \A i \in Index : zone[n][i] = 0
    BY <1>1, <1>5, <1>6 DEF BlocksInv, ZonesRight, Live
  <1>24. Touches(t, n)
    BY <1>3, <1>5, <1>7, <1>11, <1>14, <1>23 DEF Touches, Seen
  <1>25. \A i \in Index : \A b : ~Owns(n, i, b) /\ ~(Owns(n, i, b)')
    BY <1>7, <1>23 DEF Owns
  <1>26. BlocksInv'
    BY <1>1, <1>3, <1>7, <1>11, <1>24, <1>25, BlocksStay
  <1> QED
    BY <1>10, <1>22, <1>26 DEF Kept
-----------------------------------------------------------------------------
\* The numbers that a u8 can count: what points to an inode, and the
\* directories in a directory with its own two links.
Countable == NInode * NSlot <= 255 /\ NSlot <= 253

\* add_entry finds a free entry.
LEMMA AddFinds ==
    ASSUME DiskInv, CountInv', NEW t \in Task, Add(t)
    PROVE  LET d == Home(t)
               s == Least(AddSlot(d, job[t].name)) IN
           /\ pc[t] = "add" /\ Dir(job[t]) = d /\ In(t) = d /\ d \in Inode /\ Live(d) /\ kind[d] = "dir"
           /\ s \in Slot /\ entry[d][s].nr = 0
           /\ job[t].dir = pwd[t] /\ job[t].dir # 0 /\ job[t].keep = 0 /\ job[t].nr = 0 /\ job[t].call \in Adding
           /\ \A u \in Task \ {t} : /\ job[u].call \in Adding /\ job[u].dir # 0 => In(u) # d
                                    /\ Removing(u) => Target(u) # d
  <1>1. /\ TypeOK /\ HeldRight /\ PlacesRight
        /\ Shape(pwd[t], fd[t], pc[t], job[t])
        /\ NumberFacts(t) /\ TaskNames(t) /\ (\A u \in Task : Unused(u))
        /\ Alone(t, job[t].call, Target(t), In(t)) /\ job[t] \in Job
    BY Base
  <1>2. pc[t] = "add" /\ AddSlot(Dir(job[t]), job[t].name) # {}
    BY DEF Add
  <1>3. PICK d, s : d = Home(t) /\ s = Least(AddSlot(d, job[t].name))
    OBVIOUS
  <1>4. /\ job[t].dir = pwd[t] /\ job[t].dir # 0 /\ job[t].keep = 0 /\ job[t].nr = 0 /\ job[t].call \in Adding
    BY <1>1, <1>2 DEF Shape, InDir, OnInode, Adding, Creating
  <1>5. /\ Dir(job[t]) = d /\ In(t) = d /\ d \in Inode /\ Live(d) /\ kind[d] = "dir" /\ d # 0
    BY <1>1, <1>3, <1>4 DEF NumberFacts, TaskNames
  <1>6. Matching(d, job[t].name) = {}
    BY <1>1, <1>2, <1>5 DEF TaskNames, Matching
  <1>7. s \in AddSlot(d, job[t].name)
    <2>1. AddSlot(d, job[t].name) \in SUBSET Nat
      BY Sizes DEF AddSlot, Matching, Slot
    <2> QED
      BY <1>2, <1>3, <1>5, <2>1, LeastNumber
  <1>8. s \in Slot /\ entry[d][s].nr = 0
    BY <1>6, <1>7 DEF AddSlot
  <1>9. \A u \in Task \ {t} : /\ job[u].call \in Adding /\ job[u].dir # 0 => In(u) # d
                              /\ Removing(u) => Target(u) # d
    BY <1>1, <1>3, <1>4, <1>5 DEF Alone, Unused
  <1> QED
    BY <1>2, <1>3, <1>4, <1>5, <1>8, <1>9

\* link adds an entry for the inode n.
LEMMA LinkedKeeps ==
    ASSUME DiskInv, CountInv', NEW t \in Task, Add(t), job[t].call = "link", Countable
    PROVE  Kept
  <1>1. /\ TypeOK /\ HeldRight /\ HeldRight' /\ ViewInv /\ PlacesRight /\ NamesInv /\ BlocksInv
        /\ \A u \in Task : Shape(pwd[u], fd[u], pc[u], job[u])
        /\ NumberFacts(t) /\ PlaceRight(t) /\ TaskNames(t)
        /\ Alone(t, job[t].call, Target(t), In(t))
    BY Base
  <1>2. PICK n, d, j, s : n = Target(t) /\ d = Home(t) /\ j = job[t] /\ s = Least(AddSlot(d, job[t].name))
    OBVIOUS
  <1>3. /\ pc[t] = "add" /\ Dir(j) = d /\ In(t) = d /\ d \in Inode /\ Live(d) /\ kind[d] = "dir"
        /\ s \in Slot /\ entry[d][s].nr = 0
        /\ j.nr = 0
        /\ \A u \in Task \ {t} : /\ job[u].call \in Adding /\ job[u].dir # 0 => In(u) # d
                                 /\ Removing(u) => Target(u) # d
    BY <1>2, AddFinds
  <1>4. j.mem # 0
    BY <1>1, <1>2, <1>3 DEF Shape, OnInode, Creating, Adding
  <1>5. n # 0 /\ n \in Inode /\ n = Desc(j.mem) /\ n \in imap /\ kind[n] # "dir"
    BY <1>1, <1>2, <1>3, <1>4 DEF NumberFacts, TaskNames
  <1>6. ~Fresh(t)
    BY <1>3 DEF Fresh
  <1>7. /\ \A u \in Task \ {t} : Target(u) # n
        /\ n # Root /\ (\A u \in Task : Home(u) # n) /\ ~Pending(n)
    BY <1>1, <1>2, <1>5, <1>6, Unshared DEF Reading
  <1>8. PICK e : e = [name |-> j.name, nr |-> n]
    OBVIOUS
  <1>9. /\ entry' = [entry EXCEPT ![d][s] = e]
        /\ nlinks' = [nlinks EXCEPT ![n] = (@ + 1) % 256]
        /\ Finish(t, j, 0)
        /\ UNCHANGED <<imap, zmap, kind, zone, inode>>
    BY <1>2, <1>3, <1>5, <1>8 DEF Add
  <1>10. Free(t)' /\ OthersSame(t) /\ UNCHANGED fileVars /\ After(t, j)
    BY <1>1, <1>9, Finished DEF After
  <1>11. Table(t, 0)
    BY <1>1, <1>3, <1>9, TableUnchanged
  <1>12. ViewInv' /\ Views(t) /\ Numbers(t, n)
    BY <1>1, <1>10, <1>11, AfterStep DEF Numbers
  <1>13. /\ Seen(t) /\ Home(t)' = d /\ (\A x : Opens(x)' => Opens(x)) /\ ~Fresh(t)'
         /\ pc'[t] \notin {"ifreed", "freed", "block"}
    BY <1>2, <1>3, <1>10, <1>12 DEF Views, Numbers, Fresh, Free
  <1>14. About(t, n)
    BY <1>2, <1>3, <1>5, <1>6, <1>7, <1>13 DEF About
  <1>15. \A x : (Pending(x)' <=> Pending(x))
    BY <1>1, <1>6, <1>13, <1>14, PendingNext
  <1>16. \A x : Live(x)' <=> Live(x)
    BY <1>9, <1>15 DEF Live
  <1>17. \A x \in Inode : \A r \in Slot : entry'[x][r] = IF x = d /\ r = s THEN e ELSE entry[x][r]
    BY <1>1, <1>3, <1>9 DEF TypeOK
  <1>18. e.nr = n /\ d # n
    BY <1>3, <1>5, <1>8
  <1>19. Changes(t, n, d, s)
    <2>1. \A x \in Inode \ {n} : nlinks'[x] = nlinks[x]
      BY <1>1, <1>5, <1>9 DEF TypeOK
    <2>2. {entry[d][s].nr, entry'[d][s].nr} \subseteq {0, n}
      BY <1>3, <1>17, <1>18
    <2>3. \A x \in Inode : \A r \in Slot : entry'[x][r] = entry[x][r] \/ (x = d /\ r = s)
      BY <1>17
    <2>4. \A x \in Inode \ {n} : (x \in imap' <=> x \in imap) /\ kind'[x] = kind[x]
      BY <1>9
    <2> QED
      BY <1>3, <1>18, <2>1, <2>2, <2>3, <2>4 DEF Changes
  <1>20. Sound(n, d)
    <2>1. \A r \in Slot : entry[n][r].nr = 0
      BY <1>1, <1>5 DEF NamesInv, EntriesRight
    <2>2. ~IsDir(n) /\ ~(IsDir(n)')
      BY <1>5, <1>9 DEF IsDir
    <2>3. kind'[n] # "dir" /\ ~(Pending(n)') /\ n \in imap'
      BY <1>5, <1>7, <1>9, <1>15
    <2> QED
      BY <1>3, <2>1, <2>2, <2>3 DEF Sound
  <1>21. Links(n)'
    <2>1. Pointing(n)' = Pointing(n) \cup {<<d, s>>} /\ <<d, s>> \notin Pointing(n)
      <3>1. <<d, s>> \notin Pointing(n)
        BY <1>3, <1>5 DEF Pointing
      <3>2. \A x \in Inode : \A r \in Slot : entry'[x][r].nr = n <=> entry[x][r].nr = n \/ (x = d /\ r = s)
        BY <1>3, <1>5, <1>17, <1>18
      <3>3. Pointing(n)' = {ds \in Inode \X Slot : entry'[ds[1]][ds[2]].nr = n}
        BY DEF Pointing
      <3>4. ASSUME NEW x \in Inode, NEW r \in Slot
            PROVE  <<x, r>> \in Pointing(n)' <=> <<x, r>> \in Pointing(n) \/ <<x, r>> = <<d, s>>
        BY <3>2, <3>3 DEF Pointing
      <3>5. Pointing(n) \in SUBSET (Inode \X Slot) /\ Pointing(n)' \in SUBSET (Inode \X Slot)
        BY <3>3 DEF Pointing
      <3> QED
        BY <1>3, <3>1, <3>4, <3>5
    <2>2. Pointing(n)' \in SUBSET (Inode \X Slot) /\ Pointing(n) \in SUBSET (Inode \X Slot)
      <3>1. Pointing(n)' = {ds \in Inode \X Slot : entry'[ds[1]][ds[2]].nr = n}
        BY DEF Pointing
      <3> QED
        BY <3>1 DEF Pointing
    <2>3. Cardinality(Pointing(n)') = Cardinality(Pointing(n)) + 1
      <3>1. IsFiniteSet(Pointing(n))
        BY <2>2, Limits
      <3> QED
        BY <2>1, <3>1, OneMore
    <2>4. Cardinality(Pointing(n)) \in Nat /\ Cardinality(Pointing(n)') <= NInode * NSlot
      BY <2>2, Limits
    <2>5. nlinks[n] = Cardinality(Pointing(n))
      BY <1>1, <1>5, <1>7 DEF NamesInv, Links, Live
    <2>6. nlinks[n] \in 0 .. 254
      <3>1. NInode * NSlot \in Nat
        BY Sizes
      <3> QED
        BY <2>3, <2>4, <2>5, <3>1 DEF Countable
    <2>7. nlinks'[n] = nlinks[n] + 1
      <3>1. nlinks'[n] = (nlinks[n] + 1) % 256
        BY <1>1, <1>5, <1>9 DEF TypeOK
      <3> QED
        BY <2>6, <3>1, WidthMore
    <2>8. kind'[n] # "dir"
      BY <1>5, <1>9
    <2> QED
      BY <2>3, <2>5, <2>7, <2>8 DEF Links
  <1>22. Links(d)'
    <2>1. Below(d)' = Below(d)
      <3>1. \A x : IsDir(x)' <=> IsDir(x)
        BY <1>9, <1>15 DEF IsDir
      <3>2. ASSUME NEW r \in Slot PROVE r \in Below(d)' <=> r \in Below(d)
        <4>1. PICK c : c = entry'[d][r].nr
          OBVIOUS
        <4>2. r \in Below(d)' <=> c # 0 /\ IsDir(c)'
          BY <4>1, BelowNext
        <4>3. CASE r = s
          <5>1. c = n
            BY <1>3, <1>17, <1>18, <4>1, <4>3
          <5> QED
            BY <1>3, <1>5, <3>1, <4>2, <4>3, <5>1 DEF Below, IsDir
        <4>4. CASE r # s
          <5>1. c = entry[d][r].nr
            BY <1>3, <1>17, <4>1, <4>4
          <5> QED
            BY <3>1, <4>2, <4>4, <5>1 DEF Below
        <4> QED
          BY <4>3, <4>4
      <3> QED
        BY <3>2 DEF Below
    <2>2. nlinks'[d] = nlinks[d] /\ kind'[d] = kind[d]
      BY <1>1, <1>3, <1>5, <1>9, <1>18 DEF TypeOK
    <2>3. Links(d)
      BY <1>1, <1>3 DEF NamesInv
    <2> QED
      BY <1>3, <2>1, <2>2, <2>3 DEF Links
  <1>23. TaskNames(t)'
    <2>1. Live(d)' /\ kind'[d] = "dir"
      BY <1>3, <1>9, <1>16
    <2>2. Live(Home(t))' /\ kind'[Home(t)'] = "dir"
      BY <1>13, <2>1 DEF Live, Pending, Fresh
    <2> QED
      BY <1>10, <1>12, <2>2, EndedNames DEF Numbers
  <1>24. NamesInv'
    BY <1>1, <1>5, <1>13, <1>14, <1>19, <1>20, <1>21, <1>22, <1>23, NamesNext
  <1>25. BlocksInv'
    BY <1>1, <1>3, <1>9, <1>13, <1>15, BlocksQuiet
  <1> QED
    BY <1>12, <1>24, <1>25 DEF Kept
-----------------------------------------------------------------------------
\* ialloc gives the call inode n.
LEMMA CreatedKeeps ==
    ASSUME DiskInv, CountInv', NEW t \in Task, Add(t), job[t].call # "link"
    PROVE  Kept
  <1>1. /\ TypeOK /\ HeldRight /\ HeldRight' /\ ViewInv /\ PlacesRight /\ NamesInv /\ BlocksInv
        /\ \A u \in Task : Shape(pwd[u], fd[u], pc[u], job[u])
        /\ \A u \in Task : NumberFacts(u) /\ TaskNames(u)
        /\ Alone(t, job[t].call, Target(t), In(t))
        /\ PlaceRight(t) /\ job[t] \in Job
    BY Base
  <1>2. PICK n, d, j, s : n = Least(Inode \ imap) /\ d = Home(t) /\ j = job[t] /\ s = Least(AddSlot(d, job[t].name))
    OBVIOUS
  <1>3. /\ pc[t] = "add" /\ Dir(j) = d /\ In(t) = d /\ d \in Inode /\ Live(d) /\ kind[d] = "dir"
        /\ s \in Slot /\ entry[d][s].nr = 0
        /\ j.nr = 0 /\ j.dir = pwd[t] /\ j.dir # 0 /\ j.keep = 0
    BY <1>2, AddFinds
  <1>4. j.mem = 0 /\ j.call \in Creating /\ j.call \in Adding
    BY <1>1, <1>2, <1>3 DEF Shape, Creating, Adding
  <1>5. PICK k : k = [j EXCEPT !.slot = s, !.nr = n]
    OBVIOUS
  <1>6. /\ Inode \ imap # {} /\ imap' = imap \cup {n}
        /\ entry' = [entry EXCEPT ![d][s].name = j.name]
        /\ At(t, "enter", k)
        /\ UNCHANGED <<nlinks, fileVars>> /\ UNCHANGED <<zmap, kind, zone, inode>>
    BY <1>2, <1>3, <1>5 DEF Add
  <1>7. n \in Inode /\ n \notin imap /\ n # 0
    <2>1. (Inode \ imap) \in SUBSET Nat
      BY Sizes DEF Inode
    <2>2. n \in Inode \ imap
      BY <1>2, <1>6, <2>1, LeastNumber
    <2> QED
      BY <2>2, Sizes DEF Inode
  <1>8. /\ k.slot = s /\ k.nr = n /\ k.call = j.call /\ k.name = j.name /\ k.dir = j.dir /\ k.mem = 0 /\ k.keep = 0
    BY <1>1, <1>2, <1>3, <1>4, <1>5 DEF Job
  <1>9. UNCHANGED fileVars /\ UNCHANGED pwd /\ pc'[t] = "enter" /\ job'[t] = k /\ OthersSame(t)
    BY <1>1, <1>6, AtGoes DEF fileVars
  <1>10. After(t, k)
    BY <1>9 DEF After, Alike
  <1>11. Table(t, 0)
    BY <1>1, <1>3, <1>6, TableUnchanged
  <1>12. \A u \in Task \ {t} : Target(u) # n
    <2> SUFFICES ASSUME NEW u \in Task \ {t}, Target(u) = n PROVE FALSE
      OBVIOUS
    <2>1. pc[u] = "ifreed"
      BY <1>1, <1>7 DEF TaskNames
    <2>2. job[u].call = "rmdir"
      BY <1>1, <2>1 DEF Shape
    <2> QED
      BY <1>1, <1>2, <1>4, <2>2 DEF Alone
  <1>13. /\ n # Root /\ ~Live(n) /\ n # d
         /\ \A u \in Task : Home(u) # n
    BY <1>1, <1>3, <1>7 DEF NamesInv, RootRight, Live, TaskNames
  <1>14. Fits(t, k, n)
    BY <1>3, <1>7, <1>8, <1>9 DEF Fits, TargetIn
  <1>15. Alone(t, j.call, n, d)
    BY <1>1, <1>2, <1>3, <1>12, <1>13 DEF Alone
  <1>16. Clear(t, k, n)
    BY <1>2, <1>3, <1>4, <1>8, <1>9, <1>15 DEF Clear, Removing, Creating, Adding
  <1>17. ViewInv' /\ Views(t) /\ Numbers(t, n)
    BY <1>1, <1>10, <1>11, <1>14, <1>16, AfterStep DEF Numbers
  <1>18. /\ Seen(t) /\ Home(t)' = d /\ (\A x : Opens(x)' => Opens(x))
         /\ ~Fresh(t) /\ Fresh(t)' /\ Target(t)' = n /\ In(t)' = d
    BY <1>2, <1>3, <1>7, <1>8, <1>9, <1>17 DEF Views, Numbers, Fresh, Free
  <1>19. About(t, n)
    BY <1>3, <1>7, <1>8, <1>9, <1>12, <1>13, <1>18 DEF About
  <1>20. (\A x : x # n => (Pending(x)' <=> Pending(x))) /\ Pending(n)'
    BY <1>1, <1>18, <1>19, PendingNext
  <1>21. \A x \in Inode : \A r \in Slot : entry'[x][r].nr = entry[x][r].nr
                                          /\ (entry[x][r].nr # 0 => entry'[x][r] = entry[x][r])
    <2>1. PICK e, f \in [name : Name \cup {NoName}, nr : 0 .. NInode] :
                e = entry[d][s] /\ f = [entry[d][s] EXCEPT !.name = j.name]
      <3>1. entry[d][s] \in [name : Name \cup {NoName}, nr : 0 .. NInode]
        BY <1>1, <1>3 DEF TypeOK
      <3>2. j.name \in Name \cup {NoName}
        BY <1>1, <1>2 DEF Job
      <3> QED
        BY <3>1, <3>2
    <2>2. f.nr = e.nr /\ e.nr = 0
      BY <1>3, <2>1
    <2>3. \A x \in Inode : \A r \in Slot : entry'[x][r] = IF x = d /\ r = s THEN f ELSE entry[x][r]
      BY <1>1, <1>3, <1>6, <2>1 DEF TypeOK
    <2> QED
      BY <2>1, <2>2, <2>3
  <1>22. \A x \in Inode : \A r \in Slot : entry[x][r].nr # n
    <2> SUFFICES ASSUME NEW x \in Inode, NEW r \in Slot, entry[x][r].nr = n PROVE FALSE
      OBVIOUS
    <2>1. Leaving(n)
      BY <1>1, <1>7 DEF NamesInv, EntriesRight
    <2> QED
      BY <1>3, <1>12, <2>1 DEF Leaving
  <1>23. Changes(t, n, d, 0)
    <2>1. 0 \notin Slot
      BY Sizes DEF Slot
    <2>2. \A x \in Inode : \A r \in Slot : entry'[x][r] = entry[x][r] \/ (entry'[x][r].nr = 0 /\ entry[x][r].nr = 0)
      BY <1>21
    <2> QED
      BY <1>3, <1>6, <1>13, <2>1, <2>2 DEF Changes
  <1>24. Sound(n, d)
    <2>1. \A r \in Slot : entry[n][r].nr = 0
      BY <1>1, <1>7, <1>13 DEF NamesInv, EntriesRight
    <2>2. n \in imap'
      BY <1>6
    <2> QED
      BY <1>3, <1>21, <1>22, <2>1, <2>2 DEF Sound
  <1>25. Links(n)'
    BY <1>20 DEF Links, Live, Pending, Fresh
  <1>26. Links(d)'
    <2>1. Below(d)' = Below(d)
      <3>1. \A x : x # n => (IsDir(x)' <=> IsDir(x))
        BY <1>6, <1>20 DEF IsDir
      <3>2. ASSUME NEW r \in Slot PROVE r \in Below(d)' <=> r \in Below(d)
        <4>1. PICK c : c = entry'[d][r].nr
          OBVIOUS
        <4>2. r \in Below(d)' <=> c # 0 /\ IsDir(c)'
          BY <4>1, BelowNext
        <4>3. c = entry[d][r].nr /\ c # n
          BY <1>3, <1>21, <1>22, <4>1
        <4> QED
          BY <3>1, <4>2, <4>3 DEF Below
      <3> QED
        BY <3>2 DEF Below
    <2>2. nlinks'[d] = nlinks[d] /\ kind'[d] = kind[d]
      BY <1>6
    <2>3. Links(d)
      BY <1>1, <1>3 DEF NamesInv
    <2> QED
      BY <1>3, <2>1, <2>2, <2>3 DEF Links
  <1>27. Live(d)' /\ kind'[d] = "dir"
    BY <1>3, <1>6, <1>13, <1>20 DEF Live
  <1>28. TaskNames(t)'
    <2>1. Live(Home(t))' /\ kind'[Home(t)'] = "dir"
      BY <1>18, <1>27 DEF Live, Pending, Fresh
    <2>2. ~Leaves(job[t])' /\ ~Removing(t)' /\ ~Unlinked(t)'
      BY <1>8, <1>9 DEF Leaves, Removing, Unlinked
    <2>3. entry'[d][s].nr = 0 /\ \A x \in Inode : \A r \in Slot : entry'[x][r].nr # n
      BY <1>3, <1>21, <1>22
    <2>4. n \in imap'
      BY <1>6
    <2> QED
      BY <1>3, <1>8, <1>9, <1>18, <2>1, <2>2, <2>3, <2>4 DEF TaskNames
  <1>29. NamesInv'
    BY <1>1, <1>7, <1>18, <1>19, <1>23, <1>24, <1>25, <1>26, <1>28, NamesNext
  <1>30. \A i \in Index : zone[n][i] = 0
    BY <1>1, <1>7, <1>13 DEF BlocksInv, ZonesRight
  <1>31. Touches(t, n)
    <2>1. \A x \in Inode \ {n} : Live(x)' <=> Live(x)
      BY <1>6, <1>20 DEF Live
    <2> QED
      BY <1>3, <1>6, <1>9, <1>12, <1>18, <1>30, <2>1 DEF Touches, Seen
  <1>32. \A i \in Index : \A b : ~Owns(n, i, b) /\ ~(Owns(n, i, b)')
    BY <1>6, <1>30 DEF Owns
  <1>33. BlocksInv'
    BY <1>1, <1>3, <1>6, <1>9, <1>31, <1>32, BlocksStay
  <1> QED
    BY <1>17, <1>29, <1>33 DEF Kept

LEMMA AddKeeps ==
    ASSUME DiskInv, CountInv', NEW t \in Task, Add(t), Countable
    PROVE  Kept
  BY LinkedKeeps, CreatedKeeps

\* The entry of the new inode n gets its number, and iget gets the inode.
LEMMA EnterKeeps ==
    ASSUME DiskInv, CountInv', NEW t \in Task, Enter(t)
    PROVE  Kept
  <1>1. /\ TypeOK /\ HeldRight /\ HeldRight' /\ ViewInv /\ MemRight /\ PlacesRight /\ NamesInv /\ BlocksInv
        /\ TableOK(inode)
        /\ \A u \in Task : Shape(pwd[u], fd[u], pc[u], job[u])
        /\ \A u \in Task : NumberFacts(u) /\ TaskNames(u) /\ Unused(u)
        /\ Alone(t, job[t].call, Target(t), In(t))
        /\ job[t] \in Job /\ pwd[t] \in Mem
    BY Base
  <1>2. PICK n, d, j, s, m : /\ n = job[t].nr /\ d = Home(t) /\ j = job[t] /\ s = job[t].slot
                             /\ m = Place(inode, job[t].nr)
    OBVIOUS
  <1>3. pc[t] = "enter" /\ Found(inode, n) # {} /\ inode' = Getting(inode, m, n)
    BY <1>2 DEF Enter
  <1>4. /\ j.dir = pwd[t] /\ j.dir # 0 /\ j.keep = 0 /\ j.call \in Creating /\ j.mem = 0 /\ j.held = <<j.dir>>
        /\ n # 0 /\ j.nr = n
    BY <1>1, <1>2, <1>3 DEF Shape, InDir
  <1>5. /\ d \in Inode /\ Live(d) /\ kind[d] = "dir" /\ Dir(j) = d /\ In(t) = d /\ d # 0
        /\ n = Target(t) /\ n \in Inode /\ n \in imap
    BY <1>1, <1>2, <1>3, <1>4 DEF NumberFacts, TaskNames
  <1>6. /\ s \in Slot /\ entry[d][s].nr = 0
        /\ \A x \in Inode : \A r \in Slot : entry[x][r].nr # n
    <2>1. /\ s \in Slot /\ entry[In(t)][s].nr = 0
          /\ \A x \in Inode : \A r \in Slot : entry[x][r].nr # job[t].nr
      <3>1. TaskNames(t)
        BY <1>1
      <3> QED
        BY <1>2, <1>3, <3>1 DEF TaskNames
    <2> QED
      BY <1>2, <1>5, <2>1
  <1>7. Fresh(t) /\ Pending(n) /\ ~Live(n)
    BY <1>2, <1>3, <1>4 DEF Fresh, Pending, Live
  <1>8. /\ \A u \in Task \ {t} : Target(u) # n
        /\ n # Root /\ n # d /\ \A u \in Task : Home(u) # n
    <2>1. \A u \in Task \ {t} : Target(u) # n
      BY <1>1, <1>2, <1>4, <1>5 DEF Alone, Creating, Adding, Reading
    <2>2. n # Root
      BY <1>1, <1>7 DEF NamesInv, RootRight
    <2> QED
      BY <1>1, <1>5, <1>7, <2>1, <2>2 DEF TaskNames
  <1>9. /\ m \in Mem /\ inode'[m].used /\ inode'[m].nr = n /\ inode'[m].desc = inode[m].desc
        /\ TableStep(0)
        /\ \A o \in Mem : inode'[o].used /\ ~inode[o].used =>
               o = m /\ inode'[o].desc = 0 /\ \A q \in Mem : inode[q].used => inode[q].nr # n
        /\ inode[m].used => inode[m].nr = n
    BY <1>1, <1>2, <1>3, <1>5, TableGets DEF Same
  <1>10. inode[m].used => inode[m].desc # 0
    <2> SUFFICES ASSUME inode[m].used, inode[m].desc = 0 PROVE FALSE
      OBVIOUS
    <2>1. PICK u \in Task : pc[u] = "load" /\ job[u].mem = m
      BY <1>1, <1>9 DEF MemRight
    <2>2. Target(u) = n
      BY <1>1, <1>9, <2>1 DEF NumberFacts, Nr, Mem
    <2> QED
      BY <1>3, <1>8, <2>1, <2>2
  <1>11. PICK k : k = With(j, m)
    OBVIOUS
  <1>12. /\ k \in Job /\ k.mem = m /\ k.dir = pwd[t] /\ k.keep = 0
         /\ k.nr = n /\ k.call = j.call /\ k.slot = s
    <2>1. <<m>> \o <<pwd[t]>> = <<m, pwd[t]>> /\ <<m, pwd[t]>> \in Seq(Mem)
      BY <1>1, <1>9, Join
    <2>2. k = [j EXCEPT !.mem = m, !.held = <<m, pwd[t]>>]
      <3>1. k = [j EXCEPT !.mem = m, !.held = <<m>> \o j.held]
        BY <1>11 DEF With
      <3>2. <<m>> \o j.held = <<m, pwd[t]>>
        BY <1>4, <2>1, Zenon
      <3> QED
        BY <3>1, <3>2
    <2>3. k \in Job
      <3>1. j \in Job /\ m \in Mem /\ <<m, pwd[t]>> \in Seq(Mem)
        BY <1>1, <1>2, <1>9, <2>1
      <3> QED
        BY <2>2, <3>1 DEF Job
    <2> QED
      BY <1>1, <1>2, <1>4, <1>9, <2>2, <2>3 DEF Job
  <1>13. k.mem # 0
    BY <1>9, <1>12 DEF Mem
  <1>14. /\ entry' = [entry EXCEPT ![d][s].nr = n]
         /\ At(t, "load", k)
         /\ UNCHANGED <<imap, zmap, kind, nlinks, zone, fileVars>>
    BY <1>2, <1>3, <1>4, <1>5, <1>10, <1>11 DEF Enter
  <1>15. UNCHANGED fileVars /\ pc'[t] = "load" /\ job'[t] = k /\ OthersSame(t)
    BY <1>1, <1>14, AtGoes DEF fileVars
  <1>16. After(t, k)
    BY <1>15 DEF After, Alike
  <1>17. Table(t, 0)
    <2>1. NewRight(t)
      BY <1>9, <1>12, <1>15 DEF NewRight
    <2> QED
      BY <1>3, <1>9, <2>1 DEF Table, Spares
  <1>18. Fits(t, k, n)
    BY <1>4, <1>9, <1>12, <1>15 DEF Fits, TargetIn
  <1>19. Clear(t, k, n)
    BY <1>1, <1>2, <1>4, <1>5, <1>12, <1>15 DEF Clear, Removing, Creating, Adding
  <1>20. ViewInv' /\ Views(t) /\ Numbers(t, n)
    BY <1>1, <1>16, <1>17, <1>18, <1>19, AfterStep DEF Numbers
  <1>21. /\ Seen(t) /\ Home(t)' = d /\ (\A x : Opens(x)' => Opens(x)) /\ Fresh(t)' /\ Target(t)' = n /\ In(t)' = d
    BY <1>2, <1>4, <1>12, <1>13, <1>15, <1>20 DEF Views, Numbers, Fresh, Free
  <1>22. About(t, n)
    BY <1>2, <1>3, <1>4, <1>5, <1>8, <1>12, <1>15, <1>21 DEF About
  <1>23. \A x : (Pending(x)' <=> Pending(x))
    BY <1>1, <1>7, <1>21, <1>22, PendingNext
  <1>24. \A x : Live(x)' <=> Live(x)
    BY <1>14, <1>23 DEF Live
  <1>25. /\ \A x \in Inode : \A r \in Slot : entry'[x][r] = entry[x][r] \/ (x = d /\ r = s)
         /\ entry'[d][s].nr = n
    <2>1. PICK e \in [name : Name \cup {NoName}, nr : 0 .. NInode] : e = entry[d][s]
      BY <1>1, <1>5, <1>6 DEF TypeOK
    <2>2. PICK f : f = [e EXCEPT !.nr = n]
      OBVIOUS
    <2>3. f.nr = n
      BY <2>1, <2>2
    <2>4. \A x \in Inode : \A r \in Slot : entry'[x][r] = IF x = d /\ r = s THEN f ELSE entry[x][r]
      BY <1>1, <1>5, <1>6, <1>14, <2>1, <2>2 DEF TypeOK
    <2> QED
      BY <1>5, <1>6, <2>3, <2>4
  <1>26. Changes(t, n, d, s)
    <2>1. \A u \in Task \ {t} : /\ job[u].call \in Adding /\ job[u].dir # 0 => In(u) # d
                                /\ Removing(u) => Target(u) # d
      BY <1>1, <1>2, <1>4, <1>5 DEF Alone, Unused, Creating
    <2>2. {entry[d][s].nr, entry'[d][s].nr} \subseteq {0, n}
      BY <1>6, <1>25
    <2>3. \A x \in Inode : /\ x \in imap' <=> x \in imap
                           /\ kind'[x] = kind[x] /\ nlinks'[x] = nlinks[x]
      BY <1>14
    <2> QED
      BY <1>5, <1>6, <1>8, <1>25, <2>1, <2>2, <2>3 DEF Changes
  <1>27. Sound(n, d)
    <2>1. \A r \in Slot : entry[n][r].nr = 0
      BY <1>1, <1>5, <1>7 DEF NamesInv, EntriesRight
    <2>2. n \in imap'
      BY <1>5, <1>14
    <2>3. \A x \in Inode : \A r \in Slot : entry'[x][r].nr = n => x = d /\ r = s
      BY <1>6, <1>25
    <2> QED
      BY <1>5, <1>6, <2>1, <2>2, <2>3 DEF Sound
  <1>28. Links(n)'
    BY <1>7, <1>24 DEF Links, Live, Pending, Fresh
  <1>29. Links(d)'
    <2>1. Below(d)' = Below(d)
      <3>1. \A x : IsDir(x)' <=> IsDir(x)
        BY <1>14, <1>23 DEF IsDir
      <3>2. ASSUME NEW r \in Slot PROVE r \in Below(d)' <=> r \in Below(d)
        <4>1. PICK c : c = entry'[d][r].nr
          OBVIOUS
        <4>2. r \in Below(d)' <=> c # 0 /\ IsDir(c)'
          BY <4>1, BelowNext
        <4>3. CASE r = s
          <5>1. c = n
            BY <1>25, <4>1, <4>3
          <5>2. ~IsDir(n)
            BY <1>7 DEF IsDir
          <5> QED
            BY <1>6, <3>1, <4>2, <4>3, <5>1, <5>2 DEF Below
        <4>4. CASE r # s
          <5>1. c = entry[d][r].nr
            BY <1>5, <1>25, <4>1, <4>4
          <5> QED
            BY <3>1, <4>2, <4>4, <5>1 DEF Below
        <4> QED
          BY <4>3, <4>4
      <3> QED
        BY <3>2 DEF Below
    <2>2. nlinks'[d] = nlinks[d] /\ kind'[d] = kind[d]
      BY <1>14
    <2>3. Links(d)
      BY <1>1, <1>5 DEF NamesInv
    <2> QED
      BY <1>5, <2>1, <2>2, <2>3 DEF Links
  <1>30. TaskNames(t)'
    <2>1. Live(d)' /\ kind'[d] = "dir"
      BY <1>5, <1>14, <1>24
    <2>2. Live(Home(t))' /\ kind'[Home(t)'] = "dir"
      BY <1>21, <2>1 DEF Live, Pending, Fresh
    <2>3. ~Leaves(job[t])' /\ ~Removing(t)' /\ ~Unlinked(t)' /\ job'[t].call # "unlink"
      BY <1>4, <1>12, <1>15 DEF Leaves, Removing, Unlinked, Creating, Adding
    <2>4. n \in imap'
      BY <1>5, <1>14
    <2> QED
      BY <1>6, <1>12, <1>15, <1>21, <1>25, <2>2, <2>3, <2>4 DEF TaskNames
  <1>31. NamesInv'
    BY <1>1, <1>5, <1>21, <1>22, <1>26, <1>27, <1>28, <1>29, <1>30, NamesNext
  <1>32. BlocksInv'
    BY <1>1, <1>3, <1>14, <1>15, <1>21, <1>23, BlocksQuiet
  <1> QED
    BY <1>20, <1>31, <1>32 DEF Kept
-----------------------------------------------------------------------------
\* A step that changes nothing on the disk, after which task t has no call, or
\* puts what it holds: it may open the inode that its call gave it, or go there.
LEMMA CallerStep ==
    ASSUME DiskInv, CountInv', NEW t \in Task, OthersSame(t), TableStep(0), NewRight(t),
           pc[t] \notin {"load", "enter", "ifreed", "freed", "block"}, Free(t)', UNCHANGED diskVars,
           \A f \in File : file'[f].count > 0 =>
                \/ file[f].count > 0 /\ file'[f].inode = file[f].inode
                \/ job[t].keep # 0 /\ file'[f].inode = job[t].keep,
           pwd'[t] = pwd[t] \/ (Leaves(job[t]) /\ pwd'[t] = job[t].keep)
    PROVE  Kept
  <1>1. /\ TypeOK /\ HeldRight /\ HeldRight' /\ ViewInv /\ NamesInv /\ BlocksInv /\ PlacesRight
        /\ \A u \in Task : Shape(pwd[u], fd[u], pc[u], job[u])
        /\ \A u \in Task : NumberFacts(u)
        /\ PlaceRight(t) /\ TaskNames(t)
        /\ Alone(t, job[t].call, Target(t), In(t))
    BY Base
  <1>2. UNCHANGED <<imap, zmap, kind, nlinks, zone, entry>>
    BY DEF diskVars
  <1>3. PICK m : m = pwd'[t]
    OBVIOUS
  <1>4. /\ Good(m) /\ m # 0 /\ Read(m)'
        /\ \/ m = pwd[t] /\ Nr(m) = Home(t)
           \/ Leaves(job[t]) /\ m = job[t].keep /\ Nr(m) = Target(t) /\ Target(t) # 0
    <2>1. Read(m)'
      BY <1>1, <1>3 DEF HeldRight, Read
    <2>2. job[t].keep # 0 => Good(job[t].keep) /\ Nr(job[t].keep) = Target(t) /\ Target(t) # 0
      BY <1>1 DEF PlaceRight, NumberFacts
    <2>3. Good(pwd[t]) /\ Nr(pwd[t]) = Home(t)
      BY <1>1 DEF PlaceRight, Home
    <2> QED
      BY <1>3, <2>1, <2>2, <2>3 DEF Leaves, Good, Mem
  <1>5. Good(m)' /\ Nr(m)' = Nr(m)
    <2>1. PICK g : g = 0
      OBVIOUS
    <2> QED
      BY <1>1, <1>4, <2>1, GoodNext
  <1>6. /\ pc'[t] \in {"user", "put"} /\ job'[t].call \in {"none", "close"}
        /\ job'[t].mem = 0 /\ job'[t].nr = 0 /\ job'[t].dir = 0 /\ job'[t].keep = 0
    BY DEF Free
  <1>7. PlaceRight(t)'
    BY <1>3, <1>5, <1>6 DEF PlaceRight, Good
  <1>8. MemRight' /\ PlacesRight' /\ Views(t)
    <2>1. PICK g : g = 0
      OBVIOUS
    <2>2. Spares(t, g)
      BY <2>1 DEF Spares
    <2>3. ASSUME NEW f \in File, file'[f].count > 0
          PROVE  /\ file'[f].inode # g
                 /\ \/ file[f].count > 0 /\ file'[f].inode = file[f].inode
                    \/ job[t].keep # 0 /\ file'[f].inode = job[t].keep
      <3>1. file'[f].inode # 0
        BY <1>1, <2>3 DEF HeldRight, Read, Mem
      <3> QED
        BY <2>1, <2>3, <3>1
    <2>4. pwd[t] # g /\ (pwd'[t] = pwd[t] \/ (job[t].keep # 0 /\ pwd'[t] = job[t].keep))
      BY <1>1, <2>1 DEF Leaves, PlaceRight, Good, Mem
    <2> QED
      BY <1>1, <1>7, <2>1, <2>2, <2>3, <2>4, StepPlaces
  <1>9. Target(t)' = 0 /\ In(t)' = 0
    BY <1>6 DEF Target, TargetIn, In
  <1>10. Alone(t, job'[t].call, Target(t)', In(t)')
    BY <1>6, <1>9 DEF Alone, Root, Adding, Creating
  <1>11. Unused(t)'
    BY <1>6 DEF Unused, Removing
  <1>12. ViewInv'
    BY <1>1, <1>8, <1>10, <1>11, ApartNext DEF ViewInv
  <1>13. ~Fresh(t) /\ ~Fresh(t)' /\ pc'[t] \notin {"ifreed", "freed", "block"} /\ Seen(t)
    BY <1>6, <1>8 DEF Fresh, Views
  <1>14. \A x : (Pending(x)' <=> Pending(x)) /\ (Leaving(x)' <=> Leaving(x))
    BY <1>13, PendingStays DEF Seen
  <1>15. Nr(m) \in imap /\ ~Pending(Nr(m)) /\ kind[Nr(m)] = "dir"
    <2>1. CASE Nr(m) = Home(t)
      BY <1>1, <2>1 DEF TaskNames, Live
    <2>2. CASE Leaves(job[t]) /\ Nr(m) = Target(t) /\ Target(t) # 0
      <3>1. Target(t) \in imap /\ kind[Target(t)] = "dir"
        BY <1>1, <2>2 DEF TaskNames
      <3>2. ASSUME NEW u \in Task, Fresh(u), job[u].nr = Target(t) PROVE FALSE
        <4>1. u # t /\ job[u].call \in Creating
          BY <1>1, <1>13, <3>2 DEF Fresh, Shape
        <4>2. Target(u) = Target(t)
          BY <1>1, <2>2, <3>2 DEF NumberFacts
        <4> QED
          BY <1>1, <2>2, <4>1, <4>2 DEF Alone, Reading, Creating, Adding
      <3> QED
        BY <2>2, <3>1, <3>2 DEF Pending
    <2> QED
      BY <1>4, <2>1, <2>2
  <1>16. PICK d : d = Nr(m)
    OBVIOUS
  <1>17. Home(t)' = d
    BY <1>3, <1>5, <1>16 DEF Home, Nr
  <1>18. Live(d)' /\ kind'[d] = "dir"
    <2>1. Pending(d)' <=> Pending(d)
      BY <1>14
    <2> QED
      BY <1>2, <1>15, <1>16, <2>1 DEF Live
  <1>19. TaskNames(t)'
    <2>1. Live(Home(t))'
      BY <1>17, <1>18 DEF Live, Pending, Fresh
    <2> QED
      BY <1>9, <1>17, <1>18, <2>1, EndedNames
  <1>20. NamesInv'
    BY <1>1, <1>2, <1>8, <1>13, <1>19, NamesStand
  <1>21. BlocksInv'
    BY <1>1, <1>2, <1>13, <1>14, BlocksQuiet
  <1> QED
    BY <1>12, <1>20, <1>21 DEF Kept

LEMMA PutKeeps ==
    ASSUME DiskInv, CountInv', NEW t \in Task, Put(t)
    PROVE  Kept
  <1> DEFINE j == job[t]
             opens == j.call \in {"open", "creat"} /\ j.keep # 0
             free == {x \in File : file[x].count = 0}
  <1>1. CountInv /\ TypeOK /\ j \in Job
    BY Base
  <1>2. TableStep(0) /\ NewRight(t) /\ pc[t] = "put"
    BY <1>1, TablePuts DEF Put
  <1>3. /\ UNCHANGED diskVars /\ pc' = [pc EXCEPT ![t] = "user"] /\ job' = [job EXCEPT ![t] = NoJob]
        /\ opens => free # {}
        /\ file' = IF opens THEN [file EXCEPT ![Least(free)] = [count |-> 1, inode |-> j.keep]] ELSE file
        /\ pwd' = [pwd EXCEPT ![t] = IF j.call = "chdir" /\ j.keep # 0 THEN j.keep ELSE @]
    <2>1. PICK q : q = [j EXCEPT !.held = << >>]
      OBVIOUS
    <2>2. q.held = << >> /\ q.call = j.call /\ q.keep = j.keep
      BY <1>1, <2>1 DEF Job
    <2>3. Resume(t, q, file) /\ UNCHANGED diskVars
      BY <2>1 DEF Put
    <2> QED
      BY <2>2, <2>3 DEF Resume, At
  <1>4. OthersSame(t) /\ pc'[t] = "user" /\ job'[t] = NoJob
    BY <1>1, <1>3 DEF OthersSame, TypeOK
  <1>5. Free(t)'
    BY <1>4 DEF Free, NoJob
  <1>6. pwd'[t] = pwd[t] \/ (Leaves(j) /\ pwd'[t] = j.keep)
    BY <1>1, <1>3 DEF TypeOK, Leaves
  <1>7. ASSUME NEW f \in File, file'[f].count > 0
        PROVE  \/ file[f].count > 0 /\ file'[f].inode = file[f].inode
               \/ j.keep # 0 /\ file'[f].inode = j.keep
    <2>1. CASE opens
      <3>1. PICK e, r : e = Least(free) /\ r = [count |-> 1, inode |-> j.keep]
        OBVIOUS
      <3>2. file'[f] = IF f = e THEN r ELSE file[f]
        BY <1>1, <1>3, <2>1, <3>1 DEF TypeOK
      <3> QED
        BY <1>7, <2>1, <3>1, <3>2
    <2>2. CASE ~opens
      BY <1>3, <1>7, <2>2
    <2> QED
      BY <2>1, <2>2
  <1> QED
    BY <1>2, <1>3, <1>4, <1>5, <1>6, <1>7, CallerStep

LEMMA InheritKeeps ==
    ASSUME DiskInv, CountInv', NEW t \in Task, Inherit(t)
    PROVE  Kept
  <1>1. CountInv /\ TypeOK
    BY Base
  <1>2. PICK u \in Task : /\ pc[t] = "user" /\ pc[u] = "user" /\ fd[u] # 0
                          /\ file' = [file EXCEPT ![fd[u]].count = @ + 1]
                          /\ UNCHANGED <<diskVars, inode, pwd, pc, job>>
    BY DEF Inherit
  <1>3. PICK f \in File : f = fd[u] /\ file[f].count > 0
    BY <1>1, <1>2, UserFile DEF Closing, TypeOK, CountInv
  <1>4. job[t] = NoJob
    BY <1>1, <1>2, IdleRefs
  <1>5. Free(t)' /\ OthersSame(t)
    BY <1>2, <1>4 DEF Free, NoJob, OthersSame
  <1>6. TableStep(0) /\ NewRight(t)
    BY <1>2, TableStays
  <1>7. ASSUME NEW h \in File, file'[h].count > 0
        PROVE  file[h].count > 0 /\ file'[h].inode = file[h].inode
    <2>1. CASE h = f
      BY <1>1, <1>2, <1>3, <2>1 DEF TypeOK
    <2>2. CASE h # f
      BY <1>1, <1>2, <1>3, <1>7, <2>2 DEF TypeOK
    <2> QED
      BY <2>1, <2>2
  <1> QED
    BY <1>2, <1>5, <1>6, <1>7, CallerStep

LEMMA CloseKeeps ==
    ASSUME DiskInv, CountInv', NEW t \in Task, Close(t)
    PROVE  Kept
  <1>1. CountInv /\ TypeOK
    BY Base
  <1>2. /\ pc[t] = "user" /\ fd[t] # 0 /\ UNCHANGED <<diskVars, inode>>
    BY DEF Close
  <1>3. PICK f \in File : f = fd[t] /\ file[f].count > 0
    BY <1>1, <1>2, UserFile DEF Closing, TypeOK, CountInv
  <1>4. TableStep(0) /\ NewRight(t)
    BY <1>2, TableStays
  <1>5. PICK h, F : /\ Resume(t, [NoJob EXCEPT !.call = "close", !.held = h], F)
                    /\ \/ F = [file EXCEPT ![f] = NoFile]
                       \/ F = [file EXCEPT ![f].count = @ - 1]
    BY <1>3 DEF Close
  <1>6. PICK k : k = [NoJob EXCEPT !.call = "close", !.held = h]
    OBVIOUS
  <1>7. k.call = "close" /\ k.mem = 0 /\ k.nr = 0 /\ k.dir = 0 /\ k.keep = 0
    BY <1>6 DEF NoJob
  <1>8. /\ file' = F /\ pwd'[t] = pwd[t]
        /\ (pc'[t] = "put" /\ job'[t] = k) \/ (pc'[t] = "user" /\ job'[t] = NoJob)
        /\ OthersSame(t)
    <2>1. Resume(t, k, F)
      BY <1>5, <1>6
    <2> QED
      BY <1>1, <1>7, <2>1 DEF Resume, At, OthersSame, TypeOK
  <1>9. Free(t)'
    BY <1>7, <1>8 DEF Free, NoJob
  <1>10. ASSUME NEW e \in File, file'[e].count > 0
         PROVE  file[e].count > 0 /\ file'[e].inode = file[e].inode
    <2>1. CASE e # f
      BY <1>1, <1>5, <1>8, <1>10, <2>1 DEF TypeOK
    <2>2. CASE e = f /\ F = [file EXCEPT ![f].count = @ - 1]
      BY <1>1, <1>3, <1>8, <2>2 DEF TypeOK
    <2>3. CASE e = f /\ F = [file EXCEPT ![f] = NoFile]
      BY <1>1, <1>8, <1>10, <2>3 DEF TypeOK, NoFile
    <2> QED
      BY <1>5, <2>1, <2>2, <2>3
  <1> QED
    BY <1>2, <1>4, <1>8, <1>9, <1>10, CallerStep
-----------------------------------------------------------------------------
LEMMA ChdirRootKeeps ==
    ASSUME DiskInv, CountInv', NEW t \in Task, ChdirRoot(t)
    PROVE  Kept
  <1>1. /\ TypeOK /\ HeldRight /\ HeldRight' /\ PlacesRight /\ NamesInv /\ inode \in [Mem -> InodeRecord]
        /\ \A u \in Task : Alone(u, job[u].call, Target(u), In(u))
    BY Base
  <1>2. /\ pc[t] = "user" /\ inode' = More(inode, Root) /\ UNCHANGED diskVars
        /\ Resume(t, [NoJob EXCEPT !.call = "chdir", !.keep = Root, !.held = <<pwd[t]>>], file)
    BY DEF ChdirRoot
  <1>3. PICK q : q = [NoJob EXCEPT !.call = "chdir", !.keep = Root, !.held = <<pwd[t]>>]
    OBVIOUS
  <1>4. /\ q.call = "chdir" /\ q.keep = Root /\ q.held = <<pwd[t]>>
        /\ q.mem = 0 /\ q.nr = 0 /\ q.dir = 0
    BY <1>3 DEF NoJob
  <1>5. At(t, "put", q) /\ UNCHANGED fileVars /\ UNCHANGED pwd
    <2>1. Resume(t, q, file) /\ q.held # << >>
      BY <1>2, <1>3, <1>4
    <2> QED
      BY <2>1 DEF Resume, fileVars
  <1>6. pc'[t] = "put" /\ job'[t] = q /\ OthersSame(t)
    BY <1>1, <1>5, AtGoes
  <1>7. PICK k : k = [NoJob EXCEPT !.call = "chdir", !.mem = Root]
    OBVIOUS
  <1>8. k.call = "chdir" /\ k.mem = Root /\ k.nr = 0 /\ k.dir = 0 /\ k.keep = 0 /\ Root # 0
    BY <1>7 DEF NoJob, Root
  <1>9. After(t, k)
    BY <1>4, <1>5, <1>6, <1>8 DEF After, Keeps
  <1>10. PICK g, n : g = 0 /\ n = Root
    OBVIOUS
  <1>11. TableStep(g) /\ NewRight(t)
    BY <1>1, <1>2, <1>10, Sizes, TableMore, TableSame
  <1>12. Table(t, g)
    BY <1>2, <1>10, <1>11 DEF Table, Spares
  <1>13. Good(Root)' /\ Nr(Root)' = Root
    <2>1. Root # g /\ Read(Root)' /\ Good(Root) /\ Nr(Root) = Root
      BY <1>1, <1>10 DEF HeldRight, PlacesRight, Root
    <2> QED
      BY <1>1, <1>11, <2>1, GoodNext
  <1>14. Fits(t, k, n)
    BY <1>6, <1>8, <1>10, <1>13 DEF Fits, TargetIn, Nr
  <1>15. Clear(t, k, n)
    <2>1. Alone(t, "chdir", n, 0)
      BY <1>1, <1>10 DEF Alone, Reading, Adding, Creating
    <2> QED
      BY <1>6, <1>8, <2>1 DEF Clear, Removing
  <1>16. ~Fresh(t) /\ ~Fresh(t)'
    BY <1>2, <1>6 DEF Fresh
  <1>17. Numbers(t, n) /\ Live(Home(t))' /\ kind'[Home(t)'] = "dir" /\ (TaskNames(t)' => Kept)
    BY <1>2, <1>6, <1>9, <1>10, <1>12, <1>14, <1>15, <1>16, QuietStep
  <1>18. Target(t)' = Root
    BY <1>4, <1>6, <1>10, <1>17 DEF Numbers, Free
  <1>19. Root \in imap' /\ kind'[Root] = "dir"
    BY <1>1, <1>2 DEF NamesInv, RootRight, Live, diskVars
  <1>20. TaskNames(t)'
    BY <1>4, <1>6, <1>17, <1>18, <1>19 DEF TaskNames, Leaves, Removing, Unlinked
  <1> QED
    BY <1>17, <1>20

LEMMA WriteKeeps ==
    ASSUME DiskInv, CountInv', NEW t \in Task, Write(t), Risks = {}
    PROVE  Kept
  <1>1. /\ TypeOK /\ CountInv /\ HeldRight /\ PlacesRight /\ NamesInv /\ BlocksInv
        /\ \A u \in Task : Shape(pwd[u], fd[u], pc[u], job[u])
        /\ \A u \in Task : NumberFacts(u)
        /\ PlaceRight(t)
    BY Base
  <1>2. PICK m : m = file[fd[t]].inode
    OBVIOUS
  <1>3. /\ pc[t] = "user" /\ fd[t] # 0 /\ kind[Desc(m)] = "file"
        /\ ~Avoided(t, "write", 0, NoName, {Desc(m)})
        /\ UNCHANGED <<imap, kind, nlinks, zone, entry, inode, fileVars>>
    BY <1>2 DEF Write
  <1>4. PICK i \in Index : /\ zone[Desc(m)][i] = 0
                           /\ Balloc(t, [NoJob EXCEPT !.call = "write", !.mem = m], i)
    BY <1>2 DEF Write
  <1>5. PICK b : /\ b \in Block /\ b \notin zmap /\ zmap' = zmap \cup {b}
                 /\ At(t, "block", [NoJob EXCEPT !.call = "write", !.mem = m, !.index = i, !.block = b])
    BY <1>4, FreeBlockFound DEF Balloc
  <1>6. PICK f \in File : f = fd[t] /\ file[f].count > 0
    BY <1>1, <1>3, UserFile DEF Closing, TypeOK, CountInv
  <1>7. PICK n : n = Desc(m)
    OBVIOUS
  <1>8. Good(m) /\ n = Nr(m) /\ Opens(n) /\ m # 0 /\ n # 0
    <2>1. Good(m)
      BY <1>1, <1>2, <1>6 DEF PlacesRight, FilesGood
    <2>2. n = Nr(m) /\ n # 0
      BY <1>7, <2>1 DEF Good, Desc, Nr
    <2> QED
      BY <1>2, <1>6, <2>1, <2>2 DEF Opens, Good, Mem
  <1>9. n \in Inode /\ n \in imap /\ n # Root
    <2>1. n \in 0 .. NInode
      BY <1>1, <1>8 DEF Good, Nr, HeldRight, InodeRecord
    <2>2. n \in Inode
      BY <1>8, <2>1, Sizes DEF Inode
    <2> QED
      BY <1>1, <1>3, <1>7, <1>8, <2>2 DEF NamesInv, RootRight
  <1>10. Alone(t, "write", n, 0)
    BY <1>1, <1>3, <1>7, <1>9, Claimed
  <1>11. \A u \in Task \ {t} : Target(u) # n
    BY <1>8, <1>10 DEF Alone, Reading
  <1>12. ~Pending(n) /\ Live(n)
    BY <1>1, <1>3, <1>9, <1>11 DEF Pending, Fresh, Live, NumberFacts
  <1>13. PICK k : k = [NoJob EXCEPT !.call = "write", !.mem = m]
    OBVIOUS
  <1>14. PICK q : q = [NoJob EXCEPT !.call = "write", !.mem = m, !.index = i, !.block = b]
    OBVIOUS
  <1>15. /\ k.call = "write" /\ k.mem = m /\ k.dir = 0 /\ k.nr = 0 /\ k.keep = 0
         /\ Alike(q, k) /\ q.index = i /\ q.block = b
    BY <1>13, <1>14 DEF NoJob, Alike
  <1>16. pc'[t] = "block" /\ job'[t] = q /\ OthersSame(t)
    BY <1>1, <1>3, <1>5, <1>14, AtGoes DEF fileVars
  <1>17. After(t, k)
    BY <1>3, <1>15, <1>16 DEF After
  <1>18. Table(t, 0)
    BY <1>1, <1>3, TableUnchanged
  <1>19. Fits(t, k, n)
    BY <1>3, <1>8, <1>15, <1>16 DEF Fits, TargetIn, Good, Nr
  <1>20. Clear(t, k, n)
    BY <1>10, <1>15, <1>16 DEF Clear, Removing
  <1>21. ~Fresh(t) /\ ~Fresh(t)'
    BY <1>3, <1>16 DEF Fresh
  <1>22. /\ ViewInv' /\ Seen(t) /\ Numbers(t, n) /\ Live(Home(t))' /\ kind'[Home(t)'] = "dir"
         /\ \A x : Live(x)' <=> Live(x)
         /\ TaskNames(t)' => NamesInv'
    BY <1>3, <1>16, <1>17, <1>18, <1>19, <1>20, <1>21, NamesQuiet
  <1>23. Target(t)' = n
    BY <1>16, <1>22 DEF Numbers, Free
  <1>24. TaskNames(t)'
    BY <1>3, <1>9, <1>15, <1>16, <1>22, <1>23 DEF TaskNames, Leaves, Removing, Unlinked, Alike
  <1>25. Touches(t, n)
    BY <1>3, <1>11, <1>12, <1>16, <1>22 DEF Touches, Seen
  <1>26. \A j : Freeing(n, j)' <=> Freeing(n, j)
    <2>1. \A u \in Task \ {t} : Target(u)' # n
      BY <1>11, <1>22 DEF Seen
    <2> QED
      BY <1>3, <1>11, <1>16, <2>1 DEF Freeing
  <1>27. \A j \in Index : \A c : Owns(n, j, c)' <=> Owns(n, j, c)
    BY <1>3, <1>26 DEF Owns
  <1>28. zone'[Target(t)'][job'[t].index] = 0 /\ kind'[Target(t)'] # "device"
    BY <1>3, <1>4, <1>7, <1>15, <1>16, <1>23
  <1>29. BlocksInv'
    BY <1>1, <1>3, <1>5, <1>9, <1>15, <1>16, <1>25, <1>27, <1>28, BlockGiven
  <1> QED
    BY <1>22, <1>24, <1>29 DEF Kept

\* A step of the system that is none of the file system.
LEMMA StutterKeeps ==
    ASSUME DiskInv, UNCHANGED vars
    PROVE  DiskInv'
  <1>1. UNCHANGED <<imap, zmap, kind, nlinks, zone, entry, inode, pwd, file, fd, pc, job>>
    BY DEF vars, diskVars, fileVars
  <1>2. CountInv'
    BY StepInv DEF DiskInv
  <1>3. ViewInv'
    <2>1. MemRight'
      BY <1>1 DEF DiskInv, ViewInv, MemRight
    <2>2. PlacesRight'
      BY <1>1 DEF DiskInv, ViewInv, PlacesRight, PlaceRight, FilesGood, Good, Nr
    <2>3. Apart'
      BY <1>1 DEF DiskInv, ViewInv, Apart, Alone, Target, TargetIn, In, Nr
    <2>4. \A t \in Task : Unused(t)'
      BY <1>1 DEF DiskInv, ViewInv, Unused, Opens, Target, TargetIn, Home, Removing, Nr
    <2> QED
      BY <2>1, <2>2, <2>3, <2>4 DEF ViewInv
  <1>4. NamesInv'
    <2>1. ASSUME NEW t \in Task PROVE TaskNames(t)'
      <3>1. TaskNames(t)
        BY DEF DiskInv, NamesInv
      <3>2. Target(t)' = Target(t) /\ In(t)' = In(t) /\ Home(t)' = Home(t)
        BY <1>1 DEF Target, TargetIn, In, Home, Nr
      <3>3. \A n : Pending(n)' <=> Pending(n)
        BY <1>1 DEF Pending, Fresh
      <3>4. \A n : Live(n)' <=> Live(n)
        BY <1>1, <3>3 DEF Live
      <3>5. /\ Leaves(job[t])' <=> Leaves(job[t])
            /\ Removing(t)' <=> Removing(t)
            /\ Unlinked(t)' <=> Unlinked(t)
        BY <1>1 DEF Leaves, Removing, Unlinked
      <3> QED
        BY <1>1, <3>1, <3>2, <3>3, <3>4, <3>5 DEF TaskNames
    <2>2. RootRight'
      BY <1>1 DEF DiskInv, NamesInv, RootRight, Live, Pending, Fresh, Opens, Nr
    <2>3. EntriesRight'
      BY <1>1 DEF DiskInv, NamesInv, EntriesRight, Live, Pending, Fresh, Leaving, Target, TargetIn, Nr
    <2>4. \A n \in Inode : Links(n)'
      BY <1>1 DEF DiskInv, NamesInv, Links, Below, IsDir, Pointing, Live, Pending, Fresh
    <2> QED
      BY <2>1, <2>2, <2>3, <2>4 DEF NamesInv
  <1>5. BlocksInv'
    <2>1. BlocksInv
      BY DEF DiskInv
    <2>2. \A t \in Task : Target(t)' = Target(t)
      BY <1>1 DEF Target, TargetIn
    <2>3. \A n, i : Freeing(n, i)' <=> Freeing(n, i)
      BY <1>1, <2>2 DEF Freeing
    <2>4. /\ \A n, i, b : Owns(n, i, b)' <=> Owns(n, i, b)
          /\ \A t, b : Given(t, b)' <=> Given(t, b)
      BY <1>1, <2>3 DEF Owns, Given
    <2>5. \A n : Live(n)' <=> Live(n)
      BY <1>1 DEF Live, Pending, Fresh
    <2>6. ZonesRight'
      BY <1>1, <2>1, <2>5 DEF BlocksInv, ZonesRight
    <2> QED
      BY <1>1, <2>1, <2>2, <2>4, <2>6 DEF BlocksInv
  <1> QED
    BY <1>2, <1>3, <1>4, <1>5 DEF DiskInv
-----------------------------------------------------------------------------
LEMMA InitDisk == Init => DiskInv
  <1> SUFFICES ASSUME Init PROVE DiskInv
    OBVIOUS
  <1>1. /\ imap = {Root} /\ zmap = {1}
        /\ \A n \in Inode : kind[n] = IF n = Root THEN "dir" ELSE "file"
        /\ \A n \in Inode : nlinks[n] = IF n = Root THEN 2 ELSE 0
        /\ \A n \in Inode : \A i \in Index : zone[n][i] = IF n = Root /\ i = 1 THEN 1 ELSE 0
        /\ \A n \in Inode : \A s \in Slot : entry[n][s].nr = 0
        /\ \A t \in Task : pwd[t] = Root /\ pc[t] = "user" /\ job[t] = NoJob
        /\ \A f \in File : file[f].count = 0
    BY DEF Init, NoEntry, NoFile
  <1>2. /\ inode[Root].used /\ inode[Root].nr = Root /\ inode[Root].desc = Root
        /\ \A m \in Mem : inode[m].used => m = Root
        /\ Root # 0 /\ Root \in Mem /\ Root \in Inode
    BY Sizes DEF Init, NoInode, Root
  <1>3. \A t \in Task : /\ job[t].call = "none" /\ job[t].mem = 0 /\ job[t].nr = 0 /\ job[t].dir = 0
                        /\ job[t].keep = 0
    BY <1>1 DEF NoJob
  <1>4. \A t \in Task : Target(t) = 0 /\ In(t) = 0 /\ Home(t) = Root
    BY <1>1, <1>2, <1>3 DEF Target, TargetIn, In, Home, Nr
  <1>5. (\A n : ~Opens(n) /\ ~Pending(n) /\ ~Leaving(n)) /\ \A n : Live(n) <=> n = Root
    BY <1>1 DEF Opens, Pending, Fresh, Leaving, Live
  <1>6. CountInv
    BY InitInv
  <1>7. ViewInv
    <2>1. MemRight
      BY <1>2 DEF MemRight
    <2>2. PlacesRight
      BY <1>1, <1>2, <1>3 DEF PlacesRight, PlaceRight, FilesGood, Good, Nr
    <2>3. Apart
      BY <1>2, <1>3, <1>4 DEF Apart, Alone, Adding, Creating
    <2>4. \A t \in Task : Unused(t)
      BY <1>3 DEF Unused, Removing
    <2> QED
      BY <2>1, <2>2, <2>3, <2>4 DEF ViewInv
  <1>8. NamesInv
    <2>1. \A t \in Task : TaskNames(t)
      BY <1>1, <1>2, <1>3, <1>4, <1>5 DEF TaskNames, Leaves, Removing, Unlinked
    <2>2. RootRight /\ EntriesRight
      BY <1>1, <1>2, <1>5 DEF RootRight, EntriesRight
    <2>3. \A n \in Inode : Links(n)
      <3>1. Below(Root) = {}
        BY <1>1, <1>2 DEF Below
      <3>2. nlinks[Root] = 2 /\ kind[Root] = "dir" /\ Cardinality(Below(Root)) = 0
        BY <1>1, <1>2, <3>1, FS_EmptySet
      <3>3. Links(Root)
        BY <3>2 DEF Links
      <3>4. ASSUME NEW n \in Inode, n # Root PROVE Links(n)
        BY <1>5, <3>4 DEF Links
      <3> QED
        BY <3>3, <3>4
    <2> QED
      BY <2>1, <2>2, <2>3 DEF NamesInv
  <1>9. BlocksInv
    <2>1. \A n : \A i : ~Freeing(n, i)
      BY <1>1 DEF Freeing
    <2>2. \A n \in Inode : \A i \in Index : \A b : Owns(n, i, b) <=> n = Root /\ i = 1 /\ b = 1
      BY <1>1, <1>2, <2>1 DEF Owns
    <2>3. \A t \in Task : \A b : ~Given(t, b)
      BY <1>1 DEF Given
    <2>4. 1 \in Index
      BY Sizes DEF Index
    <2>5. ZonesRight
      BY <1>1, <1>5 DEF ZonesRight
    <2> QED
      BY <1>1, <1>2, <2>2, <2>3, <2>4, <2>5 DEF BlocksInv
  <1> QED
    BY <1>6, <1>7, <1>8, <1>9 DEF DiskInv

LEMMA DiskNext ==
    ASSUME Risks = {}, Countable
    PROVE  DiskInv /\ [Next]_vars => DiskInv'
  <1> SUFFICES ASSUME DiskInv, [Next]_vars PROVE DiskInv'
    OBVIOUS
  <1>1. CountInv'
    BY StepInv DEF DiskInv
  <1>2. NSlot <= 253
    BY DEF Countable
  <1>3. ASSUME NEW t \in Task, Step(t) PROVE Kept
    BY <1>1, <1>2, <1>3, BeginKeeps, ChdirRootKeeps, LoadKeeps, LinkNewKeeps, AddKeeps, EnterKeeps, SetBlockKeeps,
       RmdirEmptyKeeps, FreeBlockKeeps, ClearZoneKeeps, TruncatedKeeps, RmdiredKeeps, PutKeeps, CloseKeeps,
       WriteKeeps, InheritKeeps DEF Step
  <1>4. CASE Next
    <2>1. Kept
      BY <1>3, <1>4 DEF Next
    <2> QED
      BY <1>1, <2>1 DEF DiskInv, Kept
  <1>5. CASE UNCHANGED vars
    BY <1>5, StutterKeeps
  <1> QED
    BY <1>4, <1>5
-----------------------------------------------------------------------------
LEMMA DiskIs ==
    ASSUME DiskInv
    PROVE  /\ HeldRight /\ PlacesRight /\ TypeOK
           /\ \A t \in Task : NumberFacts(t) /\ PlaceRight(t) /\ TaskNames(t) /\ Shape(pwd[t], fd[t], pc[t], job[t])
  BY HeldIs, NumbersAre DEF DiskInv, ViewInv, PlacesRight, NamesInv, CountInv, JobsRight

LEMMA DiskMemory == DiskInv => OneInMemory
  <1> SUFFICES ASSUME DiskInv PROVE OneInMemory
    OBVIOUS
  <1>1. ASSUME NEW m \in Mem, NEW o \in Mem, inode[m].used, inode[o].used, inode[m].nr = inode[o].nr
        PROVE  m = o \/ inode[m].nr = 0
    BY <1>1 DEF DiskInv, ViewInv, MemRight
  <1>2. ASSUME NEW t \in Task, pc[t] \in {"empty", "linkto", "trunc", "freed", "ifreed", "block"}
        PROVE  Desc(job[t].mem) = inode[job[t].mem].nr
    <2>1. job[t].mem # 0
      BY <1>2, DiskIs DEF Shape, OnInode
    <2> QED
      BY <1>2, <2>1, DiskIs DEF PlaceRight, Good, Desc
  <1>3. \A t \in Task : pc[t] # "unread"
    BY DiskIs DEF PlaceRight
  <1> QED
    BY <1>1, <1>2, <1>3 DEF OneInMemory

LEMMA DiskBlocks == DiskInv => BlocksRight
  <1> SUFFICES ASSUME DiskInv PROVE BlocksRight
    OBVIOUS
  <1>1. BlocksInv /\ imap \subseteq Inode
    BY DiskIs DEF DiskInv, TypeOK
  <1>2. ASSUME NEW n \in {k \in imap : kind[k] # "device"}, NEW i \in Owned(n)
        PROVE  Owns(n, i, zone[n][i]) /\ n \in Inode /\ i \in Index
    <2>1. ASSUME NEW t \in Task, pc[t] = "freed", job[t].index = i, Target(t) = n PROVE FALSE
      <3>1. job[t].mem # 0
        BY <2>1, DiskIs DEF Shape, OnInode
      <3>2. Desc(job[t].mem) = n
        BY <2>1, <3>1, DiskIs DEF NumberFacts
      <3> QED
        BY <2>1, <3>2 DEF Owned
    <2> QED
      BY <1>1, <2>1 DEF Owns, Owned, Freeing
  <1>3. BlocksOwned
    <2> SUFFICES ASSUME NEW n \in {k \in imap : kind[k] # "device"}, NEW o \in {k \in imap : kind[k] # "device"},
                        NEW i \in Owned(n)
                 PROVE  /\ zone[n][i] \in zmap
                        /\ \A k \in Owned(o) : zone[n][i] = zone[o][k] => n = o /\ i = k
      BY DEF BlocksOwned
    <2>1. Owns(n, i, zone[n][i]) /\ n \in Inode /\ i \in Index
      BY <1>2
    <2>2. zone[n][i] \in zmap
      BY <1>1, <2>1 DEF BlocksInv
    <2>3. ASSUME NEW k \in Owned(o), zone[n][i] = zone[o][k] PROVE n = o /\ i = k
      <3>1. Owns(o, k, zone[n][i]) /\ o \in Inode /\ k \in Index
        BY <1>2, <2>3
      <3> QED
        BY <1>1, <2>1, <3>1 DEF BlocksInv
    <2> QED
      BY <2>2, <2>3
  <1>4. NoBlockLost
    <2> SUFFICES ASSUME \A t \in Task : pc[t] = "user", NEW b \in zmap
                 PROVE  b \in {zone[n][i] : n \in imap, i \in Index}
      BY DEF NoBlockLost
    <2>1. PICK n \in Inode, i \in Index : Owns(n, i, b)
      BY <1>1 DEF BlocksInv, Given
    <2> QED
      BY <2>1 DEF Owns
  <1> QED
    BY <1>3, <1>4 DEF BlocksRight

LEMMA DiskLinks == DiskInv => LinksRight
  <1> SUFFICES ASSUME DiskInv, NEW n \in imap \ Busy
               PROVE  LET pointing == {ds \in imap \X Slot : /\ kind[ds[1]] = "dir"
                                                             /\ entry[ds[1]][ds[2]].nr = n}
                          below == {entry[n][s].nr : s \in Children(n)}
                      IN  IF kind[n] # "dir" THEN nlinks[n] = Cardinality(pointing)
                          ELSE /\ below \subseteq imap
                               /\ nlinks[n] = 2 + Cardinality({c \in below : kind[c] = "dir"})
    BY DEF LinksRight
  <1>1. /\ EntriesRight /\ n \in Inode /\ n \in imap /\ n # 0 /\ imap \subseteq Inode /\ Links(n)
        /\ \A d \in Inode : \A s \in Slot : entry[d][s].nr \in Inode \cup {0}
    <2>1. TypeOK /\ NamesInv
      BY DiskIs DEF DiskInv
    <2>2. imap \subseteq Inode /\ \A d \in Inode : \A s \in Slot : entry[d][s].nr \in 0 .. NInode
      BY <2>1 DEF TypeOK
    <2>3. 0 .. NInode = Inode \cup {0} /\ 0 \notin Inode
      BY Sizes DEF Inode
    <2>4. n \in imap /\ n \in Inode
      BY <2>2
    <2> QED
      BY <2>1, <2>2, <2>3, <2>4 DEF NamesInv
  <1>2. ASSUME NEW t \in Task PROVE Target(t) # n /\ (job[t].dir # 0 => In(t) # n)
    <2>1. n \notin Working(t)
      BY DEF Busy
    <2>2. job[t].dir # 0 => In(t) = Dir(job[t])
      BY DiskIs DEF NumberFacts
    <2>3. n # Target(t)
      BY <1>1, <2>1, DiskIs DEF Working, NumberFacts
    <2> QED
      BY <2>1, <2>2, <2>3 DEF Working
  <1>3. Live(n)
    BY <1>1, <1>2, DiskIs DEF Live, Pending, Fresh, NumberFacts
  <1>4. CASE kind[n] # "dir"
    <2>1. {ds \in imap \X Slot : kind[ds[1]] = "dir" /\ entry[ds[1]][ds[2]].nr = n} = Pointing(n)
      BY <1>1 DEF Pointing, EntriesRight, Live
    <2> QED
      BY <1>1, <1>3, <1>4, <2>1 DEF Links
  <1>5. CASE kind[n] = "dir"
    <2> DEFINE B == {entry[n][s].nr : s \in Children(n)}
               D == {c \in B : kind[c] = "dir"}
    <2>1. ASSUME NEW s \in Slot, entry[n][s].nr # 0, kind[entry[n][s].nr] = "dir",
                 NEW t \in Task, pc[t] \in {"ifreed", "load"}, Target(t) = entry[n][s].nr, job[t].dir # 0
          PROVE  FALSE
      <3>1. job[t].slot \in Slot /\ entry[In(t)][job[t].slot].nr = Target(t)
        BY <2>1, DiskIs DEF TaskNames, Removing, Shape
      <3>2. In(t) \in Inode
        BY <2>1, DiskIs DEF NumberFacts
      <3>3. In(t) = n
        BY <1>1, <2>1, <3>1, <3>2 DEF EntriesRight
      <3> QED
        BY <1>2, <2>1, <3>3
    <2>2. ASSUME NEW s \in Slot, entry[n][s].nr # 0 PROVE entry[n][s].nr \in imap
      <3> SUFFICES ASSUME NEW t \in Task, pc[t] = "ifreed", Target(t) = entry[n][s].nr PROVE FALSE
        BY <1>1, <2>2 DEF EntriesRight, Leaving
      <3>1. kind[Target(t)] = "dir" /\ job[t].dir # 0
        BY DiskIs DEF TaskNames, Removing, Shape, OnInode, InDir
      <3> QED
        BY <2>1, <2>2, <3>1
    <2>3. ASSUME NEW s \in Slot, entry[n][s].nr # 0, kind[entry[n][s].nr] = "dir" PROVE ~Pending(entry[n][s].nr)
      <3> SUFFICES ASSUME NEW t \in Task, Fresh(t), job[t].nr = entry[n][s].nr PROVE FALSE
        BY DEF Pending
      <3>1. CASE pc[t] = "enter"
        BY <1>1, <3>1, DiskIs DEF TaskNames
      <3>2. CASE pc[t] = "load"
        <4>1. Target(t) = entry[n][s].nr /\ job[t].dir # 0
          BY <2>3, <3>2, DiskIs DEF NumberFacts, Shape, OnInode, InDir
        <4> QED
          BY <2>1, <2>3, <3>2, <4>1
      <3> QED
        BY <3>1, <3>2 DEF Fresh
    <2>4. B \subseteq imap
      BY <2>2 DEF Children
    <2>5. \A s \in Slot : s \in Below(n) <=> entry[n][s].nr # 0 /\ kind[entry[n][s].nr] = "dir"
      BY <2>3 DEF Below, IsDir
    <2>6. Cardinality(D) = Cardinality(Below(n))
      <3> DEFINE f == [s \in Below(n) |-> entry[n][s].nr]
      <3>1. Below(n) \in SUBSET Slot /\ IsFiniteSet(Below(n))
        BY Limits DEF Below
      <3>2. f \in [Below(n) -> D]
        BY <2>5, <3>1 DEF Children
      <3>3. \A r, s \in Below(n) : f[r] = f[s] => r = s
        BY <1>1, <2>5, <3>1 DEF EntriesRight
      <3>4. \A c \in D : \E s \in Below(n) : f[s] = c
        BY <2>5 DEF Children
      <3>5. f \in Bijection(Below(n), D)
        BY <3>2, <3>3, <3>4 DEF Bijection, Injection, Surjection, IsInjective
      <3> QED
        BY <3>1, <3>5, FS_Bijection DEF ExistsBijection
    <2> QED
      BY <1>1, <1>3, <1>5, <2>4, <2>6 DEF Links
  <1> QED
    BY <1>4, <1>5
-----------------------------------------------------------------------------
\* The inodes in memory, the names and the blocks on the disk hold together at
\* every step of namei.c, inode.c, bmap.c and file.c, for callers that take none
\* of the risks, on a disk that has no more entries than nlinks can count.
THEOREM FileSystemDisk ==
    ASSUME Risks = {}, Countable
    PROVE  Spec => []DiskInv
  BY InitDisk, DiskNext, PTL DEF Spec

\* iget gives every inode one place in inode_table, whichever calls wait for the
\* disk, and a call that works on an inode finds it read (inode.c:88-159).
THEOREM InMemoryOnce ==
    ASSUME Risks = {}, Countable
    PROVE  Spec => []OneInMemory
  BY FileSystemDisk, DiskMemory, PTL

\* The bitmap of blocks and the files agree (balloc, bfree, bmap and
\* inode_truncate, bmap.c:11-74, 134-204, inode.c:343-392): no block is given to
\* two inodes, none of a file is free, and none is lost.
THEOREM BlocksAgree ==
    ASSUME Risks = {}, Countable
    PROVE  Spec => []BlocksRight
  BY FileSystemDisk, DiskBlocks, PTL

\* nlinks is the number of entries that point to an inode (fs.h:53), and every
\* entry points to an inode in use, while no call is about the inode: creat,
\* mknod, mkdir, link, unlink and rmdir keep both in step (namei.c).
THEOREM LinksAgree ==
    ASSUME Risks = {}, Countable
    PROVE  Spec => []LinksRight
  BY FileSystemDisk, DiskLinks, PTL
=============================================================================
