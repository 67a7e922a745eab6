------------------------------ MODULE OpenFile ------------------------------
(***************************************************************************)
(* Descriptors, open files and the inodes behind them (file.c, pipe.c, and *)
(* what fork and exit do with them, task.c): the three tables, and the     *)
(* counts that say when an entry may be used again.                        *)
(*                                                                         *)
(* A step is a stretch of kernel code.  A call is suspended where it waits *)
(* for the disk: in inode_open, in inode_read and inode_write, and in iput *)
(* when the buffer of the inode is dirty.  Names, directories and the      *)
(* blocks of files are in module FileSystem, the bytes of pipes and        *)
(* devices in module Stream.  What the kernel panics or asserts is the     *)
(* guard of a step that is not taken.                                      *)
(*                                                                         *)
(* Left out: the inode code calls time(), and task_exit close(), system    *)
(* calls made inside the kernel, whose return delivers a signal; one that  *)
(* ends the task inside iget (inode.c:129, 156) leaves the inode counted   *)
(* for good.  Here a call that has begun goes on to its end.               *)
(***************************************************************************)
EXTENDS Naturals, FiniteSets

CONSTANTS NTask,     (* the tasks                                           *)
          NFd,       (* TASK_FILE_NR                                        *)
          NFile,     (* FILE_NR                                             *)
          NMem,      (* INODE_NR                                            *)
          Std,       (* 3: the descriptors and files that are not given out *)
          Number,    (* the inode numbers of the regular files              *)
          MaxOffset  (* bound of the model: the offset in a file            *)

ASSUME OpenFileAssumption ==
    /\ {NTask, NFd, NFile, NMem, Std, MaxOffset} \subseteq Nat \ {0}
    /\ Std < NFd /\ Std < NFile
    /\ 0 \notin Number

Task == 1 .. NTask
Fd == 0 .. NFd - 1
File == 0 .. NFile - 1
Mem == 1 .. NMem
Offset == 0 .. MaxOffset

\* No descriptor, file or inode.
None == NFd + NFile + NMem

VARIABLES live,      (* the tasks that are                                  *)
          fd,        (* task->files                                         *)
          file,      (* file_table                                          *)
          inode,     (* inode_table                                         *)
          call       (* the locals of the call that a task is suspended in  *)

vars == <<live, fd, file, inode, call>>

Call == [op : {"none", "open", "transfer", "close", "dup2", "exit"},
         fd : Fd \cup {None}, inode : Mem \cup {None}, offset : Offset]

\* The call op that has got inode m and will take descriptor d away.
Suspended(op, d, m) == [op |-> op, fd |-> d, inode |-> m, offset |-> 0]

NoCall == Suspended("none", None, None)

\* The flags O_RDONLY and O_WRONLY and the size of a file are left out: read and write may
\* refuse any file, and what is added to a file begins anywhere.  The fields of a free file
\* have no use.
FileRecord == [count : Nat, inode : Mem \cup {None}, offset : Offset]
NoFile == [count |-> 0, inode |-> None, offset |-> 0]

\* The number of a regular file, or 0 for the terminal and for pipes.
InodeRecord == [kind : {"free", "regular", "device", "pipe"}, nr : Number \cup {0}, count : Nat]

FreeInode == [kind |-> "free", nr |-> 0, count |-> 0]

TypeOK ==
    /\ live \subseteq Task
    /\ fd \in [Task -> [Fd -> File \cup {None}]]
    /\ file \in [File -> FileRecord]
    /\ inode \in [Mem -> InodeRecord]
    /\ call \in [Task -> Call]

\* file_init, dev_init and the start of the first program: its standard files are the
\* terminal.
Init ==
    /\ live = {1}
    /\ fd = [t \in Task |-> [d \in Fd |-> IF t = 1 /\ d < Std THEN d ELSE None]]
    /\ file = [f \in File |-> IF f < Std THEN [count |-> 1, inode |-> 1, offset |-> 0]
                              ELSE NoFile]
    /\ inode = [m \in Mem |-> IF m = 1 THEN [kind |-> "device", nr |-> 0, count |-> Std]
                              ELSE FreeInode]
    /\ call = [t \in Task |-> NoCall]

-----------------------------------------------------------------------------
Least(S) == CHOOSE x \in S : \A y \in S : x <= y

InUser(t) == t \in live /\ call[t].op = "none"

\* task_get_fd, get_file and get_free_inode: the entries they choose from.
FreeFds(t) == {d \in Std .. NFd - 1 : fd[t][d] = None}
FreeFiles == {f \in Std .. NFile - 1 : file[f].count = 0}
FreeInodes == {m \in Mem : inode[m].kind = "free"}

OpenFds(t) == {d \in Fd : fd[t][d] # None}

\* inode_open up to where it waits: iget finds the inode in memory or takes a free one.
\* Its time() delivers no signal here.
Open(t) ==
    /\ InUser(t)
    /\ \E n \in Number :
        LET known == {m \in Mem : inode[m].nr = n}
            m == Least(IF known # {} THEN known ELSE FreeInodes) IN
        /\ known \cup FreeInodes # {}
        /\ inode' = [inode EXCEPT ![m] = [kind |-> "regular", nr |-> n, count |-> @.count + 1]]
        /\ call' = [call EXCEPT ![t] = Suspended("open", None, m)]
    /\ UNCHANGED <<live, fd, file>>

\* The rest of sys_open.
OpenDone(t) ==
    LET c == call[t]
        f == Least(FreeFiles) IN
    /\ c.op = "open"
    /\ FreeFds(t) # {} /\ FreeFiles # {}
    /\ fd' = [fd EXCEPT ![t][Least(FreeFds(t))] = f]
    /\ \E offset \in Offset :
        file' = [file EXCEPT ![f] = [count |-> 1, inode |-> c.inode, offset |-> offset]]
    /\ call' = [call EXCEPT ![t] = NoCall]
    /\ UNCHANGED <<live, inode>>

\* inode_open finds that the caller may not open the file, and puts it.
OpenFails(t) ==
    /\ call[t].op = "open"
    /\ call' = [call EXCEPT ![t] = Suspended("close", None, call[t].inode)]
    /\ UNCHANGED <<live, fd, file, inode>>

\* Mutant: get_pipe_inode counts one of the two files.
NewPipe_One == [kind |-> "pipe", nr |-> 0, count |-> 1]

\* get_pipe_inode.
NewPipe == [kind |-> "pipe", nr |-> 0, count |-> 2]

\* sys_pipe.
Pipe(t) ==
    LET m == Least(FreeInodes)
        d1 == Least(FreeFds(t))
        d2 == Least(FreeFds(t) \ {d1})
        f1 == Least(FreeFiles)
        f2 == Least(FreeFiles \ {f1}) IN
    /\ InUser(t)
    /\ FreeInodes # {} /\ Cardinality(FreeFds(t)) >= 2 /\ Cardinality(FreeFiles) >= 2
    /\ inode' = [inode EXCEPT ![m] = NewPipe]
    /\ fd' = [fd EXCEPT ![t][d1] = f1, ![t][d2] = f2]
    /\ file' = [f \in File |-> IF f \in {f1, f2} THEN [count |-> 1, inode |-> m, offset |-> 0]
                               ELSE file[f]]
    /\ UNCHANGED <<live, call>>

-----------------------------------------------------------------------------
\* The end of iput: an inode that nobody counts is free.
Less(m) == IF inode[m].count = 1 THEN [inode EXCEPT ![m] = FreeInode]
           ELSE [inode EXCEPT ![m].count = @ - 1]

\* What is left of a call with the locals c when it has closed its descriptor.
After(c) == CASE c.op = "close" -> NoCall
              [] c.op = "dup2" -> [c EXCEPT !.inode = None]
              [] c.op = "exit" -> Suspended("exit", None, None)

\* put_file, called with the locals c: it counts the file down, and iputs the inode when
\* nobody has the file.  Then iput may wait, but not for a pipe, and the descriptor is still
\* there.
PutFile(t, c) ==
    LET f == fd[t][c.fd]
        m == file[f].inode
        last == file[f].count = 1 IN
    /\ file' = IF last THEN [file EXCEPT ![f] = NoFile] ELSE [file EXCEPT ![f].count = @ - 1]
    /\ IF last /\ inode[m].kind # "pipe"
       THEN /\ call' = [call EXCEPT ![t] = [c EXCEPT !.inode = m]]
            /\ UNCHANGED <<fd, inode>>
       ELSE /\ fd' = [fd EXCEPT ![t][c.fd] = None]
            /\ inode' = IF last THEN Less(m) ELSE inode
            /\ call' = [call EXCEPT ![t] = After(c)]

\* sys_close, also as the first part of sys_dup2, which closes the new descriptor whether or
\* not the old one is open.
Close(t) ==
    /\ InUser(t)
    /\ \E d \in OpenFds(t), op \in {"close", "dup2"} :
        PutFile(t, Suspended(op, d, None))
    /\ UNCHANGED <<live>>

\* iput returns, and task_put_fd takes the descriptor away.
PutDone(t) ==
    LET c == call[t] IN
    /\ c.op \in {"close", "dup2", "exit"} /\ c.inode # None
    /\ inode' = Less(c.inode)
    /\ fd' = IF c.fd = None THEN fd ELSE [fd EXCEPT ![t][c.fd] = None]
    /\ call' = [call EXCEPT ![t] = After(c)]
    /\ UNCHANGED <<live, file>>

\* dupfd(old, arg).
Dupfd(t, old, arg) ==
    LET free == {d \in arg .. NFd - 1 : fd[t][d] = None} IN
    IF fd[t][old] = None \/ free = {} THEN UNCHANGED <<fd, file>>
    ELSE /\ fd' = [fd EXCEPT ![t][Least(free)] = fd[t][old]]
         /\ file' = [file EXCEPT ![fd[t][old]].count = @ + 1]

Dup(t) ==
    /\ InUser(t)
    /\ \E old \in Fd : \/ Dupfd(t, old, 0)
                       \/ \E new \in Fd \ OpenFds(t) : Dupfd(t, old, new)
    /\ UNCHANGED <<live, inode, call>>

\* The rest of sys_dup2.  Which descriptor it copies matters only here: meanwhile nobody has
\* changed the descriptors of the task.
Dup2(t) ==
    /\ call[t].op = "dup2" /\ call[t].inode = None
    /\ \E old \in Fd : Dupfd(t, old, call[t].fd)
    /\ call' = [call EXCEPT ![t] = NoCall]
    /\ UNCHANGED <<live, inode>>

-----------------------------------------------------------------------------
\* The descriptors of the tasks in S that refer to file f.
Uses(S, f) == {p \in S \X Fd : fd[p[1]][p[2]] = f}

\* Mutant: fork copies the descriptors and counts nothing.
Fork_Uncounted(t) ==
    /\ InUser(t)
    /\ \E child \in Task \ live :
        /\ live' = live \cup {child}
        /\ fd' = [fd EXCEPT ![child] = fd[t]]
    /\ UNCHANGED <<file, inode, call>>

\* task_fork: the child has the descriptors of its parent.
Fork(t) ==
    /\ InUser(t)
    /\ \E child \in Task \ live :
        /\ live' = live \cup {child}
        /\ fd' = [fd EXCEPT ![child] = fd[t]]
        /\ file' = [f \in File |-> [file[f] EXCEPT !.count = @ + Cardinality(Uses({t}, f))]]
    /\ UNCHANGED <<inode, call>>

\* task_exit closes one descriptor after the other.  init, task 1, never exits.
Exit(t) ==
    /\ InUser(t) /\ t # 1
    /\ call' = [call EXCEPT ![t].op = "exit"]
    /\ UNCHANGED <<live, fd, file, inode>>

ExitClose(t) ==
    /\ call[t].op = "exit" /\ call[t].inode = None
    /\ IF OpenFds(t) # {}
       THEN /\ PutFile(t, [call[t] EXCEPT !.fd = Least(OpenFds(t))])
            /\ UNCHANGED <<live>>
       ELSE /\ live' = live \ {t}
            /\ call' = [call EXCEPT ![t] = NoCall]
            /\ UNCHANGED <<fd, file, inode>>

-----------------------------------------------------------------------------
OfDescriptor(t, d) == file[fd[t][d]]
NrOf(t, d) == inode[OfDescriptor(t, d).inode].nr

\* sys_read and sys_write of one unit of a regular file: inode_read and inode_write get the
\* offset of the file, and wait.
Transfer(t) ==
    /\ InUser(t)
    /\ \E d \in OpenFds(t) :
        /\ NrOf(t, d) # 0
        /\ OfDescriptor(t, d).offset < MaxOffset
        /\ call' = [call EXCEPT ![t] = [Suspended("transfer", d, None) EXCEPT
                                           !.offset = OfDescriptor(t, d).offset]]
    /\ UNCHANGED <<live, fd, file, inode>>

\* Mutant: the offset is computed from what it was when the call began.
Advanced_Stale(f, c) == c.offset + 1

\* The offset of file f after a call with the locals c has moved it, up to the bound
\* MaxOffset.
Advanced(f, c) == IF file[f].offset < MaxOffset THEN file[f].offset + 1 ELSE MaxOffset

TransferDone(t) ==
    LET f == fd[t][call[t].fd] IN
    /\ call[t].op = "transfer"
    /\ file' = [file EXCEPT ![f].offset = Advanced(f, call[t])]
    /\ call' = [call EXCEPT ![t] = NoCall]
    /\ UNCHANGED <<live, fd, inode>>

\* sys_lseek.
Lseek(t) ==
    /\ InUser(t)
    /\ \E d \in OpenFds(t), offset \in Offset :
        /\ NrOf(t, d) # 0
        /\ file' = [file EXCEPT ![fd[t][d]].offset = offset]
    /\ UNCHANGED <<live, fd, inode, call>>

Next ==
    \E t \in Task :
        \/ Open(t) \/ OpenDone(t) \/ OpenFails(t) \/ Pipe(t)
        \/ Close(t) \/ PutDone(t) \/ Dup(t) \/ Dup2(t)
        \/ Fork(t) \/ Exit(t) \/ ExitClose(t)
        \/ Transfer(t) \/ TransferDone(t) \/ Lseek(t)

Spec == Init /\ [][Next]_vars

-----------------------------------------------------------------------------
\* Task t is suspended in the iput of descriptor d, whose file it has given up.
Closing(t, d) == /\ call[t].op \in {"close", "dup2", "exit"}
                 /\ call[t].inode # None /\ call[t].fd = d

Holds(t, d) == fd[t][d] # None /\ ~Closing(t, d)

(* The count of a file is the number of descriptors that refer to it, in   *)
(* all tasks, through fork (task.c:433-439), dup, dup2 and closes that     *)
(* wait (file.c:28-36, 83-94, 221-250; task.c:520-527).  A descriptor that *)
(* is being closed is none of them, although it is still in the table.     *)
FilesCounted ==
    \A f \in File : file[f].count =
        Cardinality({p \in Task \X Fd : Holds(p[1], p[2]) /\ fd[p[1]][p[2]] = f})

(* The count of an inode is the number of open files on it, and of calls   *)
(* that have got it and not yet put it: an inode with an open file is      *)
(* never free, and one without is not kept (inode.c:40-81, 180-211;        *)
(* pipe.c:59-83).                                                          *)
InodesCounted ==
    \A m \in Mem :
        /\ inode[m].count = Cardinality({f \in File : file[f].count > 0 /\ file[f].inode = m})
                            + Cardinality({t \in Task : call[t].inode = m})
        /\ inode[m].kind = "free" <=> inode[m].count = 0

(* No entry of the two tables is used beyond its time or kept beyond it.   *)
CountsRight == FilesCounted /\ InodesCounted

(* A descriptor refers to the same inode until its task closes it,         *)
(* whatever the other tasks that share the file, or open others, do: an    *)
(* entry of file_table is not given out again too early (file.c:14-26), in *)
(* particular while a close waits for the disk (34, 92-93).                *)
DescriptorsKept ==
    [][\A t \in Task, d \in Fd :
        Holds(t, d) /\ Holds(t, d)' => file'[fd'[t][d]].inode = file[fd[t][d]].inode]_vars

(* The offset of an open file goes back only by lseek.  read and write     *)
(* wait for the disk between reading and changing it (file.c:130-135,      *)
(* 176-183), and the tasks that share the file move it meanwhile.          *)
OffsetsAdvance ==
    [][\A f \in File :
        file'[f].count > 0 /\ file'[f].offset < file[f].offset
        => \E t \in Task : Lseek(t)]_vars
=============================================================================
