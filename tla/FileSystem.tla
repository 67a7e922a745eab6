----------------------------- MODULE FileSystem -----------------------------
(***************************************************************************)
(* A mounted file system: the bitmaps, inodes and directories on the disk  *)
(* (bmap.c), the table of inodes in memory (inode.c), the system calls on  *)
(* names (namei.c) and on files (file.c).                                  *)
(*                                                                         *)
(* Every step is a stretch of kernel code.  A call may be suspended where  *)
(* it reads or writes a block: bwrite in ialloc, balloc and the functions  *)
(* that undo them always waits for the disk, iput and brelse when the      *)
(* buffer is dirty, iget when the inode has to be read.  Other tasks run   *)
(* there.  What the buffer cache does is in module Buffer: here a block    *)
(* is what was written to it last.                                         *)
(*                                                                         *)
(* Left out: the inode code calls time(), a system call made inside the    *)
(* kernel (inode.c:129, 156 in iget, and 172, 274, 334, 390), whose return *)
(* delivers a signal.  A task that it ends never gives back the inodes     *)
(* that its call holds.  Here a call that has begun goes on to its end.    *)
(*                                                                         *)
(* A name is one component below the working directory, other names repeat *)
(* the steps of chdir; link takes both names in one directory.  The caller *)
(* may do what the modes forbid others.  The entries . and .. are not      *)
(* listed.  open with O_CREAT alone opens as open does or creates as creat *)
(* does.  A failed assertion, and running out of inodes, blocks or files,  *)
(* stops the machine: the step is not taken.                               *)
(***************************************************************************)
EXTENDS Naturals, FiniteSets, Sequences

CONSTANTS Task,      (* the tasks that make system calls                    *)
          NInode,    (* the inodes of the device are 1 .. NInode            *)
          NBlock,    (* its data blocks are 1 .. NBlock                     *)
          NIndex,    (* bound of the model: the blocks of an inode          *)
          NSlot,     (* bound of the model: the entries of a directory      *)
          NMem,      (* INODE_NR: the size of inode_table                   *)
          NFile,     (* FILE_NR: the size of file_table                     *)
          Name,      (* the names                                           *)
          NoName,    (* no name                                             *)
          Device,    (* the device numbers given to mknod                   *)
          Risks      (* what the callers do not avoid, see Avoided          *)

ASSUME FileSystemAssumption ==
    /\ IsFiniteSet(Task)
    /\ {NInode, NBlock, NIndex, NSlot, NMem, NFile} \subseteq Nat \ {0}
    /\ Device \subseteq Nat \ {0}
    /\ Risks \subseteq {"unread", "same", "add", "open", "rmdir", "device"}

Inode == 1 .. NInode
Block == 1 .. NBlock
Index == 1 .. NIndex
Slot == 1 .. NSlot
Mem == 1 .. NMem
File == 1 .. NFile
Root == 1            \* the number of the root directory, and its place in memory

VARIABLES imap,      (* the inodes marked in the inode bitmap               *)
          zmap,      (* the blocks marked in the block bitmap               *)
          kind,      (* desc->mode                                          *)
          nlinks,    (* desc->nlinks                                        *)
          zone,      (* desc->zone, with the blocks of its index blocks     *)
          entry,     (* the entries of a directory: name, and inode or 0    *)
          inode,     (* inode_table                                         *)
          pwd,       (* task->ipwd                                          *)
          file,      (* file_table                                          *)
          fd,        (* the descriptor of a task: its file, or 0            *)
          pc,        (* where each task is                                  *)
          job        (* the local variables of its system call              *)

diskVars == <<imap, zmap, kind, nlinks, zone, entry>>
fileVars == <<pwd, file, fd>>
vars == <<diskVars, inode, fileVars, pc, job>>

\* desc is the inode on the disk that inode->desc points to: nr, when iget has
\* read it, and 0 before, when the pointer is that of an earlier inode.
InodeRecord == [used : BOOLEAN, nr : 0 .. NInode, desc : 0 .. NInode, count : Nat]

Calls == {"open", "creat", "mkdir", "rmdir", "link", "unlink", "mknod", "chdir"}

\* held are the inodes in memory that the call has to iput, keep is the one
\* that it gives to its caller.
Job == [call : Calls \cup {"write", "close", "none"}, name : Name \cup {NoName}, dir : Mem \cup {0},
        slot : Slot \cup {0}, mem : Mem \cup {0}, nr : 0 .. NInode,
        index : Index \cup {0}, block : 0 .. NBlock,
        held : Seq(Mem), keep : Mem \cup {0}]

Places == {"user", "load", "unread", "linkto", "empty", "add", "enter",
           "trunc", "freed", "ifreed", "block", "put"}

TypeOK ==
    /\ imap \subseteq Inode /\ zmap \subseteq Block
    /\ kind \in [Inode -> {"file", "dir", "device"}]
    /\ nlinks \in [Inode -> 0 .. 255]
    /\ zone \in [Inode -> [Index -> Block \cup Device \cup {0}]]
    /\ entry \in [Inode -> [Slot -> [name : Name \cup {NoName}, nr : 0 .. NInode]]]
    /\ inode \in [Mem -> InodeRecord]
    /\ pwd \in [Task -> Mem]
    /\ file \in [File -> [count : Nat, inode : Mem \cup {0}]]
    /\ fd \in [Task -> File \cup {0}]
    /\ pc \in [Task -> Places]
    /\ job \in [Task -> Job]

NoInode == [used |-> FALSE, nr |-> 0, desc |-> 0, count |-> 0]
NoJob == [call |-> "none", name |-> NoName, dir |-> 0, slot |-> 0,
          mem |-> 0, nr |-> 0, index |-> 0, block |-> 0, held |-> << >>, keep |-> 0]
\* The name of a free entry and the inode of a free file have no use.
NoEntry == [name |-> NoName, nr |-> 0]
NoFile == [count |-> 0, inode |-> 0]

\* The root is held by its super block twice (mount_root) and by every task
\* twice (iroot, ipwd).
Init ==
    /\ imap = {Root} /\ zmap = {1}
    /\ kind = [n \in Inode |-> IF n = Root THEN "dir" ELSE "file"]
    /\ nlinks = [n \in Inode |-> IF n = Root THEN 2 ELSE 0]
    /\ zone = [n \in Inode |-> [i \in Index |-> IF n = Root /\ i = 1 THEN 1 ELSE 0]]
    /\ entry = [n \in Inode |-> [s \in Slot |-> NoEntry]]
    /\ inode = [m \in Mem |-> IF m = Root
                              THEN [used |-> TRUE, nr |-> Root, desc |-> Root,
                                    count |-> 2 + 2 * Cardinality(Task)]
                              ELSE NoInode]
    /\ pwd = [t \in Task |-> Root]
    /\ file = [f \in File |-> NoFile]
    /\ fd = [t \in Task |-> 0]
    /\ pc = [t \in Task |-> "user"]
    /\ job = [t \in Task |-> NoJob]
-----------------------------------------------------------------------------
Least(S) == CHOOSE x \in S : \A y \in S : x <= y

Desc(m) == inode[m].desc
Dir(j) == Desc(j.dir)       \* the directory that the locals j work in

\* find_entry: the entries of directory d with the name.
Matching(d, name) == {s \in Slot : entry[d][s].name = name /\ entry[d][s].nr # 0}

\* The entry that add_entry takes: the one it finds, else the first free one.
AddSlot(d, name) ==
    IF Matching(d, name) # {} THEN Matching(d, name) ELSE {s \in Slot : entry[d][s].nr = 0}

\* permission, for a caller that the mode allows everything.
Permitted(n) == nlinks[n] # 0

Fewer(table, m) == [table EXCEPT ![m].count = @ - 1]
More(table, m) == [table EXCEPT ![m].count = @ + 1]

\* A task goes on at a place with the locals j.
At(t, place, j) ==
    /\ pc' = [pc EXCEPT ![t] = place]
    /\ job' = [job EXCEPT ![t] = j]

\* The call of task t goes on with the locals j and the files as in files: it
\* iputs the inodes that it holds, and returns.
Resume(t, j, files) ==
    LET opens == j.call \in {"open", "creat"} /\ j.keep # 0
        free == {f \in File : files[f].count = 0}
    IN  IF j.held # << >>
        THEN /\ At(t, "put", j)
             /\ file' = files
             /\ UNCHANGED <<pwd, fd>>
        ELSE /\ At(t, "user", NoJob)
             /\ opens => free # {}
             /\ file' = IF opens
                        THEN [files EXCEPT ![Least(free)] = [count |-> 1, inode |-> j.keep]]
                        ELSE files
             /\ fd' = [fd EXCEPT ![t] = IF opens THEN Least(free)
                                        ELSE IF j.call = "close" THEN 0 ELSE @]
             /\ pwd' = [pwd EXCEPT ![t] = IF j.call = "chdir" /\ j.keep # 0 THEN j.keep ELSE @]

\* The call with the locals j is done but for what it holds, and gives the
\* inode keep, if it is one, to its caller: it is the one that was got last.
Finish(t, j, keep) ==
    Resume(t, [NoJob EXCEPT !.call = IF keep = 0 THEN "none" ELSE j.call, !.keep = keep,
                            !.held = IF keep = 0 THEN j.held ELSE Tail(j.held)], file)

Abort(t, j) == Finish(t, j, 0) /\ UNCHANGED diskVars

-----------------------------------------------------------------------------
\* The inodes that the call of task t names, and the name that it looks up.
Named(d, name) == {entry[d][s].nr : s \in Matching(d, name)}
Targets(t) ==
    ({inode[m].nr : m \in {job[t].mem, job[t].keep} \ {0}} \cup {job[t].nr}) \ {0}
Working(t) == Targets(t) \cup (IF job[t].dir = 0 THEN {} ELSE {Dir(job[t])})

Adding == {"creat", "mkdir", "mknod", "link"}
Creating == Adding \ {"link"}
Reading == {"open", "chdir", "close"}

\* What the callers avoid unless it is one of the Risks.
\*   unread: to name an inode that another call is reading from the disk;
\*   same:   two calls on one inode or name at once, when one may change it;
\*   add:    two calls that add entries to one directory at once;
\*   open:   to unlink a file that is open;
\*   rmdir:  rmdir while another call creates an inode;
\*   device: to unlink a device.
Avoided(t, call, d, name, target) ==
    LET others == {u \in Task \ {t} : pc[u] # "user"}
    IN  \/ /\ "unread" \notin Risks
           /\ \E u \in others : pc[u] = "load" /\ target \cap Targets(u) # {}
        \/ /\ "same" \notin Risks
           /\ \E u \in others :
                /\ {call, job[u].call} \ Reading # {}
                /\ \/ target \cap Targets(u) # {}
                   \/ job[u].dir # 0 /\ Dir(job[u]) = d /\ job[u].name = name
        \/ /\ "add" \notin Risks /\ call \in Adding
           /\ \E u \in others : job[u].call \in Adding /\ job[u].dir # 0 /\ Dir(job[u]) = d
        \/ /\ "open" \notin Risks /\ call = "unlink"
           /\ \E f \in File : file[f].count > 0 /\ Desc(file[f].inode) \in target
        \/ /\ "rmdir" \notin Risks
           /\ \E u \in others : \/ call = "rmdir" /\ job[u].call \in Creating
                                \/ job[u].call = "rmdir" /\ call \in Creating
        \/ /\ "device" \notin Risks /\ call = "unlink"
           /\ \E n \in target : kind[n] = "device"

-----------------------------------------------------------------------------
\* What the calls do with the inode mem of the locals j that iget has given
\* them, up to where they wait.  n is its number.
OpenFound(t, j, n) ==
    /\ j.call = "open"
    /\ Finish(t, j, IF Permitted(n) THEN j.mem ELSE 0)
    /\ UNCHANGED diskVars

\* sys_creat of a name that exists: O_TRUNC.
CreatFound(t, j, n) ==
    /\ j.call = "creat"
    /\ IF kind[n] = "dir" \/ ~Permitted(n) THEN Abort(t, j)
       ELSE At(t, "trunc", j) /\ UNCHANGED <<diskVars, fileVars>>

\* sys_chdir.  The old directory is put, and then replaced.
Chdir(t, j, n) ==
    /\ j.call = "chdir"
    /\ IF kind[n] # "dir" \/ j.mem = pwd[t] THEN Abort(t, j)
       ELSE /\ Resume(t, [NoJob EXCEPT !.call = "chdir", !.keep = j.mem,
                                       !.held = <<j.dir, pwd[t]>>], file)
            /\ UNCHANGED diskVars

\* sys_rmdir, up to is_empty, which reads the directory.
Rmdir(t, j, n, count) ==
    /\ j.call = "rmdir"
    /\ IF kind[n] # "dir" \/ j.mem = j.dir \/ count > 1 THEN Abort(t, j)
       ELSE At(t, "empty", j) /\ UNCHANGED <<diskVars, fileVars>>

Unlink(t, j, n) ==
    /\ j.call = "unlink"
    /\ IF kind[n] = "dir" THEN Abort(t, j)
       ELSE /\ entry' = [entry EXCEPT ![Dir(j)][j.slot] = NoEntry]
            /\ nlinks' = [nlinks EXCEPT ![n] = (@ + 255) % 256]
            /\ IF nlinks[n] = 1
               THEN At(t, "trunc", j) /\ UNCHANGED fileVars
               ELSE Finish(t, j, 0)
            /\ UNCHANGED <<imap, zmap, kind, zone>>

\* new_inode, and what the caller sets in it.  For creat the flag O_TRUNC
\* holds of the new file too.
NewFile(t, j, n) ==
    /\ j.call \in {"creat", "mknod"}
    /\ nlinks' = [nlinks EXCEPT ![n] = 1]
    /\ IF j.call = "creat"
       THEN /\ kind' = [kind EXCEPT ![n] = "file"]
            /\ At(t, "trunc", j)
            /\ UNCHANGED <<zone, fileVars>>
       ELSE /\ kind' = [kind EXCEPT ![n] = "device"]
            /\ \E dev \in Device : zone' = [zone EXCEPT ![n][1] = dev]
            /\ Finish(t, j, 0)
    /\ UNCHANGED <<imap, zmap, entry>>

\* balloc up to its bwrite, for the block i of the inode that j works on.
Balloc(t, j, i) ==
    LET b == Least(Block \ zmap)
    IN  /\ Block \ zmap # {}
        /\ zmap' = zmap \cup {b}
        /\ At(t, "block", [j EXCEPT !.index = i, !.block = b])

NewDirectory(t, j, n) ==
    /\ j.call = "mkdir"
    /\ kind' = [kind EXCEPT ![n] = "dir"]
    /\ nlinks' = [[nlinks EXCEPT ![n] = 2] EXCEPT ![Dir(j)] = (@ + 1) % 256]
    /\ entry' = [entry EXCEPT ![n] = [s \in Slot |-> NoEntry]]
    /\ IF zone[n][1] = 0
       THEN Balloc(t, j, 1) /\ UNCHANGED fileVars
       ELSE Finish(t, j, 0) /\ UNCHANGED zmap
    /\ UNCHANGED <<imap, zone>>

\* sys_link: namei has found the old name, and puts its directory, which is
\* held also as the root or the working directory.  See LinkNew.
LinkFound(t, j, n) ==
    /\ j.call = "link"
    /\ IF kind[n] = "dir" THEN Abort(t, j)
       ELSE At(t, "linkto", j) /\ UNCHANGED <<diskVars, fileVars>>

Got(t, j, n, count) ==
    \/ /\ j.nr = 0
       /\ \/ OpenFound(t, j, n) \/ CreatFound(t, j, n) \/ Chdir(t, j, n)
          \/ Rmdir(t, j, n, count) \/ Unlink(t, j, n) \/ LinkFound(t, j, n)
    \/ j.nr # 0 /\ (NewFile(t, j, n) \/ NewDirectory(t, j, n))

\* Mutant: the inodes in memory are not searched.
Place_New(table, nr) == Least({m \in Mem : ~table[m].used})

\* iget: the place of inode nr in memory, or a free one, and the table with it.
Found(table, nr) ==
    LET known == {m \in Mem : table[m].used /\ table[m].nr = nr}
    IN  IF known # {} THEN known ELSE {m \in Mem : ~table[m].used}

Place(table, nr) == Least(Found(table, nr))

Getting(table, m, nr) == [table EXCEPT ![m].used = TRUE, ![m].nr = nr, ![m].count = @ + 1]

\* Mutant: a call forgets to iput the inode when it holds another one.
With_Leak(j, m) == [j EXCEPT !.mem = m, !.held = IF j.nr # 0 THEN @ ELSE <<m>> \o @]

With(j, m) == [j EXCEPT !.mem = m, !.held = <<m>> \o @]

\* iget of inode nr by task t with the locals j: the inode is found in memory,
\* or read from the disk.  An inode that another iget is still reading is found
\* too; what a call does with it is undefined.
IGet(t, table, nr, j) ==
    LET m == Place(table, nr)
    IN  /\ Found(table, nr) # {}
        /\ inode' = Getting(table, m, nr)
        /\ IF table[m].desc # 0 THEN Got(t, With(j, m), table[m].desc, table[m].count + 1)
           ELSE /\ At(t, IF table[m].used THEN "unread" ELSE "load", With(j, m))
                /\ UNCHANGED <<diskVars, fileVars>>

\* The rest of iget: the block of the inode has been read, or was in memory.
\* Its time() (inode.c:156) delivers no signal here.
Load(t) ==
    LET m == job[t].mem
        n == IF Desc(m) = 0 THEN inode[m].nr ELSE Desc(m)
    IN  /\ pc[t] = "load"
        /\ inode' = [inode EXCEPT ![m].desc = n]
        /\ Got(t, job[t], n, inode[m].count)

\* named and find_entry: the call takes the working directory and a name, and
\* goes on with the entry that it finds, or without one.  It starts with the
\* inodes in memory as in table, and the locals j.  What is refused before
\* anything else is held has no effect.
Lookup(t, call, table, j) ==
    \E name \in Name :
        LET dir == pwd[t]
            d == Desc(dir)
            slots == Matching(d, name)
            s == Least(slots)
            creates == call \in Creating \/ (call = "link" /\ j.mem # 0)
            exclusive == creates /\ call # "creat"
            refused == IF slots = {} THEN ~creates \/ ~Permitted(d) ELSE exclusive
            counted == More(table, dir)
            next == [j EXCEPT !.call = call, !.name = name, !.dir = dir, !.held = Append(@, dir)]
        IN  /\ ~Avoided(t, call, d, name, Named(d, name))
            /\ \/ /\ slots # {} /\ ~refused
                  /\ IGet(t, counted, entry[d][s].nr, [next EXCEPT !.slot = s])
               \/ /\ slots = {} /\ ~refused
                  /\ inode' = counted
                  /\ At(t, "add", next)
                  /\ UNCHANGED <<diskVars, fileVars>>
               \/ /\ refused /\ j.held # << >>
                  /\ inode' = counted
                  /\ Abort(t, next)

Begin(t) ==
    /\ pc[t] = "user"
    /\ \E call \in Calls :
        /\ call \in {"open", "creat"} => fd[t] = 0
        /\ call = "mknod" => Device # {}
        /\ Lookup(t, call, inode, NoJob)

\* sys_chdir to the root itself: named returns it without a look at an entry.
ChdirRoot(t) ==
    /\ pc[t] = "user" /\ pwd[t] # Root
    /\ inode' = More(inode, Root)
    /\ Resume(t, [NoJob EXCEPT !.call = "chdir", !.keep = Root, !.held = <<pwd[t]>>], file)
    /\ UNCHANGED diskVars

\* sys_link, from the iput of the first directory on.  What the caller avoids
\* holds for the second name as well; with Risks empty the call is so held up
\* here, in the kernel, until the others are out of its way.
LinkNew(t) ==
    LET j == job[t]
    IN  /\ pc[t] = "linkto"
        /\ Lookup(t, "link", Fewer(inode, j.dir), [NoJob EXCEPT !.mem = j.mem, !.held = <<j.mem>>])
-----------------------------------------------------------------------------
\* add_entry, and for a new inode ialloc up to its bwrite.
Add(t) ==
    LET j == job[t]
        d == Dir(j)
        s == Least(AddSlot(d, j.name))
        n == Least(Inode \ imap)
    IN  /\ pc[t] = "add"
        /\ AddSlot(d, j.name) # {}
        /\ IF j.call = "link"
           THEN /\ entry' = [entry EXCEPT ![d][s] = [name |-> j.name, nr |-> Desc(j.mem)]]
                /\ nlinks' = [nlinks EXCEPT ![Desc(j.mem)] = (@ + 1) % 256]
                /\ Finish(t, j, 0)
                /\ UNCHANGED imap
           ELSE /\ Inode \ imap # {}
                /\ entry' = [entry EXCEPT ![d][s].name = j.name]
                /\ imap' = imap \cup {n}
                /\ At(t, "enter", [j EXCEPT !.slot = s, !.nr = n])
                /\ UNCHANGED <<nlinks, fileVars>>
        /\ UNCHANGED <<zmap, kind, zone, inode>>

\* The entry gets the number, and new_inode gets the inode.
Enter(t) ==
    LET j == job[t]
        m == Place(inode, j.nr)
    IN  /\ pc[t] = "enter"
        /\ Found(inode, j.nr) # {}
        /\ entry' = [entry EXCEPT ![Dir(j)][j.slot].nr = j.nr]
        /\ inode' = Getting(inode, m, j.nr)
        /\ At(t, IF inode[m].used /\ inode[m].desc = 0 THEN "unread" ELSE "load", With(j, m))
        /\ UNCHANGED <<imap, zmap, kind, nlinks, zone, fileVars>>

\* The rest of bmap, when balloc has written the bitmap.
SetBlock(t) ==
    LET j == job[t]
    IN  /\ pc[t] = "block"
        /\ zone' = [zone EXCEPT ![Desc(j.mem)][j.index] = j.block]
        /\ Finish(t, j, 0)
        /\ UNCHANGED <<imap, zmap, kind, nlinks, entry, inode>>
-----------------------------------------------------------------------------
Children(d) == {s \in Slot : entry[d][s].nr # 0}

\* Mutant: a directory that has files in it is taken for empty.
IsEmpty_NoFiles(d) == \A s \in Children(d) : kind[entry[d][s].nr] # "dir"

IsEmpty(d) == Children(d) = {}

\* sys_rmdir, when is_empty has read the directory.
RmdirEmpty(t) ==
    LET n == Desc(job[t].mem)
    IN  /\ pc[t] = "empty"
        /\ IF IsEmpty(n)
           THEN /\ nlinks[n] = 2
                /\ At(t, "trunc", job[t])
                /\ UNCHANGED <<diskVars, fileVars>>
           ELSE Abort(t, job[t])
        /\ UNCHANGED inode

\* Mutant: the blocks of a directory are not freed.
Truncates_Files(n) == kind[n] = "file"

\* The inodes that inode_truncate does not leave as they are.
Truncates(n) == kind[n] # "device"

\* inode_truncate frees block after block: bfree clears the bit and waits for
\* the disk, and then the zone is cleared.
FreeBlock(t) ==
    LET n == Desc(job[t].mem)
        i == Least({k \in Index : zone[n][k] # 0})
    IN  /\ pc[t] = "trunc" /\ Truncates(n)
        /\ \E k \in Index : zone[n][k] # 0
        /\ zone[n][i] \in zmap
        /\ zmap' = zmap \ {zone[n][i]}
        /\ At(t, "freed", [job[t] EXCEPT !.index = i])
        /\ UNCHANGED <<imap, kind, nlinks, zone, entry, inode, fileVars>>

Cleared(n, i) == [zone EXCEPT ![n][i] = 0]

ClearZone(t) ==
    /\ pc[t] = "freed"
    /\ zone' = Cleared(Desc(job[t].mem), job[t].index)
    /\ At(t, "trunc", [job[t] EXCEPT !.index = 0])
    /\ UNCHANGED <<imap, zmap, kind, nlinks, entry, inode, fileVars>>

\* After inode_truncate: creat goes on, unlink and rmdir call ifree.  In unlink
\* nothing but iput is left when ifree has written the bitmap.
Truncated(t) ==
    LET j == job[t]
        n == Desc(j.mem)
        nr == inode[j.mem].nr
    IN  /\ pc[t] = "trunc"
        /\ ~Truncates(n) \/ \A k \in Index : zone[n][k] = 0
        /\ \/ /\ j.call = "creat"
              /\ Finish(t, j, j.mem)
              /\ UNCHANGED imap
           \/ /\ j.call # "creat" /\ nr \in imap
              /\ imap' = imap \ {nr}
              /\ IF j.call = "unlink" THEN Finish(t, j, 0)
                 ELSE At(t, "ifreed", j) /\ UNCHANGED fileVars
        /\ UNCHANGED <<zmap, kind, nlinks, zone, entry, inode>>

Rmdired(t) ==
    LET j == job[t]
    IN  /\ pc[t] = "ifreed"
        /\ nlinks' = [[nlinks EXCEPT ![Desc(j.mem)] = 0] EXCEPT ![Dir(j)] = (@ + 255) % 256]
        /\ inode' = [inode EXCEPT ![j.mem].nr = 0]
        /\ entry' = [entry EXCEPT ![Dir(j)][j.slot] = NoEntry]
        /\ Finish(t, j, 0)
        /\ UNCHANGED <<imap, zmap, kind, zone>>
-----------------------------------------------------------------------------
\* iput of all that the call holds, when the dirty buffers are written; brelse
\* has nothing to write then.  With the last reference an inode leaves the table.
\* One wait stands for the writes of the inodes the call holds: the references
\* of all of them are given back after it.
Put(t) ==
    LET put == [m \in Mem |-> Cardinality({i \in DOMAIN job[t].held : job[t].held[i] = m})]
    IN  /\ pc[t] = "put"
        /\ inode' = [m \in Mem |-> IF inode[m].count = put[m] THEN NoInode
                                  ELSE [inode[m] EXCEPT !.count = @ - put[m]]]
        /\ Resume(t, [job[t] EXCEPT !.held = << >>], file)
        /\ UNCHANGED diskVars

\* sys_close.
Close(t) ==
    LET m == file[fd[t]].inode
        last == file[fd[t]].count = 1
    IN  /\ pc[t] = "user" /\ fd[t] # 0
        /\ ~Avoided(t, "close", 0, NoName, {Desc(m)})
        /\ Resume(t, [NoJob EXCEPT !.call = "close", !.held = IF last THEN <<m>> ELSE << >>],
                  IF last THEN [file EXCEPT ![fd[t]] = NoFile] ELSE [file EXCEPT ![fd[t]].count = @ - 1])
        /\ UNCHANGED <<diskVars, inode>>

\* sys_write of a block that the file does not have; other writes change no
\* more than the contents of a block.
Write(t) ==
    LET m == file[fd[t]].inode
    IN  /\ pc[t] = "user" /\ fd[t] # 0
        /\ kind[Desc(m)] = "file"
        /\ ~Avoided(t, "write", 0, NoName, {Desc(m)})
        /\ \E i \in Index :
            /\ zone[Desc(m)][i] = 0
            /\ Balloc(t, [NoJob EXCEPT !.call = "write", !.mem = m], i)
        /\ UNCHANGED <<imap, kind, nlinks, zone, entry, inode, fileVars>>

\* The descriptors of a parent are those of its child: task t gets the file
\* of task u, as a fork of u makes it.
Inherit(t) ==
    \E u \in Task :
        /\ pc[t] = "user" /\ fd[t] = 0 /\ pc[u] = "user" /\ fd[u] # 0
        /\ fd' = [fd EXCEPT ![t] = fd[u]]
        /\ file' = [file EXCEPT ![fd[u]].count = @ + 1]
        /\ UNCHANGED <<diskVars, inode, pwd, pc, job>>

Step(t) ==
    \/ Begin(t) \/ ChdirRoot(t) \/ Load(t) \/ LinkNew(t) \/ Add(t) \/ Enter(t) \/ SetBlock(t)
    \/ RmdirEmpty(t) \/ FreeBlock(t) \/ ClearZone(t) \/ Truncated(t)
    \/ Rmdired(t) \/ Put(t)
    \/ Close(t) \/ Write(t) \/ Inherit(t)

Next == \E t \in Task : Step(t)

Spec == Init /\ [][Next]_vars
-----------------------------------------------------------------------------
Busy == UNION {Working(t) : t \in Task}

\* The blocks of an inode, without the one that inode_truncate is freeing.
Owned(n) == {i \in Index : /\ zone[n][i] # 0
                           /\ ~\E t \in Task : /\ pc[t] = "freed" /\ job[t].index = i
                                               /\ Desc(job[t].mem) = n}

\* Every block of a file or directory is marked in the bitmap and is no block
\* of another one, while calls allocate and free at once (bmap.c:11-74,
\* inode.c:343-392).
BlocksOwned ==
    \A n, o \in {k \in imap : kind[k] # "device"} : \A i \in Owned(n) :
        /\ zone[n][i] \in zmap
        /\ \A k \in Owned(o) : zone[n][i] = zone[o][k] => n = o /\ i = k

\* No block is lost: when no call is in progress a marked block is used.
NoBlockLost ==
    (\A t \in Task : pc[t] = "user") =>
        zmap \subseteq {zone[n][i] : n \in imap, i \in Index}

\* The bitmap of blocks and the files agree, whichever calls are suspended
\* between the change of one and of the other (bmap.c:11-74, 134-204).
BlocksRight == BlocksOwned /\ NoBlockLost

\* nlinks is "the number of directory entries that point to the inode"
\* (fs.h:53), with . and .. of directories; and every entry points to an
\* inode that is marked in the bitmap.
LinksRight ==
    \A n \in imap \ Busy :
        LET pointing == {ds \in imap \X Slot : /\ kind[ds[1]] = "dir"
                                               /\ entry[ds[1]][ds[2]].nr = n}
            below == {entry[n][s].nr : s \in Children(n)}
        IN  IF kind[n] # "dir" THEN nlinks[n] = Cardinality(pointing)
            ELSE /\ below \subseteq imap
                 /\ nlinks[n] = 2 + Cardinality({c \in below : kind[c] = "dir"})

\* inode->count is the number of references to the inode: of the working
\* directories, the open files and the calls in progress (iget, iput).
CountsRight ==
    LET leaving(t) == job[t].call = "chdir" /\ job[t].keep # 0
        held(m) == UNION {{<<t, i>> : i \in {k \in DOMAIN job[t].held : job[t].held[k] = m}} : t \in Task}
    IN  \A m \in Mem :
            inode[m].count =
                Cardinality({t \in Task : pwd[t] = m /\ ~leaving(t)})
                + Cardinality({f \in File : file[f].count > 0 /\ file[f].inode = m})
                + Cardinality(held(m))
                + Cardinality({t \in Task : job[t].keep = m})
                + (IF m = Root THEN 2 + Cardinality(Task) ELSE 0)

\* An inode is in memory once, and whoever works on it finds it read from the
\* disk (iget, inode.c:123-159; find_inode, inode.c:88-105).
OneInMemory ==
    /\ \A m, o \in Mem :
          inode[m].used /\ inode[o].used /\ inode[m].nr = inode[o].nr => m = o \/ inode[m].nr = 0
    /\ \A t \in Task :
          /\ pc[t] # "unread"
          /\ pc[t] \in {"empty", "linkto", "trunc", "freed", "ifreed", "block"} =>
                Desc(job[t].mem) = inode[job[t].mem].nr
=============================================================================
