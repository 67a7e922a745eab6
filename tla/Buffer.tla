------------------------------- MODULE Buffer -------------------------------
(***************************************************************************)
(* The buffer cache: getblk, bread, bwrite and brelse of buffer.c over the *)
(* block device of module Device.                                          *)
(*                                                                         *)
(* The callers are the file system's: a task reads a block, modifies it,   *)
(* writes it and lets it go, and may do anything else in between, return   *)
(* to user mode included: inode->buf, modified or not, and the bitmaps of  *)
(* a super block are kept.  A task has one buffer at a time.               *)
(*                                                                         *)
(* A step of the model is a stretch of kernel code; nothing but the        *)
(* functions that call schedule() lets another task in between two steps,  *)
(* and interrupts arrive in user mode only.                                *)
(*                                                                         *)
(* Next leaves sleep timers that outlive their sleep alone (signal.c:91),  *)
(* StaleNext lets them expire.                                             *)
(***************************************************************************)
EXTENDS Device, FiniteSets

CONSTANTS NBuf,      (* how many buffer_t fit in the memory of the cache    *)
          Blocks,    (* the blocks of the device the tasks use              *)
          Version    (* bound of the model: contents 0..Version-1, in turn  *)

ASSUME BufferAssumption ==
    /\ IsFiniteSet(Task)
    /\ NBuf \in Nat \ {0}
    /\ Blocks \subseteq Nat \ {0}
    /\ Version \in Nat \ {0}

Buf == 1 .. NBuf
Unused == 0          \* dev EOF, or a buffer_t that was never handed out

VARIABLES block,     (* bf->block, or Unused                                *)
          count,     (* bf->count                                           *)
          dirty,     (* bf->dirty                                           *)
          valid,     (* bf->valid                                           *)
          data,      (* what bf->data holds                                 *)
          holder,    (* the task that has bf->lock                          *)
          lockers,   (* the tasks blocked on bf->lock, oldest first         *)
          free,      (* free_list, the buffer released first in front       *)
          starved,   (* wait_list, oldest first                             *)
          disk,      (* the contents of the blocks on the disk              *)
          pc,        (* where each task is                                  *)
          want,      (* the block of its bread                              *)
          buf,       (* its buffer, or 0                                    *)
          doing,     (* what its device request is for                      *)
          slept      (* history: a getblk has slept for a buffer            *)

bufferVars == <<block, count, dirty, valid, data>>
lockVars == <<holder, lockers>>
taskVars == <<want, buf, doing>>
vars == <<dispatchVars, deviceVars, bufferVars, lockVars, free, starved,
          disk, pc, taskVars, slept>>

TypeOK ==
    /\ DispatchTypeOK
    /\ DeviceTypeOK
    /\ block \in [Buf -> Blocks \cup {Unused}]
    /\ count \in [Buf -> Nat]
    /\ dirty \in [Buf -> BOOLEAN]
    /\ valid \in [Buf -> BOOLEAN]
    /\ data \in [Buf -> 0 .. Version - 1]
    /\ holder \in [Buf -> Task \cup {NoTask}]
    /\ lockers \in [Buf -> Seq(Task)]
    /\ free \in Seq(Buf)
    /\ starved \in Seq(Task)
    /\ disk \in [Blocks -> 0 .. Version - 1]
    /\ pc \in [Task -> {"user", "getblk", "waitbuf", "lock", "locked",
                        "request", "io", "served", "unlocked", "hold",
                        "release"}]
    /\ want \in [Task -> Blocks \cup {Unused}]
    /\ buf \in [Task -> Buf \cup {0}]
    /\ doing \in [Task -> {"bread", "bwrite", "brelse"}]
    /\ slept \in BOOLEAN

Init ==
    /\ DispatchInit
    /\ DeviceInit
    /\ block = [b \in Buf |-> Unused]
    /\ count = [b \in Buf |-> 0]
    /\ dirty = [b \in Buf |-> FALSE]
    /\ valid = [b \in Buf |-> FALSE]
    /\ data = [b \in Buf |-> 0]
    /\ holder = [b \in Buf |-> NoTask]
    /\ lockers = [b \in Buf |-> << >>]
    /\ free = << >>
    /\ starved = << >>
    /\ disk = [b \in Blocks |-> 0]
    /\ pc = [t \in Task |-> "user"]
    /\ want = [t \in Task |-> Unused]
    /\ buf = [t \in Task |-> 0]
    /\ doing = [t \in Task |-> "bread"]
    /\ slept = FALSE

At(place) == pc[current] = place
Goto(place) == pc' = [pc EXCEPT ![current] = place]
Mine == buf[current]
-----------------------------------------------------------------------------
\* bread is called.
Bread ==
    /\ current # Idle
    /\ At("user")
    /\ \E b \in Blocks : want' = [want EXCEPT ![current] = b]
    /\ Goto("getblk")
    /\ UNCHANGED <<dispatchVars, deviceVars, bufferVars, lockVars, free,
                   starved, disk, buf, doing, slept>>

\* Mutant: a buffer that is found stays on the free list.
Found_StaysFree(b) ==
    /\ count' = [count EXCEPT ![b] = @ + 1]
    /\ UNCHANGED free

\* get_from_hash_table takes the buffer off the free list; getblk counts the
\* new user.
Found(b) ==
    /\ count' = [count EXCEPT ![b] = @ + 1]
    /\ \/ \E i \in DOMAIN free : free[i] = b /\ free' = RemoveAt(free, i)
       \/ (\A i \in DOMAIN free : free[i] # b) /\ UNCHANGED free

\* Mutant: only a buffer that has been read is found.
Cached_Valid(n) == {b \in Buf : block[b] = n /\ valid[b]}

\* The buffers of a block in the hash table.
Cached(n) == {b \in Buf : block[b] = n}

\* getblk finds the block in the cache; bread returns the buffer if it is
\* valid and locks it to read it if it is not.
GetblkHit ==
    /\ At("getblk")
    /\ \E b \in Cached(want[current]) :
        /\ Found(b)
        /\ buf' = [buf EXCEPT ![current] = b]
        /\ Goto(IF valid[b] THEN "hold" ELSE "lock")
    /\ UNCHANGED <<dispatchVars, deviceVars, block, dirty, valid, data, lockVars,
                   starved, disk, want, doing, slept>>

\* getblk gives the buffer b to the block it did not find.
Assign(b) ==
    /\ block' = [block EXCEPT ![b] = want[current]]
    /\ count' = [count EXCEPT ![b] = 1]
    /\ valid' = [valid EXCEPT ![b] = FALSE]
    /\ buf' = [buf EXCEPT ![current] = b]
    /\ Goto("lock")
    /\ UNCHANGED <<dispatchVars, dirty, data, starved, slept>>

\* get_free_buffer: a new buffer while there is memory, then the one that was
\* released first, else sleep.  A task that has slept does not search again.
GetFreeBuffer ==
    LET new == {b \in Buf : block[b] = Unused}
    IN  \/ \E b \in new :
            /\ \A c \in new : b <= c
            /\ Assign(b)
            /\ UNCHANGED free
        \/ /\ new = {} /\ free # << >>
           /\ Assign(Head(free))
           /\ free' = Tail(free)
        \/ /\ new = {} /\ free = << >>
           /\ starved' = Append(starved, current)
           /\ slept' = TRUE
           /\ Block("BLOCKED")
           /\ Goto("waitbuf")
           /\ UNCHANGED <<bufferVars, free, buf>>

\* getblk does not find the block.
GetblkMiss ==
    /\ At("getblk")
    /\ Cached(want[current]) = {}
    /\ GetFreeBuffer
    /\ UNCHANGED <<deviceVars, lockVars, disk, want, doing>>

GetblkResume ==
    /\ At("waitbuf")
    /\ GetFreeBuffer
    /\ UNCHANGED <<deviceVars, lockVars, disk, want, doing>>
-----------------------------------------------------------------------------
\* lock_acquire of the buffer, on the call and after every wake-up.
BreadLock ==
    /\ At("lock")
    /\ \/ /\ holder[Mine] = NoTask
          /\ holder' = [holder EXCEPT ![Mine] = current]
          /\ Goto("locked")
          /\ UNCHANGED <<dispatchVars, lockers>>
       \/ /\ holder[Mine] # NoTask
          /\ lockers' = [lockers EXCEPT ![Mine] = Append(@, current)]
          /\ Block("BLOCKED")
          /\ UNCHANGED <<holder, pc>>
    /\ UNCHANGED <<deviceVars, bufferVars, free, starved, disk, taskVars, slept>>

\* The calls of device_request, in bread, bwrite and brelse.
Request(what) ==
    /\ doing' = [doing EXCEPT ![current] = what]
    /\ Submit(block[Mine])
    /\ Goto("request")
    /\ UNCHANGED <<bufferVars, lockVars, free, starved, disk, want, buf, slept>>

\* Mutant: bread does not look at valid again once it has the lock.
BreadRead_Unchecked == At("locked") /\ Request("bread")

\* bread reads the block unless another task has read it meanwhile.
BreadRead == At("locked") /\ ~valid[Mine] /\ Request("bread")

\* lock_release: the oldest waiter is woken and the processor yielded.
Unlock ==
    /\ holder' = [holder EXCEPT ![Mine] = NoTask]
    /\ Goto("unlocked")
    /\ IF lockers[Mine] = << >>
       THEN UNCHANGED <<dispatchVars, lockers>>
       ELSE /\ lockers' = [lockers EXCEPT ![Mine] = Tail(@)]
            /\ Schedule(Unblock(state, {Head(lockers[Mine])}))

\* The block is read, by this task or by the one that had the lock.
BreadSkip ==
    /\ At("locked") /\ valid[Mine]
    /\ Unlock
    /\ UNCHANGED <<deviceVars, bufferVars, free, starved, disk, taskVars, slept>>

\* do_request finds the controller's lock taken.
DoRequestWait ==
    /\ At("request")
    /\ AwaitCtrl
    /\ UNCHANGED <<bufferVars, lockVars, free, starved, disk, pc, taskVars, slept>>

\* do_request: a write hands the data to the controller before it blocks.
DoRequest ==
    /\ At("request")
    /\ Command
    /\ disk' = IF doing[current] = "bread" THEN disk
               ELSE [disk EXCEPT ![block[Mine]] = data[Mine]]
    /\ Goto("io")
    /\ UNCHANGED <<bufferVars, lockVars, free, starved, taskVars, slept>>

\* The controller is done: a read takes the data, and its lock is released.
Transferred ==
    /\ At("io")
    /\ LeaveCtrl
    /\ data' = IF doing[current] = "bread" THEN [data EXCEPT ![Mine] = disk[block[Mine]]]
               ELSE data
    /\ Goto("served")
    /\ UNCHANGED <<block, count, dirty, valid, lockVars, free, starved, disk, taskVars, slept>>

\* task_unblock takes the task in W off the lists of the cache, too.
Unlisted(W) ==
    /\ lockers' = [b \in Buf |-> TakenOff(lockers[b], W)]
    /\ starved' = TakenOff(starved, W)

\* device_request ends.
Served ==
    \E i \in DOMAIN queue : Complete(i) /\ Unlisted({r.task : r \in Neighbour(i)})

Clean == dirty' = [dirty EXCEPT ![Mine] = FALSE]
Validate == valid' = [valid EXCEPT ![Mine] = TRUE]

\* device_request returns to bread, which marks the buffer.
ReadDone ==
    /\ At("served") /\ doing[current] = "bread"
    /\ Served
    /\ Clean /\ Validate
    /\ Goto("locked")
    /\ UNCHANGED <<block, count, data, holder, free, disk, taskVars, slept>>

\* device_request returns to bwrite, which returns to its caller or to brelse.
WriteDone ==
    /\ At("served") /\ doing[current] # "bread"
    /\ Served
    /\ Clean /\ Validate
    /\ Goto(IF doing[current] = "bwrite" THEN "hold" ELSE "release")
    /\ doing' = [doing EXCEPT ![current] = "bread"]
    /\ UNCHANGED <<block, count, data, holder, free, disk, want, buf, slept>>

\* The next request has no task: device_request stops at the assertion, or at
\* the page fault that reading its task causes (device.c:211).
Crashed ==
    /\ At("served")
    /\ \E i \in DOMAIN queue :
        queue[i].task = current /\ \E r \in Neighbour(i) : ~r.named
    /\ UNCHANGED vars

\* The end of bread: the buffer is marked once more, without the lock.
BreadReturn ==
    /\ At("unlocked")
    /\ Clean /\ Validate
    /\ Goto("hold")
    /\ UNCHANGED <<dispatchVars, deviceVars, block, count, data, lockVars, free,
                   starved, disk, taskVars, slept>>
-----------------------------------------------------------------------------
\* The file system changes the contents of its buffer and sets dirty.
Modify ==
    /\ At("hold")
    /\ data' = [data EXCEPT ![Mine] = (@ + 1) % Version]
    /\ dirty' = [dirty EXCEPT ![Mine] = TRUE]
    /\ UNCHANGED <<dispatchVars, deviceVars, block, count, valid, lockVars, free,
                   starved, disk, pc, taskVars, slept>>

\* bwrite and brelse by the holder of a dirty buffer.
Write ==
    /\ At("hold")
    /\ dirty[Mine]
    /\ \E what \in {"bwrite", "brelse"} : Request(what)

\* Mutant: brelse does not look at dirty.
BrelseClean_Always ==
    /\ At("hold")
    /\ Goto("release")
    /\ UNCHANGED <<dispatchVars, deviceVars, bufferVars, lockVars, free,
                   starved, disk, taskVars, slept>>

\* brelse of a clean buffer writes nothing.
BrelseClean ==
    /\ At("hold")
    /\ ~dirty[Mine]
    /\ Goto("release")
    /\ UNCHANGED <<dispatchVars, deviceVars, bufferVars, lockVars, free,
                   starved, disk, taskVars, slept>>

\* brelse by the last user: the buffer goes to the free list and the task
\* that has slept longest for one is woken.
Freed ==
    /\ free' = Append(free, Mine)
    /\ IF starved = << >>
       THEN UNCHANGED <<dispatchVars, starved>>
       ELSE /\ starved' = Tail(starved)
            /\ state' = Unblock(state, {Head(starved)})
            /\ UNCHANGED current

\* The end of brelse.
Release ==
    /\ At("release")
    /\ count' = [count EXCEPT ![Mine] = @ - 1]
    /\ IF count[Mine] = 1 THEN Freed ELSE UNCHANGED <<dispatchVars, free, starved>>
    /\ want' = [want EXCEPT ![current] = Unused]
    /\ buf' = [buf EXCEPT ![current] = 0]
    /\ Goto("user")
    /\ UNCHANGED <<deviceVars, block, dirty, valid, data, lockVars, disk, doing, slept>>
-----------------------------------------------------------------------------
\* A task that has a buffer may be in user mode, too.
InUserMode == At("user") \/ At("hold")

DeviceInterrupt ==
    /\ InUserMode
    /\ Interrupt
    /\ Unlisted({waiter})
    /\ UNCHANGED <<bufferVars, holder, free, disk, pc, taskVars, slept>>

\* A sleep timer that outlived its sleep expires: default_timeout takes the
\* task off whatever list it is on and makes it READY.
StaleTimeout ==
    /\ InUserMode
    /\ \E t \in Task \ {Idle} : Wakes({t}) /\ Unlisted({t})
    /\ UNCHANGED <<current, queue, direct, waiter, ctrl, bufferVars, holder, free,
                   disk, pc, taskVars, slept>>

\* The clock ends the slice of a task; the idle thread yields.
Preempt ==
    /\ InUserMode
    /\ Schedule(state)
    /\ UNCHANGED <<deviceVars, bufferVars, lockVars, free, starved, disk, pc,
                   taskVars, slept>>

Next ==
    \/ Bread \/ GetblkHit \/ GetblkMiss \/ GetblkResume
    \/ BreadLock \/ BreadRead \/ BreadSkip \/ BreadReturn
    \/ DoRequest \/ Transferred \/ ReadDone \/ WriteDone
    \/ Modify \/ Write \/ BrelseClean \/ Release
    \/ DeviceInterrupt \/ Preempt

\* The same with sleep timers that have outlived their sleep, of any task at
\* any time.  Two tasks may then be inside do_request, where one finds the
\* controller's lock taken, and one may crash.
StaleNext == Next \/ StaleTimeout \/ DoRequestWait \/ Crashed

Spec == Init /\ [][Next]_vars
StaleSpec == Init /\ [][StaleNext]_vars
-----------------------------------------------------------------------------
\* A buffer's count is the number of its users and the free list holds the
\* buffers without one, each once: what the assertions on count and on rnode
\* in getblk and brelse rest on (buffer.c:144, 204, 211-213), and what keeps a
\* buffer in use from being given to another block.
CountsRight ==
    /\ \A b \in Buf : count[b] = Cardinality({t \in Task : buf[t] = b})
    /\ \A i, j \in DOMAIN free : free[i] = free[j] => i = j
    /\ \A b \in Buf : (\E i \in DOMAIN free : free[i] = b)
                       <=> (block[b] # Unused /\ count[b] = 0)

\* A buffer nobody uses is clean, so that reusing it loses nothing (asserted
\* by getblk, buffer.c:145), although dirty is set and cleared by tasks that
\* block between the write and the end of brelse.
FreeIsClean == \A b \in Buf : count[b] = 0 => ~dirty[b]

\* The controller serves one task at a time (device_request, device.c:192-214).
OneServed == \A t, u \in Task : {pc[t], pc[u]} \subseteq {"io", "served"} => t = u

\* The task that is served is the one whose interrupt the controller will
\* report, and who comes to the controller finds its lock free; a task waits
\* in the queue exactly while its request is there (device.c:192-214;
\* ctrl->lock and ctrl->waiter, ide.c:256, 273).
OneAtDisk ==
    /\ OneServed
    /\ waiter # NoTask => pc[waiter] = "io" /\ state[waiter] = "BLOCKED"
    /\ \A t \in Task : pc[t] = "request" /\ state[t] # "BLOCKED" => ctrl = NoTask
    /\ \A t \in Task : pc[t] \in {"request", "io", "served"}
                        <=> \E i \in DOMAIN queue : queue[i].task = t

\* The request that a task finds next to its own when it is done has a task to
\* let go, which the assertion reads (device.c:209-213).
NextHasTask ==
    \A i \in DOMAIN queue :
        pc[queue[i].task] = "served" => \A r \in Neighbour(i) : r.named

\* No request is forgotten: while requests are queued, one of their tasks is
\* at the controller or has been let go (request_nextreq, device.c:133-163,
\* at the ends of the list and when it turns round).
NoForgottenRequest ==
    queue # << >> =>
        \E t \in Task : \/ pc[t] \in {"io", "served"}
                        \/ pc[t] = "request" /\ state[t] # "BLOCKED"

\* No task sleeps for a buffer beside a free one that nobody was woken for:
\* brelse wakes one task for one buffer, and others may take it first
\* (get_free_buffer, buffer.c:108-132; brelse, 213-218).
NoForgottenSleeper ==
    starved # << >> =>
        Len(free) <= Cardinality({t \in Task : pc[t] = "waitbuf" /\ state[t] # "BLOCKED"})

\* The two queues of the cache, for the disk and for a buffer, let one task in
\* at a time and leave nobody behind (device.c:133-214, buffer.c:108-132).  Of
\* Spec only: device_request tests nothing after its wait, and where a stale
\* timer ends it (StaleSpec) the task goes on out of turn.
QueuesRight == OneAtDisk /\ NextHasTask /\ NoForgottenRequest /\ NoForgottenSleeper

\* A block has one buffer, unless a getblk slept after its search of the hash
\* table and did not search again (getblk, buffer.c:134-153).
OneBufferPerBlock ==
    ~slept => \A b, c \in Buf : block[b] = block[c] /\ block[b] # Unused => b = c

\* The contents of a block as its readers find them.
Contents(n) ==
    IF \E b \in Buf : block[b] = n /\ valid[b]
    THEN data[CHOOSE b \in Buf : block[b] = n /\ valid[b]]
    ELSE disk[n]

\* The buffers that are marked clean and differ from their block.
Forgotten == {b \in Buf : block[b] # Unused /\ valid[b] /\ ~dirty[b] /\ data[b] # disk[block[b]]}

\* What readers find in a block changes when a task modifies it, or when a
\* forgotten buffer is given to another block.
ChangesKept ==
    \A n \in Blocks :
        \/ Contents(n)' = Contents(n)
        \/ At("hold") /\ n = block[Mine] /\ dirty'[Mine]
        \/ \E b \in Forgotten : block[b] = n /\ block'[b] # n

\* A buffer becomes a forgotten one only when a task marks it clean at the end
\* of its bread or bwrite while another task has it, too (bread, buffer.c:173-175;
\* bwrite, 180-188).
ForgottenInRaces ==
    \A b \in Forgotten' \ Forgotten :
        /\ Mine = b /\ pc[current] \in {"unlocked", "served"}
        /\ \E t \in Task \ {current} : buf[t] = b /\ pc[t] \in {"hold", "request"}

\* No change is lost but in the race of bread and bwrite with another user of
\* the buffer, which they mark clean after the disk access: not by reading, by
\* reuse of the buffer, or by a task that is alone with it, however long it
\* keeps the buffer modified (bread, bwrite, brelse, getblk, buffer.c:108-219).
ContentsKept == [][~slept' => ChangesKept /\ ForgottenInRaces]_vars

\* "Does it differ from the disk?" (the comment on dirty, buffer.h:21): a
\* clean buffer without users agrees with its block.
DirtyTells ==
    \A b \in Buf : count[b] = 0 /\ valid[b] /\ ~dirty[b] => data[b] = disk[block[b]]
=============================================================================
