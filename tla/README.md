# A verification development of neonix

neonix is a 32-bit kernel for one processor: a scheduler, sleep timers, locks, processes and
signals, block devices and a buffer cache, a Minix file system, a terminal. This directory holds
TLA+ modules translated from its C code, TLC configurations that check them on small instances,
and proofs checked by TLAPS. Source paths are relative to the repository (`src/kernel/task.c` is
`src/src/kernel/task.c` in `PROJECT.json`).

## 1. How the kernel runs, and why the models look as they do

* **One processor, interrupts disabled in the kernel.** Gates are interrupt gates, and nothing
  reachable from a system call enables interrupts, so kernel code is preempted nowhere but where it
  calls `schedule()`: in `task_block`, `task_sleep`, `task_yield`, and in `clock_handler` (which
  interrupted user mode or the idle thread). A system call is therefore atomic up to its next call
  of `schedule()`, and one action of a model is such a stretch. The interleavings to explore are
  those of the stretches, and the interrupts between them.
* **Interrupts arrive in user mode, and in the idle thread**, which alternates `hlt` with interrupts
  on and `yield()`.
* **Every return to user mode passes `interrupt_exit`**, which calls `task_signal`.
* **A system call made inside the kernel** (`close()` in `task_exit`, libc's `time()` in the inode
  code) is a nested `int 0x80`: its return delivers signals in the middle of the outer operation.
* **`task_unblock` does not look at the state it overwrites.** Nearly every surprise below is a
  consequence: a wake-up may hit a task that runs, has died, or waits for something else.

## 2. Inventory

| component | state | operations | interacts with | what is hard | what makes it correct |
|---|---|---|---|---|---|
| scheduler (`task.c`, `schedule.asm`, `thread.c`) | `task_table`, `state`, `ticks`, `jiffies`, the stack in use | `task_search`, `schedule`, `task_block`, `task_unblock`, `task_yield`, `task_sleep`, the idle thread | everything that blocks | wake-ups of tasks that are not blocked; the choice among READY tasks | one RUNNING task; something to dispatch; slices refilled; no starvation |
| clock and timers (`clock.c`, `timer.c`, `list.c`) | `jiffies`, `timer_list` | `clock_handler`, `timer_add`, `timer_wakeup`, `timer_remove` | scheduler, `task_exit` | timers that outlive what they timed | sorted, nothing overdue, sleeps end, no timer of a dead task |
| alarm (`alarm.c`) | `task->alarm` | `sys_alarm`, its handler | timers, signals, fork | a forked child copies the pointer | one alarm per task, cancelled at exit |
| locks (`mutex.c`) | `value`, `waiters`, `holder`, `repeat` | lock, unlock, acquire, release | buffer, IDE, keyboard, serial | the lost wake-up, the thief between wake-up and run | exclusion, agreement of the fields, no stranded waiter |
| processes (`task.c`, `system.c`) | `task_table`, `ppid`, `sid`, `pgid`, `waitpid`, `status` | fork, exit, waitpid, setsid, setpgid | scheduler, signals, memory, files | exit against waitpid, orphans, slot reuse, exits that block | no exit missed, parents present, dead tasks stay dead |
| signals (`signal.c`, `restorer.asm`) | `signal`, `blocked`, `actions` | kill, sigaction, ssetmask, `task_signal`, the restorer | processes, tty | delivery in nested system calls; mask saved on the user stack | a signal is delivered once, the mask comes back |
| block devices (`device.c`, `ide.c`, `ramdisk.c`) | `request_list`, `direct`, `ctrl->waiter` | `device_request`, the IDE transfer and its interrupt | buffer cache, scheduler | two tasks on one controller, elevator order | one request at a time, no request starves |
| buffer cache (`buffer.c`) | hash lists, `free_list`, `idle_list`, per buffer `count`, `dirty`, `valid`, `lock` | `getblk`, `bread`, `bwrite`, `brelse` | devices, file system | the lookups race with the blocking reads and writes | one buffer per block, no write lost |
| pipes (`pipe.c`, `fifo.c`) | the ring, `rxwaiter`, `txwaiter` | read, write | files | two readers, a writer that leaves | order kept, no byte lost, nobody waits for nobody |
| open files (`file.c`, `pipe.c`, `task.c`) | `file_table`, `task->files`, `inode->count` | open, close, read, write, lseek, dup, dup2, pipe, and fork and exit | file system, processes | files shared since fork, calls that wait in the middle | counts are references, a descriptor keeps its file, offsets go forward |
| terminal (`keyboard.c`, `serial.c`, `tty.c`) | rings, waiters, `pgid` | interrupt handlers, read, `tty_intr` | signals | wake-ups, the signal of a group | no key lost while there is room, readers woken |
| console (`console.c`) | `console`: cursor, screen, parser; the video memory | `console_write` | terminal | pointer arithmetic at the edges of line, screen and memory | cursor on the screen, nothing written elsewhere, edits move what they must |
| memory (`memory.c`) | `memory_map`, page tables | `get_page`, `copy_pde`, `page_fault`, `sys_brk`, `sys_mmap` | fork, exit, execve | counts of shared pages, copy on write | count = references; no page both free and mapped; processes isolated |
| block allocator (`arena.c`, `bitmap.c`) | block descriptors, `kernel_map` | `kmalloc`, `kfree`, `alloc_kpage` | everything | reuse of descriptors | no block given twice |
| file system (`inode.c`, `super.c`, `bmap.c`, `namei.c`, `file.c`) | inode table, bitmaps, open files | `iget`, `iput`, `balloc`, `bmap`, `open`, `unlink` | buffer cache | races of `iget` and `iput` with blocking reads | one inode in memory per inode, counts, block ownership |
| program loading (`execve.c`) | | `sys_execve` | memory, inodes | failure half-way | |
| time of day (`time.c`, `rtc.c`) | `startup_time` | `mktime`, `time_read` | | leap years | agrees with the calendar |
| interrupts and gates, C library, shell, boot | | | | | |

`PROJECT.json` lists every component with its status, and under `hazards` every place where the
code can go wrong in a way a test would hardly reach; a hazard no property covers has a note.

## 3. Plan

The order is by what the rest stands on. *Done* marks what is here.

| | module | over | abstract specification | theorem |
|---|---|---|---|---|
| 1 | `Dispatch` *done* | | is one: the processor as others see it | *done* |
| 2 | `Sched` *done* | | implements `Dispatch` | *done*, the refinement too |
| 3 | `Lock` *done* | `Dispatch` | | *done* |
| 4 | `Process` *done* | `Dispatch` | | *done* |
| 5 | `Device` *done*, `Buffer` *done*: buffer cache, request queue, controller | `Dispatch` | a disk whose blocks are registers | *done* |
| 6 | `Stream` *done*: pipe, keyboard, serial port over `fifo_t` | `Dispatch` | a bounded FIFO channel | ring content = queue |
| 7 | `Memory` *done*: page counts, copy on write | | private memory of each process | *done* |
| 8 | `FileSystem` *done*: `iget`/`iput`, the bitmaps, `bmap`, directories, open files | blocks as registers, which is what `Buffer` shows | | *done*: counts are references, no block owned twice, links |
| 9 | `OpenFile` *done*: descriptors, open files, inodes, pipes' inodes, over fork and exit | | | *done* |
| 10 | `Arena` *done*: `kmalloc`, `kfree`, kernel pages and their bitmap | | `Allocator` *done*: disjoint pieces | pages of the bitmap have one owner |
| 11 | `Signal` *done*: handlers, masks, the frame, alarm, Ctrl-C | | | `AlarmsRight`, `MaskRestored` |
| 12 | `Console` *done*: parser, cursor, video memory | | | `CursorRight` |
| 13 | mount, umount, mkfs, chroot, in `FileSystem` | | | |

One passing run per module, and one for a real disagreement between the code and what it says of
itself; the other disagreements are in section 6, with the constants that show them. The next
theorems, in this order: those of `Signal` (`AlarmsRight`, `MaskRestored`), of `Stream`,
`CursorRight` of `Console`, `HeapRight` of `Arena`.

## 4. The modules

### Dispatch: the processor

`state` and `current` are `task->state` and `running_task()`. `Schedule(s)` is `schedule()` when the
states are `s`: `task_search` skips the running task and falls back on the idle one, the task left
becomes READY if it was RUNNING, the one dispatched becomes RUNNING. Which READY task is chosen is
left open (`Candidates`), so what is shown over `Dispatch` holds for any scheduling policy.
`Unblock` is `task_unblock`, for a set of tasks: it overwrites any state. `Wake`, `Switch` and
`Park` are what the rest of the kernel may do to the processor.

### Sched: the real scheduler

`Search` is the loop of `task_search`: it keeps one choice and replaces it by a later READY task
that has more ticks or ran earlier. The rule is not transitive, so the loop is kept as a loop.
`Schedule` refills an empty slice; `Tick` is `clock_handler` with `timer_wakeup`; `TimerAdd` is
`timer_add` with `list_insert_sort`; `Sleep`, `BlockCall`, `Wakeup`, `Kill`, `Yield` and `IdleYield`
are the callers. Time is relative: a timer keeps the interrupts left, and `ran` keeps the order of
`task->jiffies` instead of its values. The code compares points in time only, so nothing is lost
except the wrap of `jiffies` after 497 days.
The refinement `ImplementsDispatch`, checked and proved, (`D == INSTANCE Dispatch`; the variables
have the same names) makes `Dispatch` a sound ground for the other modules.

### Lock: mutex and reentrant lock

`value`, `waiters` (tail to head: the order of service), `holder` and `repeat` are the fields.
`pc` says where a task is blocked. `MutexLock` is one turn of the `while` of `mutex_lock`;
`Release` with `MutexUnlock` is `lock_release`, which wakes the oldest waiter and yields;
`BlockInSection` is a holder that waits for its device. `Stale` are tasks with a sleep timer
that outlived its sleep (a signal woke the sleeper): `StaleTimeout` takes such a task off the
list it is on, the waiters included, and makes it READY.

### Process: fork, exit, waitpid, kill

The table with `ppid`, `sid`, `signal`, `waitpid`, and `armed`, the number of entries of
`timer_list` that wake a task. The table entry of a free slot keeps the old values of the fields,
as the pages of dead tasks do until the slot is reused. `pc` "ret" is `interrupt_exit`: `Return` is
`task_signal`, one signal per return, the lowest number first. `Exit` is `task_exit` up to its first
blocking disk access (`iput` of a dirty inode, `close`), `ExitTail` is the rest. The pieces of
`task_exit` that other components own (pages, inodes, descriptors) are left out, except that
they may block (`ExitBlocks`) and that `close()` is a nested system call that delivers signals
(`KilledByClose`).
Every signal has its default action; handlers and masks are in `Signal`. `GoneRuns` is a task that
is dispatched after the end of its `task_exit` (finding 2): it keeps the processor until the clock
takes it away, and what it executes in the pages it has freed is left out. The
test thread of slot 2, which sleeps for ever in a loop, is `Dormant`. Programs send signals to the
tasks of `Targets`. `sys_kill` refuses idle and init only, so the test thread may be one of them; its
exit frees the kernel's own page directory, which an assertion of `bitmap_test` stops (`panic =
"kernel_pages"`). The theorems hold for every `Targets`; the run leaves the test thread out, for its time.

### Device and Buffer: the disk and its cache

`Device` is one disk: `queue` is `request_list`, sorted by `idx`; `ctrl` and `ctrlers` are the lock of
the controller and those who wait for it, `waiter` is `ctrl->waiter`. `Submit` and `Complete` are the
halves of `device_request` around the transfer. `Submit` blocks the task once, unless the queue was
empty, and such a request has no task (`named`). `Complete` wakes the neighbour of the request in the
direction of the elevator. The transfer is `ide_pio_read` and `ide_pio_write`: `AwaitCtrl` and
`Command` take the lock and send the command, `Interrupt` is `ide_handler`, `LeaveCtrl` releases the
lock, which yields. The waits for the two sectors of a block are one.

`Buffer` adds the cache. `Bread`, `GetblkHit`, `GetblkMiss`, `GetblkResume` are `getblk` with its
sleep in `starved`; `BreadLock`, `BreadRead`, `BreadSkip`, `ReadDone`, `BreadReturn` are the rest of
`bread`, which marks the buffer clean twice, the second time without the lock; `Write` and `WriteDone` are
`bwrite`, alone or inside `brelse`; `BrelseClean` and `Release` are the rest of `brelse`.
`DoRequestWait`, `DoRequest` and `Transferred` are the stretches inside the controller. What a block
holds is a version that `Modify` counts up. Nothing else runs between two stretches of kernel code
without a `schedule()` between them, so splitting a stretch in several actions adds no behaviour. A
task has one buffer at a time and may keep it, modified or not, for as long as it likes and in user
mode, as `inode->buf` and the buffers of directory entries are kept (`inode.c:167`, `namei.c:147`).

Two things go wrong in this code, and both are in the model. *Stale sleep timers* (finding 1):
`StaleTimeout` makes a task READY and takes it off whatever list it is on. In the queue of the disk it
then goes on out of turn, for `device_request` tests nothing after its wait. Two tasks meet at the
controller, where the lock keeps them apart (`DoRequestWait`), and one of them may complete its request
beside one that has no task, which an assertion dereferences: `Crashed`, finding 3. `Spec`, which is
run, has no such timers. `QueuesRight`, which says that the disk serves one task and that who comes to
the controller finds its lock free, is about `Spec` only; `StaleSpec` has them, of any task at any
time, and every other property of the run is proved of it (section 7).
*Marking clean what others modify* (finding 4): a buffer that is marked clean and differs from its
block is `Forgotten`. `ContentsKept` says that what readers find in a block changes by modifications
and when a forgotten buffer is reused, and by nothing else (`ChangesKept`), and that a buffer is
forgotten only at the end of a `bread` or `bwrite` of one task while another has the buffer too
(`ForgottenInRaces`): a task that is alone with its buffer loses nothing.
`slept` records that a `getblk` slept for a buffer, after which it does not look the block up again
(`buffer.c:130`): `OneBufferPerBlock` and `ContentsKept` are about executions without it.

### Stream: pipe, keyboard, serial port

One ring, of a kind chosen by `Init`. `Get`, `Put`, `Full`, `Empty` are `fifo.c`. For a pipe, `Read` and
`Write` enter `pipe_read` and `pipe_write`; `ReadByte` and `WriteByte` are one turn of their loops,
`ReadWait` and `WriteWait` the waits, with the wake-ups of the other side (`WakeWriter`,
`WakeReader`). For the keyboard and the serial port `InputInterrupt` is the producer, and the readers
queue for a lock (`LockReader`, `UnlockReader`). Bytes are numbered in the order they are written,
modulo `Byte`; `written` and `awaited` are the history that order and loss are stated with. `Fail` is
`assertion_failure`. A pipe has one reader and one writer at a time, as the shell makes them.
Sleeps whose timers outlive them (finding 1) are excluded: with them a reader may be woken beside an
empty ring.

### FileSystem: bitmaps, inodes, directories, open files

On the disk `imap` and `zmap` are the bitmaps, and `kind`, `nlinks`, `zone` and `entry` the inodes and
directories; `inode` is `inode_table`, `file` is `file_table`, `fd` and `pwd` belong to the tasks, `job`
is the local variables of a task's system call. `desc` of an inode in memory is where
`inode->desc` points, which is an earlier inode's until `iget` has read the block. A task has one
descriptor and an inode `NIndex` blocks; the index blocks of `bmap` are left out. So is the delivery
of signals by the nested system calls of the inode code (`time()`, `inode.c:129`, `156`, ...): a task
that dies there never gives back the inodes its call holds, and `CountsRight` is about
executions in which none does.

An action is the code between two accesses to the disk. `Begin` chooses a call and a name; `Lookup`
is `named` and `find_entry`, `IGet` and `Load` are `iget` before and after `bread`, and `Got` is
what each call then does with the inode: `OpenFound`, `CreatFound`, `Chdir`, `Rmdir`, `Unlink`,
`LinkFound` (then `LinkNew`) for a name that exists. For a new one `Add` is `add_entry` and `ialloc`
up to the write of the bitmap, `Enter` sets the number and enters `new_inode`, `NewFile` and
`NewDirectory` are the rest, `Balloc` and `SetBlock` the two halves of `bmap` around `balloc`.
`FreeBlock` and `ClearZone` are one turn of `inode_truncate`, `Truncated` continues with `ifree`,
`Rmdired` ends `sys_rmdir`. Every path, the rollbacks included, ends in `Finish`: the call `iput`s
what it holds (`Put`, which merges the waits of one `iput` into one), and `sys_open` fills in the file. `Inherit` is what `task_fork` does to
descriptors. `Found` are the places where `iget` may find or put an inode (the assertion of
`get_free_inode` is the guard that there is one), `Place` is the one it takes; `nlinks` is a `u8`,
hence `% 256`.

**What the callers avoid.** `find_entry`, `iget` and `bmap` look something up, wait for the disk, and
use what they found; nothing locks a directory or an inode. Six kinds of concurrent or unusual
calls therefore break the file system outright, and `Avoided` excludes those that are not in
`Risks`. It is a condition on when a call starts; only `LinkNew` tests it again, when `link` goes on to
its second name, and holds the call up there. With the others the invariants hold, and with any one of the six TLC reports:

| in `Risks` | calls | what is violated |
|---|---|---|
| `add` | two that add entries to one directory | `LinksRight`: they get the same free entry (finding 6) |
| `unread` | one that names an inode another is reading | `OneInMemory`: `iget` returns it with the `desc` of an earlier one |
| `same` | two on one inode or name, one of which changes it | all of them: blocks allocated or freed twice, entries of freed inodes |
| `open` | unlink of an open file | `BlocksRight`: a write allocates blocks for the freed inode |
| `rmdir` | rmdir beside the creation of an inode | `OneInMemory`: the number is given away while the directory is in memory |
| `device` | unlink of a device | `BlocksRight`: `inode_truncate` leaves the device number in `zone[0]` |

### Memory: pages and page tables

`memory_map` and `free_pages` are the variables of `memory.c`; `entry` is the page table of each
process, with `present`, `write`, `shared`, `readonly` and `index`; `table` is the page that
holds it. No function of `memory.c` blocks, so one action is one call: `Fork` is `copy_pde`, `Exit` is
`free_pde`, `FaultWrite` and `FaultAbsent` are the halves of `page_fault`, `Brk`, `MmapPage`, `Munmap`
and `Exec` the system calls. `Link` is `link_page` with `get_pte`, which may need a page for the
table first. A page holds one value. The heap stands for the stack as well, which `page_fault`
treats in the same way. With `Remap` FALSE `mmap` is given an address the process has mapped only
while it alone refers to the page. `Store` is a store of the process, `KernelStore` one of the kernel into its
buffers; with `Unshared` TRUE the kernel writes only into pages the process could have written
itself. Where the free pages do not suffice the machine panics; the action is not enabled.

### OpenFile: descriptors and open files

`fd` is `task->files`, `file` is `file_table`, `inode` is `inode_table` with what the counts need,
and `call` is the local variables of the call a task is suspended in. `Open` is `inode_open` up to
where it waits for the disk, `OpenDone` the rest of `sys_open`, `OpenFails` its error path; `Pipe`
is `sys_pipe`. `PutFile` is `put_file` with the start of `iput`, which may wait, and `PutDone` is
what follows when it returns: the descriptor is in the table until then. As in `FileSystem`, the
signals that nested system calls deliver in the middle of a call are left out: a task that one ends
inside `iget` would leave the inode counted for good. `Close` starts `sys_close`
and the first half of `sys_dup2`, whose second half is `Dup2`; `Dupfd` is `dupfd`. `Transfer` and
`TransferDone` are the halves of `sys_read` and `sys_write` around the disk. `Fork`, `Exit` and
`ExitClose` are what `task_fork` and `task_exit` do to descriptors. A full table is a panic in the
code and a step that is not taken in the model. What `FileSystem` has of open files is the part the
disk sees; here are the tables that fork shares.

### Allocator and Arena: kmalloc

`Allocator` is what the callers rely on: pieces of memory of the size asked for, of which no two
overlap. `Arena` implements it (`ImplementsAllocator`, with `A == INSTANCE Allocator WITH Addr <-
.., Amount <- .., owned <- Given`: the addresses behind the reserved pages, the sizes, and the
pieces that callers of `kmalloc` and of `alloc_kpage` hold). `kernel_map` is the bitmap, `arena` the
headers at the start of pages, `free_list` and `page_count` the descriptors. `Scan` is
`bitmap_scan`, the loop as a recursive function; `KmallocLarge`, `KmallocPage` and `KmallocBlock`
are the ways through `kmalloc`, `KfreeLarge` and `KfreeBlock` those through `kfree`. Nothing blocks,
so a call is a step. Addresses are counted in units of half a header.

### Signal: handlers, alarms, Ctrl-C

A task has the fields of `task_t` that `signal.c` and `alarm.c` use, and `frames`, the
`signal_frame_t`s on its user stack. `Signalled` is `task_signal`, as a function of the task, and
`Return` applies it, since every way back to user mode passes it. `Push` is the building of a frame;
`Restorer` and `Pop` are the two halves of `restorer.asm`: `ssetmask` with the mask of the frame, a
system call that may deliver the next signal, and the registers. `Ring` is `task_alarm`, `Expire`
the clock that calls it, `Interrupted` the loop of `tty_intr`. `eax` says whether the register of
the user frame holds a result or, in a call that waits for the disk, still the number of the call.
`Foreground` are the slots of the terminal's group.

**What the callers avoid.** As in `FileSystem`, `Risks` lets in what the code cannot deal with:

| in `Risks` | what happens | what is violated |
|---|---|---|
| `alarm` | a task forks with an alarm armed | `AlarmsRight`: the child has the pointer too, and its `sys_alarm` frees its parent's timer |
| `nested` | the kernel makes a system call in a call that waited | `ResultKept`: finding 7 |
| `tty` | Ctrl-C kills the task that is running | `GroupInterrupted`: finding 8 |

Handlers registered without `SIG_NOMASK` violate `MaskRestored` (finding 9), and `KillKills` when
they have SIGKILL in their mask, which `sigaction` takes; `MCAction` has none, so that both
properties are about handlers with `SIG_NOMASK`, whose own mask is empty (`Registered`).

### Console: cursor and video memory

`con` has the window `screen`, the cursor (`pos`, `x`, `y`) and `mem`, which says of each address of
the video memory what the last byte put there: the contents of another address, a blank, or a
character. Properties about moves are so stated of one step. Addresses outside of the memory are
kept, so that `InMemory` can say that nothing is written to them. `state`, `args` and `argc` are the
parser; a step is one byte, one turn of the loop of `console_write`: `Normal`, `Escape`, `Question`,
`Argument`, `Csi`. `u32` arithmetic is modulo `Word`. With `Longest` FALSE no sequence has `ARG_NR`
semicolons: finding 11.

## 5. The runs

| run | module, cfg | bounds | states | shows |
|---|---|---|---|---|
| `sched` | `Sched`, `Sched.cfg` | idle + 2 tasks, slices of 2, sleeps of 0, 5 and 15 ms, 3 timers | 54 160 | no slice at 0, timer list; refinement of `Dispatch`; sleeps end; the last slot is not starved |
| `stale_timer` | `Sched`, `SchedStale.cfg` | 1 timer | violation | the running task is READY: finding 1 |
| `lock` | `MCLock`, `MCLock.cfg` | idle + 4 tasks (symmetric), nesting 2, all stale | 425 | exclusion, agreement of the fields, no lost wake-up |
| `process` | `Process`, `Process.cfg` | 5 slots (idle, init, test, 2 free), one fatal signal, 1 timer per task, exits that block | 9.56 million | the tree of the tasks is whole, no exit that leaves its task DIED is missed, no dangling timer |
| `buffer` | `MCBuffer`, `MCBuffer.cfg` | idle + 3 tasks (symmetric), 2 buffers, 3 blocks, 2 versions of a block (alike) | 1.38 million | one buffer per block, counts, no free buffer dirty, one task at the disk, nobody forgotten at the queue or the pool, changes forgotten in races only |
| `stream` | `MCStream`, `MCStream.cfg` | idle + 3 tasks (symmetric), a ring of 3 (room for 2), 4 bytes, calls of 2 | 35 918 | order, no byte of a pipe lost, nobody asleep beside a byte or beside room |
| `memory` | `MCMemory`, `MCMemory.cfg` | 3 processes, 5 pages, 1 page of heap, 1 of mmap, 2 values (both symmetric) | 438 919 | counts are references, copy on write, processes isolated |
| `files` | `MCFileSystem`, `MCFileSystem.cfg` | 2 tasks, 2 names (both symmetric), 3 inodes, 3 blocks, directories of 2 entries, 2 blocks per inode, 4 inodes in memory, 1 open file; `Risks` empty | 2.16 million | blocks, links and references agree, an inode is in memory once |
| `openfile` | `MCOpenFile`, `MCOpenFile.cfg` | 2 tasks of 3 descriptors, 3 files, 2 inodes, 1 regular file, offsets up to 2 | 3.08 million | counts are references, a descriptor keeps its file, offsets go forward |
| `arena` | `MCArena`, `MCArena.cfg` | 4 pages (1 reserved) of 8 units, blocks of 2 and 4, 4 sizes, 1 page kept per size | 38 966 | refinement of `Allocator`; bitmap, headers and lists agree; idle pages go back |
| `signal` | `MCSignal`, `MCSignal.cfg` | 2 tasks, 3 signals, 2 signals sent besides SIGKILL, 2 masks of programs, a handler with `SIG_NOMASK`, waits for sleeps, children and the disk | 1.26 million | the mask of interrupted code comes back, no alarm dangles, SIGKILL kills |
| `console` | `MCConsole`, `MCConsole.cfg` | a screen of 4 by 2, 6 rows of memory, tabs of 2, 2 arguments, digits 1, 7 and 8, words of 8 | 34 970 | cursor on the screen, no write outside of the memory, scrolling and edits move what they must |

The type invariant of a module is its `TypeOK`; those of the modules with a `_proofs` module are
also proved. The runs list what could be wrong beyond types.

Why the bounds are enough. *Sched*: two tasks that are not idle are what preference and preemption
need; the sleeps give a timer of 0, of 1 interrupt and none; three timers let a list hold stale
timers, equal ones, and those of both tasks. `LastSlotRuns` was also checked with three tasks that
are not idle (1 timer, one sleep length; 37 576 states). *Lock*: four contenders are the holder, a
woken waiter, a waiter on the list and a thief. *Process*: the two free slots hold a parent and its
child, or two siblings below init, and the table fills up, so slots are reused and fork meets "No
more tasks". With the test thread among the `Targets` the invariants hold as well (25.3 million states);
three free slots exceed five minutes. *Buffer*: three blocks compete for two buffers,
so that a task finds none free; three requests make an elevator with neighbours on both sides. The
`VIEW` of `MCBuffer.cfg` counts states once that differ in which of its two versions a block has: what
a buffer holds is only copied, replaced by the other version, or compared with its own block. With
stale timers (`StaleSpec`) the same bounds have 19.5 million states, which exceeds five minutes; what is
proved of it held there, too. The
shipped cache has about 4000 buffers; there a task hardly ever sleeps for one, which `getblk`
handles all the same. *Stream*: the ring wraps within two calls, and every call may meet it full or
empty. *Memory*: a page may have three owners, and five pages are three page tables, a page and its
copy: they run out as well. *FileSystem*: three inodes are the root and what two calls work on, or
two levels of directories; three blocks are those of the root and two others, so that a directory
and a file compete for them; all four places in memory are used when a removed inode is still held
and its number is in use again. With two open files the invariants hold as well (5.36 million
states), in more than five minutes. *OpenFile*: beside the terminal a task has two descriptors,
enough for a pipe and for `dup2` onto an open descriptor; with three files the table fills up, and
the second inode is the regular file, a pipe, or free. *Arena*: a page has three small blocks or one
large one; three pages let a size have more than the one it keeps, and let a large request of one or
two pages find the bitmap fragmented. *Signal*: two tasks are parent and child, sender and receiver,
or both members of the foreground group; two signals nest one handler in another; SIGKILL is not
counted. *Console*: six rows are three screens, so that a screen scrolls, is copied to the start and
scrolls again; the digits reach every argument from 0 to 7 modulo `Word`, beyond both edges of the
screen.

Every property has a mutant in `PROJECT.json`: a plausible bug in one mapped definition that
makes TLC report it.

**Fairness.** `WF_vars(Tick)` in `Sched`: the timer chip interrupts for ever and user mode and the
idle thread have interrupts enabled. Nothing is assumed of tasks: they may compute for ever and
never call the kernel. In `Signal` the same clock ends slices (`WF` of `Tick` and `Preempt`), the
scheduler does not pass a READY task over for ever (`SF` of `Dispatch`, which for the last slot is
`LastSlotRuns` of `Sched`), and sleeps and disk accesses end (`WF` of `Unblock`, `SleepEnds` of
`Sched` and `QueuesRight` of `Buffer`, where no stale timer reaches the queue). Keys, children and
other tasks are assumed to do nothing. The other modules state safety and assume nothing.

**Deadlock** is checked in every run but those of `FileSystem` and `Signal`. A panic or failed
assertion halts the machine, which is the explicit stuttering action `Halted` of `Process`; in
`FileSystem` the step that runs out of inodes, blocks or files, or of the entries of the model's
directory, is not enabled and its call stays half done; in `Signal` every task of a program may have
exited.

## 6. What the code does against what it says

The first has a run; the others are shown by the constants they name, with the run of the module
otherwise unchanged.

1. **A timer outlives its sleep** (`signal.c:91`, `timer.c:30-33`). `sys_kill` wakes a sleeping task
   and leaves its timer armed. When it expires the task, running or blocked elsewhere, is set READY.
   The assertion of `task_fork` and `task_exit`, "the current task is not blocked and is
   executing", fails if the task forks or exits before it is next dispatched. Run `stale_timer`.
2. **An exited task comes back** (`task.c:501`). `task_exit` sets DIED first and may block in `iput`
   or `close`; `task_block` overwrites the state. After its last `schedule()` the task is READY,
   `waitpid` does not find it, and it runs again, while `task.h:25` calls the state dead. `Process.cfg`
   with the invariant `ExitedIsDead`, which holds while no exit blocks (`DeadStayDead`, section 7).
3. **A request is let go out of turn** (`device.c:196`). `device_request` blocks once "until it is
   done" and tests nothing afterwards; the timer of finding 1 ends that wait early. Two tasks
   are then at the controller, whose lock serves them one by one, but the one that goes first may find
   beside its request the one that was put into the empty queue and has no task. The assertion on
   `nextreq->task->magic` (211) reads through NULL.
   `MCBuffer.cfg` with `StaleSpec`, `NBuf` 1 and two blocks: `NextHasTask`.
4. **A write is taken for clean** (`buffer.c:173-174`). `bread` releases the buffer's lock, which yields
   when another task waits for it, and only then clears `dirty`. If that task changes the buffer
   meanwhile, its change is marked clean and never written; `buffer.h:21` says `dirty` tells whether
   the buffer and the disk agree. Keeping a modified buffer, which this needs, is what the inode and
   directory code does. `MCBuffer.cfg` with `NBuf` 1 and two blocks: `DirtyTells`.
5. **Fork does not protect against the kernel** (`memory.c:479`). `copy_pde` makes pages read-only
   so that a store copies them, but CR0.WP is never set, and the processor ignores the write bit in
   kernel mode. A `read()` into a buffer not touched since `fork`, or the status of `waitpid`,
   changes the memory of the parent or child too. `MCMemory.cfg` with `Unshared` FALSE: `Isolated`.
6. **Two creates take one entry** (`namei.c:566`, also 273 and 741). `add_entry` returns a free
   entry that still has number 0, and `entry->nr = ialloc(...)` waits for the disk. A second create
   in the directory is given the same entry. One inode keeps `nlinks` 1 and no entry points to it;
   `fs.h:53` calls `nlinks` the number of entries that point to the inode. `MCFileSystem.cfg` with
   `Risks = {"add"}`: `LinksRight`.
7. **The result of a call is lost** (`signal.c:141`, `handler.asm:201-207`). A system call made by
   kernel code (`time()` in the inode code) returns through `interrupt_exit`, and `task_signal`
   builds a frame from the user frame of the outer call, whose `eax` is still the number of that
   call. After the handler the program has the number for a result. `MCSignal.cfg` with `Risks =
   {"nested"}`: `ResultKept`. In the same way the `close()` in `task_exit`
   delivers a second fatal signal and enters `task_exit` again, whose assertion (`task.c:499`) stops
   the machine: `Process.cfg` with two signals in `Fatal` reaches `panic = "task_exit"`.
8. **Ctrl-C stops at the first victim** (`tty.c:16-32`). The comment says SIGINT goes to the
   foreground group. `kill()` in the loop is a nested system call; when the running task is of the
   group, its return kills it, and the tasks in later slots get nothing. `MCSignal.cfg` with `Risks
   = {"tty"}`: `GroupInterrupted`.
9. **A mask is never lifted** (`signal.c:33`, `144`). For a handler without `SIG_NOMASK` the frame
   holds EOF, meaning "all masked"; the restorer hands it to `ssetmask`, which rejects it. The mask
   of the handler stays: `MaskRestored` fails when `MCAction` has a handler without `nomask`.
   `sigaction` also takes a mask with SIGKILL in it (`signal.c:68`), which is then blocked from
   the entry of the handler on (165): `KillKills` fails when such a handler is in `MCAction`.
10. **`delete_line` moves every second line** (`console.c:430-442`). `start` is a `u16 *` and
   `row_size` a number of bytes, so that the loop steps two rows. `ESC [ M` on the first row leaves
   the second where it was. `MCConsole.cfg` with `LinesDeleted`.
11. **A sequence with sixteen semicolons never ends** (`console.c:331`). `state_arg` returns false
    before it looks at the byte, and the parser stays in `STATE_ARG` for good. `MCConsole.cfg` with
    `Longest` TRUE admits such a sequence; no property is stated about it. Behind the last column
    (`x = width`) DEL writes the first cell of the next row (`console.c:237`).

Others were met and are not stated as properties. `mutex_unlock` yields "to ensure the new process
obtains the mutex" (`mutex.c:58`), but `task_search` may dispatch a third READY task, which takes
the mutex; exclusion and absence of lost wake-ups survive, because `mutex_lock` loops. Two tasks
that write through one open file write at the same offset, which then advances by both lengths
(`file.c:176-180`). `dup2` closes the new descriptor also when the old one is not open, or is the
same (`file.c:246-250`). `kill` of pid 2, the test thread, stops the
machine: `sys_kill` refuses pid 1 only (`signal.c:86`), and `free_pde` gives `KERNEL_PAGE_DIR` to a
bitmap it is not in (`bitmap.c:23`). `waitpid` and the reads of the terminal take no notice of signals
(`task.c:581`, `keyboard.c:397`), which `KillKills` leaves out. `sys_umount` gets the super block
without counting it and puts it on every path: when it refuses because the device is busy, it takes
the device apart (`super.c:197-244`).

## 7. What is proved

The proofs hold for any number of tasks and any values of the constants that satisfy the named
assumptions (`DispatchAssumption`, `SchedAssumption`, `LockAssumption`, `ProcessAssumption`,
`OpenFileAssumption`, `MemoryAssumption`, `DeviceAssumption`, `BufferAssumption`,
`FileSystemAssumption`), which TLC evaluates in the runs. They say that tables are finite and not
empty, that the idle task and init have a slot and that the null values are no member of what they
stand beside.

| module | theorem | states |
|---|---|---|
| `Dispatch_proofs` | `DispatchSafety` | type, `OneRunning`, `IdleRunnable` of `Dispatch` |
| `Sched_proofs` | `Processor` | `OneRunning` and `IdleRunnable` of `Sched`, for any table size |
| | `Slices` | `TicksPositive`, for any priority |
| | `TimerList` | `TimersInOrder`, for any list and any sleep |
| | `Refinement` | `ImplementsDispatch`: the real scheduler implements the abstract processor |
| `Lock_proofs` | `LockType`, `Exclusion`, `Consistency`, `Waiters`, `NoLostWakeup` | the five invariants of `Lock`, for any number of tasks, nestings and stale timers |
| `Process_proofs` | `ProcessType`, `Family`, `Exits`, `Timers` | the type, `FamilyRight`, `NoMissedExit`, `NoDanglingTimer`, for any table |
| | `DeadStayDead` | `~ExitBlocks` implies `ExitedIsDead` |
| `OpenFile_proofs` | `OpenFileType`, `Counts`, `Descriptors`, `Offsets` | the type, `CountsRight`, `DescriptorsKept`, `OffsetsAdvance`, with calls suspended anywhere |
| `Memory_proofs` | `MemoryType`, `Counts` | the type and `CountsRight`, whatever `mmap` and system calls are given |
| | `Sharing` | `~Remap` implies `SharingRight` |
| | `Isolation` | `~Remap` and `Unshared` imply `Isolated` |
| `Buffer_proofs` | `BufferType`, `Counts`, `NothingLost`, `Sleepers`, `OneBuffer` | of `StaleSpec`, so of `Spec`: the type, `CountsRight`, `FreeIsClean`, `NoForgottenSleeper`, `OneBufferPerBlock`, for any cache, any number of tasks and whatever stale timers do |
| | `Kept` | of `StaleSpec`: `ContentsKept`, with modified buffers kept |
| | `Queues` | of `Spec`: `QueuesRight` |
| `FileSystem_proofs` | `FileSystemType`, `Counts` | the type and `CountsRight`, for any disk, tables and tasks, and whatever the callers do not avoid |
| | `FileCounts` | the count of an open file is its descriptors (`FilesRight`) |
| | `InMemoryOnce`, `BlocksAgree`, `LinksAgree` | `Risks = {}` and `Countable` imply `OneInMemory`, `BlocksRight`, `LinksRight` |

Six theorems have a hypothesis on constants. Each excludes a behaviour that does break the property:
`Remap` (`mmap` of an address where the process has a page that others use), `Unshared` (finding 5: a
system call that stores into a page its process only shares), `~ExitBlocks` (finding 2: an exit that
waits for the disk) and `Risks` (section 4: with any one of the six TLC reports a violation). The
passing runs of these properties meet the hypotheses; `ExitedIsDead` has no run, as the exits of
`Process.cfg` block.
`Countable` is the width of `nlinks`: it is a `u8` that nobody checks for its limit, so the disk may have
at most 255 entries that can point to one inode, and a directory at most 253 directories below
it. With more of them `nlinks` wraps around, and `unlink` frees an inode that entries still point to.

The argument, module by module:

* `Dispatch_proofs`. `ScheduleEffect` states what any `schedule()` does, whatever the states it is
  called with; it is the lemma the other proofs cite. `OneRunning` is not inductive alone:
  `Schedule` moves only the running task from RUNNING to READY. The invariant adds that the current
  task is RUNNING or READY (a wake-up makes it READY while it runs).
* `Sched_proofs`. `SchedInv` is `ProcessorInv` (types, `OneRunning`, idle runnable,
  slices positive) and `ListInv` (sorted, nothing overdue). For these the result of `Search` is used
  only through the bound `next \in Task`. `TimersInOrder` needs insertion (`InsertAt` after every timer
  not later) and removal of a prefix (`SubSeq`) to keep the order. For `Refinement`, `SearchFinds`
  shows that `Search` returns a task that is READY, or idle when there is none. `Search` holds a
  recursive function, and the induction theorems cannot be used; `UpTo` replaces them, by the least
  number that is missing from a set (numbers are well founded), and gives both that the function
  exists (`TurnsExist`) and what its last value is.
  `StepMaps` then maps every step of `Sched` to one of `Dispatch` or to none.
* `Lock_proofs`. `LockInv` adds `CurrentRunnable` (a task on the waiters is not running: `Append`
  adds no duplicate) and `IdleInUser` (the fallback of `task_search` is never a task in the section).
  `NoStrandedWaiter` follows from `WaitersBlocked`: `Release` with waiters leaves one woken and
  off the list, and only `TakeMutex`, which sets `value`, or `JoinWaiters`, which needs
  `value`, changes that task's `pc`.
* `Process_proofs`. `ProcessInv` adds what idle and init are (`Servants`), that the parent of a
  present task is present, that the dead have no children, and `Rooted`: numbers can be given to the
  tasks that fall from child to parent. `Rooted` is what makes adoption right: a task that exits gives
  its children to its own parent, and were the parents a cycle, that parent could be one of these
  children. It is stated with a function from tasks to `Nat`, and each step names the next one.
  `DeadStayDead` needs `ExitsAtOnce` beside it: nobody is blocked in `task_exit`, so nobody's wake-up
  finds a task that has died.
* `OpenFile_proofs`. `OpenInv` states the counts as cardinalities of sets of references
  (`FilesCounted`, `InodesCounted`) and adds what the locals of a suspended call may hold
  (`CallsRight`), that a dead task has nothing, and that a file in use has an inode. Each action moves
  a reference or adds or removes one; the lemmas on cardinality are stated once and cited.
  `DescriptorsKept` follows: a file with a descriptor has a positive count, and no action that gives
  a file a new inode touches such a one.
* `Memory_proofs`. `CountInv` needs no hypothesis: whatever the processes do, the references of a
  page are the entries that hold it. `MemoryInv` adds `WritableIsOwn` (a page behind a writable
  entry has one entry, shared memory apart) and `SharedAgree` (the entries of a shared page agree).
  `Derived` is the lemma on which the actions rest: every entry after a step comes from an entry
  before it, with no more rights, or names a page that was free.
* `Buffer_proofs`. `Parks` states what an action does to the blocked tasks, the wake-ups of stale
  timers included; every action has one such lemma. `CacheInv` says where a task that is not current
  can be (`PlacesRight`), that the count of a buffer is the cardinality of its users and the free list
  the buffers handed out before that nobody uses (`FreeRight`), who is on the lists of sleepers
  (`ListsRight`), and that nobody sleeps for what is there (`SleepersWoken`): a task that is taken off
  `starved` by a timer is awake and looks for a buffer itself, as one that `brelse` wakes.
  `OneBufferPerBlock` is inductive only with `PlacesRight`: a task that sleeps in `getblk` has set
  `slept` and saw no buffer left unused. `QueueInv` adds `QueueRight`, for `Queues` alone: the queue is
  made of the waiting tasks, of which one has been let to the controller, and only that one's request
  may have no task. `DataInv` adds to `CacheInv` who knows that a buffer is valid (`KnowersRight`: the
  task that reads it holds its lock until it is), that a valid buffer has what was read
  (`ReadersRight`), and that a dirty buffer has a task that is yet to write it (`WritersRight`).
* `FileSystem_proofs`, the counts. `CountInv` says of each place of a call what its locals hold
  (`JobsRight`, by `Shape`), that a file in use has an inode that has been read (`FilesRight`) and that
  an unused place is empty (`InodesRight`). `ReferencesNext` counts what the step of one task adds
  and takes away; `GoesTo`, `Balanced` and `Ready` are the form of the steps that leave the open files
  alone, `MovesOn` of those that do not. `CountAbove` shows that `Put` does not empty the place that
  another task still needs: its reference is counted. No hypothesis on `Risks` is needed: the races of
  section 6 break links and blocks, and never a count.
* `FileSystem_proofs`, the disk. `DiskInv` adds three parts to `CountInv`, because none of the three
  properties is inductive alone: an inode must not be found twice in memory for two calls not to free
  its blocks twice, and names must point to inodes in use for `iget` not to find one that is being freed.
  `ViewInv` is about the table: an inode has one place, who finds it unread is reading it (`MemRight`),
  the places that calls, files and working directories have are read (`PlacesRight`), and the calls
  suspended are as apart as `Avoided` let them start (`Apart`, `Unused`). It is stated on the *number*
  of a call's inode (`Target`), which is the same before `iget`, after it, and when `put` is all that
  is left. `NamesInv` says what each call knows of the names (`TaskNames`), that every entry is in a
  directory and points to an inode in use, except to one whose `rmdir` has not erased it yet, that a
  directory has one entry, and counts `nlinks` over all entries (`Links`). `BlocksInv` says for every marked
  block who owns it: an inode, or the one task that `balloc` gave it to (`Given`), and for an inode
  not in use that it has no blocks. `AfterStep`, `NamesNext` and `BlocksFrame` are the frames: what
  a step has to show when it is about one inode that no other call has. Each action then has a lemma
  (`...Keeps`), which shows the three parts after it, and `DiskNext` joins them.

**Checked by TLC only.** Liveness (`SleepEnds`, `LastSlotRuns`, `KillKills`), which needs `ENABLED`
and fairness; the refinement `ImplementsAllocator`; and every other property of the modules without
a `_proofs` module: `Signal`, `Stream`, `Console`, `Arena`. `OneBufferPerBlock` and `ContentsKept`
say nothing of the states after a `getblk` has slept, in the run as in the theorem: it does not search the hash table again, and a block may then have two buffers (section 4).

## 8. What is not modelled, and why

Boot, descriptor tables, the programming of chips: they run once, before there are tasks, or are
hardware set-up. Serial output: its writer waits for an interrupt that `serial_init` does not
enable. Formatting and byte copies of the C library: no state of the kernel. The style of a cell and
the registers of the display. The beeper. Scan codes. User programs: the calls they make are the
inputs of the models. The calendar: sequential arithmetic, done once at boot. Mount, umount, mkfs
and chroot, the signals that nested system calls deliver inside the file system (section 4), the
reading of a program's file, and the failures of `execve` are planned (section 3) or
named in the notes of `PROJECT.json`.
