------------------------------- MODULE Memory -------------------------------
(***************************************************************************)
(* The physical pages of memory.c and the page tables that share them:     *)
(* get_page, put_page, link_page, unlink_page, copy_pde (fork), free_pde   *)
(* (exit), page_fault, brk, mmap, munmap and the loading of a program.     *)
(*                                                                         *)
(* None of these functions blocks, so each is one step of a process, and   *)
(* the order in which processes run is any.  The user memory of a process  *)
(* has one page table.  What a page holds is one value; a free page holds  *)
(* nothing that matters, for it may hold anything when it is linked.       *)
(***************************************************************************)
EXTENDS Naturals, FiniteSets

CONSTANTS Proc,      (* the processes                                       *)
          NPage,     (* the pages of physical memory are 1 .. NPage         *)
          NHeap,     (* the pages from USER_EXEC_ADDR up to the highest brk *)
          NMmap,     (* the pages from USER_MMAP_ADDR                       *)
          Value,     (* what a page of a process may hold                   *)
          Blank,     (* stands for what any other page holds                *)
          Remap,     (* may mmap be given an address that is mapped to a
                        page which other processes refer to as well?        *)
          Unshared   (* are the buffers given to system calls always pages
                        that their process has written since it forked?     *)

ASSUME MemoryAssumption ==
    /\ IsFiniteSet(Proc)
    /\ Value # {} /\ Blank \notin Value
    /\ NPage \in Nat /\ NHeap \in Nat /\ NMmap \in Nat
    /\ Remap \in BOOLEAN /\ Unshared \in BOOLEAN

Page == 1 .. NPage
NoPage == 0
Heap == 1 .. NHeap
Mmap == NHeap + 1 .. NHeap + NMmap
Vaddr == Heap \cup Mmap

VARIABLES alive,      (* the processes that exist                           *)
          memory_map, (* the references of each page                        *)
          free_pages, (* the counter of free pages                          *)
          data,       (* what each page holds                               *)
          table,      (* the page that holds the page table, or NoPage      *)
          entry,      (* the entries of the page table                      *)
          brk,        (* task->brk: the heap pages 1 .. brk may be touched  *)
          vmap        (* task->vmap: the pages given out by mmap            *)

vars == <<alive, memory_map, free_pages, data, table, entry, brk, vmap>>

\* page_entry_t; the bits that the code never reads are left out.
Entry == [present : BOOLEAN, write : BOOLEAN, shared : BOOLEAN,
          readonly : BOOLEAN, index : 0 .. NPage]

\* unlink_page clears present only; link_page initialises the other bits.
Absent == [present |-> FALSE, write |-> FALSE, shared |-> FALSE,
           readonly |-> FALSE, index |-> NoPage]

\* entry_init.
EntryInit(p) == [present |-> TRUE, write |-> TRUE, shared |-> FALSE,
                 readonly |-> FALSE, index |-> p]

TypeOK ==
    /\ alive \subseteq Proc
    /\ memory_map \in [Page -> Nat]
    /\ free_pages \in 0 .. NPage
    /\ data \in [Page -> Value \cup {Blank}]
    /\ table \in [Proc -> Page \cup {NoPage}]
    /\ entry \in [Proc -> [Vaddr -> Entry]]
    /\ brk \in [Proc -> 0 .. NHeap]
    /\ vmap \in [Proc -> SUBSET Mmap]

Init ==
    /\ \E t \in Proc : alive = {t}
    /\ memory_map = [p \in Page |-> 0]
    /\ free_pages = NPage
    /\ data = [p \in Page |-> Blank]
    /\ table = [t \in Proc |-> NoPage]
    /\ entry = [t \in Proc |-> [v \in Vaddr |-> Absent]]
    /\ brk = [t \in Proc |-> 0]
    /\ vmap = [t \in Proc |-> {}]
-----------------------------------------------------------------------------
\* get_page takes the lowest page without references.
Free(m) == {p \in Page : m[p] = 0}
GetPage(m) == CHOOSE p \in Free(m) : \A q \in Free(m) : p <= q

\* How many of the entries E refer to p.
Refs(E, p) == Cardinality({v \in Vaddr : E[v].present /\ E[v].index = p})

\* put_page of every page the entries E refer to.
Put(m, E) == [p \in Page |-> m[p] - Refs(E, p)]

\* Mutant: the last reference but one is taken for the last.
Sole_OffByOne(p) == memory_map[p] <= 2

\* page_fault gives the page to the writer when it has the only reference.
Sole(p) == memory_map[p] = 1

\* The references become m and the contents d; a page that is linked may hold
\* anything, whatever it held when it was freed.  The counter moves with each
\* page that gets its first or loses its last reference.
Become(m, d) ==
    /\ memory_map' = m
    /\ free_pages' = free_pages + Cardinality(Free(m) \ Free(memory_map))
                                - Cardinality(Free(memory_map) \ Free(m))
    /\ data' = [p \in Page |-> IF m[p] = 0 THEN Blank ELSE d[p]]

\* link_page when the references are m, with the bits that the caller sets:
\* get_pte may need a page for the table first.
Link(t, v, m, bits) ==
    LET m1 == IF table[t] = NoPage THEN [m EXCEPT ![GetPage(m)] = 1] ELSE m
        p == GetPage(m1)
        m2 == [m1 EXCEPT ![p] = 1]
    IN  /\ Cardinality(Free(m)) >= (IF table[t] = NoPage THEN 2 ELSE 1)
        /\ table' = [table EXCEPT ![t] = IF @ = NoPage THEN GetPage(m) ELSE @]
        /\ \E x \in Value : Become(m2, [data EXCEPT ![p] = x])
        /\ entry' = [entry EXCEPT ![t] = [bits EXCEPT ![v].index = p]]
-----------------------------------------------------------------------------
\* Mutant: a page that is mapped read-only keeps its write bit.
Marked_Never(e) == e

\* copy_pde makes the pages that are not shared memory read-only.
Marked(e) == IF e.present /\ ~e.shared THEN [e EXCEPT !.write = FALSE] ELSE e

\* task_fork: the child gets a copy of the page table, and every page one
\* reference more.
Fork(t) ==
    \E child \in Proc \ alive :
        LET E == [v \in Vaddr |-> Marked(entry[t][v])]
            m == [p \in Page |-> memory_map[p] + Refs(entry[t], p)]
            m2 == IF table[t] = NoPage THEN m ELSE [m EXCEPT ![GetPage(m)] = 1]
        IN  /\ table[t] # NoPage => Free(m) # {}
            /\ alive' = alive \cup {child}
            /\ Become(m2, data)
            /\ table' = [table EXCEPT ![child] = IF table[t] = NoPage THEN NoPage
                                                 ELSE GetPage(m)]
            /\ entry' = [entry EXCEPT ![t] = E, ![child] = E]
            /\ brk' = [brk EXCEPT ![child] = brk[t]]
            /\ vmap' = [vmap EXCEPT ![child] = vmap[t]]

\* free_pde, in task_exit: the pages and the page table are put.
Exit(t) ==
    LET m == Put(memory_map, entry[t])
        m2 == IF table[t] = NoPage THEN m ELSE [m EXCEPT ![table[t]] = @ - 1]
    IN  /\ alive # {t}
        /\ alive' = alive \ {t}
        /\ Become(m2, data)
        /\ table' = [table EXCEPT ![t] = NoPage]
        /\ entry' = [entry EXCEPT ![t] = [v \in Vaddr |-> Absent]]
        /\ brk' = [brk EXCEPT ![t] = 0]
        /\ vmap' = [vmap EXCEPT ![t] = {}]

\* unlink_page of the pages V.
Unlink(t, V) ==
    LET gone == [v \in Vaddr |-> IF v \in V THEN entry[t][v] ELSE Absent]
    IN  /\ Become(Put(memory_map, gone), data)
        /\ entry' = [entry EXCEPT ![t] = [v \in Vaddr |-> IF v \in V THEN Absent ELSE entry[t][v]]]

\* sys_brk.  The program itself stays (memory.c:550).  More heap than there
\* are free pages is refused; the pages come with the first access.
Brk(t) ==
    \E n \in (0 .. NHeap) \ {brk[t]} :
        /\ \A v \in Heap : entry[t][v].present /\ entry[t][v].readonly => v <= n
        /\ n > brk[t] => n - brk[t] <= free_pages
        /\ Unlink(t, n + 1 .. brk[t])
        /\ brk' = [brk EXCEPT ![t] = n]
        /\ UNCHANGED <<alive, table, vmap>>

\* sys_mmap of one page, without a file; scan_page or the caller chooses which.
\* A page that is mapped is linked already and only gets its bits.
MmapPage(t) ==
    \E v \in Mmap, writable, shared \in BOOLEAN :
        LET bits(e) == [present |-> TRUE, write |-> writable, shared |-> e.shared \/ shared,
                        readonly |-> ~writable, index |-> e.index]
        IN  /\ v \in vmap[t] => Remap \/ Sole(entry[t][v].index)
            /\ IF entry[t][v].present
               THEN /\ entry' = [entry EXCEPT ![t][v] = bits(@)]
                    /\ UNCHANGED <<memory_map, free_pages, data, table>>
               ELSE Link(t, v, memory_map, [entry[t] EXCEPT ![v] = bits(EntryInit(NoPage))])
            /\ vmap' = [vmap EXCEPT ![t] = @ \cup {v}]
            /\ UNCHANGED <<alive, brk>>

\* sys_munmap of one page.
Munmap(t) ==
    \E v \in vmap[t] :
        /\ Unlink(t, {v})
        /\ vmap' = [vmap EXCEPT ![t] = @ \ {v}]
        /\ UNCHANGED <<alive, table, brk>>

\* sys_execve of a valid program: the heap is unlinked and the text of the
\* program is loaded at its start, read-only.
Exec(t) ==
    LET gone == [v \in Vaddr |-> IF v \in Heap THEN entry[t][v] ELSE Absent]
        text == [present |-> TRUE, write |-> FALSE, shared |-> FALSE,
                 readonly |-> TRUE, index |-> NoPage]
        E == [v \in Vaddr |-> IF v = 1 THEN text
                              ELSE IF v \in Heap THEN Absent ELSE entry[t][v]]
    IN  /\ NHeap > 0
        /\ Link(t, 1, Put(memory_map, gone), E)
        /\ brk' = [brk EXCEPT ![t] = 1]
        /\ UNCHANGED <<alive, vmap>>
-----------------------------------------------------------------------------
\* page_fault of an access to a page of the heap that is not present.
FaultAbsent(t) ==
    \E v \in 1 .. brk[t] :
        /\ ~entry[t][v].present
        /\ Link(t, v, memory_map, [entry[t] EXCEPT ![v] = EntryInit(NoPage)])
        /\ UNCHANGED <<alive, brk, vmap>>

\* page_fault of a store to a page that is present: the process gets the page
\* for itself, or a copy.  The assertions exclude pages that mmap or the
\* loader made read-only.
FaultWrite(t) ==
    \E v \in Vaddr :
        LET e == entry[t][v]
            p == GetPage(memory_map)
            m == [memory_map EXCEPT ![p] = 1, ![e.index] = @ - 1]
        IN  /\ e.present /\ ~e.write /\ ~e.shared /\ ~e.readonly
            /\ IF Sole(e.index)
               THEN /\ entry' = [entry EXCEPT ![t][v].write = TRUE]
                    /\ UNCHANGED <<memory_map, free_pages, data>>
               ELSE /\ Free(memory_map) # {}
                    /\ Become(m, [data EXCEPT ![p] = data[e.index]])
                    /\ entry' = [entry EXCEPT ![t][v] = EntryInit(p)]
    /\ UNCHANGED <<alive, table, brk, vmap>>

Change(p) ==
    /\ \E x \in Value \ {data[p]} : data' = [data EXCEPT ![p] = x]
    /\ UNCHANGED <<alive, memory_map, free_pages, table, entry, brk, vmap>>

\* A store in user mode that does not fault.
Store(t, v) ==
    /\ entry[t][v].present /\ entry[t][v].write
    /\ Change(entry[t][v].index)

\* A store of the kernel into a buffer of the process, as in read() and
\* waitpid().  The kernel never sets CR0.WP, so that the processor does not
\* look at the write bit in kernel mode.
KernelStore(t, v) ==
    /\ entry[t][v].present
    /\ Unshared => entry[t][v].write
    /\ Change(entry[t][v].index)

Step(t) ==
    \/ Fork(t) \/ Exit(t) \/ Brk(t) \/ MmapPage(t) \/ Munmap(t) \/ Exec(t)
    \/ FaultAbsent(t) \/ FaultWrite(t)

Next == \E t \in alive :
            \/ Step(t)
            \/ \E v \in Vaddr : Store(t, v) \/ KernelStore(t, v)

Spec == Init /\ [][Next]_vars
-----------------------------------------------------------------------------
\* The references of a page are those of the entries and tables that use it,
\* and the counter of free pages is right: no page is used after it was put,
\* none is lost, and the assertions of put_page and copy_pde hold
\* (memory.c:191-202, 477, 528).
CountsRight ==
    /\ \A p \in Page :
        memory_map[p] = Cardinality({tv \in Proc \X Vaddr :
                            /\ entry[tv[1]][tv[2]].present
                            /\ entry[tv[1]][tv[2]].index = p})
                        + Cardinality({t \in Proc : table[t] = p})
    /\ free_pages = Cardinality(Free(memory_map))

\* A process may store without a fault only into a page that it has for
\* itself, or that is shared memory (copy_pde, memory.c:479-483; page_fault,
\* 703-718).
WritableIsOwn ==
    \A t \in Proc, v \in Vaddr :
        LET e == entry[t][v]
        IN  e.present /\ e.write /\ ~e.shared => memory_map[e.index] = 1

\* Who shares a page is known, and nobody stores into what is shared, after
\* any series of forks, exits and faults (memory.c:434-539, 686-735).
SharingRight == CountsRight /\ WritableIsOwn

Changed(t, v) ==
    LET e == entry[t][v]
        f == entry'[t][v]
    IN  e.present /\ f.present /\ ~e.shared /\ data'[f.index] # data[e.index]

\* What a process finds in a page that is not shared memory changes only by
\* its own stores, and with it nothing that another process finds ("pages
\* that are not shared memory are made read-only", memory.c:479, is what fork
\* relies on).
Isolated ==
    [][\A t \in Proc, v \in Vaddr : Changed(t, v) =>
        /\ Store(t, v) \/ KernelStore(t, v) \/ Exec(t)
        /\ \A u \in Proc \ {t}, w \in Vaddr : ~Changed(u, w)]_vars
=============================================================================
