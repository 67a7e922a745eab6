------------------------------- MODULE Arena --------------------------------
(***************************************************************************)
(* kmalloc and kfree of arena.c over the bitmap of kernel pages            *)
(* (alloc_kpage and free_kpage of memory.c, bitmap.c).                     *)
(*                                                                         *)
(* A page given to kmalloc starts with a header, arena_t.  A small page is *)
(* cut into blocks of one of DESC_COUNT sizes, each twice the one before;  *)
(* the free blocks of a size are on one list.  A request larger than the   *)
(* largest block gets pages of its own.  Nothing here blocks, so each call *)
(* is one step.  Addresses are counted in units, of which a header has     *)
(* HeaderUnits.                                                            *)
(***************************************************************************)
EXTENDS Integers, Sequences, FiniteSets, FiniteSetsExt, SequencesExt

CONSTANTS NPage,        (* the kernel pages are 1 .. NPage                  *)
          NReserved,    (* of which the first hold memory_map               *)
          PageUnits,    (* PAGE_SIZE                                        *)
          HeaderUnits,  (* sizeof(arena_t), which is the smallest block too *)
          DESC_COUNT,
          BUF_COUNT,    (* the pages a descriptor keeps                     *)
          Size,         (* the sizes kmalloc is called with                 *)
          Count         (* the numbers of pages alloc_kpage is called with  *)

ASSUME ArenaAssumption ==
    /\ NPage \in Nat /\ NReserved \in 0 .. NPage
    /\ HeaderUnits \in Nat \ {0} /\ DESC_COUNT \in Nat \ {0} /\ BUF_COUNT \in Nat
    /\ PageUnits \in Nat /\ PageUnits >= HeaderUnits * (1 + 2 ^ (DESC_COUNT - 1))
    /\ Size \subseteq Nat \ {0} /\ Count \subseteq Nat \ {0}

KPage == 1 .. NPage
Desc == 0 .. DESC_COUNT - 1
NoPage == 0

VARIABLES kernel_map, (* the pages that are in use                          *)
          arena,      (* the header of each page that has one               *)
          free_list,  (* the free blocks of each size, first the newest     *)
          page_count, (* the pages of each size                             *)
          held,       (* what the callers of kmalloc have: address and size *)
          kpages      (* what the callers of alloc_kpage have               *)

vars == <<kernel_map, arena, free_list, page_count, held, kpages>>

\* arena_init: the sizes of the blocks and how many of them a page holds.
BlockSize(d) == HeaderUnits * 2 ^ d
TotalBlock(d) == (PageUnits - HeaderUnits) \div BlockSize(d)
Largest == BlockSize(DESC_COUNT - 1)

Base(p) == (p - 1) * PageUnits

\* get_arena_block and get_block_arena.
BlockAt(p, d, i) == Base(p) + HeaderUnits + i * BlockSize(d)
PageOf(a) == a \div PageUnits + 1

NoArena == [large |-> FALSE, desc |-> -1, count |-> 0]
Header == [large : BOOLEAN, desc : -1 .. DESC_COUNT - 1, count : 0 .. PageUnits]

TypeOK ==
    /\ kernel_map \subseteq KPage
    /\ arena \in [KPage -> Header]
    /\ \A d \in Desc : free_list[d] \in Seq(0 .. Base(NPage + 1))
    /\ page_count \in [Desc -> 0 .. NPage]
    /\ held \subseteq [addr : 0 .. Base(NPage + 1), size : Size]
    /\ kpages \subseteq [page : KPage, count : Count]

Init ==
    /\ kernel_map = 1 .. NReserved
    /\ arena = [p \in KPage |-> NoArena]
    /\ free_list = [d \in Desc |-> << >>]
    /\ page_count = [d \in Desc |-> 0]
    /\ held = {}
    /\ kpages = {}

-----------------------------------------------------------------------------
\* The loop of bitmap_scan: counter[i] is its counter after the i-th bit.  It
\* ends at the first bit where the counter is the number that is wanted.
Scan(n) ==
    LET counter[i \in 0 .. NPage] ==
            IF i = 0 \/ i \in kernel_map THEN 0 ELSE counter[i - 1] + 1
        ends == {i \in KPage : counter[i] = n}
    IN  IF ends = {} THEN NoPage ELSE Min(ends) - n + 1

\* alloc_kpage, and free_kpage: the bits of n pages.  Where no n pages in a row are
\* free, scan_page panics; the calls that allocate are then not enabled.
SetBits(p, n) == kernel_map \cup p .. p + n - 1

\* Mutant: only the first bit is reset.
ResetBits_First(p, n) == kernel_map \ {p}

ResetBits(p, n) == kernel_map \ (p .. p + n - 1)

AllocKpage(n) ==
    /\ Scan(n) # NoPage
    /\ kernel_map' = SetBits(Scan(n), n)
    /\ kpages' = kpages \cup {[page |-> Scan(n), count |-> n]}
    /\ UNCHANGED <<arena, free_list, page_count, held>>

FreeKpage(k) ==
    /\ kernel_map' = ResetBits(k.page, k.count)
    /\ kpages' = kpages \ {k}
    /\ UNCHANGED <<arena, free_list, page_count, held>>

\* Mutant: the next smaller size.
Class_Below(n) == LET d == Min({c \in Desc : BlockSize(c) >= n}) IN IF d = 0 THEN 0 ELSE d - 1

\* The size of the blocks a request is served from: the first that is enough.
Class(n) == Min({d \in Desc : BlockSize(d) >= n})

\* The pages of a large request: div_round_up(size + sizeof(arena_t), PAGE_SIZE).
Pages(n) == (n + HeaderUnits + PageUnits - 1) \div PageUnits

KmallocLarge(n) ==
    /\ n > Largest
    /\ Scan(Pages(n)) # NoPage
    /\ kernel_map' = SetBits(Scan(Pages(n)), Pages(n))
    /\ arena' = [arena EXCEPT ![Scan(Pages(n))] =
                     [large |-> TRUE, desc |-> -1, count |-> Pages(n)]]
    /\ held' = held \cup {[addr |-> Base(Scan(Pages(n))) + HeaderUnits, size |-> n]}
    /\ UNCHANGED <<free_list, page_count, kpages>>

\* list_pop of a free list that may just have been filled.
Take(n, list, headers) ==
    /\ held' = held \cup {[addr |-> Head(list), size |-> n]}
    /\ free_list' = [free_list EXCEPT ![Class(n)] = Tail(list)]
    /\ arena' = [headers EXCEPT ![PageOf(Head(list))].count = @ - 1]
    /\ UNCHANGED kpages

KmallocBlock(n) ==
    /\ n <= Largest
    /\ free_list[Class(n)] # << >>
    /\ Take(n, free_list[Class(n)], arena)
    /\ UNCHANGED <<kernel_map, page_count>>

\* The free list is empty: a new page is cut into blocks and each is pushed.
Blocks(p, d) == [i \in 1 .. TotalBlock(d) |-> BlockAt(p, d, TotalBlock(d) - i)]

KmallocPage(n) == LET d == Class(n) p == Scan(1) IN
    /\ n <= Largest
    /\ free_list[d] = << >>
    /\ p # NoPage
    /\ kernel_map' = SetBits(p, 1)
    /\ page_count' = [page_count EXCEPT ![d] = @ + 1]
    /\ Take(n, Blocks(p, d),
            [arena EXCEPT ![p] = [large |-> FALSE, desc |-> d, count |-> TotalBlock(d)]])

KfreeLarge(h) == LET p == PageOf(h.addr) IN
    /\ arena[p].large
    /\ kernel_map' = ResetBits(p, arena[p].count)
    /\ arena' = [arena EXCEPT ![p] = NoArena]
    /\ held' = held \ {h}
    /\ UNCHANGED <<free_list, page_count, kpages>>

\* Mutant: one page more is kept.
Spare_Late(p) ==
    /\ arena[p].count + 1 = TotalBlock(arena[p].desc)
    /\ page_count[arena[p].desc] > BUF_COUNT + 1

\* A page all of whose blocks are free is given back if the descriptor has more
\* than BUF_COUNT.
Spare(p) ==
    /\ arena[p].count + 1 = TotalBlock(arena[p].desc)
    /\ page_count[arena[p].desc] > BUF_COUNT

KfreeBlock(h) == LET p == PageOf(h.addr) d == arena[p].desc IN
    /\ ~arena[p].large
    /\ held' = held \ {h}
    /\ IF Spare(p)
         THEN /\ free_list' = [free_list EXCEPT ![d] =
                                   SelectSeq(@, LAMBDA b : PageOf(b) # p)]
              /\ kernel_map' = ResetBits(p, 1)
              /\ page_count' = [page_count EXCEPT ![d] = @ - 1]
              /\ arena' = [arena EXCEPT ![p] = NoArena]
         ELSE /\ free_list' = [free_list EXCEPT ![d] = <<h.addr>> \o @]
              /\ arena' = [arena EXCEPT ![p].count = @ + 1]
              /\ UNCHANGED <<kernel_map, page_count>>
    /\ UNCHANGED kpages

Next ==
    \/ \E n \in Count : AllocKpage(n)
    \/ \E k \in kpages : FreeKpage(k)
    \/ \E n \in Size : KmallocLarge(n) \/ KmallocBlock(n) \/ KmallocPage(n)
    \/ \E h \in held : KfreeLarge(h) \/ KfreeBlock(h)

Spec == Init /\ [][Next]_vars

-----------------------------------------------------------------------------
\* What the callers have, as sets of addresses.
Given == {h.addr .. h.addr + h.size - 1 : h \in held}
             \cup {Base(k.page) .. Base(k.page + k.count) - 1 : k \in kpages}

(* kmalloc and alloc_kpage give out pieces as long as they were asked for  *)
(* (arena.c:64-69), in memory of the kernel that nobody has, and kfree and *)
(* free_kpage take back exactly those: a page that kfree gives back        *)
(* (arena.c:127-136), or its blocks, must not be in use or on a list.      *)
A == INSTANCE Allocator
         WITH Addr <- Base(NReserved + 1) .. Base(NPage + 1) - 1,
              Amount <- Size \cup {n * PageUnits : n \in Count},
              owned <- Given

ImplementsAllocator == A!Spec

\* The pages with a header, and those that a header at p stands for.
Small(d) == {p \in KPage : ~arena[p].large /\ arena[p].desc = d}
Span(p) == IF arena[p].large THEN p .. p + arena[p].count - 1 ELSE {p}
Arenas == {p \in KPage : arena[p] # NoArena}

(* A free block is on the list of its size, once, and on no other; the     *)
(* counter of its page says how many there are (arena.c:80, 94, 123), and  *)
(* page_count how many pages there are.                                    *)
BlocksRight == \A d \in Desc :
    LET free == {BlockAt(p, d, i) : p \in Small(d), i \in 0 .. TotalBlock(d) - 1}
                    \ {h.addr : h \in held}
    IN  /\ ToSet(free_list[d]) = free
        /\ Len(free_list[d]) = Cardinality(free)
        /\ page_count[d] = Cardinality(Small(d))
        /\ \A p \in Small(d) :
               arena[p].count = Cardinality({b \in free : PageOf(b) = p})

(* Every page marked in the bitmap belongs to memory_map, to an arena or   *)
(* to a caller of alloc_kpage, and to one of them only: no page is lost    *)
(* (memory.c:355-368).  Nobody but kmalloc writes into a header.           *)
PagesRight ==
    LET owners == {1 .. NReserved} \cup {Span(p) : p \in Arenas}
                      \cup {k.page .. k.page + k.count - 1 : k \in kpages}
    IN  /\ kernel_map = UNION owners
        /\ \A o1, o2 \in owners : o1 # o2 => o1 \cap o2 = {}
        /\ \A p \in Arenas, g \in Given : g \cap Base(p) .. Base(p) + HeaderUnits - 1 = {}

(* The bitmap, the headers, the lists and the callers agree.               *)
HeapRight == PagesRight /\ BlocksRight

(* Memory is given back: of a size that has more than BUF_COUNT pages none *)
(* is wholly free.  kfree looks only at the page of the block it is given  *)
(* (arena.c:126); this is enough because a page is added only when no      *)
(* block is free.                                                          *)
NoIdlePage == \A d \in Desc : page_count[d] > BUF_COUNT =>
    \A p \in Small(d) : arena[p].count < TotalBlock(d)
=============================================================================
