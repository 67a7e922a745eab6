---------------------------- MODULE Memory_proofs ----------------------------
(***************************************************************************)
(* The references of pages, who may write to a page and what a process     *)
(* finds in its memory, for any number of processes and pages.             *)
(*                                                                         *)
(* That the references are right needs no assumption on the calls.  That   *)
(* only a page with one reference is writable is proved for calls of mmap  *)
(* that do not remap a page others refer to (~Remap), and that processes   *)
(* are isolated also for buffers of system calls that are not shared with  *)
(* another process (Unshared).                                             *)
(***************************************************************************)
EXTENDS Memory, FiniteSetTheorems, WellFoundedInduction, TLAPS

DeadHasNothing ==
    \A t \in Proc \ alive :
        table[t] = NoPage /\ \A v \in Vaddr : ~entry[t][v].present

\* A page that is present is a page, and one given out by mmap while it is mapped.
EntryRight(t, v) ==
    entry[t][v].present => /\ entry[t][v].index \in Page
                           /\ v \in Mmap => v \in vmap[t]
EntriesRight == \A t \in Proc, v \in Vaddr : EntryRight(t, v)

\* What the counts count.
Refers(t, v, p) == entry[t][v].present /\ entry[t][v].index = p
Users(p) == {tv \in Proc \X Vaddr : Refers(tv[1], tv[2], p)}
Tables(p) == {t \in Proc : table[t] = p}

\* Either all who refer to a page take it for shared memory, or none does.
SharedAgree ==
    \A t \in Proc, v \in Vaddr, u \in Proc, w \in Vaddr, p \in Page :
        Refers(t, v, p) /\ Refers(u, w, p) => entry[t][v].shared = entry[u][w].shared

\* The inductive invariants: of the counts, and of who may write.
CountInv == TypeOK /\ DeadHasNothing /\ EntriesRight /\ CountsRight
MemoryInv == CountInv /\ WritableIsOwn /\ SharedAgree
-----------------------------------------------------------------------------
LEMMA Numbers ==
    /\ NPage \in Nat /\ NHeap \in Nat /\ NMmap \in Nat
    /\ IsFiniteSet(Proc)
    /\ NoPage \notin Page /\ Page \subseteq Nat /\ Vaddr \subseteq Nat
    /\ Heap \cap Mmap = {}
  BY MemoryAssumption DEF Page, NoPage, Vaddr, Heap, Mmap

LEMMA Finite ==
    /\ IsFiniteSet(Page) /\ Cardinality(Page) = NPage
    /\ \A S \in SUBSET Page : IsFiniteSet(S)
    /\ \A S \in SUBSET Vaddr : IsFiniteSet(S)
    /\ \A S \in SUBSET Proc : IsFiniteSet(S)
    /\ \A S \in SUBSET (Proc \X Vaddr) : IsFiniteSet(S)
  <1>1. IsFiniteSet(Page) /\ Cardinality(Page) = NPage
    <2>1. 1 \in Int /\ NPage \in Int
      BY Numbers
    <2> QED
      BY <2>1, Numbers, FS_Interval DEF Page
  <1>2. IsFiniteSet(Vaddr)
    <2>1. 1 \in Int /\ NHeap \in Int /\ NHeap + 1 \in Int /\ NHeap + NMmap \in Int
      BY Numbers
    <2>2. IsFiniteSet(Heap) /\ IsFiniteSet(Mmap)
      BY <2>1, FS_Interval DEF Heap, Mmap
    <2> QED
      BY <2>2, FS_Union DEF Vaddr
  <1>3. IsFiniteSet(Proc \X Vaddr)
    BY <1>2, Numbers, FS_Product
  <1> QED
    BY <1>1, <1>2, <1>3, Numbers, FS_Subset

\* A set of numbers that is not empty has a least element.
LEMMA LeastNumber ==
    ASSUME NEW S \in SUBSET Nat, S # {}
    PROVE  \E x \in S : \A y \in S : x <= y
  <1>1. PICK x \in S : \A y \in S : ~(<<y, x>> \in OpToRel(<, Nat))
    BY NatLessThanWellFounded, WFMin
  <1>2. \A y \in S : ~(y < x)
    BY <1>1 DEF OpToRel
  <1> QED
    BY <1>2

LEMMA Another ==
    ASSUME NEW S, IsFiniteSet(S), Cardinality(S) >= 2, NEW x \in S
    PROVE  S \ {x} # {}
  <1>1. IsFiniteSet(S \ {x}) /\ Cardinality(S \ {x}) = Cardinality(S) - 1
    BY FS_RemoveElement
  <1>2. Cardinality(S) \in Nat
    BY FS_CardinalityType
  <1> QED
    BY <1>1, <1>2, FS_EmptySet

\* get_page finds a free page when there is one.
LEMMA GetPageFree ==
    ASSUME NEW m, Free(m) # {}
    PROVE  GetPage(m) \in Page /\ m[GetPage(m)] = 0
  <1>1. Free(m) \in SUBSET Nat
    BY Numbers DEF Free
  <1>2. \E p \in Free(m) : \A q \in Free(m) : p <= q
    BY <1>1, LeastNumber
  <1>3. GetPage(m) \in Free(m)
    BY <1>2 DEF GetPage
  <1> QED
    BY <1>3 DEF Free
-----------------------------------------------------------------------------
\* The entries E that refer to p.
RefersIn(E, v, p) == E[v].present /\ E[v].index = p

LEMMA RefsType ==
    ASSUME NEW E, NEW p
    PROVE  Refs(E, p) \in Nat
  <1>1. IsFiniteSet({v \in Vaddr : E[v].present /\ E[v].index = p})
    BY Finite
  <1> QED
    BY <1>1, FS_CardinalityType DEF Refs

LEMMA RefsSame ==
    ASSUME NEW E, NEW F, NEW p,
           \A v \in Vaddr : RefersIn(E, v, p) <=> RefersIn(F, v, p)
    PROVE  Refs(E, p) = Refs(F, p)
  <1>1. {v \in Vaddr : E[v].present /\ E[v].index = p}
          = {v \in Vaddr : F[v].present /\ F[v].index = p}
    BY DEF RefersIn
  <1> QED
    BY <1>1 DEF Refs

LEMMA RefsNone ==
    ASSUME NEW E, NEW p, \A v \in Vaddr : ~RefersIn(E, v, p)
    PROVE  Refs(E, p) = 0
  <1>1. {v \in Vaddr : E[v].present /\ E[v].index = p} = {}
    BY DEF RefersIn
  <1> QED
    BY <1>1, FS_EmptySet DEF Refs

LEMMA RefsMore ==
    ASSUME NEW E, NEW F, NEW p, NEW a \in Vaddr, ~RefersIn(E, a, p),
           \A v \in Vaddr : RefersIn(F, v, p) <=> RefersIn(E, v, p) \/ v = a
    PROVE  Refs(F, p) = Refs(E, p) + 1
  <1> DEFINE S == {v \in Vaddr : E[v].present /\ E[v].index = p}
             T == {v \in Vaddr : F[v].present /\ F[v].index = p}
  <1>1. T = S \cup {a} /\ a \notin S
    BY DEF RefersIn
  <1>2. IsFiniteSet(S)
    BY Finite
  <1>3. Cardinality(T) = Cardinality(S) + 1
    <2> HIDE DEF S, T
    <2> QED
      BY <1>1, <1>2, FS_AddElement
  <1> QED
    BY <1>3 DEF Refs

\* The entries G are those of E and of F.
LEMMA RefsSum ==
    ASSUME NEW E, NEW F, NEW G, NEW p,
           \A v \in Vaddr : RefersIn(G, v, p) <=> RefersIn(E, v, p) \/ RefersIn(F, v, p),
           \A v \in Vaddr : ~(RefersIn(E, v, p) /\ RefersIn(F, v, p))
    PROVE  Refs(G, p) = Refs(E, p) + Refs(F, p)
  <1> DEFINE S == {v \in Vaddr : E[v].present /\ E[v].index = p}
             T == {v \in Vaddr : F[v].present /\ F[v].index = p}
             U == {v \in Vaddr : G[v].present /\ G[v].index = p}
  <1>1. U = S \cup T /\ S \cap T = {}
    BY DEF RefersIn
  <1>2. IsFiniteSet(S) /\ IsFiniteSet(T)
    BY Finite
  <1>3. Cardinality(U) = Cardinality(S) + Cardinality(T)
    <2> HIDE DEF S, T, U
    <2>1. Cardinality(S) \in Nat /\ Cardinality(T) \in Nat
      BY <1>2, FS_CardinalityType
    <2> QED
      BY <1>1, <1>2, <2>1, FS_Union, FS_EmptySet
  <1> QED
    BY <1>3 DEF Refs
-----------------------------------------------------------------------------
\* The users of a page, process by process.
Row(t, D) == {t} \X D

LEMMA RowCount ==
    ASSUME NEW t, NEW D, IsFiniteSet(D)
    PROVE  IsFiniteSet(Row(t, D)) /\ Cardinality(Row(t, D)) = Cardinality(D)
  <1>1. IsFiniteSet({t}) /\ Cardinality({t}) = 1
    BY FS_Singleton
  <1>2. Cardinality(D) \in Nat
    BY FS_CardinalityType
  <1> QED
    BY <1>1, <1>2, FS_Product DEF Row

LEMMA RowSplit ==
    ASSUME NEW S \in SUBSET (Proc \X Vaddr), NEW t \in Proc
    PROVE  /\ Cardinality(S) = Cardinality({x \in S : x[1] # t})
                               + Cardinality({v \in Vaddr : <<t, v>> \in S})
           /\ Cardinality({x \in S : x[1] # t}) \in Nat
           /\ Cardinality({v \in Vaddr : <<t, v>> \in S}) \in Nat
  <1> DEFINE O == {x \in S : x[1] # t}
             D == {v \in Vaddr : <<t, v>> \in S}
  <1>1. IsFiniteSet(O) /\ IsFiniteSet(D)
    BY Finite
  <1>2. S = O \cup Row(t, D) /\ O \cap Row(t, D) = {}
    BY DEF Row
  <1> HIDE DEF O, D
  <1>3. IsFiniteSet(Row(t, D)) /\ Cardinality(Row(t, D)) = Cardinality(D)
    BY <1>1, RowCount
  <1>4. Cardinality(O) \in Nat /\ Cardinality(D) \in Nat
    BY <1>1, FS_CardinalityType
  <1>5. Cardinality(S) = Cardinality(O) + Cardinality(D)
    BY <1>1, <1>2, <1>3, <1>4, FS_Union, FS_EmptySet
  <1> QED
    BY <1>4, <1>5 DEF O, D

\* A step that changes the entries of one process.
LEMMA UsersRow ==
    ASSUME NEW t \in Proc, NEW p,
           \A u \in Proc \ {t}, v \in Vaddr : Refers(u, v, p)' <=> Refers(u, v, p)
    PROVE  /\ Cardinality(Users(p)') + Refs(entry[t], p)
                  = Cardinality(Users(p)) + Refs(entry'[t], p)
           /\ Cardinality(Users(p)) \in Nat /\ Cardinality(Users(p)') \in Nat
           /\ Refs(entry[t], p) <= Cardinality(Users(p))
  <1>1. PICK S \in SUBSET (Proc \X Vaddr) : S = Users(p)
    BY DEF Users
  <1>2. PICK T \in SUBSET (Proc \X Vaddr) : T = Users(p)'
    BY DEF Users
  <1>3. Refs(entry[t], p) = Cardinality({v \in Vaddr : <<t, v>> \in S})
    <2>1. {v \in Vaddr : <<t, v>> \in S} = {v \in Vaddr : entry[t][v].present /\ entry[t][v].index = p}
      BY <1>1 DEF Users, Refers
    <2> QED
      BY <2>1 DEF Refs
  <1>4. Refs(entry'[t], p) = Cardinality({v \in Vaddr : <<t, v>> \in T})
    <2>1. {v \in Vaddr : <<t, v>> \in T} = {v \in Vaddr : entry'[t][v].present /\ entry'[t][v].index = p}
      BY <1>2 DEF Users, Refers
    <2> QED
      BY <2>1 DEF Refs
  <1>5. {x \in S : x[1] # t} = {x \in T : x[1] # t}
    <2>1. ASSUME NEW x \in Proc \X Vaddr, x[1] # t PROVE x \in S <=> x \in T
      <3>1. x[1] \in Proc \ {t} /\ x[2] \in Vaddr
        BY <2>1
      <3>2. Refers(x[1], x[2], p)' <=> Refers(x[1], x[2], p)
        BY <3>1
      <3>3. x \in S <=> Refers(x[1], x[2], p)
        BY <1>1 DEF Users
      <3>4. x \in T <=> Refers(x[1], x[2], p)'
        BY <1>2 DEF Users
      <3> QED
        BY <3>2, <3>3, <3>4
    <2> QED
      BY <2>1
  <1>6. /\ Cardinality(S) = Cardinality({x \in S : x[1] # t})
                            + Cardinality({v \in Vaddr : <<t, v>> \in S})
        /\ Cardinality({x \in S : x[1] # t}) \in Nat
        /\ Cardinality({v \in Vaddr : <<t, v>> \in S}) \in Nat
    BY RowSplit
  <1>7. /\ Cardinality(T) = Cardinality({x \in T : x[1] # t})
                            + Cardinality({v \in Vaddr : <<t, v>> \in T})
        /\ Cardinality({v \in Vaddr : <<t, v>> \in T}) \in Nat
    BY RowSplit
  <1>8. /\ Cardinality(T) + Refs(entry[t], p) = Cardinality(S) + Refs(entry'[t], p)
        /\ Cardinality(S) \in Nat /\ Cardinality(T) \in Nat
        /\ Refs(entry[t], p) <= Cardinality(S)
    BY <1>3, <1>4, <1>5, <1>6, <1>7
  <1> QED
    BY <1>1, <1>2, <1>8

\* The page tables that a page holds.
LEMMA TablesSame ==
    ASSUME NEW p, \A t \in Proc : table'[t] = p <=> table[t] = p
    PROVE  Cardinality(Tables(p)') = Cardinality(Tables(p))
  <1>1. Tables(p)' = Tables(p)
    BY DEF Tables
  <1> QED
    BY <1>1

LEMMA TablesMore ==
    ASSUME NEW p, NEW a \in Proc, table[a] # p,
           \A t \in Proc : table'[t] = p <=> table[t] = p \/ t = a
    PROVE  Cardinality(Tables(p)') = Cardinality(Tables(p)) + 1
  <1>1. Tables(p)' = Tables(p) \cup {a} /\ a \notin Tables(p)
    BY DEF Tables
  <1>2. IsFiniteSet(Tables(p))
    BY Finite DEF Tables
  <1> QED
    BY <1>1, <1>2, FS_AddElement

LEMMA TablesLess ==
    ASSUME NEW p, NEW a \in Proc, table[a] = p,
           \A t \in Proc : table'[t] = p <=> table[t] = p /\ t # a
    PROVE  Cardinality(Tables(p)') = Cardinality(Tables(p)) - 1
  <1>1. Tables(p)' = Tables(p) \ {a} /\ a \in Tables(p)
    BY DEF Tables
  <1>2. IsFiniteSet(Tables(p))
    BY Finite DEF Tables
  <1> QED
    BY <1>1, <1>2, FS_RemoveElement

\* The invariant in these words.
LEMMA Counted ==
    /\ CountsRight <=>
         /\ \A p \in Page : memory_map[p] = Cardinality(Users(p)) + Cardinality(Tables(p))
         /\ free_pages = Cardinality(Free(memory_map))
    /\ \A p : Cardinality(Users(p)) \in Nat /\ Cardinality(Tables(p)) \in Nat
  <1>1. CountsRight <=>
         /\ \A p \in Page : memory_map[p] = Cardinality(Users(p)) + Cardinality(Tables(p))
         /\ free_pages = Cardinality(Free(memory_map))
    BY DEF CountsRight, Users, Refers, Tables
  <1>2. \A p : IsFiniteSet(Users(p)) /\ IsFiniteSet(Tables(p))
    BY Finite DEF Users, Tables
  <1> QED
    BY <1>1, <1>2, FS_CardinalityType

LEMMA CountedNext ==
    CountsRight' <=>
        /\ \A p \in Page : memory_map'[p] = Cardinality(Users(p)') + Cardinality(Tables(p)')
        /\ free_pages' = Cardinality(Free(memory_map'))
  BY DEF CountsRight, Users, Refers, Tables

\* The counter of free pages follows the references.
LEMMA BecomeRight ==
    ASSUME CountInv, NEW m \in [Page -> Nat],
           NEW d \in [Page -> Value \cup {Blank}], Become(m, d)
    PROVE  /\ memory_map' = m
           /\ free_pages' = Cardinality(Free(memory_map'))
           /\ free_pages' \in 0 .. NPage
           /\ data' \in [Page -> Value \cup {Blank}]
           /\ \A p \in Page : m[p] # 0 => data'[p] = d[p]
  <1>1. memory_map' = m
    BY DEF Become
  <1>2. PICK A \in SUBSET Page : A = Free(memory_map)
    BY DEF Free
  <1>3. PICK B \in SUBSET Page : B = Free(m)
    BY DEF Free
  <1>4. free_pages' = Cardinality(A) + Cardinality(B \ A) - Cardinality(A \ B)
    BY <1>2, <1>3, Counted DEF Become, CountInv
  <1>5. /\ IsFiniteSet(A) /\ IsFiniteSet(B) /\ IsFiniteSet(A \cap B)
        /\ IsFiniteSet(A \ B) /\ IsFiniteSet(B \ A)
    BY Finite
  <1>6. /\ Cardinality(A) \in Nat /\ Cardinality(B) \in Nat
        /\ Cardinality(A \cap B) \in Nat
        /\ Cardinality(A \ B) \in Nat /\ Cardinality(B \ A) \in Nat
    BY <1>5, FS_CardinalityType
  <1>7. Cardinality(A \ B) = Cardinality(A) - Cardinality(A \cap B)
    BY <1>5, FS_Difference
  <1>8. Cardinality(B \ A) = Cardinality(B) - Cardinality(A \cap B)
    <2>1. B \cap A = A \cap B
      OBVIOUS
    <2>2. Cardinality(B \ A) = Cardinality(B) - Cardinality(B \cap A)
      BY <1>5, FS_Difference
    <2> QED
      BY <2>1, <2>2
  <1>9. free_pages' = Cardinality(B)
    BY <1>4, <1>6, <1>7, <1>8
  <1>10. Cardinality(B) <= NPage
    BY <1>3, Finite, FS_Subset
  <1>11. data' = [p \in Page |-> IF m[p] = 0 THEN Blank ELSE d[p]]
    BY DEF Become
  <1>12. free_pages' \in 0 .. NPage
    BY <1>6, <1>9, <1>10, Numbers
  <1> QED
    BY <1>1, <1>3, <1>9, <1>11, <1>12
-----------------------------------------------------------------------------
\* link_page when the references are m: a free page for the table if there is
\* none yet (m1), then a free page p.
LinksPages(t, v, m, bits, m1, p, x) ==
    /\ m1[p] = 0 /\ m[p] = 0
    /\ \A q \in Page :
          m1[q] + Cardinality(Tables(q)) = m[q] + Cardinality(Tables(q)')
    /\ \A q \in Page : m1[q] = m[q] \/ m1[q] = 1
    /\ table' \in [Proc -> Page \cup {NoPage}]
    /\ \A u \in Proc \ {t} : table'[u] = table[u]
    /\ Become([m1 EXCEPT ![p] = 1], [data EXCEPT ![p] = x])
    /\ entry' = [entry EXCEPT ![t] = [bits EXCEPT ![v].index = p]]

LEMMA LinkPages ==
    ASSUME CountInv, NEW t \in Proc, NEW v \in Vaddr, NEW m \in [Page -> Nat],
           NEW bits, Link(t, v, m, bits)
    PROVE  \E m1 \in [Page -> Nat], p \in Page, x \in Value :
              LinksPages(t, v, m, bits, m1, p, x)
  <1>0. table \in [Proc -> Page \cup {NoPage}]
    BY DEF CountInv, TypeOK
  <1>1. CASE table[t] = NoPage
    <2> DEFINE g == GetPage(m)
               m1 == [m EXCEPT ![g] = 1]
               p == GetPage(m1)
    <2>1. Free(m) # {} /\ IsFiniteSet(Free(m)) /\ Cardinality(Free(m)) >= 2
      <3>1. Cardinality(Free(m)) >= 2
        BY <1>1 DEF Link
      <3>2. IsFiniteSet(Free(m))
        BY Finite DEF Free
      <3> QED
        BY <3>1, <3>2, FS_EmptySet
    <2>2. g \in Page /\ m[g] = 0
      BY <2>1, GetPageFree
    <2>3. m1 \in [Page -> Nat] /\ \A q \in Page : m1[q] = IF q = g THEN 1 ELSE m[q]
      BY <2>2
    <2>4. Free(m1) # {}
      <3>1. g \in Free(m)
        BY <2>2 DEF Free
      <3>3. Free(m) \ {g} # {}
        <4> HIDE DEF g
        <4> QED
          BY <2>1, <3>1, Another
      <3>4. Free(m) \ {g} \subseteq Free(m1)
        BY <2>3 DEF Free
      <3> QED
        BY <3>3, <3>4
    <2>5. p \in Page /\ m1[p] = 0
      <3> HIDE DEF m1
      <3> QED
        BY <2>4, GetPageFree
    <2>6. m[p] = 0
      BY <2>3, <2>5
    <2>7. /\ table' = [table EXCEPT ![t] = g]
          /\ \E x \in Value : Become([m1 EXCEPT ![p] = 1], [data EXCEPT ![p] = x])
          /\ entry' = [entry EXCEPT ![t] = [bits EXCEPT ![v].index = p]]
      BY <1>1 DEF Link
    <2> HIDE DEF g, m1, p
    <2>8. /\ table' \in [Proc -> Page \cup {NoPage}]
          /\ table'[t] = g
          /\ \A u \in Proc \ {t} : table'[u] = table[u]
      BY <1>0, <2>2, <2>7
    <2>9. Cardinality(Tables(g)') = Cardinality(Tables(g)) + 1
      <3>1. table[t] # g
        BY <1>1, <2>2, Numbers
      <3> QED
        BY <2>8, <3>1, TablesMore
    <2>10. \A q \in Page \ {g} : Cardinality(Tables(q)') = Cardinality(Tables(q))
      BY <1>1, <2>8, Numbers, TablesSame
    <2>11. ASSUME NEW q \in Page
           PROVE  m1[q] + Cardinality(Tables(q)) = m[q] + Cardinality(Tables(q)')
      <3>1. m[q] \in Nat /\ Cardinality(Tables(q)) \in Nat
        BY Counted
      <3>2. CASE q = g
        BY <2>2, <2>3, <2>9, <3>1, <3>2
      <3>3. CASE q # g
        BY <2>3, <2>10, <3>1, <3>3
      <3> QED
        BY <3>2, <3>3
    <2>12. PICK x \in Value : Become([m1 EXCEPT ![p] = 1], [data EXCEPT ![p] = x])
      BY <2>7
    <2>13. LinksPages(t, v, m, bits, m1, p, x)
      BY <2>3, <2>5, <2>6, <2>7, <2>8, <2>11, <2>12 DEF LinksPages
    <2> QED
      BY <2>3, <2>5, <2>13
  <1>2. CASE table[t] # NoPage
    <2> DEFINE p == GetPage(m)
    <2>1. p \in Page /\ m[p] = 0
      <3>1. Free(m) # {}
        BY <1>2, FS_EmptySet DEF Link
      <3> QED
        BY <3>1, GetPageFree
    <2>2. /\ table' = [table EXCEPT ![t] = table[t]]
          /\ \E x \in Value : Become([m EXCEPT ![p] = 1], [data EXCEPT ![p] = x])
          /\ entry' = [entry EXCEPT ![t] = [bits EXCEPT ![v].index = p]]
      BY <1>2 DEF Link
    <2> HIDE DEF p
    <2>3. table' = table
      BY <1>0, <2>2
    <2>4. \A q \in Page : Cardinality(Tables(q)') = Cardinality(Tables(q))
      BY <2>3, TablesSame
    <2>5. \A q \in Page : m[q] + Cardinality(Tables(q)) = m[q] + Cardinality(Tables(q)')
      BY <2>4
    <2>6. PICK x \in Value : Become([m EXCEPT ![p] = 1], [data EXCEPT ![p] = x])
      BY <2>2
    <2>7. LinksPages(t, v, m, bits, m, p, x)
      BY <1>0, <2>1, <2>2, <2>3, <2>5, <2>6 DEF LinksPages
    <2> QED
      BY <2>1, <2>7
  <1> QED
    BY <1>1, <1>2

\* What link_page leaves behind when E are the entries without the new one.
Linked(t, v, E, bits, m, p) ==
    /\ memory_map' \in [Page -> Nat] /\ free_pages' \in 0 .. NPage
    /\ data' \in [Page -> Value \cup {Blank}]
    /\ table' \in [Proc -> Page \cup {NoPage}]
    /\ entry' \in [Proc -> [Vaddr -> Entry]]
    /\ CountsRight'
    /\ \A u \in Proc \ {t} : table'[u] = table[u] /\ entry'[u] = entry[u]
    /\ memory_map'[p] = 1
    /\ \A q \in Page : memory_map'[q] = 1 \/ memory_map'[q] = m[q]
    /\ \A q \in Page \ {p} : memory_map'[q] # 0 => data'[q] = data[q]
    /\ \A w \in Vaddr \ {v} : entry'[t][w] = E[w]
    /\ entry'[t][v].present /\ entry'[t][v].index = p
    /\ entry'[t][v].shared = bits[v].shared

LEMMA LinkRight ==
    ASSUME CountInv, NEW t \in Proc, NEW v \in Vaddr, NEW m \in [Page -> Nat],
           NEW E \in [Vaddr -> Entry], NEW bits \in [Vaddr -> Entry],
           ~E[v].present, bits[v].present, \A w \in Vaddr \ {v} : bits[w] = E[w],
           \A q \in Page : m[q] + Refs(entry[t], q) = memory_map[q] + Refs(E, q),
           Link(t, v, m, bits)
    PROVE  \E p \in Page : Linked(t, v, E, bits, m, p)
  <1>0. PICK m1 \in [Page -> Nat], p \in Page, x \in Value :
            LinksPages(t, v, m, bits, m1, p, x)
    BY LinkPages
  <1>1. /\ m1[p] = 0 /\ m[p] = 0
        /\ \A q \in Page :
              m1[q] + Cardinality(Tables(q)) = m[q] + Cardinality(Tables(q)')
        /\ \A q \in Page : m1[q] = m[q] \/ m1[q] = 1
        /\ table' \in [Proc -> Page \cup {NoPage}]
        /\ \A u \in Proc \ {t} : table'[u] = table[u]
        /\ Become([m1 EXCEPT ![p] = 1], [data EXCEPT ![p] = x])
        /\ entry' = [entry EXCEPT ![t] = [bits EXCEPT ![v].index = p]]
    BY <1>0 DEF LinksPages
  <1>2. PICK m2 \in [Page -> Nat] : m2 = [m1 EXCEPT ![p] = 1]
    OBVIOUS
  <1>3. \A q \in Page : m2[q] = IF q = p THEN 1 ELSE m1[q]
    BY <1>2
  <1>4. PICK d \in [Page -> Value \cup {Blank}] :
            /\ d = [data EXCEPT ![p] = x]
            /\ \A q \in Page \ {p} : d[q] = data[q]
    <2>1. data \in [Page -> Value \cup {Blank}]
      BY DEF CountInv, TypeOK
    <2>2. PICK d \in [Page -> Value \cup {Blank}] : d = [data EXCEPT ![p] = x]
      BY <2>1
    <2>3. \A q \in Page \ {p} : d[q] = data[q]
      BY <2>1, <2>2
    <2> QED
      BY <2>2, <2>3
  <1>5. /\ memory_map' = m2
        /\ free_pages' = Cardinality(Free(memory_map'))
        /\ free_pages' \in 0 .. NPage
        /\ data' \in [Page -> Value \cup {Blank}]
        /\ \A q \in Page : m2[q] # 0 => data'[q] = d[q]
    <2>1. Become(m2, d)
      BY <1>1, <1>2, <1>4
    <2> QED
      BY <2>1, BecomeRight
  <1>6. PICK r \in Entry : /\ r = [bits[v] EXCEPT !.index = p]
                           /\ r.present = bits[v].present /\ r.shared = bits[v].shared
                           /\ r.index = p
    <2>3. bits[v] \in Entry /\ p \in 0 .. NPage
      BY Numbers DEF Page
    <2>1. [bits[v] EXCEPT !.index = p] \in Entry
      BY <2>3 DEF Entry
    <2>2. PICK r \in Entry : r = [bits[v] EXCEPT !.index = p]
      BY <2>1
    <2>4. r.present = bits[v].present /\ r.shared = bits[v].shared /\ r.index = p
      BY <2>2, <2>3 DEF Entry
    <2> QED
      BY <2>2, <2>4
  <1>7. PICK F \in [Vaddr -> Entry] : /\ F = [bits EXCEPT ![v].index = p]
                                      /\ F[v] = r
                                      /\ \A w \in Vaddr \ {v} : F[w] = E[w]
    <2>1. PICK F \in [Vaddr -> Entry] : F = [bits EXCEPT ![v] = r]
      OBVIOUS
    <2>2. F = [bits EXCEPT ![v].index = p]
      BY <1>6, <2>1
    <2>3. F[v] = r /\ \A w \in Vaddr \ {v} : F[w] = E[w]
      BY <2>1
    <2> QED
      BY <2>2, <2>3
  <1>8. /\ entry' \in [Proc -> [Vaddr -> Entry]] /\ entry'[t] = F
        /\ \A u \in Proc \ {t} : entry'[u] = entry[u]
    BY <1>1, <1>7 DEF CountInv, TypeOK
  <1>9. CountsRight'
    <2>1. ASSUME NEW q \in Page
          PROVE  memory_map'[q] = Cardinality(Users(q)') + Cardinality(Tables(q)')
      <3>0. Refs(entry'[t], q) = Refs(F, q)
        BY <1>8
      <3>1. /\ Cardinality(Users(q)') + Refs(entry[t], q)
                  = Cardinality(Users(q)) + Refs(entry'[t], q)
            /\ Cardinality(Users(q)) \in Nat /\ Cardinality(Users(q)') \in Nat
        BY <1>8, UsersRow DEF Refers
      <3>2. /\ memory_map[q] = Cardinality(Users(q)) + Cardinality(Tables(q))
            /\ Cardinality(Tables(q)) \in Nat
        BY Counted DEF CountInv
      <3>3. Refs(E, q) \in Nat /\ Refs(entry[t], q) \in Nat /\ Refs(F, q) \in Nat
        BY RefsType
      <3>4. Cardinality(Tables(q)') \in Nat
        <4>1. IsFiniteSet(Tables(q)')
          BY Finite DEF Tables
        <4> QED
          BY <4>1, FS_CardinalityType
      <3>5. /\ m1[q] + Cardinality(Tables(q)) = m[q] + Cardinality(Tables(q)')
            /\ m1[q] \in Nat /\ m[q] \in Nat
        BY <1>1
      <3>6. m[q] + Refs(entry[t], q) = memory_map[q] + Refs(E, q)
        OBVIOUS
      <3>7. CASE q = p
        <4>1. Refs(F, q) = Refs(E, q) + 1
          <5>1. ~RefersIn(E, v, q)
            BY DEF RefersIn
          <5>2. \A w \in Vaddr : RefersIn(F, w, q) <=> RefersIn(E, w, q) \/ w = v
            BY <1>6, <1>7, <3>7 DEF RefersIn
          <5> QED
            BY <5>1, <5>2, RefsMore
        <4>2. memory_map'[q] = 1 /\ m1[q] = 0
          BY <1>1, <1>3, <1>5, <3>7
        <4> QED
          BY <3>0, <3>1, <3>2, <3>3, <3>4, <3>5, <3>6, <4>1, <4>2
      <3>8. CASE q # p
        <4>1. Refs(F, q) = Refs(E, q)
          <5>1. \A w \in Vaddr : RefersIn(F, w, q) <=> RefersIn(E, w, q)
            BY <1>6, <1>7, <3>8 DEF RefersIn
          <5> QED
            BY <5>1, RefsSame
        <4>2. memory_map'[q] = m1[q]
          BY <1>3, <1>5, <3>8
        <4> QED
          BY <3>0, <3>1, <3>2, <3>3, <3>4, <3>5, <3>6, <4>1, <4>2
      <3> QED
        BY <3>7, <3>8
    <2> QED
      BY <1>5, <2>1, CountedNext
  <1>10. /\ memory_map'[p] = 1
         /\ \A q \in Page : memory_map'[q] = 1 \/ memory_map'[q] = m[q]
         /\ \A q \in Page \ {p} : memory_map'[q] # 0 => data'[q] = data[q]
    BY <1>1, <1>3, <1>4, <1>5
  <1>11. /\ \A w \in Vaddr \ {v} : entry'[t][w] = E[w]
         /\ entry'[t][v].present /\ entry'[t][v].index = p
         /\ entry'[t][v].shared = bits[v].shared
    BY <1>6, <1>7, <1>8
  <1>12. memory_map' \in [Page -> Nat]
    BY <1>5
  <1> QED
    BY <1>1, <1>5, <1>8, <1>9, <1>10, <1>11, <1>12 DEF Linked
-----------------------------------------------------------------------------
\* A page that is used has a reference, and when it has only one, only one user.
LEMMA AtMostOne ==
    ASSUME NEW S, IsFiniteSet(S), NEW n \in Nat, NEW x \in S
    PROVE  /\ Cardinality(S) + n >= 1
           /\ Cardinality(S) + n = 1 => \A y \in S : y = x
  <1>1. Cardinality(S) \in Nat
    BY FS_CardinalityType
  <1>2. Cardinality(S) # 0
    BY FS_EmptySet
  <1>3. ASSUME Cardinality(S) + n = 1 PROVE \A y \in S : y = x
    <2>1. Cardinality(S) = 1
      BY <1>1, <1>2, <1>3
    <2>2. PICK z : S = {z}
      BY <2>1, FS_Singleton
    <2> QED
      BY <2>2
  <1> QED
    BY <1>1, <1>2, <1>3

LEMMA OnlyUser ==
    ASSUME CountInv, NEW t \in Proc, NEW v \in Vaddr, NEW p \in Page, Refers(t, v, p)
    PROVE  /\ memory_map[p] >= 1 /\ memory_map[p] \in Nat
           /\ memory_map[p] = 1 => \A u \in Proc, w \in Vaddr :
                                       Refers(u, w, p) => u = t /\ w = v
  <1>1. PICK S \in SUBSET (Proc \X Vaddr) : S = Users(p)
    BY DEF Users
  <1>2. PICK n \in Nat : n = Cardinality(Tables(p))
    BY Counted
  <1>3. memory_map[p] = Cardinality(S) + n /\ memory_map[p] \in Nat
    BY <1>1, <1>2, Counted DEF CountInv, TypeOK
  <1>4. \A u \in Proc, w \in Vaddr : Refers(u, w, p) <=> <<u, w>> \in S
    BY <1>1 DEF Users
  <1>5. <<t, v>> \in S /\ IsFiniteSet(S)
    BY <1>4, Finite
  <1>6. /\ Cardinality(S) + n >= 1
        /\ Cardinality(S) + n = 1 => \A y \in S : y = <<t, v>>
    BY <1>5, AtMostOne
  <1> QED
    BY <1>3, <1>4, <1>6

LEMMA OnlyUserNext ==
    ASSUME CountInv', NEW t \in Proc, NEW v \in Vaddr, NEW p \in Page, Refers(t, v, p)'
    PROVE  /\ memory_map'[p] >= 1 /\ memory_map'[p] \in Nat
           /\ memory_map'[p] = 1 => \A u \in Proc, w \in Vaddr :
                                       Refers(u, w, p)' => u = t /\ w = v
  <1>1. PICK S \in SUBSET (Proc \X Vaddr) : S = Users(p)'
    BY DEF Users
  <1>2. PICK n \in Nat : n = Cardinality(Tables(p)')
    <2>1. IsFiniteSet(Tables(p)')
      BY Finite DEF Tables
    <2> QED
      BY <2>1, FS_CardinalityType
  <1>3. memory_map'[p] = Cardinality(S) + n /\ memory_map'[p] \in Nat
    BY <1>1, <1>2, CountedNext DEF CountInv, TypeOK
  <1>4. \A u \in Proc, w \in Vaddr : Refers(u, w, p)' <=> <<u, w>> \in S
    BY <1>1 DEF Users
  <1>5. <<t, v>> \in S /\ IsFiniteSet(S)
    BY <1>4, Finite
  <1>6. /\ Cardinality(S) + n >= 1
        /\ Cardinality(S) + n = 1 => \A y \in S : y = <<t, v>>
    BY <1>5, AtMostOne
  <1> QED
    BY <1>3, <1>4, <1>6

\* Where an entry comes from: it is the only user of its page, or it was an
\* entry of this or of the parent process.
Derived(t, v) ==
    entry'[t][v].present =>
        \/ memory_map'[entry'[t][v].index] = 1
        \/ \E s \in Proc :
              /\ Refers(s, v, entry'[t][v].index)
              /\ entry[s][v].shared = entry'[t][v].shared
              /\ entry'[t][v].write /\ ~entry'[t][v].shared =>
                    /\ entry[s][v].write
                    /\ memory_map'[entry'[t][v].index] <= memory_map[entry'[t][v].index]

LEMMA DerivedRight ==
    ASSUME MemoryInv, CountInv', \A t \in Proc, v \in Vaddr : Derived(t, v)
    PROVE  WritableIsOwn' /\ SharedAgree'
  <1>1. WritableIsOwn'
    <2> SUFFICES ASSUME NEW t \in Proc, NEW v \in Vaddr, entry'[t][v].present,
                        entry'[t][v].write, ~entry'[t][v].shared
                 PROVE  memory_map'[entry'[t][v].index] = 1
      BY DEF WritableIsOwn
    <2>1. PICK p \in Page : p = entry'[t][v].index
      BY DEF CountInv, EntriesRight, EntryRight
    <2>2. memory_map'[p] >= 1 /\ memory_map'[p] \in Nat
      <3>1. Refers(t, v, p)'
        BY <2>1 DEF Refers
      <3> QED
        BY <3>1, OnlyUserNext
    <2>3. CASE memory_map'[p] # 1
      <3>1. PICK s \in Proc : /\ Refers(s, v, p) /\ ~entry[s][v].shared
                              /\ entry[s][v].write /\ memory_map'[p] <= memory_map[p]
        BY <2>1, <2>3 DEF Derived
      <3>2. memory_map[p] = 1
        BY <3>1 DEF Refers, MemoryInv, WritableIsOwn
      <3> QED
        BY <2>2, <2>3, <3>1, <3>2
    <2> QED
      BY <2>1, <2>3
  <1>2. SharedAgree'
    <2> SUFFICES ASSUME NEW t \in Proc, NEW v \in Vaddr, NEW u \in Proc, NEW w \in Vaddr,
                        NEW p \in Page, Refers(t, v, p)', Refers(u, w, p)'
                 PROVE  entry'[t][v].shared = entry'[u][w].shared
      BY DEF SharedAgree
    <2>1. CASE memory_map'[p] = 1
      <3>1. u = t /\ w = v
        BY <2>1, OnlyUserNext
      <3> QED
        BY <3>1
    <2>2. CASE memory_map'[p] # 1
      <3>1. PICK s \in Proc : Refers(s, v, p) /\ entry[s][v].shared = entry'[t][v].shared
        BY <2>2 DEF Derived, Refers
      <3>2. PICK r \in Proc : Refers(r, w, p) /\ entry[r][w].shared = entry'[u][w].shared
        BY <2>2 DEF Derived, Refers
      <3>3. entry[s][v].shared = entry[r][w].shared
        BY <3>1, <3>2 DEF MemoryInv, SharedAgree
      <3> QED
        BY <3>1, <3>2, <3>3
    <2> QED
      BY <2>1, <2>2
  <1> QED
    BY <1>1, <1>2
-----------------------------------------------------------------------------
\* The entries of the pages V, and the others.
Gone(t, V) == [v \in Vaddr |-> IF v \in V THEN entry[t][v] ELSE Absent]
Kept(t, V) == [v \in Vaddr |-> IF v \in V THEN Absent ELSE entry[t][v]]

LEMMA AbsentEntry == Absent \in Entry /\ ~Absent.present /\ ~Absent.shared
  BY Numbers DEF Absent, Entry, NoPage

LEMMA RefsBound ==
    ASSUME NEW t \in Proc, NEW q
    PROVE  /\ Refs(entry[t], q) <= Cardinality(Users(q))
           /\ Refs(entry[t], q) \in Nat /\ Cardinality(Users(q)) \in Nat
  <1>1. PICK S \in SUBSET (Proc \X Vaddr) : S = Users(q)
    BY DEF Users
  <1>2. {v \in Vaddr : <<t, v>> \in S}
          = {v \in Vaddr : entry[t][v].present /\ entry[t][v].index = q}
    BY <1>1 DEF Users, Refers
  <1>3. /\ Cardinality(S) = Cardinality({x \in S : x[1] # t})
                            + Cardinality({v \in Vaddr : <<t, v>> \in S})
        /\ Cardinality({x \in S : x[1] # t}) \in Nat
        /\ Cardinality({v \in Vaddr : <<t, v>> \in S}) \in Nat
    BY RowSplit
  <1>4. Refs(entry[t], q) = Cardinality({v \in Vaddr : <<t, v>> \in S})
    BY <1>2 DEF Refs
  <1>5. /\ Refs(entry[t], q) <= Cardinality(S)
        /\ Refs(entry[t], q) \in Nat /\ Cardinality(S) \in Nat
    BY <1>3, <1>4
  <1> QED
    BY <1>1, <1>5

LEMMA PutRow ==
    ASSUME CountInv, NEW t \in Proc, NEW V
    PROVE  /\ Kept(t, V) \in [Vaddr -> Entry]
           /\ Put(memory_map, Gone(t, V)) \in [Page -> Nat]
           /\ \A q \in Page :
                 /\ Put(memory_map, Gone(t, V))[q] <= memory_map[q]
                 /\ Put(memory_map, Gone(t, V))[q] + Refs(entry[t], q)
                        = memory_map[q] + Refs(Kept(t, V), q)
  <1>1. Kept(t, V) \in [Vaddr -> Entry]
    BY AbsentEntry DEF Kept, CountInv, TypeOK
  <1>2. ASSUME NEW q \in Page
        PROVE  /\ memory_map[q] \in Nat
               /\ Refs(entry[t], q) = Refs(Gone(t, V), q) + Refs(Kept(t, V), q)
               /\ Refs(entry[t], q) <= memory_map[q]
               /\ Refs(Gone(t, V), q) \in Nat /\ Refs(Kept(t, V), q) \in Nat
    <2>1. memory_map[q] \in Nat
      BY DEF CountInv, TypeOK
    <2>2. Refs(entry[t], q) = Refs(Gone(t, V), q) + Refs(Kept(t, V), q)
      <3>1. \A v \in Vaddr : RefersIn(entry[t], v, q)
                  <=> RefersIn(Gone(t, V), v, q) \/ RefersIn(Kept(t, V), v, q)
        BY AbsentEntry DEF RefersIn, Gone, Kept
      <3>2. \A v \in Vaddr : ~(RefersIn(Gone(t, V), v, q) /\ RefersIn(Kept(t, V), v, q))
        BY AbsentEntry DEF RefersIn, Gone, Kept
      <3> QED
        BY <3>1, <3>2, RefsSum
    <2>3. Refs(entry[t], q) <= memory_map[q]
      <3>1. memory_map[q] = Cardinality(Users(q)) + Cardinality(Tables(q))
            /\ Cardinality(Tables(q)) \in Nat
        BY Counted DEF CountInv
      <3>2. /\ Refs(entry[t], q) <= Cardinality(Users(q))
            /\ Refs(entry[t], q) \in Nat /\ Cardinality(Users(q)) \in Nat
        BY RefsBound
      <3> QED
        BY <3>1, <3>2
    <2> QED
      BY <2>1, <2>2, <2>3, RefsType
  <1>3. \A q \in Page :
            Put(memory_map, Gone(t, V))[q] = memory_map[q] - Refs(Gone(t, V), q)
    BY DEF Put
  <1>4. \A q \in Page : memory_map[q] - Refs(Gone(t, V), q) \in Nat
    BY <1>2
  <1>5. Put(memory_map, Gone(t, V)) \in [Page -> Nat]
    BY <1>4 DEF Put
  <1>6. \A q \in Page :
            /\ Put(memory_map, Gone(t, V))[q] <= memory_map[q]
            /\ Put(memory_map, Gone(t, V))[q] + Refs(entry[t], q)
                   = memory_map[q] + Refs(Kept(t, V), q)
    BY <1>2, <1>3
  <1> QED
    BY <1>1, <1>5, <1>6

\* A step that gives process t the entries E, when the references are right for
\* them.
RowSums(t, E, m) ==
    \A q \in Page :
        m[q] + Refs(entry[t], q) + Cardinality(Tables(q))
            = memory_map[q] + Refs(E, q) + Cardinality(Tables(q)')

RowDone(t, E, m, d) ==
    /\ CountsRight'
    /\ memory_map' \in [Page -> Nat] /\ free_pages' \in 0 .. NPage
    /\ data' \in [Page -> Value \cup {Blank}]
    /\ entry' \in [Proc -> [Vaddr -> Entry]]
    /\ entry'[t] = E /\ \A u \in Proc \ {t} : entry'[u] = entry[u]
    /\ memory_map' = m
    /\ \A q \in Page : m[q] # 0 => data'[q] = d[q]

LEMMA RowRight ==
    ASSUME CountInv, NEW t \in Proc, NEW E \in [Vaddr -> Entry],
           NEW m \in [Page -> Nat], NEW d \in [Page -> Value \cup {Blank}],
           entry' = [entry EXCEPT ![t] = E], Become(m, d),
           RowSums(t, E, m)
    PROVE  RowDone(t, E, m, d)
  <1>1. /\ entry' \in [Proc -> [Vaddr -> Entry]] /\ entry'[t] = E
        /\ \A u \in Proc \ {t} : entry'[u] = entry[u]
    BY DEF CountInv, TypeOK
  <1>2. /\ memory_map' = m
        /\ free_pages' = Cardinality(Free(memory_map'))
        /\ free_pages' \in 0 .. NPage
        /\ data' \in [Page -> Value \cup {Blank}]
        /\ \A q \in Page : m[q] # 0 => data'[q] = d[q]
    BY BecomeRight
  <1>3. ASSUME NEW q \in Page
        PROVE  m[q] = Cardinality(Users(q)') + Cardinality(Tables(q)')
    <2>1. Refs(entry'[t], q) = Refs(E, q)
      BY <1>1
    <2>2. /\ Cardinality(Users(q)') + Refs(entry[t], q)
                = Cardinality(Users(q)) + Refs(entry'[t], q)
          /\ Cardinality(Users(q)) \in Nat /\ Cardinality(Users(q)') \in Nat
      BY <1>1, UsersRow DEF Refers
    <2>3. /\ memory_map[q] = Cardinality(Users(q)) + Cardinality(Tables(q))
          /\ Cardinality(Tables(q)) \in Nat
      BY Counted DEF CountInv
    <2>4. Refs(entry[t], q) \in Nat /\ Refs(E, q) \in Nat
      BY RefsType
    <2>5. Cardinality(Tables(q)') \in Nat
      <3>1. IsFiniteSet(Tables(q)')
        BY Finite DEF Tables
      <3> QED
        BY <3>1, FS_CardinalityType
    <2>6. m[q] \in Nat
      OBVIOUS
    <2>7. m[q] + Refs(entry[t], q) + Cardinality(Tables(q))
              = memory_map[q] + Refs(E, q) + Cardinality(Tables(q)')
      BY DEF RowSums
    <2> QED
      BY <2>1, <2>2, <2>3, <2>4, <2>5, <2>6, <2>7
  <1>4. CountsRight'
    BY <1>2, <1>3, CountedNext
  <1>5. memory_map' \in [Page -> Nat]
    BY <1>2
  <1> QED
    BY <1>1, <1>2, <1>4, <1>5 DEF RowDone
-----------------------------------------------------------------------------
LEMMA SameDerived ==
    ASSUME CountInv, NEW u \in Proc, NEW w \in Vaddr, entry'[u][w] = entry[u][w],
           \A q \in Page : memory_map'[q] = 1 \/ memory_map'[q] <= memory_map[q]
    PROVE  Derived(u, w)
  <1> SUFFICES ASSUME entry[u][w].present PROVE Derived(u, w)
    BY DEF Derived
  <1>1. entry[u][w].index \in Page
    BY DEF CountInv, EntriesRight, EntryRight
  <1>2. Refers(u, w, entry[u][w].index)
    BY DEF Refers
  <1> QED
    BY <1>1, <1>2 DEF Derived

\* What is found in a page that stays where it is, and is not p.
LEMMA SameSteady ==
    ASSUME CountInv, CountInv', NEW u \in Proc, NEW w \in Vaddr,
           entry'[u][w] = entry[u][w], NEW p,
           \A q \in Page : q # p /\ memory_map'[q] # 0 => data'[q] = data[q],
           entry'[u][w].present => entry'[u][w].index # p
    PROVE  ~Changed(u, w)
  <1> SUFFICES ASSUME entry'[u][w].present PROVE ~Changed(u, w)
    BY DEF Changed
  <1>1. PICK q \in Page : q = entry'[u][w].index
    BY DEF CountInv, EntriesRight, EntryRight
  <1>2. memory_map'[q] >= 1 /\ memory_map'[q] \in Nat
    <2>1. Refers(u, w, q)'
      BY <1>1 DEF Refers
    <2> QED
      BY <2>1, OnlyUserNext
  <1>3. data'[q] = data[q]
    BY <1>1, <1>2
  <1> QED
    BY <1>1, <1>3 DEF Changed

\* unlink_page and free_pde: process t loses the pages V.
LEMMA PutStep ==
    ASSUME CountInv, NEW t \in alive, NEW V, NEW m \in [Page -> Nat],
           entry' = [entry EXCEPT ![t] = Kept(t, V)], Become(m, data),
           \A q \in Page : m[q] <= memory_map[q],
           \A q \in Page :
               m[q] + Refs(entry[t], q) + Cardinality(Tables(q))
                   = memory_map[q] + Refs(Kept(t, V), q) + Cardinality(Tables(q)'),
           table' \in [Proc -> Page \cup {NoPage}], brk' \in [Proc -> 0 .. NHeap],
           vmap' \in [Proc -> SUBSET Mmap],
           \A u \in Proc \ {t} : table'[u] = table[u] /\ vmap'[u] = vmap[u],
           \A w \in Mmap \ V : w \in vmap[t] => w \in vmap'[t],
           alive' \subseteq alive,
           \A u \in alive \ alive' : u = t /\ Vaddr \subseteq V /\ table'[t] = NoPage
    PROVE  /\ CountInv' /\ \A u \in Proc, w \in Vaddr : Derived(u, w)
           /\ \A u \in Proc, w \in Vaddr : ~Changed(u, w)
  <1>0. t \in Proc /\ alive \subseteq Proc /\ data \in [Page -> Value \cup {Blank}]
    BY DEF CountInv, TypeOK
  <1>1. Kept(t, V) \in [Vaddr -> Entry]
    BY <1>0, PutRow
  <1>2. /\ CountsRight'
        /\ memory_map' \in [Page -> Nat] /\ free_pages' \in 0 .. NPage
        /\ data' \in [Page -> Value \cup {Blank}]
        /\ entry' \in [Proc -> [Vaddr -> Entry]]
        /\ entry'[t] = Kept(t, V) /\ \A u \in Proc \ {t} : entry'[u] = entry[u]
        /\ memory_map' = m
        /\ \A q \in Page : m[q] # 0 => data'[q] = data[q]
    <2>1. PICK K \in [Vaddr -> Entry] : K = Kept(t, V)
      BY <1>1
    <2>2. PICK d \in [Page -> Value \cup {Blank}] : d = data
      BY <1>0
    <2>3. entry' = [entry EXCEPT ![t] = K] /\ Become(m, d) /\ RowSums(t, K, m)
      BY <2>1, <2>2 DEF RowSums
    <2>4. RowDone(t, K, m, d)
      BY <1>0, <2>1, <2>2, <2>3, RowRight
    <2> QED
      BY <2>1, <2>2, <2>4 DEF RowDone
  <1>3. \A u \in Proc, w \in Vaddr :
            \/ ~entry'[u][w].present /\ u = t
            \/ entry'[u][w] = entry[u][w] /\ ~(u = t /\ w \in V)
    BY <1>2, AbsentEntry DEF Kept
  <1>4. EntriesRight'
    BY <1>2, <1>3 DEF CountInv, EntriesRight, EntryRight
  <1>5. DeadHasNothing'
    <2> SUFFICES ASSUME NEW u \in Proc \ alive'
                 PROVE  table'[u] = NoPage /\ \A v \in Vaddr : ~entry'[u][v].present
      BY DEF DeadHasNothing
    <2>1. CASE u # t
      BY <1>2, <2>1 DEF CountInv, DeadHasNothing
    <2>2. CASE u = t
      BY <1>3, <2>2
    <2> QED
      BY <2>1, <2>2
  <1>6. CountInv'
    BY <1>0, <1>2, <1>4, <1>5 DEF CountInv, TypeOK
  <1>7. ASSUME NEW u \in Proc, NEW w \in Vaddr
        PROVE  Derived(u, w) /\ ~Changed(u, w)
    <2>1. CASE ~entry'[u][w].present
      BY <2>1 DEF Derived, Changed
    <2>2. CASE entry'[u][w].present
      <3>1. entry'[u][w] = entry[u][w]
        BY <1>3, <2>2
      <3>2. Derived(u, w)
        BY <1>2, <3>1, SameDerived
      <3>3. \A q \in Page : q # NoPage /\ memory_map'[q] # 0 => data'[q] = data[q]
        BY <1>2
      <3>4. entry'[u][w].index # NoPage
        BY <1>4, <2>2, Numbers DEF EntriesRight, EntryRight
      <3>5. ~Changed(u, w)
        BY <1>6, <3>1, <3>3, <3>4, SameSteady
      <3> QED
        BY <3>2, <3>5
    <2> QED
      BY <2>1, <2>2
  <1> QED
    BY <1>6, <1>7

\* What each step other than a store is shown to do.
StepOK == CountInv' /\ (MemoryInv /\ ~Remap => \A u \in Proc, w \in Vaddr : Derived(u, w))
Steady == \A u \in Proc, w \in Vaddr : ~Changed(u, w)

LEMMA UnlinkStep ==
    ASSUME CountInv, NEW t \in alive, NEW V, Unlink(t, V), table' = table,
           brk' \in [Proc -> 0 .. NHeap], vmap' \in [Proc -> SUBSET Mmap],
           \A u \in Proc \ {t} : vmap'[u] = vmap[u],
           \A w \in Mmap \ V : w \in vmap[t] => w \in vmap'[t], alive' = alive
    PROVE  StepOK /\ Steady
  <1>0. t \in Proc
    BY DEF CountInv, TypeOK
  <1> DEFINE m == Put(memory_map, Gone(t, V))
  <1>1. Become(m, data) /\ entry' = [entry EXCEPT ![t] = Kept(t, V)]
    BY DEF Unlink, Gone, Kept
  <1>2. /\ m \in [Page -> Nat]
        /\ \A q \in Page : /\ m[q] <= memory_map[q] /\ m[q] \in Nat
                           /\ m[q] + Refs(entry[t], q) = memory_map[q] + Refs(Kept(t, V), q)
    BY <1>0, PutRow
  <1> HIDE DEF m
  <1>3. \A q \in Page :
            m[q] + Refs(entry[t], q) + Cardinality(Tables(q))
                = memory_map[q] + Refs(Kept(t, V), q) + Cardinality(Tables(q)')
    BY <1>2, TablesSame
  <1>4. table' \in [Proc -> Page \cup {NoPage}]
    BY DEF CountInv, TypeOK
  <1> QED
    BY <1>1, <1>2, <1>3, <1>4, PutStep DEF StepOK, Steady

LEMMA BrkStep ==
    ASSUME CountInv, NEW t \in alive, Brk(t)
    PROVE  StepOK /\ Steady
  <1>1. PICK n \in 0 .. NHeap :
            /\ Unlink(t, n + 1 .. brk[t])
            /\ brk' = [brk EXCEPT ![t] = n]
            /\ UNCHANGED <<alive, table, vmap>>
    BY DEF Brk
  <1>2. brk' \in [Proc -> 0 .. NHeap] /\ vmap' \in [Proc -> SUBSET Mmap]
    BY <1>1 DEF CountInv, TypeOK
  <1>3. table' = table /\ alive' = alive /\ vmap' = vmap
    BY <1>1
  <1> QED
    BY <1>1, <1>2, <1>3, UnlinkStep

LEMMA MunmapStep ==
    ASSUME CountInv, NEW t \in alive, Munmap(t)
    PROVE  StepOK /\ Steady
  <1>0. t \in Proc /\ vmap \in [Proc -> SUBSET Mmap]
    BY DEF CountInv, TypeOK
  <1>1. PICK v \in vmap[t] :
            /\ Unlink(t, {v})
            /\ vmap' = [vmap EXCEPT ![t] = vmap[t] \ {v}]
            /\ UNCHANGED <<alive, table, brk>>
    BY DEF Munmap
  <1>2. /\ vmap' \in [Proc -> SUBSET Mmap]
        /\ \A u \in Proc \ {t} : vmap'[u] = vmap[u]
        /\ \A w \in Mmap \ {v} : w \in vmap[t] => w \in vmap'[t]
    BY <1>0, <1>1
  <1>3. table' = table /\ alive' = alive /\ brk' \in [Proc -> 0 .. NHeap]
    BY <1>1 DEF CountInv, TypeOK
  <1> QED
    BY <1>1, <1>2, <1>3, UnlinkStep

LEMMA ExitStep ==
    ASSUME CountInv, NEW t \in alive, Exit(t)
    PROVE  StepOK /\ Steady
  <1>0. /\ t \in Proc /\ table \in [Proc -> Page \cup {NoPage}]
        /\ entry \in [Proc -> [Vaddr -> Entry]]
    BY DEF CountInv, TypeOK
  <1> DEFINE m == Put(memory_map, Gone(t, Vaddr))
             n == IF table[t] = NoPage THEN m ELSE [m EXCEPT ![table[t]] = m[table[t]] - 1]
  <1>1. Gone(t, Vaddr) = entry[t] /\ Kept(t, Vaddr) = [v \in Vaddr |-> Absent]
    BY <1>0 DEF Gone, Kept
  <1>2. /\ Become(n, data) /\ entry' = [entry EXCEPT ![t] = Kept(t, Vaddr)]
        /\ table' = [table EXCEPT ![t] = NoPage]
        /\ alive' = alive \ {t}
    BY <1>1 DEF Exit
  <1>3. /\ m \in [Page -> Nat]
        /\ \A q \in Page : /\ m[q] <= memory_map[q] /\ m[q] \in Nat
                           /\ m[q] + Refs(entry[t], q) = memory_map[q] + Refs(Kept(t, Vaddr), q)
    BY <1>0, PutRow
  <1> HIDE DEF m
  <1>4. /\ table' \in [Proc -> Page \cup {NoPage}] /\ table'[t] = NoPage
        /\ \A u \in Proc \ {t} : table'[u] = table[u]
    BY <1>0, <1>2
  <1>5. /\ brk' \in [Proc -> 0 .. NHeap] /\ vmap' \in [Proc -> SUBSET Mmap]
        /\ \A u \in Proc \ {t} : vmap'[u] = vmap[u]
    <2>1. brk' = [brk EXCEPT ![t] = 0] /\ vmap' = [vmap EXCEPT ![t] = {}]
      BY DEF Exit
    <2> QED
      BY <1>0, <2>1, Numbers DEF CountInv, TypeOK
  <1>6. \A w \in Mmap \ Vaddr : w \in vmap[t] => w \in vmap'[t]
    BY DEF Vaddr
  <1>7. /\ n \in [Page -> Nat]
        /\ \A q \in Page : n[q] <= memory_map[q]
        /\ \A q \in Page :
              n[q] + Refs(entry[t], q) + Cardinality(Tables(q))
                  = memory_map[q] + Refs(Kept(t, Vaddr), q) + Cardinality(Tables(q)')
    <2>1. CASE table[t] = NoPage
      <3>1. n = m
        BY <2>1
      <3>2. \A q \in Page : Cardinality(Tables(q)') = Cardinality(Tables(q))
        BY <1>4, <2>1, TablesSame
      <3> QED
        BY <1>3, <3>1, <3>2
    <2>2. CASE table[t] # NoPage
      <3>1. PICK p \in Page : p = table[t]
        BY <1>0, <2>2
      <3>2. Cardinality(Tables(p)') = Cardinality(Tables(p)) - 1
        <4>1. \A u \in Proc : table'[u] = p <=> table[u] = p /\ u # t
          BY <1>4, <3>1, Numbers
        <4> QED
          BY <1>0, <3>1, <4>1, TablesLess
      <3>3. \A q \in Page \ {p} : Cardinality(Tables(q)') = Cardinality(Tables(q))
        <4> SUFFICES ASSUME NEW q \in Page \ {p}
                     PROVE  Cardinality(Tables(q)') = Cardinality(Tables(q))
          OBVIOUS
        <4>1. \A u \in Proc : table'[u] = q <=> table[u] = q
          BY <1>4, <3>1, Numbers
        <4> QED
          BY <4>1, TablesSame
      <3>4. n = [m EXCEPT ![p] = m[p] - 1]
        BY <2>2, <3>1
      <3>5. m[p] >= 1
        <4>1. Refs(Kept(t, Vaddr), p) = 0
          <5>1. \A w \in Vaddr : ~RefersIn(Kept(t, Vaddr), w, p)
            BY <1>1, AbsentEntry DEF RefersIn
          <5> QED
            BY <5>1, RefsNone
        <4>3. /\ Refs(entry[t], p) <= Cardinality(Users(p))
              /\ Refs(entry[t], p) \in Nat /\ Cardinality(Users(p)) \in Nat
          BY <1>0, RefsBound
        <4>4. memory_map[p] = Cardinality(Users(p)) + Cardinality(Tables(p))
              /\ Cardinality(Tables(p)) \in Nat
          BY Counted DEF CountInv
        <4>5. Cardinality(Tables(p)) >= 1
          <5>1. t \in Tables(p) /\ IsFiniteSet(Tables(p))
            BY <1>0, <3>1, Finite DEF Tables
          <5>2. Cardinality(Tables(p)) # 0
            BY <5>1, FS_EmptySet
          <5> QED
            BY <4>4, <5>2
        <4> QED
          BY <1>3, <4>1, <4>3, <4>4, <4>5
      <3>6. n \in [Page -> Nat] /\ n[p] = m[p] - 1 /\ \A q \in Page \ {p} : n[q] = m[q]
        BY <1>3, <3>4, <3>5
      <3> HIDE DEF n
      <3>7. ASSUME NEW q \in Page
            PROVE  /\ n[q] <= memory_map[q]
                   /\ n[q] + Refs(entry[t], q) + Cardinality(Tables(q))
                        = memory_map[q] + Refs(Kept(t, Vaddr), q) + Cardinality(Tables(q)')
        <4>1. /\ m[q] <= memory_map[q] /\ m[q] \in Nat /\ memory_map[q] \in Nat
              /\ m[q] + Refs(entry[t], q) = memory_map[q] + Refs(Kept(t, Vaddr), q)
          BY <1>3 DEF CountInv, TypeOK
        <4>2. /\ Refs(entry[t], q) \in Nat /\ Refs(Kept(t, Vaddr), q) \in Nat
              /\ Cardinality(Tables(q)) \in Nat
          BY RefsType, Counted
        <4>3. CASE q = p
          BY <3>2, <3>6, <4>1, <4>2, <4>3
        <4>4. CASE q # p
          BY <3>3, <3>6, <4>1, <4>2, <4>4
        <4> QED
          BY <4>3, <4>4
      <3> QED
        BY <3>6, <3>7
    <2> QED
      BY <2>1, <2>2
  <1> HIDE DEF n
  <1>9. PICK V : V = Vaddr
    OBVIOUS
  <1>8. /\ alive' \subseteq alive
        /\ \A u \in alive \ alive' : u = t /\ Vaddr \subseteq V /\ table'[t] = NoPage
    BY <1>2, <1>4, <1>9
  <1>10. /\ entry' = [entry EXCEPT ![t] = Kept(t, V)]
         /\ \A q \in Page :
               n[q] + Refs(entry[t], q) + Cardinality(Tables(q))
                   = memory_map[q] + Refs(Kept(t, V), q) + Cardinality(Tables(q)')
         /\ \A w \in Mmap \ V : w \in vmap[t] => w \in vmap'[t]
    BY <1>2, <1>6, <1>7, <1>9
  <1>11. \A u \in Proc \ {t} : table'[u] = table[u] /\ vmap'[u] = vmap[u]
    BY <1>4, <1>5
  <1>12. /\ CountInv' /\ \A u \in Proc, w \in Vaddr : Derived(u, w)
         /\ \A u \in Proc, w \in Vaddr : ~Changed(u, w)
    <2>1. PICK k \in [Page -> Nat] : k = n
      BY <1>7
    <2>2. /\ Become(k, data)
          /\ \A q \in Page : k[q] <= memory_map[q]
          /\ \A q \in Page :
                k[q] + Refs(entry[t], q) + Cardinality(Tables(q))
                    = memory_map[q] + Refs(Kept(t, V), q) + Cardinality(Tables(q)')
      BY <1>2, <1>7, <1>10, <2>1
    <2>3. entry' = [entry EXCEPT ![t] = Kept(t, V)]
      BY <1>10
    <2>4. \A w \in Mmap \ V : w \in vmap[t] => w \in vmap'[t]
      BY <1>10
    <2> QED
      BY <1>4, <1>5, <1>8, <1>11, <2>1, <2>2, <2>3, <2>4, PutStep
  <1> QED
    BY <1>12 DEF StepOK, Steady
-----------------------------------------------------------------------------
\* link_page: process t gets the entry v, and loses at most others.
LEMMA LinkStep ==
    ASSUME CountInv, NEW t \in alive, NEW v \in Vaddr, NEW m \in [Page -> Nat],
           NEW E \in [Vaddr -> Entry], NEW bits, NEW p \in Page,
           Linked(t, v, E, bits, m, p),
           \A q \in Page : m[q] <= memory_map[q],
           \A w \in Vaddr \ {v} : E[w] = entry[t][w] \/ ~E[w].present,
           alive' = alive, brk' \in [Proc -> 0 .. NHeap],
           vmap' \in [Proc -> SUBSET Mmap],
           \A u \in Proc : vmap[u] \subseteq vmap'[u],
           v \in Mmap => v \in vmap'[t]
    PROVE  /\ CountInv' /\ \A u \in Proc, w \in Vaddr : Derived(u, w)
           /\ \A u \in Proc, w \in Vaddr : Changed(u, w) => u = t /\ w = v /\ entry[t][v].present
  <1>0. t \in Proc /\ alive \subseteq Proc /\ memory_map \in [Page -> Nat]
    BY DEF CountInv, TypeOK
  <1>1. /\ memory_map' \in [Page -> Nat] /\ free_pages' \in 0 .. NPage
        /\ data' \in [Page -> Value \cup {Blank}]
        /\ table' \in [Proc -> Page \cup {NoPage}]
        /\ entry' \in [Proc -> [Vaddr -> Entry]]
        /\ CountsRight'
        /\ \A u \in Proc \ {t} : table'[u] = table[u] /\ entry'[u] = entry[u]
        /\ memory_map'[p] = 1
        /\ \A q \in Page : memory_map'[q] = 1 \/ memory_map'[q] = m[q]
        /\ \A q \in Page \ {p} : memory_map'[q] # 0 => data'[q] = data[q]
        /\ \A w \in Vaddr \ {v} : entry'[t][w] = E[w]
        /\ entry'[t][v].present /\ entry'[t][v].index = p
    BY DEF Linked
  <1>2. ASSUME NEW u \in Proc, NEW w \in Vaddr, ~(u = t /\ w = v)
        PROVE  entry'[u][w] = entry[u][w] \/ ~entry'[u][w].present
    BY <1>1, <1>2
  <1>3. EntriesRight'
    <2> SUFFICES ASSUME NEW u \in Proc, NEW w \in Vaddr, entry'[u][w].present
                 PROVE  /\ entry'[u][w].index \in Page
                        /\ w \in Mmap => w \in vmap'[u]
      BY DEF EntriesRight, EntryRight
    <2>1. CASE u = t /\ w = v
      BY <1>1, <2>1
    <2>2. CASE ~(u = t /\ w = v)
      BY <1>2, <2>2 DEF CountInv, EntriesRight, EntryRight
    <2> QED
      BY <2>1, <2>2
  <1>4. DeadHasNothing'
    BY <1>1 DEF CountInv, DeadHasNothing
  <1>5. CountInv'
    BY <1>0, <1>1, <1>3, <1>4 DEF CountInv, TypeOK
  <1>6. \A q \in Page : memory_map'[q] = 1 \/ memory_map'[q] <= memory_map[q]
    BY <1>1
  <1>7. ASSUME NEW u \in Proc, NEW w \in Vaddr
        PROVE  Derived(u, w)
    <2>1. CASE u = t /\ w = v
      BY <1>1, <2>1 DEF Derived
    <2>2. CASE ~(u = t /\ w = v)
      <3>1. CASE entry'[u][w] = entry[u][w]
        BY <1>6, <3>1, SameDerived
      <3>2. CASE ~entry'[u][w].present
        BY <3>2 DEF Derived
      <3> QED
        BY <1>2, <2>2, <3>1, <3>2
    <2> QED
      BY <2>1, <2>2
  <1>8. ASSUME NEW u \in Proc, NEW w \in Vaddr, ~(u = t /\ w = v)
        PROVE  ~Changed(u, w)
    <2>1. CASE ~entry'[u][w].present
      BY <2>1 DEF Changed
    <2>2. CASE entry'[u][w].present
      <3>1. entry'[u][w] = entry[u][w]
        BY <1>2, <1>8, <2>2
      <3>2. entry'[u][w].index # p
        <4>1. Refers(t, v, p)'
          BY <1>1 DEF Refers
        <4>2. Refers(u, w, p)' => u = t /\ w = v
          BY <1>0, <1>1, <1>5, <4>1, OnlyUserNext
        <4> QED
          BY <1>8, <2>2, <4>2 DEF Refers
      <3>3. \A q \in Page : q # p /\ memory_map'[q] # 0 => data'[q] = data[q]
        BY <1>1
      <3> QED
        BY <1>5, <3>1, <3>2, <3>3, SameSteady
    <2> QED
      BY <2>1, <2>2
  <1>9. ~entry[t][v].present => ~Changed(t, v)
    BY DEF Changed
  <1> QED
    BY <1>5, <1>7, <1>8, <1>9

\* link_page of a page that was not present.
LEMMA LinkNew ==
    ASSUME CountInv, NEW t \in alive, NEW v \in Vaddr, NEW b \in Entry,
           b.present, ~entry[t][v].present,
           Link(t, v, memory_map, [entry[t] EXCEPT ![v] = b]),
           alive' = alive, brk' \in [Proc -> 0 .. NHeap],
           vmap' \in [Proc -> SUBSET Mmap],
           \A u \in Proc : vmap[u] \subseteq vmap'[u],
           v \in Mmap => v \in vmap'[t]
    PROVE  StepOK /\ Steady
  <1>0. /\ t \in Proc /\ entry \in [Proc -> [Vaddr -> Entry]]
        /\ memory_map \in [Page -> Nat]
    BY DEF CountInv, TypeOK
  <1>1. PICK m \in [Page -> Nat] : m = memory_map
    BY <1>0
  <1>2. PICK E \in [Vaddr -> Entry] : E = entry[t]
    BY <1>0
  <1>3. PICK bits \in [Vaddr -> Entry] :
            /\ bits = [entry[t] EXCEPT ![v] = b]
            /\ bits[v].present /\ \A w \in Vaddr \ {v} : bits[w] = E[w]
    <2>1. PICK bits \in [Vaddr -> Entry] : bits = [entry[t] EXCEPT ![v] = b]
      BY <1>0
    <2>2. bits[v].present /\ \A w \in Vaddr \ {v} : bits[w] = E[w]
      BY <1>0, <1>2, <2>1
    <2> QED
      BY <2>1, <2>2
  <1>4. \A q \in Page : m[q] + Refs(entry[t], q) = memory_map[q] + Refs(E, q)
    BY <1>1, <1>2
  <1>5. PICK p \in Page : Linked(t, v, E, bits, m, p)
    BY <1>0, <1>1, <1>2, <1>3, <1>4, LinkRight
  <1>6. /\ \A q \in Page : m[q] <= memory_map[q]
        /\ \A w \in Vaddr \ {v} : E[w] = entry[t][w] \/ ~E[w].present
    BY <1>0, <1>1, <1>2
  <1>7. /\ CountInv' /\ \A u \in Proc, w \in Vaddr : Derived(u, w)
        /\ \A u \in Proc, w \in Vaddr : Changed(u, w) => u = t /\ w = v /\ entry[t][v].present
    BY <1>5, <1>6, LinkStep
  <1> QED
    BY <1>7 DEF StepOK, Steady

LEMMA FaultAbsentStep ==
    ASSUME CountInv, NEW t \in alive, FaultAbsent(t)
    PROVE  StepOK /\ Steady
  <1>0. t \in Proc /\ brk \in [Proc -> 0 .. NHeap] /\ vmap \in [Proc -> SUBSET Mmap]
    BY DEF CountInv, TypeOK
  <1>1. PICK v \in 1 .. brk[t] :
            /\ ~entry[t][v].present
            /\ Link(t, v, memory_map, [entry[t] EXCEPT ![v] = EntryInit(NoPage)])
            /\ UNCHANGED <<alive, brk, vmap>>
    BY DEF FaultAbsent
  <1>2. v \in Vaddr /\ v \notin Mmap
    <2>1. brk[t] \in 0 .. NHeap
      BY <1>0
    <2>2. v \in Heap
      BY <2>1, Numbers DEF Heap
    <2> QED
      BY <2>2, Numbers DEF Vaddr
  <1>3. PICK b \in Entry : b = EntryInit(NoPage) /\ b.present
    <2>1. EntryInit(NoPage) \in Entry /\ EntryInit(NoPage).present
      BY Numbers DEF EntryInit, Entry, NoPage
    <2> QED
      BY <2>1
  <1>4. /\ Link(t, v, memory_map, [entry[t] EXCEPT ![v] = b])
        /\ alive' = alive /\ brk' \in [Proc -> 0 .. NHeap]
        /\ vmap' \in [Proc -> SUBSET Mmap]
        /\ \A u \in Proc : vmap[u] \subseteq vmap'[u]
        /\ v \in Mmap => v \in vmap'[t]
    BY <1>0, <1>1, <1>2, <1>3
  <1> QED
    BY <1>1, <1>2, <1>3, <1>4, LinkNew

\* A step that changes the bits of one entry, of a page that nobody else uses
\* when mmap does not remap.
LEMMA BitsStep ==
    ASSUME CountInv, NEW t \in alive, NEW v \in Vaddr, NEW b \in Entry,
           entry[t][v].present, b.present, b.index = entry[t][v].index,
           entry' = [entry EXCEPT ![t] = [entry[t] EXCEPT ![v] = b]],
           UNCHANGED <<memory_map, free_pages, data, table, alive, brk>>,
           vmap' \in [Proc -> SUBSET Mmap],
           \A u \in Proc : vmap[u] \subseteq vmap'[u],
           MemoryInv /\ ~Remap => memory_map[b.index] = 1
    PROVE  StepOK /\ Steady
  <1>0. /\ t \in Proc /\ entry \in [Proc -> [Vaddr -> Entry]]
        /\ memory_map \in [Page -> Nat]
    BY DEF CountInv, TypeOK
  <1>1. /\ entry' \in [Proc -> [Vaddr -> Entry]] /\ entry'[t][v] = b
        /\ \A u \in Proc, w \in Vaddr :
              (u = t /\ w = v) \/ entry'[u][w] = entry[u][w]
    <2>1. PICK F \in [Vaddr -> Entry] : F = [entry[t] EXCEPT ![v] = b]
      BY <1>0
    <2>2. F[v] = b /\ \A w \in Vaddr \ {v} : F[w] = entry[t][w]
      BY <1>0, <2>1
    <2>3. entry' \in [Proc -> [Vaddr -> Entry]] /\ entry'[t] = F
          /\ \A u \in Proc \ {t} : entry'[u] = entry[u]
      BY <1>0, <2>1
    <2> QED
      BY <2>2, <2>3
  <1>2. ASSUME NEW u \in Proc, NEW w \in Vaddr
        PROVE  /\ entry'[u][w].present = entry[u][w].present
               /\ entry'[u][w].index = entry[u][w].index
    BY <1>1
  <1>3. CountsRight'
    <2>1. \A q \in Page : Users(q)' = Users(q) /\ Tables(q)' = Tables(q)
      BY <1>2 DEF Users, Refers, Tables
    <2> QED
      BY <2>1, Counted, CountedNext DEF CountInv
  <1>4. EntriesRight'
    BY <1>2 DEF CountInv, EntriesRight, EntryRight
  <1>5. DeadHasNothing'
    BY <1>2 DEF CountInv, DeadHasNothing
  <1>6. TypeOK'
    BY <1>1 DEF CountInv, TypeOK
  <1>7. CountInv'
    BY <1>3, <1>4, <1>5, <1>6 DEF CountInv
  <1>8. ASSUME MemoryInv /\ ~Remap, NEW u \in Proc, NEW w \in Vaddr
        PROVE  Derived(u, w)
    <2>1. CASE u = t /\ w = v
      BY <1>1, <1>8, <2>1 DEF Derived
    <2>2. CASE entry'[u][w] = entry[u][w]
      <3>1. \A q \in Page : memory_map'[q] = 1 \/ memory_map'[q] <= memory_map[q]
        BY <1>0
      <3> QED
        BY <2>2, <3>1, SameDerived
    <2> QED
      BY <1>1, <2>1, <2>2
  <1>9. Steady
    BY <1>2 DEF Steady, Changed
  <1> QED
    BY <1>7, <1>8, <1>9 DEF StepOK
LEMMA MmapStep ==
    ASSUME CountInv, NEW t \in alive, MmapPage(t)
    PROVE  StepOK /\ Steady
  <1>0. /\ t \in Proc /\ entry \in [Proc -> [Vaddr -> Entry]]
        /\ brk \in [Proc -> 0 .. NHeap] /\ vmap \in [Proc -> SUBSET Mmap]
    BY DEF CountInv, TypeOK
  <1> DEFINE bits(e, writable, shared) ==
                [present |-> TRUE, write |-> writable, shared |-> e.shared \/ shared,
                 readonly |-> ~writable, index |-> e.index]
  <1>1. PICK v \in Mmap, writable \in BOOLEAN, shared \in BOOLEAN :
            /\ v \in vmap[t] => Remap \/ Sole(entry[t][v].index)
            /\ IF entry[t][v].present
               THEN /\ entry' = [entry EXCEPT ![t][v] = bits(entry[t][v], writable, shared)]
                    /\ UNCHANGED <<memory_map, free_pages, data, table>>
               ELSE Link(t, v, memory_map,
                         [entry[t] EXCEPT ![v] = bits(EntryInit(NoPage), writable, shared)])
            /\ vmap' = [vmap EXCEPT ![t] = vmap[t] \cup {v}]
            /\ UNCHANGED <<alive, brk>>
    BY DEF MmapPage
  <1>2. v \in Vaddr
    BY DEF Vaddr
  <1>3. /\ alive' = alive /\ brk' = brk /\ brk' \in [Proc -> 0 .. NHeap]
        /\ vmap' \in [Proc -> SUBSET Mmap]
        /\ \A u \in Proc : vmap[u] \subseteq vmap'[u]
        /\ v \in Mmap => v \in vmap'[t]
    BY <1>0, <1>1
  <1>4. \A e \in Entry : /\ bits(e, writable, shared) \in Entry
                         /\ bits(e, writable, shared).present
                         /\ bits(e, writable, shared).index = e.index
    BY DEF Entry
  <1>5. CASE entry[t][v].present
    <2>1. PICK b \in Entry : /\ b = bits(entry[t][v], writable, shared)
                             /\ b.present /\ b.index = entry[t][v].index
      <3>1. entry[t][v] \in Entry
        BY <1>0, <1>2
      <3> HIDE DEF bits
      <3> QED
        BY <1>4, <3>1
    <2> HIDE DEF bits
    <2>2. entry' = [entry EXCEPT ![t] = [entry[t] EXCEPT ![v] = b]]
      BY <1>1, <1>5, <2>1
    <2>3. UNCHANGED <<memory_map, free_pages, data, table, alive, brk>>
      BY <1>1, <1>3, <1>5
    <2>4. MemoryInv /\ ~Remap => memory_map[b.index] = 1
      <3>1. v \in vmap[t]
        BY <1>0, <1>2, <1>5 DEF CountInv, EntriesRight, EntryRight
      <3> QED
        BY <1>1, <2>1, <3>1 DEF Sole
    <2> QED
      BY <1>2, <1>3, <1>5, <2>1, <2>2, <2>3, <2>4, BitsStep
  <1>6. CASE ~entry[t][v].present
    <2>1. EntryInit(NoPage) \in Entry
      BY Numbers DEF EntryInit, Entry, NoPage
    <2>2. PICK b \in Entry : b = bits(EntryInit(NoPage), writable, shared) /\ b.present
      BY <1>4, <2>1
    <2> HIDE DEF bits
    <2>3. Link(t, v, memory_map, [entry[t] EXCEPT ![v] = b])
      BY <1>1, <1>6, <2>2
    <2> QED
      BY <1>2, <1>3, <1>6, <2>2, <2>3, LinkNew
  <1> QED
    BY <1>5, <1>6

\* execve: the heap is put and the first page is linked.
LEMMA ExecStep ==
    ASSUME CountInv, NEW t \in alive, Exec(t)
    PROVE  StepOK /\ \A u \in Proc \ {t}, w \in Vaddr : ~Changed(u, w)
  <1>0. /\ t \in Proc /\ entry \in [Proc -> [Vaddr -> Entry]]
        /\ brk \in [Proc -> 0 .. NHeap] /\ vmap \in [Proc -> SUBSET Mmap]
    BY DEF CountInv, TypeOK
  <1> DEFINE text == [present |-> TRUE, write |-> FALSE, shared |-> FALSE,
                      readonly |-> TRUE, index |-> NoPage]
             F == [v \in Vaddr |-> IF v = 1 THEN text
                                   ELSE IF v \in Heap THEN Absent ELSE entry[t][v]]
  <1>1. /\ NHeap > 0 /\ Link(t, 1, Put(memory_map, Gone(t, Heap)), F)
        /\ brk' = [brk EXCEPT ![t] = 1]
        /\ alive' = alive /\ vmap' = vmap
    BY DEF Exec, Gone
  <1>2. 1 \in Heap /\ 1 \in Vaddr /\ 1 \notin Mmap
    BY <1>1, Numbers DEF Heap, Vaddr
  <1>3. text \in Entry /\ text.present
    BY Numbers DEF Entry, NoPage
  <1> HIDE DEF text
  <1>4. PICK m \in [Page -> Nat] :
            /\ m = Put(memory_map, Gone(t, Heap))
            /\ \A q \in Page : m[q] <= memory_map[q]
            /\ \A q \in Page : m[q] + Refs(entry[t], q) = memory_map[q] + Refs(Kept(t, Heap), q)
    BY <1>0, PutRow
  <1>5. PICK E \in [Vaddr -> Entry] :
            /\ E = Kept(t, Heap) /\ ~E[1].present
            /\ \A w \in Vaddr : E[w] = IF w \in Heap THEN Absent ELSE entry[t][w]
    <2>1. PICK E \in [Vaddr -> Entry] : E = Kept(t, Heap)
      BY <1>0, PutRow
    <2>2. \A w \in Vaddr : E[w] = IF w \in Heap THEN Absent ELSE entry[t][w]
      BY <2>1 DEF Kept
    <2> QED
      BY <1>2, <2>1, <2>2, AbsentEntry
  <1>6. PICK bits \in [Vaddr -> Entry] :
            bits = F /\ bits[1].present /\ \A w \in Vaddr \ {1} : bits[w] = E[w]
    <2>1. F \in [Vaddr -> Entry]
      BY <1>0, <1>3, AbsentEntry
    <2>2. F[1].present /\ \A w \in Vaddr \ {1} : F[w] = E[w]
      BY <1>2, <1>3, <1>5
    <2> QED
      BY <2>1, <2>2
  <1> HIDE DEF F
  <1>7. \A q \in Page : m[q] + Refs(entry[t], q) = memory_map[q] + Refs(E, q)
    BY <1>4, <1>5
  <1>8. Link(t, 1, m, bits)
    BY <1>1, <1>4, <1>6
  <1>9. PICK p \in Page : Linked(t, 1, E, bits, m, p)
    BY <1>0, <1>2, <1>5, <1>6, <1>7, <1>8, LinkRight
  <1>10. \A w \in Vaddr \ {1} : E[w] = entry[t][w] \/ ~E[w].present
    BY <1>5, AbsentEntry
  <1>11. /\ brk' \in [Proc -> 0 .. NHeap] /\ vmap' \in [Proc -> SUBSET Mmap]
         /\ \A u \in Proc : vmap[u] \subseteq vmap'[u]
    <2>1. 1 \in 0 .. NHeap
      BY <1>1, Numbers
    <2> QED
      BY <1>0, <1>1, <2>1
  <1>12. /\ CountInv' /\ \A u \in Proc, w \in Vaddr : Derived(u, w)
         /\ \A u \in Proc, w \in Vaddr : Changed(u, w) => u = t /\ w = 1 /\ entry[t][1].present
    BY <1>1, <1>2, <1>4, <1>9, <1>10, <1>11, LinkStep
  <1> QED
    BY <1>12 DEF StepOK
\* page_fault of a page that others use as well: the process gets a copy.
Copies(t, v, p, k, b, m, d) ==
    /\ Refers(t, v, k) /\ memory_map[p] = 0
    /\ b.present /\ b.index = p
    /\ \A q \in Page : m[q] = IF q = p THEN 1
                             ELSE IF q = k THEN memory_map[q] - 1 ELSE memory_map[q]
    /\ \A q \in Page : d[q] = IF q = p THEN data[k] ELSE data[q]
    /\ entry' = [entry EXCEPT ![t] = [entry[t] EXCEPT ![v] = b]]
    /\ Become(m, d)
    /\ UNCHANGED <<alive, table, brk, vmap>>

LEMMA CopyStep ==
    ASSUME CountInv, NEW t \in alive, NEW v \in Vaddr, NEW p \in Page, NEW k \in Page,
           NEW b \in Entry, NEW m \in [Page -> Nat], NEW d \in [Page -> Value \cup {Blank}],
           Copies(t, v, p, k, b, m, d)
    PROVE  StepOK /\ Steady
  <1> /\ Refers(t, v, k) /\ memory_map[p] = 0
      /\ b.present /\ b.index = p
      /\ \A q \in Page : m[q] = IF q = p THEN 1
                               ELSE IF q = k THEN memory_map[q] - 1 ELSE memory_map[q]
      /\ \A q \in Page : d[q] = IF q = p THEN data[k] ELSE data[q]
      /\ entry' = [entry EXCEPT ![t] = [entry[t] EXCEPT ![v] = b]]
      /\ Become(m, d)
      /\ UNCHANGED <<alive, table, brk, vmap>>
    BY DEF Copies
  <1>0. /\ t \in Proc /\ entry \in [Proc -> [Vaddr -> Entry]]
        /\ memory_map \in [Page -> Nat]
    BY DEF CountInv, TypeOK
  <1>1. PICK F \in [Vaddr -> Entry] :
            /\ F = [entry[t] EXCEPT ![v] = b]
            /\ F[v] = b /\ \A w \in Vaddr \ {v} : F[w] = entry[t][w]
    <2>1. PICK F \in [Vaddr -> Entry] : F = [entry[t] EXCEPT ![v] = b]
      BY <1>0
    <2>2. F[v] = b /\ \A w \in Vaddr \ {v} : F[w] = entry[t][w]
      BY <1>0, <2>1
    <2> QED
      BY <2>1, <2>2
  <1>2. p # k /\ memory_map[k] >= 1
    BY <1>0, OnlyUser
  <1>3. RowSums(t, F, m)
    <2> SUFFICES ASSUME NEW q \in Page
                 PROVE  m[q] + Refs(entry[t], q) + Cardinality(Tables(q))
                          = memory_map[q] + Refs(F, q) + Cardinality(Tables(q)')
      BY DEF RowSums
    <2>1. Cardinality(Tables(q)') = Cardinality(Tables(q)) /\ Cardinality(Tables(q)) \in Nat
      BY TablesSame, Counted
    <2>2. Refs(entry[t], q) \in Nat /\ Refs(F, q) \in Nat /\ memory_map[q] \in Nat
      BY <1>0, RefsType
    <2>3. CASE q = p
      <3>1. ~RefersIn(entry[t], v, q)
        BY <1>2, <2>3 DEF Refers, RefersIn
      <3>2. \A w \in Vaddr : RefersIn(F, w, q) <=> RefersIn(entry[t], w, q) \/ w = v
        BY <1>1, <2>3 DEF RefersIn
      <3>3. Refs(F, q) = Refs(entry[t], q) + 1
        BY <3>1, <3>2, RefsMore
      <3>4. m[q] = 1 /\ memory_map[q] = 0
        BY <2>3
      <3> QED
        BY <2>1, <2>2, <3>3, <3>4
    <2>4. CASE q = k
      <3>1. ~RefersIn(F, v, q)
        BY <1>1, <1>2, <2>4 DEF RefersIn
      <3>2. \A w \in Vaddr : RefersIn(entry[t], w, q) <=> RefersIn(F, w, q) \/ w = v
        BY <1>1, <1>2, <2>4 DEF RefersIn, Refers
      <3>3. Refs(entry[t], q) = Refs(F, q) + 1
        BY <3>1, <3>2, RefsMore
      <3>4. m[q] = memory_map[q] - 1
        BY <1>2, <2>4
      <3> QED
        BY <2>1, <2>2, <3>3, <3>4
    <2>5. CASE q # p /\ q # k
      <3>1. \A w \in Vaddr : RefersIn(F, w, q) <=> RefersIn(entry[t], w, q)
        BY <1>1, <2>5 DEF RefersIn, Refers
      <3>2. Refs(F, q) = Refs(entry[t], q)
        BY <3>1, RefsSame
      <3>3. m[q] = memory_map[q]
        BY <2>5
      <3> QED
        BY <2>1, <2>2, <3>2, <3>3
    <2> QED
      BY <2>3, <2>4, <2>5
  <1>4. RowDone(t, F, m, d)
    BY <1>0, <1>1, <1>3, RowRight
  <1>5. /\ CountsRight'
        /\ memory_map' \in [Page -> Nat] /\ free_pages' \in 0 .. NPage
        /\ data' \in [Page -> Value \cup {Blank}]
        /\ entry' \in [Proc -> [Vaddr -> Entry]]
        /\ entry'[t][v] = b
        /\ \A u \in Proc, w \in Vaddr : (u = t /\ w = v) \/ entry'[u][w] = entry[u][w]
        /\ memory_map' = m
        /\ \A q \in Page : m[q] # 0 => data'[q] = d[q]
    BY <1>1, <1>4 DEF RowDone
  <1>6. EntriesRight'
    BY <1>5 DEF CountInv, EntriesRight, EntryRight, Refers
  <1>7. DeadHasNothing'
    BY <1>5 DEF CountInv, DeadHasNothing
  <1>8. CountInv'
    BY <1>5, <1>6, <1>7 DEF CountInv, TypeOK
  <1>9. \A q \in Page : memory_map'[q] = 1 \/ memory_map'[q] <= memory_map[q]
    <2> TAKE q \in Page
    <2>1. memory_map[q] \in Nat
      BY <1>0
    <2> QED
      BY <1>5, <2>1
  <1>10. ASSUME NEW u \in Proc, NEW w \in Vaddr
         PROVE  Derived(u, w) /\ ~Changed(u, w)
    <2>1. CASE u = t /\ w = v
      <3>1. memory_map'[p] = 1 /\ data'[p] = data[k]
        BY <1>5
      <3> QED
        BY <1>5, <2>1, <3>1 DEF Derived, Changed, Refers
    <2>2. CASE ~(u = t /\ w = v)
      <3>1. entry'[u][w] = entry[u][w]
        BY <1>5, <2>2
      <3>2. Derived(u, w)
        BY <1>9, <3>1, SameDerived
      <3>3. entry'[u][w].present => entry'[u][w].index # p
        <4>1. Refers(t, v, p)'
          BY <1>5 DEF Refers
        <4>2. memory_map'[p] = 1
          BY <1>5
        <4>3. Refers(u, w, p)' => u = t /\ w = v
          BY <1>0, <1>8, <4>1, <4>2, OnlyUserNext
        <4> QED
          BY <2>2, <4>3 DEF Refers
      <3>4. \A q \in Page : q # p /\ memory_map'[q] # 0 => data'[q] = data[q]
        BY <1>5
      <3> QED
        BY <1>8, <3>1, <3>2, <3>3, <3>4, SameSteady
    <2> QED
      BY <2>1, <2>2
  <1> QED
    BY <1>8, <1>10 DEF StepOK, Steady

LEMMA FaultWriteStep ==
    ASSUME CountInv, NEW t \in alive, FaultWrite(t)
    PROVE  StepOK /\ Steady
  <1>0. /\ t \in Proc /\ entry \in [Proc -> [Vaddr -> Entry]]
        /\ memory_map \in [Page -> Nat] /\ data \in [Page -> Value \cup {Blank}]
        /\ vmap \in [Proc -> SUBSET Mmap]
    BY DEF CountInv, TypeOK
  <1>1. PICK v \in Vaddr :
            /\ entry[t][v].present
            /\ IF Sole(entry[t][v].index)
               THEN /\ entry' = [entry EXCEPT ![t][v].write = TRUE]
                    /\ UNCHANGED <<memory_map, free_pages, data>>
               ELSE /\ Free(memory_map) # {}
                    /\ Become([memory_map EXCEPT ![GetPage(memory_map)] = 1,
                                                 ![entry[t][v].index] = @ - 1],
                              [data EXCEPT ![GetPage(memory_map)] = data[entry[t][v].index]])
                    /\ entry' = [entry EXCEPT ![t][v] = EntryInit(GetPage(memory_map))]
    BY DEF FaultWrite
  <1>2. alive' = alive /\ table' = table /\ brk' = brk /\ vmap' = vmap
    BY DEF FaultWrite
  <1>3. PICK k \in Page : k = entry[t][v].index
    BY <1>0, <1>1 DEF CountInv, EntriesRight, EntryRight
  <1>4. CASE Sole(k)
    <2>1. PICK b \in Entry : /\ b = [entry[t][v] EXCEPT !.write = TRUE]
                             /\ b.present /\ b.index = entry[t][v].index
      <3>1. PICK e \in Entry : e = entry[t][v]
        BY <1>0
      <3>2. [e EXCEPT !.write = TRUE] \in Entry
        BY DEF Entry
      <3>3. /\ [e EXCEPT !.write = TRUE].present = e.present
            /\ [e EXCEPT !.write = TRUE].index = e.index
        BY DEF Entry
      <3> QED
        BY <1>1, <3>1, <3>2, <3>3
    <2>2. entry' = [entry EXCEPT ![t] = [entry[t] EXCEPT ![v] = b]]
      BY <1>1, <1>3, <1>4, <2>1
    <2>3. UNCHANGED <<memory_map, free_pages, data, table, alive, brk>>
      BY <1>1, <1>2, <1>3, <1>4
    <2>4. /\ vmap' \in [Proc -> SUBSET Mmap]
          /\ \A u \in Proc : vmap[u] \subseteq vmap'[u]
      BY <1>0, <1>2
    <2>5. memory_map[b.index] = 1
      BY <1>3, <1>4, <2>1 DEF Sole
    <2> QED
      BY <1>1, <2>1, <2>2, <2>3, <2>4, <2>5, BitsStep
  <1>5. CASE ~Sole(k)
    <2>1. PICK p \in Page : p = GetPage(memory_map) /\ memory_map[p] = 0
      BY <1>1, <1>3, <1>5, GetPageFree
    <2>2. Refers(t, v, k)
      BY <1>1, <1>3 DEF Refers
    <2>3. memory_map[k] >= 1 /\ p # k
      BY <1>0, <2>1, <2>2, OnlyUser
    <2>4. PICK b \in Entry : b = EntryInit(p) /\ b.present /\ b.index = p
      <3>1. EntryInit(p) \in Entry /\ EntryInit(p).present /\ EntryInit(p).index = p
        BY Numbers DEF EntryInit, Entry, Page
      <3> QED
        BY <3>1
    <2>5. /\ Become([memory_map EXCEPT ![p] = 1, ![k] = @ - 1], [data EXCEPT ![p] = data[k]])
          /\ entry' = [entry EXCEPT ![t] = [entry[t] EXCEPT ![v] = b]]
      BY <1>1, <1>3, <1>5, <2>1, <2>4
    <2>6. PICK m \in [Page -> Nat] :
              /\ m = [memory_map EXCEPT ![p] = 1, ![k] = @ - 1]
              /\ \A q \in Page : m[q] = IF q = p THEN 1
                                        ELSE IF q = k THEN memory_map[q] - 1 ELSE memory_map[q]
      <3>1. [memory_map EXCEPT ![p] = 1, ![k] = @ - 1] \in [Page -> Nat]
        BY <1>0, <2>3
      <3>2. PICK m \in [Page -> Nat] : m = [memory_map EXCEPT ![p] = 1, ![k] = @ - 1]
        BY <3>1
      <3>3. \A q \in Page : m[q] = IF q = p THEN 1
                                   ELSE IF q = k THEN memory_map[q] - 1 ELSE memory_map[q]
        BY <1>0, <2>3, <3>2
      <3> QED
        BY <3>2, <3>3
    <2>7. PICK d \in [Page -> Value \cup {Blank}] :
              /\ d = [data EXCEPT ![p] = data[k]]
              /\ \A q \in Page : d[q] = IF q = p THEN data[k] ELSE data[q]
      <3>1. PICK d \in [Page -> Value \cup {Blank}] : d = [data EXCEPT ![p] = data[k]]
        BY <1>0
      <3>2. \A q \in Page : d[q] = IF q = p THEN data[k] ELSE data[q]
        BY <1>0, <3>1
      <3> QED
        BY <3>1, <3>2
    <2>8. Become(m, d)
      BY <2>5, <2>6, <2>7
    <2>9. Copies(t, v, p, k, b, m, d)
      BY <1>2, <2>1, <2>2, <2>4, <2>5, <2>6, <2>7, <2>8 DEF Copies
    <2> QED
      BY <2>9, CopyStep
  <1> QED
    BY <1>4, <1>5
-----------------------------------------------------------------------------
LEMMA MarkedEntry ==
    ASSUME NEW e \in Entry
    PROVE  /\ Marked(e) \in Entry /\ Marked(e).present = e.present
           /\ Marked(e).index = e.index /\ Marked(e).shared = e.shared
           /\ e.present /\ ~e.shared => ~Marked(e).write
  <1>1. CASE e.present /\ ~e.shared
    <2>1. Marked(e) = [e EXCEPT !.write = FALSE]
      BY <1>1 DEF Marked
    <2> QED
      BY <2>1 DEF Entry
  <1>2. CASE ~(e.present /\ ~e.shared)
    <2>1. Marked(e) = e
      BY <1>2 DEF Marked
    <2> QED
      BY <1>2, <2>1
  <1> QED
    BY <1>1, <1>2

\* copy_pde: the references are m, and one page for the table.
ForksPages(t, child, m) ==
    /\ \A q \in Page :
          m[q] + Cardinality(Tables(q))
              = memory_map[q] + Refs(entry[t], q) + Cardinality(Tables(q)')
    /\ \A q \in Page : memory_map[q] # 0 => m[q] = memory_map[q] + Refs(entry[t], q)
    /\ table' \in [Proc -> Page \cup {NoPage}]
    /\ \A u \in Proc \ {child} : table'[u] = table[u]
    /\ Become(m, data)

LEMMA ForkPages ==
    ASSUME CountInv, NEW t \in alive, NEW child \in Proc \ alive,
           NEW m \in [Page -> Nat],
           \A q \in Page : m[q] = memory_map[q] + Refs(entry[t], q),
           table[t] # NoPage => Free(m) # {},
           Become(IF table[t] = NoPage THEN m ELSE [m EXCEPT ![GetPage(m)] = 1], data),
           table' = [table EXCEPT ![child] = IF table[t] = NoPage THEN NoPage
                                             ELSE GetPage(m)]
    PROVE  \E m2 \in [Page -> Nat] : ForksPages(t, child, m2)
  <1>0. /\ t \in Proc /\ table \in [Proc -> Page \cup {NoPage}]
        /\ memory_map \in [Page -> Nat] /\ table[child] = NoPage
    BY DEF CountInv, TypeOK, DeadHasNothing
  <1>1. CASE table[t] = NoPage
    <2>1. table' = table
      BY <1>0, <1>1
    <2>2. \A q \in Page : Cardinality(Tables(q)') = Cardinality(Tables(q))
      BY <2>1, TablesSame
    <2>3. Become(m, data)
      BY <1>1
    <2>4. ForksPages(t, child, m)
      BY <1>0, <2>1, <2>2, <2>3 DEF ForksPages
    <2> QED
      BY <2>4
  <1>2. CASE table[t] # NoPage
    <2>1. PICK g \in Page : g = GetPage(m) /\ m[g] = 0
      BY <1>2, GetPageFree
    <2>2. PICK m2 \in [Page -> Nat] :
              m2 = [m EXCEPT ![g] = 1] /\ \A q \in Page : m2[q] = IF q = g THEN 1 ELSE m[q]
      <3>1. PICK m2 \in [Page -> Nat] : m2 = [m EXCEPT ![g] = 1]
        OBVIOUS
      <3>2. \A q \in Page : m2[q] = IF q = g THEN 1 ELSE m[q]
        BY <3>1
      <3> QED
        BY <3>1, <3>2
    <2>3. Become(m2, data)
      BY <1>2, <2>1, <2>2
    <2>4. /\ table' \in [Proc -> Page \cup {NoPage}] /\ table'[child] = g
          /\ \A u \in Proc \ {child} : table'[u] = table[u]
      BY <1>0, <1>2, <2>1
    <2>5. Cardinality(Tables(g)') = Cardinality(Tables(g)) + 1
      <3>1. table[child] # g
        BY <1>0, <2>1, Numbers
      <3> QED
        BY <2>4, <3>1, TablesMore
    <2>6. \A q \in Page \ {g} : Cardinality(Tables(q)') = Cardinality(Tables(q))
      BY <1>0, <2>4, Numbers, TablesSame
    <2>7. ASSUME NEW q \in Page
          PROVE  /\ m2[q] + Cardinality(Tables(q))
                      = memory_map[q] + Refs(entry[t], q) + Cardinality(Tables(q)')
                 /\ memory_map[q] # 0 => m2[q] = memory_map[q] + Refs(entry[t], q)
      <3>1. /\ Refs(entry[t], q) \in Nat /\ memory_map[q] \in Nat
            /\ Cardinality(Tables(q)) \in Nat
            /\ m[q] = memory_map[q] + Refs(entry[t], q)
        BY <1>0, RefsType, Counted
      <3>2. CASE q = g
        BY <2>1, <2>2, <2>5, <3>1, <3>2
      <3>3. CASE q # g
        BY <2>2, <2>6, <3>1, <3>3
      <3> QED
        BY <3>2, <3>3
    <2>8. ForksPages(t, child, m2)
      BY <2>3, <2>4, <2>7 DEF ForksPages
    <2> QED
      BY <2>8
  <1> QED
    BY <1>1, <1>2

LEMMA ForkStep ==
    ASSUME CountInv, NEW t \in alive, Fork(t)
    PROVE  StepOK /\ Steady
  <1>0. /\ t \in Proc /\ alive \subseteq Proc /\ entry \in [Proc -> [Vaddr -> Entry]]
        /\ memory_map \in [Page -> Nat] /\ data \in [Page -> Value \cup {Blank}]
        /\ brk \in [Proc -> 0 .. NHeap] /\ vmap \in [Proc -> SUBSET Mmap]
    BY DEF CountInv, TypeOK
  <1> DEFINE M == [p \in Page |-> memory_map[p] + Refs(entry[t], p)]
             F == [v \in Vaddr |-> Marked(entry[t][v])]
  <1>1. PICK child \in Proc \ alive :
            /\ table[t] # NoPage => Free(M) # {}
            /\ alive' = alive \cup {child}
            /\ Become(IF table[t] = NoPage THEN M ELSE [M EXCEPT ![GetPage(M)] = 1], data)
            /\ table' = [table EXCEPT ![child] = IF table[t] = NoPage THEN NoPage
                                                 ELSE GetPage(M)]
            /\ entry' = [entry EXCEPT ![t] = F, ![child] = F]
            /\ brk' = [brk EXCEPT ![child] = brk[t]]
            /\ vmap' = [vmap EXCEPT ![child] = vmap[t]]
    BY DEF Fork
  <1>2. PICK m \in [Page -> Nat] :
            m = M /\ \A q \in Page : m[q] = memory_map[q] + Refs(entry[t], q)
    <2>1. \A q \in Page : memory_map[q] + Refs(entry[t], q) \in Nat
      BY <1>0, RefsType
    <2>2. PICK m \in [Page -> Nat] : m = M
      BY <2>1
    <2>3. \A q \in Page : m[q] = memory_map[q] + Refs(entry[t], q)
      BY <2>2
    <2> QED
      BY <2>2, <2>3
  <1>3. PICK E \in [Vaddr -> Entry] :
            /\ E = F
            /\ \A v \in Vaddr : /\ E[v].present = entry[t][v].present
                                /\ E[v].index = entry[t][v].index
                                /\ E[v].shared = entry[t][v].shared
                                /\ E[v].present /\ ~E[v].shared => ~E[v].write
    <2>1. \A v \in Vaddr : entry[t][v] \in Entry
      BY <1>0
    <2>2. PICK E \in [Vaddr -> Entry] : E = F
      BY <2>1, MarkedEntry
    <2>3. \A v \in Vaddr : E[v] = Marked(entry[t][v])
      BY <2>2
    <2>4. \A v \in Vaddr : /\ E[v].present = entry[t][v].present
                           /\ E[v].index = entry[t][v].index
                           /\ E[v].shared = entry[t][v].shared
                           /\ E[v].present /\ ~E[v].shared => ~E[v].write
      BY <2>1, <2>3, MarkedEntry
    <2> QED
      BY <2>2, <2>4
  <1>4. /\ table[t] # NoPage => Free(m) # {}
        /\ Become(IF table[t] = NoPage THEN m ELSE [m EXCEPT ![GetPage(m)] = 1], data)
        /\ table' = [table EXCEPT ![child] = IF table[t] = NoPage THEN NoPage
                                             ELSE GetPage(m)]
        /\ entry' = [entry EXCEPT ![t] = E, ![child] = E]
    BY <1>1, <1>2, <1>3
  <1>5. PICK m2 \in [Page -> Nat] : ForksPages(t, child, m2)
    BY <1>2, <1>4, ForkPages
  <1>6. /\ \A q \in Page :
              m2[q] + Cardinality(Tables(q))
                  = memory_map[q] + Refs(entry[t], q) + Cardinality(Tables(q)')
        /\ \A q \in Page : memory_map[q] # 0 => m2[q] = memory_map[q] + Refs(entry[t], q)
        /\ table' \in [Proc -> Page \cup {NoPage}]
        /\ \A u \in Proc \ {child} : table'[u] = table[u]
        /\ Become(m2, data)
    BY <1>5 DEF ForksPages
  <1>7. /\ memory_map' = m2
        /\ free_pages' = Cardinality(Free(memory_map'))
        /\ free_pages' \in 0 .. NPage
        /\ data' \in [Page -> Value \cup {Blank}]
        /\ \A q \in Page : m2[q] # 0 => data'[q] = data[q]
    BY <1>0, <1>6, BecomeRight
  <1>8. /\ t # child
        /\ entry' \in [Proc -> [Vaddr -> Entry]] /\ entry'[t] = E /\ entry'[child] = E
        /\ \A u \in Proc \ {t, child} : entry'[u] = entry[u]
    BY <1>0, <1>4
  <1>9. ASSUME NEW u \in Proc \ {child}, NEW w \in Vaddr
        PROVE  /\ entry'[u][w].present = entry[u][w].present
               /\ entry'[u][w].index = entry[u][w].index
               /\ entry'[u][w].shared = entry[u][w].shared
    BY <1>3, <1>8
  <1>10. \A w \in Vaddr : ~entry[child][w].present
    BY DEF CountInv, DeadHasNothing
  <1>11. CountsRight'
    <2>1. ASSUME NEW q \in Page
          PROVE  memory_map'[q] = Cardinality(Users(q)') + Cardinality(Tables(q)')
      <3>1. \A u \in Proc \ {child}, w \in Vaddr : Refers(u, w, q)' <=> Refers(u, w, q)
        BY <1>9 DEF Refers
      <3>2. /\ Cardinality(Users(q)') + Refs(entry[child], q)
                  = Cardinality(Users(q)) + Refs(entry'[child], q)
            /\ Cardinality(Users(q)) \in Nat /\ Cardinality(Users(q)') \in Nat
        BY <3>1, UsersRow
      <3>3. Refs(entry[child], q) = 0
        BY <1>10, RefsNone DEF RefersIn
      <3>4. Refs(entry'[child], q) = Refs(entry[t], q)
        <4>1. \A w \in Vaddr : RefersIn(E, w, q) <=> RefersIn(entry[t], w, q)
          BY <1>3 DEF RefersIn
        <4>2. Refs(E, q) = Refs(entry[t], q)
          BY <4>1, RefsSame
        <4> QED
          BY <1>8, <4>2
      <3>5. Cardinality(Tables(q)') \in Nat
        <4>1. IsFiniteSet(Tables(q)')
          BY Finite DEF Tables
        <4> QED
          BY <4>1, FS_CardinalityType
      <3>6. /\ memory_map[q] = Cardinality(Users(q)) + Cardinality(Tables(q))
            /\ Cardinality(Tables(q)) \in Nat
        BY Counted DEF CountInv
      <3>7. /\ m2[q] + Cardinality(Tables(q))
                  = memory_map[q] + Refs(entry[t], q) + Cardinality(Tables(q)')
            /\ m2[q] \in Nat /\ memory_map'[q] = m2[q]
        BY <1>6, <1>7
      <3>8. Refs(entry[t], q) \in Nat
        BY RefsType
      <3> QED
        BY <3>2, <3>3, <3>4, <3>5, <3>6, <3>7, <3>8
    <2> QED
      BY <1>7, <2>1, CountedNext
  <1>12. /\ alive' \subseteq Proc /\ brk' \in [Proc -> 0 .. NHeap]
         /\ vmap' \in [Proc -> SUBSET Mmap] /\ vmap'[child] = vmap[t]
         /\ \A u \in Proc \ {child} : vmap'[u] = vmap[u]
    BY <1>0, <1>1
  <1>13. EntriesRight'
    <2> SUFFICES ASSUME NEW u \in Proc, NEW w \in Vaddr, entry'[u][w].present
                 PROVE  /\ entry'[u][w].index \in Page
                        /\ w \in Mmap => w \in vmap'[u]
      BY DEF EntriesRight, EntryRight
    <2>1. CASE u # child
      <3>1. EntryRight(u, w)
        BY <1>0 DEF CountInv, EntriesRight
      <3> QED
        BY <1>9, <1>12, <2>1, <3>1 DEF EntryRight
    <2>2. CASE u = child
      <3>1. entry'[u][w].index = entry[t][w].index /\ entry[t][w].present
        BY <1>3, <1>8, <2>2
      <3>2. EntryRight(t, w)
        BY <1>0 DEF CountInv, EntriesRight
      <3> QED
        BY <1>12, <2>2, <3>1, <3>2 DEF EntryRight
    <2> QED
      BY <2>1, <2>2
  <1>14. DeadHasNothing'
    <2> SUFFICES ASSUME NEW u \in Proc \ alive'
                 PROVE  table'[u] = NoPage /\ \A w \in Vaddr : ~entry'[u][w].present
      BY DEF DeadHasNothing
    <2>1. u \in Proc \ {child} /\ u \notin alive
      BY <1>1
    <2>2. table[u] = NoPage /\ \A w \in Vaddr : ~entry[u][w].present
      BY <2>1 DEF CountInv, DeadHasNothing
    <2> QED
      BY <1>6, <1>9, <2>1, <2>2
  <1>15. CountInv'
    <2>1. memory_map' \in [Page -> Nat]
      BY <1>7
    <2> QED
      BY <1>6, <1>7, <1>8, <1>11, <1>12, <1>13, <1>14, <2>1 DEF CountInv, TypeOK
  <1>16. ASSUME MemoryInv, NEW u \in Proc, NEW w \in Vaddr
         PROVE  Derived(u, w)
    <2> SUFFICES ASSUME entry'[u][w].present PROVE Derived(u, w)
      BY DEF Derived
    <2>1. PICK p \in Page : p = entry'[u][w].index
      BY <1>13 DEF EntriesRight, EntryRight
    <2>2. CASE u = child
      <3>1. Refers(t, w, p) /\ entry[t][w].shared = entry'[u][w].shared
        BY <1>3, <1>8, <2>1, <2>2 DEF Refers
      <3>2. entry'[u][w].shared \/ ~entry'[u][w].write
        BY <1>3, <1>8, <2>2
      <3> QED
        BY <1>0, <2>1, <3>1, <3>2 DEF Derived
    <2>3. CASE u = t
      <3>1. Refers(t, w, p) /\ entry[t][w].shared = entry'[u][w].shared
        BY <1>3, <1>8, <2>1, <2>3 DEF Refers
      <3>2. entry'[u][w].shared \/ ~entry'[u][w].write
        BY <1>3, <1>8, <2>3
      <3> QED
        BY <1>0, <2>1, <3>1, <3>2 DEF Derived
    <2>4. CASE u # child /\ u # t
      <3>1. entry'[u] = entry[u] /\ Refers(u, w, p)
        BY <1>8, <2>1, <2>4 DEF Refers
      <3>2. ASSUME entry[u][w].write, ~entry[u][w].shared
            PROVE  memory_map'[p] <= memory_map[p]
        <4>1. memory_map[p] = 1
          BY <3>1, <3>2, <1>16 DEF MemoryInv, WritableIsOwn, Refers
        <4>2. \A v \in Vaddr : ~Refers(t, v, p)
          BY <1>0, <2>4, <3>1, <4>1, OnlyUser
        <4>3. Refs(entry[t], p) = 0
          BY <4>2, RefsNone DEF RefersIn, Refers
        <4> QED
          BY <1>6, <1>7, <4>1, <4>3
      <3> QED
        BY <2>1, <3>1, <3>2 DEF Derived
    <2> QED
      BY <2>2, <2>3, <2>4
  <1>17. ASSUME NEW u \in Proc, NEW w \in Vaddr
         PROVE  ~Changed(u, w)
    <2>1. CASE u = child
      BY <1>10, <2>1 DEF Changed
    <2>2. CASE u # child
      <3> SUFFICES ASSUME entry'[u][w].present PROVE ~Changed(u, w)
        BY DEF Changed
      <3>1. PICK p \in Page : p = entry'[u][w].index
        BY <1>13 DEF EntriesRight, EntryRight
      <3>2. memory_map'[p] >= 1
        <4>1. Refers(u, w, p)'
          BY <3>1 DEF Refers
        <4> QED
          BY <1>15, <4>1, OnlyUserNext
      <3>3. data'[p] = data[p]
        BY <1>7, <3>2
      <3> QED
        BY <1>9, <2>2, <3>1, <3>3 DEF Changed
    <2> QED
      BY <2>1, <2>2
  <1> QED
    BY <1>15, <1>16, <1>17 DEF StepOK, Steady
-----------------------------------------------------------------------------
\* A store into the page of an entry that is writable or shared memory, or by
\* the kernel.
LEMMA ChangeStep ==
    ASSUME CountInv, NEW t \in Proc, NEW v \in Vaddr, entry[t][v].present,
           Change(entry[t][v].index)
    PROVE  /\ StepOK
           /\ \A q \in Page \ {entry[t][v].index} : data'[q] = data[q]
  <1>1. UNCHANGED <<alive, memory_map, free_pages, table, entry, brk, vmap>>
    BY DEF Change
  <1>2. PICK p \in Page : p = entry[t][v].index
    BY DEF CountInv, EntriesRight, EntryRight
  <1>3. PICK x \in Value : data' = [data EXCEPT ![p] = x]
    BY <1>2 DEF Change
  <1>4. /\ data' \in [Page -> Value \cup {Blank}]
        /\ \A q \in Page \ {p} : data'[q] = data[q]
    BY <1>3 DEF CountInv, TypeOK
  <1>5. TypeOK'
    BY <1>1, <1>4 DEF CountInv, TypeOK
  <1>6. CountsRight'
    <2>1. \A q \in Page : Users(q)' = Users(q) /\ Tables(q)' = Tables(q)
      BY <1>1 DEF Users, Refers, Tables
    <2> QED
      BY <1>1, <2>1, Counted, CountedNext DEF CountInv
  <1>7. EntriesRight' /\ DeadHasNothing'
    BY <1>1 DEF CountInv, EntriesRight, EntryRight, DeadHasNothing
  <1>8. ASSUME NEW u \in Proc, NEW w \in Vaddr PROVE Derived(u, w)
    <2>1. \A q \in Page : memory_map'[q] = 1 \/ memory_map'[q] <= memory_map[q]
      BY <1>1 DEF CountInv, TypeOK
    <2>2. entry'[u][w] = entry[u][w]
      BY <1>1
    <2> QED
      BY <2>1, <2>2, SameDerived
  <1>9. StepOK
    BY <1>5, <1>6, <1>7, <1>8 DEF StepOK, CountInv
  <1> QED
    BY <1>2, <1>4, <1>9

\* Who stores into a page that it alone may write disturbs nobody.
LEMMA StoreIsolated ==
    ASSUME MemoryInv, CountInv', NEW t \in Proc, NEW v \in Vaddr, entry[t][v].present,
           entry[t][v].write, Change(entry[t][v].index)
    PROVE  \A u \in Proc, w \in Vaddr : Changed(u, w) => u = t /\ w = v
  <1> SUFFICES ASSUME NEW u \in Proc, NEW w \in Vaddr, Changed(u, w)
               PROVE  u = t /\ w = v
    OBVIOUS
  <1>0. CountInv
    BY DEF MemoryInv
  <1>1. entry' = entry /\ memory_map' = memory_map
    BY DEF Change
  <1>2. PICK p \in Page : p = entry[t][v].index
    BY <1>0 DEF CountInv, EntriesRight, EntryRight
  <1>3. \A q \in Page \ {p} : data'[q] = data[q]
    BY <1>0, <1>2, ChangeStep
  <1>4. entry[u][w].present /\ ~entry[u][w].shared
    BY DEF Changed
  <1>5. entry[u][w].index = p
    <2>1. entry[u][w].index \in Page
      BY <1>0, <1>4 DEF CountInv, EntriesRight, EntryRight
    <2> QED
      BY <1>1, <1>3, <2>1 DEF Changed
  <1>6. Refers(t, v, p) /\ Refers(u, w, p)
    BY <1>2, <1>4, <1>5 DEF Refers
  <1>7. ~entry[t][v].shared
    BY <1>4, <1>6 DEF MemoryInv, SharedAgree
  <1>8. memory_map[p] = 1
    BY <1>2, <1>7 DEF MemoryInv, WritableIsOwn
  <1> QED
    BY <1>0, <1>6, <1>8, OnlyUser
-----------------------------------------------------------------------------
LEMMA StepSteps ==
    ASSUME CountInv, NEW t \in alive, Step(t)
    PROVE  /\ StepOK
           /\ \/ Steady
              \/ Exec(t) /\ (\A u \in Proc \ {t}, w \in Vaddr : ~Changed(u, w))
  <1>1. CASE Fork(t)
    BY <1>1, ForkStep
  <1>2. CASE Exit(t)
    BY <1>2, ExitStep
  <1>3. CASE Brk(t)
    BY <1>3, BrkStep
  <1>4. CASE MmapPage(t)
    BY <1>4, MmapStep
  <1>5. CASE Munmap(t)
    BY <1>5, MunmapStep
  <1>6. CASE Exec(t)
    BY <1>6, ExecStep
  <1>7. CASE FaultAbsent(t)
    BY <1>7, FaultAbsentStep
  <1>8. CASE FaultWrite(t)
    BY <1>8, FaultWriteStep
  <1> QED
    BY <1>1, <1>2, <1>3, <1>4, <1>5, <1>6, <1>7, <1>8 DEF Step

LEMMA NextSteps ==
    ASSUME CountInv, Next
    PROVE  StepOK
  <1>1. PICK t \in alive : Step(t) \/ \E v \in Vaddr : Store(t, v) \/ KernelStore(t, v)
    BY DEF Next
  <1>2. CASE Step(t)
    BY <1>2, StepSteps
  <1>3. ASSUME NEW v \in Vaddr, Store(t, v) \/ KernelStore(t, v)
        PROVE  StepOK
    <2>1. entry[t][v].present /\ Change(entry[t][v].index) /\ t \in Proc
      BY <1>3 DEF Store, KernelStore, CountInv, TypeOK
    <2> QED
      BY <2>1, ChangeStep
  <1> QED
    BY <1>1, <1>2, <1>3

LEMMA IdleStep ==
    ASSUME CountInv, UNCHANGED vars
    PROVE  /\ CountInv' /\ (WritableIsOwn => WritableIsOwn')
           /\ (SharedAgree => SharedAgree')
  <1>1. UNCHANGED <<alive, memory_map, free_pages, data, table, entry, brk, vmap>>
    BY DEF vars
  <1>2. CountsRight'
    <2>1. \A q \in Page : Users(q)' = Users(q) /\ Tables(q)' = Tables(q)
      BY <1>1 DEF Users, Refers, Tables
    <2> QED
      BY <1>1, <2>1, Counted, CountedNext DEF CountInv
  <1>3. TypeOK' /\ DeadHasNothing' /\ EntriesRight'
    BY <1>1 DEF CountInv, TypeOK, DeadHasNothing, EntriesRight, EntryRight
  <1> QED
    BY <1>1, <1>2, <1>3 DEF CountInv, WritableIsOwn, SharedAgree, Refers

LEMMA InitInv == Init => MemoryInv
  <1> SUFFICES ASSUME Init PROVE MemoryInv
    OBVIOUS
  <1>1. /\ \A t \in Proc : table[t] = NoPage
        /\ \A t \in Proc, v \in Vaddr : ~entry[t][v].present
    BY AbsentEntry DEF Init
  <1>2. TypeOK
    BY Numbers, AbsentEntry DEF Init, TypeOK
  <1>3. \A p \in Page : Users(p) = {} /\ Tables(p) = {}
    BY <1>1, Numbers DEF Users, Refers, Tables
  <1>4. CountsRight
    <2>1. Free(memory_map) = Page
      BY DEF Free, Init
    <2>2. free_pages = Cardinality(Free(memory_map))
      BY <2>1, Finite DEF Init
    <2>3. \A p \in Page : memory_map[p] = Cardinality(Users(p)) + Cardinality(Tables(p))
      <3>1. Cardinality({}) = 0
        BY FS_EmptySet
      <3>2. \A p \in Page : memory_map[p] = 0
        BY DEF Init
      <3> QED
        BY <1>3, <3>1, <3>2
    <2> QED
      BY <2>2, <2>3, Counted
  <1> QED
    BY <1>1, <1>2, <1>4 DEF MemoryInv, CountInv, DeadHasNothing, EntriesRight,
       EntryRight, WritableIsOwn, SharedAgree, Refers

LEMMA CountInvariant == Spec => []CountInv
  <1>1. Init => CountInv
    BY InitInv DEF MemoryInv
  <1>2. CountInv /\ [Next]_vars => CountInv'
    BY NextSteps, IdleStep DEF StepOK
  <1> QED
    BY <1>1, <1>2, PTL DEF Spec

LEMMA MemoryNext ==
    ASSUME ~Remap, MemoryInv, [Next]_vars
    PROVE  MemoryInv'
  <1>0. CountInv
    BY DEF MemoryInv
  <1>1. CASE Next
    <2>1. CountInv' /\ \A u \in Proc, w \in Vaddr : Derived(u, w)
      BY <1>0, <1>1, NextSteps DEF StepOK
    <2> QED
      BY <2>1, DerivedRight DEF MemoryInv
  <1>2. CASE UNCHANGED vars
    BY <1>2, IdleStep DEF MemoryInv
  <1> QED
    BY <1>1, <1>2

LEMMA MemoryInvariant ==
    ASSUME ~Remap
    PROVE  Spec => []MemoryInv
  <1>1. MemoryInv /\ [Next]_vars => MemoryInv'
    BY MemoryNext
  <1> QED
    BY <1>1, InitInv, PTL DEF Spec

\* What a step does to the memory of processes.
LEMMA IsolatedNext ==
    ASSUME ~Remap, Unshared, MemoryInv, Next, NEW t \in Proc, NEW v \in Vaddr,
           Changed(t, v)
    PROVE  /\ Store(t, v) \/ KernelStore(t, v) \/ Exec(t)
           /\ \A u \in Proc \ {t}, w \in Vaddr : ~Changed(u, w)
  <1>0. CountInv /\ CountInv'
    BY NextSteps DEF MemoryInv, StepOK
  <1>1. PICK s \in alive : Step(s) \/ \E x \in Vaddr : Store(s, x) \/ KernelStore(s, x)
    BY DEF Next
  <1>2. CASE Step(s)
    <2>1. ~Steady
      BY DEF Steady
    <2>2. Exec(s) /\ \A u \in Proc \ {s}, w \in Vaddr : ~Changed(u, w)
      BY <1>0, <1>2, <2>1, StepSteps
    <2>3. s = t
      BY <2>2
    <2> QED
      BY <2>2, <2>3
  <1>3. ASSUME NEW x \in Vaddr, Store(s, x) \/ KernelStore(s, x)
        PROVE  /\ Store(t, v) \/ KernelStore(t, v)
               /\ \A u \in Proc \ {t}, w \in Vaddr : ~Changed(u, w)
    <2>1. /\ s \in Proc /\ entry[s][x].present /\ entry[s][x].write
          /\ Change(entry[s][x].index)
      BY <1>0, <1>3 DEF Store, KernelStore, CountInv, TypeOK
    <2>2. \A u \in Proc, w \in Vaddr : Changed(u, w) => u = s /\ w = x
      BY <1>0, <2>1, StoreIsolated
    <2>3. t = s /\ v = x
      BY <2>2
    <2> QED
      BY <1>3, <2>2, <2>3
  <1> QED
    BY <1>1, <1>2, <1>3
-----------------------------------------------------------------------------
\* Every variable keeps its type: no reference goes below zero and the counter
\* of free pages stays within the memory (memory.c, put_page's assertions).
THEOREM MemoryType == Spec => []TypeOK
  <1>1. CountInv => TypeOK
    BY DEF CountInv
  <1> QED
    BY <1>1, CountInvariant, PTL

\* The references of each page are those of the entries and of the tables that
\* use it and free_pages counts the free pages, whatever mmap is asked for and
\* whichever buffers system calls get (link_page, unlink_page, copy_pde,
\* free_pde, page_fault).
THEOREM Counts == Spec => []CountsRight
  <1>1. CountInv => CountsRight
    BY DEF CountInv
  <1> QED
    BY <1>1, CountInvariant, PTL

\* When mmap does not remap a page that others use, only a page with one
\* reference can be stored into without a fault, unless it is shared memory
\* (copy_pde, memory.c:479-483; page_fault, 703-718).
THEOREM Sharing ==
    ASSUME ~Remap
    PROVE  Spec => []SharingRight
  <1>1. MemoryInv => SharingRight
    BY DEF MemoryInv, CountInv, SharingRight
  <1> QED
    BY <1>1, MemoryInvariant, PTL

\* When besides system calls store only into pages that their process has
\* written since it forked, what a process finds in memory that is not shared
\* changes only by its own stores and by its execve.
THEOREM Isolation ==
    ASSUME ~Remap, Unshared
    PROVE  Spec => Isolated
  <1>1. MemoryInv /\ [Next]_vars =>
            [\A t \in Proc, v \in Vaddr : Changed(t, v) =>
                /\ Store(t, v) \/ KernelStore(t, v) \/ Exec(t)
                /\ \A u \in Proc \ {t}, w \in Vaddr : ~Changed(u, w)]_vars
    BY IsolatedNext
  <1> QED
    BY <1>1, MemoryInvariant, PTL DEF Spec, Isolated
=============================================================================
