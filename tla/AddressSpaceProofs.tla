-------------------------- MODULE AddressSpaceProofs --------------------------
(***************************************************************************)
(* Proofs about KernelPages and AddressSpace, for tables, images, programs *)
(* and stacks of any size and any number of processes, under the           *)
(* assumption CallsFit about what callers ask for.                         *)
(*                                                                         *)
(* The first part is about the allocator alone: one page, the loops of a   *)
(* call, and PagesInv, its invariant.  The second part builds on it.  What *)
(* a step does to the machine (the allocator and all memory) is stated for *)
(* any machine m that is Sound: Extends(m, b) says that b has more pages   *)
(* and nothing written to those of m, Grows(m, b) that nothing is written  *)
(* at all.  One lemma for each operation, from page_allocate_kernel over   *)
(* page_map, MapSection and AllocateSection to elf_loader_load and fork,   *)
(* says what it makes of m; one for each action, from SetsUp on, that it   *)
(* keeps SpaceInv.                                                         *)
(***************************************************************************)
EXTENDS AddressSpace, LibraryLemmas, TLAPS

\* No call is longer than the spare table can take, page_allocate_kernel_mmio does
\* not meet the end of a table, and the image ends before the last entry of its
\* table: the code keeps its tables in step only then.
CallsFit ==
    /\ Start \subseteq 0 .. ENTRIES - 2
    /\ MaxCall < ENTRIES
    /\ ~ MmioCrosses

\* The length of a table as the divisor of LibraryLemmas.
LEMMA TableLength == ENTRIES \in Nat \ {0} /\ ENTRIES - 1 \in Nat /\ MaxPage \in Nat
  BY EntriesAssumption, MaxPageAssumption

-----------------------------------------------------------------------------
(***************************************************************************)
(* Pages and entries.                                                      *)
(***************************************************************************)

\* A lower page is in no later table.
LEMMA TablesInOrder ==
    ASSUME NEW a \in Nat, NEW b \in Nat, a <= b
    PROVE  a \div ENTRIES <= b \div ENTRIES
<1> DEFINE N == ENTRIES
           q == a \div N
           r == a % N
           p == b \div N
           s == b % N
<1>1. N \in Nat \ {0}
  BY TableLength
<1> HIDE DEF N
<1>2. r \in 0 .. N - 1 /\ q \in Nat /\ a = N * q + r /\ s \in 0 .. N - 1 /\ p \in Nat /\ b = N * p + s
  BY <1>1, Division
<1> HIDE DEF q, r, p, s
<1>3. ASSUME p < q PROVE FALSE
  <2>1. PICK d \in Nat : q = p + 1 + d
    <3>1. q - p - 1 \in Nat /\ q = p + 1 + (q - p - 1)
      BY <1>2, <1>3
    <3>2. QED
      BY <3>1
  <2>2. N * q = N * p + N + N * d /\ N * d \in Nat /\ N * p \in Nat
    <3>1. \A u, v, w \in Nat : u * (v + 1 + w) = u * v + u + u * w /\ u * w \in Nat /\ u * v \in Nat
      OBVIOUS
    <3>2. QED
      BY <1>1, <1>2, <2>1, <3>1
  <2> DEFINE x == N * p
             y == N * d
             z == N * q
  <2>3. z = x + N + y /\ x \in Nat /\ y \in Nat /\ a = z + r /\ b = x + s
    BY <1>2, <2>2
  <2> HIDE DEF x, y, z
  <2>4. QED
    BY <1>1, <1>2, <2>3
<1>4. q <= p
  BY <1>2, <1>3
<1>5. QED
  BY <1>4 DEF q, p, N

\* The entry that the indexes name is the one the hardware looks up.
LEMMA EntryOf ==
    ASSUME NEW d \in Nat, NEW i \in Slot
    PROVE  /\ d * ENTRIES + i \in Nat
           /\ (d * ENTRIES + i) \div ENTRIES = d
           /\ (d * ENTRIES + i) % ENTRIES = i
<1>1. i \in 0 .. ENTRIES - 1 /\ ENTRIES \in Nat \ {0}
  BY TableLength DEF Slot
<1>2. (ENTRIES * d + i) % ENTRIES = i /\ (ENTRIES * d + i) \div ENTRIES = d
  BY <1>1, DivisionUnique
<1>3. ENTRIES * d = d * ENTRIES /\ d * ENTRIES \in Nat
  BY <1>1
<1>4. i \in Nat
  BY <1>1
<1>5. d * ENTRIES + i \in Nat
  <2>1. \A u, v \in Nat : u + v \in Nat
    OBVIOUS
  <2>2. QED
    BY <1>3, <1>4, <2>1, Zenon
<1>6. QED
  BY <1>2, <1>3, <1>5, Zenon

\* A page has an entry in the directory and one in the table.
LEMMA EntryOfPage ==
    ASSUME NEW p \in Nat
    PROVE  /\ p \div ENTRIES \in Nat /\ p % ENTRIES \in Slot
           /\ p = (p \div ENTRIES) * ENTRIES + (p % ENTRIES)
           /\ p <= MaxPage => p \div ENTRIES \in Dir
<1>1. p % ENTRIES \in 0 .. ENTRIES - 1 /\ p \div ENTRIES \in Nat
      /\ p = ENTRIES * (p \div ENTRIES) + (p % ENTRIES)
  BY TableLength, Division
<1>2. ENTRIES * (p \div ENTRIES) = (p \div ENTRIES) * ENTRIES
  BY <1>1, TableLength
<1>3. ASSUME p <= MaxPage PROVE p \div ENTRIES \in Dir
  <2>1. p \div ENTRIES <= MaxPage \div ENTRIES
    BY <1>3, TableLength, TablesInOrder
  <2>2. MaxPage \div ENTRIES \in Nat
    BY TableLength, Division
  <2>3. QED
    BY <1>1, <2>1, <2>2 DEF Dir
<1>4. QED
  <2>1. p = (p \div ENTRIES) * ENTRIES + (p % ENTRIES)
    BY <1>1, <1>2, Zenon
  <2>2. p % ENTRIES \in Slot
    BY <1>1 DEF Slot
  <2>3. QED
    BY <1>1, <1>3, <2>1, <2>2, Zenon


-----------------------------------------------------------------------------
(***************************************************************************)
(* The invariant of the allocator, and one page.                           *)
(***************************************************************************)
AllocatorState ==
    [next : 0 .. MaxPage, pt_index : Slot, pd_index : Dir,
     pt : Page \cup {Boot}, new_pt : Page \cup {Wild},
     entry : [Table -> [Slot -> Page \cup {None}]],
     dir : [Dir -> Page \cup {Boot, None}]]

\* The directory has the tables in use, in order, each once, all of them pages
\* already handed out; the table in use is the last one, and the indexes name the
\* entry of the next page; every page from the end of the image on is mapped.
InStep(k) ==
    /\ k \in AllocatorState
    /\ k.pd_index * ENTRIES + k.pt_index = k.next
    /\ k.dir[k.pd_index] = k.pt
    /\ \A d \in Dir : k.dir[d] = None <=> d > k.pd_index
    /\ \A c, d \in Dir : k.dir[c] = k.dir[d] /\ k.dir[c] # None => c = d
    /\ \A d \in Dir : k.dir[d] \in Page => k.dir[d] < k.next
    /\ \A p \in first .. k.next - 1 : Walk(k, p) = p

\* A page that can serve as the spare table: handed out, and in the directory only
\* as the table in use.
IsSpare(k, s) ==
    /\ s \in Page /\ s <= k.next
    /\ \A d \in Dir : k.dir[d] = s => d = k.pd_index

SpareReady(k) == IsSpare(k, k.new_pt) /\ k.new_pt < k.next

\* One page more, with s as the spare table: what the loops do with s the spare
\* table there is, and what sets a new one aside.
OnePage(k, s) ==
    paging_increment_kernel_page_index([paging_allocate_single(k) EXCEPT !.new_pt = s])

\* With s as the spare table, how many pages can be handed out before another one
\* is needed.
PagesLeft(k, s) ==
    IF k.pt = s THEN ENTRIES - 1 - k.pt_index ELSE ENTRIES + (ENTRIES - 1 - k.pt_index)

\* The fields after one page.
LEMMA FieldsOfOnePage ==
    ASSUME NEW k \in AllocatorState, NEW s, k.next < MaxPage, s \in Page,
           k.pt_index = ENTRIES - 1 => k.pd_index + 1 \in Dir
    PROVE  LET b == OnePage(k, s)
               full == k.pt_index = ENTRIES - 1
           IN  /\ b \in AllocatorState
               /\ b.next = k.next + 1 /\ b.new_pt = s
               /\ b.entry = [k.entry EXCEPT ![k.pt][k.pt_index] = k.next]
               /\ full => /\ b.pt_index = 0 /\ b.pt = s /\ b.pd_index = k.pd_index + 1
                          /\ b.dir = [k.dir EXCEPT ![k.pd_index + 1] = s]
               /\ ~ full => /\ b.pt_index = k.pt_index + 1 /\ b.pt = k.pt
                            /\ b.pd_index = k.pd_index /\ b.dir = k.dir
<1> DEFINE e == [k.entry EXCEPT ![k.pt][k.pt_index] = k.next]
           a == [paging_allocate_single(k) EXCEPT !.new_pt = s]
           b == OnePage(k, s)
<1>1. /\ k = [next |-> k.next, pt_index |-> k.pt_index, pd_index |-> k.pd_index, pt |-> k.pt,
              new_pt |-> k.new_pt, entry |-> k.entry, dir |-> k.dir]
      /\ k.next \in 0 .. MaxPage /\ k.pt_index \in Slot /\ k.pd_index \in Dir
      /\ k.pt \in Page \cup {Boot} /\ k.entry \in [Table -> [Slot -> Page \cup {None}]]
      /\ k.dir \in [Dir -> Page \cup {Boot, None}]
  BY DEF AllocatorState
<1>2. a = [next |-> k.next + 1, pt_index |-> k.pt_index, pd_index |-> k.pd_index, pt |-> k.pt,
           new_pt |-> s, entry |-> e, dir |-> k.dir]
  <2>1. paging_allocate_single(k) = [k EXCEPT !.entry = e, !.next = k.next + 1]
    BY <1>1 DEF paging_allocate_single
  <2> HIDE DEF e
  <2>2. paging_allocate_single(k)
          = [next |-> k.next + 1, pt_index |-> k.pt_index, pd_index |-> k.pd_index, pt |-> k.pt,
             new_pt |-> k.new_pt, entry |-> e, dir |-> k.dir]
    BY <1>1, <2>1
  <2>3. QED
    BY <2>2
<1>3. k.next \in Page /\ k.next + 1 \in 0 .. MaxPage /\ k.pt \in Table
  BY <1>1, TableLength DEF Page, Table
<1>4. e \in [Table -> [Slot -> Page \cup {None}]]
  BY <1>1, <1>3
<1>5. b = paging_increment_kernel_page_index(a)
  BY DEF OnePage
<1> HIDE DEF a, b, e
<1>6. CASE k.pt_index = ENTRIES - 1
  <2>1. b = [a EXCEPT !.pt_index = 0, !.pt = a.new_pt,
                      !.dir[a.pd_index + 1] = a.new_pt, !.pd_index = @ + 1]
    BY <1>2, <1>5, <1>6 DEF paging_increment_kernel_page_index
  <2>2. b = [next |-> k.next + 1, pt_index |-> 0, pd_index |-> k.pd_index + 1, pt |-> s,
             new_pt |-> s, entry |-> e, dir |-> [k.dir EXCEPT ![k.pd_index + 1] = s]]
    BY <1>2, <2>1
  <2>3. [k.dir EXCEPT ![k.pd_index + 1] = s] \in [Dir -> Page \cup {Boot, None}]
    BY <1>1
  <2>4. 0 \in Slot
    BY TableLength DEF Slot
  <2>5. b \in AllocatorState
    BY <1>3, <1>4, <1>6, <2>2, <2>3, <2>4 DEF AllocatorState
  <2>6. QED
    BY <1>6, <2>2, <2>5 DEF b, e
<1>7. CASE k.pt_index # ENTRIES - 1
  <2>1. b = [a EXCEPT !.pt_index = @ + 1]
    BY <1>2, <1>5, <1>7 DEF paging_increment_kernel_page_index
  <2>2. b = [next |-> k.next + 1, pt_index |-> k.pt_index + 1, pd_index |-> k.pd_index,
             pt |-> k.pt, new_pt |-> s, entry |-> e, dir |-> k.dir]
    BY <1>2, <2>1
  <2>3. k.pt_index + 1 \in Slot
    BY <1>1, <1>7, TableLength DEF Slot
  <2>4. b \in AllocatorState
    BY <1>1, <1>3, <1>4, <2>2, <2>3 DEF AllocatorState
  <2>5. QED
    BY <1>7, <2>2, <2>4 DEF b, e
<1>8. QED
  BY <1>6, <1>7

\* One page more leaves everything in step, if the spare table has not been put to
\* use already when the last entry of a table is filled.
LEMMA OnePageKeepsStep ==
    ASSUME first \in Slot, NEW k, InStep(k), k.next < MaxPage,
           NEW s, IsSpare(k, s), k.pt_index = ENTRIES - 1 => s # k.pt
    PROVE  /\ InStep(OnePage(k, s)) /\ SpareReady(OnePage(k, s))
           /\ OnePage(k, s).next = k.next + 1 /\ OnePage(k, s).new_pt = s
           /\ PagesLeft(OnePage(k, s), s) = PagesLeft(k, s) - 1
           /\ \A d \in Dir : OnePage(k, s).dir[d] \in {k.dir[d], s}
<1> DEFINE b == OnePage(k, s)
           N == ENTRIES
           i == k.pt_index
           pd == k.pd_index
<1>1. /\ k \in AllocatorState /\ s \in Page /\ s <= k.next
      /\ k.next \in Nat /\ i \in Slot /\ pd \in Dir /\ pd \in Nat /\ i \in Nat
      /\ pd * N + i = k.next /\ k.dir \in [Dir -> Page \cup {Boot, None}]
      /\ k.entry \in [Table -> [Slot -> Page \cup {None}]] /\ k.pt \in Table
      /\ k.pt \in Page \cup {Boot}
  BY TableLength DEF InStep, AllocatorState, IsSpare, Slot, Dir, Table
<1>2. N \in Nat /\ N > 1 /\ MaxPage \in Nat
  BY EntriesAssumption, TableLength
<1>3. ASSUME i = N - 1 PROVE pd + 1 \in Dir /\ (pd + 1) * N + 0 = k.next + 1
  <2>1. (pd + 1) * N = pd * N + N /\ pd * N \in Nat
    BY <1>1, <1>2
  <2> DEFINE c == pd * N
             d == (pd + 1) * N
  <2>2. d = c + N /\ c + i = k.next /\ c \in Nat
    BY <1>1, <2>1
  <2> HIDE DEF c, d
  <2>3. d + 0 = k.next + 1
    BY <1>1, <1>2, <1>3, <2>2
  <2>4. (pd + 1) * N + 0 = k.next + 1
    BY <2>3 DEF d
  <2>5. 0 \in Slot /\ pd + 1 \in Nat
    BY <1>1, <1>2 DEF Slot
  <2>6. (k.next + 1) \div N = pd + 1
    BY <2>4, <2>5, EntryOf, Zenon
  <2>7. k.next + 1 \in Nat /\ k.next + 1 <= MaxPage
    BY <1>1, <1>2
  <2>8. QED
    BY <2>4, <2>6, <2>7, EntryOfPage, Zenon
<1>4. /\ b \in AllocatorState
      /\ b.next = k.next + 1 /\ b.new_pt = s
      /\ b.entry = [k.entry EXCEPT ![k.pt][i] = k.next]
      /\ i = N - 1 => /\ b.pt_index = 0 /\ b.pt = s /\ b.pd_index = pd + 1
                      /\ b.dir = [k.dir EXCEPT ![pd + 1] = s]
      /\ i # N - 1 => /\ b.pt_index = i + 1 /\ b.pt = k.pt /\ b.pd_index = pd /\ b.dir = k.dir
  BY <1>1, <1>3, FieldsOfOnePage
<1> HIDE DEF b
<1>5. b.pd_index * N + b.pt_index = b.next
  <2>1. CASE i = N - 1
    BY <1>3, <1>4, <2>1, Zenon
  <2>2. CASE i # N - 1
    <3> DEFINE c == pd * N
    <3>1. c \in Nat /\ c + i = k.next
      BY <1>1, <1>2
    <3> HIDE DEF c
    <3>2. c + (i + 1) = k.next + 1
      BY <1>1, <3>1
    <3>3. QED
      BY <1>4, <2>2, <3>2 DEF c
  <2>3. QED
    BY <2>1, <2>2
\* The directory.
<1>6. /\ k.dir[pd] = k.pt /\ k.pt # None
      /\ \A d \in Dir : k.dir[d] = None <=> d > pd
      /\ \A c, d \in Dir : k.dir[c] = k.dir[d] /\ k.dir[c] # None => c = d
      /\ \A d \in Dir : k.dir[d] \in Page => k.dir[d] < k.next
      /\ \A d \in Dir : k.dir[d] = s => d = pd
      /\ s # None /\ s # Boot
  BY <1>1 DEF InStep, IsSpare, Page, None, Boot
<1>7. /\ i = N - 1 => \A d \in Dir : b.dir[d] = IF d = pd + 1 THEN s ELSE k.dir[d]
      /\ i # N - 1 => \A d \in Dir : b.dir[d] = k.dir[d]
      /\ i = N - 1 => k.dir[pd] # s
  BY <1>1, <1>4, <1>6
<1>8. \A d \in Dir : b.dir[d] \in {k.dir[d], s}
  BY <1>7, Zenon
<1>9. b.dir[b.pd_index] = b.pt
  BY <1>1, <1>3, <1>4, <1>6, <1>7
<1>10. \A d \in Dir : b.dir[d] = None <=> d > b.pd_index
  <2>1. \A d \in Dir : d \in Nat
    BY <1>2 DEF Dir
  <2>2. CASE i = N - 1
    <3>1. \A d \in Dir : d > pd + 1 <=> d > pd /\ d # pd + 1
      BY <1>1, <2>1
    <3>2. QED
      BY <1>4, <1>6, <1>7, <2>2, <3>1, Zenon
  <2>3. CASE i # N - 1
    BY <1>4, <1>6, <1>7, <2>3, Zenon
  <2>4. QED
    BY <2>2, <2>3
<1>11. \A d \in Dir : b.dir[d] = s => d = b.pd_index
  BY <1>4, <1>6, <1>7
<1>12. \A c, d \in Dir : b.dir[c] = b.dir[d] /\ b.dir[c] # None => c = d
  <2>1. CASE i = N - 1
    <3>1. SUFFICES ASSUME NEW c \in Dir, NEW d \in Dir, b.dir[c] = b.dir[d], b.dir[c] # None PROVE c = d
      BY Zenon
    <3>2. CASE b.dir[c] = s
      BY <1>11, <3>1, <3>2, Zenon
    <3>3. CASE b.dir[c] # s
      BY <1>6, <1>7, <2>1, <3>1, <3>3, Zenon
    <3>4. QED
      BY <3>2, <3>3
  <2>2. CASE i # N - 1
    <3>1. \A d \in Dir : b.dir[d] = k.dir[d]
      BY <1>7, <2>2, Zenon
    <3>2. SUFFICES ASSUME NEW c \in Dir, NEW d \in Dir, b.dir[c] = b.dir[d], b.dir[c] # None PROVE c = d
      BY Zenon
    <3>3. k.dir[c] = k.dir[d] /\ k.dir[c] # None
      BY <3>1, <3>2, Zenon
    <3>4. QED
      BY <1>6, <3>3, Zenon
  <2>3. QED
    BY <2>1, <2>2
<1>13. \A d \in Dir : b.dir[d] \in Page => b.dir[d] < b.next
  <2>1. SUFFICES ASSUME NEW d \in Dir, b.dir[d] \in Page PROVE b.dir[d] < b.next
    BY Zenon
  <2>2. CASE b.dir[d] = s
    BY <1>1, <1>4, <2>2 DEF Page
  <2>3. CASE b.dir[d] = k.dir[d]
    BY <1>1, <1>4, <1>6, <2>1, <2>3 DEF Page
  <2>4. QED
    BY <1>8, <2>2, <2>3
\* The tables: the entry filled is that of the new page, and no other page has it.
<1>14. ASSUME NEW p \in first .. b.next - 1 PROVE Walk(b, p) = p
  <2> DEFINE d == p \div N
             j == p % N
  <2>1. p \in Nat /\ p <= k.next
    BY <1>1, <1>4 DEF Slot
  <2>2. p <= MaxPage
    BY <1>1, <1>2, <2>1
  <2>3. d \in Dir /\ j \in Slot /\ p = d * N + j /\ d \in Nat
    BY <2>1, <2>2, EntryOfPage, Zenon
  <2>4. k.next \div N = pd /\ k.next % N = i
    <3>1. (pd * N + i) \div N = pd /\ (pd * N + i) % N = i
      BY <1>1, EntryOf, Zenon
    <3>2. pd * N + i = k.next
      BY <1>1, Zenon
    <3>3. QED
      BY <3>1, <3>2, Zenon
  <2>5. d <= pd
    BY <1>1, <2>1, <2>4, TablesInOrder, Zenon
  <2>6. k.dir[d] # None /\ b.dir[d] = k.dir[d]
    <3>1. ~ (d > pd)
      BY <1>1, <2>3, <2>5
    <3>2. d # pd + 1
      BY <1>1, <2>3, <2>5
    <3>3. QED
      BY <1>6, <1>7, <2>3, <3>1, <3>2, Zenon
  <2>7. Walk(b, p) = b.entry[k.dir[d]][j]
    BY <2>6 DEF Walk
  <2>8. k.dir[d] \in Table
    BY <1>1, <2>3, <2>6 DEF Table
  <2> HIDE DEF d, j
  <2>9. CASE p = k.next
    <3>1. d = pd /\ j = i
      BY <2>4, <2>9 DEF d, j
    <3>2. b.entry[k.pt][i] = k.next
      BY <1>1, <1>4
    <3>3. QED
      BY <1>6, <2>7, <2>9, <3>1, <3>2, Zenon
  <2>10. CASE p # k.next
    <3>1. ~ (d = pd /\ j = i)
      BY <1>1, <2>3, <2>10, Zenon
    <3>2. k.dir[d] = k.pt => d = pd
      BY <1>1, <1>6, <2>3, <2>6, Zenon
    <3>3. ~ (k.dir[d] = k.pt /\ j = i)
      BY <3>1, <3>2, Zenon
    <3>4. b.entry[k.dir[d]][j] = k.entry[k.dir[d]][j]
      BY <1>1, <1>4, <2>3, <2>8, <3>3
    <3>5. Walk(k, p) = k.entry[k.dir[d]][j]
      BY <2>6 DEF Walk, d, j
    <3>6. p \in first .. k.next - 1
      BY <1>1, <2>1, <2>10 DEF Slot
    <3>7. Walk(k, p) = p
      BY <3>6 DEF InStep
    <3>8. QED
      BY <2>7, <3>4, <3>5, <3>7, Zenon
  <2>11. QED
    BY <2>9, <2>10
<1>15. InStep(b)
  BY <1>4, <1>5, <1>9, <1>10, <1>12, <1>13, <1>14, Zenon DEF InStep
<1>16. SpareReady(b)
  <2>1. s <= b.next /\ s < b.next
    BY <1>1, <1>4 DEF Page
  <2>2. QED
    BY <1>1, <1>4, <1>11, <2>1, Zenon DEF SpareReady, IsSpare
<1>17. PagesLeft(b, s) = PagesLeft(k, s) - 1
  <2>1. CASE i = N - 1
    BY <1>1, <1>2, <1>4, <1>6, <1>7, <2>1 DEF PagesLeft
  <2>2. CASE i # N - 1
    <3>1. b.pt = k.pt /\ b.pt_index = i + 1
      BY <1>4, <2>2
    <3>2. N - 1 - (i + 1) = (N - 1 - i) - 1 /\ N + (N - 1 - (i + 1)) = (N + (N - 1 - i)) - 1
      BY <1>1, <1>2
    <3>3. QED
      BY <3>1, <3>2, Zenon DEF PagesLeft
  <2>3. QED
    BY <2>1, <2>2
<1>18. QED
  BY <1>4, <1>8, <1>15, <1>16, <1>17 DEF b

-----------------------------------------------------------------------------
(***************************************************************************)
(* The loops.  They are defined as recursive functions, which have to be   *)
(* shown to exist first.                                                   *)
(***************************************************************************)

\* The machines page_allocate_kernel_linear's loop goes through.
LEMMA AllocateLoop ==
    ASSUME NEW k, NEW n \in Nat
    PROVE  \E f : /\ AllocatePages(k, n) = f[n] /\ f[0] = k
                  /\ \A i \in 1 .. n :
                        f[i] = paging_increment_kernel_page_index(paging_allocate_single(f[i - 1]))
<1> DEFINE Step(b) == paging_increment_kernel_page_index(paging_allocate_single(b))
<1> HIDE DEF Step
<1> DEFINE Loop(f, m) == f = [i \in 0 .. m |-> IF i = 0 THEN k ELSE Step(f[i - 1])]
           bad == {m \in 0 .. n : ~ \E f : Loop(f, m)}
<1>1. Loop([i \in 0 .. 0 |-> k], 0)
  OBVIOUS
<1>2. ASSUME NEW m \in 1 .. n, NEW g, Loop(g, m - 1) PROVE \E f : Loop(f, m)
  <2> DEFINE f == [i \in 0 .. m |-> IF i = m THEN Step(g[m - 1]) ELSE g[i]]
  <2>1. m \in Nat /\ m # 0 /\ m - 1 \in 0 .. m - 1
    OBVIOUS
  <2>2. \A i \in 0 .. m - 1 : f[i] = g[i]
    BY <2>1
  <2>3. ASSUME NEW i \in 0 .. m PROVE f[i] = IF i = 0 THEN k ELSE Step(f[i - 1])
    <3>1. CASE i = m
      BY <2>1, <2>2, <3>1
    <3>2. CASE i # m
      <4>1. i \in 0 .. m - 1 /\ (i # 0 => i - 1 \in 0 .. m - 1)
        BY <2>1, <3>2
      <4>2. g[i] = IF i = 0 THEN k ELSE Step(g[i - 1])
        BY <1>2, <4>1
      <4>3. QED
        BY <2>2, <4>1, <4>2, Zenon
    <3>3. QED
      BY <3>1, <3>2
  <2>4. f = [i \in 0 .. m |-> f[i]]
    OBVIOUS
  <2> HIDE DEF f
  <2>5. Loop(f, m)
    BY <2>3, <2>4
  <2>6. QED
    BY <2>5
<1> HIDE DEF Loop
<1>3. bad = {}
  <2>1. SUFFICES ASSUME bad # {} PROVE FALSE
    OBVIOUS
  <2>2. bad \in SUBSET Nat
    OBVIOUS
  <2>3. PICK m \in bad : \A l \in bad : m <= l
    BY <2>1, <2>2, LeastExists
  <2>4. m # 0
    BY <1>1
  <2>5. m \in 1 .. n /\ m - 1 \in 0 .. n /\ m - 1 \notin bad
    BY <2>3, <2>4
  <2>6. QED
    BY <1>2, <2>3, <2>5
<1>4. n \in 0 .. n
  OBVIOUS
<1>5. \E f : Loop(f, n)
  BY <1>3, <1>4
<1> DEFINE after == CHOOSE f : Loop(f, n)
<1>6. Loop(after, n)
  BY <1>5, Zenon
<1>7. AllocatePages(k, n) = after[n]
  BY DEF AllocatePages, Loop, Step
<1> HIDE DEF after
<1>8. after[0] = k /\ \A i \in 1 .. n : after[i] = Step(after[i - 1])
  BY <1>6 DEF Loop
<1>9. QED
  BY <1>7, <1>8 DEF Step

\* A page of page_allocate_kernel_mmio's loop.
MapStep(b) ==
    paging_increment_kernel_page_index(
        [b EXCEPT !.entry[b.dir[b.next \div ENTRIES]][b.next % ENTRIES] = b.next, !.next = @ + 1])

\* The machines that loop goes through.
LEMMA MapLoop ==
    ASSUME NEW k, NEW n \in Nat
    PROVE  \E f : /\ MapPages(k, n) = f[n] /\ f[0] = k
                  /\ \A i \in 1 .. n : f[i] = MapStep(f[i - 1])
<1> DEFINE Loop(f, m) == f = [i \in 0 .. m |-> IF i = 0 THEN k ELSE MapStep(f[i - 1])]
           bad == {m \in 0 .. n : ~ \E f : Loop(f, m)}
<1>1. Loop([i \in 0 .. 0 |-> k], 0)
  OBVIOUS
<1>2. ASSUME NEW m \in 1 .. n, NEW g, Loop(g, m - 1) PROVE \E f : Loop(f, m)
  <2> DEFINE f == [i \in 0 .. m |-> IF i = m THEN MapStep(g[m - 1]) ELSE g[i]]
  <2>1. m \in Nat /\ m # 0 /\ m - 1 \in 0 .. m - 1
    OBVIOUS
  <2>2. \A i \in 0 .. m - 1 : f[i] = g[i]
    BY <2>1
  <2>3. ASSUME NEW i \in 0 .. m PROVE f[i] = IF i = 0 THEN k ELSE MapStep(f[i - 1])
    <3>1. CASE i = m
      BY <2>1, <2>2, <3>1
    <3>2. CASE i # m
      <4>1. i \in 0 .. m - 1 /\ (i # 0 => i - 1 \in 0 .. m - 1)
        BY <2>1, <3>2
      <4>2. g[i] = IF i = 0 THEN k ELSE MapStep(g[i - 1])
        BY <1>2, <4>1
      <4>3. QED
        BY <2>2, <4>1, <4>2, Zenon
    <3>3. QED
      BY <3>1, <3>2
  <2>4. f = [i \in 0 .. m |-> f[i]]
    OBVIOUS
  <2> HIDE DEF f
  <2>5. Loop(f, m)
    BY <2>3, <2>4
  <2>6. QED
    BY <2>5
<1> HIDE DEF Loop
<1>3. bad = {}
  <2>1. SUFFICES ASSUME bad # {} PROVE FALSE
    OBVIOUS
  <2>2. bad \in SUBSET Nat
    OBVIOUS
  <2>3. PICK m \in bad : \A l \in bad : m <= l
    BY <2>1, <2>2, LeastExists
  <2>4. m # 0
    BY <1>1
  <2>5. m \in 1 .. n /\ m - 1 \in 0 .. n /\ m - 1 \notin bad
    BY <2>3, <2>4
  <2>6. QED
    BY <1>2, <2>3, <2>5
<1>4. n \in 0 .. n
  OBVIOUS
<1>5. \E f : Loop(f, n)
  BY <1>3, <1>4
<1> DEFINE after == CHOOSE f : Loop(f, n)
<1>6. Loop(after, n)
  BY <1>5, Zenon
<1>7. MapPages(k, n) = after[n]
  BY DEF MapPages, Loop, MapStep
<1> HIDE DEF after
<1>8. after[0] = k /\ \A i \in 1 .. n : after[i] = MapStep(after[i - 1])
  BY <1>6 DEF Loop
<1>9. QED
  BY <1>7, <1>8

\* Both loops add one page after the other.
LEMMA StepIsOnePage ==
    ASSUME NEW k, InStep(k), k.next <= MaxPage
    PROVE  /\ paging_increment_kernel_page_index(paging_allocate_single(k)) = OnePage(k, k.new_pt)
           /\ MapStep(k) = OnePage(k, k.new_pt)
<1>1. /\ k.next \in Nat /\ k.pt_index \in Slot /\ k.pd_index \in Nat
      /\ k = [next |-> k.next, pt_index |-> k.pt_index, pd_index |-> k.pd_index, pt |-> k.pt,
              new_pt |-> k.new_pt, entry |-> k.entry, dir |-> k.dir]
      /\ k.pd_index * ENTRIES + k.pt_index = k.next /\ k.dir[k.pd_index] = k.pt
  BY TableLength DEF InStep, AllocatorState, Dir
<1>2. paging_allocate_single(k) = [paging_allocate_single(k) EXCEPT !.new_pt = k.new_pt]
  <2> DEFINE e == [k.entry EXCEPT ![k.pt][k.pt_index] = k.next]
  <2>1. paging_allocate_single(k) = [k EXCEPT !.entry = e, !.next = k.next + 1]
    BY <1>1 DEF paging_allocate_single
  <2> HIDE DEF e
  <2>2. paging_allocate_single(k)
          = [next |-> k.next + 1, pt_index |-> k.pt_index, pd_index |-> k.pd_index, pt |-> k.pt,
             new_pt |-> k.new_pt, entry |-> e, dir |-> k.dir]
    BY <1>1, <2>1
  <2>3. QED
    BY <2>2
<1>3. k.next \div ENTRIES = k.pd_index /\ k.next % ENTRIES = k.pt_index
  <2>1. /\ (k.pd_index * ENTRIES + k.pt_index) \div ENTRIES = k.pd_index
        /\ (k.pd_index * ENTRIES + k.pt_index) % ENTRIES = k.pt_index
    BY <1>1, EntryOf, Zenon
  <2>2. k.pd_index * ENTRIES + k.pt_index = k.next
    BY <1>1, Zenon
  <2>3. QED
    BY <2>1, <2>2, Zenon
<1>4. MapStep(k) = paging_increment_kernel_page_index(paging_allocate_single(k))
  <2>1. k.dir[k.next \div ENTRIES] = k.pt
    BY <1>1, <1>3, Zenon
  <2>2. [k EXCEPT !.entry[k.dir[k.next \div ENTRIES]][k.next % ENTRIES] = k.next, !.next = @ + 1]
          = paging_allocate_single(k)
    BY <1>3, <2>1, Zenon DEF paging_allocate_single
  <2>3. QED
    BY <2>2, Zenon DEF MapStep
<1>5. QED
  BY <1>2, <1>4, Zenon DEF OnePage

\* What a number of pages changes.
After(k, n, b) ==
    /\ InStep(b) /\ SpareReady(b)
    /\ b.next = k.next + n /\ b.new_pt = k.new_pt
    /\ PagesLeft(b, b.new_pt) = PagesLeft(k, k.new_pt) - n
    /\ \A d \in Dir : b.dir[d] \in {k.dir[d], k.new_pt}

LEMMA OnePageAfter ==
    ASSUME first \in Slot, NEW k, InStep(k), NEW i \in Nat, NEW b, After(k, i, b),
           i < PagesLeft(k, k.new_pt), k.next + i < MaxPage
    PROVE  After(k, i + 1, OnePage(b, b.new_pt))
<1> DEFINE s == b.new_pt
<1>1. /\ InStep(b) /\ SpareReady(b) /\ b.next = k.next + i /\ s = k.new_pt
      /\ PagesLeft(b, s) = PagesLeft(k, s) - i
      /\ \A d \in Dir : b.dir[d] \in {k.dir[d], s}
  BY DEF After
<1>2. k.next \in Nat /\ k.pt_index \in 0 .. ENTRIES - 1 /\ b.pt_index \in 0 .. ENTRIES - 1
  BY <1>1, TableLength DEF InStep, AllocatorState, Slot
<1>3. IsSpare(b, s) /\ b.next < MaxPage
  BY <1>1 DEF SpareReady
<1>4. b.pt_index = ENTRIES - 1 => s # b.pt
  <2>1. PagesLeft(k, s) \in Int
    BY <1>2, TableLength DEF PagesLeft
  <2>2. PagesLeft(b, s) > 0
    BY <1>1, <2>1
  <2>3. QED
    BY <2>2, TableLength DEF PagesLeft
<1> DEFINE c == OnePage(b, s)
<1>5. /\ InStep(c) /\ SpareReady(c) /\ c.next = b.next + 1 /\ c.new_pt = s
      /\ PagesLeft(c, s) = PagesLeft(b, s) - 1
      /\ \A d \in Dir : c.dir[d] \in {b.dir[d], s}
  BY <1>1, <1>3, <1>4, OnePageKeepsStep
<1> HIDE DEF c
<1>6. c.next = k.next + (i + 1)
  BY <1>1, <1>2, <1>5
<1>7. PagesLeft(c, c.new_pt) = PagesLeft(k, k.new_pt) - (i + 1)
  <2>1. PagesLeft(k, s) \in Int
    BY <1>2, TableLength DEF PagesLeft
  <2>2. QED
    BY <1>1, <1>5, <2>1
<1>8. \A d \in Dir : c.dir[d] \in {k.dir[d], k.new_pt}
  BY <1>1, <1>5
<1>9. QED
  BY <1>1, <1>5, <1>6, <1>7, <1>8 DEF After, c

\* A loop that adds a page each time, as long as the tables suffice.
LEMMA LoopKeepsStep ==
    ASSUME first \in Slot, NEW k, InStep(k), SpareReady(k),
           NEW n \in Nat, n <= PagesLeft(k, k.new_pt), k.next + n <= MaxPage,
           NEW f, f[0] = k,
           \A i \in 1 .. n : InStep(f[i - 1]) => f[i] = OnePage(f[i - 1], f[i - 1].new_pt)
    PROVE  After(k, n, f[n])
<1> DEFINE bad == {i \in 0 .. n : ~ After(k, i, f[i])}
<1>1. k.next \in Nat /\ PagesLeft(k, k.new_pt) \in Int
  BY TableLength DEF InStep, AllocatorState, PagesLeft, Slot
<1>2. After(k, 0, f[0])
  BY <1>1 DEF After
<1>3. ASSUME NEW i \in 1 .. n, After(k, i - 1, f[i - 1]) PROVE After(k, i, f[i])
  <2>1. i - 1 \in Nat /\ (i - 1) + 1 = i /\ i - 1 < PagesLeft(k, k.new_pt) /\ k.next + (i - 1) < MaxPage
    BY <1>1, TableLength
  <2>2. After(k, (i - 1) + 1, OnePage(f[i - 1], f[i - 1].new_pt))
    BY <1>3, <2>1, OnePageAfter
  <2>3. f[i] = OnePage(f[i - 1], f[i - 1].new_pt)
    BY <1>3 DEF After
  <2>4. QED
    BY <2>1, <2>2, <2>3, Zenon
<1>4. bad = {}
  <2>1. SUFFICES ASSUME bad # {} PROVE FALSE
    OBVIOUS
  <2>2. bad \in SUBSET Nat
    OBVIOUS
  <2>3. PICK i \in bad : \A j \in bad : i <= j
    BY <2>1, <2>2, LeastExists
  <2>4. i # 0
    BY <1>2
  <2>5. i \in 1 .. n /\ i - 1 \in 0 .. n /\ i - 1 \notin bad
    BY <2>3, <2>4
  <2>6. QED
    BY <1>3, <2>3, <2>5
<1>5. n \in 0 .. n
  OBVIOUS
<1>6. QED
  BY <1>4, <1>5

-----------------------------------------------------------------------------
(***************************************************************************)
(* The calls.                                                              *)
(***************************************************************************)

\* After the start of page_allocate_kernel_linear there is room for a call.
LEMMA SetAsideKeepsStep ==
    ASSUME first \in Slot, NEW k, InStep(k), SpareReady(k), k.next < MaxPage
    PROVE  /\ InStep(SetAside(k)) /\ SpareReady(SetAside(k))
           /\ SetAside(k).next \in {k.next, k.next + 1}
           /\ SetAside(k).new_pt \in {k.new_pt, k.next}
           /\ PagesLeft(SetAside(k), SetAside(k).new_pt) >= ENTRIES - 1
           /\ \A d \in Dir : SetAside(k).dir[d] \in {k.dir[d], SetAside(k).new_pt}
<1> DEFINE b == SetAside(k)
<1>1. /\ k.next \in Page /\ k.next \in Nat /\ k.pt_index \in 0 .. ENTRIES - 1 /\ k.pd_index \in Dir
      /\ k.dir[k.pd_index] = k.pt /\ k.pt \in Page \cup {Boot}
      /\ \A d \in Dir : k.dir[d] \in Page => k.dir[d] < k.next
  BY TableLength DEF InStep, AllocatorState, Page, Slot
<1>2. CASE k.pt = k.new_pt
  <2> DEFINE s == k.next
  <2>1. b = OnePage(k, s)
    BY <1>2 DEF SetAside, OnePage
  <2>2. \A d \in Dir : k.dir[d] # s
    BY <1>1
  <2>3. IsSpare(k, s)
    BY <1>1, <2>2 DEF IsSpare
  <2>4. s # k.pt
    BY <1>1, <2>2
  <2>5. /\ InStep(b) /\ SpareReady(b) /\ b.next = k.next + 1 /\ b.new_pt = s
        /\ PagesLeft(b, s) = PagesLeft(k, s) - 1
        /\ \A d \in Dir : b.dir[d] \in {k.dir[d], s}
    BY <2>1, <2>3, <2>4, OnePageKeepsStep
  <2>6. PagesLeft(b, s) >= ENTRIES - 1
    BY <1>1, <2>4, <2>5, TableLength DEF PagesLeft
  <2>7. QED
    BY <2>5, <2>6
<1>3. CASE k.pt # k.new_pt
  <2>1. b = k
    BY <1>3 DEF SetAside
  <2>2. PagesLeft(k, k.new_pt) >= ENTRIES - 1
    BY <1>1, <1>3, TableLength DEF PagesLeft
  <2>3. QED
    BY <2>1, <2>2
<1>4. QED
  BY <1>2, <1>3

\* The allocator is in step, its spare table is ready, and what callers own, o, is
\* apart from the tables.
GoodPages(k, o) ==
    /\ InStep(k) /\ SpareReady(k) /\ first <= k.next
    /\ o \subseteq first .. k.next - 1
    /\ \A d \in Dir : k.dir[d] \notin o
    /\ k.new_pt \notin o

PagesInv == first \in Start /\ GoodPages(kernel, owned)

LEMMA StartFits == first \in Start => first \in Slot /\ first \in Nat
  BY StartAssumption, TableLength DEF Slot

\* The n pages of a call.
Pages(a, n) == {a + i : i \in 0 .. n - 1}

\* What a call makes of k, whose callers owned o: c, and the n pages from a on.
HandsOut(k, o, a, n, c) ==
    /\ GoodPages(c, o \cup Pages(a, n))
    /\ c.next = a + n
    /\ c.new_pt \in {k.new_pt, k.next}
    /\ \A d \in Dir : c.dir[d] \in {k.dir[d], c.new_pt}

\* The n pages from the machine b on are handed out to callers.
LEMMA HandedOut ==
    ASSUME first \in Slot, NEW k, NEW o, GoodPages(k, o), NEW n \in Nat,
           NEW b, InStep(b), SpareReady(b), b.next >= k.next,
           b.new_pt \in {k.new_pt, k.next},
           \A d \in Dir : b.dir[d] \in {k.dir[d], b.new_pt},
           NEW c, After(b, n, c)
    PROVE  HandsOut(k, o, b.next, n, c)
<1> DEFINE fresh == Pages(b.next, n)
           w == o \cup fresh
<1>1. /\ b.next \in Nat /\ k.next \in Nat /\ c.next = b.next + n
      /\ c.next \in 0 .. MaxPage /\ InStep(c) /\ SpareReady(c)
      /\ c.new_pt = b.new_pt
      /\ \A d \in Dir : c.dir[d] \in {b.dir[d], b.new_pt}
      /\ b.dir \in [Dir -> Page \cup {Boot, None}] /\ b.new_pt \in Page
      /\ k.dir \in [Dir -> Page \cup {Boot, None}]
      /\ b.new_pt < b.next
  BY TableLength DEF After, InStep, AllocatorState, GoodPages, SpareReady, IsSpare
<1>2. o \subseteq first .. k.next - 1 /\ first \in Nat /\ first <= k.next
  BY TableLength DEF GoodPages, Slot
<1>3. \A p \in fresh : p \in Nat /\ p >= b.next /\ p < c.next
  BY <1>1, TableLength DEF Pages
<1> HIDE DEF fresh
<1>4. w \subseteq first .. c.next - 1 /\ first <= c.next
  <2>1. \A p \in o : p \in first .. c.next - 1
    BY <1>1, <1>2
  <2>2. \A p \in fresh : p \in first .. c.next - 1
    BY <1>1, <1>2, <1>3
  <2>3. first <= c.next
    BY <1>1, <1>2
  <2>4. QED
    BY <2>1, <2>2, <2>3, Zenon
<1>5. b.new_pt \notin w
  <2>1. b.new_pt \notin o
    BY <1>1, <1>2 DEF GoodPages
  <2>2. b.new_pt \notin fresh
    BY <1>1, <1>3 DEF Page
  <2>3. QED
    BY <2>1, <2>2 DEF fresh
<1>6. ASSUME NEW d \in Dir PROVE c.dir[d] \notin w /\ c.dir[d] \in {k.dir[d], c.new_pt}
  <2>1. c.dir[d] = b.new_pt \/ c.dir[d] = k.dir[d]
    BY <1>1
  <2>2. CASE c.dir[d] = b.new_pt
    BY <1>1, <1>5, <2>2
  <2>3. CASE c.dir[d] = k.dir[d]
    <3>1. k.dir[d] \notin o
      BY DEF GoodPages
    <3>2. k.dir[d] \in Page => k.dir[d] < k.next
      BY DEF GoodPages, InStep
    <3>3. k.dir[d] \notin fresh
      <4>1. k.dir[d] \in fresh => k.dir[d] \in Page
        BY <1>1, <1>3, TableLength DEF Page
      <4>2. k.dir[d] \in fresh => k.dir[d] \in Nat /\ k.dir[d] >= b.next
        BY <1>3
      <4>3. QED
        BY <1>1, <3>2, <4>1, <4>2
    <3>4. QED
      BY <2>3, <3>1, <3>3 DEF fresh
  <2>4. QED
    BY <2>1, <2>2, <2>3
<1>7. GoodPages(c, w)
  BY <1>1, <1>4, <1>5, <1>6 DEF GoodPages
<1> QED
  BY <1>1, <1>6, <1>7 DEF fresh, HandsOut

\* page_allocate_kernel_linear, for a call that fits into the spare table: a spare
\* table is set aside, perhaps, and then come the caller's pages.
LEMMA LinearKeepsGood ==
    ASSUME first \in Slot, NEW k, NEW o, GoodPages(k, o), NEW n \in 1 .. ENTRIES - 1,
           k.next + n + 1 < MaxPage, NEW c, c = page_allocate_kernel_linear(k, n)
    PROVE  /\ HandsOut(k, o, ReturnedFrom(k), n, c)
           /\ ReturnedFrom(k) \in {k.next, k.next + 1}
<1> DEFINE b == SetAside(k)
<1>1. k.next \in Nat /\ n \in Nat /\ InStep(k) /\ SpareReady(k) /\ k.next < MaxPage
  BY TableLength DEF GoodPages, InStep, AllocatorState
<1>2. /\ InStep(b) /\ SpareReady(b) /\ b.next \in {k.next, k.next + 1}
      /\ b.new_pt \in {k.new_pt, k.next}
      /\ PagesLeft(b, b.new_pt) >= ENTRIES - 1
      /\ \A d \in Dir : b.dir[d] \in {k.dir[d], b.new_pt}
  BY <1>1, SetAsideKeepsStep
<1>3. c = AllocatePages(b, n) /\ ReturnedFrom(k) = b.next
  BY DEF page_allocate_kernel_linear, ReturnedFrom
<1> HIDE DEF b
<1>4. n <= PagesLeft(b, b.new_pt) /\ b.next + n <= MaxPage /\ b.next >= k.next
  <2>1. n <= ENTRIES - 1
    BY TableLength
  <2>2. PagesLeft(b, b.new_pt) \in Int
    BY <1>2, TableLength DEF PagesLeft, InStep, AllocatorState, Slot
  <2>3. QED
    BY <1>1, <1>2, <2>1, <2>2, TableLength
<1>5. PICK f : /\ AllocatePages(b, n) = f[n] /\ f[0] = b
               /\ \A i \in 1 .. n :
                     f[i] = paging_increment_kernel_page_index(paging_allocate_single(f[i - 1]))
  BY <1>1, AllocateLoop
<1>6. ASSUME NEW i \in 1 .. n, InStep(f[i - 1]) PROVE f[i] = OnePage(f[i - 1], f[i - 1].new_pt)
  <2>1. f[i - 1].next <= MaxPage
    BY <1>6, TableLength DEF InStep, AllocatorState
  <2>2. QED
    BY <1>5, <1>6, <2>1, StepIsOnePage
<1>7. After(b, n, c)
  <2>1. After(b, n, f[n])
    BY <1>1, <1>2, <1>4, <1>5, <1>6, LoopKeepsStep
  <2>2. QED
    BY <1>3, <1>5, <2>1
<1>8. HandsOut(k, o, b.next, n, c)
  BY <1>1, <1>2, <1>4, <1>7, HandedOut
<1> QED
  BY <1>2, <1>3, <1>8

\* page_allocate_kernel_mmio, for a call that does not meet the end of the table.
LEMMA MmioKeepsGood ==
    ASSUME first \in Slot, NEW k, NEW o, GoodPages(k, o), NEW n \in Nat,
           k.next + n + 1 < MaxPage, ~ Crosses(k, n), NEW c, c = page_allocate_kernel_mmio(k, n)
    PROVE  HandsOut(k, o, k.next, n, c)
<1>1. k.next \in Nat /\ InStep(k) /\ SpareReady(k) /\ k.pt_index \in 0 .. ENTRIES - 1
  BY TableLength DEF GoodPages, InStep, AllocatorState, Slot
<1>2. c = MapPages(k, n)
  BY DEF page_allocate_kernel_mmio
<1>3. n <= PagesLeft(k, k.new_pt) /\ k.next + n <= MaxPage
  BY <1>1, TableLength DEF PagesLeft, Crosses
<1>4. PICK f : /\ MapPages(k, n) = f[n] /\ f[0] = k
               /\ \A i \in 1 .. n : f[i] = MapStep(f[i - 1])
  BY MapLoop
<1>5. ASSUME NEW i \in 1 .. n, InStep(f[i - 1]) PROVE f[i] = OnePage(f[i - 1], f[i - 1].new_pt)
  <2>1. f[i - 1].next <= MaxPage
    BY <1>5, TableLength DEF InStep, AllocatorState
  <2>2. QED
    BY <1>4, <1>5, <2>1, StepIsOnePage
<1>6. After(k, n, c)
  <2>1. After(k, n, f[n])
    BY <1>1, <1>3, <1>4, <1>5, LoopKeepsStep
  <2>2. QED
    BY <1>2, <1>4, <2>1
<1>7. k.next >= k.next
  BY <1>1
<1>8. k.new_pt \in {k.new_pt, k.next} /\ \A d \in Dir : k.dir[d] \in {k.dir[d], k.new_pt}
  OBVIOUS
<1>9. InStep(k) /\ SpareReady(k)
  BY <1>1
<1> QED
  BY <1>6, <1>7, <1>8, <1>9, HandedOut

\* Both calls as steps of the allocator.
LEMMA CallKeepsInv ==
    ASSUME CallsFit, PagesInv, NEW n \in 1 .. MaxCall, AllocateLinear(n) \/ AllocateMmio(n)
    PROVE  PagesInv'
<1>1. /\ first \in Slot /\ GoodPages(kernel, owned) /\ n \in 1 .. ENTRIES - 1 /\ n \in Nat
      /\ kernel.next + n + 1 < MaxPage /\ UNCHANGED first /\ first \in Start
  BY StartFits, CallAssumption, TableLength
     DEF PagesInv, CallsFit, AllocateLinear, AllocateMmio, Fits
<1>2. CASE AllocateLinear(n)
  <2>1. GoodPages(kernel', owned')
    BY <1>1, <1>2, LinearKeepsGood DEF AllocateLinear, Pages, HandsOut
  <2>2. QED
    BY <1>1, <2>1 DEF PagesInv, GoodPages, InStep, SpareReady, IsSpare, Walk
<1>3. CASE AllocateMmio(n)
  <2>1. GoodPages(kernel', owned')
    BY <1>1, <1>3, MmioKeepsGood DEF AllocateMmio, CallsFit, Pages, HandsOut
  <2>2. QED
    BY <1>1, <2>1 DEF PagesInv, GoodPages, InStep, SpareReady, IsSpare, Walk
<1> QED
  BY <1>2, <1>3

\* The loop for a single page.
LEMMA LoopOfOne ==
    ASSUME NEW k
    PROVE  AllocatePages(k, 1) = paging_increment_kernel_page_index(paging_allocate_single(k))
<1>1. PICK f : /\ AllocatePages(k, 1) = f[1] /\ f[0] = k
               /\ \A i \in 1 .. 1 :
                     f[i] = paging_increment_kernel_page_index(paging_allocate_single(f[i - 1]))
  <2>1. 1 \in Nat
    OBVIOUS
  <2>2. QED
    BY <2>1, AllocateLoop
<1>2. 1 \in 1 .. 1 /\ 1 - 1 = 0
  OBVIOUS
<1>3. f[1] = paging_increment_kernel_page_index(paging_allocate_single(f[1 - 1]))
  BY <1>1, <1>2, Zenon
<1>4. QED
  BY <1>1, <1>2, <1>3, Zenon

\* paging_initalize: a page for the spare table, then one for the spare directory.
LEMMA InitPages == ASSUME CallsFit, Init PROVE PagesInv
<1> DEFINE noEntries == [t \in Table |-> [i \in Slot |-> None]]
           noTables == [d \in Dir |-> IF d = 0 THEN Boot ELSE None]
           k0 == [next |-> first, pt_index |-> first, pd_index |-> 0, pt |-> Boot, new_pt |-> Wild,
                  entry |-> noEntries, dir |-> noTables]
           k1 == [page_allocate_kernel_linear(k0, 1) EXCEPT !.new_pt = first]
<1>1. /\ first \in Start /\ owned = {}
      /\ kernel = page_allocate_kernel_linear(k1, 1)
  BY DEF Init
<1>2. /\ first \in 0 .. ENTRIES - 2 /\ first \in Nat /\ first \in Slot /\ first \in Page
      /\ first + 1 \in 0 .. ENTRIES - 1 /\ first + 1 < MaxPage /\ first # ENTRIES - 1
  <2>1. first \in 0 .. ENTRIES - 2
    BY <1>1 DEF CallsFit
  <2>2. QED
    BY <2>1, EntriesAssumption, MaxPageAssumption DEF Slot, Page
<1>3. 0 \in Dir /\ \A d \in Dir : d \in Nat
  BY TableLength, Division DEF Dir
<1>4. noEntries \in [Table -> [Slot -> Page \cup {None}]] /\ noTables \in [Dir -> Page \cup {Boot, None}]
  OBVIOUS
<1> HIDE DEF noEntries
<1>5. InStep(k0)
  <2>1. k0 \in AllocatorState
    <3>1. first \in 0 .. MaxPage
      BY <1>2, TableLength
    <3>2. QED
      BY <1>2, <1>3, <1>4, <3>1 DEF AllocatorState
  <2>2. 0 * ENTRIES + first = first
    BY <1>2, TableLength
  <2>3. /\ noTables[0] = Boot
        /\ \A d \in Dir : noTables[d] = None <=> d > 0
        /\ \A c, d \in Dir : noTables[c] = noTables[d] /\ noTables[c] # None => c = d
        /\ \A d \in Dir : noTables[d] \notin Page
    BY <1>3 DEF Boot, None, Page
  <2> HIDE DEF noTables
  <2>4. \A p \in first .. first - 1 : FALSE
    BY <1>2
  <2>5. QED
    BY <2>1, <2>2, <2>3, <2>4 DEF InStep
<1>6. IsSpare(k0, first)
  <2>1. \A d \in Dir : noTables[d] # first
    BY <1>2 DEF Boot, None
  <2>2. QED
    BY <1>2, <2>1 DEF IsSpare
<1> HIDE DEF noTables
<1>7. k1 = OnePage(k0, first)
  <2>1. page_allocate_kernel_linear(k0, 1)
          = paging_increment_kernel_page_index(paging_allocate_single(k0))
    <3>1. SetAside(k0) = k0
      BY DEF SetAside, Boot, Wild
    <3>2. QED
      BY <3>1, LoopOfOne DEF page_allocate_kernel_linear
  <2> DEFINE e == [noEntries EXCEPT ![Boot][first] = first]
             a == [next |-> first + 1, pt_index |-> first, pd_index |-> 0, pt |-> Boot,
                   new_pt |-> Wild, entry |-> e, dir |-> noTables]
  <2>2. paging_allocate_single(k0) = a
    <3>1. k0.next = first /\ k0.pt = Boot /\ k0.pt_index = first /\ k0.entry = noEntries
      OBVIOUS
    <3>2. paging_allocate_single(k0) = [k0 EXCEPT !.entry = e, !.next = first + 1]
      BY <3>1 DEF paging_allocate_single
    <3> HIDE DEF e
    <3>3. QED
      BY <3>2
  <2> HIDE DEF e
  <2>3. paging_increment_kernel_page_index(a) = [a EXCEPT !.pt_index = first + 1]
    BY <1>2 DEF paging_increment_kernel_page_index
  <2>4. paging_increment_kernel_page_index([a EXCEPT !.new_pt = first])
          = [[a EXCEPT !.new_pt = first] EXCEPT !.pt_index = first + 1]
    BY <1>2 DEF paging_increment_kernel_page_index
  <2>5. k1 = [[a EXCEPT !.pt_index = first + 1] EXCEPT !.new_pt = first]
    BY <2>1, <2>2, <2>3, Zenon
  <2>6. OnePage(k0, first) = [[a EXCEPT !.new_pt = first] EXCEPT !.pt_index = first + 1]
    BY <2>2, <2>4, Zenon DEF OnePage
  <2> HIDE DEF k1, k0
  <2>7. QED
    BY <2>5, <2>6
<1>8. /\ InStep(k1) /\ SpareReady(k1) /\ k1.next = first + 1 /\ k1.new_pt = first
      /\ k1.pt = Boot /\ k1.pd_index = 0
  <2>1. k0.pt_index = first /\ k0.next = first /\ k0.pt = Boot /\ k0.pd_index = 0 /\ k0 \in AllocatorState
    BY <1>5 DEF InStep
  <2> HIDE DEF k0, k1
  <2>2. k0.next < MaxPage /\ k0.pt_index # ENTRIES - 1
    <3>1. first < MaxPage /\ first # ENTRIES - 1
      BY <1>2, TableLength
    <3>2. QED
      BY <2>1, <3>1, Zenon
  <2>3. /\ InStep(k1) /\ SpareReady(k1) /\ k1.next = k0.next + 1 /\ k1.new_pt = first
    BY <1>2, <1>5, <1>6, <1>7, <2>2, OnePageKeepsStep
  <2>4. k1.pt = k0.pt /\ k1.pd_index = k0.pd_index
    BY <1>2, <1>7, <2>1, <2>2, FieldsOfOnePage
  <2>5. QED
    BY <2>1, <2>3, <2>4
<1> HIDE DEF k1, k0
<1>9. kernel = OnePage(k1, first)
  <2>1. k1.pt # k1.new_pt
    BY <1>2, <1>8 DEF Boot
  <2>2. SetAside(k1) = k1
    BY <2>1 DEF SetAside
  <2>3. kernel = paging_increment_kernel_page_index(paging_allocate_single(k1))
    BY <1>1, <2>2, LoopOfOne DEF page_allocate_kernel_linear
  <2>4. k1.next <= MaxPage
    BY <1>2, <1>8, TableLength
  <2>5. QED
    BY <1>8, <2>3, <2>4, StepIsOnePage
<1>10. InStep(kernel) /\ SpareReady(kernel)
  <2>1. IsSpare(k1, first) /\ first # k1.pt /\ k1.next < MaxPage
    BY <1>2, <1>8 DEF SpareReady, Boot
  <2>2. QED
    BY <1>2, <1>8, <1>9, <2>1, OnePageKeepsStep
<1>11. first <= kernel.next
  <2>1. k1.next \in Nat /\ kernel.next = k1.next + 1
    <3>1. IsSpare(k1, first) /\ first # k1.pt /\ k1.next < MaxPage
      BY <1>2, <1>8 DEF SpareReady, Boot
    <3>2. QED
      BY <1>2, <1>8, <1>9, <3>1, OnePageKeepsStep
  <2>2. QED
    BY <1>2, <1>8, <2>1
<1>12. QED
  BY <1>1, <1>10, <1>11 DEF PagesInv, GoodPages

-----------------------------------------------------------------------------
\* The inductive invariant, for tables of any length, whatever calls are made as
\* long as CallsFit.
THEOREM PagesInvariance == ASSUME CallsFit PROVE Spec => []PagesInv
<1>1. Init => PagesInv
  BY InitPages
<1>2. PagesInv /\ [Next]_vars => PagesInv'
  <2> SUFFICES ASSUME PagesInv, [Next]_vars PROVE PagesInv'
    OBVIOUS
  <2>1. CASE Next
    BY <2>1, CallKeepsInv DEF Next
  <2>2. CASE UNCHANGED vars
    BY <2>2 DEF vars, PagesInv, GoodPages, InStep, SpareReady, IsSpare, Walk
  <2>3. QED
    BY <2>1, <2>2
<1>3. QED
  BY <1>1, <1>2, PTL DEF Spec

LEMMA PagesTyped == PagesInv => TypeOK
<1>1. SUFFICES ASSUME PagesInv PROVE TypeOK
  OBVIOUS
<1>2. InStep(kernel) /\ SpareReady(kernel) /\ first \in Start /\ owned \subseteq Page
  <2>1. kernel.next \in 0 .. MaxPage /\ owned \subseteq first .. kernel.next - 1 /\ first \in Nat
    BY <1>1, StartFits DEF PagesInv, GoodPages, InStep, AllocatorState
  <2>2. owned \subseteq Page
    BY <2>1, TableLength DEF Page
  <2>3. QED
    BY <1>1, <2>2 DEF PagesInv, GoodPages
<1>3. kernel \in AllocatorState
  BY <1>2 DEF InStep
<1>4. kernel.new_pt \in Page
  BY <1>2 DEF SpareReady, IsSpare
<1>5. /\ kernel.next \in 0 .. MaxPage /\ kernel.pt_index \in Slot /\ kernel.pd_index \in Dir
      /\ kernel.pt \in Table /\ kernel.entry \in [Table -> [Slot -> Page \cup {None}]]
  BY <1>3 DEF AllocatorState, Table
<1>6. kernel.dir \in [Dir -> Table \cup {None}]
  <2>1. kernel.dir \in [Dir -> Page \cup {Boot, None}]
    BY <1>3 DEF AllocatorState
  <2>2. QED
    BY <2>1 DEF Table
<1>7. QED
  BY <1>2, <1>4, <1>5, <1>6 DEF TypeOK

LEMMA PagesTrackAddress == PagesInv => IndexTracksAddress
<1>1. SUFFICES ASSUME PagesInv PROVE IndexTracksAddress
  OBVIOUS
<1>2. InStep(kernel)
  BY <1>1 DEF PagesInv, GoodPages
<1>3. kernel.pt \in Page \cup {Boot}
  BY <1>2 DEF InStep, AllocatorState
<1>4. kernel.pt # Wild
  BY <1>3 DEF Page, Boot, Wild
<1>5. QED
  BY <1>1, <1>2, <1>4, PagesTyped DEF InStep, IndexTracksAddress

\* paging_increment_kernel_page_index always finds the table in use where the
\* address says.
THEOREM IndexAlwaysTracksAddress == ASSUME CallsFit PROVE Spec => []IndexTracksAddress
  BY PagesTrackAddress, PagesInvariance, PTL

\* Every page that page_allocate_kernel_linear and page_allocate_kernel_mmio have
\* handed out, those with tables included, is mapped to itself.
THEOREM PagesStayMapped == ASSUME CallsFit PROVE Spec => []EveryPageMapped
<1>1. PagesInv => EveryPageMapped
  BY DEF PagesInv, GoodPages, InStep, EveryPageMapped
<1>2. QED
  BY <1>1, PagesInvariance, PTL

\* No table serves two directory entries, and no caller owns a table.
THEOREM TablesStaySeparate == ASSUME CallsFit PROVE Spec => []TablesAreSeparate
<1>1. PagesInv => TablesAreSeparate
  BY DEF PagesInv, GoodPages, InStep, SpareReady, IsSpare, TablesAreSeparate
<1>2. QED
  BY <1>1, PagesInvariance, PTL

-----------------------------------------------------------------------------
(***************************************************************************)
(* Machines: the allocator and all memory.                                 *)
(***************************************************************************)

\* The pages that callers own and that hold no table.
Data(m) == m.owned \ {m.tables[t] : t \in UserTable}

\* The allocator is in step; pages not yet handed out are zero; user tables are
\* pages of their own, and user addresses lead to pages that hold no table.
Sound(m) ==
    /\ m = [kernel |-> m.kernel, owned |-> m.owned, memory |-> m.memory,
            user |-> m.user, tables |-> m.tables]
    /\ GoodPages(m.kernel, m.owned)
    /\ m.memory = [q \in Page \cup {Low} |-> m.memory[q]]
    /\ \A q \in Page : q >= m.kernel.next => m.memory[q] = Zero
    /\ m.tables \in [UserTable -> m.owned \cup {None}]
    /\ \A t, w \in UserTable : m.tables[t] = m.tables[w] /\ m.tables[t] # None => t = w
    /\ m.user \in [Vaddr -> Data(m) \cup {None, Low}]

\* Pages that hold tables, the spare one included.
HoldsTable(m, q) ==
    \/ q = m.kernel.new_pt
    \/ \E d \in Dir : m.kernel.dir[d] = q
    \/ \E t \in UserTable : m.tables[t] = q

\* No copy has gone over a table.
Clean(m) == \A q \in Page : HoldsTable(m, q) => m.memory[q] = Zero

\* What the calls of an action make of a machine: more pages, and nothing written
\* to those there were.
Extends(m, b) ==
    /\ Sound(b)
    /\ m.kernel.next <= b.kernel.next
    /\ Data(m) \subseteq Data(b)
    /\ \A q \in Page \cup {Low} : q < m.kernel.next => b.memory[q] = m.memory[q]

-----------------------------------------------------------------------------
(***************************************************************************)
(* Processes.                                                              *)
(***************************************************************************)
Processes ==
    [text : Seq(Page), data : Seq(Page), stack : Page \cup {None}, spill : BOOLEAN]

\* Created, Own and PageAt, of any process table and of a record of one.
CreatedIn(pr) == {p \in Proc : pr[p].stack # None}
OwnOf(r) == {v \in Vaddr : v[1] = "stack" \/ v[2] <= Len(r[v[1]])}
PageOf(r, v) == IF v[1] = "stack" THEN r.stack + v[2] - 1 ELSE r[v[1]][v[2]]

\* No two processes, and no two addresses of one, share a page.
Apart(pr) ==
    \A p, q \in CreatedIn(pr) : \A v \in OwnOf(pr[p]), w \in OwnOf(pr[q]) :
        PageOf(pr[p], v) = PageOf(pr[q], w) => p = q /\ v = w

\* Each process has pages of its own, which hold no tables; those of the current one
\* are mapped; and they hold what the process has put there, as long as no program has
\* stored beyond its data and none of the process's pages has been set aside for a
\* table when it was loaded.
Consistent(m, pr, cur, vw, sp, beyond) ==
    /\ pr \in [Proc -> Processes]
    /\ \A p \in Proc : Len(pr[p].text) <= MaxImage /\ Len(pr[p].data) <= MaxImage
    /\ vw = [p \in Proc |-> [v \in Vaddr |-> vw[p][v]]]
    /\ cur \in CreatedIn(pr) \cup {None} /\ sp \subseteq CreatedIn(pr) /\ beyond \in BOOLEAN
    /\ \A p \in CreatedIn(pr) : \A v \in OwnOf(pr[p]) : PageOf(pr[p], v) \in Data(m)
    /\ Apart(pr)
    /\ cur # None => \A v \in OwnOf(pr[cur]) : m.user[v] = PageOf(pr[cur], v)
    /\ beyond \/ \A p \in CreatedIn(pr) \ sp : \A v \in OwnOf(pr[p]) :
          m.memory[PageOf(pr[p], v)] = vw[p][v]
    /\ sp # {} \/ Clean(m)

SpaceInv ==
    /\ first \in Start /\ Sound(Machine)
    /\ Consistent(Machine, proc, current, view, split, spilled)

-----------------------------------------------------------------------------
(***************************************************************************)
(* A call.                                                                 *)
(***************************************************************************)

\* More pages, and the memory as it was.
Grows(m, b) == Extends(m, b) /\ b.memory = m.memory /\ (Clean(m) => Clean(b))

\* The n pages from a on are new and hold no tables.
NewPages(m, a, n, b) ==
    /\ a \in Nat /\ m.kernel.next <= a /\ a <= m.kernel.next + 1
    /\ b.kernel.next = a + n
    /\ \A i \in 0 .. n - 1 : a + i \in Data(b) /\ a + i >= m.kernel.next

\* What the parts of a sound machine are.
LEMMA SoundParts ==
    ASSUME first \in Slot, NEW m, Sound(m)
    PROVE  /\ m.kernel.next \in 0 .. MaxPage /\ m.kernel.next \in Nat /\ MaxPage \in Nat
           /\ m.owned \subseteq Page /\ \A q \in m.owned : q \in Nat /\ q < m.kernel.next
           /\ Data(m) \subseteq m.owned
           /\ \A t \in UserTable : m.tables[t] \in m.owned \cup {None}
           /\ m.kernel.dir \in [Dir -> Page \cup {Boot, None}] /\ m.kernel.new_pt \in Page
           /\ m.kernel.new_pt < m.kernel.next
           /\ \A d \in Dir : m.kernel.dir[d] \in Page => m.kernel.dir[d] < m.kernel.next
           /\ \A q \in m.owned : q \in first .. m.kernel.next - 1 /\ Walk(m.kernel, q) = q
<1>1. GoodPages(m.kernel, m.owned) /\ m.tables \in [UserTable -> m.owned \cup {None}]
  BY DEF Sound
<1>2. InStep(m.kernel) /\ SpareReady(m.kernel) /\ m.owned \subseteq first .. m.kernel.next - 1
  BY <1>1 DEF GoodPages
<1>3. m.kernel \in AllocatorState
  BY <1>2 DEF InStep
<1>4. m.kernel.next \in 0 .. MaxPage /\ m.kernel.dir \in [Dir -> Page \cup {Boot, None}]
  BY <1>3 DEF AllocatorState
<1>5. m.kernel.next \in Nat /\ MaxPage \in Nat /\ first \in Nat
  BY <1>4, TableLength DEF Slot
<1>6. \A q \in m.owned : q \in Nat /\ q < m.kernel.next /\ q \in Page
  BY <1>2, <1>4, <1>5 DEF Page
<1>7. \A t \in UserTable : m.tables[t] \in m.owned \cup {None}
  BY <1>1
<1>8. /\ m.kernel.new_pt \in Page /\ m.kernel.new_pt < m.kernel.next
      /\ \A d \in Dir : m.kernel.dir[d] \in Page => m.kernel.dir[d] < m.kernel.next
      /\ \A q \in first .. m.kernel.next - 1 : Walk(m.kernel, q) = q
  BY <1>2 DEF InStep, SpareReady, IsSpare
<1>9. Data(m) \subseteq m.owned
  BY DEF Data
<1>10. \A q \in m.owned : q \in first .. m.kernel.next - 1 /\ Walk(m.kernel, q) = q
  BY <1>2, <1>8
<1>11. m.owned \subseteq Page
  BY <1>6
<1> QED
  BY <1>4, <1>5, <1>6, <1>7, <1>8, <1>9, <1>10, <1>11

\* Data pages are not page tables.
LEMMA DataHoldsNoTable ==
    ASSUME NEW m, Sound(m), NEW q \in Data(m)
    PROVE  ~ HoldsTable(m, q)
  BY DEF Sound, GoodPages, Data, HoldsTable

\* The n pages from a on are handed out to callers.
LEMMA Handed ==
    ASSUME first \in Slot, NEW m, Sound(m), NEW n \in Nat, m.kernel.next + n + 1 < MaxPage,
           NEW a \in {m.kernel.next, m.kernel.next + 1}, NEW k,
           HandsOut(m.kernel, m.owned, a, n, k),
           NEW b, b = [kernel |-> k, owned |-> m.owned \cup Pages(a, n), memory |-> m.memory,
                       user |-> m.user, tables |-> m.tables]
    PROVE  /\ Grows(m, b) /\ NewPages(m, a, n, b)
           /\ b.user = m.user /\ b.tables = m.tables
           /\ b.owned = m.owned \cup Pages(a, n)
<1> DEFINE w == m.owned \cup Pages(a, n)
<1>1. b = [kernel |-> k, owned |-> w, memory |-> m.memory, user |-> m.user, tables |-> m.tables]
  OBVIOUS
<1>2. HandsOut(m.kernel, m.owned, a, n, k) /\ a \in {m.kernel.next, m.kernel.next + 1}
  OBVIOUS
<1> HIDE DEF w
<1>3. /\ b.kernel = k /\ b.owned = w /\ b.memory = m.memory /\ b.user = m.user /\ b.tables = m.tables
  BY <1>1
<1>4. /\ m.kernel.next \in 0 .. MaxPage /\ m.kernel.next \in Nat /\ MaxPage \in Nat
      /\ \A q \in m.owned : q \in Nat /\ q < m.kernel.next
      /\ Data(m) \subseteq m.owned /\ \A t \in UserTable : m.tables[t] \in m.owned \cup {None}
      /\ m.owned \subseteq Page
  BY SoundParts
<1>5. a \in Nat /\ m.kernel.next <= a /\ a <= m.kernel.next + 1 /\ n \in Nat /\ k.next = a + n
      /\ a + n <= MaxPage
  BY <1>2, <1>4, TableLength DEF HandsOut
<1>6. \A i \in 0 .. n - 1 : a + i \in w /\ a + i >= m.kernel.next /\ a + i \in Page
  BY <1>4, <1>5 DEF w, Pages, Page
<1>7. ASSUME NEW i \in 0 .. n - 1 PROVE a + i \in Data(b)
  <2>1. \A t \in UserTable : m.tables[t] # a + i
    BY <1>4, <1>5, <1>6 DEF None
  <2>2. QED
    BY <1>3, <1>6, <2>1 DEF Data
<1>8. NewPages(m, a, n, b)
  BY <1>3, <1>5, <1>6, <1>7 DEF NewPages
<1>9. Data(m) \subseteq Data(b)
  BY <1>3 DEF Data, w
<1>10. Sound(b)
  <2>1. b = [kernel |-> b.kernel, owned |-> b.owned, memory |-> b.memory,
             user |-> b.user, tables |-> b.tables]
    BY <1>1, <1>3
  <2>2. GoodPages(b.kernel, b.owned)
    BY <1>2, <1>3 DEF HandsOut, w
  <2>3. b.memory = [q \in Page \cup {Low} |-> b.memory[q]]
    BY <1>3 DEF Sound
  <2>4. \A q \in Page : q >= b.kernel.next => b.memory[q] = Zero
    <3>1. \A q \in Page : q >= b.kernel.next => q >= m.kernel.next
      BY <1>3, <1>4, <1>5 DEF Page
    <3>2. QED
      BY <1>3, <3>1 DEF Sound
  <2>5. b.tables \in [UserTable -> b.owned \cup {None}]
    BY <1>3 DEF Sound, w
  <2>6. \A t, u \in UserTable : b.tables[t] = b.tables[u] /\ b.tables[t] # None => t = u
    BY <1>3 DEF Sound
  <2>7. b.user \in [Vaddr -> Data(b) \cup {None, Low}]
    BY <1>3, <1>9 DEF Sound
  <2> QED
    BY <2>1, <2>2, <2>3, <2>4, <2>5, <2>6, <2>7 DEF Sound
<1>11. Extends(m, b)
  <2>1. m.kernel.next <= b.kernel.next
    BY <1>3, <1>4, <1>5
  <2> QED
    BY <1>3, <1>9, <1>10, <2>1 DEF Extends
<1>12. ASSUME Clean(m) PROVE Clean(b)
  <2>1. SUFFICES ASSUME NEW q \in Page, HoldsTable(b, q) PROVE m.memory[q] = Zero
    BY <1>3 DEF Clean
  <2>2. HoldsTable(m, q) \/ q = m.kernel.next
    BY <1>2, <1>3, <2>1 DEF HoldsTable, HandsOut
  <2>3. CASE HoldsTable(m, q)
    BY <1>12, <2>3 DEF Clean
  <2>4. CASE q = m.kernel.next
    BY <1>4, <2>4 DEF Sound
  <2> QED
    BY <2>2, <2>3, <2>4
<1> QED
  BY <1>3, <1>8, <1>11, <1>12 DEF Grows, w

\* page_allocate_kernel as a step of a machine.
LEMMA Call ==
    ASSUME first \in Slot, NEW m, Sound(m), NEW n \in 1 .. ENTRIES - 1,
           m.kernel.next + n + 1 < MaxPage, NEW b, b = page_allocate_kernel(m, n)
    PROVE  /\ Grows(m, b) /\ NewPages(m, Taken(m), n, b)
           /\ b.user = m.user /\ b.tables = m.tables
           /\ b.owned = m.owned \cup Pages(Taken(m), n)
<1> DEFINE k == page_allocate_kernel_linear(m.kernel, n)
           a == Taken(m)
<1>1. b = [kernel |-> k, owned |-> m.owned \cup Pages(a, n), memory |-> m.memory,
           user |-> m.user, tables |-> m.tables]
  BY DEF Sound, page_allocate_kernel, Pages
<1>2. HandsOut(m.kernel, m.owned, a, n, k) /\ a \in {m.kernel.next, m.kernel.next + 1}
  BY LinearKeepsGood DEF Sound, Taken
<1>3. n \in Nat
  BY TableLength
<1> HIDE DEF k, a
<1> QED
  BY <1>1, <1>2, <1>3, Handed DEF a

\* One thing after another.
LEMMA ExtendsTransitive ==
    ASSUME first \in Slot, NEW m, Sound(m), NEW b, Extends(m, b), NEW c, Extends(b, c)
    PROVE  Extends(m, c)
<1>1. m.kernel.next \in Nat /\ b.kernel.next \in Nat /\ c.kernel.next \in Nat
  BY SoundParts DEF Extends
<1>2. m.kernel.next <= c.kernel.next /\ Data(m) \subseteq Data(c)
  BY <1>1 DEF Extends
<1>3. \A q \in Page \cup {Low} : q < m.kernel.next => c.memory[q] = m.memory[q]
  <2>1. \A q \in Page \cup {Low} : q < m.kernel.next => q < b.kernel.next
    BY <1>1, TableLength DEF Extends, Page, Low
  <2> QED
    BY <2>1 DEF Extends
<1> QED
  BY <1>2, <1>3 DEF Extends

LEMMA GrowsTransitive ==
    ASSUME first \in Slot, NEW m, Sound(m), NEW b, Grows(m, b), NEW c, Grows(b, c)
    PROVE  Grows(m, c)
  BY ExtendsTransitive DEF Grows

LEMMA GrowsReflexive == ASSUME first \in Slot, NEW m, Sound(m) PROVE Grows(m, m)
<1>1. m.kernel.next <= m.kernel.next
  BY SoundParts
<1> QED
  BY <1>1 DEF Grows, Extends

-----------------------------------------------------------------------------
(***************************************************************************)
(* Mapping a page.                                                         *)
(***************************************************************************)

\* How far the pages may get when the user tables are allocated that are missing.
Missing(m, t) == IF m.tables[t] = None THEN 2 ELSE 0
Reach(m) ==
    m.kernel.next + Missing(m, "pdpt") + Missing(m, "pd") + Missing(m, "pt")
                  + Missing(m, "stack pd") + Missing(m, "stack pt")

LEMMA MissingIsNat ==
    ASSUME NEW m
    PROVE  /\ Missing(m, "pdpt") \in {0, 2} /\ Missing(m, "pd") \in {0, 2}
           /\ Missing(m, "pt") \in {0, 2} /\ Missing(m, "stack pd") \in {0, 2}
           /\ Missing(m, "stack pt") \in {0, 2}
  BY DEF Missing

LEMMA ReachIsNat ==
    ASSUME first \in Slot, NEW m, Sound(m)
    PROVE  /\ Reach(m) \in Nat /\ m.kernel.next <= Reach(m) /\ Reach(m) <= m.kernel.next + 10
           /\ \A t \in UserTable : m.kernel.next + Missing(m, t) <= Reach(m)
<1>1. m.kernel.next \in Nat
  BY SoundParts
<1> DEFINE p == Missing(m, "pdpt")
           q == Missing(m, "pd")
           r == Missing(m, "pt")
           s == Missing(m, "stack pd")
           u == Missing(m, "stack pt")
           x == m.kernel.next
<1>2. p \in {0, 2} /\ q \in {0, 2} /\ r \in {0, 2} /\ s \in {0, 2} /\ u \in {0, 2} /\ x \in Nat
  BY <1>1, MissingIsNat
<1>3. Reach(m) = x + p + q + r + s + u
  BY DEF Reach
<1> HIDE DEF p, q, r, s, u, x
<1>4. /\ Reach(m) \in Nat /\ x <= Reach(m) /\ Reach(m) <= x + 10
      /\ x + p <= Reach(m) /\ x + q <= Reach(m) /\ x + r <= Reach(m) /\ x + s <= Reach(m)
      /\ x + u <= Reach(m)
  BY <1>2, <1>3
<1> QED
  BY <1>4, Zenon DEF p, q, r, s, u, x, UserTable

\* Machines with the same tables.
LEMMA ReachOfSameTables ==
    ASSUME NEW m, NEW b, b.tables = m.tables, m.kernel.next \in Nat, b.kernel.next \in Nat,
           NEW n \in Nat, b.kernel.next <= m.kernel.next + n
    PROVE  Reach(b) <= Reach(m) + n
<1>1. /\ Missing(b, "pdpt") = Missing(m, "pdpt") /\ Missing(b, "pd") = Missing(m, "pd")
      /\ Missing(b, "pt") = Missing(m, "pt") /\ Missing(b, "stack pd") = Missing(m, "stack pd")
      /\ Missing(b, "stack pt") = Missing(m, "stack pt")
  BY DEF Missing
<1> DEFINE p == Missing(m, "pdpt")
           q == Missing(m, "pd")
           r == Missing(m, "pt")
           s == Missing(m, "stack pd")
           u == Missing(m, "stack pt")
           x == m.kernel.next
           y == b.kernel.next
<1>3. p \in {0, 2} /\ q \in {0, 2} /\ r \in {0, 2} /\ s \in {0, 2} /\ u \in {0, 2}
  BY MissingIsNat
<1>4. Reach(m) = x + p + q + r + s + u /\ Reach(b) = y + p + q + r + s + u
  BY <1>1, Zenon DEF Reach
<1> HIDE DEF p, q, r, s, u
<1> QED
  BY <1>3, <1>4

LEMMA OnePageFits == 1 \in 1 .. ENTRIES - 1
  BY EntriesAssumption

\* A missing table is allocated as a page of its own.
LEMMA SetUpGrows ==
    ASSUME first \in Slot, NEW m, Sound(m), NEW t \in UserTable, Reach(m) < MaxPage,
           NEW c, c = SetUp(m, t)
    PROVE  Grows(m, c) /\ c.user = m.user /\ Reach(c) <= Reach(m)
<1>1. CASE m.tables[t] # None
  <2>1. c = m
    BY <1>1 DEF SetUp
  <2> QED
    BY <2>1, GrowsReflexive, ReachIsNat
<1>2. CASE m.tables[t] = None
  <2> DEFINE a == Taken(m)
             b == page_allocate_kernel(m, 1)
  <2>1. Missing(m, t) = 2
    BY <1>2 DEF Missing
  <2>2. m.kernel.next + 1 + 1 < MaxPage
    <3>1. m.kernel.next \in Nat /\ MaxPage \in Nat
      BY SoundParts
    <3>2. m.kernel.next + 2 <= Reach(m)
      BY <2>1, ReachIsNat
    <3>3. Reach(m) \in Nat
      BY ReachIsNat
    <3> QED
      BY <3>1, <3>2, <3>3
  <2>3. /\ Grows(m, b) /\ NewPages(m, a, 1, b) /\ b.user = m.user /\ b.tables = m.tables
        /\ b.owned = m.owned \cup Pages(a, 1)
    BY <2>2, Call, OnePageFits
  <2>4. Sound(b) /\ Extends(m, b) /\ b.memory = m.memory
    BY <2>3 DEF Grows, Extends
  <2>5. c = [b EXCEPT !.tables[t] = a]
    BY <1>2 DEF SetUp
  <2> HIDE DEF a, b
  <2>6. c = [kernel |-> b.kernel, owned |-> b.owned, memory |-> b.memory, user |-> b.user,
             tables |-> [b.tables EXCEPT ![t] = a]]
    BY <2>4, <2>5 DEF Sound
  <2>7. /\ c.kernel = b.kernel /\ c.owned = b.owned /\ c.memory = b.memory /\ c.user = b.user
        /\ c.tables = [b.tables EXCEPT ![t] = a]
    BY <2>6
  <2>8. /\ a \in Nat /\ m.kernel.next <= a /\ a <= m.kernel.next + 1 /\ b.kernel.next = a + 1
        /\ a \in Data(b) /\ m.kernel.next \in Nat
    <3>1. m.kernel.next \in Nat
      BY SoundParts
    <3>2. 0 \in 0 .. 1 - 1
      OBVIOUS
    <3>3. a \in Nat /\ a + 0 = a
      BY <2>3 DEF NewPages
    <3>4. a + 0 \in Data(b)
      BY <2>3, <3>2 DEF NewPages
    <3> QED
      BY <2>3, <3>1, <3>3, <3>4 DEF NewPages
  <2>9. b.tables \in [UserTable -> b.owned \cup {None}] /\ a \in b.owned /\ a # None
        /\ \A u \in UserTable : b.tables[u] # a
    BY <2>4, <2>8 DEF Sound, Data, None
  <2>10. \A u \in UserTable : c.tables[u] = IF u = t THEN a ELSE m.tables[u]
    BY <2>3, <2>7, <2>9
  <2>11. Data(m) \subseteq Data(c)
    <3>1. \A q \in m.owned : q # a
      BY <2>8, SoundParts
    <3>2. \A q \in Data(m) : q \in c.owned
      BY <2>3, <2>7 DEF Data
    <3>3. \A q \in Data(m), u \in UserTable : q # c.tables[u]
      BY <2>10, <3>1 DEF Data
    <3> QED
      BY <3>2, <3>3 DEF Data
  <2>12. Sound(c)
    <3>1. c = [kernel |-> c.kernel, owned |-> c.owned, memory |-> c.memory,
               user |-> c.user, tables |-> c.tables]
      BY <2>6, <2>7
    <3>2. c.tables \in [UserTable -> c.owned \cup {None}]
      BY <2>7, <2>9
    <3>3. \A u, w \in UserTable : c.tables[u] = c.tables[w] /\ c.tables[u] # None => u = w
      <4>1. \A u, w \in UserTable : m.tables[u] = m.tables[w] /\ m.tables[u] # None => u = w
        BY DEF Sound
      <4>2. \A u \in UserTable : m.tables[u] # a
        BY <2>3, <2>9
      <4> QED
        BY <2>10, <4>1, <4>2
    <3>4. c.user \in [Vaddr -> Data(c) \cup {None, Low}]
      BY <2>3, <2>7, <2>11 DEF Sound
    <3> QED
      BY <2>4, <2>7, <3>1, <3>2, <3>3, <3>4 DEF Sound
  <2>13. Extends(m, c)
    BY <2>4, <2>7, <2>11, <2>12 DEF Extends
  <2>14. ASSUME Clean(m) PROVE Clean(c)
    <3>1. SUFFICES ASSUME NEW q \in Page, HoldsTable(c, q) PROVE m.memory[q] = Zero
      BY <2>4, <2>7 DEF Clean
    <3>2. HoldsTable(b, q) \/ q = a
      BY <2>3, <2>7, <2>10, <3>1 DEF HoldsTable
    <3>3. CASE HoldsTable(b, q)
      BY <2>3, <2>4, <2>14, <3>3 DEF Clean, Grows
    <3>4. CASE q = a
      BY <2>8, <3>4 DEF Sound
    <3> QED
      BY <3>2, <3>3, <3>4
  <2>15. Reach(c) <= Reach(m)
    <3>1. \A u \in UserTable : Missing(c, u) = IF u = t THEN 0 ELSE Missing(m, u)
      BY <2>8, <2>10 DEF Missing, None
    <3>3. c.kernel.next <= m.kernel.next + 2 /\ c.kernel.next \in Nat
      BY <2>7, <2>8
    <3> DEFINE p == Missing(m, "pdpt")
               q == Missing(m, "pd")
               r == Missing(m, "pt")
               s == Missing(m, "stack pd")
               u == Missing(m, "stack pt")
               x == m.kernel.next
               y == c.kernel.next
    <3>4. /\ p \in {0, 2} /\ q \in {0, 2} /\ r \in {0, 2} /\ s \in {0, 2} /\ u \in {0, 2}
          /\ x \in Nat /\ y \in Nat /\ y <= x + 2
      BY <2>8, <3>3, MissingIsNat
    <3>5. CASE t = "pdpt"
      <4>1. Reach(m) = x + p + q + r + s + u /\ Reach(c) = y + 0 + q + r + s + u /\ p = 2
        BY <2>1, <3>1, <3>5 DEF Reach, UserTable
      <4> HIDE DEF p, q, r, s, u, x, y
      <4> QED
        BY <3>4, <4>1
    <3>6. CASE t = "pd"
      <4>1. Reach(m) = x + p + q + r + s + u /\ Reach(c) = y + p + 0 + r + s + u /\ q = 2
        BY <2>1, <3>1, <3>6 DEF Reach, UserTable
      <4> HIDE DEF p, q, r, s, u, x, y
      <4> QED
        BY <3>4, <4>1
    <3>7. CASE t = "pt"
      <4>1. Reach(m) = x + p + q + r + s + u /\ Reach(c) = y + p + q + 0 + s + u /\ r = 2
        BY <2>1, <3>1, <3>7 DEF Reach, UserTable
      <4> HIDE DEF p, q, r, s, u, x, y
      <4> QED
        BY <3>4, <4>1
    <3>8. CASE t = "stack pd"
      <4>1. Reach(m) = x + p + q + r + s + u /\ Reach(c) = y + p + q + r + 0 + u /\ s = 2
        BY <2>1, <3>1, <3>8 DEF Reach, UserTable
      <4> HIDE DEF p, q, r, s, u, x, y
      <4> QED
        BY <3>4, <4>1
    <3>9. CASE t = "stack pt"
      <4>1. Reach(m) = x + p + q + r + s + u /\ Reach(c) = y + p + q + r + s + 0 /\ u = 2
        BY <2>1, <3>1, <3>9 DEF Reach, UserTable
      <4> HIDE DEF p, q, r, s, u, x, y
      <4> QED
        BY <3>4, <4>1
    <3> QED
      BY <3>5, <3>6, <3>7, <3>8, <3>9 DEF UserTable
  <2> QED
    BY <2>3, <2>4, <2>7, <2>13, <2>14, <2>15 DEF Grows
<1> QED
  BY <1>1, <1>2

\* page_map allocates the tables that are missing and enters the page.
LEMMA PageMap ==
    ASSUME first \in Slot, NEW m, Sound(m), Reach(m) < MaxPage,
           NEW v \in Vaddr, NEW page \in Data(m), NEW c, c = page_map(m, v, page)
    PROVE  Grows(m, c) /\ Reach(c) <= Reach(m) /\ c.user = [m.user EXCEPT ![v] = page]
<1> DEFINE way == TablesOf(v)
           b1 == SetUp(m, way[1])
           b2 == SetUp(b1, way[2])
           b == SetUp(b2, way[3])
<1>1. way[1] \in UserTable /\ way[2] \in UserTable /\ way[3] \in UserTable
  BY DEF TablesOf, UserTable
<1>2. c = [b EXCEPT !.user[v] = Walk(m.kernel, page)]
  BY DEF page_map
<1> HIDE DEF way
<1>3. Reach(m) \in Nat /\ MaxPage \in Nat
  BY ReachIsNat, TableLength
<1>4. Grows(m, b1) /\ b1.user = m.user /\ Reach(b1) <= Reach(m)
  BY <1>1, SetUpGrows
<1>5. Sound(b1) /\ Reach(b1) \in Nat /\ Reach(b1) < MaxPage
  <2>1. Sound(b1)
    BY <1>4 DEF Grows, Extends
  <2> QED
    BY <1>3, <1>4, <2>1, ReachIsNat
<1> HIDE DEF b1
<1>6. Grows(b1, b2) /\ b2.user = b1.user /\ Reach(b2) <= Reach(b1)
  BY <1>1, <1>5, SetUpGrows
<1>7. Sound(b2) /\ Reach(b2) \in Nat /\ Reach(b2) < MaxPage
  <2>1. Sound(b2)
    BY <1>6 DEF Grows, Extends
  <2> QED
    BY <1>3, <1>5, <1>6, <2>1, ReachIsNat
<1> HIDE DEF b2
<1>8. Grows(b2, b) /\ b.user = b2.user /\ Reach(b) <= Reach(b2)
  BY <1>1, <1>7, SetUpGrows
<1> HIDE DEF b
<1>9. Grows(m, b) /\ b.user = m.user
  <2>1. Grows(m, b2)
    BY <1>4, <1>6, GrowsTransitive
  <2> QED
    BY <1>4, <1>6, <1>8, <2>1, GrowsTransitive
<1>10. Sound(b) /\ Extends(m, b) /\ b.memory = m.memory /\ Data(m) \subseteq Data(b)
  BY <1>9 DEF Grows, Extends
<1>11. Reach(b) <= Reach(m)
  <2>1. Reach(b) \in Nat
    BY <1>10, ReachIsNat
  <2> QED
    BY <1>3, <1>4, <1>5, <1>6, <1>7, <1>8, <2>1
<1>12. Walk(m.kernel, page) = page
  BY SoundParts
<1>13. c = [kernel |-> b.kernel, owned |-> b.owned, memory |-> b.memory,
            user |-> [b.user EXCEPT ![v] = page], tables |-> b.tables]
  BY <1>2, <1>10, <1>12 DEF Sound
<1>14. /\ c.kernel = b.kernel /\ c.owned = b.owned /\ c.memory = b.memory /\ c.tables = b.tables
       /\ c.user = [b.user EXCEPT ![v] = page]
  BY <1>13
<1>15. Data(c) = Data(b)
  BY <1>14 DEF Data
<1>16. Sound(c)
  <2>1. c = [kernel |-> c.kernel, owned |-> c.owned, memory |-> c.memory,
             user |-> c.user, tables |-> c.tables]
    BY <1>13, <1>14
  <2>2. b.user \in [Vaddr -> Data(b) \cup {None, Low}] /\ page \in Data(b)
    BY <1>10 DEF Sound
  <2>3. c.user \in [Vaddr -> Data(c) \cup {None, Low}]
    BY <1>14, <1>15, <2>2
  <2> QED
    BY <1>10, <1>14, <2>1, <2>3 DEF Sound
<1>17. Extends(m, c)
  BY <1>10, <1>14, <1>15, <1>16 DEF Extends
<1>18. Clean(b) => Clean(c)
  BY <1>14 DEF Clean, HoldsTable
<1>19. Reach(c) = Reach(b)
  BY <1>14 DEF Reach, Missing
<1> QED
  BY <1>9, <1>10, <1>11, <1>14, <1>17, <1>18, <1>19 DEF Grows

\* The machines that MapSection goes through.
LEMMA MapSectionLoop ==
    ASSUME NEW m, NEW section, NEW pages, Len(pages) \in Nat
    PROVE  \E f : /\ MapSection(m, section, pages) = f[Len(pages)] /\ f[0] = m
                  /\ \A i \in 1 .. Len(pages) : f[i] = page_map(f[i - 1], <<section, i>>, pages[i])
<1> DEFINE n == Len(pages)
           Step(b, i) == page_map(b, <<section, i>>, pages[i])
<1> HIDE DEF n, Step
<1>0. n \in Nat
  BY DEF n
<1> DEFINE Loop(f, l) == f = [i \in 0 .. l |-> IF i = 0 THEN m ELSE Step(f[i - 1], i)]
           good == {l \in 0 .. n : \E f : Loop(f, l)}
<1>1. 0 \in good
  <2>1. Loop([i \in 0 .. 0 |-> m], 0)
    OBVIOUS
  <2> HIDE DEF Loop
  <2> QED
    BY <1>0, <2>1
<1>2. ASSUME NEW l \in 1 .. n, l - 1 \in good PROVE l \in good
  <2>1. PICK g : Loop(g, l - 1)
    BY <1>2
  <2> DEFINE f == [i \in 0 .. l |-> IF i = l THEN Step(g[l - 1], l) ELSE g[i]]
  <2>2. l \in Nat /\ l # 0 /\ l - 1 \in 0 .. l - 1 /\ l \in 0 .. n
    BY <1>0
  <2>3. \A i \in 0 .. l - 1 : f[i] = g[i]
    BY <2>2
  <2>4. ASSUME NEW i \in 0 .. l PROVE f[i] = IF i = 0 THEN m ELSE Step(f[i - 1], i)
    <3>1. CASE i = l
      BY <2>2, <2>3, <3>1
    <3>2. CASE i # l
      <4>1. i \in 0 .. l - 1 /\ (i # 0 => i - 1 \in 0 .. l - 1)
        BY <2>2, <3>2
      <4>2. g[i] = IF i = 0 THEN m ELSE Step(g[i - 1], i)
        BY <2>1, <4>1
      <4> QED
        BY <2>3, <4>1, <4>2, Zenon
    <3> QED
      BY <3>1, <3>2
  <2>5. f = [i \in 0 .. l |-> f[i]]
    OBVIOUS
  <2> HIDE DEF f
  <2>6. Loop(f, l)
    BY <2>4, <2>5
  <2> QED
    BY <2>2, <2>6
<1> HIDE DEF Loop
<1>3. \A l \in 0 .. n : l \in good
  <2> HIDE DEF good
  <2> QED
    BY <1>0, <1>1, <1>2, CountingUp
<1>4. n \in good
  BY <1>0, <1>3
<1>5. \E f : Loop(f, n)
  BY <1>4
<1> DEFINE after == CHOOSE f : Loop(f, n)
<1>6. Loop(after, n)
  BY <1>5, Zenon
<1>7. MapSection(m, section, pages) = after[n]
  BY DEF MapSection, Loop, Step, n
<1> HIDE DEF after
<1>8. after[0] = m /\ \A i \in 1 .. n : after[i] = Step(after[i - 1], i)
  BY <1>0, <1>6 DEF Loop
<1> QED
  BY <1>7, <1>8 DEF Step, n

\* What MapSection has done after i pages.
Mapped(m, section, pages, i, b) ==
    /\ Grows(m, b) /\ Reach(b) <= Reach(m)
    /\ \A v \in Vaddr : b.user[v] = IF v[1] = section /\ v[2] \in 1 .. i THEN pages[v[2]] ELSE m.user[v]

\* MapSection enters all pages of a section.
LEMMA MapSectionMaps ==
    ASSUME first \in Slot, NEW m, Sound(m), Reach(m) < MaxPage,
           NEW section, NEW pages \in Seq(Data(m)),
           \A i \in 1 .. Len(pages) : <<section, i>> \in Vaddr,
           NEW c, c = MapSection(m, section, pages)
    PROVE  Mapped(m, section, pages, Len(pages), c)
<1> DEFINE n == Len(pages)
<1>1. n \in Nat /\ \A i \in 1 .. n : pages[i] \in Data(m)
  BY LenProperties, ElementOfSeq
<1>2. PICK f : /\ MapSection(m, section, pages) = f[n] /\ f[0] = m
               /\ \A i \in 1 .. n : f[i] = page_map(f[i - 1], <<section, i>>, pages[i])
  BY <1>1, MapSectionLoop
<1> DEFINE good == {i \in 0 .. n : Mapped(m, section, pages, i, f[i])}
<1>3. 0 \in good
  <2>1. Grows(m, m) /\ Reach(m) <= Reach(m)
    BY GrowsReflexive, ReachIsNat
  <2>2. \A v \in Vaddr : v[2] \notin 1 .. 0
    OBVIOUS
  <2> QED
    BY <1>1, <1>2, <2>1, <2>2 DEF Mapped
<1>4. ASSUME NEW i \in 1 .. n, i - 1 \in good PROVE i \in good
  <2> DEFINE b == f[i - 1]
             v == <<section, i>>
  <2>1. Mapped(m, section, pages, i - 1, b)
    BY <1>4
  <2>2. Grows(m, b) /\ Sound(b) /\ Data(m) \subseteq Data(b) /\ Reach(b) <= Reach(m)
    BY <2>1 DEF Mapped, Grows, Extends
  <2>3. Reach(b) < MaxPage /\ Reach(b) \in Nat /\ Reach(m) \in Nat
    BY <2>2, ReachIsNat, TableLength
  <2>4. v \in Vaddr /\ pages[i] \in Data(b) /\ f[i] = page_map(b, v, pages[i])
    BY <1>1, <1>2, <2>2
  <2> HIDE DEF b, v
  <2>5. Grows(b, f[i]) /\ Reach(f[i]) <= Reach(b) /\ f[i].user = [b.user EXCEPT ![v] = pages[i]]
    BY <2>2, <2>3, <2>4, PageMap
  <2>6. Grows(m, f[i])
    BY <2>2, <2>5, GrowsTransitive
  <2>7. Sound(f[i]) /\ Reach(f[i]) \in Nat
    <3>1. Sound(f[i])
      BY <2>5 DEF Grows, Extends
    <3> QED
      BY <3>1, ReachIsNat
  <2>8. Reach(f[i]) <= Reach(m)
    BY <2>2, <2>3, <2>5, <2>7
  <2>9. ASSUME NEW u \in Vaddr
        PROVE  f[i].user[u] = IF u[1] = section /\ u[2] \in 1 .. i THEN pages[u[2]] ELSE m.user[u]
    <3>1. b.user \in [Vaddr -> Data(b) \cup {None, Low}]
      BY <2>2 DEF Sound
    <3>2. f[i].user[u] = IF u = v THEN pages[i] ELSE b.user[u]
      BY <2>5, <3>1
    <3>3. b.user[u] = IF u[1] = section /\ u[2] \in 1 .. i - 1 THEN pages[u[2]] ELSE m.user[u]
      BY <2>1 DEF Mapped
    <3>4. u = <<u[1], u[2]>> /\ u[2] \in Nat
      BY StackAssumption, ImageAssumption DEF Vaddr
    <3>5. CASE u = v
      <4>1. u[1] = section /\ u[2] = i /\ i \in 1 .. i
        BY <3>5 DEF v
      <4> QED
        BY <3>2, <3>5, <4>1
    <3>6. CASE u # v
      <4>1. ~ (u[1] = section /\ u[2] = i)
        BY <3>4, <3>6 DEF v
      <4>2. u[1] = section => (u[2] \in 1 .. i <=> u[2] \in 1 .. i - 1)
        BY <3>4, <4>1
      <4> QED
        BY <3>2, <3>3, <3>6, <4>2
    <3> QED
      BY <3>5, <3>6
  <2>10. Mapped(m, section, pages, i, f[i])
    BY <2>6, <2>8, <2>9 DEF Mapped
  <2> QED
    BY <1>1, <2>10
<1>5. \A i \in 0 .. n : i \in good
  <2> HIDE DEF good
  <2> QED
    BY <1>1, <1>3, <1>4, CountingUp
<1>6. n \in good
  BY <1>1, <1>5
<1> QED
  BY <1>2, <1>6

-----------------------------------------------------------------------------
(***************************************************************************)
(* The pages of a section.                                                 *)
(***************************************************************************)

\* The machines and pages that AllocateSection goes through.
LEMMA AllocateSectionLoop ==
    ASSUME NEW m, NEW n \in Nat
    PROVE  \E f : /\ AllocateSection(m, n) = f[n] /\ f[0] = [machine |-> m, pages |-> <<>>]
                  /\ \A i \in 1 .. n : f[i] = Another(f[i - 1])
<1> DEFINE start == [machine |-> m, pages |-> <<>>]
           Loop(f, l) == f = [i \in 0 .. l |-> IF i = 0 THEN start ELSE Another(f[i - 1])]
           good == {l \in 0 .. n : \E f : Loop(f, l)}
<1> HIDE DEF start
<1>1. 0 \in good
  <2>1. Loop([i \in 0 .. 0 |-> start], 0)
    OBVIOUS
  <2> HIDE DEF Loop
  <2> QED
    BY <2>1
<1>2. ASSUME NEW l \in 1 .. n, l - 1 \in good PROVE l \in good
  <2>1. PICK g : Loop(g, l - 1)
    BY <1>2
  <2> DEFINE f == [i \in 0 .. l |-> IF i = l THEN Another(g[l - 1]) ELSE g[i]]
  <2>2. l \in Nat /\ l # 0 /\ l - 1 \in 0 .. l - 1 /\ l \in 0 .. n
    OBVIOUS
  <2>3. \A i \in 0 .. l - 1 : f[i] = g[i]
    BY <2>2
  <2>4. ASSUME NEW i \in 0 .. l PROVE f[i] = IF i = 0 THEN start ELSE Another(f[i - 1])
    <3>1. CASE i = l
      BY <2>2, <2>3, <3>1
    <3>2. CASE i # l
      <4>1. i \in 0 .. l - 1 /\ (i # 0 => i - 1 \in 0 .. l - 1)
        BY <2>2, <3>2
      <4>2. g[i] = IF i = 0 THEN start ELSE Another(g[i - 1])
        BY <2>1, <4>1
      <4> QED
        BY <2>3, <4>1, <4>2, Zenon
    <3> QED
      BY <3>1, <3>2
  <2>5. f = [i \in 0 .. l |-> f[i]]
    OBVIOUS
  <2> HIDE DEF f
  <2>6. Loop(f, l)
    BY <2>4, <2>5
  <2> HIDE DEF Loop
  <2> QED
    BY <2>2, <2>6
<1> HIDE DEF Loop
<1>3. \A l \in 0 .. n : l \in good
  <2> HIDE DEF good
  <2> QED
    BY <1>1, <1>2, CountingUp
<1>4. n \in good
  BY <1>3
<1>5. \E f : Loop(f, n)
  BY <1>4
<1> DEFINE after == CHOOSE f : Loop(f, n)
<1>6. Loop(after, n)
  BY <1>5, Zenon
<1>7. AllocateSection(m, n) = after[n]
  BY DEF AllocateSection, Loop, start
<1> HIDE DEF after
<1>8. after[0] = start /\ \A i \in 1 .. n : after[i] = Another(after[i - 1])
  BY <1>6 DEF Loop
<1> QED
  BY <1>7, <1>8 DEF start

\* The pages of a section: new, holding no tables, one above the other.
NewSection(m, pages, n, b) ==
    /\ pages \in Seq(Data(b)) /\ Len(pages) = n
    /\ \A i \in 1 .. n : pages[i] >= m.kernel.next
    /\ \A i, j \in 1 .. n : i < j => pages[i] < pages[j]

\* AllocateSection takes new pages only.
LEMMA AllocateSectionGrows ==
    ASSUME first \in Slot, NEW m, Sound(m), NEW n \in Nat, Reach(m) + 2 * n < MaxPage,
           NEW s, s = AllocateSection(m, n)
    PROVE  /\ s = [machine |-> s.machine, pages |-> s.pages]
           /\ Grows(m, s.machine) /\ s.machine.user = m.user
           /\ Reach(s.machine) <= Reach(m) + 2 * n
           /\ NewSection(m, s.pages, n, s.machine)
<1> DEFINE Good(i, t) ==
              /\ t = [machine |-> t.machine, pages |-> t.pages]
              /\ Grows(m, t.machine) /\ t.machine.user = m.user
              /\ Reach(t.machine) <= Reach(m) + 2 * i
              /\ NewSection(m, t.pages, i, t.machine)
<1>1. PICK f : /\ AllocateSection(m, n) = f[n] /\ f[0] = [machine |-> m, pages |-> <<>>]
               /\ \A i \in 1 .. n : f[i] = Another(f[i - 1])
  BY AllocateSectionLoop
<1> DEFINE good == {i \in 0 .. n : Good(i, f[i])}
<1>2. Reach(m) \in Nat /\ MaxPage \in Nat
  BY ReachIsNat, TableLength
<1>3. Good(0, f[0])
  <2>1. Grows(m, m) /\ Reach(m) <= Reach(m) + 2 * 0
    BY <1>2, GrowsReflexive
  <2>2. <<>> \in Seq(Data(m)) /\ Len(<<>>) = 0 /\ \A i \in 1 .. 0 : FALSE
    OBVIOUS
  <2>3. NewSection(m, <<>>, 0, m)
    BY <2>2 DEF NewSection
  <2>4. f[0].machine = m /\ f[0].pages = <<>>
    BY <1>1
  <2> QED
    BY <1>1, <2>1, <2>3, <2>4
<1>4. ASSUME NEW i \in 1 .. n, Good(i - 1, f[i - 1]) PROVE Good(i, f[i])
  <2> DEFINE b == f[i - 1].machine
             old == f[i - 1].pages
             a == Taken(b)
             c == page_allocate_kernel(b, 1)
  <2>1. /\ Grows(m, b) /\ b.user = m.user /\ Reach(b) <= Reach(m) + 2 * (i - 1)
        /\ NewSection(m, old, i - 1, b)
    BY <1>4
  <2>2. f[i] = [machine |-> c, pages |-> Append(old, a)]
    BY <1>1 DEF Another
  <2> HIDE DEF b, old, a, c
  <2>3. Sound(b) /\ Data(m) \subseteq Data(b) /\ m.kernel.next <= b.kernel.next
    BY <2>1 DEF Grows, Extends
  <2>4. b.kernel.next \in Nat /\ m.kernel.next \in Nat /\ Reach(b) \in Nat /\ b.kernel.next <= Reach(b)
    BY <2>3, SoundParts, ReachIsNat
  <2>5. b.kernel.next + 1 + 1 < MaxPage
    BY <1>2, <2>1, <2>4
  <2>6. /\ Grows(b, c) /\ NewPages(b, a, 1, c) /\ c.user = b.user /\ c.tables = b.tables
    BY <2>3, <2>5, Call, OnePageFits DEF a, c
  <2>7. Sound(c) /\ Data(b) \subseteq Data(c) /\ c.kernel.next \in Nat
    <3>1. Sound(c) /\ Data(b) \subseteq Data(c)
      BY <2>6 DEF Grows, Extends
    <3> QED
      BY <3>1, SoundParts
  <2>8. Grows(m, c)
    BY <2>1, <2>6, GrowsTransitive
  <2>9. /\ a \in Nat /\ b.kernel.next <= a /\ a <= b.kernel.next + 1 /\ c.kernel.next = a + 1
        /\ a \in Data(c)
    <3>1. 0 \in 0 .. 1 - 1
      OBVIOUS
    <3>2. a \in Nat /\ a + 0 = a
      BY <2>6 DEF NewPages
    <3>3. a + 0 \in Data(c)
      BY <2>6, <3>1 DEF NewPages
    <3> QED
      BY <2>6, <3>2, <3>3 DEF NewPages
  <2>10. Reach(c) <= Reach(m) + 2 * i
    <3>1. c.kernel.next <= b.kernel.next + 2
      BY <2>4, <2>9
    <3>2. Reach(c) <= Reach(b) + 2
      BY <2>4, <2>6, <2>7, <3>1, ReachOfSameTables
    <3>3. Reach(c) \in Nat
      BY <2>7, ReachIsNat
    <3> QED
      BY <1>2, <2>1, <2>4, <3>2, <3>3
  <2>11. NewSection(m, Append(old, a), i, c)
    <3>1. old \in Seq(Data(c)) /\ Len(old) = i - 1
      <4>1. old \in Seq(Data(b)) /\ Len(old) = i - 1
        BY <2>1 DEF NewSection
      <4> QED
        BY <2>7, <4>1
    <3>2. /\ Append(old, a) \in Seq(Data(c)) /\ Len(Append(old, a)) = i
          /\ \A j \in 1 .. i : Append(old, a)[j] = IF j = i THEN a ELSE old[j]
      BY <2>9, <3>1
    <3>3. \A j \in 1 .. i : j # i => j \in 1 .. i - 1
      OBVIOUS
    <3>4. \A j \in 1 .. i - 1 : old[j] \in Nat /\ old[j] < a /\ old[j] >= m.kernel.next
      <4>1. \A j \in 1 .. i - 1 : old[j] \in Data(b) /\ old[j] >= m.kernel.next
        BY <2>1, <3>1, ElementOfSeq DEF NewSection
      <4>2. \A q \in Data(b) : q \in Nat /\ q < b.kernel.next
        BY <2>3, SoundParts
      <4>3. \A q \in Data(b) : q < a
        BY <2>4, <2>9, <4>2
      <4> QED
        BY <4>1, <4>2, <4>3
    <3>5. \A j, l \in 1 .. i - 1 : j < l => old[j] < old[l]
      BY <2>1 DEF NewSection
    <3>6. ASSUME NEW j \in 1 .. i PROVE Append(old, a)[j] >= m.kernel.next
      BY <2>3, <2>4, <2>9, <3>2, <3>3, <3>4
    <3>7. ASSUME NEW j \in 1 .. i, NEW l \in 1 .. i, j < l PROVE Append(old, a)[j] < Append(old, a)[l]
      <4>1. j \in 1 .. i - 1 /\ j # i
        BY <3>7
      <4>2. CASE l = i
        BY <3>2, <3>4, <4>1, <4>2
      <4>3. CASE l # i
        BY <3>2, <3>3, <3>5, <3>7, <4>1, <4>3
      <4> QED
        BY <4>2, <4>3
    <3> QED
      BY <3>2, <3>6, <3>7 DEF NewSection
  <2>12. c.user = m.user
    BY <2>1, <2>6
  <2> QED
    BY <2>2, <2>8, <2>10, <2>11, <2>12
<1>5. 0 \in good
  BY <1>3
<1>6. ASSUME NEW i \in 1 .. n, i - 1 \in good PROVE i \in good
  <2> HIDE DEF Good
  <2> QED
    BY <1>4, <1>6
<1>7. \A i \in 0 .. n : i \in good
  <2> HIDE DEF good
  <2> QED
    BY <1>5, <1>6, CountingUp
<1>8. n \in good
  BY <1>7
<1> QED
  BY <1>1, <1>8

\* They stay so when there is more.
LEMMA NewSectionKept ==
    ASSUME first \in Slot, NEW m, Sound(m), NEW b, Sound(b), m.kernel.next <= b.kernel.next,
           NEW pages, NEW n \in Nat, NEW c, NewSection(b, pages, n, c),
           NEW d, Sound(d), Data(c) \subseteq Data(d)
    PROVE  NewSection(m, pages, n, d)
<1>1. pages \in Seq(Data(c)) /\ Len(pages) = n
  BY DEF NewSection
<1>2. \A i \in 1 .. n : pages[i] \in Data(c)
  BY <1>1, ElementOfSeq
<1>3. pages \in Seq(Data(d))
  BY <1>1
<1>4. m.kernel.next \in Nat /\ b.kernel.next \in Nat /\ \A q \in Data(d) : q \in Nat
  BY SoundParts
<1>5. \A i \in 1 .. n : pages[i] \in Nat /\ pages[i] >= b.kernel.next
  BY <1>2, <1>4 DEF NewSection
<1>6. \A i \in 1 .. n : pages[i] >= m.kernel.next
  BY <1>4, <1>5
<1> QED
  BY <1>1, <1>3, <1>6 DEF NewSection

\* Numbers one above the other are at least as far apart as their places.
LEMMA Ascending ==
    ASSUME NEW n \in Nat \ {0}, NEW pages, \A i \in 1 .. n : pages[i] \in Nat,
           \A i, j \in 1 .. n : i < j => pages[i] < pages[j]
    PROVE  /\ \A i \in 1 .. n : pages[1] + i - 1 <= pages[i]
           /\ pages[1] + n - 1 <= pages[n]
<1> DEFINE good == {i \in 0 .. n : i > 0 => pages[1] + i - 1 <= pages[i]}
<1>1. 0 \in good
  OBVIOUS
<1>2. ASSUME NEW i \in 1 .. n, i - 1 \in good PROVE i \in good
  <2>1. CASE i = 1
    BY <2>1
  <2>2. CASE i # 1
    <3>1. i - 1 \in 1 .. n /\ 1 \in 1 .. n
      BY <2>2
    <3>2. pages[i - 1] < pages[i] /\ pages[i - 1] \in Nat /\ pages[i] \in Nat /\ pages[1] \in Nat
      BY <3>1
    <3>3. pages[1] + (i - 1) - 1 <= pages[i - 1]
      BY <1>2, <3>1
    <3> QED
      BY <3>2, <3>3
  <2> QED
    BY <2>1, <2>2
<1>3. \A i \in 0 .. n : i \in good
  <2> HIDE DEF good
  <2> QED
    BY <1>1, <1>2, CountingUp
<1>4. \A i \in 1 .. n : i \in 0 .. n /\ i > 0
  OBVIOUS
<1>5. \A i \in 1 .. n : pages[1] + i - 1 <= pages[i]
  BY <1>3, <1>4
<1> QED
  BY <1>5

\* Without a table between them they are one after the other.
LEMMA WithoutGap ==
    ASSUME NEW n \in Nat \ {0}, NEW pages, Len(pages) = n, \A i \in 1 .. n : pages[i] \in Nat,
           ~ IsSplit(pages)
    PROVE  \A i \in 1 .. n : pages[i] = pages[1] + i - 1
<1> DEFINE good == {i \in 0 .. n : i > 0 => pages[i] = pages[1] + i - 1}
<1>1. 0 \in good
  OBVIOUS
<1>2. ASSUME NEW i \in 1 .. n, i - 1 \in good PROVE i \in good
  <2>1. CASE i = 1
    BY <2>1
  <2>2. CASE i # 1
    <3>1. i - 1 \in 1 .. n - 1 /\ i - 1 \in 1 .. n /\ 1 \in 1 .. n
      BY <2>2
    <3>2. pages[(i - 1) + 1] = pages[i - 1] + 1
      BY <3>1 DEF IsSplit
    <3>3. pages[i - 1] \in Nat /\ pages[1] \in Nat /\ (i - 1) + 1 = i
      BY <3>1
    <3>4. pages[i - 1] = pages[1] + (i - 1) - 1
      BY <1>2, <3>1
    <3> QED
      BY <3>2, <3>3, <3>4
  <2> QED
    BY <2>1, <2>2
<1>3. \A i \in 0 .. n : i \in good
  <2> HIDE DEF good
  <2> QED
    BY <1>1, <1>2, CountingUp
<1> QED
  BY <1>3

-----------------------------------------------------------------------------
(***************************************************************************)
(* Writing to new pages.                                                   *)
(***************************************************************************)

\* Memory, and nothing else, is written.
Wrote(b, g, c) ==
    /\ c.memory = g /\ c.kernel = b.kernel /\ c.owned = b.owned
    /\ c.user = b.user /\ c.tables = b.tables

LEMMA WroteSame ==
    ASSUME NEW b, NEW g, NEW c, Wrote(b, g, c)
    PROVE  /\ Data(c) = Data(b) /\ Reach(c) = Reach(b)
           /\ \A q : HoldsTable(c, q) <=> HoldsTable(b, q)
<1>1. Data(c) = Data(b)
  BY DEF Data, Wrote
<1>2. Reach(c) = Reach(b)
  BY DEF Reach, Missing, Wrote
<1> QED
  BY <1>1, <1>2 DEF HoldsTable, Wrote

\* What is written to pages that are new since m leaves the machine sound.
LEMMA WriteNew ==
    ASSUME first \in Slot, NEW m, Sound(m), NEW b, Extends(m, b),
           NEW g, g = [q \in Page \cup {Low} |-> g[q]],
           \A q \in Page \cup {Low} :
              g[q] # b.memory[q] => q >= m.kernel.next /\ q < b.kernel.next,
           NEW c, c = [b EXCEPT !.memory = g]
    PROVE  Extends(m, c) /\ Wrote(b, g, c)
<1>1. Sound(b)
  BY DEF Extends
<1>2. c = [kernel |-> b.kernel, owned |-> b.owned, memory |-> g, user |-> b.user,
           tables |-> b.tables]
  BY <1>1 DEF Sound
<1>3. Wrote(b, g, c)
  BY <1>2 DEF Wrote
<1>4. Data(c) = Data(b)
  BY <1>3, WroteSame
<1>5. Sound(c)
  <2>1. c = [kernel |-> c.kernel, owned |-> c.owned, memory |-> c.memory,
             user |-> c.user, tables |-> c.tables]
    BY <1>2, <1>3 DEF Wrote
  <2>2. \A q \in Page : q >= b.kernel.next => g[q] = Zero
    <3>1. SUFFICES ASSUME NEW q \in Page, q >= b.kernel.next PROVE g[q] = Zero
      OBVIOUS
    <3>2. b.memory[q] = Zero
      BY <1>1, <3>1 DEF Sound
    <3>3. ~ (q < b.kernel.next)
      BY <1>1, <3>1, SoundParts DEF Page
    <3> QED
      BY <3>2, <3>3
  <2>3. c.user \in [Vaddr -> Data(c) \cup {None, Low}]
    BY <1>1, <1>3, <1>4 DEF Wrote, Sound
  <2>4. c.memory = [q \in Page \cup {Low} |-> c.memory[q]]
    BY <1>3 DEF Wrote
  <2> QED
    BY <1>1, <1>3, <2>1, <2>2, <2>3, <2>4 DEF Sound, Wrote
<1>6. \A q \in Page \cup {Low} : q < m.kernel.next => c.memory[q] = m.memory[q]
  <2>1. SUFFICES ASSUME NEW q \in Page \cup {Low}, q < m.kernel.next PROVE g[q] = m.memory[q]
    BY <1>3 DEF Wrote
  <2>2. ~ (q >= m.kernel.next)
    BY <2>1, SoundParts, TableLength DEF Page, Low
  <2> QED
    BY <2>1, <2>2 DEF Extends
<1>7. Extends(m, c)
  BY <1>3, <1>4, <1>5, <1>6 DEF Extends, Wrote
<1> QED
  BY <1>3, <1>7

\* Nothing that is written to data pages goes over a table.
LEMMA WriteClean ==
    ASSUME NEW b, Sound(b), Clean(b), NEW g, NEW c, Wrote(b, g, c),
           \A q \in Page : g[q] # b.memory[q] => q \in Data(b)
    PROVE  Clean(c)
<1>1. SUFFICES ASSUME NEW q \in Page, HoldsTable(c, q) PROVE g[q] = Zero
  BY DEF Clean, Wrote
<1>2. HoldsTable(b, q)
  BY <1>1, WroteSame
<1>3. q \notin Data(b)
  BY <1>2, DataHoldsNoTable
<1>4. g[q] = b.memory[q]
  BY <1>3
<1> QED
  BY <1>2, <1>4 DEF Clean

-----------------------------------------------------------------------------
(***************************************************************************)
(* Loading.                                                                *)
(***************************************************************************)

\* What the pages of a section hold when it has been loaded.
Holds(m, image, section, pages, n) ==
    \A i \in 1 .. n : m.memory[pages[i]] = Loaded(image, <<section, i>>)

\* A segment in new pages; unless a table has come between, each page holds what
\* the program's file says and no table has been written.
SegmentLoaded(m, image, section, pages, n, c) ==
    /\ Extends(m, c) /\ c.user = m.user
    /\ NewSection(m, pages, n, c)
    /\ Reach(c) <= Reach(m) + 2 * n
    /\ ~ IsSplit(pages) => (Clean(m) => Clean(c)) /\ Holds(c, image, section, pages, n)

\* The memcpy of a segment stays in its pages and those between them.
LEMMA FilledSection ==
    ASSUME first \in Slot, NEW m, Sound(m), NEW b, Grows(m, b), b.user = m.user,
           NEW n \in Nat \ {0}, NEW pages, NewSection(m, pages, n, b),
           Reach(b) <= Reach(m) + 2 * n,
           NEW image, NEW section, NEW c, c = Filled(b, pages, image, section)
    PROVE  SegmentLoaded(m, image, section, pages, n, c)
<1> DEFINE New(q) == Loaded(image, <<section, q - pages[1] + 1>>)
           g == [q \in Page \cup {Low} |->
                    IF q - pages[1] \in 0 .. Len(pages) - 1 THEN New(q) ELSE b.memory[q]]
<1>1. Sound(b) /\ Extends(m, b) /\ (Clean(m) => Clean(b)) /\ Data(m) \subseteq Data(b)
  BY DEF Grows, Extends
<1>2. c = [b EXCEPT !.memory = g]
  <2>1. DOMAIN b.memory = Page \cup {Low}
    BY <1>1 DEF Sound
  <2> QED
    BY <2>1 DEF Filled
<1>3. g = [q \in Page \cup {Low} |-> g[q]]
  OBVIOUS
<1>4. /\ Len(pages) = n /\ pages \in Seq(Data(b))
      /\ \A i \in 1 .. n : pages[i] \in Data(b) /\ pages[i] >= m.kernel.next
  <2>1. pages \in Seq(Data(b)) /\ Len(pages) = n
    BY DEF NewSection
  <2> QED
    BY <2>1, ElementOfSeq DEF NewSection
<1>5. /\ \A q \in Data(b) : q \in Nat /\ q < b.kernel.next /\ q \in Page
      /\ m.kernel.next \in Nat /\ b.kernel.next \in Nat
  BY <1>1, SoundParts
<1>6. /\ \A i \in 1 .. n : pages[i] \in Nat /\ pages[1] + i - 1 <= pages[i]
      /\ pages[1] + n - 1 <= pages[n]
  <2>1. \A i \in 1 .. n : pages[i] \in Nat
    BY <1>4, <1>5
  <2>2. \A i, j \in 1 .. n : i < j => pages[i] < pages[j]
    BY DEF NewSection
  <2> QED
    BY <2>1, <2>2, Ascending
<1>7. /\ 1 \in 1 .. n /\ n \in 1 .. n
      /\ pages[1] \in Nat /\ pages[1] >= m.kernel.next /\ pages[n] < b.kernel.next /\ pages[n] \in Nat
  <2>1. 1 \in 1 .. n /\ n \in 1 .. n
    OBVIOUS
  <2> QED
    BY <1>4, <1>5, <2>1
<1> HIDE DEF New
<1>8. \A q \in Page \cup {Low} : g[q] # b.memory[q] => q - pages[1] \in 0 .. n - 1 /\ q \in Int
  BY <1>4, TableLength DEF Page, Low
<1>9. \A q \in Page \cup {Low} :
         g[q] # b.memory[q] => q >= m.kernel.next /\ q < b.kernel.next
  <2>1. \A q \in Int : q - pages[1] \in 0 .. n - 1 => q >= pages[1] /\ q <= pages[n]
    BY <1>6, <1>7
  <2>2. \A q \in Int : q >= pages[1] /\ q <= pages[n] => q >= m.kernel.next /\ q < b.kernel.next
    BY <1>5, <1>7
  <2> HIDE DEF g
  <2> QED
    BY <1>8, <2>1, <2>2
<1>10. Extends(m, c) /\ Wrote(b, g, c)
  <2> HIDE DEF g
  <2> QED
    BY <1>1, <1>2, <1>3, <1>9, WriteNew
<1>11. Data(c) = Data(b) /\ Reach(c) = Reach(b)
  BY <1>10, WroteSame
<1>12. NewSection(m, pages, n, c)
  BY <1>11 DEF NewSection
<1>13. ASSUME ~ IsSplit(pages) PROVE (Clean(m) => Clean(c)) /\ Holds(c, image, section, pages, n)
  <2>1. \A i \in 1 .. n : pages[i] = pages[1] + i - 1
    BY <1>4, <1>6, <1>13, WithoutGap
  <2>2. \A q \in Page : g[q] # b.memory[q] => q \in Data(b)
    <3>1. SUFFICES ASSUME NEW q \in Page, g[q] # b.memory[q] PROVE q \in Data(b)
      OBVIOUS
    <3>2. q - pages[1] \in 0 .. n - 1 /\ q \in Int
      BY <1>8, <3>1
    <3> DEFINE i == q - pages[1] + 1
    <3>3. i \in 1 .. n /\ pages[1] + i - 1 = q
      BY <1>7, <3>2
    <3> QED
      BY <1>4, <2>1, <3>3
  <2>3. Clean(m) => Clean(c)
    <3> HIDE DEF g
    <3> QED
      BY <1>1, <1>10, <2>2, WriteClean
  <2>4. ASSUME NEW i \in 1 .. n PROVE g[pages[i]] = Loaded(image, <<section, i>>)
    <3>1. pages[i] \in Page /\ pages[i] - pages[1] \in 0 .. n - 1 /\ pages[i] - pages[1] + 1 = i
      BY <1>4, <1>5, <1>7, <2>1
    <3>2. g[pages[i]] = New(pages[i])
      BY <1>4, <3>1
    <3> QED
      BY <3>1, <3>2 DEF New
  <2> HIDE DEF g
  <2> QED
    BY <1>10, <2>3, <2>4 DEF Holds, Wrote
<1> QED
  BY <1>10, <1>11, <1>12, <1>13 DEF SegmentLoaded, Wrote

\* elf_loader_load_binary for a header there is.
LEMMA LoadSegmentLoads ==
    ASSUME first \in Slot, NEW m, Sound(m), NEW image, NEW section, NEW old,
           image[section] \in Nat \ {0}, Reach(m) + 2 * image[section] < MaxPage,
           NEW s, s = LoadSegment(m, image, section, old)
    PROVE  SegmentLoaded(m, image, section, s.pages, image[section], s.machine)
<1> DEFINE n == image[section]
           t == AllocateSection(m, n)
           c == Filled(t.machine, t.pages, image, section)
<1>1. /\ t = [machine |-> t.machine, pages |-> t.pages]
      /\ Grows(m, t.machine) /\ t.machine.user = m.user
      /\ Reach(t.machine) <= Reach(m) + 2 * n
      /\ NewSection(m, t.pages, n, t.machine)
  BY AllocateSectionGrows
<1>2. s = [t EXCEPT !.machine = c]
  BY DEF LoadSegment
<1> HIDE DEF t
<1>3. SegmentLoaded(m, image, section, t.pages, n, c)
  BY <1>1, FilledSection
<1> HIDE DEF c
<1>4. s.machine = c /\ s.pages = t.pages
  BY <1>1, <1>2
<1> QED
  BY <1>3, <1>4

\* A section keeps what it holds while other pages are written.
LEMMA HoldsKept ==
    ASSUME first \in Slot, NEW m, Sound(m), NEW b, Extends(m, b),
           NEW image, NEW section, NEW n \in Nat, NEW pages, NewSection(m, pages, n, m)
           \/ (pages \in Seq(Data(m)) /\ Len(pages) = n),
           Holds(m, image, section, pages, n)
    PROVE  Holds(b, image, section, pages, n)
<1>1. \A i \in 1 .. n : pages[i] \in Data(m)
  BY ElementOfSeq DEF NewSection
<1>2. \A q \in Data(m) : q \in Page /\ q < m.kernel.next
  BY SoundParts
<1> QED
  BY <1>1, <1>2 DEF Holds, Extends

\* A program in memory: its text, its data, if it has any, and its stack in pages of
\* their own.
ProgramLoaded(m, image, old, r, c) ==
    /\ Extends(m, c) /\ c.user = m.user
    /\ Reach(c) <= Reach(m) + 4 * MaxImage + StackPages + 1
    /\ NewSection(m, r.text, image.text, c)
    /\ image.data = 0 => r.data = old.data
    /\ image.data # 0 => /\ NewSection(m, r.data, image.data, c)
                         /\ \A i \in 1 .. image.text, j \in 1 .. image.data : r.text[i] < r.data[j]
    /\ r.stack \in Nat
    /\ \A l \in 1 .. StackPages :
          /\ r.stack + l - 1 \in Data(c) /\ r.stack + l - 1 >= m.kernel.next
          /\ c.memory[r.stack + l - 1] = Zero
          /\ \A i \in 1 .. image.text : r.text[i] < r.stack + l - 1
          /\ image.data # 0 => \A j \in 1 .. image.data : r.data[j] < r.stack + l - 1
    /\ ~ IsSplit(r.text) /\ ~ IsSplit(r.data) =>
          /\ Clean(m) => Clean(c)
          /\ Holds(c, image, "text", r.text, image.text)
          /\ image.data # 0 => Holds(c, image, "data", r.data, image.data)

\* What ImageAssumption and StackAssumption say of the sizes of a program.
LEMMA Sizes ==
    ASSUME NEW image \in Image
    PROVE  /\ image.text \in Nat \ {0} /\ image.data \in Nat
           /\ image.text <= MaxImage /\ image.data <= MaxImage /\ MaxImage \in Nat
           /\ image["text"] = image.text /\ image["data"] = image.data /\ image.spill \in BOOLEAN
  BY ImageAssumption, EntriesAssumption

LEMMA StackSize == StackPages \in Nat \ {0} /\ StackPages \in 1 .. ENTRIES - 1
  BY StackAssumption, EntriesAssumption

LEMMA ProgramIsLoaded ==
    ASSUME first \in Slot, NEW m, Sound(m), NEW image \in Image, NEW old,
           Reach(m) + 4 * MaxImage + StackPages + 1 < MaxPage,
           NEW s, s = elf_loader_load(m, image, old)
    PROVE  /\ ProgramLoaded(m, image, old, s.p, s.machine)
           /\ s.p = [text |-> s.p.text, data |-> s.p.data, stack |-> s.p.stack, spill |-> image.spill]
<1> DEFINE nt == image.text
           nd == image.data
           text == LoadSegment(m, image, "text", old.text)
           data == LoadSegment(text.machine, image, "data", old.data)
           x == text.machine
           y == data.machine
           c == page_allocate_kernel(y, StackPages)
           a == Taken(y)
           tp == text.pages
           dp == data.pages
<1>1. /\ nt \in Nat \ {0} /\ nd \in Nat /\ nt <= MaxImage /\ nd <= MaxImage /\ MaxImage \in Nat
      /\ image["text"] = nt /\ image["data"] = nd
      /\ StackPages \in Nat \ {0} /\ StackPages \in 1 .. ENTRIES - 1
      /\ Reach(m) \in Nat /\ MaxPage \in Nat
  BY Sizes, StackSize, ReachIsNat, TableLength
<1>2. /\ s = [machine |-> c, p |-> [text |-> tp, data |-> dp, stack |-> a, spill |-> image.spill]]
  BY DEF elf_loader_load
<1>3. SegmentLoaded(m, image, "text", tp, nt, x)
  BY <1>1, LoadSegmentLoads
<1> HIDE DEF text
<1>4. nd # 0 => Reach(x) + 2 * nd < MaxPage
  <2>1. Reach(x) <= Reach(m) + 2 * nt /\ Sound(x)
    BY <1>3 DEF SegmentLoaded, Extends
  <2>2. Reach(x) \in Nat
    BY <2>1, ReachIsNat
  <2> QED
    BY <1>1, <2>1, <2>2
<1>5. Sound(x) /\ Extends(m, x) /\ x.user = m.user /\ Reach(x) <= Reach(m) + 2 * nt
      /\ m.kernel.next <= x.kernel.next /\ NewSection(m, tp, nt, x)
  BY <1>3 DEF SegmentLoaded, Extends
<1>6. nd # 0 => SegmentLoaded(x, image, "data", dp, nd, y)
  BY <1>1, <1>4, <1>5, LoadSegmentLoads
<1>7. nd = 0 => y = x /\ dp = old.data
  BY <1>1 DEF LoadSegment
<1> HIDE DEF data
<1>8. /\ Sound(y) /\ Extends(x, y) /\ y.user = m.user /\ Reach(y) <= Reach(x) + 2 * nd
      /\ x.kernel.next <= y.kernel.next /\ Data(x) \subseteq Data(y)
  <2>1. CASE nd = 0
    <3>1. Extends(x, x) /\ Reach(x) <= Reach(x) + 2 * 0
      BY <1>5, GrowsReflexive, ReachIsNat DEF Grows
    <3> QED
      BY <1>5, <1>7, <2>1, <3>1 DEF Extends
  <2>2. CASE nd # 0
    BY <1>5, <1>6, <2>2 DEF SegmentLoaded, Extends
  <2> QED
    BY <2>1, <2>2
<1>9. /\ Reach(x) \in Nat /\ Reach(y) \in Nat /\ y.kernel.next <= Reach(y)
      /\ m.kernel.next \in Nat /\ x.kernel.next \in Nat /\ y.kernel.next \in Nat
  BY <1>5, <1>8, ReachIsNat, SoundParts
<1>10. Reach(y) <= Reach(m) + 4 * MaxImage
  BY <1>1, <1>5, <1>8, <1>9
<1>11. y.kernel.next + StackPages + 1 < MaxPage
  BY <1>1, <1>9, <1>10
<1>12. Grows(y, c) /\ NewPages(y, a, StackPages, c) /\ c.user = y.user /\ c.tables = y.tables
  BY <1>1, <1>8, <1>11, Call
<1> HIDE DEF c, a
<1>13. /\ Sound(c) /\ Extends(y, c) /\ c.memory = y.memory /\ (Clean(y) => Clean(c))
       /\ Data(y) \subseteq Data(c)
  BY <1>12 DEF Grows, Extends
<1>14. Extends(x, c) /\ Extends(m, c) /\ c.user = m.user
  <2>1. Extends(x, c)
    BY <1>5, <1>8, <1>13, ExtendsTransitive
  <2> QED
    BY <1>5, <1>8, <1>12, <2>1, ExtendsTransitive
<1>15. a \in Nat /\ y.kernel.next <= a /\ c.kernel.next = a + StackPages /\ a <= y.kernel.next + 1
  BY <1>12 DEF NewPages
<1>16. Reach(c) <= Reach(m) + 4 * MaxImage + StackPages + 1
  <2>1. c.kernel.next \in Nat /\ c.kernel.next <= y.kernel.next + (StackPages + 1)
    BY <1>1, <1>9, <1>15
  <2>2. StackPages + 1 \in Nat
    BY <1>1
  <2>3. Reach(c) <= Reach(y) + (StackPages + 1)
    BY <1>9, <1>12, <2>1, <2>2, ReachOfSameTables
  <2>4. Reach(c) \in Nat
    BY <1>13, ReachIsNat
  <2> QED
    BY <1>1, <1>9, <1>10, <2>3, <2>4
<1>17. /\ NewSection(m, tp, nt, c)
       /\ \A i \in 1 .. nt : tp[i] \in Nat /\ tp[i] < x.kernel.next
  <2>1. m.kernel.next <= m.kernel.next /\ Data(x) \subseteq Data(c)
    BY <1>8, <1>9, <1>13
  <2>2. NewSection(m, tp, nt, c)
    BY <1>1, <1>5, <1>13, <2>1, NewSectionKept
  <2>3. \A i \in 1 .. nt : tp[i] \in Data(x)
    BY <1>5, ElementOfSeq DEF NewSection
  <2> QED
    BY <1>5, <2>2, <2>3, SoundParts
<1>18. ASSUME nd # 0
       PROVE  /\ NewSection(m, dp, nd, c)
              /\ \A j \in 1 .. nd : dp[j] \in Nat /\ dp[j] >= x.kernel.next /\ dp[j] < y.kernel.next
  <2>1. NewSection(x, dp, nd, y)
    BY <1>6, <1>18 DEF SegmentLoaded
  <2>2. NewSection(m, dp, nd, c)
    BY <1>1, <1>5, <1>8, <1>13, <2>1, NewSectionKept
  <2>3. \A j \in 1 .. nd : dp[j] \in Data(y) /\ dp[j] >= x.kernel.next
    BY <2>1, ElementOfSeq DEF NewSection
  <2> QED
    BY <1>8, <2>2, <2>3, SoundParts
<1>19. ASSUME NEW l \in 1 .. StackPages
       PROVE  /\ a + l - 1 \in Data(c) /\ a + l - 1 >= y.kernel.next /\ a + l - 1 \in Nat
              /\ c.memory[a + l - 1] = Zero
  <2>1. l - 1 \in 0 .. StackPages - 1 /\ a + (l - 1) = a + l - 1 /\ a + l - 1 \in Nat
        /\ a + l - 1 >= y.kernel.next
    BY <1>1, <1>9, <1>15
  <2>2. a + l - 1 \in Data(c)
    BY <1>12, <2>1 DEF NewPages
  <2>3. a + l - 1 \in Page
    BY <1>13, <2>2, SoundParts
  <2>4. y.memory[a + l - 1] = Zero
    BY <1>8, <2>1, <2>3 DEF Sound
  <2> QED
    BY <1>13, <2>1, <2>2, <2>4
<1>20. ASSUME NEW l \in 1 .. StackPages
       PROVE  /\ a + l - 1 >= m.kernel.next
              /\ \A i \in 1 .. nt : tp[i] < a + l - 1
              /\ nd # 0 => \A j \in 1 .. nd : dp[j] < a + l - 1
  BY <1>5, <1>8, <1>9, <1>17, <1>18, <1>19
<1>21. nd # 0 => \A i \in 1 .. nt, j \in 1 .. nd : tp[i] < dp[j]
  BY <1>9, <1>17, <1>18
<1>22. ASSUME ~ IsSplit(tp), ~ IsSplit(dp)
       PROVE  /\ Clean(m) => Clean(c)
              /\ Holds(c, image, "text", tp, nt)
              /\ nd # 0 => Holds(c, image, "data", dp, nd)
  <2>1. (Clean(m) => Clean(x)) /\ Holds(x, image, "text", tp, nt)
    BY <1>3, <1>22 DEF SegmentLoaded
  <2>2. tp \in Seq(Data(x)) /\ Len(tp) = nt
    BY <1>5 DEF NewSection
  <2>3. Holds(c, image, "text", tp, nt)
    BY <1>1, <1>5, <1>14, <2>1, <2>2, HoldsKept
  <2>4. CASE nd = 0
    BY <1>7, <1>13, <2>1, <2>3, <2>4
  <2>5. CASE nd # 0
    <3>1. (Clean(x) => Clean(y)) /\ Holds(y, image, "data", dp, nd)
      BY <1>6, <1>22, <2>5 DEF SegmentLoaded
    <3>2. dp \in Seq(Data(y)) /\ Len(dp) = nd
      BY <1>6, <2>5 DEF SegmentLoaded, NewSection
    <3>3. Holds(c, image, "data", dp, nd)
      BY <1>1, <1>8, <1>13, <3>1, <3>2, HoldsKept
    <3> QED
      BY <1>13, <2>1, <2>3, <3>1, <3>3
  <2> QED
    BY <2>4, <2>5
<1>23. s.machine = c /\ s.p.text = tp /\ s.p.data = dp /\ s.p.stack = a
  BY <1>2
<1>24. ProgramLoaded(m, image, old, s.p, c)
  BY <1>7, <1>14, <1>15, <1>16, <1>17, <1>18, <1>19, <1>20, <1>21, <1>22, <1>23, Zenon DEF ProgramLoaded
<1> QED
  BY <1>2, <1>23, <1>24

-----------------------------------------------------------------------------
(***************************************************************************)
(* Forking.                                                                *)
(***************************************************************************)

\* Pages that are new since m hold what others held in b.
CopiesTo(m, b, from, to, n, c) ==
    /\ Extends(m, c) /\ Wrote(b, c.memory, c) /\ (Clean(b) => Clean(c))
    /\ \A i \in 1 .. n : c.memory[to[i]] = b.memory[from[i]]

\* Copying to new pages.
LEMMA CopiedPages ==
    ASSUME first \in Slot, NEW m, Sound(m), NEW b, Extends(m, b), NEW n \in Nat,
           NEW from, NEW to, DOMAIN to = 1 .. n,
           \A i \in 1 .. n : to[i] \in Data(b) /\ to[i] >= m.kernel.next,
           \A i, j \in 1 .. n : to[i] = to[j] => i = j,
           NEW c, c = Copied(b, from, to)
    PROVE  CopiesTo(m, b, from, to, n, c)
<1> DEFINE Place(q) == CHOOSE i \in 1 .. n : to[i] = q
           g == [q \in Page \cup {Low} |->
                    IF \E i \in 1 .. n : to[i] = q THEN b.memory[from[Place(q)]] ELSE b.memory[q]]
<1>1. Sound(b)
  BY DEF Extends
<1>2. c = [b EXCEPT !.memory = g]
  <2>1. DOMAIN b.memory = Page \cup {Low}
    BY <1>1 DEF Sound
  <2> QED
    BY <2>1 DEF Copied
<1>3. g = [q \in Page \cup {Low} |-> g[q]]
  OBVIOUS
<1>4. \A q \in Data(b) : q \in Page /\ q < b.kernel.next
  BY <1>1, SoundParts
<1> HIDE DEF Place
<1>5. \A q \in Page \cup {Low} : g[q] # b.memory[q] => \E i \in 1 .. n : to[i] = q
  OBVIOUS
<1>6. ASSUME NEW i \in 1 .. n PROVE g[to[i]] = b.memory[from[i]]
  <2>1. to[i] \in Page
    BY <1>4
  <2>2. Place(to[i]) \in 1 .. n /\ to[Place(to[i])] = to[i]
    BY DEF Place
  <2>3. Place(to[i]) = i
    BY <2>2
  <2> QED
    BY <2>1, <2>3
<1> HIDE DEF g
<1>7. \A q \in Page \cup {Low} :
         g[q] # b.memory[q] => q >= m.kernel.next /\ q < b.kernel.next /\ q \in Data(b)
  BY <1>4, <1>5
<1>8. Extends(m, c) /\ Wrote(b, g, c)
  BY <1>2, <1>3, <1>7, WriteNew
<1>9. Clean(b) => Clean(c)
  BY <1>1, <1>7, <1>8, WriteClean
<1>10. c.memory = g
  BY <1>8 DEF Wrote
<1> QED
  BY <1>6, <1>8, <1>9, <1>10 DEF CopiesTo

\* A section's copy in new pages.
SectionForked(m, pages, copy, c) ==
    /\ Extends(m, c) /\ c.user = m.user /\ (Clean(m) => Clean(c))
    /\ Reach(c) <= Reach(m) + 2 + 2 * Len(pages)
    /\ NewSection(m, copy, Len(pages), c)
    /\ \A i \in 1 .. Len(pages) : c.memory[copy[i]] = m.memory[pages[i]]

\* One page is allocated for a table that is not used, and then those of the section.
LEMMA SectionIsForked ==
    ASSUME first \in Slot, NEW m, Sound(m), NEW pages \in Seq(Data(m)),
           Reach(m) + 2 + 2 * Len(pages) < MaxPage, NEW s, s = ForkSection(m, pages)
    PROVE  SectionForked(m, pages, s.pages, s.machine)
<1> DEFINE n == Len(pages)
           b == page_allocate_kernel(m, 1)
           t == AllocateSection(b, n)
           c == Copied(t.machine, pages, t.pages)
<1>1. n \in Nat /\ Reach(m) \in Nat /\ MaxPage \in Nat /\ m.kernel.next \in Nat
      /\ m.kernel.next <= Reach(m)
  BY ReachIsNat, TableLength, LenProperties, SoundParts
<1>2. s = [t EXCEPT !.machine = c]
  BY DEF ForkSection
<1> HIDE DEF n
<1>3. m.kernel.next + 1 + 1 < MaxPage
  BY <1>1 DEF n
<1>4. Grows(m, b) /\ NewPages(m, Taken(m), 1, b) /\ b.user = m.user /\ b.tables = m.tables
  BY <1>3, Call, OnePageFits
<1> HIDE DEF b
<1>5. Sound(b) /\ Extends(m, b) /\ b.memory = m.memory /\ m.kernel.next <= b.kernel.next
      /\ Data(m) \subseteq Data(b) /\ (Clean(m) => Clean(b))
  BY <1>4 DEF Grows, Extends
<1>6. Reach(b) <= Reach(m) + 2 /\ Reach(b) \in Nat
  <2>1. b.kernel.next \in Nat
    BY <1>5, SoundParts
  <2>2. b.kernel.next <= m.kernel.next + 2
    BY <1>1, <1>4, <2>1 DEF NewPages
  <2> QED
    BY <1>1, <1>4, <1>5, <2>1, <2>2, ReachOfSameTables, ReachIsNat
<1>7. Reach(b) + 2 * n < MaxPage
  BY <1>1, <1>6 DEF n
<1>8. /\ t = [machine |-> t.machine, pages |-> t.pages]
      /\ Grows(b, t.machine) /\ t.machine.user = b.user
      /\ Reach(t.machine) <= Reach(b) + 2 * n
      /\ NewSection(b, t.pages, n, t.machine)
  BY <1>1, <1>5, <1>7, AllocateSectionGrows
<1> HIDE DEF t
<1>9. s.machine = c /\ s.pages = t.pages
  <2> HIDE DEF c
  <2> QED
    BY <1>2, <1>8
<1>10. /\ Sound(t.machine) /\ Extends(b, t.machine) /\ t.machine.memory = m.memory
       /\ (Clean(m) => Clean(t.machine))
  BY <1>5, <1>8 DEF Grows, Extends
<1>11. Extends(m, t.machine)
  BY <1>5, <1>10, ExtendsTransitive
<1>12. NewSection(m, t.pages, n, t.machine)
  BY <1>1, <1>5, <1>8, <1>10, NewSectionKept
<1>13. /\ DOMAIN t.pages = 1 .. n
       /\ \A i \in 1 .. n : t.pages[i] \in Data(t.machine) /\ t.pages[i] >= m.kernel.next
  <2>1. t.pages \in Seq(Data(t.machine)) /\ Len(t.pages) = n
    BY <1>12 DEF NewSection
  <2> QED
    BY <1>12, <2>1, ElementOfSeq, LenProperties DEF NewSection
<1>14. \A i, j \in 1 .. n : t.pages[i] = t.pages[j] => i = j
  <2>1. \A i \in 1 .. n : t.pages[i] \in Nat
    BY <1>10, <1>13, SoundParts
  <2>2. \A i, j \in 1 .. n : i < j => t.pages[i] < t.pages[j]
    BY <1>12 DEF NewSection
  <2> QED
    BY <1>1, <2>1, <2>2, SMTT(20)
<1>14a. c = Copied(t.machine, pages, t.pages)
  OBVIOUS
<1> HIDE DEF c
<1>15. CopiesTo(m, t.machine, pages, t.pages, n, c)
  BY <1>1, <1>11, <1>13, <1>14, <1>14a, CopiedPages
<1>16. Data(c) = Data(t.machine) /\ Reach(c) = Reach(t.machine)
  BY <1>15, WroteSame DEF CopiesTo
<1>17. NewSection(m, t.pages, n, c)
  BY <1>12, <1>16 DEF NewSection
<1>18. Reach(c) <= Reach(m) + 2 + 2 * n
  <2>1. Reach(t.machine) \in Nat
    BY <1>10, ReachIsNat
  <2> QED
    BY <1>1, <1>6, <1>8, <1>16, <2>1
<1>19. c.user = m.user
  BY <1>4, <1>8, <1>15 DEF CopiesTo, Wrote
<1>20. \A i \in 1 .. n : c.memory[t.pages[i]] = m.memory[pages[i]]
  BY <1>10, <1>15 DEF CopiesTo
<1>21. Clean(m) => Clean(c)
  BY <1>10, <1>15 DEF CopiesTo
<1> QED
  BY <1>9, <1>15, <1>17, <1>18, <1>19, <1>20, <1>21 DEF CopiesTo, SectionForked, n

\* A process's copy: its stack, its data and its text in pages of their own that hold
\* what the process's hold.
ProcessForked(m, p, r, c) ==
    /\ Extends(m, c) /\ c.user = m.user /\ (Clean(m) => Clean(c))
    /\ NewSection(m, r.text, Len(p.text), c) /\ NewSection(m, r.data, Len(p.data), c)
    /\ r.stack \in Nat
    /\ \A l \in 1 .. StackPages :
          /\ r.stack + l - 1 \in Data(c) /\ r.stack + l - 1 >= m.kernel.next
          /\ \A i \in 1 .. Len(p.text) : r.stack + l - 1 < r.text[i]
          /\ \A i \in 1 .. Len(p.data) : r.stack + l - 1 < r.data[i]
    /\ \A i \in 1 .. Len(p.data), j \in 1 .. Len(p.text) : r.data[i] < r.text[j]
    /\ \A i \in 1 .. Len(p.text) : c.memory[r.text[i]] = m.memory[p.text[i]]
    /\ \A i \in 1 .. Len(p.data) : c.memory[r.data[i]] = m.memory[p.data[i]]
    /\ \A l \in 1 .. StackPages : c.memory[r.stack + l - 1] = m.memory[p.stack + l - 1]

LEMMA ProcessIsForked ==
    ASSUME first \in Slot, NEW m, Sound(m), NEW p \in Processes,
           p.text \in Seq(Data(m)), p.data \in Seq(Data(m)),
           Len(p.text) <= MaxImage, Len(p.data) <= MaxImage, MaxImage \in Nat,
           Reach(m) + 4 * MaxImage + StackPages + 5 < MaxPage,
           NEW a, a = Taken(m), NEW to, to = [i \in 1 .. StackPages |-> a + i - 1],
           NEW b, b = Copied(page_allocate_kernel(m, StackPages), StackOf(p), to),
           NEW d, d = ForkSection(b, p.data), NEW t, t = ForkSection(d.machine, p.text),
           NEW r, r = [text |-> t.pages, data |-> d.pages, stack |-> a, spill |-> p.spill]
    PROVE  ProcessForked(m, p, r, t.machine)
<1> DEFINE nt == Len(p.text)
           nd == Len(p.data)
           b0 == page_allocate_kernel(m, StackPages)
           y == d.machine
           c == t.machine
<1>1. /\ nt \in Nat /\ nd \in Nat /\ nt <= MaxImage /\ nd <= MaxImage
      /\ StackPages \in Nat \ {0} /\ StackPages \in 1 .. ENTRIES - 1
      /\ Reach(m) \in Nat /\ MaxPage \in Nat /\ m.kernel.next \in Nat /\ m.kernel.next <= Reach(m)
      /\ Data(m) \subseteq Data(m)
      /\ \A q \in Data(m) : q \in Page /\ q < m.kernel.next
  BY StackSize, ReachIsNat, TableLength, LenProperties, SoundParts
<1>1a. StackPages \in Nat /\ Reach(m) \in Nat /\ MaxPage \in Nat /\ m.kernel.next \in Nat
  BY <1>1
<1>1b. nt \in Nat /\ nd \in Nat /\ nt <= MaxImage /\ nd <= MaxImage
  BY <1>1
<1>2. m.kernel.next + StackPages + 1 < MaxPage
  BY <1>1, SMTT(20)
<1>3. Grows(m, b0) /\ NewPages(m, a, StackPages, b0) /\ b0.user = m.user /\ b0.tables = m.tables
  BY <1>1, <1>2, Call
<1>4. b = Copied(b0, StackOf(p), to)
  OBVIOUS
<1> HIDE DEF b0
<1>5. Sound(b0) /\ Extends(m, b0) /\ b0.memory = m.memory /\ (Clean(m) => Clean(b0))
  BY <1>3 DEF Grows, Extends
<1>6. /\ a \in Nat /\ m.kernel.next <= a /\ b0.kernel.next = a + StackPages /\ a <= m.kernel.next + 1
      /\ \A i \in 0 .. StackPages - 1 : a + i \in Data(b0) /\ a + i >= m.kernel.next
  BY <1>3 DEF NewPages
<1>7. /\ DOMAIN to = 1 .. StackPages
      /\ \A i \in 1 .. StackPages : to[i] = a + i - 1
      /\ \A i \in 1 .. StackPages : to[i] \in Data(b0) /\ to[i] >= m.kernel.next
      /\ \A i, j \in 1 .. StackPages : to[i] = to[j] => i = j
  <2>1. DOMAIN to = 1 .. StackPages /\ \A i \in 1 .. StackPages : to[i] = a + i - 1
    OBVIOUS
  <2>2. \A i \in 1 .. StackPages : i - 1 \in 0 .. StackPages - 1 /\ a + (i - 1) = a + i - 1
    BY <1>1, <1>6
  <2>3. \A i \in 1 .. StackPages : to[i] \in Data(b0) /\ to[i] >= m.kernel.next
    BY <1>6, <2>1, <2>2
  <2>4. \A i, j \in 1 .. StackPages : a + i - 1 = a + j - 1 => i = j
    BY <1>1, <1>6
  <2>5. \A i, j \in 1 .. StackPages : to[i] = to[j] => i = j
    BY <2>1, <2>4
  <2> QED
    BY <2>1, <2>3, <2>5
<1>8. CopiesTo(m, b0, StackOf(p), to, StackPages, b)
  BY <1>1, <1>4, <1>5, <1>7, CopiedPages
<1>9. /\ Extends(m, b) /\ Sound(b) /\ Data(m) \subseteq Data(b) /\ m.kernel.next <= b.kernel.next
      /\ Data(b) = Data(b0) /\ Reach(b) = Reach(b0) /\ b.user = m.user
      /\ b.kernel.next = a + StackPages /\ (Clean(m) => Clean(b))
      /\ \A i \in 1 .. StackPages : b.memory[a + i - 1] = m.memory[p.stack + i - 1]
  <2>1. Extends(m, b) /\ Wrote(b0, b.memory, b) /\ (Clean(b0) => Clean(b))
        /\ \A i \in 1 .. StackPages : b.memory[to[i]] = b0.memory[StackOf(p)[i]]
    BY <1>8 DEF CopiesTo
  <2>2. \A i \in 1 .. StackPages : StackOf(p)[i] = p.stack + i - 1
    BY DEF StackOf
  <2>3. \A i \in 1 .. StackPages : b.memory[a + i - 1] = m.memory[p.stack + i - 1]
    BY <1>5, <1>7, <2>1, <2>2
  <2>4. Data(b) = Data(b0) /\ Reach(b) = Reach(b0)
    BY <2>1, WroteSame
  <2> QED
    BY <1>3, <1>5, <1>6, <2>1, <2>3, <2>4 DEF Extends, Wrote
<1>10. Reach(b) <= Reach(m) + (StackPages + 1) /\ Reach(b) \in Nat
  <2>1. a \in Nat /\ a <= m.kernel.next + 1 /\ b0.kernel.next = a + StackPages
    BY <1>6
  <2>2. b0.kernel.next \in Nat /\ b0.kernel.next <= m.kernel.next + (StackPages + 1)
        /\ StackPages + 1 \in Nat
    <3>1. a + StackPages \in Nat /\ StackPages + 1 \in Nat
      BY <1>1a, <2>1, SMTT(20)
    <3>2. a + StackPages <= m.kernel.next + (StackPages + 1)
      BY <1>1a, <2>1
    <3> QED
      BY <2>1, <3>1, <3>2
  <2> QED
    BY <1>1, <1>3, <1>9, <2>2, ReachOfSameTables, ReachIsNat
\* The data.
<1>11. SectionForked(b, p.data, d.pages, y)
  <2>1. p.data \in Seq(Data(b))
    BY <1>9
  <2>2. Reach(b) + 2 + 2 * nd < MaxPage
    BY <1>1, <1>10, SMTT(20)
  <2> QED
    BY <1>9, <2>1, <2>2, SectionIsForked
<1>12. /\ Extends(b, y) /\ Sound(y) /\ Data(b) \subseteq Data(y) /\ b.kernel.next <= y.kernel.next
       /\ y.user = b.user /\ (Clean(b) => Clean(y)) /\ Reach(y) <= Reach(b) + 2 + 2 * nd
       /\ NewSection(b, d.pages, nd, y)
       /\ \A i \in 1 .. nd : y.memory[d.pages[i]] = b.memory[p.data[i]]
  BY <1>11 DEF SectionForked, Extends
<1>13. Extends(m, y) /\ Data(m) \subseteq Data(y) /\ Reach(y) \in Nat /\ m.kernel.next <= y.kernel.next
  <2>1. Extends(m, y)
    BY <1>9, <1>12, ExtendsTransitive, SMTT(20)
  <2> QED
    BY <1>12, <2>1, ReachIsNat DEF Extends
\* The text.
<1>14. SectionForked(y, p.text, t.pages, c)
  <2>1. p.text \in Seq(Data(y))
    BY <1>13
  <2>2. Reach(y) + 2 + 2 * nt < MaxPage
    <3>1. Reach(y) <= Reach(b) + 2 + 2 * nd /\ Reach(y) \in Nat
      BY <1>12, <1>13
    <3> HIDE DEF nt, nd, y
    <3>2. Reach(y) <= Reach(m) + (StackPages + 1) + 2 + 2 * nd
      BY <1>1a, <1>1b, <1>10, <3>1
    <3>3. 2 * nd + 2 * nt <= 4 * MaxImage
      BY <1>1b
    <3> QED
      BY <1>1a, <1>1b, <3>1, <3>2, <3>3, SMTT(20)
  <2> QED
    BY <1>12, <2>1, <2>2, SectionIsForked
<1>15. /\ Extends(y, c) /\ Sound(c) /\ Data(y) \subseteq Data(c)
       /\ c.user = y.user /\ (Clean(y) => Clean(c))
       /\ NewSection(y, t.pages, nt, c)
       /\ \A i \in 1 .. nt : c.memory[t.pages[i]] = y.memory[p.text[i]]
  BY <1>14 DEF SectionForked, Extends
<1>16. Extends(m, c) /\ Extends(b, c)
  BY <1>9, <1>12, <1>13, <1>15, ExtendsTransitive
<1>17. r.text = t.pages /\ r.data = d.pages /\ r.stack = a
  OBVIOUS
<1> HIDE DEF nt, nd, y, c
<1>18. NewSection(m, r.text, nt, c) /\ NewSection(m, r.data, nd, c)
  <2>1. NewSection(m, t.pages, nt, c)
    BY <1>1, <1>12, <1>13, <1>15, NewSectionKept
  <2>2. NewSection(m, d.pages, nd, c)
    BY <1>1, <1>9, <1>12, <1>15, NewSectionKept
  <2> QED
    BY <1>17, <2>1, <2>2
<1>19. /\ b.kernel.next \in Nat /\ y.kernel.next \in Nat
       /\ \A i \in 1 .. nd : /\ r.data[i] \in Page /\ r.data[i] \in Nat
                             /\ r.data[i] >= b.kernel.next /\ r.data[i] < y.kernel.next
       /\ \A i \in 1 .. nt : r.text[i] \in Nat /\ r.text[i] >= y.kernel.next
  <2>1. \A i \in 1 .. nd : d.pages[i] \in Data(y) /\ d.pages[i] >= b.kernel.next
    BY <1>12, ElementOfSeq DEF NewSection
  <2>2. \A i \in 1 .. nt : t.pages[i] \in Data(c) /\ t.pages[i] >= y.kernel.next
    BY <1>15, ElementOfSeq DEF NewSection
  <2>3. \A q \in Data(y) : q \in Page /\ q \in Nat /\ q < y.kernel.next
    BY <1>12, SoundParts
  <2>4. \A q \in Data(c) : q \in Nat
    BY <1>15, SoundParts
  <2>5. b.kernel.next \in Nat /\ y.kernel.next \in Nat
    BY <1>9, <1>12, SoundParts
  <2> QED
    BY <1>17, <2>1, <2>2, <2>3, <2>4, <2>5
<1>20. ASSUME NEW l \in 1 .. StackPages
       PROVE  /\ a + l - 1 \in Data(c) /\ a + l - 1 >= m.kernel.next
              /\ a + l - 1 \in Page /\ a + l - 1 < b.kernel.next
              /\ \A i \in 1 .. nt : a + l - 1 < r.text[i]
              /\ \A i \in 1 .. nd : a + l - 1 < r.data[i]
  <2>1. a + l - 1 \in Data(b) /\ a + l - 1 >= m.kernel.next
    BY <1>7, <1>9
  <2>2. a + l - 1 \in Page
    BY <1>9, <2>1, SoundParts
  <2>3. a + l - 1 < b.kernel.next /\ a + l - 1 \in Nat
    BY <1>1, <1>6, <1>9, SMTT(20)
  <2>4. \A x \in Nat : x >= b.kernel.next => a + l - 1 < x
    BY <1>19, <2>3
  <2>5. \A i \in 1 .. nd : a + l - 1 < r.data[i]
    <3>1. \A i \in 1 .. nd : r.data[i] \in Nat /\ r.data[i] >= b.kernel.next
      BY <1>19
    <3> QED
      BY <2>4, <3>1
  <2>6. \A i \in 1 .. nt : r.text[i] >= b.kernel.next
    BY <1>12, <1>19, SMTT(20)
  <2>7. \A i \in 1 .. nt : a + l - 1 < r.text[i]
    BY <1>19, <2>4, <2>6
  <2> QED
    BY <1>12, <1>15, <2>1, <2>2, <2>3, <2>5, <2>7
<1>21. \A i \in 1 .. nd, j \in 1 .. nt : r.data[i] < r.text[j]
  <2>1. SUFFICES ASSUME NEW i \in 1 .. nd, NEW j \in 1 .. nt PROVE r.data[i] < r.text[j]
    OBVIOUS
  <2>2. r.data[i] \in Nat /\ r.data[i] < y.kernel.next /\ y.kernel.next \in Nat
    BY <1>19
  <2>3. r.text[j] \in Nat /\ r.text[j] >= y.kernel.next
    BY <1>19
  <2> QED
    BY <2>2, <2>3
<1>22. \A i \in 1 .. nt : c.memory[r.text[i]] = m.memory[p.text[i]]
  <2>1. \A i \in 1 .. nt : p.text[i] \in Data(m)
    BY ElementOfSeq DEF nt
  <2>2. \A q \in Data(m) : y.memory[q] = m.memory[q]
    BY <1>1, <1>13 DEF Extends
  <2> QED
    BY <1>15, <1>17, <2>1, <2>2
<1>23. \A i \in 1 .. nd : c.memory[r.data[i]] = m.memory[p.data[i]]
  <2>1. \A i \in 1 .. nd : p.data[i] \in Data(m)
    BY ElementOfSeq DEF nd
  <2>2. \A i \in 1 .. nd : y.memory[r.data[i]] = m.memory[p.data[i]]
    BY <1>1, <1>9, <1>12, <1>17, <2>1, ZenonT(30) DEF Extends
  <2>3. \A i \in 1 .. nd : c.memory[r.data[i]] = y.memory[r.data[i]]
    BY <1>15, <1>19 DEF Extends
  <2> QED
    BY <2>2, <2>3
<1>24. \A l \in 1 .. StackPages : c.memory[a + l - 1] = m.memory[p.stack + l - 1]
  BY <1>9, <1>16, <1>20 DEF Extends
<1>25. c.user = m.user /\ (Clean(m) => Clean(c))
  BY <1>9, <1>12, <1>15
<1> QED
  BY <1>6, <1>16, <1>17, <1>18, <1>20, <1>21, <1>22, <1>23, <1>24, <1>25, Zenon DEF ProcessForked, nt, nd, c

-----------------------------------------------------------------------------
(***************************************************************************)
(* The pages of a process.                                                 *)
(***************************************************************************)

\* A user address is in a section or in the stack.
LEMMA VaddrCases ==
    ASSUME NEW v \in Vaddr
    PROVE  \/ \E i \in 1 .. MaxImage + 1 : v = <<"text", i>>
           \/ \E i \in 1 .. MaxImage + 1 : v = <<"data", i>>
           \/ \E l \in 1 .. StackPages : v = <<"stack", l>>
  BY DEF Vaddr

LEMMA PagesOfProcess ==
    ASSUME NEW r \in Processes, Len(r.text) <= MaxImage, Len(r.data) <= MaxImage
    PROVE  /\ \A i \in 1 .. Len(r.text) : <<"text", i>> \in OwnOf(r) /\ PageOf(r, <<"text", i>>) = r.text[i]
           /\ \A i \in 1 .. Len(r.data) : <<"data", i>> \in OwnOf(r) /\ PageOf(r, <<"data", i>>) = r.data[i]
           /\ \A l \in 1 .. StackPages :
                 <<"stack", l>> \in OwnOf(r) /\ PageOf(r, <<"stack", l>>) = r.stack + l - 1
           /\ \A v \in OwnOf(r) : \/ \E i \in 1 .. Len(r.text) : v = <<"text", i>>
                                  \/ \E i \in 1 .. Len(r.data) : v = <<"data", i>>
                                  \/ \E l \in 1 .. StackPages : v = <<"stack", l>>
<1>1. MaxImage \in Nat /\ Len(r.text) \in Nat /\ Len(r.data) \in Nat
  BY ImageAssumption, EntriesAssumption, LenProperties DEF Processes
<1>2. r["text"] = r.text /\ r["data"] = r.data
  BY DEF Processes
<1>3. ASSUME NEW i \in 1 .. Len(r.text)
      PROVE  <<"text", i>> \in OwnOf(r) /\ PageOf(r, <<"text", i>>) = r.text[i]
  <2>1. <<"text", i>> \in Vaddr
    BY <1>1 DEF Vaddr
  <2> QED
    BY <1>2, <2>1 DEF OwnOf, PageOf
<1>4. ASSUME NEW i \in 1 .. Len(r.data)
      PROVE  <<"data", i>> \in OwnOf(r) /\ PageOf(r, <<"data", i>>) = r.data[i]
  <2>1. <<"data", i>> \in Vaddr
    BY <1>1 DEF Vaddr
  <2> QED
    BY <1>2, <2>1 DEF OwnOf, PageOf
<1>5. ASSUME NEW l \in 1 .. StackPages
      PROVE  <<"stack", l>> \in OwnOf(r) /\ PageOf(r, <<"stack", l>>) = r.stack + l - 1
  <2>1. <<"stack", l>> \in Vaddr
    BY DEF Vaddr
  <2> QED
    BY <2>1 DEF OwnOf, PageOf
<1>6. ASSUME NEW v \in OwnOf(r)
      PROVE  \/ \E i \in 1 .. Len(r.text) : v = <<"text", i>>
             \/ \E i \in 1 .. Len(r.data) : v = <<"data", i>>
             \/ \E l \in 1 .. StackPages : v = <<"stack", l>>
  <2>1. v \in Vaddr /\ (v[1] = "stack" \/ v[2] <= Len(r[v[1]]))
    BY DEF OwnOf
  <2>2. CASE \E i \in 1 .. MaxImage + 1 : v = <<"text", i>>
    <3>1. PICK i \in 1 .. MaxImage + 1 : v = <<"text", i>>
      BY <2>2
    <3>2. i <= Len(r.text)
      BY <1>2, <2>1, <3>1
    <3>3. i \in 1 .. Len(r.text)
      BY <1>1, <3>2
    <3> QED
      BY <3>1, <3>3
  <2>3. CASE \E i \in 1 .. MaxImage + 1 : v = <<"data", i>>
    <3>1. PICK i \in 1 .. MaxImage + 1 : v = <<"data", i>>
      BY <2>3
    <3>2. i <= Len(r.data)
      BY <1>2, <2>1, <3>1
    <3>3. i \in 1 .. Len(r.data)
      BY <1>1, <3>2
    <3> QED
      BY <3>1, <3>3
  <2> QED
    BY <2>1, <2>2, <2>3, VaddrCases
<1> QED
  BY <1>3, <1>4, <1>5, <1>6

\* Pages that are different in each section and from section to section.
LEMMA PagesDiffer ==
    ASSUME NEW r \in Processes, Len(r.text) <= MaxImage, Len(r.data) <= MaxImage, r.stack \in Nat,
           \A i, j \in 1 .. Len(r.text) : r.text[i] = r.text[j] => i = j,
           \A i, j \in 1 .. Len(r.data) : r.data[i] = r.data[j] => i = j,
           \A i \in 1 .. Len(r.text), j \in 1 .. Len(r.data) : r.text[i] # r.data[j],
           \A i \in 1 .. Len(r.text), l \in 1 .. StackPages : r.text[i] # r.stack + l - 1,
           \A i \in 1 .. Len(r.data), l \in 1 .. StackPages : r.data[i] # r.stack + l - 1,
           NEW v \in OwnOf(r), NEW w \in OwnOf(r), PageOf(r, v) = PageOf(r, w)
    PROVE  v = w
<1>1. /\ \A i \in 1 .. Len(r.text) : PageOf(r, <<"text", i>>) = r.text[i]
      /\ \A i \in 1 .. Len(r.data) : PageOf(r, <<"data", i>>) = r.data[i]
      /\ \A l \in 1 .. StackPages : PageOf(r, <<"stack", l>>) = r.stack + l - 1
  BY PagesOfProcess
<1>2. /\ \/ \E i \in 1 .. Len(r.text) : v = <<"text", i>>
         \/ \E i \in 1 .. Len(r.data) : v = <<"data", i>>
         \/ \E l \in 1 .. StackPages : v = <<"stack", l>>
      /\ \/ \E i \in 1 .. Len(r.text) : w = <<"text", i>>
         \/ \E i \in 1 .. Len(r.data) : w = <<"data", i>>
         \/ \E l \in 1 .. StackPages : w = <<"stack", l>>
  BY PagesOfProcess
<1>3. \A l, k \in 1 .. StackPages : r.stack + l - 1 = r.stack + k - 1 => l = k
  BY StackSize
<1>4. CASE \E i \in 1 .. Len(r.text) : v = <<"text", i>>
  BY <1>1, <1>2, <1>4, SMTT(20)
<1>5. CASE \E i \in 1 .. Len(r.data) : v = <<"data", i>>
  BY <1>1, <1>2, <1>5
<1>6. CASE \E l \in 1 .. StackPages : v = <<"stack", l>>
  BY <1>1, <1>2, <1>3, <1>6, SMTT(20)
<1> QED
  BY <1>2, <1>4, <1>5, <1>6

\* A sequence is one of whatever its elements are.
LEMMA SeqInto ==
    ASSUME NEW S, NEW s \in Seq(S), NEW T, \A i \in 1 .. Len(s) : s[i] \in T
    PROVE  s \in Seq(T)
  OBVIOUS

\* A process is given other pages in c, new ones or those it has had at the same
\* address; they hold x unless something has been stored or set aside between them.
GivenPages(m, pr, cur, vw, sp, beyond, p, r, x, sq, c) ==
    /\ Sound(m) /\ Extends(m, c) /\ Consistent(m, pr, cur, vw, sp, beyond)
    /\ p \in Proc /\ r \in Processes /\ r.stack \in Nat
    /\ Len(r.text) <= MaxImage /\ Len(r.data) <= MaxImage
    /\ x = [v \in Vaddr |-> x[v]] /\ sp \subseteq sq /\ sq \subseteq sp \cup {p}
    /\ \A v \in OwnOf(r) : PageOf(r, v) \in Data(c)
    /\ \A v \in OwnOf(r) :
          \/ PageOf(r, v) >= m.kernel.next
          \/ p \in CreatedIn(pr) /\ v \in OwnOf(pr[p]) /\ PageOf(r, v) = PageOf(pr[p], v)
    /\ \A v, w \in OwnOf(r) : PageOf(r, v) = PageOf(r, w) => v = w
    /\ cur = p => \A v \in OwnOf(r) : c.user[v] = PageOf(r, v)
    /\ cur = None \/ cur = p \/ c.user = m.user
    /\ beyond \/ p \in sq \/ \A v \in OwnOf(r) : c.memory[PageOf(r, v)] = x[v]
    /\ sq # {} \/ (Clean(m) => Clean(c))

LEMMA ProcessReplaced ==
    ASSUME first \in Slot, NEW m, NEW pr, NEW cur, NEW vw, NEW sp, NEW beyond, NEW p, NEW r,
           NEW x, NEW sq, NEW c, GivenPages(m, pr, cur, vw, sp, beyond, p, r, x, sq, c)
    PROVE  Consistent(c, [pr EXCEPT ![p] = r], cur, [vw EXCEPT ![p] = x], sq, beyond)
<1> DEFINE pw == [pr EXCEPT ![p] = r]
           vx == [vw EXCEPT ![p] = x]
<1>a. /\ Sound(m) /\ Extends(m, c) /\ Consistent(m, pr, cur, vw, sp, beyond)
      /\ p \in Proc /\ r \in Processes /\ r.stack \in Nat
      /\ Len(r.text) <= MaxImage /\ Len(r.data) <= MaxImage
      /\ x = [v \in Vaddr |-> x[v]] /\ sp \subseteq sq /\ sq \subseteq sp \cup {p}
  BY DEF GivenPages
<1>b. pw = [pr EXCEPT ![p] = r] /\ vx = [vw EXCEPT ![p] = x]
  OBVIOUS
<1> HIDE DEF pw, vx
<1> USE <1>a, <1>b
<1>0. /\ \A v \in OwnOf(r) : PageOf(r, v) \in Data(c)
      /\ \A v \in OwnOf(r) :
            \/ PageOf(r, v) >= m.kernel.next
            \/ p \in CreatedIn(pr) /\ v \in OwnOf(pr[p]) /\ PageOf(r, v) = PageOf(pr[p], v)
      /\ \A v, w \in OwnOf(r) : PageOf(r, v) = PageOf(r, w) => v = w
      /\ cur = p => \A v \in OwnOf(r) : c.user[v] = PageOf(r, v)
      /\ cur = None \/ cur = p \/ c.user = m.user
      /\ beyond \/ p \in sq \/ \A v \in OwnOf(r) : c.memory[PageOf(r, v)] = x[v]
      /\ sq # {} \/ (Clean(m) => Clean(c))
  BY DEF GivenPages
<1>1. pr \in [Proc -> Processes] /\ pw \in [Proc -> Processes]
      /\ \A q \in Proc : pw[q] = IF q = p THEN r ELSE pr[q]
  BY DEF Consistent
<1>2. \A q \in CreatedIn(pw) : q = p \/ (q # p /\ q \in CreatedIn(pr) /\ pw[q] = pr[q])
  BY <1>1 DEF CreatedIn
<1>3. CreatedIn(pr) \subseteq CreatedIn(pw) /\ p \in CreatedIn(pw) /\ pw[p] = r
  BY <1>1 DEF CreatedIn, None
<1>4. \A q \in Data(m) : q \in Nat /\ q \in Page /\ q < m.kernel.next /\ c.memory[q] = m.memory[q]
      /\ q \in Data(c)
  BY SoundParts DEF Extends
<1>5. m.kernel.next \in Nat
  BY SoundParts
<1>6. \A q \in CreatedIn(pr) : \A v \in OwnOf(pr[q]) : PageOf(pr[q], v) \in Data(m)
  BY DEF Consistent
<1>7. \A q \in CreatedIn(pw) : \A v \in OwnOf(pw[q]) : PageOf(pw[q], v) \in Data(c)
  BY <1>0, <1>2, <1>3, <1>4, <1>6
<1>8. ASSUME NEW q \in CreatedIn(pr), NEW s \in CreatedIn(pr),
             NEW v \in OwnOf(pr[q]), NEW w \in OwnOf(pr[s]), PageOf(pr[q], v) = PageOf(pr[s], w)
      PROVE  q = s /\ v = w
  <2>1. Apart(pr)
    BY DEF Consistent
  <2>2. \A v1 \in OwnOf(pr[q]), w1 \in OwnOf(pr[s]) :
           PageOf(pr[q], v1) = PageOf(pr[s], w1) => q = s /\ v1 = w1
    BY <2>1, Zenon DEF Apart
  <2> QED
    BY <1>8, <2>2, Zenon
<1>8a. ASSUME NEW q \in CreatedIn(pr), NEW v \in OwnOf(r), NEW w \in OwnOf(pr[q]), q # p,
              PageOf(r, v) = PageOf(pr[q], w)
       PROVE  FALSE
  <2>1. PageOf(pr[q], w) \in Nat /\ PageOf(pr[q], w) < m.kernel.next
    BY <1>4, <1>6
  <2>2. ~ (PageOf(r, v) >= m.kernel.next)
    BY <1>5, <1>8a, <2>1
  <2>3. p \in CreatedIn(pr) /\ v \in OwnOf(pr[p]) /\ PageOf(r, v) = PageOf(pr[p], v)
    BY <1>0, <2>2
  <2>4. PageOf(pr[p], v) = PageOf(pr[q], w)
    BY <1>8a, <2>3, Zenon
  <2>5. p = q
    BY <1>8, <2>3, <2>4
  <2> QED
    BY <1>8a, <2>5
<1>9. Apart(pw)
  <2>1. SUFFICES ASSUME NEW q \in CreatedIn(pw), NEW s \in CreatedIn(pw),
                        NEW v \in OwnOf(pw[q]), NEW w \in OwnOf(pw[s]),
                        PageOf(pw[q], v) = PageOf(pw[s], w)
                 PROVE  q = s /\ v = w
    BY DEF Apart
  <2>2. CASE q = p /\ s = p
    <3>1. v \in OwnOf(r) /\ w \in OwnOf(r) /\ PageOf(r, v) = PageOf(r, w)
      BY <1>3, <2>1, <2>2, Zenon
    <3> QED
      BY <1>0, <2>2, <3>1
  <2>3. CASE q = p /\ s # p
    <3>1. s \in CreatedIn(pr) /\ pw[s] = pr[s]
      BY <1>2, <2>3
    <3>2. v \in OwnOf(r) /\ w \in OwnOf(pr[s]) /\ PageOf(r, v) = PageOf(pr[s], w)
      BY <1>3, <2>1, <2>3, <3>1, Zenon
    <3> QED
      BY <1>8a, <2>3, <3>1, <3>2
  <2>4. CASE q # p /\ s = p
    <3>1. q \in CreatedIn(pr) /\ pw[q] = pr[q]
      BY <1>2, <2>4
    <3>2. w \in OwnOf(r) /\ v \in OwnOf(pr[q]) /\ PageOf(r, w) = PageOf(pr[q], v)
      BY <1>3, <2>1, <2>4, <3>1, Zenon
    <3> QED
      BY <1>8a, <2>4, <3>1, <3>2
  <2>5. CASE q # p /\ s # p
    <3>1. /\ q \in CreatedIn(pr) /\ pw[q] = pr[q]
          /\ s \in CreatedIn(pr) /\ pw[s] = pr[s]
      BY <1>2, <2>5
    <3>2. v \in OwnOf(pr[q]) /\ w \in OwnOf(pr[s]) /\ PageOf(pr[q], v) = PageOf(pr[s], w)
      BY <2>1, <3>1, Zenon
    <3> QED
      BY <1>8, <3>1, <3>2, SMTT(20)
  <2> QED
    BY <2>2, <2>3, <2>4, <2>5
<1>10. \A q \in Proc : Len(pw[q].text) <= MaxImage /\ Len(pw[q].data) <= MaxImage
  BY <1>1 DEF Consistent
<1>11. vx = [q \in Proc |-> [v \in Vaddr |-> vx[q][v]]] /\ vx[p] = x
       /\ \A q \in Proc : q # p => vx[q] = vw[q]
  <2>1. vw = [q \in Proc |-> [v \in Vaddr |-> vw[q][v]]]
    BY DEF Consistent
  <2>2. DOMAIN vw = Proc
    BY <2>1
  <2>3. vx = [q \in Proc |-> vx[q]] /\ vx[p] = x /\ \A q \in Proc : q # p => vx[q] = vw[q]
    BY <2>2
  <2>4. \A q \in Proc : vw[q] = [v \in Vaddr |-> vw[q][v]]
    BY <2>1
  <2>5. \A q \in Proc : vx[q] = [v \in Vaddr |-> vx[q][v]]
    BY <2>3, <2>4
  <2> QED
    BY <2>3, <2>5
<1>12. cur \in CreatedIn(pw) \cup {None} /\ sq \subseteq CreatedIn(pw) /\ beyond \in BOOLEAN
  BY <1>3 DEF Consistent
<1>13. cur # None => \A v \in OwnOf(pw[cur]) : c.user[v] = PageOf(pw[cur], v)
  <2>1. CASE cur = p
    BY <1>0, <1>3, <2>1
  <2>2. CASE cur # p /\ cur # None
    <3>1. cur \in CreatedIn(pr) /\ pw[cur] = pr[cur] /\ c.user = m.user
      BY <1>0, <1>2, <1>12, <2>2
    <3> QED
      BY <2>2, <3>1 DEF Consistent
  <2> QED
    BY <2>1, <2>2
<1>14. ASSUME ~ beyond, NEW q \in CreatedIn(pw) \ sq, NEW v \in OwnOf(pw[q])
       PROVE  c.memory[PageOf(pw[q], v)] = vx[q][v]
  <2>1. CASE q = p
    BY <1>0, <1>3, <1>11, <1>14, <2>1, ZenonT(30)
  <2>2. CASE q # p
    <3>1. q \in CreatedIn(pr) \ sp /\ pw[q] = pr[q] /\ vx[q] = vw[q] /\ q \in Proc
      BY <1>2, <1>11, <1>14, <2>2 DEF CreatedIn
    <3>2. m.memory[PageOf(pr[q], v)] = vw[q][v]
      BY <1>14, <3>1 DEF Consistent
    <3> QED
      BY <1>4, <1>6, <1>14, <3>1, <3>2
  <2> QED
    BY <2>1, <2>2
<1>15. sq # {} \/ Clean(c)
  <2>1. sq = {} => sp = {}
    OBVIOUS
  <2> QED
    BY <1>0, <2>1 DEF Consistent
<1>16. Consistent(c, pw, cur, vx, sq, beyond)
  BY <1>1, <1>7, <1>9, <1>10, <1>11, <1>12, <1>13, <1>14, <1>15 DEF Consistent
<1> QED
  BY <1>16 DEF pw, vx

-----------------------------------------------------------------------------
(***************************************************************************)
(* The steps.                                                              *)
(***************************************************************************)

\* What an action makes of the machine.
LEMMA Becomes ==
    ASSUME SpaceInv, NEW c, Sound(c), Become(c), UNCHANGED first,
           Consistent(c, proc', current', view', split', spilled')
    PROVE  SpaceInv'
<1>1. Machine' = c
  <2>1. c = [kernel |-> c.kernel, owned |-> c.owned, memory |-> c.memory,
             user |-> c.user, tables |-> c.tables]
    BY DEF Sound
  <2> QED
    BY <2>1 DEF Become, Machine
<1>2. Sound(c)'
  BY DEF Sound, GoodPages, InStep, SpareReady, IsSpare, AllocatorState
<1>3. Consistent(Machine, proc, current, view, split, spilled)'
  BY <1>1
<1> QED
  BY <1>1, <1>2, <1>3 DEF SpaceInv

\* What the invariant says of the machine and of a process, and the room there is.
LEMMA Ready ==
    ASSUME SpaceInv
    PROVE  /\ first \in Slot /\ Sound(Machine) /\ MaxImage \in Nat
           /\ Consistent(Machine, proc, current, view, split, spilled)
           /\ Room => Reach(Machine) + 4 * MaxImage + StackPages + 5 < MaxPage
           /\ current \in Proc => current \in CreatedIn(proc) /\ current # None
<1>1. first \in Slot /\ Sound(Machine) /\ MaxImage \in Nat
  BY StartAssumption, ImageAssumption, EntriesAssumption DEF SpaceInv, Slot
<1>2. Machine.kernel = kernel
  BY DEF Machine
<1>3. kernel.next \in Nat /\ Reach(Machine) \in Nat /\ Reach(Machine) <= kernel.next + 10
      /\ StackPages \in Nat /\ MaxPage \in Nat
  BY <1>1, <1>2, ReachIsNat, SoundParts, StackSize
<1>4. Room => Reach(Machine) + 4 * MaxImage + StackPages + 5 < MaxPage
  BY <1>1, <1>3 DEF Room
<1>5. current \in Proc => current \in CreatedIn(proc) /\ current # None
  BY ProcAssumption DEF SpaceInv, Consistent
<1> QED
  BY <1>1, <1>4, <1>5 DEF SpaceInv

\* A process's pages, section by section.
LEMMA ProcessPages ==
    ASSUME first \in Slot, NEW m, Sound(m), NEW pr, NEW cur, NEW vw, NEW sp, NEW beyond,
           Consistent(m, pr, cur, vw, sp, beyond), NEW p \in CreatedIn(pr)
    PROVE  /\ p \in Proc /\ pr[p] \in Processes /\ pr[p].stack \in Nat
           /\ Len(pr[p].text) <= MaxImage /\ Len(pr[p].data) <= MaxImage
           /\ pr[p].text \in Seq(Data(m)) /\ pr[p].data \in Seq(Data(m))
           /\ \A l \in 1 .. StackPages : pr[p].stack + l - 1 \in Data(m)
<1> DEFINE r == pr[p]
<1>1. p \in Proc /\ r.stack # None
  BY DEF CreatedIn
<1>2. r \in Processes /\ Len(r.text) <= MaxImage /\ Len(r.data) <= MaxImage
  BY <1>1 DEF Consistent
<1>3. r.stack \in Nat /\ r.text \in Seq(Page) /\ r.data \in Seq(Page)
  BY <1>1, <1>2 DEF Processes, Page
<1>4. \A v \in OwnOf(r) : PageOf(r, v) \in Data(m)
  BY DEF Consistent
<1> HIDE DEF r
<1>5. \A i \in 1 .. Len(r.text) : r.text[i] \in Data(m)
  BY <1>2, <1>4, PagesOfProcess
<1>6. \A i \in 1 .. Len(r.data) : r.data[i] \in Data(m)
  BY <1>2, <1>4, PagesOfProcess
<1>7. \A l \in 1 .. StackPages : r.stack + l - 1 \in Data(m)
  BY <1>2, <1>4, PagesOfProcess
<1>8. r.text \in Seq(Data(m)) /\ r.data \in Seq(Data(m))
  BY <1>3, <1>5, <1>6, SeqInto
<1> QED
  BY <1>1, <1>2, <1>3, <1>7, <1>8 DEF r

\* A child is like its parent, in pages of its own.
LEMMA ChildIsConsistent ==
    ASSUME first \in Slot, NEW m, Sound(m), MaxImage \in Nat,
           NEW pr, NEW cur, NEW vw, NEW sp, NEW beyond, Consistent(m, pr, cur, vw, sp, beyond),
           cur \in CreatedIn(pr), cur # None, NEW child \in Proc \ CreatedIn(pr),
           NEW r, NEW c, ProcessForked(m, pr[cur], r, c),
           r = [text |-> r.text, data |-> r.data, stack |-> r.stack, spill |-> pr[cur].spill],
           NEW sq, sq = sp \cup (IF cur \in sp THEN {child} ELSE {})
    PROVE  Consistent(c, [pr EXCEPT ![child] = r], cur, [vw EXCEPT ![child] = vw[cur]], sq, beyond)
<1> DEFINE p == pr[cur]
           nt == Len(p.text)
           nd == Len(p.data)
<1>1. /\ cur \in Proc /\ p \in Processes /\ nt <= MaxImage /\ nd <= MaxImage
      /\ nt \in Nat /\ nd \in Nat
  BY ProcessPages, LenProperties
<1> HIDE DEF nt, nd
<1>2. /\ Extends(m, c) /\ c.user = m.user /\ (Clean(m) => Clean(c)) /\ Sound(c)
      /\ NewSection(m, r.text, nt, c) /\ NewSection(m, r.data, nd, c) /\ r.stack \in Nat
  BY DEF ProcessForked, Extends, nt, nd
<1>3. /\ \A q \in Data(c) : q \in Nat /\ q \in Page
      /\ m.kernel.next \in Nat
  BY <1>2, SoundParts
<1>4. /\ Len(r.text) = nt /\ r.text \in Seq(Data(c)) /\ Len(r.data) = nd /\ r.data \in Seq(Data(c))
      /\ \A i \in 1 .. nt : r.text[i] \in Data(c) /\ r.text[i] >= m.kernel.next
      /\ \A i \in 1 .. nd : r.data[i] \in Data(c) /\ r.data[i] >= m.kernel.next
  BY <1>2, ElementOfSeq DEF NewSection
<1>5. /\ \A i, j \in 1 .. nt : i < j => r.text[i] < r.text[j]
      /\ \A i, j \in 1 .. nd : i < j => r.data[i] < r.data[j]
  BY <1>2 DEF NewSection
<1>6. /\ \A l \in 1 .. StackPages :
            /\ r.stack + l - 1 \in Data(c) /\ r.stack + l - 1 >= m.kernel.next
            /\ \A i \in 1 .. nt : r.stack + l - 1 < r.text[i]
            /\ \A i \in 1 .. nd : r.stack + l - 1 < r.data[i]
      /\ \A i \in 1 .. nd, j \in 1 .. nt : r.data[i] < r.text[j]
  BY DEF ProcessForked, nt, nd
<1>7. /\ \A i \in 1 .. nt : c.memory[r.text[i]] = m.memory[p.text[i]]
      /\ \A i \in 1 .. nd : c.memory[r.data[i]] = m.memory[p.data[i]]
      /\ \A l \in 1 .. StackPages : c.memory[r.stack + l - 1] = m.memory[p.stack + l - 1]
  BY DEF ProcessForked, nt, nd
<1>8. r \in Processes
  <2>1. r.text \in Seq(Page) /\ r.data \in Seq(Page)
    BY <1>3, <1>4, SeqInto
  <2>2. r.stack \in Page \cup {None}
    <3>1. 1 \in 1 .. StackPages /\ r.stack + 1 - 1 = r.stack
      BY <1>2, StackSize
    <3>2. r.stack + 1 - 1 \in Data(c)
      BY <1>6, <3>1
    <3> QED
      BY <1>3, <3>1, <3>2
  <2>3. p.spill \in BOOLEAN
    BY <1>1 DEF Processes
  <2> QED
    BY <2>1, <2>2, <2>3 DEF Processes
<1>9. /\ \A i \in 1 .. nt : <<"text", i>> \in OwnOf(r) /\ PageOf(r, <<"text", i>>) = r.text[i]
      /\ \A i \in 1 .. nd : <<"data", i>> \in OwnOf(r) /\ PageOf(r, <<"data", i>>) = r.data[i]
      /\ \A l \in 1 .. StackPages :
            <<"stack", l>> \in OwnOf(r) /\ PageOf(r, <<"stack", l>>) = r.stack + l - 1
      /\ \A v \in OwnOf(r) : \/ \E i \in 1 .. nt : v = <<"text", i>>
                             \/ \E i \in 1 .. nd : v = <<"data", i>>
                             \/ \E l \in 1 .. StackPages : v = <<"stack", l>>
  BY <1>1, <1>4, <1>8, PagesOfProcess
<1>10. /\ \A i \in 1 .. nt : <<"text", i>> \in OwnOf(p) /\ PageOf(p, <<"text", i>>) = p.text[i]
       /\ \A i \in 1 .. nd : <<"data", i>> \in OwnOf(p) /\ PageOf(p, <<"data", i>>) = p.data[i]
       /\ \A l \in 1 .. StackPages :
             <<"stack", l>> \in OwnOf(p) /\ PageOf(p, <<"stack", l>>) = p.stack + l - 1
  BY <1>1, PagesOfProcess DEF nt, nd
<1>11. \A v \in OwnOf(r) : PageOf(r, v) \in Data(c) /\ PageOf(r, v) >= m.kernel.next
  BY <1>4, <1>6, <1>9
<1>12. \A v, w \in OwnOf(r) : PageOf(r, v) = PageOf(r, w) => v = w
  <2>1. /\ \A i \in 1 .. nt : r.text[i] \in Nat
        /\ \A i \in 1 .. nd : r.data[i] \in Nat
        /\ \A l \in 1 .. StackPages : r.stack + l - 1 \in Nat
    BY <1>3, <1>4, <1>6
  <2>2. \A i, j \in 1 .. nt : r.text[i] = r.text[j] => i = j
    BY <1>1, <1>5, <2>1
  <2>3. \A i, j \in 1 .. nd : r.data[i] = r.data[j] => i = j
    BY <1>1, <1>5, <2>1
  <2>4. \A i \in 1 .. nt, j \in 1 .. nd : r.text[i] # r.data[j]
    BY <1>6, <2>1
  <2>5. \A i \in 1 .. nt, l \in 1 .. StackPages : r.text[i] # r.stack + l - 1
    BY <1>6, <2>1
  <2>6. \A i \in 1 .. nd, l \in 1 .. StackPages : r.data[i] # r.stack + l - 1
    BY <1>6, <2>1
  <2> QED
    BY <1>1, <1>2, <1>4, <1>8, <2>2, <2>3, <2>4, <2>5, <2>6, PagesDiffer
<1>13. ASSUME NEW v \in OwnOf(r)
       PROVE  v \in OwnOf(p) /\ c.memory[PageOf(r, v)] = m.memory[PageOf(p, v)]
  BY <1>7, <1>9, <1>10
<1>14. beyond \/ child \in sq \/ \A v \in OwnOf(r) : c.memory[PageOf(r, v)] = vw[cur][v]
  <2>1. SUFFICES ASSUME ~ beyond, child \notin sq, NEW v \in OwnOf(r)
                 PROVE  c.memory[PageOf(r, v)] = vw[cur][v]
    BY Zenon
  <2>2. cur \in CreatedIn(pr) \ sp
    BY <2>1
  <2>3. m.memory[PageOf(p, v)] = vw[cur][v]
    BY <1>13, <2>1, <2>2 DEF Consistent
  <2> QED
    BY <1>13, <2>3
<1>15. vw[cur] = [v \in Vaddr |-> vw[cur][v]]
  <2>1. vw = [q \in Proc |-> [v \in Vaddr |-> vw[q][v]]]
    BY DEF Consistent
  <2> QED
    BY <1>1, <2>1
<1>16. cur # child /\ sp \subseteq sq /\ sq \subseteq sp \cup {child}
  OBVIOUS
<1> DEFINE x == vw[cur]
<1>17. x = [v \in Vaddr |-> x[v]] /\ x = vw[cur]
       /\ (beyond \/ child \in sq \/ \A v \in OwnOf(r) : c.memory[PageOf(r, v)] = x[v])
  BY <1>14, <1>15
<1> HIDE DEF x, p
<1>18. GivenPages(m, pr, cur, vw, sp, beyond, child, r, x, sq, c)
  BY <1>1, <1>2, <1>4, <1>8, <1>11, <1>12, <1>16, <1>17 DEF GivenPages
<1>19. Consistent(c, [pr EXCEPT ![child] = r], cur, [vw EXCEPT ![child] = x], sq, beyond)
  BY <1>18, ProcessReplaced
<1> QED
  BY <1>17, <1>19

\* fork.
LEMMA Forks == ASSUME SpaceInv, Room, NEW child, fork(child) PROVE SpaceInv'
<1> DEFINE m == Machine
           p == proc[current]
           a == Taken(m)
           to == [i \in 1 .. StackPages |-> a + i - 1]
           b0 == page_allocate_kernel(m, StackPages)
           b == Copied(b0, StackOf(p), to)
           d == ForkSection(b, p.data)
           t == ForkSection(d.machine, p.text)
           r == [text |-> t.pages, data |-> d.pages, stack |-> a, spill |-> p.spill]
           c == t.machine
           sq == split \cup (IF current \in split THEN {child} ELSE {})
           pw == [proc EXCEPT ![child] = r]
           vx == [view EXCEPT ![child] = view[current]]
<1>1. /\ first \in Slot /\ Sound(m) /\ MaxImage \in Nat
      /\ Consistent(m, proc, current, view, split, spilled)
      /\ Reach(m) + 4 * MaxImage + StackPages + 5 < MaxPage
      /\ current \in CreatedIn(proc) /\ current # None
  BY Ready DEF fork
<1>2. child \in Proc \ CreatedIn(proc)
  BY DEF fork, Created, CreatedIn
<1>3. /\ p \in Processes /\ Len(p.text) <= MaxImage /\ Len(p.data) <= MaxImage
      /\ p.text \in Seq(Data(m)) /\ p.data \in Seq(Data(m))
  BY <1>1, ProcessPages
<1>4. 1 \in 1 .. StackPages /\ to[1] = a
  <2>1. m.kernel.next + StackPages + 1 < MaxPage
    <3>1. m.kernel.next \in Nat /\ Reach(m) \in Nat /\ m.kernel.next <= Reach(m)
          /\ MaxPage \in Nat /\ StackPages \in Nat
      BY <1>1, ReachIsNat, SoundParts, StackSize
    <3> HIDE DEF m
    <3> QED
      BY <1>1, <3>1
  <2>2. NewPages(m, a, StackPages, b0)
    BY <1>1, <2>1, StackSize, Call
  <2>3. a \in Nat /\ 1 \in 1 .. StackPages
    BY <2>2, StackSize DEF NewPages
  <2> HIDE DEF a
  <2> QED
    BY <2>3
<1>5. /\ Become(c) /\ UNCHANGED <<first, current, spilled>>
      /\ proc' = pw /\ view' = vx /\ split' = sq
  BY <1>4 DEF fork
<1>6. /\ a = Taken(m) /\ to = [i \in 1 .. StackPages |-> a + i - 1]
      /\ b = Copied(page_allocate_kernel(m, StackPages), StackOf(p), to)
      /\ d = ForkSection(b, p.data) /\ t = ForkSection(d.machine, p.text)
      /\ r = [text |-> t.pages, data |-> d.pages, stack |-> a, spill |-> p.spill]
      /\ c = t.machine /\ pw = [proc EXCEPT ![child] = r]
      /\ vx = [view EXCEPT ![child] = view[current]]
      /\ sq = split \cup (IF current \in split THEN {child} ELSE {})
      /\ r = [text |-> r.text, data |-> r.data, stack |-> r.stack, spill |-> p.spill]
      /\ p = proc[current]
  OBVIOUS
<1> HIDE DEF m, p, a, to, b0, b, d, t, r, c, sq, pw, vx
<1>7. ProcessForked(m, p, r, c)
  BY <1>1, <1>3, <1>6, ProcessIsForked, ZenonT(30)
<1>8. Consistent(c, pw, current, vx, sq, spilled)
  <2>1. ProcessForked(m, proc[current], r, c)
        /\ r = [text |-> r.text, data |-> r.data, stack |-> r.stack, spill |-> proc[current].spill]
    BY <1>6, <1>7
  <2>2. Consistent(c, [proc EXCEPT ![child] = r], current, [view EXCEPT ![child] = view[current]],
                   sq, spilled)
    BY <1>1, <1>2, <2>1, ChildIsConsistent DEF sq
  <2> QED
    BY <1>6, <2>2
<1>9. Sound(c)
  BY <1>7 DEF ProcessForked, Extends
<1>10. Consistent(c, proc', current', view', split', spilled')
  BY <1>5, <1>8
<1> QED
  BY <1>5, <1>9, <1>10, Becomes

\* User addresses of a section lead to its pages.
Shows(c, section, pages) == \A i \in 1 .. Len(pages) : c.user[<<section, i>>] = pages[i]

\* One more section is mapped.
SectionShown(m, section, pages, c) ==
    /\ Grows(m, c) /\ Reach(c) <= Reach(m) /\ Reach(c) < MaxPage
    /\ Shows(c, section, pages)
    /\ \A v \in Vaddr : v[1] # section => c.user[v] = m.user[v]

\* The address of a page of a section.
LEMMA SectionAddress ==
    ASSUME MaxImage \in Nat, NEW n \in Nat, NEW section,
           \/ section \in {"text", "data"} /\ n <= MaxImage
           \/ section = "stack" /\ n <= StackPages,
           NEW i \in 1 .. n
    PROVE  <<section, i>> \in Vaddr
<1>1. StackPages \in Nat
  BY StackSize
<1>2. CASE section \in {"text", "data"} /\ n <= MaxImage
  <2>1. i \in 1 .. MaxImage + 1
    BY <1>2
  <2> QED
    BY <1>2, <2>1 DEF Vaddr
<1>3. CASE section = "stack" /\ n <= StackPages
  <2>1. i \in 1 .. StackPages
    BY <1>1, <1>3
  <2> QED
    BY <1>3, <2>1 DEF Vaddr
<1> QED
  BY <1>2, <1>3

LEMMA SectionIsShown ==
    ASSUME first \in Slot, MaxImage \in Nat, NEW m, Sound(m), Reach(m) < MaxPage,
           NEW section, NEW pages \in Seq(Data(m)),
           \/ section \in {"text", "data"} /\ Len(pages) <= MaxImage
           \/ section = "stack" /\ Len(pages) <= StackPages,
           NEW c, c = MapSection(m, section, pages)
    PROVE  SectionShown(m, section, pages, c)
<1>1. Len(pages) \in Nat
  BY LenProperties
<1>2. \A i \in 1 .. Len(pages) : <<section, i>> \in Vaddr
  BY <1>1, SectionAddress
<1>3. Mapped(m, section, pages, Len(pages), c)
  BY <1>2, MapSectionMaps
<1>4. /\ Grows(m, c) /\ Reach(c) <= Reach(m)
      /\ \A v \in Vaddr : c.user[v] = IF v[1] = section /\ v[2] \in 1 .. Len(pages)
                                      THEN pages[v[2]] ELSE m.user[v]
  BY <1>3 DEF Mapped
<1>5. Reach(c) \in Nat /\ Reach(m) \in Nat /\ MaxPage \in Nat
  BY <1>4, ReachIsNat, TableLength DEF Grows, Extends
<1>6. Shows(c, section, pages)
  <2>1. SUFFICES ASSUME NEW i \in 1 .. Len(pages) PROVE c.user[<<section, i>>] = pages[i]
    BY DEF Shows
  <2>2. <<section, i>> \in Vaddr /\ <<section, i>>[1] = section /\ <<section, i>>[2] = i
    BY <1>2
  <2> QED
    BY <1>4, <2>2
<1>7. Reach(c) < MaxPage
  BY <1>4, <1>5
<1> QED
  BY <1>4, <1>6, <1>7 DEF SectionShown

\* Another section does not disturb it.
LEMMA StillShown ==
    ASSUME MaxImage \in Nat, NEW m, NEW section, NEW pages, NEW c, SectionShown(m, section, pages, c),
           NEW other, NEW old, Len(old) \in Nat, other # section, Shows(m, other, old),
           \/ other \in {"text", "data"} /\ Len(old) <= MaxImage
           \/ other = "stack" /\ Len(old) <= StackPages
    PROVE  Shows(c, other, old)
<1>1. SUFFICES ASSUME NEW i \in 1 .. Len(old) PROVE c.user[<<other, i>>] = old[i]
  BY DEF Shows
<1>2. <<other, i>> \in Vaddr
  BY SectionAddress
<1>3. c.user[<<other, i>>] = m.user[<<other, i>>]
  BY <1>2 DEF SectionShown
<1> QED
  BY <1>3 DEF Shows

\* The pages of a stack.
LEMMA StackIsSeq ==
    ASSUME NEW S, NEW p, \A l \in 1 .. StackPages : p.stack + l - 1 \in S
    PROVE  /\ StackOf(p) \in Seq(S) /\ Len(StackOf(p)) = StackPages
           /\ \A l \in 1 .. StackPages : StackOf(p)[l] = p.stack + l - 1
<1>1. StackPages \in Nat
  BY StackSize
<1>2. StackOf(p) \in [1 .. StackPages -> S]
  BY DEF StackOf
<1> QED
  BY <1>1, <1>2 DEF StackOf

\* With all sections mapped a process finds its pages.
LEMMA AllShown ==
    ASSUME NEW r \in Processes, Len(r.text) <= MaxImage, Len(r.data) <= MaxImage, NEW c,
           Shows(c, "text", r.text), Shows(c, "data", r.data), Shows(c, "stack", StackOf(r)),
           Len(StackOf(r)) = StackPages,
           \A l \in 1 .. StackPages : StackOf(r)[l] = r.stack + l - 1
    PROVE  \A v \in OwnOf(r) : c.user[v] = PageOf(r, v)
<1>1. SUFFICES ASSUME NEW v \in OwnOf(r) PROVE c.user[v] = PageOf(r, v)
  OBVIOUS
<1>2. CASE \E i \in 1 .. Len(r.text) : v = <<"text", i>>
  BY <1>2, PagesOfProcess DEF Shows
<1>3. CASE \E i \in 1 .. Len(r.data) : v = <<"data", i>>
  BY <1>3, PagesOfProcess DEF Shows
<1>4. CASE \E l \in 1 .. StackPages : v = <<"stack", l>>
  BY <1>4, PagesOfProcess DEF Shows
<1> QED
  BY <1>2, <1>3, <1>4, PagesOfProcess

\* The machine after a switch.
LEMMA SwitchShows ==
    ASSUME first \in Slot, MaxImage \in Nat, NEW m, Sound(m), Reach(m) < MaxPage,
           NEW r \in Processes, Len(r.text) <= MaxImage, Len(r.data) <= MaxImage,
           r.text \in Seq(Data(m)), r.data \in Seq(Data(m)),
           \A l \in 1 .. StackPages : r.stack + l - 1 \in Data(m),
           NEW c, c = Switched(m, r)
    PROVE  Grows(m, c) /\ \A v \in OwnOf(r) : c.user[v] = PageOf(r, v)
<1> DEFINE x == MapSection(m, "data", r.data)
           y == MapSection(x, "text", r.text)
           s == StackOf(r)
<1>1. c = MapSection(y, "stack", s)
  BY DEF Switched
<1>2. SectionShown(m, "data", r.data, x)
  BY SectionIsShown
<1>3. y = MapSection(x, "text", r.text)
  OBVIOUS
<1>4. /\ Len(r.data) \in Nat /\ Len(r.text) \in Nat /\ StackPages \in Nat /\ StackPages <= StackPages
  BY LenProperties, StackSize
<1> HIDE DEF x
<1>5. Sound(x) /\ Reach(x) < MaxPage /\ Grows(m, x) /\ Data(m) \subseteq Data(x)
  BY <1>2 DEF SectionShown, Grows, Extends
<1>6. SectionShown(x, "text", r.text, y)
  <2>1. r.text \in Seq(Data(x))
    BY <1>5
  <2> QED
    BY <1>3, <1>5, <2>1, SectionIsShown
<1> HIDE DEF y
<1>7. Sound(y) /\ Reach(y) < MaxPage /\ Grows(x, y) /\ Data(x) \subseteq Data(y)
  BY <1>6 DEF SectionShown, Grows, Extends
<1>8. s \in Seq(Data(y)) /\ Len(s) = StackPages /\ \A l \in 1 .. StackPages : s[l] = r.stack + l - 1
  BY <1>5, <1>7, StackIsSeq
<1> HIDE DEF s
<1>9. SectionShown(y, "stack", s, c)
  BY <1>1, <1>4, <1>7, <1>8, SectionIsShown
<1>10. Grows(m, y)
  BY <1>5, <1>7, GrowsTransitive
<1>11. Grows(m, c)
  <2>1. Grows(y, c)
    BY <1>9 DEF SectionShown
  <2> QED
    BY <1>10, <2>1, GrowsTransitive
<1>12. Shows(c, "data", r.data)
  <2>1. Shows(y, "data", r.data)
    BY <1>2, <1>4, <1>6, StillShown DEF SectionShown
  <2> QED
    BY <1>4, <1>9, <2>1, StillShown
<1>13. Shows(c, "text", r.text)
  BY <1>4, <1>6, <1>9, StillShown DEF SectionShown
<1>14. Shows(c, "stack", s)
  BY <1>9 DEF SectionShown
<1>15. \A v \in OwnOf(r) : c.user[v] = PageOf(r, v)
  BY <1>8, <1>12, <1>13, <1>14, AllShown DEF s
<1> QED
  BY <1>11, <1>15

\* Mapping other pages leaves everything else as it was.
LEMMA MappingIsConsistent ==
    ASSUME first \in Slot, NEW m, Sound(m), NEW c, Grows(m, c),
           NEW pr, NEW cur, NEW vw, NEW sp, NEW beyond, Consistent(m, pr, cur, vw, sp, beyond),
           NEW next \in CreatedIn(pr) \cup {None},
           next # None => \A v \in OwnOf(pr[next]) : c.user[v] = PageOf(pr[next], v)
    PROVE  Consistent(c, pr, next, vw, sp, beyond)
<1>1. c.memory = m.memory /\ (Clean(m) => Clean(c)) /\ Data(m) \subseteq Data(c)
  BY DEF Grows, Extends
<1>2. \A p \in CreatedIn(pr) : \A v \in OwnOf(pr[p]) : PageOf(pr[p], v) \in Data(c)
  BY <1>1 DEF Consistent
<1>3. beyond \/ \A p \in CreatedIn(pr) \ sp : \A v \in OwnOf(pr[p]) :
         c.memory[PageOf(pr[p], v)] = vw[p][v]
  BY <1>1 DEF Consistent
<1>4. sp # {} \/ Clean(c)
  BY <1>1 DEF Consistent
<1> QED
  BY <1>2, <1>3, <1>4 DEF Consistent

\* process_sched_yield.
LEMMA Switches == ASSUME SpaceInv, Room, NEW next, process_sched_yield(next) PROVE SpaceInv'
<1> DEFINE m == Machine
           r == proc[next]
           c == Switched(m, r)
<1>1. /\ first \in Slot /\ Sound(m) /\ MaxImage \in Nat
      /\ Consistent(m, proc, current, view, split, spilled)
      /\ Reach(m) + 4 * MaxImage + StackPages + 5 < MaxPage
  BY Ready
<1>2. next \in CreatedIn(proc) /\ Become(c) /\ UNCHANGED <<first, proc, view, split, spilled>>
      /\ current' = next
  BY DEF process_sched_yield, Created, CreatedIn, history
<1>3. Reach(m) < MaxPage
  <2>1. Reach(m) \in Nat /\ MaxPage \in Nat /\ StackPages \in Nat
    BY <1>1, ReachIsNat, TableLength, StackSize
  <2> HIDE DEF m
  <2> QED
    BY <1>1, <2>1
<1>4. c = Switched(m, r)
  OBVIOUS
<1> HIDE DEF m, c
<1>5. /\ r \in Processes /\ Len(r.text) <= MaxImage /\ Len(r.data) <= MaxImage
      /\ r.text \in Seq(Data(m)) /\ r.data \in Seq(Data(m))
      /\ \A l \in 1 .. StackPages : r.stack + l - 1 \in Data(m)
  BY <1>1, <1>2, ProcessPages
<1> HIDE DEF r
<1>6. Grows(m, c) /\ \A v \in OwnOf(r) : c.user[v] = PageOf(r, v)
  BY <1>1, <1>3, <1>4, <1>5, SwitchShows
<1>7. Consistent(c, proc, next, view, split, spilled)
  <2>1. next \in CreatedIn(proc) \cup {None}
        /\ (next # None => \A v \in OwnOf(proc[next]) : c.user[v] = PageOf(proc[next], v))
    BY <1>2, <1>6 DEF r
  <2> QED
    BY <1>1, <1>6, <2>1, MappingIsConsistent
<1>8. Sound(c)
  BY <1>6 DEF Grows, Extends
<1>9. Consistent(c, proc', current', view', split', spilled')
  BY <1>2, <1>7
<1> QED
  BY <1>2, <1>8, <1>9, Becomes

\* The page half of a switch to the idle process.
LEMMA Idles == ASSUME SpaceInv, YieldToIdle PROVE SpaceInv'
<1> DEFINE m == Machine
           u == [v \in Vaddr |-> IF v[1] # "stack" /\ Position(v) < StackPages THEN Low ELSE user[v]]
           c == [kernel |-> kernel, owned |-> owned, memory |-> memory, user |-> u, tables |-> tables]
<1>1. /\ first \in Slot /\ Sound(m) /\ Consistent(m, proc, current, view, split, spilled)
  BY Ready
<1>2. /\ m.kernel = kernel /\ m.owned = owned /\ m.memory = memory /\ m.user = user
      /\ m.tables = tables
  BY DEF Machine
<1>3. /\ c.kernel = kernel /\ c.owned = owned /\ c.memory = memory /\ c.user = u
      /\ c.tables = tables
      /\ c = [kernel |-> c.kernel, owned |-> c.owned, memory |-> c.memory, user |-> c.user,
              tables |-> c.tables]
  OBVIOUS
<1>4. /\ Become(c) /\ UNCHANGED <<first, proc, view, split, spilled>> /\ current' = None
  BY DEF YieldToIdle, Become, vars, history
<1> HIDE DEF m, c
<1>5. Data(c) = Data(m)
  BY <1>2, <1>3 DEF Data
<1>6. Sound(c)
  <2>1. user \in [Vaddr -> Data(m) \cup {None, Low}]
    BY <1>1, <1>2 DEF Sound
  <2>2. u \in [Vaddr -> Data(m) \cup {None, Low}]
    BY <2>1
  <2> HIDE DEF u
  <2> QED
    BY <1>1, <1>2, <1>3, <1>5, <2>2 DEF Sound
<1> HIDE DEF u
<1>7. Extends(m, c)
  <2>1. m.kernel.next <= c.kernel.next
    BY <1>1, <1>2, <1>3, SoundParts
  <2> QED
    BY <1>2, <1>3, <1>5, <1>6, <2>1 DEF Extends
<1>8. Grows(m, c)
  BY <1>2, <1>3, <1>7 DEF Grows, Clean, HoldsTable
<1>9. Consistent(c, proc, None, view, split, spilled)
  BY <1>1, <1>8, MappingIsConsistent
<1>10. Consistent(c, proc', current', view', split', spilled')
  BY <1>4, <1>9
<1> QED
  BY <1>4, <1>6, <1>10, Becomes

\* Calls of drivers and of the heap.
LEMMA OthersCall == ASSUME CallsFit, SpaceInv, OtherCalls PROVE SpaceInv'
<1> DEFINE m == Machine
<1>1. /\ first \in Slot /\ Sound(m) /\ Consistent(m, proc, current, view, split, spilled)
  BY Ready
<1>2. /\ m.kernel = kernel /\ m.owned = owned /\ m.memory = memory /\ m.user = user
      /\ m.tables = tables
  BY DEF Machine
<1>3. PICK n \in KernelCalls : AllocateLinear(n) \/ AllocateMmio(n)
  BY DEF OtherCalls
<1>4. /\ n \in 1 .. ENTRIES - 1 /\ n \in Nat /\ kernel.next + n + 1 < MaxPage /\ UNCHANGED first
  BY <1>3, StackAssumption, CallAssumption, TableLength
     DEF CallsFit, AllocateLinear, AllocateMmio, Fits
<1>5. UNCHANGED <<memory, user, tables, proc, current, view, split, spilled>>
  BY DEF OtherCalls, space, history
<1>6. GoodPages(kernel, owned)
  BY <1>1, <1>2 DEF Sound
<1>7. \E a \in {kernel.next, kernel.next + 1} :
         HandsOut(kernel, owned, a, n, kernel') /\ owned' = owned \cup Pages(a, n)
  <2>1. CASE AllocateLinear(n)
    BY <1>1, <1>4, <1>6, <2>1, LinearKeepsGood DEF AllocateLinear, Pages
  <2>2. CASE AllocateMmio(n)
    BY <1>1, <1>4, <1>6, <2>2, MmioKeepsGood DEF AllocateMmio, CallsFit, Pages
  <2> QED
    BY <1>3, <2>1, <2>2
<1>8. PICK a \in {kernel.next, kernel.next + 1} :
         HandsOut(kernel, owned, a, n, kernel') /\ owned' = owned \cup Pages(a, n)
  BY <1>7
<1> DEFINE c == [kernel |-> kernel', owned |-> owned \cup Pages(a, n), memory |-> memory,
                 user |-> user, tables |-> tables]
<1>9. /\ c.kernel = kernel' /\ c.owned = owned \cup Pages(a, n) /\ c.memory = memory
      /\ c.user = user /\ c.tables = tables
  OBVIOUS
<1>10. c = [kernel |-> kernel', owned |-> m.owned \cup Pages(a, n), memory |-> m.memory,
            user |-> m.user, tables |-> m.tables]
  BY <1>2
<1> HIDE DEF m, c
<1>11. Grows(m, c)
  BY <1>1, <1>2, <1>4, <1>8, <1>10, Handed
<1>12. Sound(c)
  BY <1>11 DEF Grows, Extends
<1>13. Consistent(c, proc, current, view, split, spilled)
  <2>1. /\ current \in CreatedIn(proc) \cup {None}
        /\ current # None => \A v \in OwnOf(proc[current]) : c.user[v] = PageOf(proc[current], v)
    BY <1>1, <1>2, <1>9 DEF Consistent
  <2> QED
    BY <1>1, <1>11, <2>1, MappingIsConsistent
<1>14. Become(c)
  BY <1>5, <1>8, <1>9 DEF Become
<1>15. Consistent(c, proc', current', view', split', spilled')
  BY <1>5, <1>13
<1> QED
  BY <1>4, <1>12, <1>14, <1>15, Becomes

\* A program writes to its memory, or beyond its data.
LEMMA Stores == ASSUME SpaceInv, NEW v, Store(v) PROVE SpaceInv'
<1> DEFINE m == Machine
           s == Stored(current)
           g == [memory EXCEPT ![user[v]] = s]
           c == [kernel |-> kernel, owned |-> owned, memory |-> g, user |-> user, tables |-> tables]
           vx == [view EXCEPT ![current][v] = s]
           beyond == spilled \/ v \notin Own(current)
<1>1. /\ first \in Slot /\ Sound(m) /\ Consistent(m, proc, current, view, split, spilled)
      /\ current \in Proc /\ current \in CreatedIn(proc) /\ current # None /\ MaxImage \in Nat
  BY Ready DEF Store
<1>2. /\ m.kernel = kernel /\ m.owned = owned /\ m.memory = memory /\ m.user = user
      /\ m.tables = tables
  BY DEF Machine
<1>3. /\ c.kernel = kernel /\ c.owned = owned /\ c.memory = g /\ c.user = user
      /\ c.tables = tables
      /\ c = [kernel |-> c.kernel, owned |-> c.owned, memory |-> c.memory, user |-> c.user,
              tables |-> c.tables]
  OBVIOUS
<1>4. /\ Become(c) /\ UNCHANGED <<first, proc, current, split>>
      /\ view' = vx /\ spilled' = beyond
  BY DEF Store, Become, vars
<1>5. Own(current) = OwnOf(proc[current])
  BY DEF Own, OwnOf
<1>6. v \in Vaddr /\ user[v] # None
  <2>1. CASE v \in Own(current)
    BY <2>1 DEF Own, Store
  <2>2. CASE v \notin Own(current)
    <3>1. v = <<"data", Len(proc[current].data) + 1>>
      BY <2>2 DEF Store
    <3>2. proc[current] \in Processes /\ Len(proc[current].data) <= MaxImage
      BY <1>1, ProcessPages
    <3>3. Len(proc[current].data) + 1 \in 1 .. MaxImage + 1
      BY <1>1, <3>2, LenProperties DEF Processes
    <3> QED
      BY <3>1, <3>3 DEF Vaddr, Store
  <2> QED
    BY <2>1, <2>2
<1> HIDE DEF m, c, s
<1>7. /\ user[v] \in Data(m) \cup {Low} /\ memory = [q \in Page \cup {Low} |-> memory[q]]
      /\ user \in [Vaddr -> Data(m) \cup {None, Low}]
  BY <1>1, <1>2, <1>6 DEF Sound
<1>8. /\ \A q \in Data(m) : q \in Page /\ q \in Nat /\ q < kernel.next
      /\ kernel.next \in Nat
  BY <1>1, <1>2, SoundParts
<1>9. Data(c) = Data(m)
  BY <1>2, <1>3 DEF Data
<1>10. /\ g = [q \in Page \cup {Low} |-> g[q]]
       /\ \A q \in Page \cup {Low} : g[q] = IF q = user[v] THEN s ELSE memory[q]
  BY <1>7, <1>8
<1> HIDE DEF g
<1>11. Sound(c)
  <2>1. \A q \in Page : q >= kernel.next => g[q] = Zero
    <3>1. SUFFICES ASSUME NEW q \in Page, q >= kernel.next PROVE g[q] = Zero
      OBVIOUS
    <3>2. q # user[v]
      BY <1>7, <1>8, <3>1, TableLength DEF Page, Low
    <3>3. memory[q] = Zero
      BY <1>1, <1>2, <3>1 DEF Sound
    <3> QED
      BY <1>10, <3>2, <3>3
  <2> QED
    BY <1>1, <1>2, <1>3, <1>7, <1>9, <1>10, <2>1 DEF Sound
<1>12. ASSUME Clean(m) PROVE Clean(c)
  <2>1. SUFFICES ASSUME NEW q \in Page, HoldsTable(c, q) PROVE g[q] = Zero
    BY <1>3 DEF Clean
  <2>2. HoldsTable(m, q)
    BY <1>2, <1>3, <2>1 DEF HoldsTable
  <2>3. q # user[v]
    <3>1. q # Low
      BY TableLength DEF Page, Low
    <3> QED
      BY <1>1, <1>7, <2>2, <3>1, DataHoldsNoTable
  <2>4. memory[q] = Zero
    BY <1>2, <1>12, <2>2 DEF Clean
  <2> QED
    BY <1>10, <2>3, <2>4
<1>13. /\ vx = [p \in Proc |-> [w \in Vaddr |-> vx[p][w]]]
       /\ \A p \in Proc : \A w \in Vaddr :
             vx[p][w] = IF p = current /\ w = v THEN s ELSE view[p][w]
  <2>1. view = [p \in Proc |-> [w \in Vaddr |-> view[p][w]]]
    BY <1>1 DEF Consistent
  <2> DEFINE x == view[current]
             y == [x EXCEPT ![v] = s]
  <2>2. x = [w \in Vaddr |-> x[w]]
    BY <1>1, <2>1
  <2>3. vx = [view EXCEPT ![current] = y]
    OBVIOUS
  <2> HIDE DEF x
  <2>4. y = [w \in Vaddr |-> y[w]] /\ \A w \in Vaddr : y[w] = IF w = v THEN s ELSE x[w]
    BY <2>2
  <2> HIDE DEF y, vx
  <2>5. DOMAIN view = Proc /\ \A p \in Proc : view[p] = [w \in Vaddr |-> view[p][w]]
    BY <2>1
  <2>6. vx = [p \in Proc |-> vx[p]] /\ \A p \in Proc : vx[p] = IF p = current THEN y ELSE view[p]
    BY <2>3, <2>5
  <2>7. \A p \in Proc : vx[p] = [w \in Vaddr |-> vx[p][w]]
    BY <2>4, <2>5, <2>6
  <2>8. vx = [p \in Proc |-> [w \in Vaddr |-> vx[p][w]]]
    BY <2>6, <2>7
  <2>9. \A p \in Proc : \A w \in Vaddr :
           vx[p][w] = IF p = current /\ w = v THEN s ELSE view[p][w]
    BY <2>4, <2>6 DEF x
  <2> QED
    BY <2>8, <2>9
<1> HIDE DEF vx
<1>14. ASSUME ~ beyond, NEW p \in CreatedIn(proc) \ split, NEW w \in OwnOf(proc[p])
       PROVE  g[PageOf(proc[p], w)] = vx[p][w]
  <2>1. ~ spilled /\ v \in OwnOf(proc[current])
    BY <1>5, <1>14
  <2>2. user[v] = PageOf(proc[current], v)
    BY <1>1, <1>2, <2>1 DEF Consistent
  <2>3. memory[PageOf(proc[p], w)] = view[p][w]
    BY <1>1, <1>2, <1>14, <2>1 DEF Consistent
  <2>4. PageOf(proc[p], w) \in Page /\ p \in Proc /\ w \in Vaddr
    BY <1>1, <1>8, <1>14 DEF Consistent, CreatedIn, OwnOf
  <2>5. CASE p = current /\ w = v
    BY <1>10, <1>13, <2>2, <2>4, <2>5
  <2>6. CASE ~ (p = current /\ w = v)
    <3>1. Apart(proc)
      BY <1>1 DEF Consistent
    <3>2. PageOf(proc[p], w) # PageOf(proc[current], v)
      BY <1>1, <1>14, <2>1, <2>6, <3>1, Zenon DEF Apart
    <3> QED
      BY <1>10, <1>13, <2>2, <2>3, <2>4, <2>6, <3>2
  <2> QED
    BY <2>5, <2>6
<1>15. beyond \in BOOLEAN
  OBVIOUS
<1> HIDE DEF beyond
<1>16. Consistent(c, proc, current, vx, split, beyond)
  <2>1. \A p \in CreatedIn(proc) : \A w \in OwnOf(proc[p]) : PageOf(proc[p], w) \in Data(c)
    BY <1>1, <1>9 DEF Consistent
  <2>2. \A w \in OwnOf(proc[current]) : c.user[w] = PageOf(proc[current], w)
    BY <1>1, <1>2, <1>3 DEF Consistent
  <2>3. beyond \/ \A p \in CreatedIn(proc) \ split : \A w \in OwnOf(proc[p]) :
           c.memory[PageOf(proc[p], w)] = vx[p][w]
    BY <1>3, <1>14
  <2>4. split # {} \/ Clean(c)
    BY <1>1, <1>12 DEF Consistent
  <2>5. /\ proc \in [Proc -> Processes]
        /\ \A p \in Proc : Len(proc[p].text) <= MaxImage /\ Len(proc[p].data) <= MaxImage
        /\ current \in CreatedIn(proc) \cup {None} /\ split \subseteq CreatedIn(proc) /\ Apart(proc)
    BY <1>1 DEF Consistent
  <2> QED
    BY <1>13, <1>15, <2>1, <2>2, <2>3, <2>4, <2>5 DEF Consistent
<1>17. Consistent(c, proc', current', view', split', spilled')
  BY <1>4, <1>16
<1> QED
  BY <1>4, <1>11, <1>17, Becomes

\* A program's data: pages of its own, new or those the process has had.
DataLoaded(m, pr, beyond, p, r, x, sq, c) ==
    /\ Len(r.data) <= MaxImage /\ r.data \in Seq(Data(c))
    /\ \A i \in 1 .. Len(r.data) :
          \/ r.data[i] >= m.kernel.next
          \/ p \in CreatedIn(pr) /\ <<"data", i>> \in OwnOf(pr[p]) /\ r.data[i] = PageOf(pr[p], <<"data", i>>)
    /\ \A i, j \in 1 .. Len(r.data) : r.data[i] = r.data[j] => i = j
    /\ \A i \in 1 .. Len(r.text), j \in 1 .. Len(r.data) : r.text[i] # r.data[j]
    /\ \A i \in 1 .. Len(r.data), l \in 1 .. StackPages : r.data[i] # r.stack + l - 1
    /\ beyond \/ p \in sq \/ \A i \in 1 .. Len(r.data) : c.memory[r.data[i]] = x[<<"data", i>>]

\* What the process finds at a page of each section.
LEMMA ViewParts ==
    ASSUME MaxImage \in Nat, NEW image, NEW old, NEW x, x = ViewOf(image, old)
    PROVE  /\ x = [v \in Vaddr |-> x[v]]
           /\ \A i \in 1 .. MaxImage : x[<<"text", i>>] = Loaded(image, <<"text", i>>)
           /\ \A i \in 1 .. MaxImage :
                 x[<<"data", i>>] = IF image.data = 0 THEN old[<<"data", i>>]
                                    ELSE Loaded(image, <<"data", i>>)
           /\ \A l \in 1 .. StackPages : x[<<"stack", l>>] = Zero
<1>1. /\ \A i \in 1 .. MaxImage : <<"text", i>> \in Vaddr /\ <<"data", i>> \in Vaddr
      /\ \A l \in 1 .. StackPages : <<"stack", l>> \in Vaddr
  BY DEF Vaddr
<1>2. x = [v \in Vaddr |-> CASE v[1] = "stack" -> Zero
                             [] v[1] = "data" /\ image.data = 0 -> old[v]
                             [] OTHER -> Loaded(image, v)]
  BY DEF ViewOf
<1> QED
  BY <1>1, <1>2

\* The program has data.
LEMMA NewDataLoaded ==
    ASSUME first \in Slot, NEW m, Sound(m), MaxImage \in Nat, NEW image \in Image, image.data # 0,
           NEW old, NEW r, NEW b, ProgramLoaded(m, image, old, r, b), NEW c, Grows(b, c),
           NEW pr, NEW beyond, NEW p, NEW view0, NEW x, x = ViewOf(image, view0),
           NEW sq, p \in sq \/ (~ IsSplit(r.text) /\ ~ IsSplit(r.data))
    PROVE  DataLoaded(m, pr, beyond, p, r, x, sq, c)
<1> DEFINE nt == image.text
           nd == image.data
<1>1. nt \in Nat /\ nd \in Nat /\ nt <= MaxImage /\ nd <= MaxImage
  BY Sizes
<1> HIDE DEF nt, nd
<1>2. NewSection(m, r.text, nt, b) /\ NewSection(m, r.data, nd, b) /\ Sound(b) /\ r.stack \in Nat
      /\ \A i \in 1 .. nt, j \in 1 .. nd : r.text[i] < r.data[j]
  BY DEF ProgramLoaded, Extends, nt, nd
<1>3. \A l \in 1 .. StackPages, j \in 1 .. nd : r.data[j] < r.stack + l - 1
  BY DEF ProgramLoaded, nd
<1>4. \A q \in Data(b) : q \in Nat /\ q \in Data(c)
  BY <1>2, SoundParts DEF Grows, Extends
<1>5. /\ r.data \in Seq(Data(b)) /\ Len(r.data) = nd /\ Len(r.text) = nt /\ r.text \in Seq(Data(b))
      /\ \A i \in 1 .. nd : r.data[i] >= m.kernel.next
      /\ \A i, j \in 1 .. nd : i < j => r.data[i] < r.data[j]
  BY <1>2 DEF NewSection
<1>6. /\ \A i \in 1 .. nd : r.data[i] \in Data(b) /\ r.data[i] \in Nat /\ r.data[i] \in Data(c)
      /\ \A i \in 1 .. nt : r.text[i] \in Nat
  BY <1>4, <1>5, ElementOfSeq
<1>7. r.data \in Seq(Data(c))
  BY <1>5, <1>6, SeqInto
<1>8. \A i, j \in 1 .. nd : r.data[i] = r.data[j] => i = j
  BY <1>1, <1>5, <1>6
<1>9. \A i \in 1 .. nt, j \in 1 .. nd : r.text[i] # r.data[j]
  BY <1>2, <1>6
<1>10. \A i \in 1 .. nd, l \in 1 .. StackPages : r.data[i] # r.stack + l - 1
  BY <1>3, <1>6
<1>11. p \in sq \/ \A i \in 1 .. nd : c.memory[r.data[i]] = x[<<"data", i>>]
  <2>1. SUFFICES ASSUME p \notin sq, NEW i \in 1 .. nd PROVE c.memory[r.data[i]] = x[<<"data", i>>]
    OBVIOUS
  <2>2. Holds(b, image, "data", r.data, nd)
    BY <2>1 DEF ProgramLoaded, nd
  <2>3. b.memory[r.data[i]] = Loaded(image, <<"data", i>>)
    BY <2>2 DEF Holds
  <2>4. i \in 1 .. MaxImage
    BY <1>1
  <2>5. x[<<"data", i>>] = Loaded(image, <<"data", i>>)
    BY <2>4, ViewParts
  <2> QED
    BY <2>3, <2>5 DEF Grows
<1> QED
  BY <1>1, <1>5, <1>7, <1>8, <1>9, <1>10, <1>11 DEF DataLoaded

\* The program has none, and the process keeps what it has had.
LEMMA OldDataLoaded ==
    ASSUME first \in Slot, NEW m, Sound(m), MaxImage \in Nat, NEW image \in Image, image.data = 0,
           NEW old, NEW r, NEW b, ProgramLoaded(m, image, old, r, b), NEW c, Grows(b, c),
           NEW pr, NEW cur, NEW vw, NEW sp, NEW beyond, Consistent(m, pr, cur, vw, sp, beyond),
           NEW p, old.data = <<>> \/ (p \in CreatedIn(pr) /\ old = pr[p]),
           NEW x, x = ViewOf(image, vw[p]), NEW sq, sp \subseteq sq
    PROVE  DataLoaded(m, pr, beyond, p, r, x, sq, c)
<1> DEFINE nt == image.text
<1>1. /\ nt \in Nat /\ Sound(b) /\ Extends(m, b) /\ Sound(c) /\ m.kernel.next \in Nat
      /\ c.memory = b.memory /\ Data(m) \subseteq Data(c) /\ r.stack \in Nat
      /\ r.data = old.data /\ StackPages \in Nat
  BY Sizes, SoundParts, StackSize DEF ProgramLoaded, Extends, Grows
<1> HIDE DEF nt
<1>2. CASE old.data = <<>>
  <2>1. r.data = <<>> /\ Len(r.data) = 0 /\ r.data \in Seq(Data(c))
    BY <1>1, <1>2, EmptySeq
  <2>2. 1 .. Len(r.data) = {}
    BY <2>1
  <2> QED
    BY <1>1, <2>1, <2>2 DEF DataLoaded
<1>3. CASE p \in CreatedIn(pr) /\ old = pr[p]
  <2> DEFINE o == pr[p]
             nd == Len(o.data)
  <2>1. /\ p \in Proc /\ o \in Processes /\ o.stack \in Nat
        /\ Len(o.text) <= MaxImage /\ nd <= MaxImage /\ o.data \in Seq(Data(m))
    BY <1>3, ProcessPages
  <2>2. nd \in Nat /\ r.data = o.data /\ Len(r.data) = nd
    BY <1>1, <1>3, <2>1, LenProperties
  <2>3. \A i \in 1 .. nd : <<"data", i>> \in OwnOf(o) /\ PageOf(o, <<"data", i>>) = o.data[i]
    BY <2>1, PagesOfProcess
  <2> HIDE DEF o, nd
  <2>4. \A i \in 1 .. nd : o.data[i] \in Data(m)
    BY <2>1, ElementOfSeq DEF nd
  <2>5. \A q \in Data(m) : q \in Nat /\ q \in Page /\ q < m.kernel.next /\ b.memory[q] = m.memory[q]
    BY <1>1, SoundParts DEF Extends
  <2>6. /\ \A i \in 1 .. nt : r.text[i] \in Nat /\ r.text[i] >= m.kernel.next
        /\ Len(r.text) = nt
    <3>1. NewSection(m, r.text, nt, b)
      BY DEF ProgramLoaded, nt
    <3>2. \A q \in Data(b) : q \in Nat
      BY <1>1, SoundParts
    <3> QED
      BY <3>1, <3>2, ElementOfSeq DEF NewSection
  <2>7. \A l \in 1 .. StackPages : r.stack + l - 1 >= m.kernel.next /\ r.stack + l - 1 \in Nat
    <3>1. \A l \in 1 .. StackPages : r.stack + l - 1 >= m.kernel.next
      BY DEF ProgramLoaded
    <3>2. \A l \in 1 .. StackPages : r.stack + l - 1 \in Nat
      BY <1>1
    <3> QED
      BY <3>1, <3>2
  <2>8. r.data \in Seq(Data(c))
    BY <1>1, <2>1, <2>2, <2>4, SeqInto DEF nd
  <2>9. \A i, j \in 1 .. nd : r.data[i] = r.data[j] => i = j
    <3>1. SUFFICES ASSUME NEW i \in 1 .. nd, NEW j \in 1 .. nd, r.data[i] = r.data[j] PROVE i = j
      OBVIOUS
    <3>2. Apart(pr)
      BY DEF Consistent
    <3>3. /\ <<"data", i>> \in OwnOf(pr[p]) /\ <<"data", j>> \in OwnOf(pr[p])
          /\ PageOf(pr[p], <<"data", i>>) = PageOf(pr[p], <<"data", j>>)
      BY <2>2, <2>3, <3>1 DEF o
    <3>4. <<"data", i>> = <<"data", j>>
      BY <1>3, <3>2, <3>3, Zenon DEF Apart
    <3> QED
      BY <3>4
  <2>10. \A i \in 1 .. nt, j \in 1 .. nd : r.text[i] # r.data[j]
    BY <1>1, <2>2, <2>4, <2>5, <2>6
  <2>11. \A i \in 1 .. nd, l \in 1 .. StackPages : r.data[i] # r.stack + l - 1
    BY <1>1, <2>2, <2>4, <2>5, <2>7
  <2>12. \A i \in 1 .. nd : <<"data", i>> \in OwnOf(pr[p]) /\ r.data[i] = PageOf(pr[p], <<"data", i>>)
    BY <2>2, <2>3 DEF o
  <2>13. beyond \/ p \in sq \/ \A i \in 1 .. nd : c.memory[r.data[i]] = x[<<"data", i>>]
    <3>1. SUFFICES ASSUME ~ beyond, p \notin sq, NEW i \in 1 .. nd
                   PROVE  c.memory[r.data[i]] = x[<<"data", i>>]
      BY Zenon
    <3>2. p \in CreatedIn(pr) \ sp
      BY <1>3, <3>1
    <3>3. m.memory[PageOf(pr[p], <<"data", i>>)] = vw[p][<<"data", i>>]
      BY <2>12, <3>1, <3>2 DEF Consistent
    <3>4. c.memory[r.data[i]] = m.memory[r.data[i]]
      BY <1>1, <2>2, <2>4, <2>5
    <3>5. i \in 1 .. MaxImage
      BY <2>1, <2>2 DEF nd
    <3>6. x[<<"data", i>>] = vw[p][<<"data", i>>]
      BY <3>5, ViewParts
    <3> QED
      BY <2>12, <3>3, <3>4, <3>6
  <2> QED
    BY <1>3, <2>1, <2>2, <2>6, <2>8, <2>9, <2>10, <2>11, <2>12, <2>13 DEF DataLoaded, nd
<1> QED
  BY <1>2, <1>3

\* A process has loaded a program and its sections are mapped.
LEMMA LoadedIsConsistent ==
    ASSUME first \in Slot, NEW m, Sound(m), MaxImage \in Nat,
           NEW pr, NEW cur, NEW vw, NEW sp, NEW beyond, Consistent(m, pr, cur, vw, sp, beyond),
           NEW p \in Proc, NEW image \in Image,
           NEW old, old.data = <<>> \/ (p \in CreatedIn(pr) /\ old = pr[p]),
           NEW r, NEW b, ProgramLoaded(m, image, old, r, b),
           r = [text |-> r.text, data |-> r.data, stack |-> r.stack, spill |-> image.spill],
           NEW c, Grows(b, c), cur = None \/ cur = p,
           cur = p /\ r \in Processes => \A v \in OwnOf(r) : c.user[v] = PageOf(r, v),
           NEW sq, sq = sp \cup (IF IsSplit(r.text) \/ IsSplit(r.data) THEN {p} ELSE {})
    PROVE  Consistent(c, [pr EXCEPT ![p] = r], cur, [vw EXCEPT ![p] = ViewOf(image, vw[p])], sq, beyond)
<1> DEFINE x == ViewOf(image, vw[p])
           nt == image.text
           nd == Len(r.data)
<1>1. sp \subseteq sq /\ sq \subseteq sp \cup {p} /\ (p \in sq \/ (~ IsSplit(r.text) /\ ~ IsSplit(r.data)))
      /\ (p \in sq => sq # {})
  OBVIOUS
<1>2. x = ViewOf(image, vw[p])
  OBVIOUS
<1> HIDE DEF x
<1>3. DataLoaded(m, pr, beyond, p, r, x, sq, c)
  <2>1. CASE image.data # 0
    BY <1>1, <1>2, <2>1, NewDataLoaded
  <2>2. CASE image.data = 0
    BY <1>1, <1>2, <2>2, OldDataLoaded
  <2> QED
    BY <2>1, <2>2
<1>4. /\ nt \in Nat /\ nt <= MaxImage /\ Sound(b) /\ Extends(m, b) /\ Sound(c) /\ m.kernel.next \in Nat
      /\ c.memory = b.memory /\ Data(b) \subseteq Data(c) /\ r.stack \in Nat /\ Extends(b, c)
      /\ StackPages \in Nat /\ image.spill \in BOOLEAN
  BY Sizes, SoundParts, StackSize DEF ProgramLoaded, Extends, Grows
<1>5. Extends(m, c)
  BY <1>4, ExtendsTransitive
<1>6. \A q \in Data(c) : q \in Nat /\ q \in Page
  BY <1>4, SoundParts
<1> HIDE DEF nt, nd
<1>7. /\ r.text \in Seq(Data(c)) /\ Len(r.text) = nt
      /\ \A i \in 1 .. nt : r.text[i] \in Data(c) /\ r.text[i] >= m.kernel.next
      /\ \A i, j \in 1 .. nt : i < j => r.text[i] < r.text[j]
  <2>1. NewSection(m, r.text, nt, b)
    BY DEF ProgramLoaded, nt
  <2>2. r.text \in Seq(Data(b)) /\ Len(r.text) = nt
    BY <2>1 DEF NewSection
  <2>3. \A i \in 1 .. nt : r.text[i] \in Data(c)
    BY <1>4, <2>2, ElementOfSeq
  <2>4. r.text \in Seq(Data(c))
    BY <2>2, <2>3, SeqInto
  <2> QED
    BY <2>1, <2>2, <2>3, <2>4 DEF NewSection
<1>8. /\ nd = Len(r.data) /\ nd \in Nat /\ nd <= MaxImage /\ r.data \in Seq(Data(c))
      /\ \A i \in 1 .. nd : r.data[i] \in Data(c)
  BY <1>3, ElementOfSeq, LenProperties DEF DataLoaded, nd
<1>9. \A l \in 1 .. StackPages :
         /\ r.stack + l - 1 \in Data(c) /\ r.stack + l - 1 >= m.kernel.next
         /\ c.memory[r.stack + l - 1] = Zero
         /\ \A i \in 1 .. nt : r.text[i] < r.stack + l - 1
  BY <1>4 DEF ProgramLoaded, nt
<1>10. r \in Processes
  <2>1. r.text \in Seq(Page) /\ r.data \in Seq(Page)
    BY <1>6, <1>7, <1>8, SeqInto DEF nd
  <2>2. r.stack \in Page \cup {None}
    <3>1. 1 \in 1 .. StackPages /\ r.stack + 1 - 1 = r.stack
      BY <1>4, StackSize
    <3>2. r.stack + 1 - 1 \in Data(c)
      BY <1>9, <3>1
    <3> QED
      BY <1>6, <3>1, <3>2
  <2> QED
    BY <1>4, <2>1, <2>2 DEF Processes
<1>11. /\ \A i \in 1 .. nt : <<"text", i>> \in OwnOf(r) /\ PageOf(r, <<"text", i>>) = r.text[i]
       /\ \A i \in 1 .. nd : <<"data", i>> \in OwnOf(r) /\ PageOf(r, <<"data", i>>) = r.data[i]
       /\ \A l \in 1 .. StackPages :
             <<"stack", l>> \in OwnOf(r) /\ PageOf(r, <<"stack", l>>) = r.stack + l - 1
       /\ \A v \in OwnOf(r) : \/ \E i \in 1 .. nt : v = <<"text", i>>
                              \/ \E i \in 1 .. nd : v = <<"data", i>>
                              \/ \E l \in 1 .. StackPages : v = <<"stack", l>>
  BY <1>4, <1>7, <1>8, <1>10, PagesOfProcess
<1>12. \A v \in OwnOf(r) : PageOf(r, v) \in Data(c)
  BY <1>7, <1>8, <1>9, <1>11
<1>13. \A v \in OwnOf(r) :
          \/ PageOf(r, v) >= m.kernel.next
          \/ p \in CreatedIn(pr) /\ v \in OwnOf(pr[p]) /\ PageOf(r, v) = PageOf(pr[p], v)
  <2>1. \A i \in 1 .. nd :
           \/ r.data[i] >= m.kernel.next
           \/ p \in CreatedIn(pr) /\ <<"data", i>> \in OwnOf(pr[p]) /\ r.data[i] = PageOf(pr[p], <<"data", i>>)
    BY <1>3 DEF DataLoaded, nd
  <2>2. SUFFICES ASSUME NEW v \in OwnOf(r)
                 PROVE  \/ PageOf(r, v) >= m.kernel.next
                        \/ p \in CreatedIn(pr) /\ v \in OwnOf(pr[p]) /\ PageOf(r, v) = PageOf(pr[p], v)
    OBVIOUS
  <2>3. CASE \E i \in 1 .. nt : v = <<"text", i>>
    BY <1>7, <1>11, <2>3
  <2>4. CASE \E i \in 1 .. nd : v = <<"data", i>>
    BY <1>11, <2>1, <2>4
  <2>5. CASE \E l \in 1 .. StackPages : v = <<"stack", l>>
    BY <1>9, <1>11, <2>5
  <2> QED
    BY <1>11, <2>3, <2>4, <2>5
<1>14. \A v, w \in OwnOf(r) : PageOf(r, v) = PageOf(r, w) => v = w
  <2>1. /\ \A i \in 1 .. nt : r.text[i] \in Nat
        /\ \A l \in 1 .. StackPages : r.stack + l - 1 \in Nat
    BY <1>6, <1>7, <1>9
  <2>2. \A i, j \in 1 .. nt : r.text[i] = r.text[j] => i = j
    BY <1>4, <1>7, <2>1
  <2>3. \A i \in 1 .. nt, l \in 1 .. StackPages : r.text[i] # r.stack + l - 1
    BY <1>9, <2>1
  <2>4. /\ \A i, j \in 1 .. Len(r.data) : r.data[i] = r.data[j] => i = j
        /\ \A i \in 1 .. Len(r.text), j \in 1 .. Len(r.data) : r.text[i] # r.data[j]
        /\ \A i \in 1 .. Len(r.data), l \in 1 .. StackPages : r.data[i] # r.stack + l - 1
    BY <1>3 DEF DataLoaded
  <2> QED
    BY <1>4, <1>7, <1>8, <1>10, <2>2, <2>3, <2>4, PagesDiffer
<1>15. beyond \/ p \in sq \/ \A v \in OwnOf(r) : c.memory[PageOf(r, v)] = x[v]
  <2>1. SUFFICES ASSUME ~ beyond, p \notin sq, NEW v \in OwnOf(r) PROVE c.memory[PageOf(r, v)] = x[v]
    BY Zenon
  <2>2. /\ \A i \in 1 .. MaxImage : x[<<"text", i>>] = Loaded(image, <<"text", i>>)
        /\ \A l \in 1 .. StackPages : x[<<"stack", l>>] = Zero
    BY <1>2, ViewParts
  <2>3. CASE \E i \in 1 .. nt : v = <<"text", i>>
    <3>1. PICK i \in 1 .. nt : v = <<"text", i>>
      BY <2>3
    <3>2. Holds(b, image, "text", r.text, nt)
      BY <1>1, <2>1 DEF ProgramLoaded, nt
    <3>3. b.memory[r.text[i]] = Loaded(image, <<"text", i>>)
      BY <3>2 DEF Holds
    <3>4. i \in 1 .. MaxImage
      BY <1>4
    <3> QED
      BY <1>4, <1>11, <2>2, <3>1, <3>3, <3>4
  <2>4. CASE \E i \in 1 .. nd : v = <<"data", i>>
    <3>1. \A i \in 1 .. nd : c.memory[r.data[i]] = x[<<"data", i>>]
      BY <1>3, <2>1, Zenon DEF DataLoaded, nd
    <3> QED
      BY <1>11, <2>4, <3>1
  <2>5. CASE \E l \in 1 .. StackPages : v = <<"stack", l>>
    BY <1>9, <1>11, <2>2, <2>5
  <2> QED
    BY <1>11, <2>3, <2>4, <2>5
<1>16. sq # {} \/ (Clean(m) => Clean(c))
  <2>1. SUFFICES ASSUME sq = {} PROVE Clean(m) => Clean(c)
    OBVIOUS
  <2>2. Clean(m) => Clean(b)
    BY <1>1, <2>1 DEF ProgramLoaded
  <2> QED
    BY <2>2 DEF Grows
<1>17. x = [v \in Vaddr |-> x[v]]
  BY <1>2, ViewParts
<1>18. cur = p => \A v \in OwnOf(r) : c.user[v] = PageOf(r, v)
  BY <1>10
<1>19. GivenPages(m, pr, cur, vw, sp, beyond, p, r, x, sq, c)
  BY <1>1, <1>4, <1>5, <1>7, <1>8, <1>10, <1>12, <1>13, <1>14, <1>15, <1>16, <1>17, <1>18
     DEF GivenPages
<1> QED
  BY <1>2, <1>19, ProcessReplaced

\* The pages of a program that has been loaded.
LEMMA ProgramPages ==
    ASSUME first \in Slot, NEW m, Sound(m), MaxImage \in Nat,
           NEW pr, NEW cur, NEW vw, NEW sp, NEW beyond, Consistent(m, pr, cur, vw, sp, beyond),
           NEW p, NEW image \in Image,
           NEW old, old.data = <<>> \/ (p \in CreatedIn(pr) /\ old = pr[p]),
           NEW r, NEW b, ProgramLoaded(m, image, old, r, b),
           Reach(m) + 4 * MaxImage + StackPages + 5 < MaxPage
    PROVE  /\ Sound(b) /\ Reach(b) < MaxPage /\ Reach(b) \in Nat
           /\ r.text \in Seq(Data(b)) /\ Len(r.text) <= MaxImage /\ Len(r.text) \in Nat
           /\ r.data \in Seq(Data(b)) /\ Len(r.data) <= MaxImage /\ Len(r.data) \in Nat
           /\ \A l \in 1 .. StackPages : r.stack + l - 1 \in Data(b)
<1>1. /\ Sound(b) /\ Data(m) \subseteq Data(b)
      /\ Reach(b) <= Reach(m) + 4 * MaxImage + StackPages + 1
      /\ \A l \in 1 .. StackPages : r.stack + l - 1 \in Data(b)
  BY DEF ProgramLoaded, Extends
<1>2. Reach(b) \in Nat /\ Reach(m) \in Nat /\ StackPages \in Nat /\ MaxPage \in Nat
  BY <1>1, ReachIsNat, StackSize, TableLength
<1>3. Reach(b) < MaxPage
  BY <1>1, <1>2
<1>4. /\ image.text \in Nat /\ image.data \in Nat /\ image.text <= MaxImage /\ image.data <= MaxImage
  BY Sizes
<1>5. r.text \in Seq(Data(b)) /\ Len(r.text) <= MaxImage /\ Len(r.text) \in Nat
  <2>1. NewSection(m, r.text, image.text, b)
    BY DEF ProgramLoaded
  <2> QED
    BY <1>4, <2>1 DEF NewSection
<1>6. r.data \in Seq(Data(b)) /\ Len(r.data) <= MaxImage /\ Len(r.data) \in Nat
  <2>1. CASE image.data # 0
    <3>1. NewSection(m, r.data, image.data, b)
      BY <2>1 DEF ProgramLoaded
    <3> QED
      BY <1>4, <3>1 DEF NewSection
  <2>2. CASE image.data = 0 /\ old.data = <<>>
    <3>1. r.data = <<>>
      BY <2>2 DEF ProgramLoaded
    <3> QED
      BY <3>1, EmptySeq
  <2>3. CASE image.data = 0 /\ p \in CreatedIn(pr) /\ old = pr[p]
    <3>1. r.data = pr[p].data
      BY <2>3 DEF ProgramLoaded
    <3>2. pr[p].data \in Seq(Data(m)) /\ Len(pr[p].data) <= MaxImage
      BY <2>3, ProcessPages
    <3>3. r.data \in Seq(Data(m)) /\ Len(r.data) <= MaxImage
      BY <3>1, <3>2
    <3>4. Len(r.data) \in Nat /\ \A i \in 1 .. Len(r.data) : r.data[i] \in Data(m)
      BY <3>3, LenProperties, ElementOfSeq
    <3>5. \A i \in 1 .. Len(r.data) : r.data[i] \in Data(b)
      BY <1>1, <3>4
    <3>6. r.data \in Seq(Data(b))
      BY <3>3, <3>5, SeqInto
    <3> QED
      BY <3>3, <3>4, <3>6
  <2> QED
    BY <2>1, <2>2, <2>3
<1> QED
  BY <1>1, <1>2, <1>3, <1>5, <1>6

\* The text, the data and the stack of a program are mapped.
LEMMA ProgramShows ==
    ASSUME first \in Slot, MaxImage \in Nat, NEW b, Sound(b), Reach(b) < MaxPage, Reach(b) \in Nat,
           NEW r, r.text \in Seq(Data(b)), Len(r.text) <= MaxImage, Len(r.text) \in Nat,
           r.data \in Seq(Data(b)), Len(r.data) <= MaxImage, Len(r.data) \in Nat,
           \A l \in 1 .. StackPages : r.stack + l - 1 \in Data(b), r.stack \in Nat,
           NEW x, x = page_map(b, <<"stack", 1>>, r.stack),
           NEW y, y = MapSection(x, "text", r.text),
           NEW z, z = MapSection(y, "data", r.data),
           NEW c, c = MapSection(z, "stack", StackOf(r))
    PROVE  /\ Grows(b, c)
           /\ r \in Processes => \A v \in OwnOf(r) : c.user[v] = PageOf(r, v)
<1> DEFINE s == StackOf(r)
<1>1. /\ 1 \in 1 .. StackPages /\ StackPages \in Nat /\ StackPages <= StackPages /\ MaxPage \in Nat
      /\ r.stack + 1 - 1 = r.stack
  BY StackSize, TableLength
<1>2. <<"stack", 1>> \in Vaddr /\ r.stack \in Data(b)
  BY <1>1 DEF Vaddr
<1>3. Grows(b, x) /\ Reach(x) <= Reach(b)
  BY <1>2, PageMap
<1>4. Sound(x) /\ Data(b) \subseteq Data(x)
  BY <1>3 DEF Grows, Extends
<1>5. Reach(x) < MaxPage
  BY <1>1, <1>3, <1>4, ReachIsNat
<1>6. SectionShown(x, "text", r.text, y)
  <2>1. r.text \in Seq(Data(x))
    BY <1>4
  <2> QED
    BY <1>4, <1>5, <2>1, SectionIsShown
<1>7. Sound(y) /\ Reach(y) < MaxPage /\ Grows(x, y) /\ Data(x) \subseteq Data(y)
  BY <1>6 DEF SectionShown, Grows, Extends
<1>8. SectionShown(y, "data", r.data, z)
  <2>1. r.data \in Seq(Data(y))
    BY <1>4, <1>7
  <2> QED
    BY <1>7, <2>1, SectionIsShown
<1>9. Sound(z) /\ Reach(z) < MaxPage /\ Grows(y, z) /\ Data(y) \subseteq Data(z)
  BY <1>8 DEF SectionShown, Grows, Extends
<1>10. s \in Seq(Data(z)) /\ Len(s) = StackPages /\ \A l \in 1 .. StackPages : s[l] = r.stack + l - 1
  BY <1>4, <1>7, <1>9, StackIsSeq
<1>10a. c = MapSection(z, "stack", s)
  OBVIOUS
<1> HIDE DEF s
<1>11. SectionShown(z, "stack", s, c)
  BY <1>1, <1>9, <1>10, <1>10a, SectionIsShown
<1>12. Grows(b, c)
  <2>1. Grows(b, y)
    BY <1>3, <1>7, GrowsTransitive
  <2>2. Grows(b, z)
    BY <1>9, <2>1, GrowsTransitive
  <2>3. Grows(z, c)
    BY <1>11 DEF SectionShown
  <2> QED
    BY <2>2, <2>3, GrowsTransitive
<1>13. Shows(c, "text", r.text)
  <2>1. Shows(z, "text", r.text)
    BY <1>6, <1>8, StillShown DEF SectionShown
  <2> QED
    BY <1>11, <2>1, StillShown
<1>14. Shows(c, "data", r.data)
  BY <1>8, <1>11, StillShown DEF SectionShown
<1>15. Shows(c, "stack", s)
  BY <1>11 DEF SectionShown
<1>16. r \in Processes => \A v \in OwnOf(r) : c.user[v] = PageOf(r, v)
  BY <1>10, <1>13, <1>14, <1>15, AllShown DEF s
<1> QED
  BY <1>12, <1>16

\* execve.
LEMMA Executes == ASSUME SpaceInv, Room, NEW image \in Image, execve(image) PROVE SpaceInv'
<1> DEFINE m == Machine
           old == proc[current]
           loaded == elf_loader_load(m, image, old)
           b == loaded.machine
           r == loaded.p
           x == page_map(b, <<"stack", 1>>, r.stack)
           y == MapSection(x, "text", r.text)
           z == MapSection(y, "data", r.data)
           c == MapSection(z, "stack", StackOf(r))
           sq == split \cup (IF IsSplit(r.text) \/ IsSplit(r.data) THEN {current} ELSE {})
           pw == [proc EXCEPT ![current] = r]
           vx == [view EXCEPT ![current] = ViewOf(image, view[current])]
<1>1. /\ first \in Slot /\ Sound(m) /\ MaxImage \in Nat
      /\ Consistent(m, proc, current, view, split, spilled)
      /\ Reach(m) + 4 * MaxImage + StackPages + 5 < MaxPage
      /\ current \in CreatedIn(proc) /\ current # None /\ current \in Proc
  BY Ready DEF execve
<1>2. /\ Become(c) /\ UNCHANGED <<first, current, spilled>>
      /\ proc' = pw /\ view' = vx /\ split' = sq
  BY DEF execve
<1>3. /\ loaded = elf_loader_load(m, image, old) /\ b = loaded.machine /\ r = loaded.p
      /\ x = page_map(b, <<"stack", 1>>, r.stack) /\ y = MapSection(x, "text", r.text)
      /\ z = MapSection(y, "data", r.data) /\ c = MapSection(z, "stack", StackOf(r))
      /\ old = proc[current]
  OBVIOUS
<1> HIDE DEF m, old, loaded, b, r, x, y, z, c
<1>4. Reach(m) + 4 * MaxImage + StackPages + 1 < MaxPage
  BY <1>1, ReachIsNat, StackSize, TableLength
<1>5. /\ ProgramLoaded(m, image, old, r, b)
      /\ r = [text |-> r.text, data |-> r.data, stack |-> r.stack, spill |-> image.spill]
  BY <1>1, <1>3, <1>4, ProgramIsLoaded
<1>6. old.data = <<>> \/ (current \in CreatedIn(proc) /\ old = proc[current])
  BY <1>1, <1>3
<1>7. /\ Sound(b) /\ Reach(b) < MaxPage /\ Reach(b) \in Nat
      /\ r.text \in Seq(Data(b)) /\ Len(r.text) <= MaxImage /\ Len(r.text) \in Nat
      /\ r.data \in Seq(Data(b)) /\ Len(r.data) <= MaxImage /\ Len(r.data) \in Nat
      /\ \A l \in 1 .. StackPages : r.stack + l - 1 \in Data(b)
  BY <1>1, <1>5, <1>6, ProgramPages
<1>8. r.stack \in Nat
  BY <1>5 DEF ProgramLoaded
<1>9. Grows(b, c) /\ (r \in Processes => \A v \in OwnOf(r) : c.user[v] = PageOf(r, v))
  BY <1>1, <1>3, <1>7, <1>8, ProgramShows, SMTT(20)
<1>10. Consistent(c, pw, current, vx, sq, spilled)
  <2>1. /\ current = None \/ current = current
        /\ current = current /\ r \in Processes => \A v \in OwnOf(r) : c.user[v] = PageOf(r, v)
    BY <1>9
  <2> HIDE DEF sq
  <2>2. sq = split \cup (IF IsSplit(r.text) \/ IsSplit(r.data) THEN {current} ELSE {})
    BY DEF sq
  <2> QED
    BY <1>1, <1>5, <1>6, <1>9, <2>1, <2>2, LoadedIsConsistent
<1>11. Sound(c)
  BY <1>9 DEF Grows, Extends
<1>12. Consistent(c, proc', current', view', split', spilled')
  BY <1>2, <1>10
<1> QED
  BY <1>2, <1>11, <1>12, Becomes

\* process_setup_init.
LEMMA SetsUp == ASSUME SpaceInv, Room, NEW image \in Image, process_setup_init(image) PROVE SpaceInv'
<1> DEFINE m == Machine
           loaded == elf_loader_load(m, image, NoProcess)
           b == loaded.machine
           r == loaded.p
           y == MapSection(b, "data", r.data)
           c == MapSection(y, "text", r.text)
           sq == IF IsSplit(r.text) \/ IsSplit(r.data) THEN {First} ELSE {}
           pw == [proc EXCEPT ![First] = r]
           vx == [view EXCEPT ![First] = ViewOf(image, view[First])]
<1>1. /\ first \in Slot /\ Sound(m) /\ MaxImage \in Nat
      /\ Consistent(m, proc, current, view, split, spilled)
      /\ Reach(m) + 4 * MaxImage + StackPages + 5 < MaxPage
      /\ First \in Proc
  BY Ready, ProcAssumption
<1>2. /\ Become(c) /\ UNCHANGED <<first, current, spilled>>
      /\ proc' = pw /\ view' = vx /\ split' = sq /\ CreatedIn(proc) = {}
  BY DEF process_setup_init, Created, CreatedIn
<1>3. current = None /\ split = {}
  BY <1>1, <1>2 DEF Consistent
<1>4. /\ loaded = elf_loader_load(m, image, NoProcess) /\ b = loaded.machine /\ r = loaded.p
      /\ y = MapSection(b, "data", r.data) /\ c = MapSection(y, "text", r.text)
  OBVIOUS
<1> HIDE DEF m, loaded, b, r, y, c
<1>5. Reach(m) + 4 * MaxImage + StackPages + 1 < MaxPage
  BY <1>1, ReachIsNat, StackSize, TableLength
<1>6. /\ ProgramLoaded(m, image, NoProcess, r, b)
      /\ r = [text |-> r.text, data |-> r.data, stack |-> r.stack, spill |-> image.spill]
  BY <1>1, <1>4, <1>5, ProgramIsLoaded
<1>7. NoProcess.data = <<>> \/ (First \in CreatedIn(proc) /\ NoProcess = proc[First])
  BY DEF NoProcess
<1> HIDE DEF NoProcess
<1>8. /\ Sound(b) /\ Reach(b) < MaxPage
      /\ r.text \in Seq(Data(b)) /\ Len(r.text) <= MaxImage
      /\ r.data \in Seq(Data(b)) /\ Len(r.data) <= MaxImage
  BY <1>1, <1>6, <1>7, ProgramPages
<1>9. SectionShown(b, "data", r.data, y)
  BY <1>1, <1>4, <1>8, SectionIsShown
<1>10. Grows(b, y) /\ Sound(y) /\ Reach(y) < MaxPage /\ Data(b) \subseteq Data(y)
  BY <1>9 DEF SectionShown, Grows, Extends
<1>11. SectionShown(y, "text", r.text, c)
  <2>1. r.text \in Seq(Data(y))
    BY <1>8, <1>10
  <2> QED
    BY <1>1, <1>4, <1>8, <1>10, <2>1, SectionIsShown
<1>12. Grows(b, c)
  <2>1. Grows(y, c)
    BY <1>11 DEF SectionShown
  <2> QED
    BY <1>1, <1>8, <1>10, <2>1, GrowsTransitive
<1>13. Consistent(c, pw, current, vx, sq, spilled)
  <2>1. /\ current = None \/ current = First
        /\ current = First /\ r \in Processes => \A v \in OwnOf(r) : c.user[v] = PageOf(r, v)
    BY <1>1, <1>3, ProcAssumption
  <2>2. sq = split \cup (IF IsSplit(r.text) \/ IsSplit(r.data) THEN {First} ELSE {})
    BY <1>3
  <2> HIDE DEF sq
  <2> QED
    BY <1>1, <1>6, <1>7, <1>12, <2>1, <2>2, LoadedIsConsistent
<1>14. Sound(c)
  BY <1>12 DEF Grows, Extends
<1>15. Consistent(c, proc', current', view', split', spilled')
  BY <1>2, <1>13
<1> QED
  BY <1>2, <1>14, <1>15, Becomes

\* paging_initalize, and no process yet.
LEMMA Starts == ASSUME CallsFit, InitSpace PROVE SpaceInv
<1> DEFINE m == Machine
<1>1. /\ m = [kernel |-> kernel, owned |-> owned, memory |-> memory, user |-> user, tables |-> tables]
      /\ m.kernel = kernel /\ m.owned = owned /\ m.memory = memory /\ m.user = user
      /\ m.tables = tables
  BY DEF Machine
<1> HIDE DEF m
<1>2. /\ PagesInv /\ memory = [q \in Page \cup {Low} |-> Zero] /\ user = [v \in Vaddr |-> None]
      /\ tables = [t \in UserTable |-> None] /\ proc = [p \in Proc |-> NoProcess]
      /\ current = None /\ view = [p \in Proc |-> [v \in Vaddr |-> Zero]]
      /\ split = {} /\ spilled = FALSE
  BY InitPages DEF InitSpace
<1>3. Sound(m)
  <2>1. GoodPages(kernel, owned)
    BY <1>2 DEF PagesInv
  <2>2. memory = [q \in Page \cup {Low} |-> memory[q]] /\ \A q \in Page \cup {Low} : memory[q] = Zero
    BY <1>2
  <2>3. /\ tables \in [UserTable -> owned \cup {None}] /\ \A t \in UserTable : tables[t] = None
        /\ user \in [Vaddr -> Data(m) \cup {None, Low}]
    BY <1>2
  <2> QED
    BY <1>1, <2>1, <2>2, <2>3 DEF Sound
<1>4. Clean(m)
  BY <1>1, <1>2 DEF Clean
<1>5. CreatedIn(proc) = {}
  BY <1>2 DEF CreatedIn, NoProcess
<1>6. proc \in [Proc -> Processes] /\ \A p \in Proc : proc[p] = NoProcess
  <2>1. NoProcess \in Processes
    BY EmptySeq DEF NoProcess, Processes
  <2> HIDE DEF NoProcess
  <2> QED
    BY <1>2, <2>1
<1>7. \A p \in Proc : Len(proc[p].text) <= MaxImage /\ Len(proc[p].data) <= MaxImage
  <2>1. NoProcess.text = <<>> /\ NoProcess.data = <<>> /\ Len(<<>>) = 0
    BY EmptySeq DEF NoProcess
  <2>2. 0 <= MaxImage
    BY ImageAssumption, EntriesAssumption
  <2> QED
    BY <1>6, <2>1, <2>2
<1>8. view = [p \in Proc |-> [v \in Vaddr |-> view[p][v]]]
  BY <1>2
<1>9. Consistent(m, proc, current, view, split, spilled)
  BY <1>2, <1>4, <1>5, <1>6, <1>7, <1>8 DEF Consistent, Apart
<1> QED
  BY <1>2, <1>3, <1>9 DEF SpaceInv, PagesInv, m

\* Nothing happens.
LEMMA Stands == ASSUME SpaceInv, UNCHANGED allvars PROVE SpaceInv'
<1>1. /\ Sound(Machine) /\ Consistent(Machine, proc, current, view, split, spilled)
      /\ UNCHANGED <<kernel, first, owned, memory, user, tables, proc, current, view, split, spilled>>
  BY DEF SpaceInv, allvars, vars, space, history
<1>2. Become(Machine)
  BY <1>1 DEF Become, Machine
<1>3. Consistent(Machine, proc', current', view', split', spilled')
  BY <1>1
<1> QED
  BY <1>1, <1>2, <1>3, Becomes

-----------------------------------------------------------------------------
\* The inductive invariant, for any programs, processes and sizes.
THEOREM SpaceInvariance == ASSUME CallsFit PROVE SpecSpace => []SpaceInv
<1>1. InitSpace => SpaceInv
  BY Starts
<1>2. SpaceInv /\ [NextSpace]_allvars => SpaceInv'
  <2> SUFFICES ASSUME SpaceInv, [NextSpace]_allvars PROVE SpaceInv'
    OBVIOUS
  <2>1. CASE Room /\ \E image \in Image : process_setup_init(image)
    BY <2>1, SetsUp
  <2>2. CASE Room /\ \E image \in Image : execve(image)
    BY <2>2, Executes
  <2>3. CASE Room /\ \E child \in Proc : fork(child)
    BY <2>3, Forks
  <2>4. CASE Room /\ \E next \in Proc : process_sched_yield(next)
    BY <2>4, Switches
  <2>5. CASE OtherCalls
    BY <2>5, OthersCall
  <2>6. CASE YieldToIdle
    BY <2>6, Idles
  <2>7. CASE \E v \in Writes : Store(v)
    BY <2>7, Stores
  <2>8. CASE UNCHANGED allvars
    BY <2>8, Stands
  <2> QED
    BY <2>1, <2>2, <2>3, <2>4, <2>5, <2>6, <2>7, <2>8 DEF NextSpace
<1> QED
  BY <1>1, <1>2, PTL DEF SpecSpace

LEMMA SpaceTyped == ASSUME SpaceInv PROVE TypeOKSpace
<1>1. /\ first \in Slot /\ Sound(Machine) /\ PagesInv
      /\ Consistent(Machine, proc, current, view, split, spilled)
  BY Ready DEF SpaceInv, PagesInv, Sound, Machine
<1>2. TypeOK
  BY <1>1, PagesTyped
<1>3. /\ Machine.memory = memory /\ Machine.user = user /\ Machine.tables = tables
      /\ Machine.owned = owned
  BY DEF Machine
<1>4. \A q \in Data(Machine) : q \in Page
  BY <1>1, SoundParts
<1>5. DOMAIN memory = Page \cup {Low}
  BY <1>1, <1>3 DEF Sound
<1>6. user \in [Vaddr -> Page \cup {None, Low}]
  BY <1>1, <1>3, <1>4 DEF Sound
<1>7. tables \in [UserTable -> Page \cup {None}]
  BY <1>1, <1>3, SoundParts DEF Sound
<1>8. current \in Proc \cup {None} /\ split \subseteq Proc /\ spilled \in BOOLEAN
  BY <1>1 DEF Consistent, CreatedIn
<1>9. ASSUME NEW p \in Proc
      PROVE  /\ ToSet(proc[p].text) \cup ToSet(proc[p].data) \subseteq Page
             /\ proc[p].stack \in Page \cup {None}
  <2>1. proc[p].text \in Seq(Page) /\ proc[p].data \in Seq(Page) /\ proc[p].stack \in Page \cup {None}
    BY <1>1 DEF Consistent, Processes
  <2>2. ToSet(proc[p].text) \subseteq Page
    BY <2>1, ElementOfSeq, LenProperties DEF ToSet
  <2>3. ToSet(proc[p].data) \subseteq Page
    BY <2>1, ElementOfSeq, LenProperties DEF ToSet
  <2> QED
    BY <2>1, <2>2, <2>3
<1> QED
  BY <1>2, <1>5, <1>6, <1>7, <1>8, <1>9 DEF TypeOKSpace

\* Every process finds at its addresses what it has loaded, inherited from its parent
\* or stored itself, whatever fork, execve and process_sched_yield do in between.
THEOREM ProcessesSeeTheirOwn == ASSUME CallsFit PROVE SpecSpace => []SeesOwnMemory
<1>1. SpaceInv => SeesOwnMemory
  <2>1. SUFFICES ASSUME SpaceInv PROVE SeesOwnMemory
    OBVIOUS
  <2>2. /\ Consistent(Machine, proc, current, view, split, spilled)
        /\ Machine.memory = memory /\ Machine.user = user
    BY <2>1 DEF SpaceInv, Machine
  <2>3. Created = CreatedIn(proc) /\ \A p \in Proc : Own(p) = OwnOf(proc[p])
    BY DEF Created, CreatedIn, Own, OwnOf
  <2>4. \A p \in Proc : \A v \in Vaddr : PageAt(p, v) = PageOf(proc[p], v)
    BY DEF PageAt, PageOf
  <2>5. SUFFICES ASSUME ~ spilled, NEW p \in Created \ split, NEW v \in Own(p)
                 PROVE  memory[PageAt(p, v)] = view[p][v] /\ (p = current => user[v] = PageAt(p, v))
    BY <2>1, SpaceTyped, Zenon DEF SeesOwnMemory
  <2>6. /\ p \in Proc /\ p \in CreatedIn(proc) \ split /\ v \in Vaddr /\ v \in OwnOf(proc[p])
        /\ PageAt(p, v) = PageOf(proc[p], v)
    BY <2>3, <2>4, <2>5 DEF Created, Own
  <2>7. memory[PageOf(proc[p], v)] = view[p][v]
    BY <2>2, <2>5, <2>6 DEF Consistent
  <2>8. p = current => user[v] = PageOf(proc[p], v)
    BY <2>2, <2>6, ProcAssumption DEF Consistent
  <2> QED
    BY <2>6, <2>7, <2>8
<1> QED
  BY <1>1, SpaceInvariance, PTL

\* The pages that hold page tables hold nothing else: copies of fork and of the loader
\* and stores of programs do not reach them.
THEOREM TablesStayWhole == ASSUME CallsFit PROVE SpecSpace => []TablesAreWhole
<1>1. SpaceInv => TablesAreWhole
  <2>1. SUFFICES ASSUME SpaceInv PROVE TablesAreWhole
    OBVIOUS
  <2>2. /\ PagesInv /\ Sound(Machine) /\ first \in Slot
        /\ Consistent(Machine, proc, current, view, split, spilled)
        /\ Machine.memory = memory /\ Machine.tables = tables /\ Machine.kernel = kernel
    BY <2>1, Ready DEF SpaceInv, PagesInv, Sound, Machine
  <2>3. TablesAreSeparate
    BY <2>2 DEF PagesInv, GoodPages, InStep, SpareReady, IsSpare, TablesAreSeparate
  <2>4. \A t, w \in UserTable : tables[t] = tables[w] /\ tables[t] # None => t = w
    BY <2>2 DEF Sound
  <2>5. ASSUME split = {}, NEW t \in ToSet(kernel.dir) \cup {kernel.new_pt} \cup ToSet(tables),
               t \in Page
        PROVE  memory[t] = Zero
    <3>1. DOMAIN kernel.dir = Dir /\ DOMAIN tables = UserTable
      BY <2>2, SoundParts DEF Sound
    <3>2. HoldsTable(Machine, t)
      BY <2>2, <2>5, <3>1 DEF HoldsTable, ToSet
    <3>3. Clean(Machine)
      BY <2>2, <2>5 DEF Consistent
    <3> QED
      BY <2>2, <2>5, <3>2, <3>3 DEF Clean
  <2> QED
    BY <2>3, <2>4, <2>5 DEF TablesAreWhole
<1> QED
  BY <1>1, SpaceInvariance, PTL

\* Processes and their tables included, paging_increment_kernel_page_index always finds
\* the table in use where the address says.
THEOREM SpaceTracksAddress == ASSUME CallsFit PROVE SpecSpace => []IndexTracksAddress
<1>1. SpaceInv => IndexTracksAddress
  BY PagesTrackAddress DEF SpaceInv, PagesInv, Sound, Machine
<1> QED
  BY <1>1, SpaceInvariance, PTL

\* Processes and their tables included, every page handed out is mapped to itself.
THEOREM SpaceStaysMapped == ASSUME CallsFit PROVE SpecSpace => []EveryPageMapped
<1>1. SpaceInv => EveryPageMapped
  BY DEF SpaceInv, Sound, Machine, GoodPages, InStep, EveryPageMapped
<1> QED
  BY <1>1, SpaceInvariance, PTL
=============================================================================
