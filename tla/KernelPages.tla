------------------------------ MODULE KernelPages ------------------------------
(***************************************************************************)
(* The allocator of kernel pages (arch/x86_64/page.c).  Kernel addresses   *)
(* are handed out in order and never taken back; the page tables that map  *)
(* them are themselves such pages, so that a spare table is set aside      *)
(* before the table in use is full.  Pages are numbered by their virtual   *)
(* address; virtual and physical addresses advance together, so a page is  *)
(* mapped correctly when its entry holds its own number.                   *)
(*                                                                         *)
(* One page directory is modelled: the kernel has not yet used up its      *)
(* first 1 GiB.                                                            *)
(***************************************************************************)
EXTENDS Integers

CONSTANTS
    ENTRIES,        \* entries of a table, 512
    Start,          \* the pages the kernel image may end at
    MaxCall,        \* the most pages asked for in one call
    MmioCrosses,    \* may page_allocate_kernel_mmio meet the end of a table?
    MaxPage         \* bound on the pages handed out

ASSUME EntriesAssumption == ENTRIES \in Nat /\ ENTRIES > 1
ASSUME StartAssumption == Start \subseteq 0 .. ENTRIES - 1
ASSUME CallAssumption == MaxCall \in Nat /\ MmioCrosses \in BOOLEAN
ASSUME MaxPageAssumption == MaxPage \in Nat /\ MaxPage >= ENTRIES

\* A table is named by its page: Boot is part of the image, Wild is the address
\* 0xFFFF000000000000 that k_new_pt holds at first.
Boot == -1
Wild == -2
None == -3

Page == 0 .. MaxPage - 1
Table == Page \cup {Boot, Wild}
Slot == 0 .. ENTRIES - 1
Dir == 0 .. MaxPage \div ENTRIES + 1

\* kernel is a record: next, the page kernel_virtual_memory_next is the address
\* of; pt_index and pd_index; pt and new_pt, the table in use and the spare one;
\* entry, what each table holds; and dir, what the page directory holds.
VARIABLES
    kernel,
    first,      \* the page the image ends at
    owned       \* the pages callers have been given

vars == <<kernel, first, owned>>

\* Wrong on purpose (see "mutants" in PROJECT.json): the directory entry is that
\* of the full table.
paging_increment_kernel_page_index_SameEntry(k) ==
    IF k.pt_index = ENTRIES - 1
    THEN [k EXCEPT !.pt_index = 0, !.pt = k.new_pt,
                   !.dir[k.pd_index] = k.new_pt, !.pd_index = @ + 1]
    ELSE [k EXCEPT !.pt_index = @ + 1]

\* paging_increment_kernel_page_index: after the last entry of a table the spare
\* one takes over.
paging_increment_kernel_page_index(k) ==
    IF k.pt_index = ENTRIES - 1
    THEN [k EXCEPT !.pt_index = 0, !.pt = k.new_pt,
                   !.dir[k.pd_index + 1] = k.new_pt, !.pd_index = @ + 1]
    ELSE [k EXCEPT !.pt_index = @ + 1]

\* paging_allocate_single_linear_kernel_page.
paging_allocate_single(k) ==
    [k EXCEPT !.entry[k.pt][k.pt_index] = k.next, !.next = @ + 1]

\* Wrong on purpose (see "mutants" in PROJECT.json): the index is not moved on
\* after the page for the spare table.
SetAside_NoIncrement(k) ==
    IF k.pt = k.new_pt
    THEN [paging_allocate_single(k) EXCEPT !.new_pt = k.next]
    ELSE k

\* The start of page_allocate_kernel_linear: once the spare table is in use, the
\* next page becomes the new spare one.
SetAside(k) ==
    IF k.pt = k.new_pt
    THEN paging_increment_kernel_page_index([paging_allocate_single(k) EXCEPT !.new_pt = k.next])
    ELSE k

\* The loop over the pages of the call.
AllocatePages(k, n) ==
    LET after[i \in 0 .. n] ==
          IF i = 0 THEN k
          ELSE paging_increment_kernel_page_index(paging_allocate_single(after[i - 1]))
    IN  after[n]

page_allocate_kernel_linear(k, n) == AllocatePages(SetAside(k), n)

\* Wrong on purpose (see "mutants" in PROJECT.json): the address is taken before
\* a spare table is set aside.
ReturnedFrom_Early(k) == k.next

\* The first page of the caller.
ReturnedFrom(k) == SetAside(k).next

\* The loop of page_allocate_kernel_mmio maps by walking the tables.
MapPages(k, n) ==
    LET after[i \in 0 .. n] ==
          IF i = 0 THEN k
          ELSE LET b == after[i - 1]
                   t == b.dir[b.next \div ENTRIES]
               IN  paging_increment_kernel_page_index(
                     [b EXCEPT !.entry[t][b.next % ENTRIES] = b.next, !.next = @ + 1])
    IN  after[n]

\* page_allocate_kernel_mmio moves the index to the next table when the call does
\* not fit into this one; the address stays.
SkipToNextTable(k) ==
    [k EXCEPT !.pt_index = 0, !.pt = k.new_pt, !.dir[k.pd_index + 1] = k.new_pt, !.pd_index = @ + 1]

Crosses(k, n) == k.pt_index + n > ENTRIES - 1

page_allocate_kernel_mmio(k, n) ==
    MapPages(IF Crosses(k, n) THEN SkipToNextTable(k) ELSE k, n)

\* paging_initalize: a page for the spare table, and one for the spare directory.
Init ==
    /\ first \in Start
    /\ LET k0 == [next |-> first, pt_index |-> first, pd_index |-> 0, pt |-> Boot, new_pt |-> Wild,
                  entry |-> [t \in Table |-> [i \in Slot |-> None]],
                  dir |-> [d \in Dir |-> IF d = 0 THEN Boot ELSE None]]
           k1 == [page_allocate_kernel_linear(k0, 1) EXCEPT !.new_pt = first]
       IN  kernel = page_allocate_kernel_linear(k1, 1)
    /\ owned = {}

\* The pages handed out stay within the bound, spare tables included.
Fits(k, n) == k.next + n + 1 < MaxPage

AllocateLinear(n) ==
    /\ Fits(kernel, n)
    /\ kernel' = page_allocate_kernel_linear(kernel, n)
    /\ owned' = owned \cup {ReturnedFrom(kernel) + i : i \in 0 .. n - 1}
    /\ UNCHANGED first

AllocateMmio(n) ==
    /\ Fits(kernel, n)
    /\ Crosses(kernel, n) => MmioCrosses
    /\ kernel' = page_allocate_kernel_mmio(kernel, n)
    /\ owned' = owned \cup {kernel.next + i : i \in 0 .. n - 1}
    /\ UNCHANGED first

Next == \E n \in 1 .. MaxCall : AllocateLinear(n) \/ AllocateMmio(n)

Spec == Init /\ [][Next]_vars

-----------------------------------------------------------------------------
TypeOK ==
    /\ first \in Start
    /\ owned \subseteq Page
    /\ kernel.next \in 0 .. MaxPage
    /\ kernel.pt_index \in Slot /\ kernel.pd_index \in Dir
    /\ kernel.pt \in Table /\ kernel.new_pt \in Page
    /\ kernel.entry \in [Table -> [Slot -> Page \cup {None}]]
    /\ kernel.dir \in [Dir -> Table \cup {None}]

\* What the hardware finds for a page.
Walk(k, p) ==
    LET t == k.dir[p \div ENTRIES]
    IN  IF t = None THEN None ELSE k.entry[t][p % ENTRIES]

\* paging_increment_kernel_page_index, "the following are guaranteed to be
\* valid": the table in use exists, and the entry written next is the one the
\* hardware will look up for the next address.
IndexTracksAddress ==
    /\ TypeOK
    /\ kernel.pt # Wild
    /\ kernel.pd_index * ENTRIES + kernel.pt_index = kernel.next
    /\ kernel.dir[kernel.pd_index] = kernel.pt

\* page_allocate_kernel_linear, "make sure the new_pt and new_pd spaces are
\* available BEFORE": every page handed out so far is mapped to itself, those
\* that hold tables included.
EveryPageMapped == \A p \in first .. kernel.next - 1 : Walk(kernel, p) = p

\* No table serves two directory entries, the spare one serves none unless it
\* has just been put to use, and no caller owns a page that holds a table.
TablesAreSeparate ==
    /\ \A c, d \in Dir : kernel.dir[c] = kernel.dir[d] /\ kernel.dir[c] # None => c = d
    /\ \A d \in Dir : kernel.dir[d] = kernel.new_pt => d = kernel.pd_index
    /\ \A d \in Dir : kernel.dir[d] \notin owned
    /\ kernel.new_pt \notin owned
=============================================================================
