-------------------------------- MODULE Kmalloc --------------------------------
(***************************************************************************)
(* The kernel heap (mem/kmalloc.c): runs of pages, the majors, each of     *)
(* them holding a list of allocated pieces, the minors.  Addresses are in  *)
(* units; a header, a page and the room for alignment have the sizes that  *)
(* the constants give.  The list of majors and the minors of each are      *)
(* sequences here.                                                         *)
(*                                                                         *)
(* A call is one step: KmallocInterrupt opens it up.                       *)
(***************************************************************************)
EXTENDS Integers, Sequences, SequencesExt, FiniteSets, FiniteSetsExt

CONSTANTS
    l_pageSize,     \* units of a page
    MAJOR,          \* sizeof(struct liballoc_major)
    MINOR,          \* sizeof(struct liballoc_minor)
    ALIGNMENT,      \* what a returned pointer is a multiple of
    Request,        \* the sizes asked for
    MaxPages        \* bound on the pages liballoc_alloc hands out

ASSUME AlignmentAssumption == ALIGNMENT \in Nat \ {0}
ASSUME PageAssumption == l_pageSize \in Nat \ {0} /\ l_pageSize % ALIGNMENT = 0
ASSUME HeaderAssumption == MAJOR \in Nat \ {0} /\ MINOR \in Nat \ {0}
ASSUME RequestAssumption == Request \subseteq Nat /\ MaxPages \in Nat

\* Where the distance to the unaligned pointer is kept, right before the pointer.
ALIGN_INFO == ALIGNMENT

NULL == 0

\* heap is a record: majors, the list from l_memRoot on; bestBet, the address of
\* the major to try first, or NULL; allocated and inuse, the running totals; and
\* pagesOut, the pages liballoc_alloc has handed out.
VARIABLE heap

Init == heap = [majors |-> <<>>, bestBet |-> NULL, allocated |-> 0, inuse |-> 0, pagesOut |-> 0]

\* The size of a minor with the room to align it, and the units it takes in all.
SizeFor(req_size) == req_size + ALIGNMENT + ALIGN_INFO
Need(req_size) == SizeFor(req_size) + MINOR

\* Wrong on purpose (see "mutants" in PROJECT.json): the pointer is not moved up.
ALIGN_Off(addr) == addr + MINOR + ALIGN_INFO

\* ALIGN: the pointer the caller gets for the minor at addr.
ALIGN(addr) ==
    LET p == addr + MINOR + ALIGN_INFO
    IN  p + (IF p % ALIGNMENT = 0 THEN 0 ELSE ALIGNMENT - (p % ALIGNMENT))

Size(maj) == maj.pages * l_pageSize
FreeIn(maj) == Size(maj) - maj.usage

\* allocate_new_page: how many pages, and the new major.
PagesFor(req_size) ==
    LET st == SizeFor(req_size) + MAJOR + MINOR
    IN  IF st % l_pageSize = 0 THEN st \div l_pageSize ELSE st \div l_pageSize + 1

NewMajor(h, req_size) ==
    [addr |-> (h.pagesOut + 1) * l_pageSize, pages |-> PagesFor(req_size),
     usage |-> MAJOR, minors |-> <<>>]

\* The free units behind minor i of a major, or behind its header when i = 0.
GapStart(maj, i) ==
    IF i = 0 THEN maj.addr + MAJOR ELSE maj.minors[i].addr + MINOR + maj.minors[i].size
GapEnd(maj, i) ==
    IF i = Len(maj.minors) THEN maj.addr + Size(maj) ELSE maj.minors[i + 1].addr

\* Wrong on purpose (see "mutants" in PROJECT.json): the header of the minor is
\* forgotten.
Gaps_NoHeader(maj, req_size) ==
    {i \in 0 .. Len(maj.minors) : GapEnd(maj, i) - GapStart(maj, i) >= SizeFor(req_size)}

\* The gaps of a major that are large enough (cases 2, 3, 4.1 and 4.2).
Gaps(maj, req_size) ==
    {i \in 0 .. Len(maj.minors) : GapEnd(maj, i) - GapStart(maj, i) >= Need(req_size)}

\* A major is passed over when its free units, contiguous or not, are too few.
HasRoom(maj, req_size) == FreeIn(maj) >= Need(req_size) /\ Gaps(maj, req_size) # {}

\* The new minor goes into the first gap.
Place(maj, req_size) ==
    LET i == Min(Gaps(maj, req_size))
        minor == [addr |-> GapStart(maj, i), size |-> SizeFor(req_size), req_size |-> req_size]
    IN  [maj EXCEPT !.usage = @ + Need(req_size), !.minors = InsertAt(@, i + 1, minor)]

IndexOf(h, addr) == CHOOSE k \in DOMAIN h.majors : h.majors[k].addr = addr

\* The order in which kmalloc looks at the majors: from the best bet on, when it
\* has room, and then all of them; otherwise from the root.
SearchOrder(h, req_size) ==
    LET all == [k \in DOMAIN h.majors |-> k]
    IN  IF h.bestBet # NULL /\ FreeIn(h.majors[IndexOf(h, h.bestBet)]) > Need(req_size)
        THEN SubSeq(all, IndexOf(h, h.bestBet), Len(all)) \o all
        ELSE all

\* l_bestBet after kmalloc has looked at the majors of a sequence: the first of
\* those with the most free units, if it has more than the best bet so far.
BestBetAfter(h, seen) ==
    LET room == IF h.bestBet = NULL THEN 0 ELSE FreeIn(h.majors[IndexOf(h, h.bestBet)])
        better == {j \in DOMAIN seen : FreeIn(seen[j]) > room}
        best == {j \in better : \A i \in better : FreeIn(seen[i]) <= FreeIn(seen[j])}
    IN  IF best = {} THEN h.bestBet ELSE seen[Min(best)].addr

\* kmalloc.  Without room in any major there is a new one at the end of the list,
\* or the call fails.  The new major is looked at like the others, except when
\* the one before it has too little room in total (case 1 falls through).
kmalloc(h, req_size) ==
    LET order == SearchOrder(h, req_size)
        seen == [j \in DOMAIN order |-> h.majors[order[j]]]
        hits == {j \in DOMAIN order : HasRoom(seen[j], req_size)}
        new == NewMajor(h, req_size)
        fallsThrough == seen # <<>> /\ FreeIn(Last(seen)) < Need(req_size)
    IN  IF hits # {} THEN
            [h EXCEPT !.majors[order[Min(hits)]] = Place(@, req_size),
                      !.bestBet = BestBetAfter(h, SubSeq(seen, 1, Min(hits))),
                      !.inuse = @ + SizeFor(req_size)]
        ELSE IF h.pagesOut + new.pages <= MaxPages THEN
            [h EXCEPT !.majors = Append(@, Place(new, req_size)),
                      !.bestBet = BestBetAfter(h, IF fallsThrough THEN seen ELSE Append(seen, new)),
                      !.allocated = @ + Size(new),
                      !.inuse = @ + SizeFor(req_size),
                      !.pagesOut = @ + new.pages]
        ELSE [h EXCEPT !.bestBet = BestBetAfter(h, seen)]

\* Wrong on purpose (see "mutants" in PROJECT.json): l_bestBet keeps naming a
\* major that is gone.
DropMajor_StaleBet(h, k) ==
    [h EXCEPT !.majors = RemoveAt(@, k), !.allocated = @ - Size(h.majors[k])]

\* kfree of the last minor of a major: the major leaves the list.  liballoc_free
\* does not give its pages back.
DropMajor(h, k) ==
    [h EXCEPT !.majors = RemoveAt(@, k),
              !.bestBet = IF @ = h.majors[k].addr THEN NULL ELSE @,
              !.allocated = @ - Size(h.majors[k])]

\* The rest of kfree: is this major a better bet now?
Reconsider(h, k) ==
    IF h.bestBet # NULL /\ FreeIn(h.majors[k]) > FreeIn(h.majors[IndexOf(h, h.bestBet)])
    THEN [h EXCEPT !.bestBet = h.majors[k].addr] ELSE h

\* Wrong on purpose (see "mutants" in PROJECT.json): the header is given back twice.
Without_HeaderTwice(maj, i) ==
    [maj EXCEPT !.usage = @ - (maj.minors[i].size + MINOR + MINOR), !.minors = RemoveAt(@, i)]

\* The minor is taken out of its major.
Without(maj, i) ==
    [maj EXCEPT !.usage = @ - (maj.minors[i].size + MINOR), !.minors = RemoveAt(@, i)]

Unlink(h, k, i) ==
    [h EXCEPT !.majors[k] = Without(@, i), !.inuse = @ - h.majors[k].minors[i].size]

\* kfree of the minor at addr.
kfree(h, addr) ==
    LET k == CHOOSE m \in DOMAIN h.majors : \E x \in ToSet(h.majors[m].minors) : x.addr = addr
        i == CHOOSE j \in DOMAIN h.majors[k].minors : h.majors[k].minors[j].addr = addr
        g == Unlink(h, k, i)
    IN  IF g.majors[k].minors = <<>> THEN DropMajor(g, k) ELSE Reconsider(g, k)

\* krealloc to no more than was last asked for: only req_size changes.
Shrink(h, k, i, size) == [h EXCEPT !.majors[k].minors[i].req_size = size]

\* krealloc of minor i of major k, for a size that is not 0: a block that has to
\* grow is copied.
krealloc(h, k, i, size) ==
    LET minor == h.majors[k].minors[i]
    IN  IF minor.req_size >= size THEN Shrink(h, k, i, size)
        ELSE kfree(kmalloc(h, size), minor.addr)

\* Growing without memory left would copy to NULL: callers do not get that far
\* in the model.
CanGrow(size) == kmalloc(heap, size).inuse > heap.inuse

Minors(h) == UNION {ToSet(h.majors[k].minors) : k \in DOMAIN h.majors}

Next ==
    \/ \E req_size \in Request : heap' = kmalloc(heap, req_size)
    \/ \E minor \in Minors(heap) : heap' = kfree(heap, minor.addr)
    \/ \E size \in Request \ {0}, k \in DOMAIN heap.majors :
          \E i \in DOMAIN heap.majors[k].minors :
              /\ heap.majors[k].minors[i].req_size < size => CanGrow(size)
              /\ heap' = krealloc(heap, k, i, size)

Spec == Init /\ [][Next]_heap

-----------------------------------------------------------------------------
Minor == [addr : Nat, size : Nat, req_size : Request]
Major == [addr : Nat, pages : 1 .. MaxPages, usage : Nat, minors : Seq(Minor)]

TypeOK ==
    /\ heap.majors \in Seq(Major)
    /\ heap.pagesOut \in 0 .. MaxPages
    /\ {heap.bestBet, heap.allocated, heap.inuse} \subseteq Nat
    /\ \A k \in DOMAIN heap.majors :
          LET maj == heap.majors[k]
          IN  maj.addr \in 1 .. (MaxPages + 1) * l_pageSize /\ maj.usage <= Size(maj)

\* The minors of a major lie in it one behind the other, headers included, and
\* the majors do not overlap: no allocation overwrites another one's header.
HeapInOrder ==
    /\ TypeOK
    /\ \A k \in DOMAIN heap.majors : LET maj == heap.majors[k] IN
          \A i \in 0 .. Len(maj.minors) : GapStart(maj, i) <= GapEnd(maj, i)
    /\ \A j, k \in DOMAIN heap.majors : j < k =>
          heap.majors[j].addr + Size(heap.majors[j]) <= heap.majors[k].addr

\* The sum of a sequence of numbers.
Total(terms) ==
    LET upto[i \in 0 .. Len(terms)] == IF i = 0 THEN 0 ELSE upto[i - 1] + terms[i]
    IN  upto[Len(terms)]

UnitsOf(maj) == [i \in DOMAIN maj.minors |-> maj.minors[i].size]

\* The counters agree with the lists: usage with the minors of each major, and
\* the two running totals with everything.
CountersAgree ==
    /\ \A k \in DOMAIN heap.majors : LET maj == heap.majors[k] IN
          maj.usage = MAJOR + Total(UnitsOf(maj)) + Len(maj.minors) * MINOR
    /\ heap.inuse = Total([k \in DOMAIN heap.majors |-> Total(UnitsOf(heap.majors[k]))])
    /\ heap.allocated = Total([k \in DOMAIN heap.majors |-> Size(heap.majors[k])])

\* l_bestBet names a major of the list, and no major of the list is empty: kfree
\* drops a major together with every reference to it.
NoDanglingBet ==
    /\ heap.bestBet # NULL => \E k \in DOMAIN heap.majors : heap.majors[k].addr = heap.bestBet
    /\ \A k \in DOMAIN heap.majors : heap.majors[k].minors # <<>>

-----------------------------------------------------------------------------
(***************************************************************************)
(* The inductive invariant, of a heap h.                                   *)
(***************************************************************************)
\* A major counts what its minors take, headers included; they lie one behind the
\* other; each has the room it needs to be aligned.
MajorInOrder(maj) ==
    /\ maj.usage = MAJOR + Total(UnitsOf(maj)) + Len(maj.minors) * MINOR
    /\ \A i \in 0 .. Len(maj.minors) : GapStart(maj, i) <= GapEnd(maj, i)
    /\ \A i \in DOMAIN maj.minors : SizeFor(maj.minors[i].req_size) <= maj.minors[i].size

End(maj) == maj.addr + Size(maj)

\* No major is empty, and they lie one behind the other in the pages handed out.
MajorsInOrder(h) ==
    /\ \A k \in DOMAIN h.majors : /\ MajorInOrder(h.majors[k]) /\ h.majors[k].minors # <<>>
                                 /\ h.majors[k].addr > 0
                                 /\ End(h.majors[k]) <= (h.pagesOut + 1) * l_pageSize
    /\ \A j, k \in DOMAIN h.majors : j < k => End(h.majors[j]) <= h.majors[k].addr

TotalsAgree(h) ==
    /\ h.inuse = Total([k \in DOMAIN h.majors |-> Total(UnitsOf(h.majors[k]))])
    /\ h.allocated = Total([k \in DOMAIN h.majors |-> Size(h.majors[k])])

BetIsKnown(h) ==
    h.bestBet # NULL => \E k \in DOMAIN h.majors : h.majors[k].addr = h.bestBet

Heap == [majors : Seq(Major), bestBet : Nat, allocated : Nat, inuse : Nat, pagesOut : 0 .. MaxPages]

HeapInOrderOf(h) == h \in Heap /\ MajorsInOrder(h) /\ TotalsAgree(h) /\ BetIsKnown(h)

HeapInv == HeapInOrderOf(heap)

-----------------------------------------------------------------------------
\* The blocks as callers see them.
blocksBar == {[addr |-> ALIGN(m.addr), len |-> m.req_size] : m \in Minors(heap)}

Abstract == INSTANCE Allocator WITH blocks <- blocksBar, Alignment <- ALIGNMENT

\* Whatever the order of kmalloc, kfree and krealloc, a returned block is aligned
\* and overlaps no other block its owner has not freed.
ImplementsAllocator == Abstract!Spec
=============================================================================
