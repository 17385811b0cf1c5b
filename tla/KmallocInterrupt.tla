---------------------------- MODULE KmallocInterrupt ----------------------------
(***************************************************************************)
(* kmalloc (mem/kmalloc.c) against an interrupt whose handler allocates as *)
(* well: the handler of the keyboard does, for each scancode (ps2.c).      *)
(* liballoc_lock tells its caller when the heap is locked already, and no  *)
(* caller asks.  The handler runs to its end before the interrupted call   *)
(* goes on with the gap it had found.                                      *)
(*                                                                         *)
(* What a stale gap does to the lists is not followed further: the blocks  *)
(* that the two calls return tell enough.                                  *)
(***************************************************************************)
EXTENDS Kmalloc

VARIABLES
    liballoc_is_locked,
    found,      \* the block the interrupted call is about to return, if any
    owned       \* the blocks kmalloc has returned

intvars == <<heap, liballoc_is_locked, found, owned>>

NoBlock == [addr |-> NULL, len |-> 0]

IntInit ==
    /\ Init
    /\ liballoc_is_locked = FALSE
    /\ found = NoBlock
    /\ owned = {}

\* The block a call returns: the one the heap has more afterwards.
Returned(req_size) ==
    LET new == Minors(kmalloc(heap, req_size)) \ Minors(heap)
    IN  {[addr |-> ALIGN(m.addr), len |-> m.req_size] : m \in new}

\* liballoc_lock, its result ignored, and the search, when it ends at a gap of a
\* major (and not with new pages, which would be the caller's alone).
Search(req_size) ==
    /\ found = NoBlock
    /\ kmalloc(heap, req_size).pagesOut = heap.pagesOut
    /\ liballoc_is_locked' = TRUE
    /\ found' \in Returned(req_size)
    /\ UNCHANGED <<heap, owned>>

\* The rest of the call: the minor is linked into the gap.
Link ==
    /\ found # NoBlock
    /\ heap' = kmalloc(heap, found.len)
    /\ owned' = owned \cup {found}
    /\ liballoc_is_locked' = FALSE
    /\ found' = NoBlock

\* The interrupt handler's call, from liballoc_lock to liballoc_unlock.
InterruptCall(req_size) ==
    /\ heap' = kmalloc(heap, req_size)
    /\ owned' = owned \cup Returned(req_size)
    /\ liballoc_is_locked' = FALSE
    /\ UNCHANGED found

IntNext ==
    \/ \E req_size \in Request : Search(req_size) \/ InterruptCall(req_size)
    \/ Link

IntSpec == IntInit /\ [][IntNext]_intvars

\* liballoc_lock, "supposed to lock the memory data structures": the block a call
\* is about to return is still nobody else's.
FoundBlockIsFree ==
    found # NoBlock => \A b \in owned : Abstract!Disjoint(found, b)
=============================================================================
