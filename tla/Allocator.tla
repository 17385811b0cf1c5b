------------------------------- MODULE Allocator -------------------------------
(***************************************************************************)
(* What kmalloc, kfree and krealloc promise their callers: blocks of       *)
(* memory, each of them the caller's own until it is freed, and aligned.   *)
(***************************************************************************)
EXTENDS Integers

CONSTANTS
    Request,    \* the sizes callers ask for
    Alignment   \* what the address of a block is a multiple of

VARIABLE blocks     \* the blocks callers own: [addr, len]

Disjoint(b, c) == b.addr + b.len <= c.addr \/ c.addr + c.len <= b.addr

Init == blocks = {}

\* A new block, aligned and clear of all others.
Alloc(b) ==
    /\ b.len \in Request
    /\ b.addr % Alignment = 0
    /\ \A c \in blocks : Disjoint(b, c)
    /\ blocks' = blocks \cup {b}

Free(b) == blocks' = blocks \ {b}

\* krealloc: b becomes c, in place when it does not grow.
Resize(b, c) ==
    /\ c.len \in Request
    /\ c.len <= b.len => c.addr = b.addr
    /\ c.addr % Alignment = 0
    /\ \A d \in blocks \ {b} : Disjoint(c, d)
    /\ blocks' = (blocks \ {b}) \cup {c}

Next ==
    \/ \E b \in blocks' : Alloc(b)
    \/ \E b \in blocks : Free(b)
    \/ \E b \in blocks, c \in blocks' : Resize(b, c)

Spec == Init /\ [][Next]_blocks
=============================================================================
