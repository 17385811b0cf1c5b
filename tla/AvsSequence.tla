------------------------------ MODULE AvsSequence ------------------------------
(***************************************************************************)
(* What a list of the kernel (lib/list.h) promises its callers: a sequence *)
(* of data, first element first, and the answer to each call.  Positions   *)
(* count from 0, as avs_list_at_index_data does; a node is named by its    *)
(* position.                                                               *)
(***************************************************************************)
EXTENDS Integers, Sequences, SequencesExt

CONSTANTS
    Data,       \* what callers keep in lists
    MaxSize,    \* bound on the elements of a list
    NULL        \* the answer of a call that finds nothing

VARIABLES
    contents,   \* the data, in order
    last        \* the last call: its name, its argument and its answer

absvars == <<contents, last>>

Position == 0 .. Len(contents) - 1

Init == contents = <<>> /\ last = <<"init", NULL, NULL>>

\* The call puts d before the element now at position i, or at the end.
InsertCall(name, arg, i, d) ==
    /\ Len(contents) < MaxSize
    /\ contents' = InsertAt(contents, i + 1, d)
    /\ last' = <<name, arg, NULL>>

\* The call takes the element at position i out and answers a.
RemoveCall(name, arg, i, a) ==
    /\ contents' = RemoveAt(contents, i + 1)
    /\ last' = <<name, arg, a>>

\* The call only looks.
Query(name, arg, a) == last' = <<name, arg, a>> /\ UNCHANGED contents

Next ==
    \/ \E d \in Data : \/ InsertCall("append", d, Len(contents), d)
                       \/ InsertCall("prepend", d, 0, d)
                       \/ Query("find", d, IF Contains(contents, d) THEN d ELSE NULL)
    \/ \E d \in Data, i \in Position : \/ InsertCall("before", i, i, d)
                                       \/ InsertCall("after", i, i + 1, d)
    \/ \E i \in Position : RemoveCall("free", i, i, NULL)
    \/ contents = <<>> /\ Query("pop", NULL, NULL)
    \/ contents # <<>> /\ RemoveCall("pop", NULL, 0, Head(contents))
    \/ contents # <<>> /\ RemoveCall("dequeue", NULL, Len(contents) - 1, Last(contents))
    \/ \E i \in -1 .. MaxSize : Query("at", i, IF i \in Position THEN contents[i + 1] ELSE NULL)
    \/ contents' = <<>> /\ last' = <<"empty", NULL, NULL>>

Spec == Init /\ [][Next]_absvars
=============================================================================
