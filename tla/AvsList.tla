------------------------------- MODULE AvsList ---------------------------------
(***************************************************************************)
(* The doubly linked list of the kernel (lib/list.c), node by node.  The   *)
(* scancode queue, the wait queues, the device list and the events of the  *)
(* window system are such lists.  Every pointer the functions write is in  *)
(* the model; a node that is not allocated keeps the stale pointers of its *)
(* last life, and a new node is any free one (avs_allocate may return      *)
(* memory that was freed before).                                          *)
(*                                                                         *)
(* Callers pass nodes of this list only, as all callers in the kernel do.  *)
(***************************************************************************)
EXTENDS Integers, Sequences, SequencesExt, FiniteSets

CONSTANTS
    Node,       \* the memory for nodes
    Data,       \* what callers keep in the list
    NULL        \* the null pointer

ASSUME NodeAssumption == NULL \notin Node /\ NULL \notin Data
ASSUME NodeFinite == IsFiniteSet(Node)

VARIABLES
    head, tail, size,       \* avs_list
    next, prev, data,       \* avs_node, for each node
    allocated,              \* the nodes avs_allocate has given out
    last                    \* the last call: its name, its argument and its answer

list == <<head, tail, size>>
heap == <<next, prev, data, allocated>>
vars == <<list, heap, last>>

Init ==
    /\ head = NULL /\ tail = NULL /\ size = 0
    /\ next = [n \in Node |-> NULL]
    /\ prev = [n \in Node |-> NULL]
    /\ data = [n \in Node |-> NULL]
    /\ allocated = {}
    /\ last = <<"init", NULL, NULL>>

\* avs_allocate and the three assignments to the new node's fields.
NewNode(node, d) ==
    /\ node \notin allocated
    /\ allocated' = allocated \cup {node}
    /\ data' = [data EXCEPT ![node] = d]
    /\ size' = size + 1

\* The first n nodes from first on, by following next.
Following(first, nxt, n) ==
    LET walk[i \in 1 .. n] == IF i = 1 THEN first ELSE nxt[walk[i - 1]]
    IN  [i \in 1 .. n |-> walk[i]]

\* The nodes of the list: the loop of avs_list_for_each, avs_list_find_data and
\* avs_list_at_index_node.
Forward == Following(head, next, size)

\* Where a node is in the list, counted from 0.
Position(node) == (CHOOSE i \in 1 .. size : Forward[i] = node) - 1

\* avs_list_insert_before.
avs_list_insert_before(before_node, d) ==
    \E node \in Node :
        /\ NewNode(node, d)
        /\ \/ /\ before_node = NULL
              /\ head' = node /\ tail' = node
              /\ next' = [next EXCEPT ![node] = NULL]
              /\ prev' = [prev EXCEPT ![node] = NULL]
           \/ /\ before_node # NULL /\ before_node = head
              /\ head' = node
              /\ tail' = IF tail = NULL THEN node ELSE tail
              /\ next' = [next EXCEPT ![node] = before_node]
              /\ prev' = [prev EXCEPT ![node] = NULL, ![before_node] = node]
           \/ /\ before_node # NULL /\ before_node # head
              /\ next' = [next EXCEPT ![node] = before_node, ![prev[before_node]] = node]
              /\ prev' = [prev EXCEPT ![node] = prev[before_node], ![before_node] = node]
              /\ UNCHANGED <<head, tail>>

\* Wrong on purpose (see "mutants" in PROJECT.json): an insertion in the middle
\* does not set the back pointer of the node that follows.
avs_list_insert_after_NoBackLink(after_node, d) ==
    \E node \in Node :
        /\ NewNode(node, d)
        /\ head' = IF tail = NULL THEN node ELSE head
        /\ tail' = IF after_node \in {NULL, tail} THEN node ELSE tail
        /\ LET pred == IF after_node = NULL THEN tail ELSE after_node
           IN  /\ next' = [n \in Node |-> IF n = node THEN (IF pred = NULL THEN NULL ELSE next[pred])
                                          ELSE IF n = pred THEN node ELSE next[n]]
               /\ prev' = [prev EXCEPT ![node] = pred]

\* avs_list_insert_after: NULL, or the tail, means the end of the list.
avs_list_insert_after(after_node, d) ==
    \E node \in Node :
        /\ NewNode(node, d)
        /\ \/ /\ after_node \in {NULL, tail}
              /\ head' = IF tail = NULL THEN node ELSE head
              /\ tail' = node
              /\ next' = [n \in Node |-> IF n = node THEN NULL ELSE IF n = tail THEN node ELSE next[n]]
              /\ prev' = [prev EXCEPT ![node] = tail]
           \/ /\ after_node \notin {NULL, tail}
              /\ next' = [next EXCEPT ![node] = next[after_node], ![after_node] = node]
              /\ prev' = [prev EXCEPT ![node] = after_node, ![next[after_node]] = node]
              /\ UNCHANGED <<head, tail>>

\* avs_list_remove: which of the four cases applies is read off the node alone.
Unlink(node) ==
    /\ \/ /\ prev[node] = NULL /\ next[node] = NULL
          /\ head' = NULL /\ tail' = NULL
          /\ UNCHANGED <<next, prev>>
       \/ /\ prev[node] = NULL /\ next[node] # NULL
          /\ head' = next[node]
          /\ prev' = [prev EXCEPT ![next[node]] = NULL]
          /\ UNCHANGED <<tail, next>>
       \/ /\ prev[node] # NULL /\ next[node] = NULL
          /\ tail' = prev[node]
          /\ next' = [next EXCEPT ![prev[node]] = NULL]
          /\ UNCHANGED <<head, prev>>
       \/ /\ prev[node] # NULL /\ next[node] # NULL
          /\ prev' = [prev EXCEPT ![next[node]] = prev[node]]
          /\ next' = [next EXCEPT ![prev[node]] = next[node]]
          /\ UNCHANGED <<head, tail>>
    /\ size' = size - 1

\* avs_free.
avs_free(node) == allocated' = allocated \ {node}

avs_list_append(d) == avs_list_insert_after(NULL, d) /\ last' = <<"append", d, NULL>>

\* Also avs_list_push and avs_list_enqueue.
avs_list_prepend(d) == avs_list_insert_before(head, d) /\ last' = <<"prepend", d, NULL>>

avs_list_free(node) ==
    /\ Unlink(node)
    /\ avs_free(node)
    /\ last' = <<"free", Position(node), NULL>>
    /\ UNCHANGED data

\* On an empty list avs_list_pop returns NULL.
avs_list_pop ==
    \/ /\ head = NULL
       /\ last' = <<"pop", NULL, NULL>>
       /\ UNCHANGED <<list, heap>>
    \/ /\ head # NULL
       /\ Unlink(head)
       /\ avs_free(head)
       /\ last' = <<"pop", NULL, data[head]>>
       /\ UNCHANGED data

\* avs_list_dequeue looks into the tail without asking whether there is one; its
\* callers ask.
avs_list_dequeue ==
    /\ tail # NULL
    /\ Unlink(tail)
    /\ avs_free(tail)
    /\ last' = <<"dequeue", NULL, data[tail]>>
    /\ UNCHANGED data

\* Wrong on purpose (see "mutants" in PROJECT.json): the walk ends a node early.
avs_list_at_index_data_Short(index) ==
    /\ last' = <<"at", index, IF index > size - 1 \/ index < 0 THEN NULL
                              ELSE data[Forward[IF index = 0 THEN 1 ELSE index]]>>
    /\ UNCHANGED <<list, heap>>

avs_list_at_index_data(index) ==
    /\ last' = <<"at", index, IF index > size - 1 \/ index < 0 THEN NULL
                              ELSE data[Forward[index + 1]]>>
    /\ UNCHANGED <<list, heap>>

\* avs_list_find_data, with a callback that compares for equality.
avs_list_find_data(d) ==
    /\ last' = <<"find", d, IF \E i \in 1 .. size : data[Forward[i]] = d THEN d ELSE NULL>>
    /\ UNCHANGED <<list, heap>>

\* avs_list_empty frees the head until there is none, so that at the end every
\* node of the list is free; the pointers between the nodes go stale.
avs_list_empty ==
    /\ head' = NULL /\ tail' = NULL /\ size' = 0
    /\ allocated' = allocated \ ToSet(Forward)
    /\ prev' = [n \in Node |-> IF n \in ToSet(Forward) THEN NULL ELSE prev[n]]
    /\ last' = <<"empty", NULL, NULL>>
    /\ UNCHANGED <<next, data>>

Next ==
    \/ \E d \in Data : \/ avs_list_append(d)
                       \/ avs_list_prepend(d)
                       \/ avs_list_find_data(d)
    \/ \E d \in Data, n \in allocated :
          \/ avs_list_insert_before(n, d) /\ last' = <<"before", Position(n), NULL>>
          \/ avs_list_insert_after(n, d) /\ last' = <<"after", Position(n), NULL>>
    \/ \E n \in allocated : avs_list_free(n)
    \/ avs_list_pop
    \/ avs_list_dequeue
    \/ \E index \in -1 .. Cardinality(Node) : avs_list_at_index_data(index)
    \/ avs_list_empty

Spec == Init /\ [][Next]_vars

-----------------------------------------------------------------------------
TypeOK ==
    /\ {head, tail} \subseteq Node \cup {NULL}
    /\ size \in 0 .. Cardinality(Node)
    /\ next \in [Node -> Node \cup {NULL}]
    /\ prev \in [Node -> Node \cup {NULL}]
    /\ data \in [Node -> Data \cup {NULL}]
    /\ allocated \subseteq Node
    /\ last[3] \in Data \cup {NULL}

\* Following prev from the tail visits the nodes that following next from the
\* head does, in reverse, and both ways end in NULL: insertions and removals at
\* the head, at the tail and in between keep the two chains in step.  The list
\* reaches every node it was given, each of them once, and none that was freed:
\* no node leaks and no pointer dangles.
ChainsAgree ==
    /\ TypeOK
    /\ IF size = 0 THEN head = NULL /\ tail = NULL
       ELSE /\ Forward[size] = tail
            /\ next[tail] = NULL
            /\ prev[head] = NULL
            /\ \A i \in 2 .. size : prev[Forward[i]] = Forward[i - 1]
    /\ ToSet(Forward) = allocated /\ Cardinality(allocated) = size

-----------------------------------------------------------------------------
contentsBar == [i \in 1 .. size |-> data[Forward[i]]]

Abstract == INSTANCE AvsSequence WITH contents <- contentsBar, MaxSize <- Cardinality(Node)

\* Every call does to the sequence of data what it says, and returns the right
\* element: stacks are last in first out, queues first in first out.
ImplementsSequence == Abstract!Spec

-----------------------------------------------------------------------------
(***************************************************************************)
(* The inductive invariant: the walk from the head is a sequence of nodes, *)
(* each of them once, that head, tail and the pointers of these nodes      *)
(* spell out, and these nodes are the ones that were given out.            *)
(***************************************************************************)
ChainOf(s, first, final, nxt, prv) ==
    /\ s \in Seq(Node)
    /\ \A i, j \in 1 .. Len(s) : s[i] = s[j] => i = j
    /\ IF Len(s) = 0 THEN first = NULL /\ final = NULL ELSE first = s[1] /\ final = s[Len(s)]
    /\ \A i \in 1 .. Len(s) : nxt[s[i]] = IF i = Len(s) THEN NULL ELSE s[i + 1]
    /\ \A i \in 1 .. Len(s) : prv[s[i]] = IF i = 1 THEN NULL ELSE s[i - 1]

Spells(s) ==
    /\ ChainOf(s, head, tail, next, prev)
    /\ size = Len(s) /\ allocated = {s[i] : i \in 1 .. Len(s)}

ListInv == TypeOK /\ Spells(Forward)
=============================================================================
