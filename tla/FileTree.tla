-------------------------------- MODULE FileTree --------------------------------
(***************************************************************************)
(* What a file system promises: a tree of named files and directories,     *)
(* each operation on it taking effect as a whole.  Asvfs implements it     *)
(* with blocks of a drive.                                                 *)
(***************************************************************************)
CONSTANTS
    Root,       \* the root directory
    Node,       \* the files and directories there may be
    Name        \* what they may be called

VARIABLES
    tree,       \* the entries: <<directory, name, node>>
    dirs        \* which nodes are directories

Init == tree = {} /\ dirs = {Root}

InTree(c) == \E e \in tree : e[3] = c

\* A directory of the tree in which the name is still free.
Takes(d, n) ==
    /\ d \in dirs /\ (d = Root \/ InTree(d))
    /\ \A e \in tree : ~(e[1] = d /\ e[2] = n)

\* c has never been in use: a deleted file is not brought back.
Create(d, n, c, isDir) ==
    /\ Takes(d, n) /\ ~InTree(c) /\ c \notin dirs
    /\ tree' = tree \cup {<<d, n, c>>}
    /\ dirs' = IF isDir THEN dirs \cup {c} ELSE dirs

Delete(e) ==
    /\ e \in tree /\ e[3] \notin dirs
    /\ tree' = tree \ {e}
    /\ UNCHANGED dirs

Move(e, d, n) ==
    /\ e \in tree /\ Takes(d, n) /\ d # e[3]
    /\ tree' = (tree \ {e}) \cup {<<d, n, e[3]>>}
    /\ UNCHANGED dirs

Next ==
    \/ \E d \in dirs, n \in Name, c \in Node, isDir \in BOOLEAN : Create(d, n, c, isDir)
    \/ \E e \in tree : Delete(e) \/ \E d \in dirs, n \in Name : Move(e, d, n)

Spec == Init /\ [][Next]_<<tree, dirs>>
=============================================================================
