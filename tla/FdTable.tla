-------------------------------- MODULE FdTable --------------------------------
(***************************************************************************)
(* What open, close and exit promise a program: a table of its own from    *)
(* descriptors to the files it opened, which nothing but its own calls     *)
(* changes.  FileDescriptors implements it with two tables, one of them    *)
(* shared by all processes.                                                *)
(***************************************************************************)
EXTENDS Integers

CONSTANTS
    Proc,       \* the processes
    Path,       \* the files
    UserFd,     \* the descriptors above the standard streams
    Closed      \* a descriptor that is not open

VARIABLE file   \* file[p][fd] is the file behind descriptor fd of process p

Init == file = [p \in Proc |-> [fd \in UserFd |-> Closed]]

\* The lowest free descriptor is given out.
Open(p, fd, path) ==
    /\ file[p][fd] = Closed
    /\ \A lower \in UserFd : lower < fd => file[p][lower] # Closed
    /\ file' = [file EXCEPT ![p][fd] = path]

Close(p, fd) ==
    /\ file[p][fd] # Closed
    /\ file' = [file EXCEPT ![p][fd] = Closed]

CloseAll(p) == file' = [file EXCEPT ![p] = [fd \in UserFd |-> Closed]]

Next ==
    \E p \in Proc :
        \/ \E fd \in UserFd, path \in Path : Open(p, fd, path)
        \/ \E fd \in UserFd : Close(p, fd)
        \/ CloseAll(p)

Spec == Init /\ [][Next]_file
=============================================================================
