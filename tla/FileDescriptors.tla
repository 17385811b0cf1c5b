---------------------------- MODULE FileDescriptors ----------------------------
(***************************************************************************)
(* File descriptors: the table of each process (process.c) points into the *)
(* one table of the VFS (vfs.c), and open, close, exit and fork            *)
(* (syscalls/) keep the two in step.  Entries 0, 1 and 2 of the VFS table  *)
(* are the standard streams, which all processes share.                    *)
(*                                                                         *)
(* Calls with a descriptor that is out of range or not in use return an    *)
(* error and leave the tables alone; they are stuttering steps here.       *)
(***************************************************************************)
EXTENDS Integers, FiniteSets, FiniteSetsExt

CONSTANTS
    Proc,               \* the pids that may ever exist
    First,              \* the first user process
    Path,               \* the files that can be opened
    PROCESS_MAX_FDS,    \* descriptors of a process
    VFS_FD_MAX,         \* descriptors of the system
    CloseStd            \* do programs close their standard streams?

ASSUME ProcAssumption == Proc \subseteq Nat /\ First \in Proc
ASSUME MaxFdsAssumption == PROCESS_MAX_FDS \in Nat /\ PROCESS_MAX_FDS > 3
ASSUME VfsMaxAssumption == VFS_FD_MAX \in Nat /\ VFS_FD_MAX > 3
ASSUME CloseStdAssumption == CloseStd \in BOOLEAN

STDIN_FILENO == 0
STDOUT_FILENO == 1
STDERR_FILENO == 2
Std == {STDIN_FILENO, STDOUT_FILENO, STDERR_FILENO}

Fd == 0 .. PROCESS_MAX_FDS - 1
UserFd == Fd \ Std
VfsFd == 0 .. VFS_FD_MAX - 1

\* The path of a VFS descriptor that was never opened, or is a standard stream.
NoPath == "none"
ASSUME PathAssumption == NoPath \notin Path

VARIABLES
    state,      \* a pid is "free", "live", "dead" or "killed" (dead, too)
    fdInUse,    \* file_descriptors[fd].in_use of each process
    fdVfs,      \* file_descriptors[fd].vfs_fd
    vfsInUse,   \* global_fds[k].in_use
    vfsPath,    \* global_fds[k].path
    refCount    \* global_fds[k].ref_count

vars == <<state, fdInUse, fdVfs, vfsInUse, vfsPath, refCount>>

\* process_get_new_process: stdin, stdout and stderr.  The entry of stderr keeps
\* the 0 of memset: its assignment names STDOUT_FILENO once more.
NewInUse == [fd \in Fd |-> fd \in Std]
NewVfs == [fd \in Fd |-> IF fd = STDOUT_FILENO THEN STDOUT_FILENO ELSE STDIN_FILENO]

\* vfs_fd_setup, and the first process.
Init ==
    /\ state = [p \in Proc |-> IF p = First THEN "live" ELSE "free"]
    /\ fdInUse = [p \in Proc |-> IF p = First THEN NewInUse ELSE [fd \in Fd |-> FALSE]]
    /\ fdVfs = [p \in Proc |-> IF p = First THEN NewVfs ELSE [fd \in Fd |-> 0]]
    /\ vfsInUse = [k \in VfsFd |-> k \in Std]
    /\ vfsPath = [k \in VfsFd |-> NoPath]
    /\ refCount = [k \in VfsFd |-> 0]

\* The descriptors process_alloc_fd and vfs_alloc_fd choose from: the former
\* takes the lowest one, the latter's loop runs on to the highest.
FreeFds(p) == {fd \in Fd : ~fdInUse[p][fd]}

\* Wrong on purpose (see "mutants" in PROJECT.json): the last entry is handed out
\* even when it is in use.
FreeVfs_Off == {k \in VfsFd : ~vfsInUse[k]} \cup {VFS_FD_MAX - 1}

FreeVfs == {k \in VfsFd : ~vfsInUse[k]}

process_alloc_fd(p) == IF FreeFds(p) = {} THEN 0 ELSE Min(FreeFds(p))

vfs_alloc_fd == Max(FreeVfs)

\* open on a file that exists.  No descriptor left in the process: 0 is returned,
\* and so is it when the VFS has none left.
Open(p, path) ==
    /\ state[p] = "live"
    /\ process_alloc_fd(p) > 0
    /\ FreeVfs # {}
    /\ LET fd == process_alloc_fd(p)
           k == vfs_alloc_fd
       IN  /\ fdInUse' = [fdInUse EXCEPT ![p][fd] = TRUE]
           /\ fdVfs' = [fdVfs EXCEPT ![p][fd] = k]
           /\ vfsInUse' = [vfsInUse EXCEPT ![k] = TRUE]
           /\ vfsPath' = [vfsPath EXCEPT ![k] = path]
           /\ refCount' = [refCount EXCEPT ![k] = @ + 1]
    /\ UNCHANGED state

\* Wrong on purpose (see "mutants" in PROJECT.json): the descriptor number is
\* taken for the number of the VFS descriptor.
Close_ByNumber(p, fd) ==
    /\ state[p] = "live" /\ fdInUse[p][fd]
    /\ fd \in Std => CloseStd
    /\ fdInUse' = [fdInUse EXCEPT ![p][fd] = FALSE]
    /\ vfsInUse' = [vfsInUse EXCEPT ![fd] = FALSE]
    /\ refCount' = [refCount EXCEPT ![fd] = @ - 1]
    /\ UNCHANGED <<state, fdVfs, vfsPath>>

\* close: nothing keeps a program from closing a standard stream, and with it
\* the VFS descriptor all processes share.
Close(p, fd) ==
    /\ state[p] = "live" /\ fdInUse[p][fd]
    /\ fd \in Std => CloseStd
    /\ fdInUse' = [fdInUse EXCEPT ![p][fd] = FALSE]
    /\ vfsInUse' = [vfsInUse EXCEPT ![fdVfs[p][fd]] = FALSE]
    /\ refCount' = [refCount EXCEPT ![fdVfs[p][fd]] = @ - 1]
    /\ UNCHANGED <<state, fdVfs, vfsPath>>

\* Wrong on purpose (see "mutants" in PROJECT.json): one descriptor too few.
ToClose_OffByOne(p) == {fd \in UserFd : fdInUse[p][fd] /\ fd < PROCESS_MAX_FDS - 1}

\* The descriptors exit closes.
ToClose(p) == {fd \in UserFd : fdInUse[p][fd]}

\* exit: all but the standard streams are closed.
Exit(p) ==
    /\ state[p] = "live"
    /\ state' = [state EXCEPT ![p] = "dead"]
    /\ fdInUse' = [fdInUse EXCEPT ![p] = [fd \in Fd |-> @[fd] /\ fd \notin ToClose(p)]]
    /\ vfsInUse' = [k \in VfsFd |-> vfsInUse[k] /\ \A fd \in ToClose(p) : fdVfs[p][fd] # k]
    /\ refCount' = [k \in VfsFd |-> refCount[k] - Cardinality({fd \in ToClose(p) : fdVfs[p][fd] = k})]
    /\ UNCHANGED <<fdVfs, vfsPath>>

\* fork (and clone): the child starts with the standard streams only.
Fork(p, child) ==
    /\ state[p] = "live" /\ state[child] = "free"
    /\ state' = [state EXCEPT ![child] = "live"]
    /\ fdInUse' = [fdInUse EXCEPT ![child] = NewInUse]
    /\ fdVfs' = [fdVfs EXCEPT ![child] = NewVfs]
    /\ UNCHANGED <<vfsInUse, vfsPath, refCount>>

\* kbugs_kill: the operator ends a process, which closes nothing.
Kill(p) ==
    /\ state[p] = "live"
    /\ state' = [state EXCEPT ![p] = "killed"]
    /\ UNCHANGED <<fdInUse, fdVfs, vfsInUse, vfsPath, refCount>>

Next ==
    \E p \in Proc :
        \/ \E path \in Path : Open(p, path)
        \/ \E fd \in Fd : Close(p, fd)
        \/ \E child \in Proc : Fork(p, child)
        \/ Exit(p) \/ Kill(p)

Spec == Init /\ [][Next]_vars

-----------------------------------------------------------------------------
TypeOK ==
    /\ state \in [Proc -> {"free", "live", "dead", "killed"}]
    /\ fdInUse \in [Proc -> [Fd -> BOOLEAN]]
    /\ fdVfs \in [Proc -> [Fd -> VfsFd]]
    /\ vfsInUse \in [VfsFd -> BOOLEAN]
    /\ vfsPath \in [VfsFd -> Path \cup {NoPath}]
    /\ refCount \in [VfsFd -> Int]

\* Descriptor fd of process p is open and sits on entry k of the VFS table.
Uses(p, fd, k) == fdInUse[p][fd] /\ fdVfs[p][fd] = k

\* open, "Get a new FD for the system": no two open descriptors, of the same or of
\* different processes, share an entry of the VFS table, and none sits on a
\* standard stream.
NoAliasing ==
    \A p, q \in Proc, fd, gd \in UserFd, k \in VfsFd :
        Uses(p, fd, k) /\ Uses(q, gd, k) => p = q /\ fd = gd /\ k \notin Std

\* No entry of the VFS table leaks, none is freed under its user, and its
\* reference count is right: above the standard streams an entry is in use
\* exactly when some process, which has not exited, has it open.  A killed process
\* keeps its entries for good.
NoLeak ==
    /\ \A k \in VfsFd \ Std :
          /\ vfsInUse[k] <=> \E p \in Proc, fd \in UserFd : Uses(p, fd, k)
          /\ refCount[k] = IF vfsInUse[k] THEN 1 ELSE 0
    /\ \A p \in Proc, fd \in UserFd : fdInUse[p][fd] => state[p] \in {"live", "killed"}

-----------------------------------------------------------------------------
(***************************************************************************)
(* Refinement: what a program sees is a table of its own.                  *)
(***************************************************************************)

\* The file that read finds behind a descriptor.
ReadPath(p, fd) == vfsPath[fdVfs[p][fd]]

fileBar == [p \in Proc |-> [fd \in UserFd |-> IF fdInUse[p][fd] THEN ReadPath(p, fd) ELSE NoPath]]

Abstract == INSTANCE FdTable WITH file <- fileBar, Closed <- NoPath

\* Each process sees exactly the files it opened, whatever the others open and
\* close in the shared table.
AbstractSpec == Abstract!Spec

\* The inductive invariant: besides the above, the standard streams are never
\* given away, every live process has its own, so that process_alloc_fd never
\* returns one of their numbers, and an open entry has a path.
FdInv ==
    /\ TypeOK
    /\ NoAliasing
    /\ NoLeak
    /\ \A k \in Std : vfsInUse[k]
    /\ \A p \in Proc, fd \in Std : state[p] = "live" => fdInUse[p][fd]
    /\ \A p \in Proc, fd \in UserFd : fdInUse[p][fd] => ReadPath(p, fd) \in Path
=============================================================================
