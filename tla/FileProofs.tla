------------------------------- MODULE FileProofs -------------------------------
(***************************************************************************)
(* Proofs about files: the descriptors that programs have of them          *)
(* (FileDescriptors), and the file system that keeps them on a drive       *)
(* (Asvfs).                                                                *)
(***************************************************************************)
EXTENDS FileDescriptors, Asvfs, LibraryLemmas, TLAPS, FiniteSetTheorems, SequenceTheorems

-----------------------------------------------------------------------------
(***************************************************************************)
(* File descriptors, for any number of processes, files and descriptors,   *)
(* when programs leave their standard streams open.                        *)
(***************************************************************************)
\* The index sets as inequalities.
LEMMA FdBounds ==
    /\ Fd \subseteq Nat /\ VfsFd \subseteq Nat
    /\ Std \subseteq Fd /\ Std \subseteq VfsFd /\ UserFd \subseteq Fd
    /\ 0 \in VfsFd /\ 1 \in VfsFd
    /\ \A fd \in UserFd : fd \notin Std
  BY MaxFdsAssumption, VfsMaxAssumption
     DEF Fd, VfsFd, UserFd, Std, STDIN_FILENO, STDOUT_FILENO, STDERR_FILENO

\* What process_alloc_fd returns to a live process that gets a descriptor at all:
\* the lowest one not in use, and no standard stream.
LEMMA AllocFd ==
    ASSUME FdInv, NEW p \in Proc, state[p] = "live", process_alloc_fd(p) > 0
    PROVE  /\ process_alloc_fd(p) \in UserFd
           /\ ~ fdInUse[p][process_alloc_fd(p)]
           /\ \A fd \in Fd : fd < process_alloc_fd(p) => fdInUse[p][fd]
<1>1. FreeFds(p) # {} /\ process_alloc_fd(p) = Min(FreeFds(p))
  BY DEF process_alloc_fd
<1>2. FreeFds(p) \in SUBSET Nat
  BY FdBounds DEF FreeFds
<1>3. Min(FreeFds(p)) \in FreeFds(p) /\ \A y \in FreeFds(p) : Min(FreeFds(p)) <= y
  BY <1>1, <1>2, MinOfNat
<1>4. process_alloc_fd(p) \in Fd /\ ~ fdInUse[p][process_alloc_fd(p)]
  BY <1>1, <1>3 DEF FreeFds
<1>5. process_alloc_fd(p) \notin Std
  BY <1>4 DEF FdInv
<1>6. ASSUME NEW fd \in Fd, fd < process_alloc_fd(p)
      PROVE  fdInUse[p][fd]
  <2>1. fd \in Nat /\ process_alloc_fd(p) \in Nat
    BY <1>4, FdBounds, Zenon
  <2>2. fd \notin FreeFds(p)
    BY <1>1, <1>3, <1>6, <2>1
  <2>3. QED
    BY <2>2 DEF FreeFds
<1>7. QED
  BY <1>4, <1>5, <1>6 DEF UserFd

\* What vfs_alloc_fd returns when there is an entry left: one that is not in use,
\* hence no standard stream.
LEMMA AllocVfs ==
    ASSUME FdInv, FreeVfs # {}
    PROVE  vfs_alloc_fd \in VfsFd \ Std /\ ~ vfsInUse[vfs_alloc_fd]
<1>1. VFS_FD_MAX - 1 \in Nat /\ FreeVfs \in SUBSET (0 .. VFS_FD_MAX - 1)
  BY VfsMaxAssumption DEF FreeVfs, VfsFd
<1>2. vfs_alloc_fd \in FreeVfs
  BY <1>1, MaxOfBounded DEF vfs_alloc_fd
<1>3. QED
  BY <1>2 DEF FreeVfs, FdInv

\* The descriptors of a new process: the standard streams.
LEMMA NewInUseTyped ==
    NewInUse \in [Fd -> BOOLEAN] /\ \A fd \in Fd : NewInUse[fd] <=> fd \in Std
<1>1. NewInUse \in [Fd -> BOOLEAN]
  BY DEF NewInUse
<1>2. \A fd \in Fd : NewInUse[fd] <=> fd \in Std
  BY Zenon DEF NewInUse
<1>3. QED
  BY <1>1, <1>2

\* The initial state.
LEMMA InitFd == Init => FdInv
<1> SUFFICES ASSUME Init PROVE FdInv
  OBVIOUS
<1>0. /\ NewInUse \in [Fd -> BOOLEAN]
      /\ \A fd \in Fd : NewInUse[fd] <=> fd \in Std
  BY NewInUseTyped
<1>1. /\ fdInUse \in [Proc -> [Fd -> BOOLEAN]]
      /\ vfsInUse \in [VfsFd -> BOOLEAN]
  <2> DEFINE none == [fd \in Fd |-> FALSE]
  <2>1. none \in [Fd -> BOOLEAN]
    OBVIOUS
  <2>2. fdInUse = [p \in Proc |-> IF p = First THEN NewInUse ELSE none]
    BY DEF Init
  <2> HIDE DEF none
  <2>3. fdInUse \in [Proc -> [Fd -> BOOLEAN]]
    BY <1>0, <2>1, <2>2
  <2>4. vfsInUse \in [VfsFd -> BOOLEAN]
    BY DEF Init
  <2>5. QED
    BY <2>3, <2>4
<1>2. fdVfs \in [Proc -> [Fd -> VfsFd]]
  BY FdBounds DEF Init, NewVfs, STDIN_FILENO, STDOUT_FILENO
<1>3. TypeOK
  BY <1>1, <1>2 DEF Init, TypeOK
<1>4. \A p \in Proc, fd \in UserFd : ~ fdInUse[p][fd]
  <2> TAKE p \in Proc, fd \in UserFd
  <2>1. fdInUse[p] = NewInUse \/ fdInUse[p] = [g \in Fd |-> FALSE]
    BY DEF Init
  <2>2. fd \in Fd /\ fd \notin Std
    BY FdBounds
  <2>3. QED
    BY <1>0, <2>1, <2>2, Zenon
<1>5. NoAliasing
  BY <1>4 DEF NoAliasing, Uses
<1>6. NoLeak
  BY <1>4 DEF NoLeak, Uses, Init
<1>7. \A k \in Std : vfsInUse[k]
  BY FdBounds DEF Init
<1>8. \A p \in Proc, fd \in Std : state[p] = "live" => fdInUse[p][fd]
  BY <1>0, FdBounds DEF Init
<1>9. QED
  BY <1>3, <1>4, <1>5, <1>6, <1>7, <1>8 DEF FdInv

-----------------------------------------------------------------------------
\* open takes an entry nobody uses.
LEMMA OpenKeepsInv ==
    ASSUME FdInv, NEW p \in Proc, NEW path \in Path, Open(p, path)
    PROVE  FdInv'
<1> DEFINE fd == process_alloc_fd(p)
           k == vfs_alloc_fd
<1>1. /\ fd \in UserFd /\ fd \in Fd /\ fd \notin Std /\ ~ fdInUse[p][fd]
      /\ k \in VfsFd /\ k \notin Std /\ ~ vfsInUse[k]
      /\ state[p] = "live"
  BY AllocFd, AllocVfs, FdBounds DEF Open
<1>2. /\ fdInUse' = [fdInUse EXCEPT ![p][fd] = TRUE]
      /\ fdVfs' = [fdVfs EXCEPT ![p][fd] = k]
      /\ vfsInUse' = [vfsInUse EXCEPT ![k] = TRUE]
      /\ vfsPath' = [vfsPath EXCEPT ![k] = path]
      /\ refCount' = [refCount EXCEPT ![k] = @ + 1]
      /\ UNCHANGED state
  BY DEF Open
<1> HIDE DEF fd, k
<1>3. TypeOK
  BY DEF FdInv
<1>4. TypeOK'
  <2>1. fdInUse' \in [Proc -> [Fd -> BOOLEAN]] /\ vfsInUse' \in [VfsFd -> BOOLEAN]
    BY <1>1, <1>2, <1>3, Zenon DEF TypeOK
  <2>2. QED
    BY <1>1, <1>2, <1>3, <2>1 DEF TypeOK
<1>5. /\ \A q \in Proc, g \in Fd : fdInUse'[q][g] <=> (q = p /\ g = fd) \/ fdInUse[q][g]
      /\ \A q \in Proc, g \in Fd : fdVfs'[q][g] = IF q = p /\ g = fd THEN k ELSE fdVfs[q][g]
      /\ \A j \in VfsFd : vfsInUse'[j] <=> j = k \/ vfsInUse[j]
      /\ \A j \in VfsFd : vfsPath'[j] = IF j = k THEN path ELSE vfsPath[j]
      /\ \A j \in VfsFd : refCount'[j] = IF j = k THEN refCount[j] + 1 ELSE refCount[j]
  BY <1>1, <1>2, <1>3 DEF TypeOK
<1>6. \A q \in Proc, g \in UserFd : ~ Uses(q, g, k)
  BY <1>1 DEF FdInv, NoLeak
<1>7. \A q \in Proc, g \in UserFd, j \in VfsFd :
         Uses(q, g, j)' <=> (q = p /\ g = fd /\ j = k) \/ Uses(q, g, j)
  BY <1>1, <1>5, <1>6, FdBounds DEF Uses
<1>8. NoAliasing'
  BY <1>1, <1>6, <1>7 DEF FdInv, NoAliasing
<1>9. NoLeak'
  BY <1>1, <1>2, <1>5, <1>7, FdBounds DEF FdInv, NoLeak
<1>10. QED
  BY <1>1, <1>2, <1>4, <1>5, <1>6, <1>8, <1>9, FdBounds DEF FdInv, ReadPath, Uses

\* close frees the entry its only user had.
LEMMA CloseKeepsInv ==
    ASSUME FdInv, ~ CloseStd, NEW p \in Proc, NEW fd \in Fd, Close(p, fd)
    PROVE  FdInv'
<1> DEFINE k == fdVfs[p][fd]
<1>1. TypeOK
  BY DEF FdInv
<1>2. /\ fd \in UserFd /\ fd \notin Std /\ fdInUse[p][fd]
      /\ fdInUse' = [fdInUse EXCEPT ![p][fd] = FALSE]
      /\ vfsInUse' = [vfsInUse EXCEPT ![k] = FALSE]
      /\ refCount' = [refCount EXCEPT ![k] = @ - 1]
      /\ UNCHANGED <<state, fdVfs, vfsPath>>
  BY DEF Close, UserFd
<1>3. k \in VfsFd /\ Uses(p, fd, k)
  BY <1>1, <1>2 DEF TypeOK, Uses
<1> HIDE DEF k
<1>4. k \notin Std
  BY <1>2, <1>3 DEF FdInv, NoAliasing
<1>5. vfsInUse[k] /\ refCount[k] = 1
  BY <1>2, <1>3, <1>4 DEF FdInv, NoLeak
<1>6. TypeOK'
  <2>1. fdInUse' \in [Proc -> [Fd -> BOOLEAN]] /\ vfsInUse' \in [VfsFd -> BOOLEAN]
    BY <1>1, <1>2, <1>3, Zenon DEF TypeOK
  <2>2. QED
    BY <1>1, <1>2, <1>3, <2>1 DEF TypeOK
<1>7. /\ \A q \in Proc, g \in Fd : fdInUse'[q][g] <=> ~ (q = p /\ g = fd) /\ fdInUse[q][g]
      /\ \A j \in VfsFd : vfsInUse'[j] <=> j # k /\ vfsInUse[j]
      /\ \A j \in VfsFd : refCount'[j] = IF j = k THEN refCount[j] - 1 ELSE refCount[j]
  BY <1>1, <1>2, <1>3 DEF TypeOK
<1>8. \A q \in Proc, g \in UserFd, j \in VfsFd :
         Uses(q, g, j)' <=> Uses(q, g, j) /\ j # k
  BY <1>2, <1>3, <1>7, FdBounds DEF Uses, FdInv, NoAliasing
<1>9. NoAliasing'
  BY <1>8 DEF FdInv, NoAliasing
<1>10. NoLeak'
  BY <1>2, <1>5, <1>7, <1>8, FdBounds DEF FdInv, NoLeak
<1>11. QED
  BY <1>2, <1>4, <1>6, <1>7, <1>9, <1>10, FdBounds DEF FdInv, ReadPath

\* exit frees exactly the entries of the process that ends.
LEMMA ExitKeepsInv ==
    ASSUME FdInv, NEW p \in Proc, Exit(p)
    PROVE  FdInv'
<1> DEFINE Mine(j) == {fd \in ToClose(p) : fdVfs[p][fd] = j}
<1>1. TypeOK /\ NoAliasing /\ NoLeak
  BY DEF FdInv
<1>2. /\ state' = [state EXCEPT ![p] = "dead"]
      /\ fdInUse' = [fdInUse EXCEPT ![p] = [fd \in Fd |-> @[fd] /\ fd \notin ToClose(p)]]
      /\ vfsInUse' = [k \in VfsFd |-> vfsInUse[k] /\ \A fd \in ToClose(p) : fdVfs[p][fd] # k]
      /\ refCount' = [k \in VfsFd |-> refCount[k] - Cardinality(Mine(k))]
      /\ UNCHANGED <<fdVfs, vfsPath>>
  BY DEF Exit
<1>3. \A fd \in Fd : fd \in ToClose(p) <=> fd \in UserFd /\ fdInUse[p][fd]
  BY FdBounds DEF ToClose
<1>4. /\ fdInUse' \in [Proc -> [Fd -> BOOLEAN]]
      /\ vfsInUse' \in [VfsFd -> BOOLEAN]
  BY <1>1, <1>2, Zenon DEF TypeOK
<1>5. /\ \A q \in Proc, g \in Fd : fdInUse'[q][g] <=> fdInUse[q][g] /\ ~ (q = p /\ g \in UserFd)
      /\ \A j \in VfsFd : vfsInUse'[j] <=> vfsInUse[j] /\ \A fd \in UserFd : ~ Uses(p, fd, j)
      /\ \A q \in Proc : state'[q] = IF q = p THEN "dead" ELSE state[q]
  <2>1. ASSUME NEW q \in Proc, NEW g \in Fd
        PROVE  fdInUse'[q][g] <=> fdInUse[q][g] /\ ~ (q = p /\ g \in UserFd)
    <3>1. CASE q = p
      <4>1. fdInUse'[q] = [fd \in Fd |-> fdInUse[p][fd] /\ fd \notin ToClose(p)]
        BY <1>1, <1>2, <3>1 DEF TypeOK
      <4>2. fdInUse'[q][g] <=> fdInUse[p][g] /\ g \notin ToClose(p)
        BY <4>1, Zenon
      <4>3. QED
        BY <1>3, <3>1, <4>2
    <3>2. CASE q # p
      BY <1>1, <1>2, <3>2 DEF TypeOK
    <3>3. QED
      BY <3>1, <3>2
  <2>2. \A j \in VfsFd : vfsInUse'[j] <=> vfsInUse[j] /\ \A fd \in ToClose(p) : fdVfs[p][fd] # j
    BY <1>2, Zenon
  <2>3. QED
    BY <1>1, <1>2, <2>1, <2>2 DEF TypeOK, ToClose, Uses
<1>6. \A q \in Proc, g \in UserFd, j \in VfsFd :
         Uses(q, g, j)' <=> Uses(q, g, j) /\ q # p
  BY <1>2, <1>5, FdBounds DEF Uses
<1>7. ASSUME NEW j \in VfsFd
      PROVE  Cardinality(Mine(j)) = IF \E fd \in UserFd : Uses(p, fd, j) THEN 1 ELSE 0
  <2>1. CASE \E fd \in UserFd : Uses(p, fd, j)
    <3>1. PICK fd \in UserFd : Uses(p, fd, j)
      BY <2>1
    <3>2. Mine(j) = {fd}
      BY <1>1, <3>1 DEF NoAliasing, Uses, ToClose
    <3>3. QED
      BY <2>1, <3>2, FS_Singleton
  <2>2. CASE ~ \E fd \in UserFd : Uses(p, fd, j)
    <3>1. Mine(j) = {}
      BY <2>2 DEF Uses, ToClose
    <3>2. QED
      BY <2>2, <3>1, FS_EmptySet
  <2>3. QED
    BY <2>1, <2>2
<1>8. \A j \in VfsFd : refCount'[j] = refCount[j] - Cardinality(Mine(j))
  BY <1>2
<1> HIDE DEF Mine
<1>9. refCount' \in [VfsFd -> Int]
  BY <1>1, <1>2, <1>7, <1>8 DEF TypeOK
<1>10. TypeOK'
  BY <1>1, <1>2, <1>4, <1>9 DEF TypeOK
<1>11. NoAliasing'
  BY <1>1, <1>6 DEF NoAliasing
<1>12. NoLeak'
  <2>1. ASSUME NEW j \in VfsFd \ Std
        PROVE  /\ vfsInUse'[j] <=> \E q \in Proc, g \in UserFd : Uses(q, g, j)'
               /\ refCount'[j] = IF vfsInUse'[j] THEN 1 ELSE 0
    <3>1. CASE \E fd \in UserFd : Uses(p, fd, j)
      <4>1. vfsInUse[j] /\ refCount[j] = 1
        BY <1>1, <3>1 DEF NoLeak
      <4>2. \A q \in Proc, g \in UserFd : ~ Uses(q, g, j)'
        BY <1>1, <1>6, <3>1 DEF NoAliasing
      <4>3. QED
        BY <1>5, <1>7, <1>8, <3>1, <4>1, <4>2
    <3>2. CASE ~ \E fd \in UserFd : Uses(p, fd, j)
      <4>1. refCount'[j] = refCount[j]
        BY <1>1, <1>7, <1>8, <3>2 DEF TypeOK
      <4>2. QED
        BY <1>1, <1>5, <1>6, <3>2, <4>1 DEF NoLeak
    <3>3. QED
      BY <3>1, <3>2
  <2>2. \A q \in Proc, g \in UserFd : fdInUse'[q][g] => state'[q] \in {"live", "killed"}
    BY <1>1, <1>5, FdBounds DEF NoLeak
  <2>3. QED
    BY <2>1, <2>2 DEF NoLeak, Uses
<1>13. /\ \A k \in Std : vfsInUse'[k]
       /\ \A q \in Proc, fd \in Std : state'[q] = "live" => fdInUse'[q][fd]
       /\ \A q \in Proc, fd \in UserFd : fdInUse'[q][fd] => ReadPath(q, fd)' \in Path
  BY <1>1, <1>2, <1>5, FdBounds DEF FdInv, NoAliasing, ReadPath
<1>14. QED
  BY <1>10, <1>11, <1>12, <1>13 DEF FdInv

\* fork and clone: the child has the standard streams and nothing else.
LEMMA ForkKeepsInv ==
    ASSUME FdInv, NEW p \in Proc, NEW child \in Proc, Fork(p, child)
    PROVE  FdInv'
<1>1. TypeOK /\ NoAliasing /\ NoLeak
  BY DEF FdInv
<1>2. /\ state[child] = "free"
      /\ state' = [state EXCEPT ![child] = "live"]
      /\ fdInUse' = [fdInUse EXCEPT ![child] = NewInUse]
      /\ fdVfs' = [fdVfs EXCEPT ![child] = NewVfs]
      /\ UNCHANGED <<vfsInUse, vfsPath, refCount>>
  BY DEF Fork
<1>3. NewVfs \in [Fd -> VfsFd]
  BY FdBounds DEF NewVfs, STDIN_FILENO, STDOUT_FILENO
<1>4. TypeOK'
  BY <1>1, <1>2, <1>3, NewInUseTyped, ProcAssumption DEF TypeOK
<1>5. \A q \in Proc, g \in UserFd : ~ fdInUse[child][g] /\ (fdInUse'[q][g] <=> fdInUse[q][g])
  BY <1>1, <1>2, NewInUseTyped, FdBounds DEF NoLeak, TypeOK
<1>6. \A q \in Proc : q # child => /\ fdVfs'[q] = fdVfs[q]
                                   /\ fdInUse'[q] = fdInUse[q]
                                   /\ state'[q] = state[q]
  BY <1>1, <1>2 DEF TypeOK
<1>7. \A q \in Proc, g \in UserFd, j \in VfsFd : Uses(q, g, j)' <=> Uses(q, g, j)
  BY <1>5, <1>6 DEF Uses
<1>8. NoAliasing' /\ NoLeak'
  BY <1>1, <1>2, <1>5, <1>6, <1>7 DEF NoAliasing, NoLeak
<1>9. \A q \in Proc, fd \in Std : state'[q] = "live" => fdInUse'[q][fd]
  BY <1>1, <1>2, <1>6, NewInUseTyped, FdBounds DEF FdInv, TypeOK
<1>10. \A q \in Proc, fd \in UserFd : fdInUse'[q][fd] => ReadPath(q, fd)' \in Path
  BY <1>2, <1>5, <1>6 DEF FdInv, ReadPath
<1>11. QED
  BY <1>2, <1>4, <1>8, <1>9, <1>10 DEF FdInv

\* A kill leaves both tables alone.
LEMMA KillKeepsInv ==
    ASSUME FdInv, NEW p \in Proc, Kill(p)
    PROVE  FdInv'
<1>1. TypeOK /\ NoAliasing /\ NoLeak
  BY DEF FdInv
<1>2. /\ state' = [state EXCEPT ![p] = "killed"]
      /\ UNCHANGED <<fdInUse, fdVfs, vfsInUse, vfsPath, refCount>>
  BY DEF Kill
<1>3. \A q \in Proc : state'[q] = IF q = p THEN "killed" ELSE state[q]
  BY <1>1, <1>2 DEF TypeOK
<1>4. TypeOK'
  BY <1>1, <1>2 DEF TypeOK
<1>5. NoAliasing'
  BY <1>1, <1>2 DEF NoAliasing, Uses
<1>6. NoLeak'
  BY <1>1, <1>2, <1>3 DEF NoLeak, Uses
<1>7. QED
  BY <1>2, <1>3, <1>4, <1>5, <1>6 DEF FdInv, ReadPath

\* Every step preserves the inductive invariant.
LEMMA NextKeepsInv == ASSUME ~ CloseStd, FdInv, [Next]_vars PROVE FdInv'
<1>1. CASE UNCHANGED vars
  BY <1>1 DEF vars, FdInv, TypeOK, NoAliasing, NoLeak, Uses, ReadPath
<1>2. ASSUME NEW p \in Proc, NEW path \in Path, Open(p, path) PROVE FdInv'
  BY <1>2, OpenKeepsInv
<1>3. ASSUME NEW p \in Proc, NEW fd \in Fd, Close(p, fd) PROVE FdInv'
  BY <1>3, CloseKeepsInv
<1>4. ASSUME NEW p \in Proc, NEW child \in Proc, Fork(p, child) PROVE FdInv'
  BY <1>4, ForkKeepsInv
<1>5. ASSUME NEW p \in Proc, Exit(p) PROVE FdInv'
  BY <1>5, ExitKeepsInv
<1>6. ASSUME NEW p \in Proc, Kill(p) PROVE FdInv'
  BY <1>6, KillKeepsInv
<1>7. QED
  BY <1>1, <1>2, <1>3, <1>4, <1>5, <1>6 DEF Next

-----------------------------------------------------------------------------
\* The inductive invariant of the two descriptor tables holds in every reachable
\* state of open, close, fork, exit and kill, when programs leave their standard
\* streams open.
THEOREM FdInvariance == ASSUME ~ CloseStd PROVE Spec => []FdInv
<1>1. Init => FdInv
  BY InitFd
<1>2. FdInv /\ [Next]_vars => FdInv'
  BY NextKeepsInv
<1>3. QED
  BY <1>1, <1>2, PTL DEF Spec

\* open never hands out an entry of the VFS table that somebody still has open.
THEOREM NeverAliased == ASSUME ~ CloseStd PROVE Spec => []NoAliasing
<1>1. FdInv => NoAliasing
  BY DEF FdInv
<1>2. QED
  BY <1>1, FdInvariance, PTL

\* close and exit give every entry of the VFS table back, and no other.
THEOREM NeverLeaked == ASSUME ~ CloseStd PROVE Spec => []NoLeak
<1>1. FdInv => NoLeak
  BY DEF FdInv
<1>2. QED
  BY <1>1, FdInvariance, PTL

-----------------------------------------------------------------------------
(***************************************************************************)
(* Refinement of FdTable.                                                  *)
(***************************************************************************)

\* What a descriptor shows its process.
LEMMA FileBarValue ==
    /\ fileBar = [p \in Proc |-> fileBar[p]]
    /\ \A p \in Proc : fileBar[p] = [fd \in UserFd |-> fileBar[p][fd]]
    /\ \A p \in Proc, fd \in UserFd :
          fileBar[p][fd] = IF fdInUse[p][fd] THEN ReadPath(p, fd) ELSE NoPath
  BY DEF fileBar

\* The same in the next state.
LEMMA FileBarNext ==
    /\ fileBar' = [p \in Proc |-> fileBar'[p]]
    /\ \A p \in Proc : fileBar'[p] = [fd \in UserFd |-> fileBar'[p][fd]]
    /\ \A p \in Proc, fd \in UserFd :
          fileBar'[p][fd] = IF fdInUse'[p][fd] THEN ReadPath(p, fd)' ELSE NoPath
  BY DEF fileBar

\* open in the two tables is Open in the table of the process.
LEMMA OpenRefines ==
    ASSUME FdInv, NEW p \in Proc, NEW path \in Path, Open(p, path)
    PROVE  \E fd \in UserFd : Abstract!Open(p, fd, path)
<1> DEFINE fd == process_alloc_fd(p)
           k == vfs_alloc_fd
<1>1. /\ fd \in UserFd /\ fd \in Fd /\ ~ fdInUse[p][fd]
      /\ k \in VfsFd /\ k \notin Std /\ ~ vfsInUse[k]
      /\ \A g \in Fd : g < fd => fdInUse[p][g]
  BY AllocFd, AllocVfs, FdBounds DEF Open
<1>2. /\ fdInUse' = [fdInUse EXCEPT ![p][fd] = TRUE]
      /\ fdVfs' = [fdVfs EXCEPT ![p][fd] = k]
      /\ vfsPath' = [vfsPath EXCEPT ![k] = path]
  BY DEF Open
<1> HIDE DEF fd, k
<1>3. TypeOK /\ NoLeak /\ \A q \in Proc, g \in UserFd : ~ Uses(q, g, k)
  BY <1>1 DEF FdInv, NoLeak
<1>4. \A q \in Proc, g \in UserFd :
         fileBar'[q][g] = IF q = p /\ g = fd THEN path ELSE fileBar[q][g]
  <2> TAKE q \in Proc, g \in UserFd
  <2>1. CASE q = p /\ g = fd
    BY <1>1, <1>2, <1>3, <2>1, FileBarNext DEF TypeOK, ReadPath
  <2>2. CASE ~ (q = p /\ g = fd)
    <3>1. fdInUse'[q][g] = fdInUse[q][g] /\ fdVfs'[q][g] = fdVfs[q][g]
      BY <1>1, <1>2, <1>3, <2>2, FdBounds DEF TypeOK
    <3>2. fdInUse[q][g] => ReadPath(q, g)' = ReadPath(q, g)
      BY <1>1, <1>2, <1>3, <3>1, FdBounds DEF TypeOK, ReadPath, Uses
    <3>3. QED
      BY <2>2, <3>1, <3>2, FileBarValue, FileBarNext
  <2>3. QED
    BY <2>1, <2>2
<1>5. fileBar' = [fileBar EXCEPT ![p][fd] = path]
  BY <1>1, <1>4, FileBarValue, FileBarNext
<1>6. fileBar[p][fd] = NoPath
  BY <1>1, FileBarValue
<1>7. \A g \in UserFd : g < fd => fileBar[p][g] # NoPath
  BY <1>1, FileBarValue, FdBounds, PathAssumption DEF FdInv
<1>8. QED
  BY <1>1, <1>5, <1>6, <1>7 DEF Abstract!Open

\* close in the two tables is Close in the table of the process.
LEMMA CloseRefines ==
    ASSUME FdInv, ~ CloseStd, NEW p \in Proc, NEW fd \in Fd, Close(p, fd)
    PROVE  fd \in UserFd /\ Abstract!Close(p, fd)
<1>1. /\ fd \in UserFd /\ fdInUse[p][fd]
      /\ fdInUse' = [fdInUse EXCEPT ![p][fd] = FALSE]
      /\ UNCHANGED <<fdVfs, vfsPath>>
  BY DEF Close, UserFd
<1>2. TypeOK
  BY DEF FdInv
<1>3. \A q \in Proc, g \in UserFd :
         fileBar'[q][g] = IF q = p /\ g = fd THEN NoPath ELSE fileBar[q][g]
  BY <1>1, <1>2, FdBounds, FileBarValue, FileBarNext DEF TypeOK, ReadPath
<1>4. fileBar' = [fileBar EXCEPT ![p][fd] = NoPath]
  BY <1>1, <1>3, FileBarValue, FileBarNext
<1>5. fileBar[p][fd] # NoPath
  BY <1>1, FileBarValue, PathAssumption DEF FdInv
<1>6. QED
  BY <1>1, <1>4, <1>5 DEF Abstract!Close

\* exit closes everything the process had open.
LEMMA ExitRefines ==
    ASSUME FdInv, NEW p \in Proc, Exit(p)
    PROVE  Abstract!CloseAll(p)
<1>1. /\ fdInUse' = [fdInUse EXCEPT ![p] = [fd \in Fd |-> @[fd] /\ fd \notin ToClose(p)]]
      /\ UNCHANGED <<fdVfs, vfsPath>>
  BY DEF Exit
<1>2. TypeOK
  BY DEF FdInv
<1>3. \A g \in UserFd : ~ fdInUse'[p][g]
  <2> TAKE g \in UserFd
  <2>1. fdInUse'[p] = [fd \in Fd |-> fdInUse[p][fd] /\ fd \notin ToClose(p)]
    BY <1>1, <1>2 DEF TypeOK
  <2>2. fdInUse'[p][g] <=> fdInUse[p][g] /\ g \notin ToClose(p)
    BY <2>1, FdBounds, Zenon
  <2>3. QED
    BY <2>2 DEF ToClose
<1>4. \A q \in Proc, g \in UserFd : q # p => fileBar'[q][g] = fileBar[q][g]
  <2> SUFFICES ASSUME NEW q \in Proc, NEW g \in UserFd, q # p
               PROVE  fileBar'[q][g] = fileBar[q][g]
    OBVIOUS
  <2>1. fdInUse'[q] = fdInUse[q]
    BY <1>1, <1>2 DEF TypeOK
  <2>2. ReadPath(q, g)' = ReadPath(q, g)
    BY <1>1 DEF ReadPath
  <2>3. QED
    BY <2>1, <2>2, FileBarValue, FileBarNext
<1>5. \A g \in UserFd : fileBar'[p][g] = NoPath
  BY <1>3, FileBarNext
<1>6. fileBar' = [fileBar EXCEPT ![p] = [fd \in UserFd |-> NoPath]]
  <2>1. fileBar'[p] = [fd \in UserFd |-> NoPath]
    BY <1>5, FileBarNext
  <2>2. \A q \in Proc : q # p => fileBar'[q] = fileBar[q]
    BY <1>4, FileBarValue, FileBarNext
  <2>3. QED
    BY <2>1, <2>2, FileBarValue, FileBarNext
<1>7. QED
  BY <1>6 DEF Abstract!CloseAll

\* fork changes no table a program can see.
LEMMA ForkRefines ==
    ASSUME FdInv, NEW p \in Proc, NEW child \in Proc, Fork(p, child)
    PROVE  fileBar' = fileBar
<1>1. /\ state[child] = "free"
      /\ fdInUse' = [fdInUse EXCEPT ![child] = NewInUse]
      /\ fdVfs' = [fdVfs EXCEPT ![child] = NewVfs]
      /\ UNCHANGED vfsPath
  BY DEF Fork
<1>2. TypeOK /\ NoLeak
  BY DEF FdInv
<1>3. \A g \in UserFd : ~ fdInUse[child][g] /\ ~ fdInUse'[child][g]
  BY <1>1, <1>2, NewInUseTyped, FdBounds DEF NoLeak, TypeOK
<1>4. \A q \in Proc, g \in UserFd : fileBar'[q][g] = fileBar[q][g]
  <2> TAKE q \in Proc, g \in UserFd
  <2>1. CASE q = child
    BY <1>3, <2>1, FileBarValue, FileBarNext
  <2>2. CASE q # child
    <3>1. fdInUse'[q] = fdInUse[q] /\ fdVfs'[q] = fdVfs[q]
      BY <1>1, <1>2, <2>2 DEF TypeOK
    <3>2. ReadPath(q, g)' = ReadPath(q, g)
      BY <1>1, <3>1 DEF ReadPath
    <3>3. QED
      BY <3>1, <3>2, FileBarValue, FileBarNext
  <2>3. QED
    BY <2>1, <2>2
<1>5. \A q \in Proc : fileBar'[q] = fileBar[q]
  BY <1>4, FileBarValue, FileBarNext
<1>6. QED
  BY <1>5, FileBarValue, FileBarNext

\* The two tables together behave like one private table per process: what read
\* finds behind a descriptor is the file its process opened, whatever the other
\* processes open and close in the table they share (open.c, close.c, exit.c,
\* vfs.c).
THEOREM Refinement == ASSUME ~ CloseStd PROVE Spec => AbstractSpec
<1>1. Init => Abstract!Init
  <2> SUFFICES ASSUME Init PROVE fileBar = [p \in Proc |-> [fd \in UserFd |-> NoPath]]
    BY DEF Abstract!Init
  <2>1. \A p \in Proc, fd \in UserFd : fileBar[p][fd] = NoPath
    <3> TAKE p \in Proc, fd \in UserFd
    <3>1. state[p] = "free" \/ state[p] = "live"
      BY DEF Init
    <3>2. ReadPath(p, fd) = NoPath
      BY InitFd, FdBounds DEF Init, ReadPath, FdInv, TypeOK
    <3>3. QED
      BY <3>2, FileBarValue
  <2>2. QED
    BY <2>1, FileBarValue
<1>2. FdInv /\ [Next]_vars => [Abstract!Next]_fileBar
  <2> SUFFICES ASSUME FdInv, [Next]_vars PROVE [Abstract!Next]_fileBar
    OBVIOUS
  <2>1. CASE UNCHANGED vars
    BY <2>1 DEF vars, fileBar, ReadPath
  <2>2. ASSUME NEW p \in Proc, NEW path \in Path, Open(p, path) PROVE Abstract!Next
    BY <2>2, OpenRefines DEF Abstract!Next
  <2>3. ASSUME NEW p \in Proc, NEW fd \in Fd, Close(p, fd) PROVE Abstract!Next
    BY <2>3, CloseRefines DEF Abstract!Next
  <2>4. ASSUME NEW p \in Proc, NEW child \in Proc, Fork(p, child) PROVE fileBar' = fileBar
    BY <2>4, ForkRefines
  <2>5. ASSUME NEW p \in Proc, Exit(p) PROVE Abstract!Next
    BY <2>5, ExitRefines DEF Abstract!Next
  <2>6. ASSUME NEW p \in Proc, Kill(p) PROVE fileBar' = fileBar
    BY <2>6 DEF Kill, fileBar, ReadPath
  <2>7. QED
    BY <2>1, <2>2, <2>3, <2>4, <2>5, <2>6 DEF Next
<1>3. QED
  BY <1>1, <1>2, FdInvariance, PTL DEF Spec, AbstractSpec, Abstract!Spec

-----------------------------------------------------------------------------
(***************************************************************************)
(* The file system, for any drive, any names and any requests of which no  *)
(* write goes past the first block of a file.                              *)
(***************************************************************************)
WritesFit == \A offset \in Offset, size \in Size : offset + size <= BLOCK_SIZE

-----------------------------------------------------------------------------
(***************************************************************************)
(* Lists of writes.                                                        *)
(***************************************************************************)

\* Performed computes what its recursion says.
LEMMA PerformedLoop ==
    ASSUME NEW s, NEW writes, Len(writes) \in Nat
    PROVE  /\ Performed(s, writes)[0] = s
           /\ \A k \in 1 .. Len(writes) :
                 Performed(s, writes)[k] = Written(Performed(s, writes)[k - 1], writes[k])
<1> DEFINE n == Len(writes)
           Step(b, k) == Written(b, writes[k])
<1> HIDE DEF n, Step
<1>0. n \in Nat
  BY DEF n
<1> DEFINE Loop(f, l) == f = [k \in 0 .. l |-> IF k = 0 THEN s ELSE Step(f[k - 1], k)]
           good == {l \in 0 .. n : \E f : Loop(f, l)}
<1>1. 0 \in good
  <2>1. Loop([k \in 0 .. 0 |-> s], 0)
    OBVIOUS
  <2> HIDE DEF Loop
  <2> QED
    BY <1>0, <2>1
<1>2. ASSUME NEW l \in 1 .. n, l - 1 \in good PROVE l \in good
  <2>1. PICK g : Loop(g, l - 1)
    BY <1>2
  <2> DEFINE f == [k \in 0 .. l |-> IF k = l THEN Step(g[l - 1], l) ELSE g[k]]
  <2>2. l \in Nat /\ l # 0 /\ l - 1 \in 0 .. l - 1 /\ l \in 0 .. n
    BY <1>0
  <2>3. \A k \in 0 .. l - 1 : f[k] = g[k]
    BY <2>2
  <2>4. ASSUME NEW k \in 0 .. l PROVE f[k] = IF k = 0 THEN s ELSE Step(f[k - 1], k)
    <3>1. CASE k = l
      BY <2>2, <2>3, <3>1
    <3>2. CASE k # l
      <4>1. k \in 0 .. l - 1 /\ (k # 0 => k - 1 \in 0 .. l - 1)
        BY <2>2, <3>2
      <4>2. g[k] = IF k = 0 THEN s ELSE Step(g[k - 1], k)
        BY <2>1, <4>1
      <4> QED
        BY <2>3, <4>1, <4>2, Zenon
    <3> QED
      BY <3>1, <3>2
  <2>5. f = [k \in 0 .. l |-> f[k]]
    OBVIOUS
  <2> HIDE DEF f
  <2>6. Loop(f, l)
    BY <2>4, <2>5
  <2> QED
    BY <2>2, <2>6
<1> HIDE DEF Loop
<1>3. \A l \in 0 .. n : l \in good
  <2> HIDE DEF good
  <2> QED
    BY <1>0, <1>1, <1>2, CountingUp
<1>4. n \in good
  BY <1>0, <1>3
<1>5. \E f : Loop(f, n)
  BY <1>4
<1> DEFINE after == CHOOSE f : Loop(f, n)
<1>6. Loop(after, n)
  BY <1>5, Zenon
<1>7. Performed(s, writes) = after
  BY DEF Performed, Loop, Step, n
<1> HIDE DEF after
<1>8. after[0] = s /\ \A k \in 1 .. n : after[k] = Step(after[k - 1], k)
  BY <1>0, <1>6 DEF Loop
<1> QED
  BY <1>7, <1>8 DEF Step, n

\* f is the first n steps of performing w on s; there is one such f.
Runs(f, s, w, n) == f[0] = s /\ \A k \in 1 .. n : f[k] = Written(f[k - 1], w[k])

LEMMA RunsAgree ==
    ASSUME NEW n \in Nat, NEW s, NEW w, NEW f, NEW g, Runs(f, s, w, n), Runs(g, s, w, n)
    PROVE  \A k \in 0 .. n : f[k] = g[k]
<1> DEFINE S == {k \in 0 .. n : f[k] = g[k]}
<1>1. 0 \in S
  BY DEF Runs
<1>2. \A k \in 1 .. n : k - 1 \in S => k \in S
  BY DEF Runs
<1> HIDE DEF S
<1>3. \A k \in 0 .. n : k \in S
  BY <1>1, <1>2, CountingUp
<1> QED
  BY <1>3 DEF S

\* The writes of a list, with one more.
LEMMA Appended ==
    ASSUME NEW S, NEW w \in Seq(S), NEW a \in S
    PROVE  /\ Append(w, a) \in Seq(S) /\ Len(Append(w, a)) = Len(w) + 1 /\ Len(w) \in Nat
           /\ Append(w, a)[Len(w) + 1] = a /\ \A k \in 1 .. Len(w) : Append(w, a)[k] = w[k]
  OBVIOUS

LEMMA Shorter ==
    ASSUME NEW S, NEW w \in Seq(S), w # <<>>
    PROVE  /\ Tail(w) \in Seq(S) /\ Len(Tail(w)) = Len(w) - 1 /\ Len(w) \in Nat /\ Len(w) >= 1
           /\ Head(w) \in S /\ Head(w) = w[1] /\ \A k \in 1 .. Len(w) - 1 : Tail(w)[k] = w[k + 1]
  OBVIOUS

LEMMA PerformedMore ==
    ASSUME NEW s, NEW w \in Seq(Write), NEW a \in Write
    PROVE  /\ \A k \in 0 .. Len(w) : Performed(s, Append(w, a))[k] = Performed(s, w)[k]
           /\ Performed(s, Append(w, a))[Len(w) + 1] = Written(Performed(s, w)[Len(w)], a)
<1> DEFINE n == Len(w)
           v == Append(w, a)
           f == Performed(s, w)
           g == Performed(s, v)
<1>1. n \in Nat /\ Len(v) = n + 1 /\ v[n + 1] = a /\ \A k \in 1 .. n : v[k] = w[k]
  BY Appended
<1>2. f[0] = s /\ \A k \in 1 .. n : f[k] = Written(f[k - 1], w[k])
  BY <1>1, PerformedLoop
<1>3. g[0] = s /\ \A k \in 1 .. n + 1 : g[k] = Written(g[k - 1], v[k])
  <2>1. Len(v) \in Nat
    BY <1>1
  <2> HIDE DEF v
  <2> QED
    BY <1>1, <2>1, PerformedLoop
<1> HIDE DEF n, v, f, g
<1>4. \A k \in 1 .. n : g[k] = Written(g[k - 1], w[k]) /\ f[k] = Written(f[k - 1], w[k])
  BY <1>1, <1>2, <1>3
<1>5. \A k \in 0 .. n : f[k] = g[k]
  <2>1. n \in Nat /\ Runs(f, s, w, n) /\ Runs(g, s, w, n)
    BY <1>1, <1>2, <1>3, <1>4 DEF Runs
  <2> QED
    BY <2>1, RunsAgree
<1>6. g[n + 1] = Written(g[n], a)
  <2>1. n + 1 \in 1 .. n + 1 /\ (n + 1) - 1 = n
    BY <1>1
  <2> QED
    BY <1>1, <1>3, <2>1
<1>7. n \in 0 .. n
  BY <1>1
<1> QED
  BY <1>5, <1>6, <1>7 DEF n, v, f, g

LEMMA PerformedRest ==
    ASSUME NEW s, NEW w \in Seq(Write), w # <<>>
    PROVE  \A k \in 0 .. Len(w) - 1 :
              Performed(Written(s, Head(w)), Tail(w))[k] = Performed(s, w)[k + 1]
<1> DEFINE n == Len(w) - 1
           v == Tail(w)
           f == Performed(s, w)
           g == Performed(Written(s, Head(w)), v)
           h == [k \in 0 .. n |-> f[k + 1]]
<1>1. /\ n \in Nat /\ Len(w) = n + 1 /\ Len(w) \in Nat /\ Len(v) = n /\ Head(w) = w[1]
      /\ \A k \in 1 .. n : v[k] = w[k + 1]
  BY Shorter
<1>2. f[0] = s /\ \A k \in 1 .. n + 1 : f[k] = Written(f[k - 1], w[k])
  BY <1>1, PerformedLoop
<1>3. g[0] = Written(s, w[1]) /\ \A k \in 1 .. n : g[k] = Written(g[k - 1], v[k])
  <2>1. Len(v) \in Nat
    BY <1>1
  <2> HIDE DEF v
  <2> QED
    BY <1>1, <2>1, PerformedLoop
<1>4. \A k \in 0 .. n : h[k] = f[k + 1]
  OBVIOUS
<1> HIDE DEF n, v, f, g, h
<1>5. h[0] = g[0]
  <2>1. 0 \in 0 .. n /\ 1 \in 1 .. n + 1 /\ 1 - 1 = 0 /\ 0 + 1 = 1
    BY <1>1
  <2> QED
    BY <1>2, <1>3, <1>4, <2>1
<1>6. ASSUME NEW k \in 1 .. n PROVE h[k] = Written(h[k - 1], v[k])
  <2>1. k \in 0 .. n /\ k - 1 \in 0 .. n /\ k + 1 \in 1 .. n + 1 /\ (k + 1) - 1 = k /\ (k - 1) + 1 = k
    BY <1>1
  <2>2. h[k] = f[k + 1] /\ h[k - 1] = f[k] /\ f[k + 1] = Written(f[k], w[k + 1])
    BY <1>2, <1>4, <2>1
  <2> QED
    BY <1>1, <2>2
<1>7. \A k \in 0 .. n : h[k] = g[k]
  <2>1. n \in Nat /\ Runs(h, g[0], v, n) /\ Runs(g, g[0], v, n)
    BY <1>1, <1>3, <1>5, <1>6 DEF Runs
  <2> QED
    BY <2>1, RunsAgree
<1> QED
  BY <1>4, <1>7 DEF n, v, f, g

-----------------------------------------------------------------------------
(***************************************************************************)
(* What a list of writes leads to.                                         *)
(***************************************************************************)
LEMMA NoWrites ==
    ASSUME NEW s, NEW n, NEW whole \in BOOLEAN, WellFormed(s), whole => ListedOnce(s, n)
    PROVE  Leads(s, <<>>, s, n, whole)
<1>1. <<>> \in Seq(Write) /\ Len(<<>>) = 0 /\ 0 \in Nat
  OBVIOUS
<1>2. Performed(s, <<>>)[0] = s
  BY <1>1, PerformedLoop
<1>3. \A k \in 0 .. 0 : Performed(s, <<>>)[k] = s
  BY <1>2
<1> QED
  BY <1>1, <1>2, <1>3 DEF Leads

LEMMA OneMore ==
    ASSUME NEW s, NEW w, NEW t, NEW n, NEW whole \in BOOLEAN, Leads(s, w, t, n, whole),
           NEW a \in Write, NEW u, u = Written(t, a), WellFormed(u), Keeps(t, u),
           whole => ListedOnce(u, n)
    PROVE  Leads(s, Append(w, a), u, n, whole)
<1> DEFINE f == Performed(s, w)
           g == Performed(s, Append(w, a))
           l == Len(w)
<1>1. /\ w \in Seq(Write) /\ f[l] = t /\ \A k \in 1 .. l : Keeps(f[k - 1], f[k])
      /\ \A k \in 0 .. l : WellFormed(f[k]) /\ (whole => ListedOnce(f[k], n))
  BY DEF Leads
<1>2. Append(w, a) \in Seq(Write) /\ Len(Append(w, a)) = l + 1 /\ l \in Nat
  BY <1>1, Appended
<1>3. (\A k \in 0 .. l : g[k] = f[k]) /\ g[l + 1] = Written(f[l], a)
  BY <1>1, PerformedMore
<1>4. g[l] = t /\ g[l + 1] = u
  BY <1>1, <1>2, <1>3
<1> HIDE DEF f, g, l
<1>5. ASSUME NEW k \in 0 .. l + 1 PROVE WellFormed(g[k]) /\ (whole => ListedOnce(g[k], n))
  <2>1. CASE k = l + 1
    BY <1>4, <2>1
  <2>2. CASE k # l + 1
    <3>1. k \in 0 .. l
      BY <1>2, <2>2
    <3> QED
      BY <1>1, <1>3, <3>1
  <2> QED
    BY <2>1, <2>2
<1>6. ASSUME NEW k \in 1 .. l + 1 PROVE Keeps(g[k - 1], g[k])
  <2>1. CASE k = l + 1
    <3>1. k - 1 = l
      BY <1>2, <2>1
    <3> QED
      BY <1>4, <2>1, <3>1
  <2>2. CASE k # l + 1
    <3>1. k \in 1 .. l /\ k \in 0 .. l /\ k - 1 \in 0 .. l
      BY <1>2, <2>2
    <3> QED
      BY <1>1, <1>3, <3>1
  <2> QED
    BY <2>1, <2>2
<1> QED
  BY <1>2, <1>4, <1>5, <1>6 DEF Leads, g, l

\* The first of the writes is done.
LEMMA OneLess ==
    ASSUME NEW s, NEW w, NEW t, NEW n, NEW whole \in BOOLEAN, Leads(s, w, t, n, whole), w # <<>>
    PROVE  /\ Head(w) \in Write /\ Keeps(s, Written(s, Head(w)))
           /\ Leads(Written(s, Head(w)), Tail(w), t, n, whole)
<1> DEFINE f == Performed(s, w)
           u == Written(s, Head(w))
           g == Performed(u, Tail(w))
           l == Len(w) - 1
<1>1. /\ w \in Seq(Write) /\ f[Len(w)] = t /\ \A k \in 1 .. Len(w) : Keeps(f[k - 1], f[k])
      /\ \A k \in 0 .. Len(w) : WellFormed(f[k]) /\ (whole => ListedOnce(f[k], n))
  BY DEF Leads
<1>2. /\ Tail(w) \in Seq(Write) /\ Len(Tail(w)) = l /\ l \in Nat /\ Len(w) = l + 1
      /\ Head(w) \in Write /\ Head(w) = w[1]
  BY <1>1, Shorter
<1>3. \A k \in 0 .. l : g[k] = f[k + 1]
  BY <1>1, PerformedRest
<1>4. f[0] = s /\ f[1] = u
  BY <1>2, PerformedLoop
<1> HIDE DEF f, u, g, l
<1>5. ASSUME NEW k \in 0 .. l PROVE WellFormed(g[k]) /\ (whole => ListedOnce(g[k], n))
  <2>1. k + 1 \in 0 .. l + 1
    BY <1>2
  <2> QED
    BY <1>1, <1>2, <1>3, <2>1
<1>6. ASSUME NEW k \in 1 .. l PROVE Keeps(g[k - 1], g[k])
  <2>1. k + 1 \in 1 .. l + 1 /\ (k + 1) - 1 = k /\ (k - 1) + 1 = k /\ k - 1 \in 0 .. l /\ k \in 0 .. l
    BY <1>2
  <2>2. Keeps(f[k], f[k + 1]) /\ g[k - 1] = f[k] /\ g[k] = f[k + 1]
    BY <1>1, <1>2, <1>3, <2>1
  <2> QED
    BY <2>2
<1>7. Keeps(s, u)
  <2>1. 1 \in 1 .. l + 1 /\ 1 - 1 = 0
    BY <1>2
  <2> QED
    BY <1>1, <1>2, <1>4, <2>1
<1>8. g[l] = t
  <2>1. l \in 0 .. l
    BY <1>2
  <2> QED
    BY <1>1, <1>2, <1>3, <2>1
<1> QED
  BY <1>2, <1>5, <1>6, <1>7, <1>8 DEF Leads, g, u

\* What the drives at the two ends are.
LEMMA LeadsEnds ==
    ASSUME NEW s, NEW w, NEW t, NEW n, NEW whole \in BOOLEAN, Leads(s, w, t, n, whole)
    PROVE  /\ w \in Seq(Write) /\ Performed(s, w)[Len(w)] = t
           /\ WellFormed(s) /\ WellFormed(t)
           /\ whole => ListedOnce(s, n) /\ ListedOnce(t, n)
<1>1. w \in Seq(Write) /\ Performed(s, w)[Len(w)] = t /\ Len(w) \in Nat
  BY DEF Leads
<1>2. 0 \in 0 .. Len(w) /\ Len(w) \in 0 .. Len(w) /\ Performed(s, w)[0] = s
  BY <1>1, PerformedLoop
<1> QED
  BY <1>1, <1>2 DEF Leads

\* With nothing to do the drive stays.
LEMMA NothingToDo ==
    ASSUME NEW s PROVE Performed(s, <<>>)[Len(<<>>)] = s
<1>1. Len(<<>>) = 0 /\ Len(<<>>) \in Nat
  OBVIOUS
<1> QED
  BY <1>1, PerformedLoop

-----------------------------------------------------------------------------
(***************************************************************************)
(* The drive.                                                              *)
(***************************************************************************)

\* A write is of one of four kinds.
LEMMA Kinds ==
    ASSUME NEW w \in Write
    PROVE  \/ DOMAIN w = {"header", "done"} \/ DOMAIN w = {"block", "meta"}
           \/ DOMAIN w = {"block", "content"} \/ DOMAIN w = {"blocks", "data"}
<1>1. CASE w \in [header : 2 .. LastBlock + 1, done : SUBSET Block]
  BY <1>1
<1>2. CASE w \in [block : Block, meta : MetaData]
  <2> HIDE DEF MetaData
  <2> QED
    BY <1>2
<1>3. CASE w \in [block : Block, content : Contents]
  <2> HIDE DEF Contents
  <2> QED
    BY <1>3
<1>4. CASE w \in [blocks : SUBSET Block, data : Block]
  BY <1>4
<1> QED
  BY <1>1, <1>2, <1>3, <1>4 DEF Write

\* What the four kinds of writes do.
LEMMA HeaderWritten ==
    ASSUME NEW s, NEW w, DOMAIN w = {"header", "done"}
    PROVE  Written(s, w) = [header |-> w.header, made |-> s.made \cup w.done,
                            meta |-> s.meta, content |-> s.content]
  BY DEF Written
LEMMA MetaWritten ==
    ASSUME NEW s, NEW w, DOMAIN w = {"block", "meta"}
    PROVE  Written(s, w) = [header |-> s.header, made |-> s.made,
                            meta |-> [s.meta EXCEPT ![w.block] = w.meta], content |-> s.content]
  BY DEF Written
LEMMA BlockWritten ==
    ASSUME NEW s, NEW w, DOMAIN w = {"block", "content"}
    PROVE  Written(s, w) = [header |-> s.header, made |-> s.made, meta |-> s.meta,
                            content |-> [s.content EXCEPT ![w.block] = w.content]]
  BY DEF Written
LEMMA DataWritten ==
    ASSUME NEW s, NEW w, DOMAIN w = {"blocks", "data"}
    PROVE  Written(s, w) = [header |-> s.header, made |-> s.made, meta |-> s.meta,
                            content |-> [b \in Block |-> IF b \in w.blocks THEN Data(w.data)
                                                         ELSE s.content[b]]]
  BY DEF Written

\* A step of an operation under way.
WriteStep == asvfs_write_header \/ asvfs_write_meta_data \/ asvfs_write_block \/ WriteData

LEMMA DriveFields ==
    /\ Drive.header = header /\ Drive.meta = meta /\ Drive.content = content /\ Drive.made = made
  BY DEF Drive

LEMMA WriteStepWrites ==
    ASSUME FsInv, WriteStep
    PROVE  /\ todo # <<>> /\ todo' = Tail(todo) /\ Drive' = Written(Drive, Head(todo))
           /\ UNCHANGED <<next_free, crashes>>
<1> DEFINE w == Head(todo)
<1>1. /\ todo # <<>> /\ todo' = Tail(todo) /\ UNCHANGED <<next_free, crashes>>
  BY DEF WriteStep, asvfs_write_header, asvfs_write_meta_data, asvfs_write_block, WriteData,
         NextWrite, Idle
<1>2. w \in Write
  <2>1. Leads(Drive, todo, After, next_free, crashes = 0) /\ (crashes = 0) \in BOOLEAN
    BY DEF FsInv
  <2> QED
    BY <1>1, <2>1, OneLess
<1>3. \/ DOMAIN w = {"header", "done"} \/ DOMAIN w = {"block", "meta"}
      \/ DOMAIN w = {"block", "content"} \/ DOMAIN w = {"blocks", "data"}
  BY <1>2, Kinds
<1> HIDE DEF w
<1>4. CASE asvfs_write_header
  <2>1. /\ header' = w.header /\ made' = made \cup w.done /\ UNCHANGED <<meta, content>>
        /\ "header" \in DOMAIN w
    BY <1>4 DEF asvfs_write_header, NextWrite, w
  <2>2. DOMAIN w = {"header", "done"}
    BY <1>3, <2>1
  <2>3. Written(Drive, w) = [header |-> w.header, made |-> made \cup w.done,
                             meta |-> meta, content |-> content]
    BY <2>2, HeaderWritten, DriveFields
  <2> QED
    BY <1>1, <2>1, <2>3 DEF Drive, w
<1>5. CASE asvfs_write_meta_data
  <2>1. /\ meta' = [meta EXCEPT ![w.block] = w.meta] /\ UNCHANGED <<header, made, content>>
        /\ "meta" \in DOMAIN w
    BY <1>5 DEF asvfs_write_meta_data, NextWrite, w
  <2>2. DOMAIN w = {"block", "meta"}
    BY <1>3, <2>1
  <2>3. Written(Drive, w) = [header |-> header, made |-> made,
                             meta |-> [meta EXCEPT ![w.block] = w.meta], content |-> content]
    BY <2>2, MetaWritten, DriveFields
  <2> QED
    BY <1>1, <2>1, <2>3 DEF Drive, w
<1>6. CASE asvfs_write_block
  <2>1. /\ content' = [content EXCEPT ![w.block] = w.content] /\ UNCHANGED <<header, made, meta>>
        /\ "content" \in DOMAIN w
    BY <1>6 DEF asvfs_write_block, NextWrite, w
  <2>2. DOMAIN w = {"block", "content"}
    BY <1>3, <2>1
  <2>3. Written(Drive, w) = [header |-> header, made |-> made, meta |-> meta,
                             content |-> [content EXCEPT ![w.block] = w.content]]
    BY <2>2, BlockWritten, DriveFields
  <2> QED
    BY <1>1, <2>1, <2>3 DEF Drive, w
<1>7. CASE WriteData
  <2>1. /\ content' = [b \in Block |-> IF b \in w.blocks THEN Data(w.data) ELSE content[b]]
        /\ UNCHANGED <<header, made, meta>>
        /\ "data" \in DOMAIN w
    BY <1>7 DEF WriteData, NextWrite, w
  <2>2. DOMAIN w = {"blocks", "data"}
    BY <1>3, <2>1
  <2>3. Written(Drive, w) = [header |-> header, made |-> made, meta |-> meta,
                             content |-> [b \in Block |-> IF b \in w.blocks THEN Data(w.data)
                                                          ELSE content[b]]]
    BY <2>2, DataWritten, DriveFields
  <2> QED
    BY <1>1, <2>1, <2>3 DEF Drive, w
<1> QED
  BY <1>4, <1>5, <1>6, <1>7 DEF WriteStep

\* A write brings the drive nearer to what it will be.
LEMMA WriteStepKeepsInv ==
    ASSUME FsInv, WriteStep PROVE FsInv' /\ After' = After /\ Keeps(Drive, Drive')
<1>1. /\ todo # <<>> /\ todo' = Tail(todo) /\ Drive' = Written(Drive, Head(todo))
      /\ UNCHANGED <<next_free, crashes>>
  BY WriteStepWrites
<1>2. Leads(Drive, todo, After, next_free, crashes = 0) /\ (crashes = 0) \in BOOLEAN
  BY DEF FsInv
<1>3. /\ Leads(Drive', todo', After, next_free, crashes = 0)
      /\ Keeps(Drive, Drive')
  BY <1>1, <1>2, OneLess
<1>4. After' = After
  <2>1. Performed(Drive', todo')[Len(todo')] = After
    BY <1>3 DEF Leads
  <2>2. After' = Performed(Drive', todo')[Len(todo')]
    BY DEF After
  <2> QED
    BY <2>1, <2>2
<1> QED
  BY <1>1, <1>3, <1>4 DEF FsInv

\* A crash forgets the writes still to do.
LEMMA CrashKeepsInv ==
    ASSUME FsInv, Crash PROVE FsInv' /\ Drive' = Drive
<1>1. /\ todo' = <<>> /\ next_free' = header /\ crashes' = crashes + 1 /\ crashes < MaxCrashes
      /\ Drive' = Drive /\ crashes \in 0 .. MaxCrashes /\ MaxCrashes \in Nat
  BY CrashesAssumption DEF Crash, FsInv, Drive
<1>2. WellFormed(Drive)
  BY LeadsEnds DEF FsInv
<1>3. Leads(Drive', todo', Drive', next_free', FALSE)
  BY <1>1, <1>2, NoWrites
<1>4. crashes' # 0 /\ crashes' \in 0 .. MaxCrashes /\ ((crashes' = 0) <=> FALSE)
  BY <1>1
<1>5. After' = Drive'
  <2>1. After' = Performed(Drive', todo')[Len(todo')]
    BY DEF After
  <2> QED
    BY <1>1, <2>1, NothingToDo
<1>6. next_free' = After'.header
  BY <1>1, <1>5, DriveFields
<1>7. (crashes' = 0) = FALSE
  BY <1>4
<1> QED
  BY <1>1, <1>3, <1>4, <1>5, <1>6, <1>7 DEF FsInv

-----------------------------------------------------------------------------
(***************************************************************************)
(* Paths.                                                                  *)
(***************************************************************************)

\* The block that the first k names of a path lead to.
Upto(path, k) == BlockOf(SubSeq(path, 1, k))

\* A step along a path.
Onward(d, name) == IF d = NotFound THEN NotFound ELSE Child(d, name)
Walks(f, path) == f[0] = Root /\ \A i \in 1 .. Len(path) : f[i] = Onward(f[i - 1], path[i])

LEMMA BlockOfLoop ==
    ASSUME NEW path, Len(path) \in Nat
    PROVE  \E f : Walks(f, path) /\ BlockOf(path) = f[Len(path)]
<1> DEFINE n == Len(path)
           Step(b, k) == Onward(b, path[k])
<1> HIDE DEF n, Step
<1>0. n \in Nat
  BY DEF n
<1> DEFINE Loop(f, l) == f = [k \in 0 .. l |-> IF k = 0 THEN Root ELSE Step(f[k - 1], k)]
           good == {l \in 0 .. n : \E f : Loop(f, l)}
<1>1. 0 \in good
  <2>1. Loop([k \in 0 .. 0 |-> Root], 0)
    OBVIOUS
  <2> HIDE DEF Loop
  <2> QED
    BY <1>0, <2>1
<1>2. ASSUME NEW l \in 1 .. n, l - 1 \in good PROVE l \in good
  <2>1. PICK g : Loop(g, l - 1)
    BY <1>2
  <2> DEFINE f == [k \in 0 .. l |-> IF k = l THEN Step(g[l - 1], l) ELSE g[k]]
  <2>2. l \in Nat /\ l # 0 /\ l - 1 \in 0 .. l - 1 /\ l \in 0 .. n
    BY <1>0
  <2>3. \A k \in 0 .. l - 1 : f[k] = g[k]
    BY <2>2
  <2>4. ASSUME NEW k \in 0 .. l PROVE f[k] = IF k = 0 THEN Root ELSE Step(f[k - 1], k)
    <3>1. CASE k = l
      BY <2>2, <2>3, <3>1
    <3>2. CASE k # l
      <4>1. k \in 0 .. l - 1 /\ (k # 0 => k - 1 \in 0 .. l - 1)
        BY <2>2, <3>2
      <4>2. g[k] = IF k = 0 THEN Root ELSE Step(g[k - 1], k)
        BY <2>1, <4>1
      <4> QED
        BY <2>3, <4>1, <4>2, Zenon
    <3> QED
      BY <3>1, <3>2
  <2>5. f = [k \in 0 .. l |-> f[k]]
    OBVIOUS
  <2> HIDE DEF f
  <2>6. Loop(f, l)
    BY <2>4, <2>5
  <2> QED
    BY <2>2, <2>6
<1> HIDE DEF Loop
<1>3. \A l \in 0 .. n : l \in good
  <2> HIDE DEF good
  <2> QED
    BY <1>0, <1>1, <1>2, CountingUp
<1>4. n \in good
  BY <1>0, <1>3
<1>5. \E f : Loop(f, n)
  BY <1>4
<1> DEFINE after == CHOOSE f : Loop(f, n)
<1>6. Loop(after, n)
  BY <1>5, Zenon
<1>7. BlockOf(path) = after[n]
  BY DEF BlockOf, Loop, Step, Onward, n
<1> HIDE DEF after
<1>8. after[0] = Root /\ \A k \in 1 .. n : after[k] = Step(after[k - 1], k)
  BY <1>0, <1>6 DEF Loop
<1>9. Walks(after, path)
  BY <1>8 DEF Walks, Step, n
<1> QED
  BY <1>7, <1>9 DEF n

\* The first names of a path.
LEMMA PrefixOf ==
    ASSUME NEW S, NEW p \in Seq(S), NEW k \in 0 .. Len(p)
    PROVE  /\ SubSeq(p, 1, k) \in Seq(S) /\ Len(SubSeq(p, 1, k)) = k
           /\ \A i \in 1 .. k : SubSeq(p, 1, k)[i] = p[i]
<1>1. Len(p) \in Nat /\ k \in Int /\ 1 \in Int /\ \A i \in 1 .. k : p[i] \in S
  OBVIOUS
<1> QED
  BY <1>1, SubSeqProperties

LEMMA WalksPrefix ==
    ASSUME NEW path \in Seq(Name), NEW f, Walks(f, path), NEW k \in 0 .. Len(path)
    PROVE  Upto(path, k) = f[k]
<1> DEFINE q == SubSeq(path, 1, k)
<1>1. Len(q) = k /\ k \in Nat /\ Len(path) \in Nat /\ \A i \in 1 .. k : q[i] = path[i] /\ i \in 1 .. Len(path)
  BY PrefixOf
<1> HIDE DEF q
<1>2. PICK g : Walks(g, q) /\ BlockOf(q) = g[k]
  BY <1>1, BlockOfLoop
<1> DEFINE S == {i \in 0 .. k : g[i] = f[i]}
<1>3. 0 \in S
  BY <1>1, <1>2 DEF Walks
<1>4. ASSUME NEW i \in 1 .. k, i - 1 \in S PROVE i \in S
  <2>1. g[i] = Onward(g[i - 1], path[i]) /\ f[i] = Onward(f[i - 1], path[i])
    BY <1>1, <1>2 DEF Walks
  <2>2. i \in 0 .. k /\ g[i - 1] = f[i - 1]
    BY <1>1, <1>4
  <2> QED
    BY <2>1, <2>2
<1> HIDE DEF S
<1>5. \A i \in 0 .. k : i \in S
  BY <1>1, <1>3, <1>4, CountingUp
<1>6. k \in S
  BY <1>1, <1>5
<1> QED
  BY <1>2, <1>6 DEF S, Upto, q

\* Following a path name by name.
LEMMA PathSteps ==
    ASSUME NEW path \in Seq(Name)
    PROVE  /\ Upto(path, 0) = Root
           /\ \A k \in 1 .. Len(path) : Upto(path, k) = Onward(Upto(path, k - 1), path[k])
           /\ BlockOf(path) = Upto(path, Len(path)) /\ ParentOf(path) = Upto(path, Len(path) - 1)
<1>1. Len(path) \in Nat
  OBVIOUS
<1>2. PICK f : Walks(f, path)
  BY <1>1, BlockOfLoop
<1>3. \A k \in 0 .. Len(path) : Upto(path, k) = f[k]
  BY <1>2, WalksPrefix
<1>4. Upto(path, 0) = Root
  BY <1>1, <1>2, <1>3 DEF Walks
<1>5. ASSUME NEW k \in 1 .. Len(path) PROVE Upto(path, k) = Onward(Upto(path, k - 1), path[k])
  <2>1. k \in 0 .. Len(path) /\ k - 1 \in 0 .. Len(path)
    BY <1>1
  <2> QED
    BY <1>2, <1>3, <2>1 DEF Walks
<1>6. BlockOf(path) = Upto(path, Len(path))
  BY SubSeqFull DEF Upto
<1>7. ParentOf(path) = Upto(path, Len(path) - 1)
  BY DEF ParentOf, Front, Upto
<1> QED
  BY <1>4, <1>5, <1>6, <1>7

\* A path that is asked for has a name at least.
LEMMA PathnameTyped ==
    ASSUME NEW path \in Pathname PROVE path \in Seq(Name) /\ Len(path) \in Nat \ {0}
<1>1. PICK k \in 1 .. MaxDepth : path \in [1 .. k -> Name]
  BY DEF Pathname
<1>2. k \in Nat \ {0}
  BY <1>1, RequestAssumption
<1>3. path \in Seq(Name)
  BY <1>1, <1>2, SeqDef
<1>4. Len(path) = k
  BY <1>1, <1>2, <1>3, LenProperties
<1> QED
  BY <1>2, <1>3, <1>4

-----------------------------------------------------------------------------
\* What the parts of a drive are.
LEMMA Numbers ==
    /\ LastBlock \in Nat \ {0} /\ Block \subseteq Nat \ {0} /\ Root \in Block /\ NotFound \notin Block
    /\ \A b \in Block : b \in 1 .. LastBlock /\ b <= LastBlock
    /\ BLOCK_SIZE \in Nat \ {0}
  BY DriveAssumption DEF Block, Root, NotFound

LEMMA DriveTyped ==
    ASSUME WellFormed(Drive)
    PROVE  /\ meta \in [Block -> MetaData] /\ content \in [Block -> Contents]
           /\ \A d \in Block : content[d].index \in Seq(Block) /\ content[d].dir \in BOOLEAN
  BY DriveFields DEF WellFormed, Contents

\* What Child returns.
LEMMA ChildFound ==
    ASSUME WellFormed(Drive), NEW d \in Block, NEW name, Child(d, name) # NotFound
    PROVE  /\ Child(d, name) \in Block /\ content[d].dir /\ meta[Child(d, name)].name = name
           /\ \E i \in DOMAIN content[d].index : content[d].index[i] = Child(d, name)
<1> DEFINE hits == {i \in DOMAIN content[d].index : meta[content[d].index[i]].name = name}
<1>1. content[d].index \in Seq(Block)
  BY DriveTyped
<1>2. DOMAIN content[d].index = 1 .. Len(content[d].index) /\ Len(content[d].index) \in Nat
  BY <1>1
<1>3. content[d].dir /\ hits # {} /\ Child(d, name) = content[d].index[Min(hits)]
  BY DEF Child
<1>4. hits \in SUBSET Nat
  BY <1>2
<1>5. Min(hits) \in hits
  BY <1>3, <1>4, MinOfNat
<1>6. Min(hits) \in 1 .. Len(content[d].index) /\ Min(hits) \in DOMAIN content[d].index
      /\ meta[content[d].index[Min(hits)]].name = name
  BY <1>2, <1>5
<1>7. content[d].index[Min(hits)] \in Block
  <2> HIDE DEF hits
  <2> QED
    BY <1>1, <1>6, ElementOfSeq
<1> QED
  BY <1>3, <1>6, <1>7

LEMMA ChildMissing ==
    ASSUME WellFormed(Drive), NEW d \in Block, NEW name, content[d].dir, Child(d, name) = NotFound
    PROVE  \A i \in DOMAIN content[d].index : meta[content[d].index[i]].name # name
<1> DEFINE hits == {i \in DOMAIN content[d].index : meta[content[d].index[i]].name = name}
<1>1. content[d].index \in Seq(Block)
  BY DriveTyped
<1>2. DOMAIN content[d].index = 1 .. Len(content[d].index) /\ Len(content[d].index) \in Nat
  BY <1>1
<1>3. ASSUME hits # {} PROVE FALSE
  <2>1. Child(d, name) = content[d].index[Min(hits)]
    BY <1>3 DEF Child
  <2>2. hits \in SUBSET Nat
    BY <1>2
  <2>3. Min(hits) \in hits
    BY <1>3, <2>2, MinOfNat
  <2>4. Min(hits) \in 1 .. Len(content[d].index)
    BY <1>2, <2>3
  <2> HIDE DEF hits
  <2>5. content[d].index[Min(hits)] \in Block
    BY <1>1, <2>4, ElementOfSeq
  <2> QED
    BY <2>1, <2>5, Numbers
<1> QED
  BY <1>3

\* Directory d lists b.
Lists(d, b) == \E i \in DOMAIN content[d].index : content[d].index[i] = b

\* What a name on a path leads to is listed under this name.
LEMMA StepFound ==
    ASSUME WellFormed(Drive), NEW path \in Seq(Name)
    PROVE  /\ \A k \in 0 .. Len(path) : Upto(path, k) \in Block \cup {NotFound}
           /\ \A k \in 1 .. Len(path) : Upto(path, k) # NotFound =>
                 /\ Upto(path, k) \in Block /\ Upto(path, k - 1) \in Block
                 /\ content[Upto(path, k - 1)].dir /\ Lists(Upto(path, k - 1), Upto(path, k))
                 /\ meta[Upto(path, k)].name = path[k]
<1>0. Len(path) \in Nat
  OBVIOUS
<1> DEFINE S == {k \in 0 .. Len(path) : Upto(path, k) \in Block \cup {NotFound}}
<1>1. 0 \in S
  BY <1>0, PathSteps, Numbers
<1>2. ASSUME NEW k \in 1 .. Len(path), Upto(path, k - 1) \in Block \cup {NotFound}, Upto(path, k) # NotFound
      PROVE  /\ Upto(path, k) \in Block /\ Upto(path, k - 1) \in Block
             /\ content[Upto(path, k - 1)].dir /\ Lists(Upto(path, k - 1), Upto(path, k))
             /\ meta[Upto(path, k)].name = path[k]
  <2> DEFINE d == Upto(path, k - 1)
  <2>1. Upto(path, k) = Onward(d, path[k])
    BY PathSteps
  <2>2. d # NotFound /\ Upto(path, k) = Child(d, path[k])
    BY <1>2, <2>1 DEF Onward
  <2>3. d \in Block
    BY <1>2, <2>2
  <2> HIDE DEF d
  <2>4. Child(d, path[k]) # NotFound
    BY <1>2, <2>2
  <2>5. /\ Child(d, path[k]) \in Block /\ content[d].dir /\ meta[Child(d, path[k])].name = path[k]
        /\ \E i \in DOMAIN content[d].index : content[d].index[i] = Child(d, path[k])
    BY <2>3, <2>4, ChildFound
  <2> QED
    BY <2>2, <2>3, <2>5 DEF d, Lists
<1>3. ASSUME NEW k \in 1 .. Len(path), k - 1 \in S PROVE k \in S
  <2>1. Upto(path, k - 1) \in Block \cup {NotFound}
    BY <1>3
  <2>2. Upto(path, k) # NotFound => Upto(path, k) \in Block
    BY <1>2, <2>1
  <2> QED
    BY <1>0, <2>2
<1> HIDE DEF S
<1>4. \A k \in 0 .. Len(path) : k \in S
  BY <1>0, <1>1, <1>3, CountingUp
<1>5. \A k \in 0 .. Len(path) : Upto(path, k) \in Block \cup {NotFound}
  BY <1>4 DEF S
<1>6. ASSUME NEW k \in 1 .. Len(path) PROVE Upto(path, k - 1) \in Block \cup {NotFound}
  <2>1. k - 1 \in 0 .. Len(path)
    BY <1>0
  <2> QED
    BY <1>5, <2>1
<1> QED
  BY <1>2, <1>5, <1>6

\* What a path leads to, and where it is listed.
LEMMA PathFound ==
    ASSUME WellFormed(Drive), NEW path \in Pathname
    PROVE  /\ BlockOf(path) \in Block \cup {NotFound} /\ ParentOf(path) \in Block \cup {NotFound}
           /\ BlockOf(path) # NotFound =>
                 /\ BlockOf(path) \in Block /\ ParentOf(path) \in Block /\ content[ParentOf(path)].dir
                 /\ Lists(ParentOf(path), BlockOf(path)) /\ meta[BlockOf(path)].name = Last(path)
           /\ ParentOf(path) # NotFound /\ BlockOf(path) = NotFound =>
                 Child(ParentOf(path), Last(path)) = NotFound
           /\ Last(path) \in Name
<1>1. path \in Seq(Name) /\ Len(path) \in Nat \ {0}
  BY PathnameTyped
<1>2. BlockOf(path) = Upto(path, Len(path)) /\ ParentOf(path) = Upto(path, Len(path) - 1)
  BY <1>1, PathSteps
<1>3. Len(path) \in 1 .. Len(path) /\ Len(path) \in 0 .. Len(path) /\ Len(path) - 1 \in 0 .. Len(path)
  BY <1>1
<1>4. Last(path) = path[Len(path)] /\ path[Len(path)] \in Name
  BY <1>1, <1>3, ElementOfSeq DEF Last
<1>5. BlockOf(path) = Onward(ParentOf(path), Last(path))
  BY <1>1, <1>2, <1>3, <1>4, PathSteps
<1>6. /\ Upto(path, Len(path)) \in Block \cup {NotFound}
      /\ Upto(path, Len(path) - 1) \in Block \cup {NotFound}
  BY <1>1, <1>3, StepFound
<1>7. Upto(path, Len(path)) # NotFound =>
         /\ Upto(path, Len(path)) \in Block /\ Upto(path, Len(path) - 1) \in Block
         /\ content[Upto(path, Len(path) - 1)].dir
         /\ Lists(Upto(path, Len(path) - 1), Upto(path, Len(path)))
         /\ meta[Upto(path, Len(path))].name = path[Len(path)]
  BY <1>1, <1>3, StepFound
<1>8. ParentOf(path) # NotFound /\ BlockOf(path) = NotFound => Child(ParentOf(path), Last(path)) = NotFound
  BY <1>5 DEF Onward
<1> QED
  BY <1>2, <1>4, <1>6, <1>7, <1>8

\* On a whole drive every step along a path leads to what was made.
LEMMA PathMade ==
    ASSUME WellFormed(Drive), Whole(Drive), NEW path \in Seq(Name), NEW k \in 0 .. Len(path),
           Upto(path, k) # NotFound
    PROVE  Upto(path, k) \in made \cup {Root} /\ (k # 0 => Upto(path, k) \in made)
<1>1. CASE k = 0
  BY <1>1, PathSteps
<1>2. CASE k # 0
  <2>1. k \in 1 .. Len(path)
    BY <1>2
  <2>2. Upto(path, k - 1) \in Block /\ Lists(Upto(path, k - 1), Upto(path, k))
    BY <2>1, StepFound
  <2>3. \A d \in Block : \A i \in DOMAIN content[d].index : content[d].index[i] \in made
    BY DriveFields DEF Whole
  <2> QED
    BY <2>2, <2>3 DEF Lists
<1> QED
  BY <1>1, <1>2

\* The root is not made.
LEMMA RootNotMade ==
    ASSUME WellFormed(Drive) PROVE Root \notin made /\ made \subseteq Block
<1>1. made \subseteq 2 .. header - 1 /\ header \in 2 .. LastBlock + 1
  BY DriveFields DEF WellFormed
<1> QED
  BY <1>1, Numbers DEF Root, Block

\* There is one path to a block.
LEMMA OnePath ==
    ASSUME WellFormed(Drive), Whole(Drive), NEW p \in Seq(Name), NEW q \in Seq(Name)
    PROVE  \A k \in 0 .. Len(p) : \A l \in 0 .. Len(q) :
              Upto(p, k) = Upto(q, l) /\ Upto(p, k) # NotFound =>
                 k = l /\ \A i \in 1 .. k : p[i] = q[i]
<1> DEFINE S == {k \in 0 .. Len(p) : \A l \in 0 .. Len(q) :
                    Upto(p, k) = Upto(q, l) /\ Upto(p, k) # NotFound =>
                       k = l /\ \A i \in 1 .. k : p[i] = q[i]}
<1>0. Len(p) \in Nat /\ Len(q) \in Nat
  OBVIOUS
<1>1. Upto(p, 0) = Root /\ Upto(q, 0) = Root
  BY PathSteps
<1>2. 0 \in S
  <2> SUFFICES ASSUME NEW l \in 0 .. Len(q), Upto(q, l) = Root, Root # NotFound PROVE l = 0
    BY <1>0, <1>1
  <2>1. l # 0 => Upto(q, l) \in made
    BY PathMade
  <2> QED
    BY <2>1, RootNotMade
<1>3. ASSUME NEW k \in 1 .. Len(p), k - 1 \in S PROVE k \in S
  <2> SUFFICES ASSUME NEW l \in 0 .. Len(q), Upto(p, k) = Upto(q, l), Upto(p, k) # NotFound
               PROVE  k = l /\ \A i \in 1 .. k : p[i] = q[i]
    BY <1>0
  <2>1. k \in 0 .. Len(p) /\ k # 0 /\ k - 1 \in 0 .. Len(p)
    BY <1>0
  <2>2. Upto(p, k) \in made
    BY <2>1, PathMade
  <2>3. l # 0
    BY <1>1, <2>2, RootNotMade
  <2>4. l \in 1 .. Len(q) /\ l - 1 \in 0 .. Len(q)
    BY <1>0, <2>3
  <2>5. /\ Upto(p, k - 1) \in Block /\ Lists(Upto(p, k - 1), Upto(p, k)) /\ meta[Upto(p, k)].name = p[k]
    BY StepFound
  <2>6. /\ Upto(q, l - 1) \in Block /\ Lists(Upto(q, l - 1), Upto(p, k)) /\ meta[Upto(p, k)].name = q[l]
    BY <2>4, StepFound
  <2>7. \A d, e \in Block, b \in Block : Lists(d, b) /\ Lists(e, b) => d = e
    BY DriveFields DEF Whole, ListedOnce, Lists
  <2>8. Upto(p, k - 1) = Upto(q, l - 1) /\ p[k] = q[l]
    BY <2>2, <2>5, <2>6, <2>7, RootNotMade
  <2>9. k - 1 = l - 1 /\ \A i \in 1 .. k - 1 : p[i] = q[i]
    BY <1>3, <2>4, <2>5, <2>8, Numbers
  <2> QED
    BY <1>0, <2>1, <2>4, <2>8, <2>9
<1> HIDE DEF S
<1>4. \A k \in 0 .. Len(p) : k \in S
  BY <1>0, <1>2, <1>3, CountingUp
<1> QED
  BY <1>4 DEF S

-----------------------------------------------------------------------------
(***************************************************************************)
(* One write.                                                              *)
(***************************************************************************)
\* A drive, from its parts.
Parts(h, d, m, c) == [header |-> h, made |-> d, meta |-> m, content |-> c]

\* What a write may be followed by.
Follows(s, a, u) == a \in Write /\ u = Written(s, a) /\ WellFormed(u) /\ Keeps(s, u)

LEMMA MetaFits ==
    ASSUME NEW m \in MetaData
    PROVE  m.starting_block \in Nat /\ m.num_blocks \in Nat /\ m.starting_block \in Block
  BY Numbers DEF MetaData

LEMMA WritesMeta ==
    ASSUME NEW s, WellFormed(s), NEW b \in Block, NEW m \in MetaData,
           m.starting_block + m.num_blocks <= LastBlock + 1,
           b \in s.made => (m.block_type = DIRECTORY => s.content[b].dir),
           NEW u, u = Parts(s.header, s.made, [s.meta EXCEPT ![b] = m], s.content)
    PROVE  Follows(s, ToMeta(b, m), u) /\ \A n : ListedOnce(s, n) => ListedOnce(u, n)
<1> DEFINE a == ToMeta(b, m)
<1>1. a \in Write /\ DOMAIN a = {"block", "meta"} /\ a.block = b /\ a.meta = m
  BY DEF ToMeta, Write
<1>2. u = Written(s, a)
  BY <1>1, MetaWritten DEF Parts
<1>3. /\ u.header = s.header /\ u.made = s.made /\ u.content = s.content
      /\ u.meta = [s.meta EXCEPT ![b] = m]
  BY DEF Parts
<1>4. s.meta \in [Block -> MetaData] /\ s.made \subseteq Block
  BY Numbers DEF WellFormed, Block
<1>5. u.meta \in [Block -> MetaData] /\ u.meta[b] = m /\ \A x \in Block : x # b => u.meta[x] = s.meta[x]
  <2> HIDE DEF MetaData
  <2> QED
    BY <1>3, <1>4
<1>6. WellFormed(u)
  <2>1. \A x \in Block : u.meta[x].starting_block + u.meta[x].num_blocks <= LastBlock + 1
    BY <1>5 DEF WellFormed
  <2>2. \A x \in u.made : u.meta[x].block_type = DIRECTORY => u.content[x].dir
    BY <1>3, <1>4, <1>5 DEF WellFormed
  <2> QED
    BY <1>3, <1>5, <2>1, <2>2 DEF WellFormed
<1>7. Keeps(s, u)
  BY <1>3 DEF Keeps
<1>8. \A n : ListedOnce(s, n) => ListedOnce(u, n)
  BY <1>3 DEF ListedOnce
<1> QED
  BY <1>1, <1>2, <1>6, <1>7, <1>8 DEF Follows

LEMMA WritesBlock ==
    ASSUME NEW s, WellFormed(s), NEW b \in Block, NEW c \in Contents,
           b \in s.made => s.content[b].dir /\ c.dir,
           NEW u, u = Parts(s.header, s.made, s.meta, [s.content EXCEPT ![b] = c])
    PROVE  Follows(s, ToBlock(b, c), u)
<1> DEFINE a == ToBlock(b, c)
<1>1. a \in Write /\ DOMAIN a = {"block", "content"} /\ a.block = b /\ a.content = c
  BY DEF ToBlock, Write
<1>2. u = Written(s, a)
  BY <1>1, BlockWritten DEF Parts
<1>3. /\ u.header = s.header /\ u.made = s.made /\ u.meta = s.meta
      /\ u.content = [s.content EXCEPT ![b] = c]
  BY DEF Parts
<1>4. s.content \in [Block -> Contents] /\ s.made \subseteq 2 .. s.header - 1 /\ s.header \in 2 .. LastBlock + 1
  BY DEF WellFormed
<1>5. s.made \subseteq Block
  BY <1>4, Numbers DEF Block
<1>6. u.content \in [Block -> Contents] /\ u.content[b] = c /\ \A x \in Block : x # b => u.content[x] = s.content[x]
  <2> HIDE DEF Contents
  <2> QED
    BY <1>3, <1>4
<1>7. WellFormed(u)
  BY <1>3, <1>5, <1>6 DEF WellFormed
<1>8. Keeps(s, u)
  BY <1>3, <1>5, <1>6 DEF Keeps
<1> QED
  BY <1>1, <1>2, <1>7, <1>8 DEF Follows

LEMMA WritesHeader ==
    ASSUME NEW s, WellFormed(s), NEW n \in s.header .. LastBlock + 1,
           NEW done \in SUBSET Block, done \subseteq 2 .. n - 1,
           \A c \in done : s.meta[c].block_type = DIRECTORY => s.content[c].dir,
           NEW u, u = Parts(n, s.made \cup done, s.meta, s.content)
    PROVE  Follows(s, ToHeader(n, done), u) /\ \A l : ListedOnce(s, l) => ListedOnce(u, l)
<1> DEFINE a == ToHeader(n, done)
<1>0. s.header \in 2 .. LastBlock + 1 /\ s.made \subseteq 2 .. s.header - 1 /\ LastBlock \in Nat
  BY Numbers DEF WellFormed
<1>1. a \in Write /\ DOMAIN a = {"header", "done"} /\ a.header = n /\ a.done = done
  <2>1. n \in 2 .. LastBlock + 1
    BY <1>0
  <2> QED
    BY <2>1 DEF ToHeader, Write
<1>2. u = Written(s, a)
  BY <1>1, HeaderWritten DEF Parts
<1>3. u.header = n /\ u.made = s.made \cup done /\ u.content = s.content /\ u.meta = s.meta
  BY DEF Parts
<1>4. u.made \subseteq 2 .. n - 1 /\ n \in 2 .. LastBlock + 1
  <2>1. n \in Int /\ s.header \in Int /\ s.header <= n /\ 2 <= s.header /\ n <= LastBlock + 1
    BY <1>0
  <2>2. \A x \in 2 .. s.header - 1 : x \in 2 .. n - 1
    BY <2>1
  <2>3. u.made \subseteq 2 .. n - 1
    BY <1>0, <1>3, <2>2, Zenon
  <2>4. n \in 2 .. LastBlock + 1
    BY <1>0, <2>1
  <2> QED
    BY <2>3, <2>4
<1>5. WellFormed(u)
  BY <1>3, <1>4 DEF WellFormed
<1>6. Keeps(s, u)
  BY <1>3 DEF Keeps
<1>7. \A l : ListedOnce(s, l) => ListedOnce(u, l)
  BY <1>3 DEF ListedOnce
<1> QED
  BY <1>1, <1>2, <1>5, <1>6, <1>7 DEF Follows

LEMMA WritesData ==
    ASSUME NEW s, WellFormed(s), NEW f \in Block, s.meta[f].block_type # DIRECTORY,
           NEW u, u = Parts(s.header, s.made, s.meta, [s.content EXCEPT ![f] = Data(f)])
    PROVE  Follows(s, ToData({f}, f), u) /\ \A n : ListedOnce(s, n) => ListedOnce(u, n)
<1> DEFINE a == ToData({f}, f)
<1>1. a \in Write /\ DOMAIN a = {"blocks", "data"} /\ a.blocks = {f} /\ a.data = f
  BY DEF ToData, Write
<1>2. /\ u.header = s.header /\ u.made = s.made /\ u.meta = s.meta
      /\ u.content = [s.content EXCEPT ![f] = Data(f)]
  BY DEF Parts
<1>3. s.content \in [Block -> Contents] /\ s.made \subseteq 2 .. s.header - 1 /\ s.header \in 2 .. LastBlock + 1
  BY DEF WellFormed
<1>4. Data(f) \in Contents /\ Data(f).index = <<>>
  BY DEF Data, Contents
<1>5. u.content \in [Block -> Contents] /\ u.content[f] = Data(f) /\ \A x \in Block : x # f => u.content[x] = s.content[x]
  <2> HIDE DEF Contents
  <2> QED
    BY <1>2, <1>3, <1>4
<1>6. u = Written(s, a)
  <2>1. [b \in Block |-> IF b \in {f} THEN Data(f) ELSE s.content[b]] = [s.content EXCEPT ![f] = Data(f)]
    <3> HIDE DEF Contents
    <3> QED
      BY <1>3
  <2> HIDE DEF a
  <2>2. Written(s, a) = [header |-> s.header, made |-> s.made, meta |-> s.meta,
                         content |-> [b \in Block |-> IF b \in {f} THEN Data(f) ELSE s.content[b]]]
    BY <1>1, DataWritten
  <2> QED
    BY <2>1, <2>2 DEF Parts
<1>7. s.made \subseteq Block
  BY <1>3, Numbers DEF Block
<1>8. WellFormed(u)
  BY <1>2, <1>5, <1>7 DEF WellFormed
<1>9. Keeps(s, u)
  BY <1>2, <1>5, <1>7 DEF Keeps
<1>10. ASSUME NEW n, ListedOnce(s, n) PROVE ListedOnce(u, n)
  <2>1. \A d \in Block : \A i \in DOMAIN u.content[d].index :
           d # f /\ i \in DOMAIN s.content[d].index /\ u.content[d].index[i] = s.content[d].index[i]
    BY <1>4, <1>5
  <2> QED
    BY <1>10, <2>1 DEF ListedOnce
<1> QED
  BY <1>1, <1>6, <1>8, <1>9, <1>10 DEF Follows

-----------------------------------------------------------------------------
(***************************************************************************)
(* Entries.                                                                *)
(***************************************************************************)
NotListed(s, c) == \A d \in Block : \A i \in DOMAIN s.content[d].index : s.content[d].index[i] # c

\* s with another index in directory d.
Reindexed(s, d, index) ==
    Parts(s.header, s.made, s.meta, [s.content EXCEPT ![d] = Directory(index)])

\* Entries are integers, so that the comparison has the usual meaning.
LEMMA IndexTyped ==
    ASSUME NEW s, WellFormed(s)
    PROVE  /\ s.content \in [Block -> Contents]
           /\ \A d \in Block : /\ s.content[d].index \in Seq(Block)
                              /\ DOMAIN s.content[d].index = 1 .. Len(s.content[d].index)
                              /\ Len(s.content[d].index) \in Nat
                              /\ \A i \in DOMAIN s.content[d].index : s.content[d].index[i] \in Block
<1>1. s.content \in [Block -> Contents]
  BY DEF WellFormed
<1>2. ASSUME NEW d \in Block PROVE s.content[d].index \in Seq(Block)
  BY <1>1 DEF Contents
<1> QED
  BY <1>1, <1>2

LEMMA ReindexedParts ==
    ASSUME NEW s, WellFormed(s), NEW d \in Block, NEW index \in Seq(Block)
    PROVE  /\ Directory(index) \in Contents /\ Directory(index).dir
           /\ Directory(index).index = index /\ Directory(index).by = 0
           /\ Reindexed(s, d, index).header = s.header /\ Reindexed(s, d, index).made = s.made
           /\ Reindexed(s, d, index).meta = s.meta
           /\ Reindexed(s, d, index).content = [s.content EXCEPT ![d] = Directory(index)]
           /\ Reindexed(s, d, index).content[d] = Directory(index)
           /\ \A b \in Block : b # d => Reindexed(s, d, index).content[b] = s.content[b]
<1>1. Directory(index) \in Contents /\ Directory(index).dir /\ Directory(index).index = index /\ Directory(index).by = 0
  BY DEF Directory, Contents
<1> QED
  BY <1>1, IndexTyped DEF Reindexed, Parts

\* An entry more.
LEMMA EntryAdded ==
    ASSUME NEW s, WellFormed(s), NEW n, ListedOnce(s, n), NEW d \in Block, NEW c \in Block,
           c < n, NotListed(s, c),
           NEW u, u.content = [s.content EXCEPT ![d] = Directory(Append(s.content[d].index, c))]
    PROVE  ListedOnce(u, n)
<1> DEFINE old == s.content[d].index
           new == Append(old, c)
<1>1. old \in Seq(Block) /\ DOMAIN old = 1 .. Len(old) /\ Len(old) \in Nat
  BY IndexTyped
<1>2. /\ new \in Seq(Block) /\ Len(new) = Len(old) + 1 /\ new[Len(old) + 1] = c
      /\ \A i \in 1 .. Len(old) : new[i] = old[i]
  BY <1>1, Appended
<1>3. DOMAIN new = 1 .. Len(old) + 1
  BY <1>2
<1>4. u.content[d].index = new /\ \A b \in Block : b # d => u.content[b] = s.content[b]
  BY IndexTyped DEF Directory
<1> HIDE DEF old, new
<1>5. ASSUME NEW e \in Block, NEW i \in DOMAIN u.content[e].index
      PROVE  \/ e = d /\ i = Len(old) + 1 /\ u.content[e].index[i] = c
             \/ i \in DOMAIN s.content[e].index /\ u.content[e].index[i] = s.content[e].index[i]
  <2>1. CASE e # d
    BY <1>4, <2>1
  <2>2. CASE e = d /\ i # Len(old) + 1
    <3>1. i \in 1 .. Len(old)
      BY <1>1, <1>3, <1>4, <2>2
    <3> QED
      BY <1>1, <1>2, <1>4, <2>2, <3>1 DEF old
  <2>3. CASE e = d /\ i = Len(old) + 1
    BY <1>2, <1>4, <2>3
  <2> QED
    BY <2>1, <2>2, <2>3
<1>6. ASSUME NEW e \in Block, NEW f \in Block, NEW i \in DOMAIN u.content[e].index,
             NEW j \in DOMAIN u.content[f].index
      PROVE  /\ u.content[e].index[i] < n
             /\ u.content[e].index[i] = u.content[f].index[j] => e = f /\ i = j
  <2>1. u.content[e].index[i] < n
    BY <1>5 DEF ListedOnce
  <2>2. ASSUME u.content[e].index[i] = u.content[f].index[j] PROVE e = f /\ i = j
    BY <1>5, <2>2 DEF ListedOnce, NotListed
  <2> QED
    BY <2>1, <2>2
<1> QED
  BY <1>6 DEF ListedOnce

\* An entry less: the one at r of directory d.
EntryLess(s, u, d, r) ==
    /\ \A e \in Block : \A i \in DOMAIN u.content[e].index :
          \E j \in DOMAIN s.content[e].index : u.content[e].index[i] = s.content[e].index[j]
    /\ \A e \in Block : \A j \in DOMAIN s.content[e].index : ~(e = d /\ j = r) =>
          \E i \in DOMAIN u.content[e].index : u.content[e].index[i] = s.content[e].index[j]
    /\ \A n : ListedOnce(s, n) => ListedOnce(u, n) /\ NotListed(u, s.content[d].index[r])

LEMMA EntryRemoved ==
    ASSUME NEW s, WellFormed(s), NEW d \in Block, NEW r \in 1 .. Len(s.content[d].index),
           NEW u, u.content = [s.content EXCEPT ![d] = Directory(RemoveAt(s.content[d].index, r))]
    PROVE  EntryLess(s, u, d, r) /\ RemoveAt(s.content[d].index, r) \in Seq(Block)
<1> DEFINE old == s.content[d].index
           new == RemoveAt(old, r)
<1>0. old \in Seq(Block)
  BY IndexTyped
<1>1. old \in Seq(Block) /\ DOMAIN old = 1 .. Len(old) /\ Len(old) \in Nat
  <2> HIDE DEF old, new
  <2> QED  BY <1>0
<1>2. /\ new \in Seq(Block) /\ Len(new) = Len(old) - 1
      /\ \A i \in 1 .. Len(old) - 1 : new[i] = IF i < r THEN old[i] ELSE old[i + 1]
  BY <1>1, RemovedAt
<1>3. DOMAIN new = 1 .. Len(old) - 1
  BY <1>2
<1>4. u.content[d].index = new /\ \A b \in Block : b # d => u.content[b] = s.content[b]
  BY IndexTyped DEF Directory
<1> HIDE DEF old, new
<1>r. r \in 1 .. Len(old) /\ old = s.content[d].index
  BY DEF old
<1>5. ASSUME NEW e \in Block, NEW i \in DOMAIN u.content[e].index
      PROVE  \E j \in DOMAIN s.content[e].index :
                /\ u.content[e].index[i] = s.content[e].index[j]
                /\ e = d => j # r /\ j = IF i < r THEN i ELSE i + 1
                /\ e # d => i = j
  <2>1. CASE e # d
    BY <1>4, <2>1
  <2>2. CASE e = d
    <3> DEFINE j == IF i < r THEN i ELSE i + 1
    <3>1. i \in 1 .. Len(old) - 1
      BY <1>3, <1>4, <2>2
    <3>2. j \in 1 .. Len(old) /\ j # r
      BY <1>1, <1>r, <3>1
    <3>3. u.content[e].index[i] = old[j]
      BY <1>2, <1>4, <2>2, <3>1
    <3> HIDE DEF j
    <3>4. j \in DOMAIN s.content[e].index /\ u.content[e].index[i] = s.content[e].index[j]
      BY <1>1, <1>r, <2>2, <3>2, <3>3
    <3> QED
      BY <2>2, <3>2, <3>4 DEF j
  <2> QED
    BY <2>1, <2>2
<1>6. ASSUME NEW e \in Block, NEW j \in DOMAIN s.content[e].index, ~(e = d /\ j = r)
      PROVE  \E i \in DOMAIN u.content[e].index : u.content[e].index[i] = s.content[e].index[j]
  <2>1. CASE e # d
    BY <1>4, <2>1
  <2>2. CASE e = d
    <3> DEFINE i == IF j < r THEN j ELSE j - 1
    <3>1. j \in 1 .. Len(old) /\ j # r
      BY <1>1, <1>r, <1>6, <2>2
    <3>2. i \in 1 .. Len(old) - 1 /\ (IF i < r THEN i ELSE i + 1) = j
      BY <1>1, <1>r, <3>1
    <3>3. new[i] = old[j]
      <4>1. new[i] = IF i < r THEN old[i] ELSE old[i + 1]
        <5> HIDE DEF i
        <5> QED
          BY <1>2, <3>2
      <4>2. (i < r => i = j) /\ (~(i < r) => i + 1 = j)
        BY <3>2
      <4> HIDE DEF i
      <4> QED
        BY <4>1, <4>2
    <3> HIDE DEF i
    <3> QED
      BY <1>3, <1>4, <1>r, <2>2, <3>2, <3>3
  <2> QED
    BY <2>1, <2>2
<1>7. ASSUME NEW n, ListedOnce(s, n)
      PROVE  ListedOnce(u, n) /\ NotListed(u, s.content[d].index[r])
  <2>1. ASSUME NEW e \in Block, NEW f \in Block, NEW i \in DOMAIN u.content[e].index,
               NEW k \in DOMAIN u.content[f].index
        PROVE  /\ u.content[e].index[i] < n
               /\ u.content[e].index[i] = u.content[f].index[k] => e = f /\ i = k
    <3>1. PICK j \in DOMAIN s.content[e].index :
             /\ u.content[e].index[i] = s.content[e].index[j]
             /\ e = d => j # r /\ j = IF i < r THEN i ELSE i + 1
             /\ e # d => i = j
      BY <1>5
    <3>2. PICK l \in DOMAIN s.content[f].index :
             /\ u.content[f].index[k] = s.content[f].index[l]
             /\ f = d => l # r /\ l = IF k < r THEN k ELSE k + 1
             /\ f # d => k = l
      BY <1>5
    <3>3. u.content[e].index[i] < n
      BY <1>7, <3>1 DEF ListedOnce
    <3>4. ASSUME u.content[e].index[i] = u.content[f].index[k] PROVE e = f /\ i = k
      <4>0. s.content[e].index[j] = s.content[f].index[l]
        BY <3>1, <3>2, <3>4
      <4>1. e = f /\ j = l
        BY <1>7, <4>0 DEF ListedOnce
      <4>2. CASE e # d
        BY <3>1, <3>2, <4>1, <4>2
      <4>3. CASE e = d
        <5>1. i \in Nat /\ k \in Nat /\ r \in Nat
          BY <1>1, <1>3, <1>4, <4>1, <4>3, <1>r
        <5>2. (IF i < r THEN i ELSE i + 1) = (IF k < r THEN k ELSE k + 1)
          BY <3>1, <3>2, <4>1, <4>3
        <5> QED
          BY <4>1, <5>1, <5>2
      <4> QED
        BY <4>2, <4>3
    <3> QED
      BY <3>3, <3>4
  <2>2. ASSUME NEW e \in Block, NEW i \in DOMAIN u.content[e].index
        PROVE  u.content[e].index[i] # s.content[d].index[r]
    <3>1. PICK j \in DOMAIN s.content[e].index :
             u.content[e].index[i] = s.content[e].index[j] /\ (e = d => j # r)
      BY <1>5
    <3>2. r \in DOMAIN s.content[d].index
      BY <1>1, <1>r
    <3> QED
      BY <1>7, <3>1, <3>2 DEF ListedOnce
  <2> QED
    BY <2>1, <2>2 DEF ListedOnce, NotListed
<1>8. \A e \in Block : \A i \in DOMAIN u.content[e].index :
         \E j \in DOMAIN s.content[e].index : u.content[e].index[i] = s.content[e].index[j]
  <2> SUFFICES ASSUME NEW e \in Block, NEW i \in DOMAIN u.content[e].index
               PROVE  \E j \in DOMAIN s.content[e].index : u.content[e].index[i] = s.content[e].index[j]
    OBVIOUS
  <2>1. PICK j \in DOMAIN s.content[e].index : u.content[e].index[i] = s.content[e].index[j]
    BY <1>5
  <2> QED
    BY <2>1
<1>9. \A e \in Block : \A j \in DOMAIN s.content[e].index : ~(e = d /\ j = r) =>
         \E i \in DOMAIN u.content[e].index : u.content[e].index[i] = s.content[e].index[j]
  BY <1>6
<1>10. \A n : ListedOnce(s, n) => ListedOnce(u, n) /\ NotListed(u, s.content[d].index[r])
  BY <1>7
<1>11. EntryLess(s, u, d, r)
  BY <1>8, <1>9, <1>10, Zenon DEF EntryLess
<1> QED
  BY <1>2, <1>11 DEF new, old

-----------------------------------------------------------------------------
(***************************************************************************)
(* An operation: it leaves writes that lead to drive t.                    *)
(***************************************************************************)
Begins(t) ==
    /\ Leads(Drive', todo', t, t.header, crashes = 0)
    /\ crashes = 0 => Whole(t)
    /\ next_free' = t.header /\ UNCHANGED crashes

LEMMA BeginKeepsInv ==
    ASSUME FsInv, NEW t, Begins(t) PROVE FsInv' /\ After' = t
<1>1. Performed(Drive', todo')[Len(todo')] = t
  <2>1. Leads(Drive', todo', t, t.header, crashes = 0)
    BY DEF Begins
  <2> QED
    BY <2>1 DEF Leads
<1>2. After' = Performed(Drive', todo')[Len(todo')]
  BY DEF After
<1>3. After' = t
  BY <1>1, <1>2
<1> QED
  BY <1>3 DEF Begins, FsInv

\* Between operations.
LEMMA IdleFacts ==
    ASSUME FsInv, Idle
    PROVE  /\ After = Drive /\ next_free = header /\ WellFormed(Drive)
           /\ crashes = 0 => Whole(Drive) /\ ListedOnce(Drive, header)
           /\ (crashes = 0) \in BOOLEAN
<1>1. Leads(Drive, todo, After, next_free, crashes = 0)
  BY DEF FsInv
<1>2. WellFormed(Drive)
  BY <1>1, LeadsEnds
<1>3. After = Drive
  BY NothingToDo DEF After, Idle
<1>4. next_free = header
  BY <1>3, DriveFields DEF FsInv
<1>5. crashes = 0 => Whole(Drive)
  BY <1>3 DEF FsInv
<1>6. crashes = 0 => ListedOnce(Drive, header)
  BY <1>5, DriveFields DEF Whole
<1> QED
  BY <1>2, <1>3, <1>4, <1>5, <1>6

\* One more write, and a list of one.
LEMMA LeadsOn ==
    ASSUME NEW s, NEW w, NEW t, NEW n, NEW whole \in BOOLEAN, Leads(s, w, t, n, whole),
           NEW a, NEW u, Follows(t, a, u), whole => ListedOnce(u, n)
    PROVE  Leads(s, Append(w, a), u, n, whole)
  BY OneMore DEF Follows

LEMMA LeadsFirst ==
    ASSUME NEW s, NEW n, NEW whole \in BOOLEAN, WellFormed(s), whole => ListedOnce(s, n),
           NEW a, NEW u, Follows(s, a, u), whole => ListedOnce(u, n)
    PROVE  Leads(s, <<a>>, u, n, whole)
<1>1. Leads(s, <<>>, s, n, whole)
  BY NoWrites
<1>2. Append(<<>>, a) = <<a>>
  OBVIOUS
<1> QED
  BY <1>1, <1>2, LeadsOn

LEMMA ListedOnceSame ==
    ASSUME NEW s, NEW u, NEW n, \A d \in Block : u.content[d].index = s.content[d].index,
           ListedOnce(s, n)
    PROVE  ListedOnce(u, n)
  BY DEF ListedOnce

\* The next free block may move on.
LEMMA ListedOnceOn ==
    ASSUME NEW s, WellFormed(s), NEW n \in Int, NEW l \in Int, n <= l, ListedOnce(s, n)
    PROVE  ListedOnce(s, l)
<1>1. ASSUME NEW d \in Block, NEW i \in DOMAIN s.content[d].index PROVE s.content[d].index[i] \in Int
  <2>1. s.content[d].index[i] \in Block
    BY IndexTyped
  <2> DEFINE x == s.content[d].index[i]
  <2> HIDE DEF x
  <2>2. x \in Block => x \in Int
    BY Numbers
  <2> QED
    BY <2>1, <2>2 DEF x
<1>2. ASSUME NEW d \in Block, NEW i \in DOMAIN s.content[d].index PROVE s.content[d].index[i] < l
  <2>1. s.content[d].index[i] < n
    BY DEF ListedOnce
  <2> QED
    BY <1>1, <2>1
<1> QED
  BY <1>2 DEF ListedOnce

LEMMA BelowNotListed ==
    ASSUME NEW s, WellFormed(s), NEW n \in Int, ListedOnce(s, n) PROVE NotListed(s, n)
<1>1. ASSUME NEW d \in Block, NEW i \in DOMAIN s.content[d].index PROVE s.content[d].index[i] \in Int
  <2>1. s.content[d].index[i] \in Block
    BY IndexTyped
  <2> DEFINE x == s.content[d].index[i]
  <2> HIDE DEF x
  <2>2. x \in Block => x \in Int
    BY Numbers
  <2> QED
    BY <2>1, <2>2 DEF x
<1>2. ASSUME NEW d \in Block, NEW i \in DOMAIN s.content[d].index PROVE s.content[d].index[i] # n
  <2>1. s.content[d].index[i] < n
    BY DEF ListedOnce
  <2> QED
    BY <1>1, <2>1
<1> QED
  BY <1>2 DEF NotListed

-----------------------------------------------------------------------------
(***************************************************************************)
(* Creating a file or a directory.                                         *)
(***************************************************************************)

\* What a whole drive says of a block that is free, and of one that is in use.
LEMMA FreeBlock ==
    ASSUME NEW s, WellFormed(s), Whole(s), NEW b \in s.header .. LastBlock
    PROVE  /\ b \in Block /\ ~s.meta[b].in_use /\ s.meta[b].block_type = UNKNOWN
           /\ ~s.content[b].dir /\ s.content[b].index = <<>> /\ s.content[b].by = 0
           /\ s.meta[b].starting_block = b /\ s.meta[b].num_blocks \in {0, 1}
           /\ s.header \in Nat
<1>1. s.header \in 2 .. LastBlock + 1 /\ LastBlock \in Nat
  BY Numbers DEF WellFormed
<1>2. b \in Block /\ s.header \in Nat
  BY <1>1 DEF Block
<1>3. /\ ~s.meta[b].in_use /\ s.content[b].by = 0 /\ s.meta[b].starting_block = b
      /\ s.meta[b].num_blocks <= 1
  BY DEF Whole
<1>4. s.meta[b].block_type = UNKNOWN
  BY <1>2, <1>3 DEF Whole
<1>5. ~s.content[b].dir
  BY <1>2, <1>4 DEF Whole, UNKNOWN, DIRECTORY
<1>6. s.content[b].index = <<>>
  BY <1>2, <1>5 DEF Whole
<1>7. s.meta[b] \in MetaData
  BY <1>2 DEF WellFormed
<1>8. s.meta[b].num_blocks \in Nat
  BY <1>7, MetaFits
<1>9. s.meta[b].num_blocks \in {0, 1}
  BY <1>3, <1>8
<1> QED
  BY <1>2, <1>3, <1>4, <1>5, <1>6, <1>9

LEMMA UsedBlock ==
    ASSUME NEW s, WellFormed(s), Whole(s), NEW b \in Block, s.meta[b].in_use
    PROVE  /\ \A x \in ExtentIn(s, b) : x < s.header /\ s.content[x].by \in {0, b}
           /\ \A c \in Block : s.meta[c].in_use /\ b # c => ExtentIn(s, b) \cap ExtentIn(s, c) = {}
           /\ b \in ExtentIn(s, b) /\ b < s.header
<1>1. b \in ExtentIn(s, b)
  BY DEF ExtentIn
<1> QED
  BY <1>1 DEF Whole

\* u is s with one more file or directory, in directory d.
Created(s, u, d, name, type) ==
    LET n == s.header
    IN  /\ u.header = n + 1 /\ u.made = s.made \cup {n}
        /\ \A x \in Block : x # n => u.meta[x] = s.meta[x]
        /\ u.meta[n] = [s.meta[n] EXCEPT !.in_use = TRUE, !.name = name, !.block_type = type]
        /\ u.content[d] = Directory(Append(s.content[d].index, n))
        /\ u.content[n] = (IF type = DIRECTORY THEN Directory(<<>>) ELSE s.content[n])
        /\ \A x \in Block : x # n /\ x # d => u.content[x] = s.content[x]

LEMMA CreatedWhole ==
    ASSUME NEW s, WellFormed(s), Whole(s), NEW d \in Block, d \in s.made \cup {Root},
           s.meta[d].block_type = DIRECTORY, s.header \in Block,
           NEW name \in Name, NEW type \in {FILE, DIRECTORY},
           NEW u, WellFormed(u), Created(s, u, d, name, type), ListedOnce(u, s.header + 1)
    PROVE  Whole(u)
<1> DEFINE n == s.header
<1>1. n \in Block /\ n \in Nat /\ LastBlock \in Nat /\ n \in n .. LastBlock /\ n + 1 \in Nat
  BY Numbers DEF Block
<1>2. /\ ~s.meta[n].in_use /\ s.meta[n].block_type = UNKNOWN
      /\ ~s.content[n].dir /\ s.content[n].index = <<>> /\ s.content[n].by = 0
      /\ s.meta[n].starting_block = n /\ s.meta[n].num_blocks \in {0, 1}
  BY <1>1, FreeBlock
<1>3. /\ u.header = n + 1 /\ u.made = s.made \cup {n}
      /\ \A x \in Block : x # n => u.meta[x] = s.meta[x]
      /\ u.meta[n] = [s.meta[n] EXCEPT !.in_use = TRUE, !.name = name, !.block_type = type]
      /\ u.content[d] = Directory(Append(s.content[d].index, n))
      /\ u.content[n] = (IF type = DIRECTORY THEN Directory(<<>>) ELSE s.content[n])
      /\ \A x \in Block : x # n /\ x # d => u.content[x] = s.content[x]
  BY DEF Created
<1>4. /\ u.meta[n].in_use /\ u.meta[n].block_type = type /\ u.meta[n].starting_block = n
      /\ u.meta[n].num_blocks = s.meta[n].num_blocks
  <2>1. s.meta[n] \in MetaData
    BY <1>1 DEF WellFormed
  <2> QED
    BY <1>2, <1>3, <2>1 DEF MetaData
<1>5. d # n /\ s.content[d].dir
  BY <1>2 DEF Whole, UNKNOWN, DIRECTORY
<1>6. /\ u.content[d].dir /\ u.content[d].index = Append(s.content[d].index, n) /\ u.content[d].by = 0
      /\ u.content[n].index = <<>> /\ u.content[n].by = 0 /\ (u.content[n].dir <=> type = DIRECTORY)
  BY <1>2, <1>3 DEF Directory
<1>7. ASSUME NEW b \in Block
      PROVE  /\ u.content[b].dir <=> u.meta[b].block_type = DIRECTORY
             /\ ~u.content[b].dir => u.content[b].index = <<>>
             /\ ~u.meta[b].in_use => u.meta[b].block_type = UNKNOWN
  <2>1. CASE b = n
    BY <1>4, <1>6, <2>1
  <2>2. CASE b = d
    BY <1>3, <1>5, <1>6, <2>2 DEF Whole
  <2>3. CASE b # n /\ b # d
    BY <1>3, <2>3 DEF Whole
  <2> QED
    BY <2>1, <2>2, <2>3
<1>8. ASSUME NEW b \in u.header .. LastBlock
      PROVE  /\ ~u.meta[b].in_use /\ u.content[b].by = 0 /\ u.meta[b].starting_block = b
             /\ u.meta[b].num_blocks <= 1
  <2>1. b \in n .. LastBlock /\ b # n /\ b \in Block
    BY <1>1, <1>3 DEF Block
  <2>2. ~s.meta[b].in_use /\ s.content[b].by = 0 /\ s.meta[b].starting_block = b /\ s.meta[b].num_blocks <= 1
    BY <2>1 DEF Whole
  <2>3. u.content[b].by = 0
    BY <1>3, <1>6, <2>1, <2>2
  <2> QED
    BY <1>3, <2>1, <2>2, <2>3
<1>9. ExtentIn(u, n) = {n}
  <2>1. u.meta[n].starting_block .. u.meta[n].starting_block + u.meta[n].num_blocks - 1 \subseteq {n}
    BY <1>1, <1>2, <1>4
  <2> QED
    BY <2>1 DEF ExtentIn
<1>10. \A b \in Block : b # n => ExtentIn(u, b) = ExtentIn(s, b) /\ u.meta[b].in_use = s.meta[b].in_use
  BY <1>3 DEF ExtentIn
<1> HIDE DEF n
<1>11. ASSUME NEW b \in Block, s.meta[b].in_use PROVE \A x \in ExtentIn(s, b) : x < n /\ x # n
  <2>1. \A x \in ExtentIn(s, b) : x < n
    BY <1>11, UsedBlock DEF n
  <2>2. \A x \in ExtentIn(s, b) : x \in Int
    <3>1. s.meta[b] \in MetaData
      BY DEF WellFormed
    <3>2. s.meta[b].starting_block \in Nat /\ s.meta[b].num_blocks \in Nat
      BY <3>1, MetaFits
    <3> QED
      BY <3>2, Numbers DEF ExtentIn
  <2> QED
    BY <1>1, <2>1, <2>2
<1>12. ASSUME NEW b \in Block, u.meta[b].in_use
       PROVE  /\ \A x \in ExtentIn(u, b) : x < u.header /\ u.content[x].by \in {0, b}
              /\ \A c \in Block : u.meta[c].in_use /\ b # c => ExtentIn(u, b) \cap ExtentIn(u, c) = {}
  <2>1. CASE b = n
    <3>1. n < u.header /\ u.content[n].by \in {0, b}
      BY <1>1, <1>3, <1>6
    <3>2. ASSUME NEW c \in Block, u.meta[c].in_use, b # c PROVE n \notin ExtentIn(u, c)
      BY <1>10, <1>11, <2>1, <3>2
    <3> QED
      BY <1>9, <2>1, <3>1, <3>2
  <2>2. CASE b # n
    <3>1. s.meta[b].in_use /\ ExtentIn(u, b) = ExtentIn(s, b)
      BY <1>10, <1>12, <2>2
    <3>2. ASSUME NEW x \in ExtentIn(s, b) PROVE x < u.header /\ u.content[x].by \in {0, b}
      <4>1. x < n /\ x # n /\ s.content[x].by \in {0, b}
        BY <1>11, <3>1, UsedBlock
      <4>2. x \in Block
        <5>1. s.meta[b] \in MetaData /\ s.meta[b].starting_block + s.meta[b].num_blocks <= LastBlock + 1
          BY DEF WellFormed
        <5>2. s.meta[b].starting_block \in Nat \ {0} /\ s.meta[b].num_blocks \in Nat
          BY <5>1, MetaFits, Numbers
        <5> QED
          BY <1>1, <5>1, <5>2 DEF ExtentIn, Block
      <4>3. x < n + 1
        BY <1>1, <4>1, <4>2 DEF Block
      <4>4. u.content[x].by \in {0, b}
        BY <1>3, <1>6, <4>1, <4>2
      <4> QED
        BY <1>3, <4>3, <4>4
    <3>3. ASSUME NEW c \in Block, u.meta[c].in_use, b # c PROVE ExtentIn(u, b) \cap ExtentIn(u, c) = {}
      <4>1. CASE c = n
        BY <1>9, <1>11, <3>1, <4>1
      <4>2. CASE c # n
        BY <1>10, <3>1, <3>3, <4>2, UsedBlock
      <4> QED
        BY <4>1, <4>2
    <3> QED
      BY <3>1, <3>2, <3>3
  <2> QED
    BY <2>1, <2>2
<1>13. u.meta[Root].in_use /\ u.meta[Root].block_type = DIRECTORY
  <2>1. s.meta[Root].in_use /\ s.meta[Root].block_type = DIRECTORY /\ Root \in Block
    BY Numbers DEF Whole
  <2> QED
    BY <1>2, <1>3, <2>1
<1>14. \A b \in u.made : u.meta[b].in_use /\ u.meta[b].block_type # UNKNOWN
  <2>1. s.made \subseteq Block
    BY <1>1 DEF WellFormed, Block
  <2>2. \A b \in s.made : s.meta[b].in_use /\ s.meta[b].block_type # UNKNOWN
    BY DEF Whole
  <2>3. type # UNKNOWN
    BY DEF FILE, DIRECTORY, UNKNOWN
  <2> QED
    BY <1>2, <1>3, <1>4, <2>1, <2>2, <2>3, ZenonT(30)
<1>15. ASSUME NEW e \in Block, NEW i \in DOMAIN u.content[e].index
       PROVE  \/ i \in DOMAIN s.content[e].index /\ u.content[e].index[i] = s.content[e].index[i]
              \/ e = d /\ u.content[e].index[i] = n
  <2>1. CASE e = n
    BY <1>6, <2>1
  <2>2. CASE e = d
    <3>1. /\ s.content[d].index \in Seq(Block) /\ DOMAIN s.content[d].index = 1 .. Len(s.content[d].index)
          /\ Len(s.content[d].index) \in Nat
      BY IndexTyped
    <3> DEFINE old == s.content[d].index
    <3>2. /\ Append(old, n) \in Seq(Block) /\ Len(Append(old, n)) = Len(old) + 1
          /\ Append(old, n)[Len(old) + 1] = n /\ \A k \in 1 .. Len(old) : Append(old, n)[k] = old[k]
      BY <1>1, <3>1, Appended, SMTT(30)
    <3>3. i \in 1 .. Len(old) + 1
      BY <1>6, <2>2, <3>2
    <3> HIDE DEF old
    <3>4. i \in 1 .. Len(old) \/ i = Len(old) + 1
      BY <3>1, <3>3 DEF old
    <3> QED
      BY <1>6, <2>2, <3>1, <3>2, <3>4 DEF old
  <2>3. CASE e # n /\ e # d
    BY <1>3, <2>3
  <2> QED
    BY <2>1, <2>2, <2>3
<1>16. \A e \in Block : \A i \in DOMAIN u.content[e].index : u.content[e].index[i] \in u.made
  <2>1. \A e \in Block : \A i \in DOMAIN s.content[e].index : s.content[e].index[i] \in s.made
    BY DEF Whole
  <2> QED
    BY <1>3, <1>15, <2>1
<1>17. ASSUME NEW e \in Block, NEW i \in DOMAIN s.content[e].index
       PROVE  i \in DOMAIN u.content[e].index /\ u.content[e].index[i] = s.content[e].index[i]
  <2>1. CASE e = n
    BY <1>2, <1>17, <2>1
  <2>2. CASE e = d
    <3>1. /\ s.content[d].index \in Seq(Block) /\ DOMAIN s.content[d].index = 1 .. Len(s.content[d].index)
          /\ Len(s.content[d].index) \in Nat
      BY IndexTyped
    <3> QED
      BY <1>1, <1>6, <1>17, <2>2, <3>1
  <2>3. CASE e # n /\ e # d
    BY <1>3, <2>3
  <2> QED
    BY <2>1, <2>2, <2>3
<1>18. Rooted(u)
  <2> SUFFICES ASSUME NEW S \in SUBSET Block, Root \in S,
                      \A e \in S : \A i \in DOMAIN u.content[e].index : u.content[e].index[i] \in S
               PROVE  u.made \subseteq S
    BY DEF Rooted
  <2>1. \A e \in S : \A i \in DOMAIN s.content[e].index : s.content[e].index[i] \in S
    BY <1>17
  <2>2. s.made \subseteq S
    BY <2>1 DEF Whole, Rooted
  <2>3. d \in S
    BY <2>2
  <2>4. n \in S
    <3>1. /\ s.content[d].index \in Seq(Block) /\ Len(s.content[d].index) \in Nat
      BY IndexTyped
    <3> DEFINE k == Len(s.content[d].index) + 1
    <3>2. k \in DOMAIN u.content[d].index /\ u.content[d].index[k] = n
      BY <1>1, <1>6, <3>1, SMTT(30)
    <3> QED
      BY <2>3, <3>2
  <2> QED
    BY <1>3, <2>2, <2>4
<1>19. ListedOnce(u, u.header)
  BY <1>3 DEF n
<1> QED
  BY <1>7, <1>8, <1>12, <1>13, <1>14, <1>16, <1>18, <1>19 DEF Whole

\* The meta data of the new block, and then the header.
LEMMA BlockTaken ==
    ASSUME NEW s, NEW w, NEW t, NEW whole \in BOOLEAN, NEW n \in Block,
           Leads(s, w, t, n + 1, whole), t.header = n,
           NEW m \in MetaData, m.starting_block + m.num_blocks <= LastBlock + 1,
           m.block_type = DIRECTORY => t.content[n].dir,
           NEW u, u = Parts(n + 1, t.made \cup {n}, [t.meta EXCEPT ![n] = m], t.content)
    PROVE  Leads(s, Append(Append(w, ToMeta(n, m)), ToHeader(n + 1, {n})), u, n + 1, whole)
<1> DEFINE v == Parts(t.header, t.made, [t.meta EXCEPT ![n] = m], t.content)
<1>1. WellFormed(t) /\ (whole => ListedOnce(t, n + 1))
  BY LeadsEnds
<1>2. t.made \subseteq 2 .. n - 1 /\ t.meta \in [Block -> MetaData] /\ n \in 2 .. LastBlock + 1
  BY <1>1 DEF WellFormed
<1>3. n \in Nat /\ n \in 1 .. LastBlock /\ LastBlock \in Nat
  BY Numbers DEF Block
<1>4. n \notin t.made
  BY <1>2, <1>3
<1>5. v = Parts(t.header, t.made, [t.meta EXCEPT ![n] = m], t.content)
  OBVIOUS
<1>6. v.header = n /\ v.made = t.made /\ v.content = t.content /\ v.meta = [t.meta EXCEPT ![n] = m]
  BY DEF Parts
<1>7. v.meta[n] = m
  <2> HIDE DEF MetaData, v
  <2> QED
    BY <1>2, <1>6
<1> HIDE DEF v
<1>8. Follows(t, ToMeta(n, m), v) /\ \A l : ListedOnce(t, l) => ListedOnce(v, l)
  BY <1>1, <1>4, <1>5, WritesMeta
<1>9. WellFormed(v) /\ (whole => ListedOnce(v, n + 1))
  BY <1>1, <1>8 DEF Follows
<1>10. Leads(s, Append(w, ToMeta(n, m)), v, n + 1, whole)
  BY <1>8, <1>9, LeadsOn
<1>11. n + 1 \in v.header .. LastBlock + 1 /\ {n} \in SUBSET Block /\ {n} \subseteq 2 .. (n + 1) - 1
  BY <1>2, <1>3, <1>6
<1>12. \A c \in {n} : v.meta[c].block_type = DIRECTORY => v.content[c].dir
  BY <1>6, <1>7
<1>13. u = Parts(n + 1, v.made \cup {n}, v.meta, v.content)
  BY <1>6
<1>14. Follows(v, ToHeader(n + 1, {n}), u) /\ \A l : ListedOnce(v, l) => ListedOnce(u, l)
  BY <1>9, <1>11, <1>12, <1>13, WritesHeader
<1> QED
  BY <1>9, <1>10, <1>14, LeadsOn

\* What is known where a block is taken.
LEMMA TakesBlockFacts ==
    ASSUME FsInv, NEW path \in Pathname, TakesBlock(path)
    PROVE  LET d == ParentOf(path)
           IN  /\ d \in Block /\ meta[d].block_type = DIRECTORY /\ (d \in made => content[d].dir)
               /\ crashes = 0 => d \in made \cup {Root}
               /\ next_free = header /\ header \in Block /\ header \notin made
               /\ Last(path) \in Name /\ Drive' = Drive /\ UNCHANGED crashes
               /\ Child(d, Last(path)) = NotFound
<1> DEFINE d == ParentOf(path)
<1>1. /\ Idle /\ d # NotFound /\ meta[d].block_type = DIRECTORY /\ next_free \in Block
      /\ BlockOf(path) = NotFound /\ UNCHANGED <<header, meta, content, made, crashes>>
  BY DEF TakesBlock, IsDirectory
<1>2. next_free = header /\ WellFormed(Drive) /\ (crashes = 0 => Whole(Drive))
  BY <1>1, IdleFacts
<1>3. d \in Block \cup {NotFound} /\ Last(path) \in Name /\ Child(d, Last(path)) = NotFound
  BY <1>1, <1>2, PathFound
<1>4. d \in Block
  BY <1>1, <1>3
<1>5. made \subseteq 2 .. header - 1 /\ (\A c \in made : meta[c].block_type = DIRECTORY => content[c].dir)
  BY <1>2, DriveFields DEF WellFormed
<1>6. header \notin made
  BY <1>1, <1>2, <1>5, Numbers DEF Block
<1>7. ASSUME crashes = 0 PROVE d \in made \cup {Root}
  <2>1. path \in Seq(Name) /\ Len(path) \in Nat \ {0}
    BY PathnameTyped
  <2>2. d = Upto(path, Len(path) - 1) /\ Len(path) - 1 \in 0 .. Len(path)
    BY <2>1, PathSteps
  <2>3. Upto(path, Len(path) - 1) # NotFound
    BY <1>1, <2>2
  <2> QED
    BY <1>2, <1>7, <2>1, <2>2, <2>3, PathMade
<1>8. Drive' = Drive
  BY <1>1 DEF Drive
<1> QED
  BY <1>1, <1>2, <1>3, <1>4, <1>5, <1>6, <1>7, <1>8

\* A directory is written with another index.
LEMMA IndexWritten ==
    ASSUME NEW s, WellFormed(s), NEW d \in Block, d \in s.made => s.content[d].dir,
           NEW index \in Seq(Block)
    PROVE  Follows(s, ToBlock(d, Directory(index)), Reindexed(s, d, index))
<1>1. Directory(index) \in Contents /\ Directory(index).dir
  BY ReindexedParts
<1> QED
  BY <1>1, WritesBlock DEF Reindexed

\* The directory is told of the block.
LEMMA DirectoryTold ==
    ASSUME FsInv, Idle, NEW d \in Block, d \in made => content[d].dir, header \in Block,
           NEW w, w = AddEntry(d, header),
           NEW t, t = Reindexed(Drive, d, Append(content[d].index, header))
    PROVE  /\ Leads(Drive, <<w>>, t, header + 1, crashes = 0)
           /\ t.header = header /\ t.made = made /\ t.meta = meta
           /\ t.content \in [Block -> Contents]
           /\ t.content[d] = Directory(Append(content[d].index, header))
           /\ \A x \in Block : x # d => t.content[x] = content[x]
<1> DEFINE old == content[d].index
           whole == crashes = 0
<1>1. /\ WellFormed(Drive) /\ (whole => ListedOnce(Drive, header)) /\ header \in Int
      /\ whole \in BOOLEAN
  BY IdleFacts, Numbers
<1>2. old \in Seq(Block)
  BY <1>1, DriveTyped
<1>3. Append(old, header) \in Seq(Block)
  BY <1>2, Appended
<1>4. Follows(Drive, w, t)
  BY <1>1, <1>3, IndexWritten, DriveFields DEF AddEntry
<1>5. /\ t.header = header /\ t.made = made /\ t.meta = meta
      /\ t.content = [content EXCEPT ![d] = Directory(Append(old, header))]
      /\ t.content[d] = Directory(Append(old, header))
      /\ \A x \in Block : x # d => t.content[x] = content[x]
  <2> DEFINE new == Append(old, header)
  <2>1. t = Reindexed(Drive, d, new) /\ new \in Seq(Block)
    BY <1>3
  <2> HIDE DEF new
  <2> DEFINE r == Reindexed(Drive, d, new)
  <2>2. /\ r.header = Drive.header /\ r.made = Drive.made /\ r.meta = Drive.meta
        /\ r.content = [Drive.content EXCEPT ![d] = Directory(new)]
        /\ r.content[d] = Directory(new)
        /\ \A x \in Block : x # d => r.content[x] = Drive.content[x]
    <3>1. Drive.content \in [Block -> Contents]
      BY <1>1, IndexTyped
    <3>2. /\ r.header = Drive.header /\ r.made = Drive.made /\ r.meta = Drive.meta
          /\ r.content = [Drive.content EXCEPT ![d] = Directory(new)]
      BY DEF Reindexed, Parts
    <3> HIDE DEF r
    <3> QED
      BY <3>1, <3>2
  <2> HIDE DEF r
  <2>3. /\ t.header = Drive.header /\ t.made = Drive.made /\ t.meta = Drive.meta
        /\ t.content = [Drive.content EXCEPT ![d] = Directory(new)]
        /\ t.content[d] = Directory(new)
        /\ \A x \in Block : x # d => t.content[x] = Drive.content[x]
    <3>1. t = r
      BY <2>1 DEF r
    <3> QED
      BY <2>2, <3>1
  <2> QED
    BY <2>3, DriveFields DEF new
<1>6. whole => ListedOnce(Drive, header + 1)
  <2>1. header + 1 \in Int /\ header <= header + 1
    BY <1>1
  <2> QED
    BY <1>1, <2>1, ListedOnceOn
<1>7. ASSUME whole PROVE ListedOnce(t, header + 1)
  <2>1. NotListed(Drive, header)
    BY <1>1, <1>7, BelowNotListed
  <2>2. header < header + 1
    BY <1>1
  <2>3. t.content = [Drive.content EXCEPT ![d] = Directory(Append(Drive.content[d].index, header))]
    BY <1>5, DriveFields
  <2> QED
    BY <1>1, <1>6, <1>7, <2>1, <2>2, <2>3, EntryAdded
<1>8. Leads(Drive, <<w>>, t, header + 1, whole)
  BY <1>1, <1>4, <1>6, <1>7, LeadsFirst
<1>9. t.content \in [Block -> Contents]
  BY <1>4 DEF Follows, WellFormed
<1> QED
  BY <1>5, <1>8, <1>9

\* What asvfs_mknod and asvfs_mkdir lead to.
LEMMA NamedTyped ==
    ASSUME FsInv, Idle, header \in Block, NEW name \in Name, NEW type \in {FILE, DIRECTORY},
           NEW m, m = [meta[header] EXCEPT !.in_use = TRUE, !.name = name, !.block_type = type]
    PROVE  /\ m \in MetaData /\ m.starting_block + m.num_blocks <= LastBlock + 1 /\ m.block_type = type
           /\ Named(header, name, type) = ToMeta(header, m)
<1>1. WellFormed(Drive)
  BY IdleFacts
<1>2. meta[header] \in MetaData /\ meta[header].starting_block + meta[header].num_blocks <= LastBlock + 1
  BY <1>1, DriveFields DEF WellFormed
<1>3. m \in MetaData /\ m.block_type = type
  BY <1>2 DEF MetaData
<1>4. m.starting_block = meta[header].starting_block /\ m.num_blocks = meta[header].num_blocks
  BY <1>2 DEF MetaData
<1> QED
  BY <1>2, <1>3, <1>4 DEF Named

LEMMA ShortLists ==
    ASSUME NEW S, NEW a \in S, NEW b \in S, NEW c \in S, NEW d \in S
    PROVE  /\ Append(<<a>>, b) = <<a, b>>
           /\ Append(Append(<<a>>, b), c) = <<a, b, c>>
           /\ Append(Append(Append(<<a>>, b), c), d) = <<a, b, c, d>>
<1>1. <<a>> \in Seq(S) /\ Len(<<a>>) = 1 /\ <<a>>[1] = a
  OBVIOUS
<1>2. <<a, b>> \in Seq(S) /\ Len(<<a, b>>) = 2 /\ <<a, b>>[1] = a /\ <<a, b>>[2] = b
  OBVIOUS
<1>3. /\ <<a, b, c>> \in Seq(S) /\ Len(<<a, b, c>>) = 3
      /\ <<a, b, c>>[1] = a /\ <<a, b, c>>[2] = b /\ <<a, b, c>>[3] = c
  OBVIOUS
<1>4. /\ <<a, b, c, d>> \in Seq(S) /\ Len(<<a, b, c, d>>) = 4
      /\ <<a, b, c, d>>[1] = a /\ <<a, b, c, d>>[2] = b /\ <<a, b, c, d>>[3] = c /\ <<a, b, c, d>>[4] = d
  OBVIOUS
<1>5. Append(<<a>>, b) = <<a, b>>
  <2> DEFINE v == <<a>>
             w == <<a, b>>
  <2> HIDE DEF v, w
  <2>1. Append(v, b) \in Seq(S) /\ Len(Append(v, b)) = 2 /\ Append(v, b)[2] = b /\ Append(v, b)[1] = a
    BY <1>1, Appended DEF v
  <2>2. \A i \in 1 .. 2 : Append(v, b)[i] = w[i]
    BY <1>2, <2>1 DEF w
  <2>3. w \in Seq(S) /\ Len(w) = 2
    BY <1>2 DEF w
  <2>4. Append(v, b) = w
    BY <2>1, <2>2, <2>3, SeqEqual
  <2> QED
    BY <2>4 DEF v, w
<1>6. Append(<<a, b>>, c) = <<a, b, c>>
  <2> DEFINE v == <<a, b>>
             w == <<a, b, c>>
  <2> HIDE DEF v, w
  <2>1. /\ Append(v, c) \in Seq(S) /\ Len(Append(v, c)) = 3 /\ Append(v, c)[3] = c
        /\ Append(v, c)[1] = a /\ Append(v, c)[2] = b
    BY <1>2, Appended DEF v
  <2>2. \A i \in 1 .. 3 : Append(v, c)[i] = w[i]
    BY <1>3, <2>1 DEF w
  <2>3. w \in Seq(S) /\ Len(w) = 3
    BY <1>3 DEF w
  <2>4. Append(v, c) = w
    BY <2>1, <2>2, <2>3, SeqEqual
  <2> QED
    BY <2>4 DEF v, w
<1>7. Append(<<a, b, c>>, d) = <<a, b, c, d>>
  <2> DEFINE v == <<a, b, c>>
             w == <<a, b, c, d>>
  <2> HIDE DEF v, w
  <2>1. /\ Append(v, d) \in Seq(S) /\ Len(Append(v, d)) = 4 /\ Append(v, d)[4] = d
        /\ Append(v, d)[1] = a /\ Append(v, d)[2] = b /\ Append(v, d)[3] = c
    BY <1>3, Appended DEF v
  <2>2. \A i \in 1 .. 4 : Append(v, d)[i] = w[i]
    BY <1>4, <2>1 DEF w
  <2>3. w \in Seq(S) /\ Len(w) = 4
    BY <1>4 DEF w
  <2>4. Append(v, d) = w
    BY <2>1, <2>2, <2>3, SeqEqual
  <2> QED
    BY <2>4 DEF v, w
<1> QED
  BY <1>5, <1>6, <1>7

LEMMA MoreWrites ==
    \A a, b, c, d : /\ Append(<<a>>, b) = <<a, b>>
                    /\ Append(Append(<<a>>, b), c) = <<a, b, c>>
                    /\ Append(Append(Append(<<a>>, b), c), d) = <<a, b, c, d>>
<1> SUFFICES ASSUME NEW a, NEW b, NEW c, NEW d
             PROVE  /\ Append(<<a>>, b) = <<a, b>>
                    /\ Append(Append(<<a>>, b), c) = <<a, b, c>>
                    /\ Append(Append(Append(<<a>>, b), c), d) = <<a, b, c, d>>
  OBVIOUS
<1> DEFINE S == {a, b, c, d}
<1>1. a \in S /\ b \in S /\ c \in S /\ d \in S
  OBVIOUS
<1> HIDE DEF S
<1> QED
  BY <1>1, ShortLists

LEMMA FileCreated ==
    ASSUME FsInv, NEW path \in Pathname, asvfs_mknod(path)
    PROVE  \E u : Begins(u) /\ (crashes = 0 => Created(Drive, u, ParentOf(path), Last(path), FILE))
<1> DEFINE d == ParentOf(path)
           n == header
           name == Last(path)
           m == [meta[n] EXCEPT !.in_use = TRUE, !.name = name, !.block_type = FILE]
           t == Reindexed(Drive, d, Append(content[d].index, n))
           u == Parts(n + 1, t.made \cup {n}, [t.meta EXCEPT ![n] = m], t.content)
           whole == crashes = 0
<1>1. Idle /\ TakesBlock(path) /\ next_free' = next_free + 1
  BY DEF asvfs_mknod, TakesBlock
<1>2. /\ d \in Block /\ meta[d].block_type = DIRECTORY /\ (d \in made => content[d].dir)
      /\ whole => d \in made \cup {Root}
      /\ next_free = n /\ n \in Block /\ n \notin made
      /\ name \in Name /\ Drive' = Drive /\ UNCHANGED crashes
  BY <1>1, TakesBlockFacts
<1>3. /\ Leads(Drive, <<AddEntry(d, n)>>, t, n + 1, whole) /\ whole \in BOOLEAN
      /\ t.header = n /\ t.made = made /\ t.meta = meta /\ t.content \in [Block -> Contents]
      /\ t.content[d] = Directory(Append(content[d].index, n))
      /\ \A x \in Block : x # d => t.content[x] = content[x]
  BY <1>1, <1>2, DirectoryTold
<1>4. /\ m \in MetaData /\ m.starting_block + m.num_blocks <= LastBlock + 1 /\ m.block_type = FILE
      /\ Named(n, name, FILE) = ToMeta(n, m)
  BY <1>1, <1>2, NamedTyped
<1>5. m.block_type = DIRECTORY => t.content[n].dir
  BY <1>4 DEF FILE, DIRECTORY
<1>6. todo' = <<AddEntry(d, n), ToMeta(n, m), ToHeader(n + 1, {n})>>
  BY <1>2, <1>4 DEF asvfs_mknod
<1> HIDE DEF t, m
<1>7. Append(Append(<<AddEntry(d, n)>>, ToMeta(n, m)), ToHeader(n + 1, {n}))
         = <<AddEntry(d, n), ToMeta(n, m), ToHeader(n + 1, {n})>>
  BY MoreWrites, Zenon
<1>8. u = Parts(n + 1, t.made \cup {n}, [t.meta EXCEPT ![n] = m], t.content)
  OBVIOUS
<1>9. /\ u.header = n + 1 /\ u.made = made \cup {n} /\ u.meta = [meta EXCEPT ![n] = m]
      /\ u.content = t.content
  BY <1>3 DEF Parts
<1> HIDE DEF u
<1>10. Leads(Drive', todo', u, u.header, whole)
  <2>1. Leads(Drive, Append(Append(<<AddEntry(d, n)>>, ToMeta(n, m)), ToHeader(n + 1, {n})),
              u, n + 1, whole)
    BY <1>2, <1>3, <1>4, <1>5, <1>8, BlockTaken
  <2>2. todo' = Append(Append(<<AddEntry(d, n)>>, ToMeta(n, m)), ToHeader(n + 1, {n}))
    BY <1>6, <1>7, Zenon
  <2>3. Drive' = Drive /\ u.header = n + 1
    BY <1>2, <1>9
  <2> QED
    BY <2>1, <2>2, <2>3, Zenon
<1>11. ASSUME whole PROVE Created(Drive, u, d, name, FILE) /\ Whole(u)
  <2>1. WellFormed(Drive) /\ Whole(Drive)
    BY <1>1, <1>11, IdleFacts
  <2>2. /\ u.meta[n] = [meta[n] EXCEPT !.in_use = TRUE, !.name = name, !.block_type = FILE]
        /\ \A x \in Block : x # n => u.meta[x] = meta[x]
    <3>1. meta \in [Block -> MetaData]
      BY <2>1, DriveTyped
    <3>2. u.meta[n] = m
      BY <1>2, <1>9, <3>1
    <3> QED
      BY <1>2, <1>9, <3>1, <3>2 DEF m
  <2>3. d # n
    <3>1. n \in Drive.header .. LastBlock
      BY <1>2, Numbers, DriveFields DEF Block
    <3>2. Drive.meta[n].block_type = UNKNOWN
      BY <2>1, <3>1, FreeBlock
    <3> QED
      BY <1>2, <3>2, DriveFields DEF UNKNOWN, DIRECTORY
  <2>4. Created(Drive, u, d, name, FILE)
    <3>1. u.content[n] = (IF FILE = DIRECTORY THEN Directory(<<>>) ELSE content[n])
      BY <1>2, <1>3, <1>9, <2>3 DEF FILE, DIRECTORY
    <3> QED
      BY <1>3, <1>9, <2>2, <3>1, DriveFields DEF Created
  <2>5. WellFormed(u) /\ ListedOnce(u, n + 1)
    BY <1>9, <1>10, <1>11, LeadsEnds, ZenonT(30)
  <2>6. /\ d \in Drive.made \cup {Root} /\ Drive.meta[d].block_type = DIRECTORY
        /\ Drive.header = n /\ FILE \in {FILE, DIRECTORY}
    BY <1>2, <1>11, DriveFields
  <2> QED
    BY <1>2, <2>1, <2>4, <2>5, <2>6, CreatedWhole
<1>12. Begins(u)
  BY <1>1, <1>2, <1>9, <1>10, <1>11 DEF Begins
<1> QED
  BY <1>11, <1>12

LEMMA DirectoryCreated ==
    ASSUME FsInv, NEW path \in Pathname, asvfs_mkdir(path)
    PROVE  \E u : Begins(u) /\ (crashes = 0 => Created(Drive, u, ParentOf(path), Last(path), DIRECTORY))
<1> DEFINE d == ParentOf(path)
           n == header
           name == Last(path)
           m == [meta[n] EXCEPT !.in_use = TRUE, !.name = name, !.block_type = DIRECTORY]
           r == Reindexed(Drive, d, Append(content[d].index, n))
           t == Parts(r.header, r.made, r.meta, [r.content EXCEPT ![n] = Directory(<<>>)])
           u == Parts(n + 1, t.made \cup {n}, [t.meta EXCEPT ![n] = m], t.content)
           whole == crashes = 0
<1>1. Idle /\ TakesBlock(path) /\ next_free' = next_free + 1
  BY DEF asvfs_mkdir, TakesBlock
<1>2. /\ d \in Block /\ meta[d].block_type = DIRECTORY /\ (d \in made => content[d].dir)
      /\ whole => d \in made \cup {Root}
      /\ next_free = n /\ n \in Block /\ n \notin made
      /\ name \in Name /\ Drive' = Drive /\ UNCHANGED crashes
  BY <1>1, TakesBlockFacts
<1>3. /\ Leads(Drive, <<AddEntry(d, n)>>, r, n + 1, whole) /\ whole \in BOOLEAN
      /\ r.header = n /\ r.made = made /\ r.meta = meta /\ r.content \in [Block -> Contents]
      /\ r.content[d] = Directory(Append(content[d].index, n))
      /\ \A x \in Block : x # d => r.content[x] = content[x]
  BY <1>1, <1>2, DirectoryTold
<1>4. /\ m \in MetaData /\ m.starting_block + m.num_blocks <= LastBlock + 1 /\ m.block_type = DIRECTORY
      /\ Named(n, name, DIRECTORY) = ToMeta(n, m)
  BY <1>1, <1>2, NamedTyped
<1> HIDE DEF r, m
<1>5. t = Parts(r.header, r.made, r.meta, [r.content EXCEPT ![n] = Directory(<<>>)])
  OBVIOUS
<1>6. /\ t.header = n /\ t.made = made /\ t.meta = meta
      /\ t.content = [r.content EXCEPT ![n] = Directory(<<>>)]
  BY <1>3 DEF Parts
<1>7. t.content[n] = Directory(<<>>) /\ \A x \in Block : x # n => t.content[x] = r.content[x]
  BY <1>2, <1>3, <1>6
<1> HIDE DEF t
<1>8. WellFormed(r) /\ (whole => ListedOnce(r, n + 1))
  BY <1>3, LeadsEnds
<1>9. <<>> \in Seq(Block)
  OBVIOUS
<1>10. Follows(r, ToBlock(n, Directory(<<>>)), t)
  BY <1>2, <1>3, <1>5, <1>8, <1>9, WritesBlock, ReindexedParts
<1>11. ASSUME whole
       PROVE  WellFormed(Drive) /\ Whole(Drive) /\ d # n /\ content[n].index = <<>>
  <2>1. WellFormed(Drive) /\ Whole(Drive)
    BY <1>1, <1>11, IdleFacts
  <2>2. n \in Drive.header .. LastBlock
    BY <1>2, Numbers, DriveFields DEF Block
  <2>3. Drive.meta[n].block_type = UNKNOWN /\ Drive.content[n].index = <<>>
    BY <2>1, <2>2, FreeBlock
  <2> QED
    BY <1>2, <2>1, <2>3, DriveFields DEF UNKNOWN, DIRECTORY
<1>12. ASSUME whole PROVE ListedOnce(t, n + 1)
  <2>1. r.content[n].index = <<>>
    BY <1>2, <1>3, <1>11, <1>12
  <2>2. \A x \in Block : t.content[x].index = r.content[x].index
    BY <1>7, <2>1 DEF Directory
  <2> QED
    BY <1>8, <1>12, <2>2, ListedOnceSame
<1>13. Leads(Drive, Append(<<AddEntry(d, n)>>, ToBlock(n, Directory(<<>>))), t, n + 1, whole)
  BY <1>3, <1>10, <1>12, LeadsOn
<1>14. m.block_type = DIRECTORY => t.content[n].dir
  BY <1>7 DEF Directory
<1>15. u = Parts(n + 1, t.made \cup {n}, [t.meta EXCEPT ![n] = m], t.content)
  OBVIOUS
<1>16. /\ u.header = n + 1 /\ u.made = made \cup {n} /\ u.meta = [meta EXCEPT ![n] = m]
       /\ u.content = t.content
  BY <1>6 DEF Parts
<1> HIDE DEF u
<1>17. Leads(Drive', todo', u, u.header, whole)
  <2> DEFINE w == Append(<<AddEntry(d, n)>>, ToBlock(n, Directory(<<>>)))
  <2> HIDE DEF w
  <2>1. Leads(Drive, Append(Append(w, ToMeta(n, m)), ToHeader(n + 1, {n})), u, n + 1, whole)
    BY <1>2, <1>3, <1>4, <1>6, <1>13, <1>14, <1>15, BlockTaken DEF w
  <2>2. todo' = <<AddEntry(d, n), ToBlock(n, Directory(<<>>)), ToMeta(n, m), ToHeader(n + 1, {n})>>
    BY <1>2, <1>4 DEF asvfs_mkdir
  <2>3. Append(Append(w, ToMeta(n, m)), ToHeader(n + 1, {n})) =
           <<AddEntry(d, n), ToBlock(n, Directory(<<>>)), ToMeta(n, m), ToHeader(n + 1, {n})>>
    BY MoreWrites, Zenon DEF w
  <2>4. Drive' = Drive /\ u.header = n + 1
    BY <1>2, <1>16
  <2> QED
    BY <2>1, <2>2, <2>3, <2>4, Zenon
<1>18. ASSUME whole PROVE Created(Drive, u, d, name, DIRECTORY) /\ Whole(u)
  <2>1. WellFormed(Drive) /\ Whole(Drive) /\ d # n
    BY <1>11, <1>18
  <2>2. /\ u.meta[n] = [meta[n] EXCEPT !.in_use = TRUE, !.name = name, !.block_type = DIRECTORY]
        /\ \A x \in Block : x # n => u.meta[x] = meta[x]
    <3>1. meta \in [Block -> MetaData]
      BY <2>1, DriveTyped
    <3>2. u.meta[n] = m
      BY <1>2, <1>16, <3>1
    <3> QED
      BY <1>2, <1>16, <3>1, <3>2 DEF m
  <2>3. Created(Drive, u, d, name, DIRECTORY)
    <3>1. /\ u.content[n] = Directory(<<>>) /\ u.content[d] = Directory(Append(content[d].index, n))
          /\ \A x \in Block : x # n /\ x # d => u.content[x] = content[x]
      BY <1>2, <1>3, <1>7, <1>16, <2>1
    <3> QED
      BY <1>16, <2>2, <3>1, DriveFields DEF Created
  <2>4. WellFormed(u) /\ ListedOnce(u, n + 1)
    BY <1>16, <1>17, <1>18, LeadsEnds, ZenonT(30)
  <2>5. /\ d \in Drive.made \cup {Root} /\ Drive.meta[d].block_type = DIRECTORY
        /\ Drive.header = n /\ DIRECTORY \in {FILE, DIRECTORY}
    BY <1>2, <1>18, DriveFields
  <2> QED
    BY <1>2, <2>1, <2>3, <2>4, <2>5, CreatedWhole
<1>19. Begins(u)
  BY <1>1, <1>2, <1>16, <1>17, <1>18 DEF Begins
<1> QED
  BY <1>18, <1>19

-----------------------------------------------------------------------------
(***************************************************************************)
(* Cutting and writing a file.                                             *)
(***************************************************************************)

\* u has the meta data of s but for names and sizes.
SameExtents(s, u) ==
    \A x \in Block : /\ u.meta[x].in_use = s.meta[x].in_use
                     /\ u.meta[x].block_type = s.meta[x].block_type
                     /\ u.meta[x].starting_block = s.meta[x].starting_block
                     /\ u.meta[x].num_blocks = s.meta[x].num_blocks

LEMMA SameExtentIn ==
    ASSUME NEW s, NEW u, SameExtents(s, u), NEW b \in Block
    PROVE  ExtentIn(u, b) = ExtentIn(s, b)
  BY DEF SameExtents, ExtentIn

\* The blocks of a file or directory are blocks of the drive.
LEMMA ExtentTyped ==
    ASSUME NEW s, WellFormed(s), NEW b \in Block
    PROVE  /\ ExtentIn(s, b) \subseteq Block
           /\ s.meta[b].starting_block \in Nat \ {0} /\ s.meta[b].num_blocks \in Nat
           /\ s.meta[b].starting_block + s.meta[b].num_blocks <= LastBlock + 1
<1>1. s.meta[b] \in MetaData /\ s.meta[b].starting_block + s.meta[b].num_blocks <= LastBlock + 1
  BY DEF WellFormed
<1>2. s.meta[b].starting_block \in Nat \ {0} /\ s.meta[b].num_blocks \in Nat
  BY <1>1, MetaFits, Numbers
<1>3. s.meta[b].starting_block .. s.meta[b].starting_block + s.meta[b].num_blocks - 1 \subseteq Block
  <2> DEFINE k == s.meta[b].starting_block
             l == s.meta[b].num_blocks
  <2>1. k \in Nat \ {0} /\ l \in Nat /\ k + l <= LastBlock + 1 /\ LastBlock \in Nat
    BY <1>1, <1>2, Numbers
  <2> HIDE DEF k, l
  <2>2. k .. k + l - 1 \subseteq Block
    BY <2>1 DEF Block
  <2> QED
    BY <2>2 DEF k, l
<1> QED
  BY <1>1, <1>2, <1>3 DEF ExtentIn

\* The blocks of a file hold no directory.
LEMMA ExtentOfFile ==
    ASSUME NEW s, WellFormed(s), Whole(s), NEW f \in Block, s.meta[f].block_type = FILE
    PROVE  /\ s.meta[f].in_use
           /\ \A x \in ExtentIn(s, f) : x \in Block /\ ~s.content[x].dir /\ s.content[x].index = <<>>
<1>1. s.meta[f].in_use
  BY DEF Whole, FILE, UNKNOWN
<1>2. ASSUME NEW x \in ExtentIn(s, f) PROVE x \in Block /\ ~s.content[x].dir /\ s.content[x].index = <<>>
  <2>1. x \in Block
    BY ExtentTyped
  <2>2. x \in ExtentIn(s, x)
    BY DEF ExtentIn
  <2>3. x # f => ~s.meta[x].in_use
    BY <1>1, <2>1, <2>2, UsedBlock
  <2>4. s.meta[x].block_type # DIRECTORY
    BY <2>1, <2>3 DEF Whole, FILE, UNKNOWN, DIRECTORY
  <2> QED
    BY <2>1, <2>4 DEF Whole
<1> QED
  BY <1>1, <1>2

\* A drive on which names and sizes, and the data of a file, have changed.
LEMMA WrittenWhole ==
    ASSUME NEW s, WellFormed(s), Whole(s), NEW u, u.header = s.header, u.made = s.made,
           SameExtents(s, u), NEW f \in Block,
           \A x \in Block : \/ u.content[x] = s.content[x]
                            \/ x = f /\ s.meta[f].block_type = FILE /\ u.content[x] = Data(f)
    PROVE  Whole(u) /\ \A x \in Block : u.content[x].index = s.content[x].index
<1>1. ASSUME NEW x \in Block
      PROVE  /\ (u.content[x].dir <=> s.content[x].dir) /\ u.content[x].index = s.content[x].index
             /\ \/ u.content[x].by = s.content[x].by
                \/ x = f /\ s.meta[f].block_type = FILE /\ u.content[x].by = f
  <2>1. CASE u.content[x] = s.content[x]
    BY <2>1
  <2>2. CASE x = f /\ s.meta[f].block_type = FILE /\ u.content[x] = Data(f)
    <3>1. f \in ExtentIn(s, f)
      BY DEF ExtentIn
    <3>2. ~s.content[f].dir /\ s.content[f].index = <<>>
      BY <2>2, <3>1, ExtentOfFile
    <3> QED
      BY <2>2, <3>2 DEF Data
  <2> QED
    BY <2>1, <2>2
<1>2. /\ \A x \in Block : u.meta[x].in_use = s.meta[x].in_use
      /\ \A x \in Block : u.meta[x].block_type = s.meta[x].block_type
      /\ \A x \in Block : u.meta[x].starting_block = s.meta[x].starting_block
      /\ \A x \in Block : u.meta[x].num_blocks = s.meta[x].num_blocks
  BY DEF SameExtents
<1>3. \A b \in Block :
          /\ u.content[b].dir <=> u.meta[b].block_type = DIRECTORY
          /\ ~u.content[b].dir => u.content[b].index = <<>>
          /\ ~u.meta[b].in_use => u.meta[b].block_type = UNKNOWN
  BY <1>1, <1>2 DEF Whole
<1>4. ASSUME NEW b \in u.header .. LastBlock
      PROVE  /\ ~u.meta[b].in_use /\ u.content[b].by = 0 /\ u.meta[b].starting_block = b
             /\ u.meta[b].num_blocks <= 1
  <2>1. b \in s.header .. LastBlock
    OBVIOUS
  <2>2. b \in Block /\ s.meta[b].block_type = UNKNOWN
    BY <2>1, FreeBlock
  <2>3. ~s.meta[b].in_use /\ s.content[b].by = 0 /\ s.meta[b].starting_block = b /\ s.meta[b].num_blocks <= 1
    BY <2>1 DEF Whole
  <2> QED
    BY <1>1, <1>2, <2>2, <2>3 DEF UNKNOWN, FILE
<1>5. ASSUME NEW b \in Block, u.meta[b].in_use
      PROVE  /\ \A x \in ExtentIn(u, b) : x < u.header /\ u.content[x].by \in {0, b}
             /\ \A c \in Block : u.meta[c].in_use /\ b # c => ExtentIn(u, b) \cap ExtentIn(u, c) = {}
  <2>1. s.meta[b].in_use /\ ExtentIn(u, b) = ExtentIn(s, b)
    BY <1>2, <1>5, SameExtentIn
  <2>2. ASSUME NEW x \in ExtentIn(s, b) PROVE x < u.header /\ u.content[x].by \in {0, b}
    <3>1. x < s.header /\ s.content[x].by \in {0, b} /\ x \in Block
      BY <2>1, UsedBlock, ExtentTyped
    <3>2. CASE u.content[x].by = s.content[x].by
      BY <3>1, <3>2
    <3>3. CASE x = f /\ s.meta[f].block_type = FILE /\ u.content[x].by = f
      <4>1. f \in ExtentIn(s, f) /\ s.meta[f].in_use
        BY <3>3, ExtentOfFile DEF ExtentIn
      <4>2. b = f
        BY <2>1, <3>3, <4>1, UsedBlock
      <4> QED
        BY <3>1, <3>3, <4>2
    <3> QED
      BY <1>1, <3>1, <3>2, <3>3
  <2>3. ASSUME NEW c \in Block, u.meta[c].in_use, b # c PROVE ExtentIn(u, b) \cap ExtentIn(u, c) = {}
    <3>1. s.meta[c].in_use /\ ExtentIn(u, c) = ExtentIn(s, c)
      BY <1>2, <2>3, SameExtentIn
    <3> QED
      BY <2>1, <2>3, <3>1, UsedBlock
  <2> QED
    BY <2>1, <2>2, <2>3
<1>6. u.meta[Root].in_use /\ u.meta[Root].block_type = DIRECTORY
  BY <1>2, Numbers DEF Whole
<1>7. \A b \in u.made : u.meta[b].in_use /\ u.meta[b].block_type # UNKNOWN
  <2>1. s.made \subseteq Block
    BY Numbers DEF WellFormed, Block
  <2> QED
    BY <1>2, <2>1 DEF Whole
<1>8. \A d \in Block : \A i \in DOMAIN u.content[d].index : u.content[d].index[i] \in u.made
  BY <1>1 DEF Whole
<1>9. ListedOnce(u, u.header)
  BY <1>1, ListedOnceSame DEF Whole
<1>10. Rooted(u)
  <2>1. \A d \in Block : u.content[d].index = s.content[d].index
    BY <1>1
  <2>2. Rooted(s)
    BY DEF Whole
  <2> QED
    BY <2>1, <2>2 DEF Rooted
<1> QED
  BY <1>1, <1>3, <1>4, <1>5, <1>6, <1>7, <1>8, <1>9, <1>10 DEF Whole

\* u is s with file f moved to the end of the drive, where it has taken so many blocks.
MovedTo(s, u, f, taken) ==
    LET n == s.header
        k == s.meta[f].num_blocks
    IN  /\ u.header = n + taken /\ u.made = s.made
        /\ \A x \in Block : /\ u.meta[x].in_use = s.meta[x].in_use
                            /\ u.meta[x].block_type = s.meta[x].block_type
                            /\ x # f => /\ u.meta[x].starting_block = s.meta[x].starting_block
                                        /\ u.meta[x].num_blocks = s.meta[x].num_blocks
        /\ u.meta[f].starting_block = n /\ u.meta[f].num_blocks = taken
        /\ \A x \in Block : u.content[x] = IF x \in n .. n + k - 1
                                           THEN s.content[s.meta[f].starting_block + (x - n)]
                                           ELSE s.content[x]

\* The blocks that are copied hold no directory, and those that are taken neither.
LEMMA CopiedBlocks ==
    ASSUME NEW s, WellFormed(s), Whole(s), NEW f \in Block, s.meta[f].block_type = FILE,
           NEW taken \in Nat, s.meta[f].num_blocks < taken, s.header + taken <= LastBlock + 1,
           NEW x \in s.header .. s.header + s.meta[f].num_blocks - 1
    PROVE  LET y == s.meta[f].starting_block + (x - s.header)
           IN  /\ x \in s.header .. LastBlock /\ x \in Block /\ y \in ExtentIn(s, f) /\ y \in Block
               /\ ~s.content[y].dir /\ s.content[y].index = <<>> /\ s.content[y].by \in {0, f}
               /\ ~s.content[x].dir /\ s.content[x].index = <<>> /\ s.meta[x].block_type = UNKNOWN
<1> DEFINE n == s.header
           k == s.meta[f].num_blocks
           b == s.meta[f].starting_block
           y == b + (x - n)
<1>1. k \in Nat /\ b \in Nat \ {0} /\ b + k <= LastBlock + 1 /\ LastBlock \in Nat
  BY ExtentTyped, Numbers
<1>2. n \in Nat
  BY <1>1 DEF WellFormed
<1>3. k < taken /\ n + taken <= LastBlock + 1 /\ x \in n .. n + k - 1
  OBVIOUS
<1>4. ExtentIn(s, f) = {f} \cup b .. b + k - 1
  BY DEF ExtentIn
<1> HIDE DEF n, k, b
<1>5. x \in n .. LastBlock /\ y \in b .. b + k - 1
  BY <1>1, <1>2, <1>3
<1>6. y \in ExtentIn(s, f)
  BY <1>4, <1>5
<1> HIDE DEF y
<1>7. x \in Block /\ ~s.content[x].dir /\ s.content[x].index = <<>> /\ s.meta[x].block_type = UNKNOWN
  BY <1>5, FreeBlock DEF n
<1>8. s.meta[f].in_use /\ y \in Block /\ ~s.content[y].dir /\ s.content[y].index = <<>>
  BY <1>6, ExtentOfFile
<1>9. s.content[y].by \in {0, f}
  BY <1>6, <1>8, UsedBlock
<1> QED
  BY <1>5, <1>6, <1>7, <1>8, <1>9 DEF y, b, n, k

LEMMA MovedWhole ==
    ASSUME NEW s, WellFormed(s), Whole(s), NEW f \in Block, s.meta[f].block_type = FILE,
           NEW taken \in Nat, s.meta[f].num_blocks < taken, s.header + taken <= LastBlock + 1,
           NEW u, MovedTo(s, u, f, taken)
    PROVE  Whole(u) /\ \A x \in Block : u.content[x].index = s.content[x].index
<1> DEFINE n == s.header
           k == s.meta[f].num_blocks
           Copied(x) == x \in n .. n + k - 1
           From(x) == s.meta[f].starting_block + (x - n)
<1>1. /\ u.header = n + taken /\ u.made = s.made
      /\ \A x \in Block : /\ u.meta[x].in_use = s.meta[x].in_use
                          /\ u.meta[x].block_type = s.meta[x].block_type
                          /\ x # f => /\ u.meta[x].starting_block = s.meta[x].starting_block
                                      /\ u.meta[x].num_blocks = s.meta[x].num_blocks
      /\ u.meta[f].starting_block = n /\ u.meta[f].num_blocks = taken
      /\ \A x \in Block : u.content[x] = IF Copied(x) THEN s.content[From(x)] ELSE s.content[x]
  BY DEF MovedTo
<1>2. /\ k \in Nat /\ n \in Nat /\ k < taken /\ n + taken <= LastBlock + 1 /\ LastBlock \in Nat
  BY ExtentTyped, Numbers DEF WellFormed
<1>3. ASSUME NEW x, Copied(x)
      PROVE  /\ x \in n .. LastBlock /\ x \in Block /\ From(x) \in Block
             /\ ~s.content[From(x)].dir /\ s.content[From(x)].index = <<>>
             /\ s.content[From(x)].by \in {0, f}
             /\ ~s.content[x].dir /\ s.content[x].index = <<>> /\ s.meta[x].block_type = UNKNOWN
  BY <1>3, CopiedBlocks
<1> HIDE DEF From
<1>4. ASSUME NEW x \in Block
      PROVE  /\ (u.content[x].dir <=> s.content[x].dir) /\ u.content[x].index = s.content[x].index
             /\ ~Copied(x) => u.content[x] = s.content[x]
             /\ Copied(x) => u.content[x].by \in {0, f}
  <2>1. CASE Copied(x)
    BY <1>1, <1>3, <2>1
  <2>2. CASE ~Copied(x)
    BY <1>1, <2>2
  <2> QED
    BY <2>1, <2>2
<1>5. \A b \in Block :
          /\ u.content[b].dir <=> u.meta[b].block_type = DIRECTORY
          /\ ~u.content[b].dir => u.content[b].index = <<>>
          /\ ~u.meta[b].in_use => u.meta[b].block_type = UNKNOWN
  BY <1>1, <1>4 DEF Whole
<1>6. s.meta[f].in_use /\ f \in ExtentIn(s, f) /\ f < n /\ f \in Nat
  BY ExtentOfFile, UsedBlock, Numbers
<1>7. ASSUME NEW b \in u.header .. LastBlock
      PROVE  /\ ~u.meta[b].in_use /\ u.content[b].by = 0 /\ u.meta[b].starting_block = b
             /\ u.meta[b].num_blocks <= 1
  <2>1. b \in n .. LastBlock /\ ~Copied(b) /\ b # f
    BY <1>1, <1>2, <1>6
  <2>2. b \in Block
    BY <2>1, FreeBlock
  <2>3. ~s.meta[b].in_use /\ s.content[b].by = 0 /\ s.meta[b].starting_block = b /\ s.meta[b].num_blocks <= 1
    BY <2>1 DEF Whole
  <2> QED
    BY <1>1, <1>4, <2>1, <2>2, <2>3
<1>8. ASSUME NEW b \in Block, s.meta[b].in_use
      PROVE  /\ b # f => ExtentIn(u, b) = ExtentIn(s, b)
             /\ \A x \in ExtentIn(s, b) : x < n /\ x \in Nat /\ x \in Block /\ s.content[x].by \in {0, b}
  <2>1. b # f => ExtentIn(u, b) = ExtentIn(s, b)
    BY <1>1 DEF ExtentIn
  <2>2. \A x \in ExtentIn(s, b) : x \in Block
    BY ExtentTyped
  <2>3. \A x \in Block : x \in Nat
    BY Numbers
  <2>4. \A x \in ExtentIn(s, b) : x < n /\ s.content[x].by \in {0, b}
    BY <1>8, UsedBlock
  <2> QED
    BY <2>1, <2>2, <2>3, <2>4
<1>9. ExtentIn(u, f) = {f} \cup n .. n + taken - 1
  BY <1>1 DEF ExtentIn
<1>10. ASSUME NEW x \in n .. n + taken - 1
       PROVE  x < u.header /\ u.content[x].by \in {0, f}
  <2>1. x < u.header /\ x \in n .. LastBlock
    BY <1>1, <1>2
  <2>2. x \in Block /\ s.content[x].by = 0
    BY <2>1, FreeBlock
  <2> QED
    BY <1>4, <2>1, <2>2
<1>11. u.content[f] = s.content[f] /\ s.content[f].by \in {0, f} /\ f < u.header
  <2>1. ~Copied(f) /\ f < n + taken
    BY <1>2, <1>6
  <2>2. s.content[f].by \in {0, f}
    BY <1>6, <1>8
  <2> QED
    BY <1>1, <1>4, <2>1, <2>2
<1>12. ASSUME NEW c \in Block, s.meta[c].in_use, c # f PROVE ExtentIn(u, f) \cap ExtentIn(u, c) = {}
  <2>1. ExtentIn(u, c) = ExtentIn(s, c) /\ \A x \in ExtentIn(s, c) : x < n /\ x \in Nat
    BY <1>8, <1>12
  <2>2. f \notin ExtentIn(s, c)
    BY <1>6, <1>12, UsedBlock
  <2>3. ASSUME NEW x \in ExtentIn(s, c) PROVE x \notin n .. n + taken - 1
    BY <1>2, <2>1
  <2> QED
    BY <1>9, <2>1, <2>2, <2>3
<1>13. ASSUME NEW b \in Block, u.meta[b].in_use
       PROVE  /\ \A x \in ExtentIn(u, b) : x < u.header /\ u.content[x].by \in {0, b}
              /\ \A c \in Block : u.meta[c].in_use /\ b # c => ExtentIn(u, b) \cap ExtentIn(u, c) = {}
  <2>1. s.meta[b].in_use
    BY <1>1, <1>13
  <2>2. CASE b = f
    BY <1>1, <1>9, <1>10, <1>11, <1>12, <2>2
  <2>3. CASE b # f
    <3>1. ASSUME NEW x \in ExtentIn(s, b) PROVE x < u.header /\ u.content[x].by \in {0, b}
      <4>1. x < n /\ x \in Nat /\ x \in Block /\ s.content[x].by \in {0, b}
        BY <1>8, <2>1
      <4>2. ~Copied(x) /\ x < n + taken
        BY <1>2, <4>1
      <4> QED
        BY <1>1, <1>4, <4>1, <4>2
    <3>2. ASSUME NEW c \in Block, u.meta[c].in_use, b # c PROVE ExtentIn(u, b) \cap ExtentIn(u, c) = {}
      <4>1. s.meta[c].in_use
        BY <1>1, <3>2
      <4>2. CASE c = f
        BY <1>12, <2>1, <2>3, <4>2
      <4>3. CASE c # f
        <5>1. ExtentIn(s, b) \cap ExtentIn(s, c) = {}
          BY <2>1, <3>2, <4>1, UsedBlock
        <5> QED
          BY <1>8, <2>1, <2>3, <4>1, <4>3, <5>1
      <4> QED
        BY <4>2, <4>3
    <3> QED
      BY <1>8, <2>1, <2>3, <3>1, <3>2
  <2> QED
    BY <2>2, <2>3
<1>14. u.meta[Root].in_use /\ u.meta[Root].block_type = DIRECTORY
  BY <1>1, Numbers DEF Whole
<1>15. \A b \in u.made : u.meta[b].in_use /\ u.meta[b].block_type # UNKNOWN
  <2>1. s.made \subseteq Block
    BY Numbers DEF WellFormed, Block
  <2> QED
    BY <1>1, <2>1 DEF Whole
<1>16. \A d \in Block : \A i \in DOMAIN u.content[d].index : u.content[d].index[i] \in u.made
  BY <1>1, <1>4 DEF Whole
<1>17. ListedOnce(u, u.header)
  <2>1. ListedOnce(s, n)
    BY DEF Whole
  <2>2. u.header \in Int /\ n \in Int /\ n <= u.header
    BY <1>1, <1>2
  <2>3. ListedOnce(s, u.header)
    <3> HIDE DEF n
    <3> QED
      BY <2>1, <2>2, ListedOnceOn
  <2> QED
    BY <1>4, <2>3, ListedOnceSame
<1>18. Rooted(u)
  <2>1. \A d \in Block : u.content[d].index = s.content[d].index
    BY <1>4
  <2>2. Rooted(s)
    BY DEF Whole
  <2> QED
    BY <1>1, <2>1, <2>2 DEF Rooted
<1> QED
  BY <1>4, <1>5, <1>7, <1>13, <1>14, <1>15, <1>16, <1>17, <1>18 DEF Whole

\* The first i copies, and the drive after them.
Copies(f, i) == [j \in 1 .. i |-> ToBlock(header + j - 1, content[meta[f].starting_block + j - 1])]
Copied(f, i) ==
    Parts(header, made, meta,
          [x \in Block |-> IF x \in header .. header + i - 1
                           THEN content[meta[f].starting_block + (x - header)] ELSE content[x]])

LEMMA OneCopyMore ==
    ASSUME NEW f, NEW i \in Nat \ {0}, Copies(f, i - 1) \in Seq(Write),
           NEW a, a = ToBlock(header + i - 1, content[meta[f].starting_block + i - 1]), a \in Write
    PROVE  Copies(f, i) = Append(Copies(f, i - 1), a)
<1> DEFINE v == Copies(f, i - 1)
           w == Copies(f, i)
           C(j) == ToBlock(header + j - 1, content[meta[f].starting_block + j - 1])
<1> HIDE DEF C
<1>1. v = [j \in 1 .. i - 1 |-> C(j)] /\ w = [j \in 1 .. i |-> C(j)] /\ a = C(i)
  BY DEF Copies, C
<1>2. v \in Seq(Write)
  OBVIOUS
<1> HIDE DEF v, w
<1>3. Len(v) = i - 1
  BY <1>1, <1>2
<1>4. /\ Append(v, a) \in Seq(Write) /\ Len(Append(v, a)) = i
      /\ Append(v, a)[i] = a /\ \A j \in 1 .. i - 1 : Append(v, a)[j] = v[j]
  <2>1. (i - 1) + 1 = i
    OBVIOUS
  <2> QED
    BY <1>2, <1>3, <2>1, Appended
<1>5. \A j \in 1 .. i : Append(v, a)[j] = C(j)
  <2>1. \A j \in 1 .. i : j = i \/ j \in 1 .. i - 1
    OBVIOUS
  <2>2. \A j \in 1 .. i - 1 : v[j] = C(j)
    BY <1>1
  <2> QED
    BY <1>1, <1>4, <2>1, <2>2
<1>6. Append(v, a) = [j \in 1 .. i |-> Append(v, a)[j]]
  <2>1. DOMAIN Append(v, a) = 1 .. i /\ Append(v, a) \in [1 .. i -> Write]
    BY <1>4, LenProperties
  <2> QED
    BY <2>1
<1>7. Append(v, a) = w
  BY <1>1, <1>5, <1>6
<1> QED
  BY <1>7 DEF v, w

LEMMA CopiesLead ==
    ASSUME FsInv, Idle, NEW f \in Block, meta[f].block_type = FILE,
           NEW taken \in Nat, meta[f].num_blocks < taken, header + taken <= LastBlock + 1
    PROVE  LET k == meta[f].num_blocks
           IN  Leads(Drive, Copies(f, k), Copied(f, k), header + taken, crashes = 0)
<1> DEFINE k == meta[f].num_blocks
           b == meta[f].starting_block
           n == header
           whole == crashes = 0
           S == {i \in 0 .. k : Leads(Drive, Copies(f, i), Copied(f, i), n + taken, whole)}
<1>1. /\ WellFormed(Drive) /\ (whole => Whole(Drive) /\ ListedOnce(Drive, n)) /\ whole \in BOOLEAN
  BY IdleFacts
<1>2. k \in Nat /\ b \in Nat \ {0} /\ b + k <= LastBlock + 1
  BY <1>1, ExtentTyped, DriveFields
<1>3. /\ n \in Nat /\ n \in 2 .. LastBlock + 1 /\ LastBlock \in Nat /\ made \subseteq 2 .. n - 1
      /\ content \in [Block -> Contents]
  BY <1>1, Numbers, DriveFields DEF WellFormed
<1>4. k < taken /\ n + taken <= LastBlock + 1
  OBVIOUS
<1>5. whole => ListedOnce(Drive, n + taken)
  <2>1. n + taken \in Int /\ n \in Int /\ n <= n + taken
    BY <1>3
  <2> HIDE DEF n
  <2> QED
    BY <1>1, <2>1, ListedOnceOn
<1>6. 0 \in S
  <2>1. Copies(f, 0) = <<>>
    BY DEF Copies
  <2>2. Copied(f, 0) = Drive
    <3>1. \A x \in Block : x \notin n .. n + 0 - 1
      BY <1>3
    <3>2. [x \in Block |-> IF x \in n .. n + 0 - 1 THEN content[b + (x - n)] ELSE content[x]] = content
      <4> HIDE DEF Contents
      <4> QED
        BY <1>3, <3>1
    <3> HIDE DEF n, b
    <3> QED
      BY <3>2 DEF Copied, Parts, Drive, n, b
  <2>3. Leads(Drive, <<>>, Drive, n + taken, whole)
    BY <1>1, <1>5, NoWrites
  <2> QED
    BY <1>2, <2>1, <2>2, <2>3
<1>7. ASSUME NEW i \in 1 .. k, i - 1 \in S PROVE i \in S
  <2> DEFINE t == Copied(f, i - 1)
             u == Copied(f, i)
             x == n + i - 1
             y == b + i - 1
             a == ToBlock(x, content[y])
  <2>1. x \in n .. LastBlock /\ x \in Block /\ y \in Block /\ i \in Nat \ {0} /\ x \in Nat
    BY <1>2, <1>3, <1>4, SMTT(30) DEF Block
  <2>2. content[y] \in Contents
    BY <1>3, <2>1
  <2>3. a \in Write
    BY <2>1, <2>2 DEF ToBlock, Write
  <2>4. Leads(Drive, Copies(f, i - 1), t, n + taken, whole)
    BY <1>7
  <2>5. Copies(f, i) = Append(Copies(f, i - 1), a)
    <3>1. Copies(f, i - 1) \in Seq(Write)
      BY <2>4, LeadsEnds
    <3> QED
      BY <2>1, <2>3, <3>1, OneCopyMore
  <2>6. /\ t.header = n /\ t.made = made /\ t.meta = meta
        /\ t.content = [z \in Block |-> IF z \in n .. n + (i - 1) - 1 THEN content[b + (z - n)]
                                        ELSE content[z]]
        /\ u.header = n /\ u.made = made /\ u.meta = meta
        /\ u.content = [z \in Block |-> IF z \in n .. n + i - 1 THEN content[b + (z - n)]
                                        ELSE content[z]]
    BY DEF Copied, Parts
  <2>7. u.content = [t.content EXCEPT ![x] = content[y]]
    <3>1. ASSUME NEW z \in Block PROVE u.content[z] = [t.content EXCEPT ![x] = content[y]][z]
      <4>1. CASE z = x
        <5>1. z \in n .. n + i - 1 /\ b + (z - n) = y
          BY <1>2, <1>3, <2>1, <4>1
        <5>2. u.content[z] = content[y]
          BY <2>6, <5>1
        <5>3. [t.content EXCEPT ![x] = content[y]][z] = content[y]
          BY <2>1, <2>6, <4>1
        <5> QED
          BY <5>2, <5>3
      <4>2. CASE z # x
        <5>1. z \in Nat
          BY Numbers
        <5>2. z \in n .. n + i - 1 <=> z \in n .. n + (i - 1) - 1
          BY <1>3, <2>1, <4>2, <5>1
        <5>3. [t.content EXCEPT ![x] = content[y]][z] = t.content[z]
          BY <2>1, <2>6, <4>2
        <5> HIDE DEF t, u, x, y
        <5>4. u.content[z] = t.content[z]
          BY <2>6, <5>2
        <5> QED
          BY <5>3, <5>4
      <4> QED
        BY <4>1, <4>2
    <3> DEFINE v == [t.content EXCEPT ![x] = content[y]]
    <3>2. v = [z \in Block |-> v[z]] /\ u.content = [z \in Block |-> u.content[z]]
      BY <2>6
    <3> HIDE DEF v, u, t, x, y
    <3>3. \A z \in Block : u.content[z] = v[z]
      BY <3>1 DEF v
    <3> QED
      BY <3>2, <3>3 DEF v
  <2>8. u = Parts(t.header, t.made, t.meta, [t.content EXCEPT ![x] = content[y]])
    <3>1. u = Parts(u.header, u.made, u.meta, u.content)
      BY DEF Copied, Parts
    <3> HIDE DEF u, t, x, y
    <3> QED
      BY <2>6, <2>7, <3>1
  <2>9. x \notin t.made
    <3>1. x \notin 2 .. n - 1
      BY <1>3, <2>1
    <3> QED
      BY <1>3, <2>6, <3>1
  <2>10. WellFormed(t) /\ (whole => ListedOnce(t, n + taken))
    BY <1>1, <2>4, LeadsEnds
  <2> HIDE DEF t, u, x, y
  <2>11. Follows(t, a, u)
    BY <2>1, <2>2, <2>8, <2>9, <2>10, WritesBlock
  <2>12. ASSUME whole PROVE ListedOnce(u, n + taken)
    <3>1. content[x].index = <<>> /\ content[y].index = <<>>
      <4>1. x \in n .. n + k - 1 /\ y = b + (x - n)
        BY <1>2, <1>3, <2>1 DEF x, y
      <4>2. Drive.content[x].index = <<>> /\ Drive.content[y].index = <<>>
        BY <1>1, <1>4, <2>12, <4>1, CopiedBlocks, DriveFields
      <4> QED
        BY <4>2, DriveFields
    <3>2. t.content[x] = content[x]
      <4>1. x \notin n .. n + (i - 1) - 1
        BY <1>3, <2>1 DEF x
      <4> QED
        BY <2>1, <2>6, <4>1
    <3>3. \A z \in Block : u.content[z].index = t.content[z].index
      BY <2>1, <2>6, <2>7, <3>1, <3>2
    <3> QED
      BY <2>10, <2>12, <3>3, ListedOnceSame
  <2>13. Leads(Drive, Append(Copies(f, i - 1), a), u, n + taken, whole)
    BY <1>1, <2>4, <2>11, <2>12, LeadsOn
  <2>14. i \in 0 .. k
    BY <1>2
  <2> QED
    BY <2>5, <2>13, <2>14 DEF u
<1> HIDE DEF S
<1>8. \A i \in 0 .. k : i \in S
  BY <1>2, <1>6, <1>7, CountingUp
<1>9. k \in S
  BY <1>2, <1>8
<1> QED
  BY <1>9 DEF S

\* Three writes behind a list of writes.
LEMMA ThreeMore ==
    ASSUME NEW S, NEW w \in Seq(S), NEW a \in S, NEW b \in S, NEW c \in S
    PROVE  w \o <<a, b, c>> = Append(Append(Append(w, a), b), c)
<1>1. <<a, b, c>> \in Seq(S) /\ Len(<<a, b, c>>) = 3 /\ <<a, b, c>>[1] = a /\ <<a, b, c>>[2] = b /\ <<a, b, c>>[3] = c
  OBVIOUS
<1> DEFINE v == <<a, b, c>>
           l == Append(w, a)
           m == Append(l, b)
           n == Append(m, c)
           k == Len(w)
<1> HIDE DEF v, l, m, n
<1>2. l \in Seq(S) /\ Len(l) = k + 1 /\ k \in Nat /\ l[k + 1] = a /\ \A i \in 1 .. k : l[i] = w[i]
  BY Appended DEF l
<1>3. m \in Seq(S) /\ Len(m) = k + 1 + 1 /\ m[k + 1 + 1] = b /\ \A i \in 1 .. k + 1 : m[i] = l[i]
  BY <1>2, Appended DEF m
<1>4. n \in Seq(S) /\ Len(n) = k + 1 + 1 + 1 /\ n[k + 1 + 1 + 1] = c /\ \A i \in 1 .. k + 1 + 1 : n[i] = m[i]
  BY <1>3, Appended DEF n
<1>5. v \in Seq(S) /\ Len(v) = 3 /\ v[1] = a /\ v[2] = b /\ v[3] = c
  BY <1>1 DEF v
<1>6. /\ w \o v \in Seq(S) /\ Len(w \o v) = k + 3
      /\ \A i \in 1 .. k + 3 : (w \o v)[i] = IF i <= k THEN w[i] ELSE v[i - k]
  <2>1. /\ w \o v \in Seq(S) /\ Len(w \o v) = Len(w) + Len(v)
        /\ \A i \in 1 .. Len(w) + Len(v) : (w \o v)[i] = IF i <= Len(w) THEN w[i] ELSE v[i - Len(w)]
    BY <1>5, ConcatProperties
  <2> QED
    BY <1>5, <2>1
<1> HIDE DEF k
<1>7. ASSUME NEW i \in 1 .. k + 3 PROVE (w \o v)[i] = n[i]
  <2>1. CASE i \in 1 .. k
    BY <1>2, <1>3, <1>4, <1>6, <2>1
  <2>2. CASE i = k + 1
    BY <1>2, <1>3, <1>4, <1>5, <1>6, <2>2
  <2>3. CASE i = k + 2
    BY <1>2, <1>3, <1>4, <1>5, <1>6, <2>3
  <2>4. CASE i = k + 3
    <3>1. k + 3 \in 1 .. k + 3 /\ ~(k + 3 <= k) /\ (k + 3) - k = 3 /\ k + 1 + 1 + 1 = k + 3
      BY <1>2
    <3>2. (w \o v)[k + 3] = v[3]
      BY <1>6, <3>1
    <3>3. n[k + 3] = c
      BY <1>4, <3>1
    <3> QED
      BY <1>5, <2>4, <3>2, <3>3
  <2>5. i \in 1 .. k \/ i = k + 1 \/ i = k + 2 \/ i = k + 3
    <3>1. k \in Nat
      BY <1>2
    <3> QED
      BY <3>1
  <2> QED
    BY <2>1, <2>2, <2>3, <2>4, <2>5
<1>8. Len(n) = k + 3
  BY <1>2, <1>4
<1>9. w \o v = n
  BY <1>4, <1>6, <1>7, <1>8, SeqEqual
<1> QED
  BY <1>9 DEF v, l, m, n

\* What is the same after a file was cut or written.
SameTree(s, u) ==
    /\ u.made = s.made
    /\ \A x \in Block : u.meta[x].name = s.meta[x].name /\ u.meta[x].block_type = s.meta[x].block_type

LEMMA HeaderOnWritten ==
    ASSUME NEW s, WellFormed(s), NEW n \in s.header .. LastBlock + 1,
           NEW u, u = Parts(n, s.made \cup {}, s.meta, s.content)
    PROVE  Follows(s, ToHeader(n, {}), u) /\ \A l : ListedOnce(s, l) => ListedOnce(u, l)
<1> DEFINE done == {}
<1>1. done \in SUBSET Block /\ done \subseteq 2 .. n - 1
  OBVIOUS
<1>2. \A c \in done : s.meta[c].block_type = DIRECTORY => s.content[c].dir
  OBVIOUS
<1>3. u = Parts(n, s.made \cup done, s.meta, s.content)
  OBVIOUS
<1> HIDE DEF done
<1>4. Follows(s, ToHeader(n, done), u) /\ \A l : ListedOnce(s, l) => ListedOnce(u, l)
  BY <1>1, <1>2, <1>3, WritesHeader
<1> QED
  BY <1>4 DEF done

LEMMA FileMoves ==
    ASSUME FsInv, Idle, NEW f \in Block, meta[f].block_type = FILE, NEW length \in Nat,
           HasRoom(f, length), Moves(f, length), Blocks(length) \in Nat
    PROVE  \E u : /\ Leads(Drive, TruncateWrites(f, length), u, u.header, crashes = 0)
                  /\ u.header = next_free + Taken(f, length) /\ SameTree(Drive, u)
                  /\ crashes = 0 => /\ Whole(u)
                                    /\ \A x \in Block : u.content[x].index = content[x].index
<1> DEFINE n == header
           k == meta[f].num_blocks
           T == Blocks(length)
           moved == [meta[f] EXCEPT !.file_size = length, !.starting_block = n, !.num_blocks = T]
           r == Copied(f, k)
           t == Parts(n + T, r.made \cup {}, r.meta, r.content)
           u == Parts(t.header, t.made, [t.meta EXCEPT ![f] = moved], t.content)
           whole == crashes = 0
           a == ToHeader(n + T, {})
           c == ToMeta(f, moved)
<1>1. /\ WellFormed(Drive) /\ (whole => Whole(Drive) /\ ListedOnce(Drive, n)) /\ whole \in BOOLEAN
      /\ next_free = n
  BY IdleFacts
<1>2. k \in Nat /\ meta[f] \in MetaData /\ meta \in [Block -> MetaData]
  BY <1>1, ExtentTyped, DriveFields DEF WellFormed
<1>3. n \in Nat /\ n \in 2 .. LastBlock + 1 /\ LastBlock \in Nat
  BY <1>1, Numbers, DriveFields DEF WellFormed
<1>4. T \in Nat /\ k < T /\ n + T <= LastBlock + 1 /\ Taken(f, length) = T
  BY <1>1 DEF Moves, HasRoom, Taken
<1> HIDE DEF T
<1>5. n \in Block
  BY <1>2, <1>3, <1>4 DEF Block
<1>6. /\ moved \in MetaData /\ moved.starting_block = n /\ moved.num_blocks = T
      /\ moved.block_type = FILE /\ moved.in_use = meta[f].in_use /\ moved.name = meta[f].name
  BY <1>2, <1>4, <1>5 DEF MetaData
<1>7. TruncateWrites(f, length) = Copies(f, k) \o <<a, c, c>>
  <2>1. /\ [meta[f] EXCEPT !.file_size = length].num_blocks = k
        /\ [meta[f] EXCEPT !.file_size = length].starting_block = meta[f].starting_block
        /\ [[meta[f] EXCEPT !.file_size = length] EXCEPT !.starting_block = n, !.num_blocks = T] = moved
    BY <1>2 DEF MetaData
  <2>2. /\ [i \in 1 .. k |-> ToBlock(n + i - 1, content[meta[f].starting_block + i - 1])] = Copies(f, k)
    BY DEF Copies
  <2> HIDE DEF moved, k
  <2> QED
    BY <1>1, <1>4, <2>1, <2>2 DEF TruncateWrites, T
<1> HIDE DEF moved
<1>8. Leads(Drive, Copies(f, k), r, n + T, whole)
  BY <1>4, CopiesLead
<1>9. WellFormed(r) /\ (whole => ListedOnce(r, n + T)) /\ Copies(f, k) \in Seq(Write)
  BY <1>1, <1>8, LeadsEnds
<1>10. /\ r.header = n /\ r.made = made /\ r.meta = meta
       /\ \A x \in Block : r.content[x] = IF x \in n .. n + k - 1
                                          THEN content[meta[f].starting_block + (x - n)] ELSE content[x]
  BY DEF Copied, Parts
<1> HIDE DEF r
<1>11. Follows(r, a, t) /\ \A l : ListedOnce(r, l) => ListedOnce(t, l)
  <2>1. n + T \in r.header .. LastBlock + 1
    BY <1>3, <1>4, <1>10
  <2>2. t = Parts(n + T, r.made \cup {}, r.meta, r.content)
    OBVIOUS
  <2> HIDE DEF t
  <2>4. Follows(r, ToHeader(n + T, {}), t) /\ \A l : ListedOnce(r, l) => ListedOnce(t, l)
    BY <1>9, <2>1, <2>2, HeaderOnWritten
  <2> QED
    BY <2>4
<1>12. t.header = n + T /\ t.made = made /\ t.meta = meta /\ t.content = r.content
  BY <1>10 DEF Parts
<1> HIDE DEF t
<1>13. WellFormed(t) /\ (whole => ListedOnce(t, n + T))
  BY <1>9, <1>11 DEF Follows
<1>14. u.header = n + T /\ u.made = made /\ u.meta = [meta EXCEPT ![f] = moved] /\ u.content = r.content
  BY <1>12 DEF Parts
<1>15. u = Parts(t.header, t.made, [t.meta EXCEPT ![f] = moved], t.content)
  OBVIOUS
<1>16. u = Parts(u.header, u.made, [u.meta EXCEPT ![f] = moved], u.content)
  <2>1. [[meta EXCEPT ![f] = moved] EXCEPT ![f] = moved] = [meta EXCEPT ![f] = moved]
    BY <1>2
  <2> HIDE DEF u
  <2>2. [u.meta EXCEPT ![f] = moved] = u.meta
    BY <1>14, <2>1
  <2>3. u = Parts(u.header, u.made, u.meta, u.content)
    <3>1. u.header = t.header /\ u.made = t.made /\ u.meta = [t.meta EXCEPT ![f] = moved] /\ u.content = t.content
      BY <1>12, <1>14
    <3> QED
      BY <1>15, <3>1
  <2> QED
    BY <2>2, <2>3
<1> HIDE DEF u
<1>17. moved.starting_block + moved.num_blocks <= LastBlock + 1 /\ moved.block_type # DIRECTORY
  BY <1>4, <1>6 DEF FILE, DIRECTORY
<1>18. Follows(t, c, u) /\ \A l : ListedOnce(t, l) => ListedOnce(u, l)
  BY <1>6, <1>13, <1>15, <1>17, WritesMeta
<1>19. WellFormed(u) /\ (whole => ListedOnce(u, n + T))
  BY <1>13, <1>18 DEF Follows
<1>20. Follows(u, c, u)
  BY <1>6, <1>16, <1>17, <1>19, WritesMeta
<1>21. a \in Write /\ c \in Write
  BY <1>11, <1>18 DEF Follows
<1> HIDE DEF a, c
<1>22. Leads(Drive, Append(Copies(f, k), a), t, n + T, whole)
  BY <1>1, <1>8, <1>11, <1>13, LeadsOn
<1>23. Leads(Drive, Append(Append(Copies(f, k), a), c), u, n + T, whole)
  BY <1>1, <1>18, <1>19, <1>22, LeadsOn
<1>24. Leads(Drive, Append(Append(Append(Copies(f, k), a), c), c), u, n + T, whole)
  BY <1>1, <1>19, <1>20, <1>23, LeadsOn
<1>25. Leads(Drive, TruncateWrites(f, length), u, u.header, whole)
  <2>1. Copies(f, k) \o <<a, c, c>> = Append(Append(Append(Copies(f, k), a), c), c)
    BY <1>9, <1>21, ThreeMore
  <2> QED
    BY <1>7, <1>14, <1>24, <2>1, Zenon
<1>26. u.meta[f] = moved /\ \A x \in Block : x # f => u.meta[x] = meta[x]
  BY <1>2, <1>14
<1>27. SameTree(Drive, u)
  BY <1>6, <1>14, <1>26, DriveFields DEF SameTree
<1>28. ASSUME whole PROVE Whole(u) /\ \A x \in Block : u.content[x].index = content[x].index
  <2>1. MovedTo(Drive, u, f, T)
    BY <1>6, <1>10, <1>14, <1>26, DriveFields DEF MovedTo
  <2>2. Drive.meta[f].num_blocks < T /\ Drive.header + T <= LastBlock + 1 /\ Drive.meta[f].block_type = FILE
    BY <1>4, DriveFields
  <2> QED
    BY <1>1, <1>4, <1>28, <2>1, <2>2, MovedWhole, DriveFields
<1>29. u.header = next_free + Taken(f, length)
  BY <1>1, <1>4, <1>14
<1> QED
  BY <1>25, <1>27, <1>28, <1>29

LEMMA FileStays ==
    ASSUME FsInv, Idle, NEW f \in Block, meta[f].block_type = FILE, NEW length \in Nat,
           ~Moves(f, length),
           NEW u, u = Parts(header, made, [meta EXCEPT ![f] = [meta[f] EXCEPT !.file_size = length]], content)
    PROVE  /\ Leads(Drive, TruncateWrites(f, length), u, u.header, crashes = 0)
           /\ TruncateWrites(f, length) = <<ToMeta(f, [meta[f] EXCEPT !.file_size = length])>>
           /\ u.header = header /\ Taken(f, length) = 0 /\ u.content = content
           /\ SameTree(Drive, u) /\ SameExtents(Drive, u)
           /\ crashes = 0 => Whole(u)
<1> DEFINE m == [meta[f] EXCEPT !.file_size = length]
           whole == crashes = 0
<1>1. /\ WellFormed(Drive) /\ (whole => Whole(Drive) /\ ListedOnce(Drive, header)) /\ whole \in BOOLEAN
      /\ next_free = header
  BY IdleFacts
<1>2. meta[f] \in MetaData /\ meta \in [Block -> MetaData]
  BY <1>1, DriveTyped
<1>3. /\ m \in MetaData /\ m.starting_block = meta[f].starting_block /\ m.num_blocks = meta[f].num_blocks
      /\ m.block_type = FILE /\ m.in_use = meta[f].in_use /\ m.name = meta[f].name
  BY <1>2 DEF MetaData
<1>4. m.starting_block + m.num_blocks <= LastBlock + 1 /\ m.block_type # DIRECTORY
  <2>1. meta[f].starting_block + meta[f].num_blocks <= LastBlock + 1
    BY <1>1, DriveFields DEF WellFormed
  <2> QED
    BY <1>3, <2>1 DEF FILE, DIRECTORY
<1>5. TruncateWrites(f, length) = <<ToMeta(f, m)>> /\ Taken(f, length) = 0
  BY DEF TruncateWrites, Taken
<1> HIDE DEF m
<1>6. /\ u.header = header /\ u.made = made /\ u.meta = [meta EXCEPT ![f] = m] /\ u.content = content
      /\ u = Parts(Drive.header, Drive.made, [Drive.meta EXCEPT ![f] = m], Drive.content)
  BY DriveFields DEF Parts, m
<1>7. Follows(Drive, ToMeta(f, m), u) /\ \A l : ListedOnce(Drive, l) => ListedOnce(u, l)
  BY <1>1, <1>3, <1>4, <1>6, WritesMeta
<1>8. Leads(Drive, <<ToMeta(f, m)>>, u, header, whole)
  BY <1>1, <1>7, LeadsFirst
<1>9. u.meta[f] = m /\ \A x \in Block : x # f => u.meta[x] = meta[x]
  BY <1>2, <1>6
<1>10. SameTree(Drive, u) /\ SameExtents(Drive, u)
  BY <1>3, <1>6, <1>9, DriveFields DEF SameTree, SameExtents
<1>11. ASSUME whole PROVE Whole(u)
  <2>1. /\ u.header = Drive.header /\ u.made = Drive.made
        /\ \A x \in Block : u.content[x] = Drive.content[x]
    BY <1>6, DriveFields
  <2> QED
    BY <1>1, <1>10, <1>11, <2>1, WrittenWhole
<1> QED
  BY <1>5, <1>6, <1>8, <1>10, <1>11 DEF m

LEMMA BlocksNat ==
    ASSUME NEW length \in Nat PROVE Blocks(length) \in Nat
  BY Numbers, Division DEF Blocks

LEMMA Truncated ==
    ASSUME FsInv, Idle, NEW f \in Block, meta[f].block_type = FILE, NEW length \in Nat, HasRoom(f, length)
    PROVE  \E u : /\ Leads(Drive, TruncateWrites(f, length), u, u.header, crashes = 0)
                  /\ u.header = next_free + Taken(f, length) /\ SameTree(Drive, u)
                  /\ crashes = 0 => /\ Whole(u)
                                    /\ \A x \in Block : u.content[x].index = content[x].index
<1>1. CASE Moves(f, length)
  BY <1>1, BlocksNat, FileMoves
<1>2. CASE ~Moves(f, length)
  <2> DEFINE u == Parts(header, made, [meta EXCEPT ![f] = [meta[f] EXCEPT !.file_size = length]], content)
  <2>1. u = Parts(header, made, [meta EXCEPT ![f] = [meta[f] EXCEPT !.file_size = length]], content)
    OBVIOUS
  <2> HIDE DEF u
  <2>2. /\ Leads(Drive, TruncateWrites(f, length), u, u.header, crashes = 0)
        /\ u.header = header /\ Taken(f, length) = 0 /\ u.content = content
        /\ SameTree(Drive, u) /\ (crashes = 0 => Whole(u))
    BY <1>2, <2>1, FileStays
  <2>3. next_free = header /\ header \in Nat
    <3>1. next_free = header /\ WellFormed(Drive)
      BY IdleFacts
    <3>2. header \in 2 .. LastBlock + 1
      BY <3>1, DriveFields DEF WellFormed
    <3> QED
      BY <3>1, <3>2
  <2>4. u.header = next_free + Taken(f, length)
    BY <2>2, <2>3
  <2> QED
    BY <2>2, <2>4
<1> QED
  BY <1>1, <1>2

\* A file that is found.
LEMMA FileFacts ==
    ASSUME FsInv, Idle, NEW path \in Pathname, IsFile(BlockOf(path))
    PROVE  LET f == BlockOf(path)
               d == ParentOf(path)
           IN  /\ f \in Block /\ meta[f].block_type = FILE /\ d \in Block /\ content[d].dir
               /\ Lists(d, f) /\ meta[f].name = Last(path)
               /\ crashes = 0 => f \in made
<1> DEFINE f == BlockOf(path)
           d == ParentOf(path)
<1>1. f # NotFound /\ meta[f].block_type = FILE
  BY DEF IsFile
<1>2. WellFormed(Drive) /\ (crashes = 0 => Whole(Drive))
  BY IdleFacts
<1>3. /\ f \in Block /\ d \in Block /\ content[d].dir /\ Lists(d, f) /\ meta[f].name = Last(path)
  BY <1>1, <1>2, PathFound
<1>4. crashes = 0 => f \in made
  BY <1>2, <1>3, DriveFields DEF Whole, Lists
<1> QED
  BY <1>1, <1>3, <1>4

\* What asvfs_truncate leads to.
LEMMA FileTruncated ==
    ASSUME FsInv, NEW path \in Pathname, NEW length \in Length, asvfs_truncate(path, length)
    PROVE  \E u : /\ Begins(u) /\ SameTree(Drive, u) /\ Drive' = Drive
                  /\ crashes = 0 => \A x \in Block : u.content[x].index = content[x].index
<1> DEFINE f == BlockOf(path)
<1>1. /\ Idle /\ IsFile(f) /\ HasRoom(f, length) /\ todo' = TruncateWrites(f, length)
      /\ next_free' = next_free + Taken(f, length) /\ UNCHANGED <<header, meta, content, made, crashes>>
  BY DEF asvfs_truncate
<1>2. f \in Block /\ meta[f].block_type = FILE /\ length \in Nat
  BY <1>1, FileFacts, RequestAssumption
<1> HIDE DEF f
<1>3. PICK u : /\ Leads(Drive, TruncateWrites(f, length), u, u.header, crashes = 0)
               /\ u.header = next_free + Taken(f, length) /\ SameTree(Drive, u)
               /\ crashes = 0 => /\ Whole(u)
                                 /\ \A x \in Block : u.content[x].index = content[x].index
  BY <1>1, <1>2, Truncated
<1>4. Drive' = Drive
  BY <1>1 DEF Drive
<1>5. Begins(u)
  BY <1>1, <1>3, <1>4 DEF Begins
<1> QED
  BY <1>3, <1>4, <1>5

\* A write that fits touches the file's own block only.
LEMMA TouchesOne ==
    ASSUME WritesFit, NEW f \in Block, NEW offset \in Offset, NEW size \in Size
    PROVE  Touched(f, offset, size) = {f} /\ ~Moves(f, offset + size) /\ offset + size \in Nat
<1>1. offset \in Nat /\ size \in Nat \ {0} /\ offset + size <= BLOCK_SIZE /\ BLOCK_SIZE \in Nat \ {0} /\ f \in Nat
  BY RequestAssumption, Numbers DEF WritesFit
<1>2. \A x \in offset .. offset + size - 1 : x \in 0 .. BLOCK_SIZE - 1
  BY <1>1
<1>3. \A x \in 0 .. BLOCK_SIZE - 1 : x \div BLOCK_SIZE = 0
  BY <1>1, DivisionOfSmall
<1>4. \A x \in offset .. offset + size - 1 : f + (x \div BLOCK_SIZE) = f
  BY <1>1, <1>2, <1>3
<1>5. offset \in offset .. offset + size - 1
  BY <1>1
<1>6. Touched(f, offset, size) = {f}
  BY <1>4, <1>5 DEF Touched
<1>7. ~Moves(f, offset + size)
  BY <1>1 DEF Moves
<1> QED
  BY <1>1, <1>6, <1>7

\* Data is written to a file.
LEMMA DataFollows ==
    ASSUME NEW s, WellFormed(s), NEW f \in Block, s.meta[f].block_type = FILE,
           NEW u, u = Parts(s.header, s.made, s.meta, [s.content EXCEPT ![f] = Data(f)])
    PROVE  /\ Follows(s, ToData({f}, f), u) /\ \A n : ListedOnce(s, n) => ListedOnce(u, n)
           /\ u.header = s.header /\ SameTree(s, u)
           /\ Whole(s) => Whole(u) /\ \A x \in Block : u.content[x].index = s.content[x].index
<1>1. s.meta[f].block_type # DIRECTORY
  BY DEF FILE, DIRECTORY
<1>2. Follows(s, ToData({f}, f), u) /\ \A n : ListedOnce(s, n) => ListedOnce(u, n)
  BY <1>1, WritesData
<1>3. u.header = s.header /\ u.made = s.made /\ u.meta = s.meta /\ u.content = [s.content EXCEPT ![f] = Data(f)]
  BY DEF Parts
<1>4. SameTree(s, u) /\ SameExtents(s, u)
  BY <1>3 DEF SameTree, SameExtents
<1>5. s.content \in [Block -> Contents]
  BY DEF WellFormed
<1>6. \A x \in Block : \/ u.content[x] = s.content[x]
                       \/ x = f /\ s.meta[f].block_type = FILE /\ u.content[x] = Data(f)
  <2> HIDE DEF Contents
  <2> QED
    BY <1>3, <1>5
<1>7. ASSUME Whole(s) PROVE Whole(u) /\ \A x \in Block : u.content[x].index = s.content[x].index
  BY <1>3, <1>4, <1>6, <1>7, WrittenWhole
<1> QED
  BY <1>2, <1>3, <1>4, <1>7

LEMMA FileWritten ==
    ASSUME WritesFit, FsInv, NEW path \in Pathname, NEW offset \in Offset, NEW size \in Size,
           asvfs_write(path, offset, size)
    PROVE  \E u : /\ Begins(u) /\ SameTree(Drive, u) /\ Drive' = Drive
                  /\ crashes = 0 => \A x \in Block : u.content[x].index = content[x].index
<1> DEFINE f == BlockOf(path)
           length == offset + size
           grows == meta[f].file_size < length
           whole == crashes = 0
           a == ToData({f}, f)
<1>1. /\ Idle /\ IsFile(f) /\ UNCHANGED <<header, meta, content, made, crashes>>
      /\ todo' = (IF grows THEN TruncateWrites(f, length) ELSE <<>>) \o <<ToData(Touched(f, offset, size), f)>>
      /\ next_free' = IF grows THEN next_free + Taken(f, length) ELSE next_free
  BY DEF asvfs_write
<1>2. f \in Block /\ meta[f].block_type = FILE
  BY <1>1, FileFacts
<1>3. Touched(f, offset, size) = {f} /\ ~Moves(f, length) /\ length \in Nat
  BY <1>2, TouchesOne
<1>4. /\ WellFormed(Drive) /\ (whole => Whole(Drive) /\ ListedOnce(Drive, header)) /\ whole \in BOOLEAN
      /\ next_free = header /\ header \in Nat
  <2>1. /\ WellFormed(Drive) /\ (whole => Whole(Drive) /\ ListedOnce(Drive, header)) /\ whole \in BOOLEAN
        /\ next_free = header
    BY <1>1, IdleFacts
  <2>2. header \in 2 .. LastBlock + 1
    BY <2>1, DriveFields DEF WellFormed
  <2> QED
    BY <2>1, <2>2
<1>5. Drive' = Drive
  BY <1>1 DEF Drive
<1> HIDE DEF f, length
<1>6. CASE ~grows
  <2> DEFINE u == Parts(Drive.header, Drive.made, Drive.meta, [Drive.content EXCEPT ![f] = Data(f)])
  <2>1. u = Parts(Drive.header, Drive.made, Drive.meta, [Drive.content EXCEPT ![f] = Data(f)])
    OBVIOUS
  <2> HIDE DEF u
  <2>2. /\ Follows(Drive, a, u) /\ \A n : ListedOnce(Drive, n) => ListedOnce(u, n)
        /\ u.header = header /\ SameTree(Drive, u)
        /\ whole => Whole(u) /\ \A x \in Block : u.content[x].index = content[x].index
    <3>1. Drive.meta[f].block_type = FILE
      BY <1>2, DriveFields
    <3> HIDE DEF a
    <3>2. /\ Follows(Drive, ToData({f}, f), u) /\ \A n : ListedOnce(Drive, n) => ListedOnce(u, n)
          /\ u.header = Drive.header /\ SameTree(Drive, u)
          /\ Whole(Drive) => Whole(u) /\ \A x \in Block : u.content[x].index = Drive.content[x].index
      BY <1>2, <1>4, <2>1, <3>1, DataFollows, SMTT(30)
    <3> QED
      BY <1>4, <3>2, DriveFields DEF a
  <2>3. Leads(Drive, <<a>>, u, header, whole)
    BY <1>4, <2>2, LeadsFirst
  <2>4. todo' = <<a>> /\ next_free' = header
    <3>1. todo' = <<>> \o <<a>>
      BY <1>1, <1>3, <1>6
    <3>2. <<a>> \in Seq({a})
      OBVIOUS
    <3>3. <<>> \o <<a>> = <<a>>
      BY <3>2, ConcatEmptySeq
    <3> QED
      BY <1>1, <1>4, <1>6, <3>1, <3>3
  <2>5. Begins(u)
    BY <1>1, <1>5, <2>2, <2>3, <2>4 DEF Begins
  <2> QED
    BY <1>5, <2>2, <2>5
<1>7. CASE grows
  <2> DEFINE m == [meta[f] EXCEPT !.file_size = length]
             t == Parts(header, made, [meta EXCEPT ![f] = m], content)
             u == Parts(t.header, t.made, t.meta, [t.content EXCEPT ![f] = Data(f)])
  <2>1. t = Parts(header, made, [meta EXCEPT ![f] = m], content)
    OBVIOUS
  <2>2. u = Parts(t.header, t.made, t.meta, [t.content EXCEPT ![f] = Data(f)])
    OBVIOUS
  <2> HIDE DEF t, u
  <2>3. /\ Leads(Drive, TruncateWrites(f, length), t, t.header, whole)
        /\ TruncateWrites(f, length) = <<ToMeta(f, m)>>
        /\ t.header = header /\ Taken(f, length) = 0 /\ t.content = content
        /\ SameTree(Drive, t) /\ (whole => Whole(t))
    BY <1>1, <1>2, <1>3, <2>1, FileStays
  <2>4. WellFormed(t) /\ (whole => ListedOnce(t, header))
    BY <1>4, <2>3, LeadsEnds
  <2>5. t.meta[f].block_type = FILE
    BY <1>2, <2>3, DriveFields DEF SameTree
  <2>6. /\ Follows(t, a, u) /\ \A n : ListedOnce(t, n) => ListedOnce(u, n)
        /\ u.header = header /\ SameTree(t, u)
        /\ whole => Whole(u) /\ \A x \in Block : u.content[x].index = content[x].index
    <3> HIDE DEF a
    <3>1. /\ Follows(t, ToData({f}, f), u) /\ \A n : ListedOnce(t, n) => ListedOnce(u, n)
          /\ u.header = t.header /\ SameTree(t, u)
          /\ Whole(t) => Whole(u) /\ \A x \in Block : u.content[x].index = t.content[x].index
      BY <1>2, <2>2, <2>4, <2>5, DataFollows, SMTT(30)
    <3> QED
      BY <2>3, <3>1 DEF a
  <2>7. Leads(Drive, Append(<<ToMeta(f, m)>>, a), u, header, whole)
    BY <1>4, <2>3, <2>4, <2>6, LeadsOn
  <2>8. todo' = Append(<<ToMeta(f, m)>>, a) /\ next_free' = header
    <3> DEFINE b == ToMeta(f, m)
    <3>1. todo' = <<b>> \o <<a>>
      BY <1>1, <1>3, <1>7, <2>3
    <3>2. next_free' = header
      BY <1>1, <1>4, <1>7, <2>3
    <3> HIDE DEF a, b
    <3>3. <<b>> \o <<a>> = Append(<<b>>, a)
      OBVIOUS
    <3> QED
      BY <3>1, <3>2, <3>3 DEF b
  <2>9. SameTree(Drive, u)
    BY <2>3, <2>6 DEF SameTree
  <2>10. Begins(u)
    BY <1>1, <1>5, <2>6, <2>7, <2>8 DEF Begins
  <2> QED
    BY <1>5, <2>6, <2>9, <2>10
<1> QED
  BY <1>6, <1>7

-----------------------------------------------------------------------------
(***************************************************************************)
(* Deleting and moving.                                                    *)
(***************************************************************************)

\* Of the contents of s only the entries of directories have changed.
SameData(s, u) ==
    \A x \in Block : /\ u.content[x].dir <=> s.content[x].dir
                     /\ ~u.content[x].dir => u.content[x].index = s.content[x].index
                     /\ u.content[x].by = 0 \/ u.content[x].by = s.content[x].by

LEMMA RelistedWhole ==
    ASSUME NEW s, WellFormed(s), Whole(s), NEW u, u.header = s.header, u.made \subseteq s.made,
           SameExtents(s, u), SameData(s, u),
           \A d \in Block : \A i \in DOMAIN u.content[d].index : u.content[d].index[i] \in u.made,
           ListedOnce(u, s.header), Rooted(u)
    PROVE  Whole(u)
<1>1. \A x \in Block : /\ u.content[x].dir <=> s.content[x].dir
                       /\ ~u.content[x].dir => u.content[x].index = s.content[x].index
                       /\ u.content[x].by = 0 \/ u.content[x].by = s.content[x].by
  BY DEF SameData
<1>2. /\ \A x \in Block : u.meta[x].in_use = s.meta[x].in_use
      /\ \A x \in Block : u.meta[x].block_type = s.meta[x].block_type
      /\ \A x \in Block : u.meta[x].starting_block = s.meta[x].starting_block
      /\ \A x \in Block : u.meta[x].num_blocks = s.meta[x].num_blocks
  BY DEF SameExtents
<1>3. \A b \in Block :
          /\ u.content[b].dir <=> u.meta[b].block_type = DIRECTORY
          /\ ~u.content[b].dir => u.content[b].index = <<>>
          /\ ~u.meta[b].in_use => u.meta[b].block_type = UNKNOWN
  BY <1>1, <1>2 DEF Whole
<1>4. ASSUME NEW b \in u.header .. LastBlock
      PROVE  /\ ~u.meta[b].in_use /\ u.content[b].by = 0 /\ u.meta[b].starting_block = b
             /\ u.meta[b].num_blocks <= 1
  <2>1. b \in s.header .. LastBlock
    OBVIOUS
  <2>2. b \in Block
    BY <2>1, FreeBlock
  <2>3. ~s.meta[b].in_use /\ s.content[b].by = 0 /\ s.meta[b].starting_block = b /\ s.meta[b].num_blocks <= 1
    BY <2>1 DEF Whole
  <2> QED
    BY <1>1, <1>2, <2>2, <2>3
<1>5. ASSUME NEW b \in Block, u.meta[b].in_use
      PROVE  /\ \A x \in ExtentIn(u, b) : x < u.header /\ u.content[x].by \in {0, b}
             /\ \A c \in Block : u.meta[c].in_use /\ b # c => ExtentIn(u, b) \cap ExtentIn(u, c) = {}
  <2>1. s.meta[b].in_use /\ ExtentIn(u, b) = ExtentIn(s, b)
    BY <1>2, <1>5, SameExtentIn
  <2>2. ASSUME NEW x \in ExtentIn(s, b) PROVE x < u.header /\ u.content[x].by \in {0, b}
    <3>1. x < s.header /\ s.content[x].by \in {0, b} /\ x \in Block
      BY <2>1, UsedBlock, ExtentTyped
    <3> QED
      BY <1>1, <3>1
  <2>3. ASSUME NEW c \in Block, u.meta[c].in_use, b # c PROVE ExtentIn(u, b) \cap ExtentIn(u, c) = {}
    <3>1. s.meta[c].in_use /\ ExtentIn(u, c) = ExtentIn(s, c)
      BY <1>2, <2>3, SameExtentIn
    <3> QED
      BY <2>1, <2>3, <3>1, UsedBlock
  <2> QED
    BY <2>1, <2>2, <2>3
<1>6. u.meta[Root].in_use /\ u.meta[Root].block_type = DIRECTORY
  BY <1>2, Numbers DEF Whole
<1>7. \A b \in u.made : u.meta[b].in_use /\ u.meta[b].block_type # UNKNOWN
  <2>1. s.made \subseteq Block
    BY Numbers DEF WellFormed, Block
  <2> QED
    BY <1>2, <2>1 DEF Whole
<1> QED
  BY <1>3, <1>4, <1>5, <1>6, <1>7 DEF Whole

\* Where RemoveEntry finds the entry.
LEMMA EntryPlace ==
    ASSUME WellFormed(Drive), NEW d \in Block, NEW c, Lists(d, c)
    PROVE  \E r \in 1 .. Len(content[d].index) :
              /\ content[d].index[r] = c
              /\ RemoveEntry(d, c) = ToBlock(d, Directory(RemoveAt(content[d].index, r)))
<1> DEFINE index == content[d].index
           places == {i \in DOMAIN index : index[i] = c}
<1>1. index \in Seq(Block)
  BY DriveTyped
<1>2. DOMAIN index = 1 .. Len(index) /\ Len(index) \in Nat
  BY <1>1
<1>3. places # {}
  BY DEF Lists
<1>4. places \in SUBSET Nat
  BY <1>2
<1>5. Min(places) \in places
  BY <1>3, <1>4, MinOfNat
<1>6. RemoveEntry(d, c) = ToBlock(d, Directory(RemoveAt(index, Min(places))))
  BY DEF RemoveEntry
<1>7. Min(places) \in 1 .. Len(index) /\ index[Min(places)] = c
  BY <1>2, <1>5
<1> HIDE DEF places
<1> QED
  BY <1>6, <1>7

\* u is s without the entry at r of directory d, which is the one of file f.
Deleted(s, u, d, f, r) ==
    /\ r \in 1 .. Len(s.content[d].index) /\ s.content[d].index[r] = f /\ s.content[d].dir
    /\ u.header = s.header /\ u.meta = s.meta /\ u.made = s.made \ {f}
    /\ u.content = [s.content EXCEPT ![d] = Directory(RemoveAt(s.content[d].index, r))]

LEMMA ReindexedData ==
    ASSUME NEW s, WellFormed(s), NEW d \in Block, s.content[d].dir, NEW index,
           NEW u, u.content = [s.content EXCEPT ![d] = Directory(index)]
    PROVE  SameData(s, u)
<1>1. s.content \in [Block -> Contents]
  BY DEF WellFormed
<1>2. u.content[d] = Directory(index) /\ \A x \in Block : x # d => u.content[x] = s.content[x]
  <2> HIDE DEF Contents
  <2> QED
    BY <1>1
<1>3. Directory(index).dir /\ Directory(index).by = 0
  BY DEF Directory
<1> QED
  BY <1>2, <1>3 DEF SameData

LEMMA DeletedWhole ==
    ASSUME NEW s, WellFormed(s), Whole(s), NEW d \in Block, NEW f \in Block, s.meta[f].block_type = FILE,
           NEW r, NEW u, Deleted(s, u, d, f, r)
    PROVE  Whole(u)
<1>1. /\ r \in 1 .. Len(s.content[d].index) /\ s.content[d].index[r] = f /\ s.content[d].dir
      /\ u.header = s.header /\ u.meta = s.meta /\ u.made = s.made \ {f}
      /\ u.content = [s.content EXCEPT ![d] = Directory(RemoveAt(s.content[d].index, r))]
  BY DEF Deleted
<1>2. /\ \A e \in Block : \A i \in DOMAIN u.content[e].index :
            \E j \in DOMAIN s.content[e].index : u.content[e].index[i] = s.content[e].index[j]
      /\ \A e \in Block : \A j \in DOMAIN s.content[e].index : ~(e = d /\ j = r) =>
            \E i \in DOMAIN u.content[e].index : u.content[e].index[i] = s.content[e].index[j]
      /\ \A n : ListedOnce(s, n) => ListedOnce(u, n) /\ NotListed(u, f)
  <2>1. EntryLess(s, u, d, r)
    BY <1>1, EntryRemoved
  <2> QED
    BY <1>1, <2>1 DEF EntryLess
<1>3. ListedOnce(u, s.header) /\ NotListed(u, f)
  BY <1>2 DEF Whole
<1>4. \A e \in Block : \A i \in DOMAIN u.content[e].index : u.content[e].index[i] \in u.made
  <2>1. \A e \in Block : \A j \in DOMAIN s.content[e].index : s.content[e].index[j] \in s.made
    BY DEF Whole
  <2> QED
    BY <1>1, <1>2, <1>3, <2>1 DEF NotListed
<1>5. s.content[f].index = <<>>
  BY DEF Whole, FILE, DIRECTORY
<1>6. Rooted(u)
  <2> SUFFICES ASSUME NEW S \in SUBSET Block, Root \in S,
                      \A e \in S : \A i \in DOMAIN u.content[e].index : u.content[e].index[i] \in S
               PROVE  u.made \subseteq S
    BY DEF Rooted
  <2>1. ASSUME NEW e \in S \cup {f}, NEW j \in DOMAIN s.content[e].index
        PROVE  s.content[e].index[j] \in S \cup {f}
    <3>1. CASE e = d /\ j = r
      BY <1>1, <3>1
    <3>2. CASE ~(e = d /\ j = r)
      <4>1. e \in S
        BY <1>5, <2>1
      <4> QED
        BY <1>2, <3>2, <4>1
    <3> QED
      BY <3>1, <3>2
  <2>2. Root \in S \cup {f} /\ S \cup {f} \in SUBSET Block
    OBVIOUS
  <2>3. s.made \subseteq S \cup {f}
    <3> DEFINE T == S \cup {f}
    <3>1. T \in SUBSET Block /\ Root \in T /\ \A e \in T : \A j \in DOMAIN s.content[e].index : s.content[e].index[j] \in T
      BY <2>1, <2>2
    <3> HIDE DEF T
    <3>2. s.made \subseteq T
      BY <3>1 DEF Whole, Rooted
    <3> QED
      BY <3>2 DEF T
  <2> QED
    BY <1>1, <2>3
<1>7. SameData(s, u)
  BY <1>1, ReindexedData, SMTT(30)
<1>8. SameExtents(s, u) /\ u.made \subseteq s.made
  BY <1>1 DEF SameExtents
<1> QED
  BY <1>1, <1>3, <1>4, <1>6, <1>7, <1>8, RelistedWhole

\* What asvfs_unlink leads to.
LEMMA FileDeleted ==
    ASSUME FsInv, NEW path \in Pathname, asvfs_unlink(path)
    PROVE  \E u, r : /\ Begins(u) /\ WellFormed(Drive') /\ Keeps(Drive, Drive')
                     /\ Deleted(Drive, u, ParentOf(path), BlockOf(path), r)
<1> DEFINE f == BlockOf(path)
           d == ParentOf(path)
           whole == crashes = 0
           v == Drive'
<1>1. /\ Idle /\ IsFile(f) /\ todo' = <<RemoveEntry(d, f)>> /\ made' = made \ {f}
      /\ UNCHANGED <<header, next_free, meta, content, crashes>>
  BY DEF asvfs_unlink
<1>2. /\ f \in Block /\ meta[f].block_type = FILE /\ d \in Block /\ content[d].dir /\ Lists(d, f)
      /\ whole => f \in made
  BY <1>1, FileFacts
<1>3. /\ WellFormed(Drive) /\ (whole => Whole(Drive) /\ ListedOnce(Drive, header)) /\ whole \in BOOLEAN
      /\ next_free = header
  BY <1>1, IdleFacts
<1>4. v.header = header /\ v.made = made \ {f} /\ v.meta = meta /\ v.content = content
  BY <1>1 DEF Drive
<1> HIDE DEF v, f, d
<1>5. WellFormed(v) /\ (whole => ListedOnce(v, header))
  <2>1. WellFormed(v)
    BY <1>3, <1>4, DriveFields DEF WellFormed
  <2>2. whole => ListedOnce(v, header)
    BY <1>3, <1>4, DriveFields DEF ListedOnce
  <2> QED
    BY <2>1, <2>2
<1>6. Keeps(Drive, v)
  BY <1>4, DriveFields DEF Keeps
<1>7. PICK r \in 1 .. Len(content[d].index) :
         /\ content[d].index[r] = f
         /\ RemoveEntry(d, f) = ToBlock(d, Directory(RemoveAt(content[d].index, r)))
  BY <1>2, <1>3, EntryPlace
<1> DEFINE new == RemoveAt(content[d].index, r)
           u == Reindexed(v, d, new)
<1>8. new \in Seq(Block)
  BY <1>2, <1>3, <1>7, DriveTyped, RemovedAt
<1> HIDE DEF new
<1>9. Follows(v, ToBlock(d, Directory(new)), u)
  BY <1>2, <1>4, <1>5, <1>8, IndexWritten
<1>10. /\ u.header = header /\ u.made = made \ {f} /\ u.meta = meta
       /\ u.content = [content EXCEPT ![d] = Directory(new)]
  BY <1>2, <1>4, <1>5, <1>8, ReindexedParts
<1> HIDE DEF u
<1>11. Deleted(Drive, u, d, f, r)
  BY <1>2, <1>7, <1>10, DriveFields DEF Deleted, new
<1>12. ASSUME whole PROVE Whole(u) /\ ListedOnce(u, header)
  <2>1. Drive.meta[f].block_type = FILE
    BY <1>2, DriveFields
  <2>2. Whole(u)
    BY <1>2, <1>3, <1>11, <1>12, <2>1, DeletedWhole
  <2> QED
    BY <1>10, <2>2 DEF Whole
<1>13. Leads(v, <<RemoveEntry(d, f)>>, u, header, whole)
  <2>1. RemoveEntry(d, f) = ToBlock(d, Directory(new))
    BY <1>7 DEF new
  <2>2. whole => ListedOnce(u, header)
    BY <1>12
  <2> QED
    BY <1>3, <1>5, <1>9, <2>1, <2>2, LeadsFirst
<1>14. Begins(u)
  BY <1>1, <1>3, <1>10, <1>12, <1>13 DEF Begins, v
<1> QED
  BY <1>5, <1>6, <1>11, <1>14 DEF v, d, f

\* A path that goes through the block another one leads to goes on from that path.
LEMMA ThroughBlock ==
    ASSUME WellFormed(Drive), Whole(Drive), NEW from \in Pathname, NEW to \in Pathname,
           NEW k \in 0 .. Len(to), Upto(to, k) = BlockOf(from), BlockOf(from) # NotFound
    PROVE  IsPrefix(from, to)
<1>1. from \in Seq(Name) /\ to \in Seq(Name) /\ Len(from) \in Nat \ {0} /\ Len(to) \in Nat
  BY PathnameTyped
<1>2. BlockOf(from) = Upto(from, Len(from)) /\ Len(from) \in 0 .. Len(from)
  BY <1>1, PathSteps
<1>3. Len(from) = k /\ \A i \in 1 .. Len(from) : from[i] = to[i]
  BY <1>1, <1>2, OnePath
<1>4. /\ SubSeq(from, 1, k) \in Seq(Name) /\ Len(SubSeq(from, 1, k)) = k
      /\ \A i \in 1 .. k : SubSeq(from, 1, k)[i] = from[i]
  <2>1. k \in 0 .. Len(from)
    BY <1>1, <1>3
  <2> QED
    BY <1>1, <2>1, PrefixOf
<1>5. /\ SubSeq(to, 1, k) \in Seq(Name) /\ Len(SubSeq(to, 1, k)) = k
      /\ \A i \in 1 .. k : SubSeq(to, 1, k)[i] = to[i]
  BY <1>1, PrefixOf
<1>6. SubSeq(from, 1, k) = SubSeq(to, 1, k)
  BY <1>3, <1>4, <1>5, SeqEqual
<1>7. Len(from) <= Len(to)
  BY <1>1, <1>3
<1> QED
  BY <1>3, <1>6, <1>7 DEF IsPrefix

\* The entry at r of directory d, which is the one of block b, has gone to another
\* directory, where it is the last.
EntryMoved(s, u, d, r, e, b) ==
    /\ d # e /\ r \in 1 .. Len(s.content[d].index) /\ s.content[d].index[r] = b
    /\ s.content[d].dir /\ s.content[e].dir
    /\ u.content[d] = Directory(RemoveAt(s.content[d].index, r))
    /\ u.content[e] = Directory(Append(s.content[e].index, b))
    /\ \A x \in Block : x # d /\ x # e => u.content[x] = s.content[x]

\* The entries after the move are those from before.
LEMMA EntriesAfterMove ==
    ASSUME NEW s, WellFormed(s), NEW d \in Block, NEW e \in Block, NEW b \in Block, NEW r,
           NEW u, EntryMoved(s, u, d, r, e, b)
    PROVE  /\ \A x \in Block : \A i \in DOMAIN u.content[x].index :
                 \/ \E j \in DOMAIN s.content[x].index : u.content[x].index[i] = s.content[x].index[j]
                 \/ x = e /\ u.content[x].index[i] = b
           /\ \A x \in Block : \A j \in DOMAIN s.content[x].index : ~(x = d /\ j = r) =>
                 \E i \in DOMAIN u.content[x].index : u.content[x].index[i] = s.content[x].index[j]
           /\ \E i \in DOMAIN u.content[e].index : u.content[e].index[i] = b
           /\ SameData(s, u)
<1>1. /\ d # e /\ r \in 1 .. Len(s.content[d].index) /\ s.content[d].index[r] = b
      /\ s.content[d].dir /\ s.content[e].dir
      /\ u.content[d] = Directory(RemoveAt(s.content[d].index, r))
      /\ u.content[e] = Directory(Append(s.content[e].index, b))
      /\ \A x \in Block : x # d /\ x # e => u.content[x] = s.content[x]
  BY DEF EntryMoved
<1> DEFINE t == [content |-> [s.content EXCEPT ![d] = Directory(RemoveAt(s.content[d].index, r))]]
<1>2. t.content = [s.content EXCEPT ![d] = Directory(RemoveAt(s.content[d].index, r))]
  OBVIOUS
<1>3. t.content[d] = u.content[d]
  BY <1>1, <1>2, IndexTyped
<1> HIDE DEF t
<1>4. EntryLess(s, t, d, r)
  BY <1>1, <1>2, EntryRemoved
<1>5. /\ \A i \in DOMAIN u.content[d].index :
            \E j \in DOMAIN s.content[d].index : u.content[d].index[i] = s.content[d].index[j]
      /\ \A j \in DOMAIN s.content[d].index : j # r =>
            \E i \in DOMAIN u.content[d].index : u.content[d].index[i] = s.content[d].index[j]
  BY <1>3, <1>4 DEF EntryLess
<1> DEFINE old == s.content[e].index
<1>6. /\ old \in Seq(Block) /\ DOMAIN old = 1 .. Len(old) /\ Len(old) \in Nat
  BY IndexTyped
<1>7. u.content[e].index = Append(old, b) /\ u.content[e].dir /\ u.content[e].by = 0
      /\ u.content[d].dir /\ u.content[d].by = 0
  BY <1>1 DEF Directory
<1>8. /\ Append(old, b) \in Seq(Block) /\ Len(Append(old, b)) = Len(old) + 1
      /\ Append(old, b)[Len(old) + 1] = b /\ \A i \in 1 .. Len(old) : Append(old, b)[i] = old[i]
  BY <1>6, Appended
<1>9. DOMAIN u.content[e].index = 1 .. Len(old) + 1
  BY <1>7, <1>8
<1> HIDE DEF old
<1>10. /\ \A i \in DOMAIN u.content[e].index :
             (\E j \in DOMAIN old : u.content[e].index[i] = old[j]) \/ u.content[e].index[i] = b
       /\ \A j \in DOMAIN old : \E i \in DOMAIN u.content[e].index : u.content[e].index[i] = old[j]
       /\ \E i \in DOMAIN u.content[e].index : u.content[e].index[i] = b
  <2>1. ASSUME NEW i \in 1 .. Len(old) + 1 PROVE i \in 1 .. Len(old) \/ i = Len(old) + 1
    BY <1>6
  <2>2. Len(old) + 1 \in 1 .. Len(old) + 1 /\ \A j \in 1 .. Len(old) : j \in 1 .. Len(old) + 1
    BY <1>6
  <2> QED
    BY <1>6, <1>7, <1>8, <1>9, <2>1, <2>2
<1>11. ASSUME NEW x \in Block, NEW i \in DOMAIN u.content[x].index
       PROVE  \/ \E j \in DOMAIN s.content[x].index : u.content[x].index[i] = s.content[x].index[j]
              \/ x = e /\ u.content[x].index[i] = b
  <2>1. CASE x = d
    BY <1>5, <2>1
  <2>2. CASE x = e
    BY <1>10, <2>2 DEF old
  <2>3. CASE x # d /\ x # e
    BY <1>1, <2>3
  <2> QED
    BY <2>1, <2>2, <2>3
<1>12. ASSUME NEW x \in Block, NEW j \in DOMAIN s.content[x].index, ~(x = d /\ j = r)
       PROVE  \E i \in DOMAIN u.content[x].index : u.content[x].index[i] = s.content[x].index[j]
  <2>1. CASE x = d
    BY <1>5, <1>12, <2>1
  <2>2. CASE x = e
    BY <1>10, <2>2 DEF old
  <2>3. CASE x # d /\ x # e
    BY <1>1, <2>3
  <2> QED
    BY <2>1, <2>2, <2>3
<1>13. SameData(s, u)
  BY <1>1, <1>7 DEF SameData
<1> QED
  BY <1>10, <1>11, <1>12, <1>13

\* Nothing is lost from the tree by a move that is not below itself.
LEMMA MoveRooted ==
    ASSUME WellFormed(Drive), Whole(Drive), NEW from \in Pathname, NEW to \in Pathname,
           BlockOf(from) # NotFound, ParentOf(to) # NotFound, ~IsPrefix(from, to),
           NEW r, NEW u, u.made = made,
           EntryMoved(Drive, u, ParentOf(from), r, ParentOf(to), BlockOf(from))
    PROVE  Rooted(u)
<1> DEFINE b == BlockOf(from)
           d == ParentOf(from)
           e == ParentOf(to)
<1>1. b \in Block /\ d \in Block /\ e \in Block
  BY PathFound
<1>2. /\ \A x \in Block : \A j \in DOMAIN content[x].index : ~(x = d /\ j = r) =>
            \E i \in DOMAIN u.content[x].index : u.content[x].index[i] = content[x].index[j]
      /\ \E i \in DOMAIN u.content[e].index : u.content[e].index[i] = b
  BY <1>1, EntriesAfterMove, DriveFields
<1>3. content[d].index[r] = b
  BY DriveFields DEF EntryMoved
<1>4. to \in Seq(Name) /\ Len(to) \in Nat \ {0}
  BY PathnameTyped
<1>5. ASSUME NEW k \in 0 .. Len(to) PROVE Upto(to, k) # b
  BY <1>5, ThroughBlock
<1> HIDE DEF b, d, e
<1> SUFFICES ASSUME NEW S \in SUBSET Block, Root \in S,
                    \A x \in S : \A i \in DOMAIN u.content[x].index : u.content[x].index[i] \in S
             PROVE  u.made \subseteq S
  BY DEF Rooted
<1>6. ASSUME NEW x \in S, NEW j \in DOMAIN content[x].index, content[x].index[j] # b
      PROVE  content[x].index[j] \in S
  <2>1. ~(x = d /\ j = r)
    BY <1>3, <1>6
  <2> QED
    BY <1>2, <2>1
<1> DEFINE found == {k \in 0 .. Len(to) : Upto(to, k) # NotFound => Upto(to, k) \in S}
<1>7. 0 \in found
  BY <1>4, PathSteps
<1>8. ASSUME NEW k \in 1 .. Len(to), k - 1 \in found PROVE k \in found
  <2> SUFFICES ASSUME Upto(to, k) # NotFound PROVE Upto(to, k) \in S
    BY <1>4
  <2>1. Upto(to, k - 1) \in Block /\ Lists(Upto(to, k - 1), Upto(to, k))
    BY <1>4, StepFound
  <2>2. Upto(to, k - 1) \in S
    BY <1>8, <2>1, Numbers
  <2>3. PICK j \in DOMAIN content[Upto(to, k - 1)].index : content[Upto(to, k - 1)].index[j] = Upto(to, k)
    BY <2>1 DEF Lists
  <2>4. k \in 0 .. Len(to)
    BY <1>4
  <2> QED
    BY <1>5, <1>6, <2>2, <2>3, <2>4
<1> HIDE DEF found
<1>9. \A k \in 0 .. Len(to) : k \in found
  BY <1>4, <1>7, <1>8, CountingUp
<1>10. Len(to) - 1 \in 0 .. Len(to) /\ e = Upto(to, Len(to) - 1) /\ e # NotFound
  BY <1>4, PathSteps DEF e
<1>11. e \in S
  BY <1>9, <1>10 DEF found
<1>12. b \in S
  BY <1>2, <1>11
<1>13. \A x \in S : \A j \in DOMAIN Drive.content[x].index : Drive.content[x].index[j] \in S
  BY <1>6, <1>12, DriveFields
<1>14. Drive.made \subseteq S
  BY <1>13 DEF Whole, Rooted
<1> QED
  BY <1>14, DriveFields

\* u has the meta data of s, but for the name of block b.
NamedAs(s, u, b, name) ==
    /\ SameExtents(s, u) /\ u.meta[b].name = name
    /\ \A x \in Block : x # b => u.meta[x].name = s.meta[x].name

LEMMA NameWritten ==
    ASSUME NEW s, WellFormed(s), NEW b \in Block, NEW name \in Name,
           NEW m, m = [s.meta[b] EXCEPT !.name = name],
           NEW u, u = Parts(s.header, s.made, [s.meta EXCEPT ![b] = m], s.content)
    PROVE  /\ Follows(s, ToMeta(b, m), u) /\ \A n : ListedOnce(s, n) => ListedOnce(u, n)
           /\ NamedAs(s, u, b, name)
           /\ u.header = s.header /\ u.made = s.made /\ u.content = s.content
<1>1. s.meta \in [Block -> MetaData] /\ s.meta[b] \in MetaData
  BY DEF WellFormed
<1>2. /\ m \in MetaData /\ m.starting_block = s.meta[b].starting_block /\ m.num_blocks = s.meta[b].num_blocks
      /\ m.block_type = s.meta[b].block_type /\ m.in_use = s.meta[b].in_use /\ m.name = name
  BY <1>1 DEF MetaData
<1>3. m.starting_block + m.num_blocks <= LastBlock + 1
  BY <1>2 DEF WellFormed
<1>4. b \in s.made => (m.block_type = DIRECTORY => s.content[b].dir)
  BY <1>2 DEF WellFormed
<1>5. Follows(s, ToMeta(b, m), u) /\ \A n : ListedOnce(s, n) => ListedOnce(u, n)
  <2> DEFINE k == m
  <2>1. k \in MetaData /\ k.starting_block + k.num_blocks <= LastBlock + 1
        /\ (b \in s.made => (k.block_type = DIRECTORY => s.content[b].dir))
        /\ u = Parts(s.header, s.made, [s.meta EXCEPT ![b] = k], s.content)
    BY <1>2, <1>3, <1>4
  <2> HIDE DEF k
  <2>2. Follows(s, ToMeta(b, k), u) /\ \A n : ListedOnce(s, n) => ListedOnce(u, n)
    BY <2>1, WritesMeta
  <2> QED
    BY <2>2 DEF k
<1>6. u.header = s.header /\ u.made = s.made /\ u.content = s.content /\ u.meta = [s.meta EXCEPT ![b] = m]
  BY DEF Parts
<1>7. u.meta[b] = m /\ \A x \in Block : x # b => u.meta[x] = s.meta[x]
  <2> HIDE DEF MetaData
  <2> QED
    BY <1>1, <1>6
<1>8. NamedAs(s, u, b, name)
  BY <1>2, <1>7 DEF NamedAs, SameExtents
<1> QED
  BY <1>5, <1>6, <1>8

\* What is known where something is renamed.
LEMMA RenameFacts ==
    ASSUME FsInv, NEW from \in Pathname, NEW to \in Pathname, asvfs_rename(from, to)
    PROVE  LET b == BlockOf(from)
               d == ParentOf(from)
               e == ParentOf(to)
           IN  /\ b \in Block /\ d \in Block /\ content[d].dir /\ Lists(d, b) /\ meta[b].name = Last(from)
               /\ e \in Block /\ meta[e].block_type = DIRECTORY /\ (e \in made => content[e].dir)
               /\ Last(to) \in Name /\ Child(e, Last(to)) = NotFound
               /\ b # NotFound /\ e # NotFound /\ ~IsPrefix(from, to)
               /\ Idle /\ WellFormed(Drive) /\ next_free = header /\ Drive' = Drive
               /\ next_free' = header /\ UNCHANGED crashes /\ todo' = RenameWrites(from, to)
               /\ crashes = 0 => /\ Whole(Drive) /\ ListedOnce(Drive, header)
                                 /\ e \in made \cup {Root} /\ content[e].dir /\ b \in made
<1> DEFINE b == BlockOf(from)
           d == ParentOf(from)
           e == ParentOf(to)
<1>1. /\ Idle /\ b # NotFound /\ e # NotFound /\ meta[e].block_type = DIRECTORY
      /\ ~IsPrefix(from, to) /\ BlockOf(to) = NotFound /\ todo' = RenameWrites(from, to)
      /\ UNCHANGED <<header, next_free, meta, content, made, crashes>>
  BY DEF asvfs_rename, IsDirectory
<1>2. /\ next_free = header /\ WellFormed(Drive)
      /\ crashes = 0 => Whole(Drive) /\ ListedOnce(Drive, header)
  BY <1>1, IdleFacts
<1>3. b \in Block /\ d \in Block /\ content[d].dir /\ Lists(d, b) /\ meta[b].name = Last(from)
  BY <1>1, <1>2, PathFound
<1>4. e \in Block \cup {NotFound} /\ Last(to) \in Name /\ Child(e, Last(to)) = NotFound
  BY <1>1, <1>2, PathFound
<1>5. e \in Block
  BY <1>1, <1>4
<1>6. e \in made => content[e].dir
  BY <1>1, <1>2, DriveFields DEF WellFormed
<1>7. ASSUME crashes = 0 PROVE e \in made \cup {Root} /\ content[e].dir /\ b \in made
  <2>1. to \in Seq(Name) /\ Len(to) \in Nat \ {0}
    BY PathnameTyped
  <2>2. e = Upto(to, Len(to) - 1) /\ Len(to) - 1 \in 0 .. Len(to)
    BY <2>1, PathSteps
  <2>3. Upto(to, Len(to) - 1) # NotFound
    BY <1>1, <2>2
  <2>4. e \in made \cup {Root}
    BY <1>2, <1>7, <2>1, <2>2, <2>3, PathMade
  <2>5. content[e].dir
    BY <1>1, <1>2, <1>5, <1>7, DriveFields DEF Whole
  <2>6. b \in made
    BY <1>2, <1>3, <1>7, DriveFields DEF Whole, Lists
  <2> QED
    BY <2>4, <2>5, <2>6
<1>8. Drive' = Drive
  BY <1>1 DEF Drive
<1> QED
  BY <1>1, <1>2, <1>3, <1>4, <1>5, <1>6, <1>7, <1>8

\* Within a directory.
LEMMA NameChanged ==
    ASSUME FsInv, NEW from \in Pathname, NEW to \in Pathname, asvfs_rename(from, to),
           ParentOf(from) = ParentOf(to)
    PROVE  \E u : /\ Begins(u) /\ NamedAs(Drive, u, BlockOf(from), Last(to))
                  /\ u.made = made /\ u.content = content
<1> DEFINE b == BlockOf(from)
           name == Last(to)
           m == [Drive.meta[b] EXCEPT !.name = name]
           u == Parts(Drive.header, Drive.made, [Drive.meta EXCEPT ![b] = m], Drive.content)
           whole == crashes = 0
<1>1. /\ b \in Block /\ name \in Name /\ WellFormed(Drive) /\ Drive' = Drive
      /\ next_free' = header /\ UNCHANGED crashes /\ todo' = RenameWrites(from, to)
      /\ whole => Whole(Drive) /\ ListedOnce(Drive, header)
      /\ whole \in BOOLEAN
  BY RenameFacts
<1>2. todo' = <<ToMeta(b, m)>>
  BY <1>1, DriveFields DEF RenameWrites, Renamed
<1>3. m = [Drive.meta[b] EXCEPT !.name = name]
  OBVIOUS
<1>4. u = Parts(Drive.header, Drive.made, [Drive.meta EXCEPT ![b] = m], Drive.content)
  OBVIOUS
<1> HIDE DEF u, m, b, name
<1>5. /\ Follows(Drive, ToMeta(b, m), u) /\ \A n : ListedOnce(Drive, n) => ListedOnce(u, n)
      /\ NamedAs(Drive, u, b, name)
      /\ u.header = Drive.header /\ u.made = Drive.made /\ u.content = Drive.content
  BY <1>1, <1>3, <1>4, NameWritten
<1>6. Leads(Drive, <<ToMeta(b, m)>>, u, header, whole)
  BY <1>1, <1>5, LeadsFirst
<1>7. ASSUME whole PROVE Whole(u)
  BY <1>1, <1>5, <1>7, WrittenWhole DEF NamedAs
<1>8. Begins(u)
  BY <1>1, <1>2, <1>5, <1>6, <1>7, DriveFields DEF Begins
<1> QED
  BY <1>5, <1>8, DriveFields DEF b, name

\* From one directory to another.
LEMMA EntryWritten ==
    ASSUME FsInv, NEW from \in Pathname, NEW to \in Pathname, asvfs_rename(from, to),
           ParentOf(from) # ParentOf(to)
    PROVE  LET b == BlockOf(from)
               d == ParentOf(from)
               e == ParentOf(to)
           IN  \E u, r :
                  /\ Leads(Drive, <<RemoveEntry(d, b), AddEntry(e, b)>>, u, header, crashes = 0)
                  /\ u.header = header /\ u.made = made /\ u.meta = meta
                  /\ crashes = 0 => EntryMoved(Drive, u, d, r, e, b) /\ Whole(u)
<1> DEFINE b == BlockOf(from)
           d == ParentOf(from)
           e == ParentOf(to)
           whole == crashes = 0
<1>1. /\ b \in Block /\ d \in Block /\ content[d].dir /\ Lists(d, b)
      /\ e \in Block /\ (e \in made => content[e].dir) /\ d # e
      /\ b # NotFound /\ e # NotFound /\ ~IsPrefix(from, to) /\ WellFormed(Drive) /\ Drive' = Drive
      /\ whole => Whole(Drive) /\ ListedOnce(Drive, header) /\ content[e].dir
      /\ whole \in BOOLEAN
  BY RenameFacts
<1>2. PICK r \in 1 .. Len(content[d].index) :
         /\ content[d].index[r] = b
         /\ RemoveEntry(d, b) = ToBlock(d, Directory(RemoveAt(content[d].index, r)))
  BY <1>1, EntryPlace
<1> DEFINE old == content[e].index
           less == RemoveAt(content[d].index, r)
           more == Append(old, b)
           t == Reindexed(Drive, d, less)
           u == Reindexed(t, e, more)
<1>3. less \in Seq(Block) /\ old \in Seq(Block)
  BY <1>1, <1>2, DriveTyped, RemovedAt
<1>4. more \in Seq(Block)
  BY <1>1, <1>3, Appended
<1>5. AddEntry(e, b) = ToBlock(e, Directory(more))
  BY DEF AddEntry
<1>6. t = Reindexed(Drive, d, less) /\ u = Reindexed(t, e, more)
  OBVIOUS
<1> HIDE DEF t, u
<1>7. RemoveEntry(d, b) = ToBlock(d, Directory(less)) /\ less = RemoveAt(content[d].index, r)
      /\ more = Append(old, b) /\ old = content[e].index
  BY <1>2
<1> HIDE DEF less, more, old
<1>8. Follows(Drive, ToBlock(d, Directory(less)), t)
  BY <1>1, <1>3, <1>6, IndexWritten, DriveFields
<1>9. /\ t.header = header /\ t.made = made /\ t.meta = meta
      /\ t.content = [content EXCEPT ![d] = Directory(less)] /\ t.content[d] = Directory(less)
      /\ \A x \in Block : x # d => t.content[x] = content[x]
  <2>1. /\ t.header = Drive.header /\ t.made = Drive.made /\ t.meta = Drive.meta
        /\ t.content = [Drive.content EXCEPT ![d] = Directory(less)] /\ t.content[d] = Directory(less)
        /\ \A x \in Block : x # d => t.content[x] = Drive.content[x]
    BY <1>1, <1>3, <1>6, ReindexedParts
  <2> QED
    BY <2>1, DriveFields
<1>10. WellFormed(t)
  BY <1>8 DEF Follows
<1>11. t.content[e] = content[e]
  BY <1>1, <1>9
<1>12. Follows(t, ToBlock(e, Directory(more)), u)
  BY <1>1, <1>4, <1>6, <1>9, <1>10, <1>11, IndexWritten
<1>13. /\ u.header = header /\ u.made = made /\ u.meta = meta
       /\ u.content = [t.content EXCEPT ![e] = Directory(more)] /\ u.content[e] = Directory(more)
       /\ \A x \in Block : x # e => u.content[x] = t.content[x]
  <2>1. /\ u.header = t.header /\ u.made = t.made /\ u.meta = t.meta
        /\ u.content = [t.content EXCEPT ![e] = Directory(more)] /\ u.content[e] = Directory(more)
        /\ \A x \in Block : x # e => u.content[x] = t.content[x]
    BY <1>1, <1>4, <1>6, <1>10, ReindexedParts
  <2> QED
    BY <1>9, <2>1
<1>14. ASSUME whole PROVE ListedOnce(t, header) /\ ListedOnce(u, header)
  <2>1. t.content = [Drive.content EXCEPT ![d] = Directory(RemoveAt(Drive.content[d].index, r))]
    BY <1>7, <1>9, DriveFields
  <2>2. Drive.content[d].index[r] = b /\ r \in 1 .. Len(Drive.content[d].index)
    BY <1>2, DriveFields
  <2>3. EntryLess(Drive, t, d, r)
    BY <1>1, <2>1, <2>2, EntryRemoved
  <2>4. ListedOnce(t, header) /\ NotListed(t, b)
    BY <1>1, <1>14, <2>2, <2>3 DEF EntryLess
  <2>5. b < header
    <3>1. r \in DOMAIN Drive.content[d].index
      BY <1>1, <2>2, IndexTyped
    <3> QED
      BY <1>1, <1>14, <2>2, <3>1 DEF ListedOnce
  <2>6. u.content = [t.content EXCEPT ![e] = Directory(Append(t.content[e].index, b))]
    BY <1>7, <1>11, <1>13
  <2>7. ListedOnce(u, header)
    BY <1>1, <1>10, <2>4, <2>5, <2>6, EntryAdded
  <2> QED
    BY <2>4, <2>7
<1>15. Leads(Drive, <<RemoveEntry(d, b)>>, t, header, whole)
  BY <1>1, <1>7, <1>8, <1>14, LeadsFirst
<1>16. Leads(Drive, Append(<<RemoveEntry(d, b)>>, AddEntry(e, b)), u, header, whole)
  BY <1>1, <1>5, <1>12, <1>14, <1>15, LeadsOn
<1>17. Append(<<RemoveEntry(d, b)>>, AddEntry(e, b)) = <<RemoveEntry(d, b), AddEntry(e, b)>>
  BY MoreWrites, Zenon
<1>18. ASSUME whole PROVE EntryMoved(Drive, u, d, r, e, b) /\ Whole(u)
  <2>1. EntryMoved(Drive, u, d, r, e, b)
    BY <1>1, <1>2, <1>7, <1>9, <1>13, <1>18, DriveFields, ZenonT(30) DEF EntryMoved
  <2>2. Rooted(u)
    BY <1>1, <1>13, <1>18, <2>1, MoveRooted
  <2>3. /\ \A x \in Block : \A i \in DOMAIN u.content[x].index :
              \/ \E j \in DOMAIN content[x].index : u.content[x].index[i] = content[x].index[j]
              \/ x = e /\ u.content[x].index[i] = b
        /\ SameData(Drive, u)
    BY <1>1, <2>1, EntriesAfterMove, DriveFields
  <2>4. b \in made /\ \A x \in Block : \A j \in DOMAIN content[x].index : content[x].index[j] \in made
    BY <1>1, <1>18, DriveFields DEF Whole, Lists
  <2>5. \A x \in Block : \A i \in DOMAIN u.content[x].index : u.content[x].index[i] \in u.made
    BY <1>13, <2>3, <2>4
  <2>6. SameExtents(Drive, u) /\ u.header = Drive.header /\ u.made \subseteq Drive.made
    BY <1>13, DriveFields DEF SameExtents
  <2>7. ListedOnce(u, Drive.header)
    BY <1>14, <1>18, DriveFields
  <2>8. Whole(u)
    BY <1>1, <1>18, <2>2, <2>3, <2>5, <2>6, <2>7, RelistedWhole
  <2> QED
    BY <2>1, <2>8
<1> QED
  BY <1>13, <1>16, <1>17, <1>18

LEMMA TwoAndOne ==
    ASSUME NEW a, NEW b, NEW c
    PROVE  <<a, b>> \o <<c>> = Append(<<a, b>>, c) /\ <<a, b>> \o <<>> = <<a, b>>
<1> DEFINE S == {a, b, c}
           w == <<a, b>>
           v == <<c>>
<1>1. w \in Seq(S) /\ v \in Seq(S) /\ Len(v) = 1 /\ v[1] = c /\ c \in S
  OBVIOUS
<1> HIDE DEF S, w, v
<1>2. w \o <<>> = w
  BY <1>1, ConcatEmptySeq
<1>3. /\ w \o v \in Seq(S) /\ Len(w \o v) = Len(w) + Len(v)
      /\ \A i \in 1 .. Len(w) + Len(v) : (w \o v)[i] = IF i <= Len(w) THEN w[i] ELSE v[i - Len(w)]
  BY <1>1, ConcatProperties
<1>4. /\ Append(w, c) \in Seq(S) /\ Len(Append(w, c)) = Len(w) + 1 /\ Len(w) \in Nat
      /\ Append(w, c)[Len(w) + 1] = c /\ \A k \in 1 .. Len(w) : Append(w, c)[k] = w[k]
  BY <1>1, Appended
<1>5. \A i \in 1 .. Len(w) + 1 : (w \o v)[i] = Append(w, c)[i]
  <2> DEFINE n == Len(w)
             x == w \o v
             y == Append(w, c)
  <2>1. /\ n \in Nat /\ \A i \in 1 .. n + 1 : x[i] = IF i <= n THEN w[i] ELSE v[i - n]
        /\ y[n + 1] = c /\ \A k \in 1 .. n : y[k] = w[k]
    BY <1>1, <1>3, <1>4
  <2> HIDE DEF n, x, y
  <2>2. \A i \in 1 .. n + 1 : x[i] = y[i]
    BY <1>1, <2>1
  <2> QED
    BY <2>2 DEF n, x, y
<1>6. w \o v = Append(w, c)
  <2> DEFINE x == w \o v
             y == Append(w, c)
  <2>1. x \in Seq(S) /\ y \in Seq(S) /\ Len(x) = Len(w) + 1 /\ Len(y) = Len(w) + 1
        /\ \A i \in 1 .. Len(w) + 1 : x[i] = y[i]
    BY <1>1, <1>3, <1>4, <1>5
  <2> HIDE DEF x, y
  <2>2. x = y
    BY <2>1, SeqEqual
  <2> QED
    BY <2>2 DEF x, y
<1> QED
  BY <1>2, <1>6 DEF w, v

LEMMA FileMoved ==
    ASSUME FsInv, NEW from \in Pathname, NEW to \in Pathname, asvfs_rename(from, to),
           ParentOf(from) # ParentOf(to)
    PROVE  LET b == BlockOf(from)
               d == ParentOf(from)
               e == ParentOf(to)
           IN  \E u, r : /\ Begins(u) /\ NamedAs(Drive, u, b, Last(to)) /\ u.made = made
                         /\ crashes = 0 => EntryMoved(Drive, u, d, r, e, b)
<1> DEFINE b == BlockOf(from)
           d == ParentOf(from)
           e == ParentOf(to)
           name == Last(to)
           whole == crashes = 0
           x == RemoveEntry(d, b)
           y == AddEntry(e, b)
<1>1. /\ b \in Block /\ name \in Name /\ WellFormed(Drive) /\ Drive' = Drive /\ meta[b].name = Last(from)
      /\ next_free' = header /\ UNCHANGED crashes /\ todo' = RenameWrites(from, to)
      /\ whole \in BOOLEAN
  BY RenameFacts
<1>2. PICK t, r : /\ Leads(Drive, <<x, y>>, t, header, whole)
                  /\ t.header = header /\ t.made = made /\ t.meta = meta
                  /\ whole => EntryMoved(Drive, t, d, r, e, b) /\ Whole(t)
  BY EntryWritten
<1>3. RenameWrites(from, to) = <<x, y>> \o (IF Last(from) # name THEN <<Renamed(b, name)>> ELSE <<>>)
  BY DEF RenameWrites
<1> HIDE DEF b, d, e, name, x, y
<1>4. CASE Last(from) = name
  <2>1. todo' = <<x, y>>
    BY <1>1, <1>3, <1>4, TwoAndOne
  <2>2. NamedAs(Drive, t, b, name)
    BY <1>1, <1>2, <1>4, DriveFields DEF NamedAs, SameExtents
  <2>3. Begins(t)
    BY <1>1, <1>2, <2>1 DEF Begins
  <2> QED
    BY <1>2, <2>2, <2>3 DEF b, d, e, name
<1>5. CASE Last(from) # name
  <2> DEFINE m == [t.meta[b] EXCEPT !.name = name]
             u == Parts(t.header, t.made, [t.meta EXCEPT ![b] = m], t.content)
             a == ToMeta(b, m)
  <2>1. m = [t.meta[b] EXCEPT !.name = name] /\ u = Parts(t.header, t.made, [t.meta EXCEPT ![b] = m], t.content)
    OBVIOUS
  <2>2. Renamed(b, name) = a
    BY <1>2 DEF Renamed
  <2> HIDE DEF m, u, a
  <2>3. WellFormed(t) /\ (whole => ListedOnce(t, header))
    BY <1>1, <1>2, LeadsEnds
  <2>4. /\ Follows(t, ToMeta(b, m), u) /\ \A n : ListedOnce(t, n) => ListedOnce(u, n)
        /\ NamedAs(t, u, b, name)
        /\ u.header = t.header /\ u.made = t.made /\ u.content = t.content
    BY <1>1, <2>1, <2>3, NameWritten
  <2>5. Follows(t, a, u)
    BY <2>4 DEF a
  <2>6. Leads(Drive, Append(<<x, y>>, a), u, header, whole)
    BY <1>1, <1>2, <2>3, <2>4, <2>5, LeadsOn
  <2>7. todo' = Append(<<x, y>>, a)
    <3>1. todo' = <<x, y>> \o <<a>>
      BY <1>1, <1>3, <1>5, <2>2
    <3> QED
      BY <3>1, TwoAndOne
  <2>8. NamedAs(Drive, u, b, name)
    BY <1>2, <2>4, DriveFields DEF NamedAs, SameExtents
  <2>9. ASSUME whole PROVE Whole(u) /\ EntryMoved(Drive, u, d, r, e, b)
    <3>1. Whole(t) /\ EntryMoved(Drive, t, d, r, e, b)
      BY <1>2, <2>9
    <3>2. \A z \in Block : u.content[z] = t.content[z]
      BY <2>4
    <3>3. Whole(u)
      BY <1>1, <2>3, <2>4, <3>1, <3>2, WrittenWhole DEF NamedAs
    <3>4. EntryMoved(Drive, u, d, r, e, b)
      BY <2>4, <3>1 DEF EntryMoved
    <3> QED
      BY <3>3, <3>4
  <2>10. Begins(u)
    BY <1>1, <1>2, <2>4, <2>6, <2>7, <2>9 DEF Begins
  <2> QED
    BY <1>2, <2>4, <2>8, <2>9, <2>10 DEF b, d, e, name
<1> QED
  BY <1>4, <1>5

-----------------------------------------------------------------------------
(***************************************************************************)
(* The invariant.                                                          *)
(***************************************************************************)
LEMMA InitFsInv == InitFs => FsInv
<1> SUFFICES ASSUME InitFs PROVE FsInv
  OBVIOUS
<1>1. PICK num \in {0, 1} :
         meta = [b \in Block |-> [in_use |-> b = Root, name |-> NoName,
                                  block_type |-> IF b = Root THEN DIRECTORY ELSE UNKNOWN,
                                  file_size |-> 0, starting_block |-> b, num_blocks |-> num]]
  BY DEF InitFs
<1>2. /\ header = 2 /\ next_free = 2 /\ todo = <<>> /\ made = {} /\ crashes = 0
      /\ content = [b \in Block |-> IF b = Root THEN Directory(<<>>) ELSE Data(0)]
  BY DEF InitFs
<1>3. Drive.header = 2 /\ Drive.made = {} /\ Drive.meta = meta /\ Drive.content = content
  BY <1>2, DriveFields
<1>4. LastBlock \in Nat \ {0} /\ 2 \in 2 .. LastBlock + 1
  BY Numbers
<1>5. ASSUME NEW b \in Block
      PROVE  /\ meta[b] \in MetaData
             /\ meta[b].in_use = (b = Root) /\ meta[b].starting_block = b /\ meta[b].num_blocks = num
             /\ meta[b].block_type = IF b = Root THEN DIRECTORY ELSE UNKNOWN
  <2>1. b \in Block /\ num \in Nat
    OBVIOUS
  <2> QED
    BY <1>1, <2>1 DEF MetaData
<1>6. ASSUME NEW b \in Block
      PROVE  /\ content[b] \in Contents /\ (content[b].dir <=> b = Root)
             /\ content[b].index = <<>> /\ content[b].by = 0
  BY <1>2 DEF Directory, Data, Contents
<1>7. \A b \in Block : DOMAIN content[b].index = {}
  BY <1>6
<1>8. WellFormed(Drive)
  <2>1. meta \in [Block -> MetaData]
    <3> HIDE DEF MetaData
    <3> QED
      BY <1>1, <1>5
  <2>2. content \in [Block -> Contents]
    <3> HIDE DEF Contents
    <3> QED
      BY <1>2, <1>6
  <2>3. ASSUME NEW b \in Block PROVE meta[b].starting_block + meta[b].num_blocks <= LastBlock + 1
    <3>1. b \in Nat /\ b <= LastBlock /\ (num = 0 \/ num = 1)
      BY Numbers
    <3> QED
      BY <1>4, <1>5, <3>1
  <2> QED
    BY <1>3, <1>4, <2>1, <2>2, <2>3 DEF WellFormed
<1>9. \A b \in Block : ExtentIn(Drive, b) = {b}
  <2> SUFFICES ASSUME NEW b \in Block PROVE ExtentIn(Drive, b) = {b}
    OBVIOUS
  <2>1. b \in Nat /\ (num = 0 \/ num = 1)
    BY Numbers
  <2>2. b .. b + num - 1 \subseteq {b}
    BY <2>1
  <2> QED
    BY <1>3, <1>5, <2>2 DEF ExtentIn
<1>10. ListedOnce(Drive, 2)
  BY <1>3, <1>7 DEF ListedOnce
<1>11. Whole(Drive)
  <2>1. ASSUME NEW b \in Block
        PROVE  /\ content[b].dir <=> meta[b].block_type = DIRECTORY
               /\ ~content[b].dir => content[b].index = <<>>
               /\ ~meta[b].in_use => meta[b].block_type = UNKNOWN
    BY <1>5, <1>6 DEF UNKNOWN, DIRECTORY
  <2>2. ASSUME NEW b \in 2 .. LastBlock
        PROVE  ~meta[b].in_use /\ content[b].by = 0 /\ meta[b].starting_block = b /\ meta[b].num_blocks <= 1
    <3>1. b \in Block /\ b # Root /\ num <= 1
      BY <1>4 DEF Block, Root
    <3> QED
      BY <1>5, <1>6, <3>1
  <2>3. ASSUME NEW b \in Block, meta[b].in_use
        PROVE  /\ \A x \in ExtentIn(Drive, b) : x < 2 /\ content[x].by \in {0, b}
               /\ \A c \in Block : meta[c].in_use /\ b # c => ExtentIn(Drive, b) \cap ExtentIn(Drive, c) = {}
    <3>1. \A c \in Block : meta[c].in_use <=> c = Root
      BY <1>5
    <3>2. b = Root
      BY <2>3, <3>1
    <3>3. b < 2
      BY <3>2 DEF Root
    <3>4. ExtentIn(Drive, b) = {b} /\ content[b].by = 0
      BY <1>6, <1>9
    <3>5. \A c \in Block : meta[c].in_use => c = b
      BY <3>1, <3>2
    <3> QED
      BY <3>3, <3>4, <3>5
  <2>4. meta[Root].in_use /\ meta[Root].block_type = DIRECTORY
    BY <1>5, Numbers
  <2>5. Rooted(Drive)
    BY <1>3 DEF Rooted
  <2> QED
    BY <1>3, <1>7, <1>10, <2>1, <2>2, <2>3, <2>4, <2>5 DEF Whole
<1>12. After = Drive
  BY <1>2, NothingToDo DEF After
<1>13. Leads(Drive, todo, After, next_free, crashes = 0)
  BY <1>2, <1>8, <1>10, <1>12, NoWrites
<1>14. crashes \in 0 .. MaxCrashes
  BY <1>2, CrashesAssumption
<1> QED
  BY <1>2, <1>3, <1>11, <1>12, <1>13, <1>14 DEF FsInv

\* An operation of the file system.
Operation ==
    \E pathname \in Pathname :
       \/ asvfs_mknod(pathname) \/ asvfs_mkdir(pathname) \/ asvfs_unlink(pathname)
       \/ \E length \in Length : asvfs_truncate(pathname, length)
       \/ \E offset \in Offset, size \in Size : asvfs_write(pathname, offset, size)
       \/ \E to \in Pathname : asvfs_rename(pathname, to)

LEMMA NextIs == NextFs <=> Operation \/ WriteStep \/ Crash
  BY DEF NextFs, Operation, WriteStep

LEMMA OperationBegins ==
    ASSUME WritesFit, FsInv, Operation PROVE \E u : Begins(u)
<1>1. PICK pathname \in Pathname :
         \/ asvfs_mknod(pathname) \/ asvfs_mkdir(pathname) \/ asvfs_unlink(pathname)
         \/ \E length \in Length : asvfs_truncate(pathname, length)
         \/ \E offset \in Offset, size \in Size : asvfs_write(pathname, offset, size)
         \/ \E to \in Pathname : asvfs_rename(pathname, to)
  BY DEF Operation
<1>2. CASE asvfs_mknod(pathname)
  BY <1>2, FileCreated
<1>3. CASE asvfs_mkdir(pathname)
  BY <1>3, DirectoryCreated
<1>4. CASE asvfs_unlink(pathname)
  BY <1>4, FileDeleted
<1>5. ASSUME NEW length \in Length, asvfs_truncate(pathname, length) PROVE \E u : Begins(u)
  BY <1>5, FileTruncated
<1>6. ASSUME NEW offset \in Offset, NEW size \in Size, asvfs_write(pathname, offset, size)
      PROVE  \E u : Begins(u)
  BY <1>6, FileWritten
<1>7. ASSUME NEW to \in Pathname, asvfs_rename(pathname, to) PROVE \E u : Begins(u)
  BY <1>7, NameChanged, FileMoved
<1> QED
  BY <1>1, <1>2, <1>3, <1>4, <1>5, <1>6, <1>7

LEMMA NextKeepsFsInv ==
    ASSUME WritesFit, FsInv, [NextFs]_fsvars PROVE FsInv'
<1>1. CASE Operation
  BY <1>1, OperationBegins, BeginKeepsInv
<1>2. CASE WriteStep
  BY <1>2, WriteStepKeepsInv
<1>3. CASE Crash
  BY <1>3, CrashKeepsInv
<1>4. CASE UNCHANGED fsvars
  BY <1>4 DEF FsInv, fsvars, After, Drive
<1> QED
  BY <1>1, <1>2, <1>3, <1>4, NextIs

\* The writes still to do of every operation lead step by step to a drive that is
\* whole until the machine crashes, and from which a crash takes nothing that was
\* complete (asvfs_mknod, asvfs_mkdir, asvfs_truncate, asvfs_write, asvfs_unlink,
\* asvfs_rename and asvfs_initalize).
THEOREM FsInvariance == WritesFit => (SpecFs => []FsInv)
<1> SUFFICES ASSUME WritesFit PROVE SpecFs => []FsInv
  OBVIOUS
<1>1. FsInv /\ [NextFs]_fsvars => FsInv'
  BY NextKeepsFsInv
<1> QED
  BY <1>1, InitFsInv, PTL DEF SpecFs
-----------------------------------------------------------------------------
(***************************************************************************)
(* What a crash leaves complete stays.                                     *)
(***************************************************************************)
LEMMA KeepsSafe ==
    ASSUME NEW s, NEW t, Keeps(s, t),
           NEW c \in s.made, t.content[c] # s.content[c]
    PROVE  (s.content[c].dir /\ t.content[c].dir) \/ t.content[c] = Data(c)
  BY DEF Keeps

\* Operations write nothing at once.
LEMMA OperationReads ==
    ASSUME Operation PROVE content' = content
  BY DEF Operation, asvfs_mknod, asvfs_mkdir, asvfs_unlink, asvfs_truncate, asvfs_write,
         asvfs_rename, TakesBlock

LEMMA StepKeepsSafe ==
    ASSUME FsInv, [NextFs]_fsvars, NEW c \in made, content'[c] # content[c]
    PROVE  (content[c].dir /\ content'[c].dir) \/ content'[c] = Data(c)
<1>1. CASE Operation
  BY <1>1, OperationReads
<1>2. CASE WriteStep
  <2>1. Keeps(Drive, Drive')
    BY <1>2, WriteStepKeepsInv
  <2>2. /\ Drive.made = made /\ Drive.content = content
        /\ (Drive').content = content'
    BY DriveFields DEF Drive
  <2> QED
    BY <2>1, <2>2, KeepsSafe
<1>3. CASE Crash
  BY <1>3 DEF Crash
<1>4. CASE UNCHANGED fsvars
  BY <1>4 DEF fsvars
<1> QED
  BY <1>1, <1>2, <1>3, <1>4, NextIs

\* What was complete when the machine crashed is never overwritten by what comes
\* after, because next_free on the drive (asvfs_write_header) is never below it.
THEOREM CompleteStays == WritesFit => (SpecFs => CompleteStaysSafe)
<1> SUFFICES ASSUME WritesFit PROVE SpecFs => CompleteStaysSafe
  OBVIOUS
<1>1. FsInv /\ [NextFs]_fsvars =>
         [\A c \in made : content'[c] # content[c] =>
             (content[c].dir /\ content'[c].dir) \/ content'[c] = Data(c)]_fsvars
  BY StepKeepsSafe
<1> QED
  BY <1>1, FsInvariance, PTL DEF SpecFs, CompleteStaysSafe

-----------------------------------------------------------------------------
(***************************************************************************)
(* What the invariant says of the drive as it is.                          *)
(***************************************************************************)
\* No block is listed twice, at any moment of an operation.
LEMMA DriveAt ==
    ASSUME FsInv
    PROVE  /\ WellFormed(Drive) /\ WellFormed(After) /\ next_free = After.header
           /\ crashes \in 0 .. MaxCrashes
           /\ crashes = 0 => ListedOnce(Drive, next_free)
<1>1. Leads(Drive, todo, After, next_free, crashes = 0) /\ next_free = After.header
      /\ crashes \in 0 .. MaxCrashes
  BY DEF FsInv
<1>2. (crashes = 0) \in BOOLEAN
  OBVIOUS
<1>3. /\ WellFormed(Drive) /\ WellFormed(After)
      /\ crashes = 0 => ListedOnce(Drive, next_free) /\ ListedOnce(After, next_free)
  BY <1>1, <1>2, LeadsEnds
<1> QED
  BY <1>1, <1>3

LEMMA FsTyped ==
    ASSUME FsInv PROVE TypeOKFs
<1>1. WellFormed(Drive) /\ next_free \in 2 .. LastBlock + 1 /\ crashes \in 0 .. MaxCrashes
  BY DriveAt DEF WellFormed
<1>2. header \in 2 .. LastBlock + 1
  BY <1>1, DriveFields DEF WellFormed
<1>3. meta \in [Block -> MetaData] /\ content \in [Block -> Contents]
  BY <1>1, DriveTyped
<1>4. made \subseteq Block
  BY <1>1, RootNotMade
<1>5. ASSUME NEW b \in Block
      PROVE  /\ content[b].dir \in BOOLEAN /\ content[b].by \in Block \cup {0}
             /\ content[b].index \in Seq(Block)
  BY <1>3 DEF Contents
<1>6. ASSUME NEW b \in Block, NEW i \in DOMAIN content[b].index PROVE content[b].index[i] \in Block
  BY <1>5, ElementOfSeq
<1> QED
  BY <1>1, <1>2, <1>3, <1>4, <1>5, <1>6 DEF TypeOKFs

LEMMA FewEntries ==
    ASSUME WellFormed(Drive), ListedOnce(Drive, next_free), next_free \in Int, NEW c \in Block
    PROVE  Cardinality(Entries(c)) <= 1 /\ (c >= next_free => Entries(c) = {})
<1>1. ASSUME NEW e \in Entries(c)
      PROVE  /\ e = <<e[1], e[2]>> /\ e[1] \in Block /\ e[2] \in DOMAIN content[e[1]].index
             /\ content[e[1]].index[e[2]] = c /\ c < next_free
  <2>1. e \in Block \X (1 .. LastBlock) /\ e[2] \in DOMAIN content[e[1]].index
        /\ content[e[1]].index[e[2]] = c
    BY DEF Entries
  <2>2. e = <<e[1], e[2]>> /\ e[1] \in Block
    BY <2>1
  <2>3. c < next_free
    BY <2>1, <2>2, DriveFields DEF ListedOnce
  <2> QED
    BY <2>1, <2>2, <2>3
<1>2. ASSUME NEW e \in Entries(c), NEW f \in Entries(c) PROVE e = f
  <2>1. content[e[1]].index[e[2]] = content[f[1]].index[f[2]]
    BY <1>1
  <2>2. e[1] = f[1] /\ e[2] = f[2]
    BY <1>1, <2>1, DriveFields DEF ListedOnce
  <2> QED
    BY <1>1, <2>2
<1>3. CASE Entries(c) = {}
  BY <1>3, FS_EmptySet
<1>4. CASE Entries(c) # {}
  <2>1. PICK e : e \in Entries(c)
    BY <1>4
  <2>2. Entries(c) = {e}
    BY <1>2, <2>1
  <2>3. Cardinality(Entries(c)) = 1
    BY <2>2, FS_Singleton
  <2>4. ~(c >= next_free)
    <3>1. c < next_free /\ c \in Int
      BY <1>1, <2>1, Numbers
    <3> QED
      BY <3>1
  <2> QED
    BY <2>3, <2>4
<1> QED
  BY <1>3, <1>4

\* No directory lists a block that next_free still offers, and none is listed twice,
\* at any moment of any operation, until the machine crashes.
THEOREM ListedOnceEach == WritesFit => (SpecFs => []OneEntryEach)
<1> SUFFICES ASSUME WritesFit PROVE SpecFs => []OneEntryEach
  OBVIOUS
<1>1. FsInv => OneEntryEach
  <2> SUFFICES ASSUME FsInv PROVE OneEntryEach
    OBVIOUS
  <2>1. TypeOKFs /\ WellFormed(Drive) /\ (crashes = 0 => ListedOnce(Drive, next_free))
    BY FsTyped, DriveAt
  <2>2. next_free \in Int
    BY <2>1 DEF TypeOKFs
  <2> QED
    BY <2>1, <2>2, FewEntries DEF OneEntryEach
<1> QED
  BY <1>1, FsInvariance, PTL

\* The blocks that mknod, mkdir and truncate give to a file are its own, and what is
\* in them was written to it.
THEOREM BlocksStayOwn == WritesFit => (SpecFs => []BlocksHoldTheirOwn)
<1> SUFFICES ASSUME WritesFit PROVE SpecFs => []BlocksHoldTheirOwn
  OBVIOUS
<1>1. FsInv => BlocksHoldTheirOwn
  <2> SUFFICES ASSUME FsInv, Idle, crashes = 0, NEW b \in Block, meta[b].in_use
               PROVE  /\ \A x \in Extent(b) : x < next_free
                      /\ \A c \in {c \in Block : meta[c].in_use} : b # c => Extent(b) \cap Extent(c) = {}
                      /\ content[b].dir <=> meta[b].block_type = DIRECTORY
                      /\ \A x \in Extent(b) : content[x].by \in {0, b}
    BY DEF BlocksHoldTheirOwn
  <2>1. Whole(Drive) /\ next_free = Drive.header
    BY IdleFacts, DriveFields
  <2>2. \A c \in Block : Extent(c) = ExtentIn(Drive, c)
    BY DriveFields DEF Extent, ExtentIn
  <2>3. /\ \A x \in ExtentIn(Drive, b) : x < Drive.header /\ Drive.content[x].by \in {0, b}
        /\ \A c \in Block : Drive.meta[c].in_use /\ b # c => ExtentIn(Drive, b) \cap ExtentIn(Drive, c) = {}
        /\ Drive.content[b].dir <=> Drive.meta[b].block_type = DIRECTORY
    BY <2>1, DriveFields DEF Whole
  <2> QED
    BY <2>1, <2>2, <2>3, DriveFields
<1> QED
  BY <1>1, FsInvariance, PTL
-----------------------------------------------------------------------------
(***************************************************************************)
(* Refinement of FileTree: the tree that a drive holds.                    *)
(***************************************************************************)
EntryOf(s, d, c) == <<d, s.meta[c].name, c>>

LEMMA TreeEntries ==
    ASSUME NEW s, NEW x
    PROVE  x \in TreeOf(s) <=>
              \E d \in Block : \E i \in DOMAIN s.content[d].index : x = EntryOf(s, d, s.content[d].index[i])
  BY DEF TreeOf, Range, EntryOf

LEMMA TreeHas ==
    ASSUME NEW s, NEW d \in Block, NEW i \in DOMAIN s.content[d].index
    PROVE  EntryOf(s, d, s.content[d].index[i]) \in TreeOf(s)
  BY TreeEntries

LEMMA EntryParts ==
    ASSUME NEW s, NEW d, NEW c
    PROVE  /\ EntryOf(s, d, c)[1] = d /\ EntryOf(s, d, c)[2] = s.meta[c].name
           /\ EntryOf(s, d, c)[3] = c
  BY DEF EntryOf

\* Names, kinds and indices decide on it.
LEMMA TreeSame ==
    ASSUME NEW s, WellFormed(s), NEW u, SameTree(s, u),
           \A x \in Block : u.content[x].index = s.content[x].index
    PROVE  TreeOf(u) = TreeOf(s) /\ DirsOf(u) = DirsOf(s)
<1>1. ASSUME NEW d \in Block, NEW i \in DOMAIN s.content[d].index
      PROVE  EntryOf(u, d, s.content[d].index[i]) = EntryOf(s, d, s.content[d].index[i])
  <2>1. s.content[d].index[i] \in Block
    BY IndexTyped, ElementOfSeq
  <2> QED
    BY <2>1 DEF EntryOf, SameTree
<1>2. ASSUME NEW x PROVE x \in TreeOf(u) <=> x \in TreeOf(s)
  BY <1>1, TreeEntries
<1>3. TreeOf(u) = TreeOf(s)
  BY <1>2
<1>4. DirsOf(u) = DirsOf(s)
  BY DEF DirsOf, SameTree
<1> QED
  BY <1>3, <1>4

\* What was made is listed somewhere, under its name.
LEMMA MadeListed ==
    ASSUME NEW s, WellFormed(s), Whole(s), NEW c \in s.made
    PROVE  \E x \in TreeOf(s) : x[3] = c
<1>1. c \in Block /\ c # Root /\ Root \in Block
  BY Numbers DEF WellFormed, Root, Block
<1>2. PICK d \in Block : \E i \in DOMAIN s.content[d].index : s.content[d].index[i] = c
  <2> SUFFICES ASSUME \A d \in Block : \A i \in DOMAIN s.content[d].index : s.content[d].index[i] # c
               PROVE  FALSE
    OBVIOUS
  <2> DEFINE S == Block \ {c}
  <2>1. S \in SUBSET Block /\ Root \in S /\ c \notin S
    BY <1>1
  <2>2. \A d \in S : \A i \in DOMAIN s.content[d].index : s.content[d].index[i] \in S
    <3> SUFFICES ASSUME NEW d \in S, NEW i \in DOMAIN s.content[d].index
                 PROVE  s.content[d].index[i] \in S
      OBVIOUS
    <3>1. s.content[d].index[i] \in Block
      BY IndexTyped, ElementOfSeq
    <3> QED
      BY <3>1
  <2> HIDE DEF S
  <2>3. s.made \subseteq S
    BY <2>1, <2>2 DEF Whole, Rooted
  <2> QED
    BY <2>1, <2>3
<1>3. PICK i \in DOMAIN s.content[d].index : s.content[d].index[i] = c
  BY <1>2
<1> QED
  BY <1>3, TreeHas, EntryParts

\* Where a name is free in a directory that was made, or in the root.
TakesIn(s, d, name) ==
    /\ d \in DirsOf(s) /\ (d = Root \/ \E x \in TreeOf(s) : x[3] = d)
    /\ \A x \in TreeOf(s) : ~(x[1] = d /\ x[2] = name)

LEMMA FreeName ==
    ASSUME NEW s, WellFormed(s), Whole(s), NEW d \in Block, NEW name,
           d \in s.made \cup {Root}, s.meta[d].block_type = DIRECTORY,
           \A i \in DOMAIN s.content[d].index : s.meta[s.content[d].index[i]].name # name
    PROVE  TakesIn(s, d, name)
<1>1. d \in DirsOf(s)
  BY DEF DirsOf
<1>2. d = Root \/ \E x \in TreeOf(s) : x[3] = d
  BY MadeListed
<1>3. ASSUME NEW x \in TreeOf(s), x[1] = d, x[2] = name PROVE FALSE
  <2>1. PICK e \in Block : \E i \in DOMAIN s.content[e].index : x = EntryOf(s, e, s.content[e].index[i])
    BY TreeEntries
  <2>2. PICK i \in DOMAIN s.content[e].index : x = EntryOf(s, e, s.content[e].index[i])
    BY <2>1
  <2>3. e = d /\ s.meta[s.content[e].index[i]].name = name
    BY <1>3, <2>2, EntryParts
  <2> QED
    BY <2>3
<1> QED
  BY <1>1, <1>2, <1>3 DEF TakesIn

\* Create.
LEMMA CreatedTree ==
    ASSUME NEW s, WellFormed(s), Whole(s), NEW d \in Block, s.meta[d].block_type = DIRECTORY,
           s.header \in Block, NEW name, NEW type \in {FILE, DIRECTORY},
           NEW u, Created(s, u, d, name, type)
    PROVE  /\ TreeOf(u) = TreeOf(s) \cup {<<d, name, s.header>>}
           /\ DirsOf(u) = IF type = DIRECTORY THEN DirsOf(s) \cup {s.header} ELSE DirsOf(s)
           /\ s.header \notin DirsOf(s) /\ \A x \in TreeOf(s) : x[3] # s.header
<1> DEFINE n == s.header
           old == s.content[d].index
<1>1. /\ \A x \in Block : x # n => u.meta[x] = s.meta[x]
      /\ u.meta[n] = [s.meta[n] EXCEPT !.in_use = TRUE, !.name = name, !.block_type = type]
      /\ u.content[d] = Directory(Append(old, n))
      /\ u.content[n] = (IF type = DIRECTORY THEN Directory(<<>>) ELSE s.content[n])
      /\ \A x \in Block : x # n /\ x # d => u.content[x] = s.content[x]
  BY DEF Created
<1>2. n \in Block /\ n \in s.header .. LastBlock /\ n \in Nat
  <2>1. n \in Block /\ n \in 1 .. LastBlock
    BY DEF Block
  <2> QED
    BY <2>1
<1>3. s.meta[n].block_type = UNKNOWN /\ s.content[n].index = <<>>
  BY <1>2, FreeBlock
<1>4. n # d /\ s.meta[n] \in MetaData
  BY <1>2, <1>3 DEF UNKNOWN, DIRECTORY, WellFormed
<1>5. u.meta[n].name = name /\ u.meta[n].block_type = type
  BY <1>1, <1>4 DEF MetaData
<1>6. ASSUME NEW e \in Block, NEW i \in DOMAIN s.content[e].index
      PROVE  s.content[e].index[i] \in Block /\ s.content[e].index[i] # n
  <2>1. s.content[e].index[i] \in Block
    BY IndexTyped, ElementOfSeq
  <2>2. s.content[e].index[i] < n
    BY DEF Whole, ListedOnce
  <2> QED
    BY <1>2, <2>1, <2>2, Numbers
<1>7. old \in Seq(Block) /\ Len(old) \in Nat
  BY IndexTyped
<1>8. /\ Len(Append(old, n)) = Len(old) + 1 /\ Append(old, n)[Len(old) + 1] = n
      /\ \A i \in 1 .. Len(old) : Append(old, n)[i] = old[i]
      /\ Append(old, n) \in Seq(Block)
  BY <1>2, <1>7, Appended
<1>9. u.content[d].index = Append(old, n)
  BY <1>1 DEF Directory
<1>10. \A e \in Block : e # d => u.content[e].index = s.content[e].index
  BY <1>1, <1>3 DEF Directory
<1>11. ASSUME NEW e \in Block, NEW i \in DOMAIN s.content[e].index
       PROVE  EntryOf(u, e, s.content[e].index[i]) = EntryOf(s, e, s.content[e].index[i])
  BY <1>1, <1>6 DEF EntryOf
<1>12. EntryOf(u, d, n) = <<d, name, n>>
  BY <1>5 DEF EntryOf
<1>13. DOMAIN old = 1 .. Len(old) /\ DOMAIN Append(old, n) = 1 .. Len(old) + 1
  BY <1>7, <1>8
<1> HIDE DEF n, old
<1>14. ASSUME NEW x \in TreeOf(u) PROVE x \in TreeOf(s) \cup {<<d, name, n>>}
  <2>1. PICK e \in Block : \E i \in DOMAIN u.content[e].index : x = EntryOf(u, e, u.content[e].index[i])
    BY TreeEntries
  <2>2. PICK i \in DOMAIN u.content[e].index : x = EntryOf(u, e, u.content[e].index[i])
    BY <2>1
  <2>3. CASE e # d
    <3>1. i \in DOMAIN s.content[e].index /\ x = EntryOf(s, e, s.content[e].index[i])
      BY <1>10, <1>11, <2>2, <2>3
    <3> QED
      BY <3>1, TreeHas
  <2>4. CASE e = d /\ i = Len(old) + 1
    BY <1>8, <1>9, <1>12, <2>2, <2>4
  <2>5. CASE e = d /\ i # Len(old) + 1
    <3>1. i \in 1 .. Len(old)
      BY <1>7, <1>9, <1>13, <2>5
    <3>2. i \in DOMAIN s.content[e].index /\ u.content[e].index[i] = s.content[e].index[i]
      BY <1>8, <1>9, <1>13, <2>5, <3>1 DEF old
    <3>3. x = EntryOf(s, e, s.content[e].index[i])
      BY <1>11, <2>2, <3>2
    <3> QED
      BY <3>2, <3>3, TreeHas
  <2> QED
    BY <2>3, <2>4, <2>5
<1>15. ASSUME NEW x \in TreeOf(s) PROVE x \in TreeOf(u)
  <2>1. PICK e \in Block : \E i \in DOMAIN s.content[e].index : x = EntryOf(s, e, s.content[e].index[i])
    BY TreeEntries
  <2>2. PICK i \in DOMAIN s.content[e].index : x = EntryOf(s, e, s.content[e].index[i])
    BY <2>1
  <2>3. CASE e # d
    <3>1. i \in DOMAIN u.content[e].index /\ x = EntryOf(u, e, u.content[e].index[i])
      BY <1>10, <1>11, <2>2, <2>3
    <3> QED
      BY <3>1, TreeHas
  <2>4. CASE e = d
    <3>1. i \in 1 .. Len(old)
      BY <1>13, <2>2, <2>4 DEF old
    <3>2. i \in DOMAIN u.content[e].index /\ u.content[e].index[i] = s.content[e].index[i]
      BY <1>7, <1>8, <1>9, <1>13, <2>4, <3>1 DEF old
    <3>3. x = EntryOf(u, e, u.content[e].index[i])
      BY <1>11, <2>2, <3>2
    <3> QED
      BY <3>2, <3>3, TreeHas
  <2> QED
    BY <2>3, <2>4
<1>16. <<d, name, n>> \in TreeOf(u)
  <2>1. Len(old) + 1 \in DOMAIN u.content[d].index /\ u.content[d].index[Len(old) + 1] = n
    BY <1>7, <1>8, <1>9, <1>13
  <2>2. EntryOf(u, d, u.content[d].index[Len(old) + 1]) \in TreeOf(u)
    BY <2>1, TreeHas
  <2> QED
    BY <1>12, <2>1, <2>2
<1>17. TreeOf(u) = TreeOf(s) \cup {<<d, name, n>>}
  BY <1>14, <1>15, <1>16
<1>18. n \notin DirsOf(s)
  BY <1>3 DEF DirsOf, UNKNOWN, DIRECTORY, n
<1>19. \A x \in TreeOf(s) : x[3] # n
  BY <1>6, TreeEntries, EntryParts
<1>20. ASSUME NEW x \in Block
       PROVE  x \in DirsOf(u) <=> x \in DirsOf(s) \/ (x = n /\ type = DIRECTORY)
  BY <1>1, <1>5, <1>18 DEF DirsOf
<1>21. DirsOf(u) \subseteq Block /\ DirsOf(s) \subseteq Block
  BY DEF DirsOf
<1>22. DirsOf(u) = IF type = DIRECTORY THEN DirsOf(s) \cup {n} ELSE DirsOf(s)
  BY <1>2, <1>20, <1>21
<1> QED
  BY <1>17, <1>18, <1>19, <1>22 DEF n
\* Delete: the entry that is gone is the only one of its block.
LEMMA DeletedTree ==
    ASSUME NEW s, WellFormed(s), Whole(s), NEW d \in Block, NEW f \in Block,
           NEW r, NEW u, Deleted(s, u, d, f, r)
    PROVE  /\ EntryOf(s, d, f) \in TreeOf(s)
           /\ TreeOf(u) = TreeOf(s) \ {EntryOf(s, d, f)} /\ DirsOf(u) = DirsOf(s)
<1>1. /\ r \in 1 .. Len(s.content[d].index) /\ s.content[d].index[r] = f /\ u.meta = s.meta
      /\ u.content = [s.content EXCEPT ![d] = Directory(RemoveAt(s.content[d].index, r))]
  BY DEF Deleted
<1>2. EntryLess(s, u, d, r)
  BY <1>1, EntryRemoved
<1>3. \A e, g \in Block : \A i \in DOMAIN s.content[e].index, j \in DOMAIN s.content[g].index :
         s.content[e].index[i] = s.content[g].index[j] => e = g /\ i = j
  BY DEF Whole, ListedOnce
<1>4. ListedOnce(s, s.header)
  BY DEF Whole
<1>5. NotListed(u, f)
  BY <1>1, <1>2, <1>4 DEF EntryLess
<1>6. r \in DOMAIN s.content[d].index
  <2>1. s.content[d].index \in Seq(Block)
    BY IndexTyped
  <2> QED
    BY <1>1, <2>1
<1>7. EntryOf(s, d, f) \in TreeOf(s)
  BY <1>1, <1>6, TreeHas
<1>8. \A e, c : EntryOf(u, e, c) = EntryOf(s, e, c)
  BY <1>1 DEF EntryOf
<1>9. ASSUME NEW x \in TreeOf(u) PROVE x \in TreeOf(s) \ {EntryOf(s, d, f)}
  <2>1. PICK e \in Block : \E i \in DOMAIN u.content[e].index : x = EntryOf(u, e, u.content[e].index[i])
    BY TreeEntries
  <2>2. PICK i \in DOMAIN u.content[e].index : x = EntryOf(u, e, u.content[e].index[i])
    BY <2>1
  <2>3. PICK j \in DOMAIN s.content[e].index : u.content[e].index[i] = s.content[e].index[j]
    BY <1>2 DEF EntryLess
  <2>4. x \in TreeOf(s)
    BY <1>8, <2>2, <2>3, TreeHas
  <2>5. x[3] # f
    BY <1>5, <2>2, EntryParts DEF NotListed
  <2>6. EntryOf(s, d, f)[3] = f
    BY EntryParts
  <2> QED
    BY <2>4, <2>5, <2>6
<1>10. ASSUME NEW x \in TreeOf(s), x # EntryOf(s, d, f) PROVE x \in TreeOf(u)
  <2>1. PICK e \in Block : \E j \in DOMAIN s.content[e].index : x = EntryOf(s, e, s.content[e].index[j])
    BY TreeEntries
  <2>2. PICK j \in DOMAIN s.content[e].index : x = EntryOf(s, e, s.content[e].index[j])
    BY <2>1
  <2>3. ~(e = d /\ j = r)
    BY <1>1, <1>10, <2>2
  <2>4. PICK i \in DOMAIN u.content[e].index : u.content[e].index[i] = s.content[e].index[j]
    BY <1>2, <2>3 DEF EntryLess
  <2> QED
    BY <1>8, <2>2, <2>4, TreeHas
<1>11. TreeOf(u) = TreeOf(s) \ {EntryOf(s, d, f)}
  BY <1>9, <1>10
<1>12. DirsOf(u) = DirsOf(s)
  BY <1>1 DEF DirsOf
<1> QED
  BY <1>7, <1>11, <1>12

\* Move: b goes from directory d to e and gets a name.
Relisted(s, u, e, b) ==
    /\ \A x \in Block : \A i \in DOMAIN u.content[x].index :
          \/ u.content[x].index[i] = b /\ x = e
          \/ u.content[x].index[i] # b /\
             \E j \in DOMAIN s.content[x].index : u.content[x].index[i] = s.content[x].index[j]
    /\ \A x \in Block : \A j \in DOMAIN s.content[x].index : s.content[x].index[j] # b =>
          \E i \in DOMAIN u.content[x].index : u.content[x].index[i] = s.content[x].index[j]
    /\ \E i \in DOMAIN u.content[e].index : u.content[e].index[i] = b

LEMMA MovedTree ==
    ASSUME NEW s, WellFormed(s), Whole(s), NEW d \in Block, NEW e \in Block, NEW b \in Block,
           \E i \in DOMAIN s.content[d].index : s.content[d].index[i] = b,
           NEW name, NEW u, WellFormed(u), Relisted(s, u, e, b), NamedAs(s, u, b, name)
    PROVE  /\ EntryOf(s, d, b) \in TreeOf(s)
           /\ TreeOf(u) = (TreeOf(s) \ {EntryOf(s, d, b)}) \cup {<<e, name, b>>}
           /\ DirsOf(u) = DirsOf(s)
<1>1. \A x, g \in Block : \A i \in DOMAIN s.content[x].index, j \in DOMAIN s.content[g].index :
         s.content[x].index[i] = s.content[g].index[j] => x = g /\ i = j
  BY DEF Whole, ListedOnce
<1>2. PICK r \in DOMAIN s.content[d].index : s.content[d].index[r] = b
  OBVIOUS
<1>3. EntryOf(s, d, b) \in TreeOf(s) /\ EntryOf(s, d, b)[3] = b
  BY <1>2, TreeHas, EntryParts
<1>4. u.meta[b].name = name /\ \A c \in Block : c # b => u.meta[c].name = s.meta[c].name
  BY DEF NamedAs
<1>5. EntryOf(u, e, b) = <<e, name, b>>
  BY <1>4 DEF EntryOf
<1>6. \A x : \A c \in Block : c # b => EntryOf(u, x, c) = EntryOf(s, x, c)
  BY <1>4 DEF EntryOf
<1>7. <<e, name, b>> \in TreeOf(u)
  <2>1. PICK i \in DOMAIN u.content[e].index : u.content[e].index[i] = b
    BY DEF Relisted
  <2> QED
    BY <1>5, <2>1, TreeHas
<1>8. ASSUME NEW x \in TreeOf(u)
      PROVE  x \in (TreeOf(s) \ {EntryOf(s, d, b)}) \cup {<<e, name, b>>}
  <2>1. PICK g \in Block : \E i \in DOMAIN u.content[g].index : x = EntryOf(u, g, u.content[g].index[i])
    BY TreeEntries
  <2>2. PICK i \in DOMAIN u.content[g].index : x = EntryOf(u, g, u.content[g].index[i])
    BY <2>1
  <2> DEFINE c == u.content[g].index[i]
  <2>3. c \in Block /\ x = EntryOf(u, g, c) /\ x[3] = c
    BY <2>2, IndexTyped, ElementOfSeq, EntryParts
  <2>4. (c = b /\ g = e) \/ (c # b /\ \E j \in DOMAIN s.content[g].index : c = s.content[g].index[j])
    BY DEF Relisted
  <2> HIDE DEF c
  <2>5. CASE c = b /\ g = e
    BY <1>5, <2>3, <2>5
  <2>6. CASE c # b /\ \E j \in DOMAIN s.content[g].index : c = s.content[g].index[j]
    <3>1. x = EntryOf(s, g, c) /\ x # EntryOf(s, d, b)
      BY <1>3, <1>6, <2>3, <2>6
    <3>2. EntryOf(s, g, c) \in TreeOf(s)
      BY <2>6, TreeHas
    <3> QED
      BY <3>1, <3>2
  <2> QED
    BY <2>4, <2>5, <2>6
<1>9. ASSUME NEW x \in TreeOf(s), x # EntryOf(s, d, b) PROVE x \in TreeOf(u)
  <2>1. PICK g \in Block : \E j \in DOMAIN s.content[g].index : x = EntryOf(s, g, s.content[g].index[j])
    BY TreeEntries
  <2>2. PICK j \in DOMAIN s.content[g].index : x = EntryOf(s, g, s.content[g].index[j])
    BY <2>1
  <2> DEFINE c == s.content[g].index[j]
  <2>3. c \in Block /\ x = EntryOf(s, g, c)
    BY <2>2, IndexTyped, ElementOfSeq
  <2>4. c # b
    BY <1>1, <1>2, <1>9, <2>2
  <2>5. \E i \in DOMAIN u.content[g].index : u.content[g].index[i] = c
    BY <2>4 DEF Relisted
  <2> HIDE DEF c
  <2>6. x = EntryOf(u, g, c)
    BY <1>6, <2>3, <2>4
  <2> QED
    BY <2>5, <2>6, TreeHas
<1>10. TreeOf(u) = (TreeOf(s) \ {EntryOf(s, d, b)}) \cup {<<e, name, b>>}
  BY <1>7, <1>8, <1>9
<1>11. DirsOf(u) = DirsOf(s)
  BY DEF DirsOf, NamedAs, SameExtents
<1> QED
  BY <1>3, <1>10, <1>11
\* Both ways of moving it.
LEMMA MovedRelists ==
    ASSUME NEW s, WellFormed(s), NEW d \in Block, NEW e \in Block, NEW b \in Block,
           NEW r, NEW u, EntryMoved(s, u, d, r, e, b), Whole(s), Whole(u)
    PROVE  Relisted(s, u, e, b)
<1>1. /\ \A x \in Block : \A i \in DOMAIN u.content[x].index :
            \/ \E j \in DOMAIN s.content[x].index : u.content[x].index[i] = s.content[x].index[j]
            \/ x = e /\ u.content[x].index[i] = b
      /\ \A x \in Block : \A j \in DOMAIN s.content[x].index : ~(x = d /\ j = r) =>
            \E i \in DOMAIN u.content[x].index : u.content[x].index[i] = s.content[x].index[j]
      /\ \E i \in DOMAIN u.content[e].index : u.content[e].index[i] = b
  BY EntriesAfterMove
<1>2. PICK l \in DOMAIN u.content[e].index : u.content[e].index[l] = b
  BY <1>1
<1>3. \A x \in Block : \A i \in DOMAIN u.content[x].index : u.content[x].index[i] = b => x = e
  BY <1>2 DEF Whole, ListedOnce
<1>4. s.content[d].index[r] = b
  BY DEF EntryMoved
<1> QED
  BY <1>1, <1>3, <1>4 DEF Relisted

LEMMA RenamedRelists ==
    ASSUME NEW s, Whole(s), NEW d \in Block, NEW b \in Block,
           \E i \in DOMAIN s.content[d].index : s.content[d].index[i] = b,
           NEW u, u.content = s.content
    PROVE  Relisted(s, u, d, b)
<1>1. PICK l \in DOMAIN s.content[d].index : s.content[d].index[l] = b
  OBVIOUS
<1>2. \A x \in Block : \A i \in DOMAIN s.content[x].index : s.content[x].index[i] = b => x = d
  BY <1>1 DEF Whole, ListedOnce
<1> QED
  BY <1>1, <1>2 DEF Relisted

\* The tree before and after the first step of an operation.
LEMMA TreeBefore ==
    ASSUME FsInv, Idle PROVE treeBar = TreeOf(Drive) /\ dirsBar = DirsOf(Drive)
  BY IdleFacts DEF treeBar, dirsBar

LEMMA TreeAfter ==
    ASSUME FsInv, NEW u, Begins(u) PROVE treeBar' = TreeOf(u) /\ dirsBar' = DirsOf(u)
<1>1. After' = u
  BY BeginKeepsInv
<1>2. treeBar' = TreeOf(After') /\ dirsBar' = DirsOf(After')
  BY DEF treeBar, dirsBar, TreeOf, DirsOf
<1> QED
  BY <1>1, <1>2

LEMMA FreeNameFound ==
    ASSUME FsInv, Idle, crashes = 0, NEW d \in Block, NEW name, d \in made \cup {Root},
           meta[d].block_type = DIRECTORY, Child(d, name) = NotFound
    PROVE  TakesIn(Drive, d, name)
<1>1. WellFormed(Drive) /\ Whole(Drive)
  BY IdleFacts
<1>2. content[d].dir
  BY <1>1, DriveFields DEF Whole
<1>3. \A i \in DOMAIN content[d].index : meta[content[d].index[i]].name # name
  BY <1>1, <1>2, ChildMissing
<1>4. /\ d \in Drive.made \cup {Root} /\ Drive.meta[d].block_type = DIRECTORY
      /\ \A i \in DOMAIN Drive.content[d].index : Drive.meta[Drive.content[d].index[i]].name # name
  BY <1>3, DriveFields
<1> QED
  BY <1>1, <1>4, FreeName

LEMMA TakesAt ==
    ASSUME FsInv, Idle, NEW d, NEW name, TakesIn(Drive, d, name)
    PROVE  Tree!Takes(d, name) /\ d \in dirsBar
  BY TreeBefore DEF TakesIn, Tree!Takes, Tree!InTree

\* One operation after the other.
LEMMA CreateRefines ==
    ASSUME FsInv, NEW pathname \in Pathname, TakesBlock(pathname), crashes = 0,
           NEW type \in {FILE, DIRECTORY}, NEW u, Begins(u),
           Created(Drive, u, ParentOf(pathname), Last(pathname), type)
    PROVE  Tree!Next
<1> DEFINE d == ParentOf(pathname)
           name == Last(pathname)
           n == header
<1>1. /\ d \in Block /\ meta[d].block_type = DIRECTORY /\ d \in made \cup {Root}
      /\ n \in Block /\ name \in Name /\ Child(d, name) = NotFound
  BY TakesBlockFacts
<1>2. Idle
  BY DEF TakesBlock
<1>3. WellFormed(Drive) /\ Whole(Drive)
  BY <1>2, IdleFacts
<1>4. Tree!Takes(d, name) /\ d \in dirsBar
  <2> HIDE DEF d, name
  <2>1. TakesIn(Drive, d, name)
    BY <1>1, <1>2, FreeNameFound
  <2> QED
    BY <1>2, <2>1, TakesAt
<1>5. Drive.meta[d].block_type = DIRECTORY /\ Drive.header = n /\ Drive.header \in Block
  BY <1>1, DriveFields
<1>6. Created(Drive, u, d, name, type)
  OBVIOUS
<1> HIDE DEF d, name
<1>7. /\ TreeOf(u) = TreeOf(Drive) \cup {<<d, name, Drive.header>>}
      /\ DirsOf(u) = IF type = DIRECTORY THEN DirsOf(Drive) \cup {Drive.header} ELSE DirsOf(Drive)
      /\ Drive.header \notin DirsOf(Drive) /\ \A x \in TreeOf(Drive) : x[3] # Drive.header
  BY <1>1, <1>3, <1>5, <1>6, CreatedTree
<1>8. /\ treeBar' = treeBar \cup {<<d, name, n>>}
      /\ dirsBar' = IF type = DIRECTORY THEN dirsBar \cup {n} ELSE dirsBar
      /\ n \notin dirsBar /\ \A x \in treeBar : x[3] # n
  BY <1>2, <1>5, <1>7, TreeBefore, TreeAfter
<1>9. Tree!Create(d, name, n, type = DIRECTORY)
  BY <1>4, <1>8 DEF Tree!Create, Tree!InTree
<1>10. (type = DIRECTORY) \in BOOLEAN
  OBVIOUS
<1> QED
  BY <1>1, <1>4, <1>9, <1>10 DEF Tree!Next

LEMMA UnlinkRefines ==
    ASSUME FsInv, NEW pathname \in Pathname, asvfs_unlink(pathname), crashes = 0
    PROVE  Tree!Next
<1> DEFINE d == ParentOf(pathname)
           f == BlockOf(pathname)
           e == EntryOf(Drive, d, f)
<1>1. Idle /\ IsFile(f)
  BY DEF asvfs_unlink
<1>2. PICK u, r : Begins(u) /\ Deleted(Drive, u, d, f, r)
  BY FileDeleted
<1>3. f \in Block /\ meta[f].block_type = FILE /\ d \in Block
  BY <1>1, FileFacts
<1>4. WellFormed(Drive) /\ Whole(Drive)
  BY <1>1, IdleFacts
<1> HIDE DEF d, f
<1>5. /\ EntryOf(Drive, d, f) \in TreeOf(Drive)
      /\ TreeOf(u) = TreeOf(Drive) \ {EntryOf(Drive, d, f)} /\ DirsOf(u) = DirsOf(Drive)
  BY <1>2, <1>3, <1>4, DeletedTree
<1>6. e \in treeBar /\ treeBar' = treeBar \ {e} /\ dirsBar' = dirsBar
  BY <1>1, <1>2, <1>5, TreeBefore, TreeAfter
<1>7. e[3] \notin dirsBar
  <2>1. e[3] = f
    BY EntryParts
  <2>2. dirsBar = {b \in Block : meta[b].block_type = DIRECTORY}
    BY <1>1, TreeBefore, DriveFields DEF DirsOf
  <2> QED
    BY <1>3, <2>1, <2>2 DEF FILE, DIRECTORY
<1> HIDE DEF e
<1>8. Tree!Delete(e)
  BY <1>6, <1>7 DEF Tree!Delete
<1> QED
  BY <1>6, <1>8 DEF Tree!Next

LEMMA RenameRefines ==
    ASSUME FsInv, NEW from \in Pathname, NEW to \in Pathname, asvfs_rename(from, to), crashes = 0
    PROVE  Tree!Next
<1> DEFINE b == BlockOf(from)
           d == ParentOf(from)
           e == ParentOf(to)
           name == Last(to)
           x == EntryOf(Drive, d, b)
<1>1. /\ b \in Block /\ d \in Block /\ Lists(d, b) /\ b # NotFound
      /\ e \in Block /\ meta[e].block_type = DIRECTORY /\ e \in made \cup {Root}
      /\ name \in Name /\ Child(e, name) = NotFound /\ ~IsPrefix(from, to)
      /\ Idle /\ WellFormed(Drive) /\ Whole(Drive)
  BY RenameFacts
<1>2. e # b
  <2>1. to \in Seq(Name) /\ Len(to) \in Nat \ {0}
    BY PathnameTyped
  <2>2. e = Upto(to, Len(to) - 1) /\ Len(to) - 1 \in 0 .. Len(to)
    BY <2>1, PathSteps
  <2> QED
    BY <1>1, <2>2, ThroughBlock
<1>3. \E i \in DOMAIN Drive.content[d].index : Drive.content[d].index[i] = b
  BY <1>1, DriveFields DEF Lists
<1>4. PICK u : Begins(u) /\ NamedAs(Drive, u, b, name) /\ Relisted(Drive, u, e, b)
  <2>1. CASE d = e
    <3>1. PICK u : Begins(u) /\ NamedAs(Drive, u, b, name) /\ u.content = content
      BY <2>1, NameChanged
    <3>2. u.content = Drive.content
      BY <3>1, DriveFields
    <3> HIDE DEF b, d, e, name
    <3>3. Relisted(Drive, u, d, b)
      BY <1>1, <1>3, <3>2, RenamedRelists
    <3> QED
      BY <2>1, <3>1, <3>3
  <2>2. CASE d # e
    <3>1. PICK u, r : Begins(u) /\ NamedAs(Drive, u, b, name) /\ EntryMoved(Drive, u, d, r, e, b)
      BY <2>2, FileMoved
    <3>2. Whole(u)
      BY <3>1 DEF Begins
    <3> HIDE DEF b, d, e, name
    <3>3. Relisted(Drive, u, e, b)
      BY <1>1, <3>1, <3>2, MovedRelists
    <3> QED
      BY <3>1, <3>3
  <2> QED
    BY <2>1, <2>2
<1> HIDE DEF b, d, e, name
<1>5. WellFormed(u)
  BY <1>4, LeadsEnds DEF Begins
<1>6. /\ EntryOf(Drive, d, b) \in TreeOf(Drive)
      /\ TreeOf(u) = (TreeOf(Drive) \ {EntryOf(Drive, d, b)}) \cup {<<e, name, b>>}
      /\ DirsOf(u) = DirsOf(Drive)
  BY <1>1, <1>3, <1>4, <1>5, MovedTree
<1>7. x \in treeBar /\ x[3] = b /\ dirsBar' = dirsBar
      /\ treeBar' = (treeBar \ {x}) \cup {<<e, name, x[3]>>}
  BY <1>1, <1>4, <1>6, TreeBefore, TreeAfter, EntryParts
<1>8. Tree!Takes(e, name) /\ e \in dirsBar
  <2>1. TakesIn(Drive, e, name)
    BY <1>1, FreeNameFound
  <2> QED
    BY <1>1, <2>1, TakesAt
<1> HIDE DEF x
<1>9. Tree!Move(x, e, name)
  BY <1>2, <1>7, <1>8 DEF Tree!Move
<1> QED
  BY <1>1, <1>7, <1>8, <1>9 DEF Tree!Next

\* Cutting a file and writing to it change nothing in the tree.
LEMMA SameTreeRefines ==
    ASSUME FsInv, Idle, crashes = 0, NEW u, Begins(u), SameTree(Drive, u),
           \A x \in Block : u.content[x].index = content[x].index
    PROVE  UNCHANGED <<treeBar, dirsBar>>
<1>1. WellFormed(Drive) /\ \A x \in Block : u.content[x].index = Drive.content[x].index
  BY IdleFacts, DriveFields
<1>2. TreeOf(u) = TreeOf(Drive) /\ DirsOf(u) = DirsOf(Drive)
  BY <1>1, TreeSame
<1> QED
  BY <1>2, TreeBefore, TreeAfter

LEMMA OperationRefines ==
    ASSUME WritesFit, FsInv, Operation, crashes = 0
    PROVE  Tree!Next \/ UNCHANGED <<treeBar, dirsBar>>
<1>1. PICK pathname \in Pathname :
         \/ asvfs_mknod(pathname) \/ asvfs_mkdir(pathname) \/ asvfs_unlink(pathname)
         \/ \E length \in Length : asvfs_truncate(pathname, length)
         \/ \E offset \in Offset, size \in Size : asvfs_write(pathname, offset, size)
         \/ \E to \in Pathname : asvfs_rename(pathname, to)
  BY DEF Operation
<1>2. CASE asvfs_mknod(pathname)
  <2>1. TakesBlock(pathname)
    BY <1>2 DEF asvfs_mknod
  <2> QED
    BY <1>2, <2>1, FileCreated, CreateRefines
<1>3. CASE asvfs_mkdir(pathname)
  <2>1. TakesBlock(pathname)
    BY <1>3 DEF asvfs_mkdir
  <2> QED
    BY <1>3, <2>1, DirectoryCreated, CreateRefines
<1>4. CASE asvfs_unlink(pathname)
  BY <1>4, UnlinkRefines
<1>5. ASSUME NEW length \in Length, asvfs_truncate(pathname, length)
      PROVE  UNCHANGED <<treeBar, dirsBar>>
  <2>1. Idle
    BY <1>5 DEF asvfs_truncate
  <2> QED
    BY <1>5, <2>1, FileTruncated, SameTreeRefines
<1>6. ASSUME NEW offset \in Offset, NEW size \in Size, asvfs_write(pathname, offset, size)
      PROVE  UNCHANGED <<treeBar, dirsBar>>
  <2>1. Idle
    BY <1>6 DEF asvfs_write
  <2> QED
    BY <1>6, <2>1, FileWritten, SameTreeRefines
<1>7. ASSUME NEW to \in Pathname, asvfs_rename(pathname, to) PROVE Tree!Next
  BY <1>7, RenameRefines
<1> QED
  BY <1>1, <1>2, <1>3, <1>4, <1>5, <1>6, <1>7

LEMMA StepRefines ==
    ASSUME WritesFit, FsInv, [NextFs]_fsvars, crashes' = 0
    PROVE  [Tree!Next]_<<treeBar, dirsBar>>
<1>1. CASE Operation
  <2>1. PICK u : Begins(u)
    BY <1>1, OperationBegins
  <2>2. crashes = 0
    BY <2>1 DEF Begins
  <2> QED
    BY <1>1, <2>2, OperationRefines
<1>2. CASE WriteStep
  <2>1. After' = After
    BY <1>2, WriteStepKeepsInv
  <2> QED
    BY <2>1 DEF treeBar, dirsBar, TreeOf, DirsOf
<1>3. CASE Crash
  <2>1. crashes' = crashes + 1 /\ crashes \in 0 .. MaxCrashes
    BY <1>3, DriveAt DEF Crash
  <2> QED
    BY <2>1
<1>4. CASE UNCHANGED fsvars
  BY <1>4 DEF fsvars, treeBar, dirsBar, After, Drive
<1> QED
  BY <1>1, <1>2, <1>3, <1>4, NextIs

LEMMA InitRefines ==
    ASSUME InitFs PROVE Tree!Init
<1>1. FsInv /\ Idle /\ Drive.content = content /\ Drive.meta = meta
  BY InitFsInv, DriveFields DEF InitFs, Idle
<1>2. treeBar = TreeOf(Drive) /\ dirsBar = DirsOf(Drive)
  BY <1>1, TreeBefore
<1>3. \A b \in Block : content[b].index = <<>>
  BY DEF InitFs, Directory, Data
<1>4. TreeOf(Drive) = {}
  BY <1>1, <1>3, TreeEntries
<1>5. \A b \in Block : meta[b].block_type = IF b = Root THEN DIRECTORY ELSE UNKNOWN
  BY DEF InitFs
<1>6. DirsOf(Drive) = {Root}
  BY <1>1, <1>5, Numbers DEF DirsOf, UNKNOWN, DIRECTORY
<1> QED
  BY <1>2, <1>4, <1>6 DEF Tree!Init

\* The directories, names and blocks on the drive are a tree of named files and
\* directories, on which each operation takes effect as a whole: mknod and mkdir
\* create, unlink deletes, rename moves, and truncate and write change nothing.
THEOREM TreeRefinement == WritesFit => (SpecFs => ImplementsTree)
<1> SUFFICES ASSUME WritesFit PROVE SpecFs => ImplementsTree
  OBVIOUS
<1>1. FsInv /\ [NextFs]_fsvars => [crashes' = 0 => [Tree!Next]_<<treeBar, dirsBar>>]_fsvars
  BY StepRefines
<1> QED
  BY <1>1, InitRefines, FsInvariance, PTL DEF SpecFs, ImplementsTree
-----------------------------------------------------------------------------
(***************************************************************************)
(* Walking down from the root.                                             *)
(***************************************************************************)
Further(S) == S \cup UNION {Range(content[d].index) : d \in {b \in S : content[b].dir}}

LEMMA ReachLoop ==
    /\ Reach[0] = {Root}
    /\ \A k \in 1 .. LastBlock : Reach[k] = Further(Reach[k - 1])
<1> DEFINE n == LastBlock
<1>0. n \in Nat
  BY Numbers
<1> HIDE DEF n
<1> DEFINE Loop(f, l) == f = [k \in 0 .. l |-> IF k = 0 THEN {Root} ELSE Further(f[k - 1])]
           good == {l \in 0 .. n : \E f : Loop(f, l)}
<1>1. 0 \in good
  <2>1. Loop([k \in 0 .. 0 |-> {Root}], 0)
    OBVIOUS
  <2> HIDE DEF Loop
  <2> QED
    BY <1>0, <2>1
<1>2. ASSUME NEW l \in 1 .. n, l - 1 \in good PROVE l \in good
  <2>1. PICK g : Loop(g, l - 1)
    BY <1>2
  <2> DEFINE f == [k \in 0 .. l |-> IF k = l THEN Further(g[l - 1]) ELSE g[k]]
  <2>2. l \in Nat /\ l # 0 /\ l - 1 \in 0 .. l - 1 /\ l \in 0 .. n
    BY <1>0
  <2>3. \A k \in 0 .. l - 1 : f[k] = g[k]
    BY <2>2
  <2>4. ASSUME NEW k \in 0 .. l PROVE f[k] = IF k = 0 THEN {Root} ELSE Further(f[k - 1])
    <3>1. CASE k = l
      BY <2>2, <2>3, <3>1
    <3>2. CASE k # l
      <4>1. k \in 0 .. l - 1 /\ (k # 0 => k - 1 \in 0 .. l - 1)
        BY <2>2, <3>2
      <4>2. g[k] = IF k = 0 THEN {Root} ELSE Further(g[k - 1])
        BY <2>1, <4>1
      <4> QED
        BY <2>3, <4>1, <4>2, Zenon
    <3> QED
      BY <3>1, <3>2
  <2>5. f = [k \in 0 .. l |-> f[k]]
    OBVIOUS
  <2> HIDE DEF f
  <2>6. Loop(f, l)
    BY <2>4, <2>5
  <2> QED
    BY <2>2, <2>6
<1> HIDE DEF Loop
<1>3. \A l \in 0 .. n : l \in good
  <2> HIDE DEF good
  <2> QED
    BY <1>0, <1>1, <1>2, CountingUp
<1>4. n \in good
  BY <1>0, <1>3
<1>5. \E f : Loop(f, n)
  BY <1>4
<1> DEFINE after == CHOOSE f : Loop(f, n)
<1>6. Loop(after, n)
  BY <1>5, Zenon
<1>7. Reach = after
  BY DEF Reach, Loop, Further, n
<1> HIDE DEF after
<1>8. \A k \in 0 .. n : after[k] = IF k = 0 THEN {Root} ELSE Further(after[k - 1])
  BY <1>6, Zenon DEF Loop
<1>9. 0 \in 0 .. n /\ \A k \in 1 .. n : k \in 0 .. n /\ k # 0
  BY <1>0
<1> QED
  BY <1>7, <1>8, <1>9 DEF n

\* Going further adds entries only, and what closes has all that was made.
LEMMA FurtherFacts ==
    ASSUME WellFormed(Drive), Whole(Drive), NEW S, S \subseteq made \cup {Root}
    PROVE  /\ S \subseteq Further(S) /\ Further(S) \subseteq made \cup {Root}
           /\ Root \in S /\ Further(S) = S => made \subseteq S
<1>1. made \subseteq Block /\ Root \in Block
  BY RootNotMade, Numbers
<1>2. \A d \in Block : \A i \in DOMAIN content[d].index : content[d].index[i] \in made
  BY DriveFields DEF Whole
<1>3. S \subseteq Further(S)
  BY DEF Further
<1>4. ASSUME NEW x \in Further(S) PROVE x \in made \cup {Root}
  <2>1. CASE x \in S
    BY <2>1
  <2>2. CASE x \notin S
    <3>1. PICK d \in S : content[d].dir /\ x \in Range(content[d].index)
      BY <2>2 DEF Further
    <3>2. d \in Block
      BY <1>1
    <3> QED
      BY <1>2, <3>1, <3>2 DEF Range
  <2> QED
    BY <2>1, <2>2
<1>5. ASSUME Root \in S, Further(S) = S PROVE made \subseteq S
  <2>1. \A d \in S : \A i \in DOMAIN content[d].index : content[d].index[i] \in S
    <3> SUFFICES ASSUME NEW d \in S, NEW i \in DOMAIN content[d].index PROVE content[d].index[i] \in S
      OBVIOUS
    <3>1. d \in Block /\ content[d].index \in Seq(Block)
      BY <1>1, DriveTyped
    <3>2. content[d].dir
      <4>1. ~content[d].dir => content[d].index = <<>>
        BY <3>1, DriveFields DEF Whole
      <4> QED
        BY <3>1, <4>1
    <3>3. content[d].index[i] \in Further(S)
      BY <3>2 DEF Further, Range
    <3> QED
      BY <1>5, <3>3
  <2>2. S \in SUBSET Block
    BY <1>1
  <2>3. Rooted(Drive)
    BY DEF Whole
  <2> QED
    BY <1>5, <2>1, <2>2, <2>3, DriveFields DEF Rooted
<1> QED
  BY <1>3, <1>4, <1>5

\* Each step finds one more, until all is found.
LEMMA AllFound ==
    ASSUME WellFormed(Drive), Whole(Drive)
    PROVE  Reach[LastBlock] = made \cup {Root}
<1>1. LastBlock \in Nat /\ made \subseteq Block /\ Root \in Block
  BY RootNotMade, Numbers
<1>2. IsFiniteSet(Block) /\ Cardinality(Block) = LastBlock
  BY <1>1, Numbers, FS_Interval DEF Block
<1> DEFINE Found(k) == /\ Reach[k] \subseteq made \cup {Root} /\ Root \in Reach[k]
                       /\ made \subseteq Reach[k] \/ Cardinality(Reach[k]) >= k + 1
           S == {k \in 0 .. LastBlock : Found(k)}
<1>3. \A k \in 0 .. LastBlock : Reach[k] \subseteq made \cup {Root} =>
         IsFiniteSet(Reach[k]) /\ Cardinality(Reach[k]) \in Nat /\ Cardinality(Reach[k]) <= LastBlock
  <2> SUFFICES ASSUME NEW k \in 0 .. LastBlock, Reach[k] \subseteq made \cup {Root}
               PROVE  IsFiniteSet(Reach[k]) /\ Cardinality(Reach[k]) \in Nat /\ Cardinality(Reach[k]) <= LastBlock
    OBVIOUS
  <2>1. Reach[k] \in SUBSET Block
    BY <1>1
  <2>2. IsFiniteSet(Reach[k]) /\ Cardinality(Reach[k]) <= Cardinality(Block)
    BY <1>2, <2>1, FS_Subset
  <2>3. Cardinality(Reach[k]) \in Nat
    BY <2>2, FS_CardinalityType
  <2> QED
    BY <1>2, <2>2, <2>3
<1>4. Found(0)
  <2>1. Reach[0] = {Root} /\ Cardinality({Root}) = 1
    BY ReachLoop, FS_Singleton
  <2> QED
    BY <2>1
<1>5. ASSUME NEW k \in 1 .. LastBlock, Found(k - 1) PROVE Found(k)
  <2> DEFINE R == Reach[k - 1]
             T == Reach[k]
  <2>1. T = Further(R)
    BY ReachLoop
  <2>2. k - 1 \in 0 .. LastBlock /\ k \in 0 .. LastBlock
    BY <1>1
  <2>3. R \subseteq made \cup {Root} /\ Root \in R /\ (made \subseteq R \/ Cardinality(R) >= k)
    BY <1>1, <1>5
  <2>4. IsFiniteSet(R) /\ Cardinality(R) \in Nat
    BY <1>3, <2>2, <2>3
  <2>5. T \subseteq made \cup {Root} => IsFiniteSet(T) /\ Cardinality(T) \in Nat
    BY <1>3, <2>2
  <2> HIDE DEF R, T
  <2>6. /\ R \subseteq T /\ T \subseteq made \cup {Root}
        /\ T = R => made \subseteq R
    BY <2>1, <2>3, FurtherFacts
  <2>7. CASE made \subseteq R
    BY <2>3, <2>6, <2>7 DEF T
  <2>8. CASE ~(made \subseteq R)
    <3>1. PICK x \in T : x \notin R
      BY <2>6, <2>8
    <3>2. Cardinality(R \cup {x}) = Cardinality(R) + 1
      BY <2>4, <3>1, FS_AddElement
    <3>3. R \cup {x} \in SUBSET T /\ IsFiniteSet(T)
      BY <2>5, <2>6, <3>1
    <3>4. Cardinality(R \cup {x}) <= Cardinality(T)
      BY <3>3, FS_Subset
    <3>5. Cardinality(T) >= k + 1
      BY <2>2, <2>3, <2>4, <2>5, <2>6, <2>8, <3>2, <3>4
    <3> QED
      BY <2>3, <2>6, <3>5 DEF T
  <2> QED
    BY <2>7, <2>8
<1> HIDE DEF Found
<1>6. 0 \in S /\ \A k \in 1 .. LastBlock : k - 1 \in S => k \in S
  BY <1>1, <1>4, <1>5
<1>7. \A k \in 0 .. LastBlock : k \in S
  <2> HIDE DEF S
  <2> QED
    BY <1>1, <1>6, CountingUp
<1>8. LastBlock \in 0 .. LastBlock
  BY <1>1
<1>9. Found(LastBlock)
  BY <1>7, <1>8
<1>10. Reach[LastBlock] \subseteq made \cup {Root} /\ Root \in Reach[LastBlock]
       /\ (made \subseteq Reach[LastBlock] \/ Cardinality(Reach[LastBlock]) >= LastBlock + 1)
  BY <1>9 DEF Found
<1>11. Cardinality(Reach[LastBlock]) \in Nat /\ Cardinality(Reach[LastBlock]) <= LastBlock
  BY <1>3, <1>8, <1>10
<1>12. made \subseteq Reach[LastBlock]
  BY <1>1, <1>10, <1>11
<1> QED
  BY <1>10, <1>12

\* Walking down from the root as asvfs_get_block_id_from_pathname does finds what was
\* created and not deleted, and nothing else.
THEOREM AllFilesFound == WritesFit => (SpecFs => []EveryFileFound)
<1> SUFFICES ASSUME WritesFit PROVE SpecFs => []EveryFileFound
  OBVIOUS
<1>1. FsInv => EveryFileFound
  <2> SUFFICES ASSUME FsInv, Idle, crashes = 0
               PROVE  /\ Reach[LastBlock] = made \cup {Root}
                      /\ \A b \in made : meta[b].in_use /\ meta[b].block_type # UNKNOWN
    BY DEF EveryFileFound
  <2>1. WellFormed(Drive) /\ Whole(Drive)
    BY IdleFacts
  <2> QED
    BY <2>1, AllFound, DriveFields DEF Whole
<1> QED
  BY <1>1, FsInvariance, PTL
=============================================================================
