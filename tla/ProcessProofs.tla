---------------------------- MODULE ProcessProofs ----------------------------
(***************************************************************************)
(* Proofs about Process, for every number of processes and buffered keys   *)
(* and every set of faulting programs, when the kbugs operator kills only  *)
(* the process that crashed.                                               *)
(***************************************************************************)
EXTENDS Process, LibraryLemmas, TLAPS, SequenceTheorems

\* Membership in Pid as inequalities.
LEMMA PidBounds ==
    /\ \A n \in Int : n \in Pid <=> 0 <= n /\ n < MaxProcs
    /\ \A n \in Pid : n \in Int
    /\ MaxProcs \in Int /\ 2 <= MaxProcs
    /\ NULL \notin Pid
  BY MaxProcsAssumption DEF Pid, NULL

\* What RoundRobin picks when the idle process can be picked.
LEMMA RoundRobinPicks ==
    ASSUME TypeOK, NEW st \in [Pid -> Status],
           KERNEL_PROCESS_ID \in Schedulable(st)
    PROVE  RoundRobin(st, current) \in Schedulable(st)
<1> DEFINE after == {p \in Schedulable(st) : p > current}
<1>1. Schedulable(st) \in SUBSET Nat /\ after \in SUBSET Nat
  BY MaxProcsAssumption DEF Schedulable, Created, TypeOK
<1>2. Min(Schedulable(st)) \in Schedulable(st)
  BY <1>1, MinOfNat
<1>3. after # {} => Min(after) \in after
  BY <1>1, MinOfNat
<1>4. QED
  BY <1>2, <1>3 DEF RoundRobin

\* The effect of process_sched_yield when the statuses on entry are st: a
\* schedulable process runs and is the only ACTIVE one, the old one is demoted,
\* blocked or dead, and the page tables follow the switch.
LEMMA YieldEffect ==
    ASSUME TypeOK,
           NEW st \in [Pid -> Status],
           NEW up \in {NULL} \cup Pid,
           process_sched_yield(st, up),
           KERNEL_PROCESS_ID \in Schedulable(st),
           \A p \in Pid : st[p] = "ACTIVE" => p = current,
           st[current] # "INACTIVE",
           up # NULL => st[up] = "INACTIVE"
    PROVE  /\ nextUp' = NULL
           /\ current' \in Pid
           /\ status' \in [Pid -> Status]
           /\ st[current'] \in {"ACTIVE", "INACTIVE"}
           /\ \A p \in Pid : status'[p] = "ACTIVE" <=> p = current'
           /\ \A p \in Pid : (p # current /\ p # current') => status'[p] = st[p]
           /\ current' # current => /\ status'[current] = SwitchedOut(st[current])
                                    /\ MapFor(current')
           /\ current' = current => /\ UNCHANGED maps
                                    /\ status' = st
<1> DEFINE new == IF up = NULL THEN RoundRobin(st, current) ELSE up
<1>1. new \in Pid /\ st[new] \in {"ACTIVE", "INACTIVE"}
  <2>1. CASE up = NULL
    <3>1. RoundRobin(st, current) \in Schedulable(st)
      BY RoundRobinPicks
    <3>2. QED
      BY <2>1, <3>1, MaxProcsAssumption DEF Schedulable, Created, TypeOK, Pid
  <2>2. CASE up # NULL
    BY <2>2
  <2>3. QED
    BY <2>1, <2>2
<1>2. nextUp' = NULL /\ current' = new
  BY DEF process_sched_yield
<1>3. CASE new = current
  <2>1. status' = st /\ UNCHANGED maps
    BY <1>3 DEF process_sched_yield
  <2>2. st[current] = "ACTIVE"
    BY <1>1, <1>3
  <2>3. QED
    BY <1>1, <1>2, <1>3, <2>1, <2>2 DEF TypeOK
<1>4. CASE new # current
  <2>1. /\ status' = [st EXCEPT ![current] = SwitchedOut(@), ![new] = "ACTIVE"]
        /\ MapFor(new)
    BY <1>4 DEF process_sched_yield
  <2>2. /\ SwitchedOut(st[current]) \in Status
        /\ SwitchedOut(st[current]) # "ACTIVE"
    BY DEF SwitchedOut, Status
  <2>3. /\ status' \in [Pid -> Status]
        /\ status'[new] = "ACTIVE"
        /\ status'[current] = SwitchedOut(st[current])
        /\ \A p \in Pid : (p # current /\ p # new) => status'[p] = st[p]
    BY <1>1, <1>4, <2>1, <2>2 DEF TypeOK, Status
  <2>4. \A p \in Pid : status'[p] = "ACTIVE" <=> p = new
    BY <1>1, <1>4, <2>2, <2>3 DEF TypeOK
  <2>5. QED
    BY <1>1, <1>2, <1>4, <2>1, <2>3, <2>4
<1>5. QED
  BY <1>3, <1>4

-----------------------------------------------------------------------------
\* The initial state satisfies the inductive invariant.
LEMMA InitInv == Init => IInv
<1> SUFFICES ASSUME Init PROVE IInv
  OBVIOUS
<1> USE MaxProcsAssumption, MaxKeysAssumption
        DEF Init, Pid, KERNEL_PROCESS_ID, ROOT_PROCESS_ID, NULL
<1>1. TypeOK
  <2>1. ownAS \in [Pid -> BOOLEAN] /\ loaded \in [Pid -> BOOLEAN] /\ inKbugs \in BOOLEAN
    BY Zenon
  <2>2. status \in [Pid -> Status] /\ parent \in [Pid -> Pid] /\ waitFor \in [Pid -> Pid]
    BY DEF Status
  <2>3. QED
    BY <2>1, <2>2 DEF TypeOK
<1>2. TableInv
  BY DEF TableInv
<1>3. OnlyCurrentActive
  BY DEF OnlyCurrentActive
<1>4. SchedulerFindsTask
  BY DEF SchedulerFindsTask, Schedulable, Created
<1>5. BlockedForOneReason
  BY DEF BlockedForOneReason
<1>6. RunsInOwnAddressSpace /\ ThreadSharesData
  BY DEF RunsInOwnAddressSpace, ThreadSharesData
<1>7. QED
  BY <1>1, <1>2, <1>3, <1>4, <1>5, <1>6 DEF IInv

\* The idle process is below any pid_next the table can have.
LEMMA ZeroBelow == ASSUME NEW n \in Int, 2 <= n PROVE 0 \in 0 .. n - 1
  OBVIOUS

\* The statuses st and the hand-over up with which a syscall may yield, and what
\* it may have written to the rest of the table by then.
ReadyToYield(st, up) ==
    /\ st \in [Pid -> Status]
    /\ up \in {NULL} \cup Pid
    /\ st[0] \in {"ACTIVE", "INACTIVE"}
    /\ \A p \in Pid : st[p] = "ACTIVE" => p = current
    /\ st[current] # "INACTIVE"
    /\ up # NULL => st[up] = "INACTIVE"
    /\ \A p \in Pid : st[p] = "UNUSED" <=> p >= pidNext'
    /\ \A p \in Pid : st[p] = "WFD" => p = current
    /\ \A p \in Pid : parent'[p] < pidNext'
    /\ \A p \in Pid : waitFor'[p] # 0 => st[p] = "WAITING"
    /\ \A i \in 1 .. Len(waiters') :
          /\ st[waiters'[i]] = "WAITING"
          /\ waitFor'[waiters'[i]] = 0
          /\ \A j \in 1 .. Len(waiters') : waiters'[i] = waiters'[j] => i = j
    /\ waiters' # <<>> => keys' = 0
    /\ \A p \in Pid : loaded'[p] => ownAS'[p]
    /\ loaded'[current] = loaded[current]
    /\ ownAS'[current] = ownAS[current]
    /\ parent'[current] = parent[current]
    /\ loaded'[parent[current]] = loaded[parent[current]]

RestTyped ==
    /\ parent \in [Pid -> Pid]
    /\ waitFor \in [Pid -> Pid]
    /\ ownAS \in [Pid -> BOOLEAN]
    /\ loaded \in [Pid -> BOOLEAN]
    /\ badCtx \subseteq Pid /\ 0 \notin badCtx
    /\ pidNext \in 2 .. MaxProcs
    /\ waiters \in Seq(Pid)
    /\ keys \in 0 .. MaxKeys
    /\ inKbugs = FALSE

\* A syscall that ends in process_sched_yield re-establishes the invariant when
\* it is ready to yield.
LEMMA YieldKeepsInv ==
    ASSUME IInv,
           NEW st, NEW up,
           ReadyToYield(st, up),
           RestTyped',
           pidNext' >= pidNext,
           process_sched_yield(st, up)
    PROVE  IInv'
<1> USE DEF KERNEL_PROCESS_ID
<1>0. /\ st \in [Pid -> Status]
      /\ up \in {NULL} \cup Pid
      /\ KERNEL_PROCESS_ID \in Schedulable(st)
      /\ \A p \in Pid : st[p] = "ACTIVE" => p = current
      /\ st[current] # "INACTIVE"
      /\ up # NULL => st[up] = "INACTIVE"
  BY MaxProcsAssumption DEF ReadyToYield, Schedulable, Created, IInv, TypeOK
<1>1. /\ nextUp' = NULL
      /\ current' \in Pid
      /\ status' \in [Pid -> Status]
      /\ st[current'] \in {"ACTIVE", "INACTIVE"}
      /\ \A p \in Pid : status'[p] = "ACTIVE" <=> p = current'
      /\ \A p \in Pid : (p # current /\ p # current') => status'[p] = st[p]
      /\ current' # current => /\ status'[current] = SwitchedOut(st[current])
                               /\ MapFor(current')
      /\ current' = current => /\ UNCHANGED maps
                               /\ status' = st
  BY <1>0, YieldEffect DEF IInv
<1>2. current \in Pid /\ 0 \in Pid /\ NULL \notin Pid
  BY MaxProcsAssumption DEF IInv, TypeOK, Pid, NULL
<1>3. \A p \in Pid : st[p] = "WAITING" => status'[p] = "WAITING"
  BY <1>1, <1>2 DEF SwitchedOut
<1>4. \A p \in Pid : /\ status'[p] # "WFD"
                     /\ status'[p] = "UNUSED" <=> st[p] = "UNUSED"
  <2> SUFFICES ASSUME NEW p \in Pid
               PROVE  /\ status'[p] # "WFD"
                      /\ status'[p] = "UNUSED" <=> st[p] = "UNUSED"
    OBVIOUS
  <2>1. CASE p = current'
    BY <2>1, <1>1
  <2>2. CASE p # current' /\ p = current
    <3>1. status[current] = "ACTIVE" /\ ~ (current >= pidNext)
      BY <1>2 DEF IInv, OnlyCurrentActive, TableInv
    <3>2. st[current] # "UNUSED"
      BY <1>2, <3>1, MaxProcsAssumption DEF ReadyToYield, RestTyped, IInv, TypeOK, Pid
    <3>3. QED
      BY <2>2, <3>2, <1>1 DEF SwitchedOut
  <2>3. CASE p # current' /\ p # current
    BY <2>3, <1>1 DEF ReadyToYield
  <2>4. QED
    BY <2>1, <2>2, <2>3
<1>5. TableInv'
  BY <1>1, <1>4 DEF TableInv, ReadyToYield, RestTyped
<1>6. OnlyCurrentActive'
  BY <1>1 DEF OnlyCurrentActive
<1>7. SchedulerFindsTask'
  <2>1. st[0] \in {"INACTIVE", "ACTIVE"}
    BY DEF ReadyToYield
  <2>2. status'[0] \in {"INACTIVE", "ACTIVE"}
    BY <1>1, <1>2, <2>1 DEF SwitchedOut
  <2>3. 0 \in 0 .. pidNext' - 1
    <3>1. pidNext' \in 2 .. MaxProcs
      BY DEF RestTyped
    <3>2. pidNext' \in Int /\ 2 <= pidNext'
      BY <3>1, MaxProcsAssumption
    <3>3. QED
      BY <3>2, ZeroBelow, Zenon
  <2>4. QED
    BY <1>1, <1>2, <2>2, <2>3 DEF SchedulerFindsTask, Schedulable, Created
<1>8. BlockedForOneReason'
  <2>1. \A i \in 1 .. Len(waiters') : waiters'[i] \in Pid
    BY ElementOfSeq DEF RestTyped
  <2>2. QED
    BY <1>3, <2>1 DEF BlockedForOneReason, ReadyToYield
<1>9. mapText' \in Pid /\ mapData' \in Pid /\ mapStack' \in {NULL} \cup Pid
  <2>1. CASE current' = current
    BY <1>1, <2>1 DEF maps, IInv, TypeOK
  <2>2. CASE current' # current
    <3>1. AddrSpace(current') \in Pid
      BY <1>1 DEF AddrSpace, RestTyped
    <3>2. QED
      BY <1>1, <2>2, <3>1 DEF MapFor, IInv, TypeOK
  <2>3. QED
    BY <2>1, <2>2
<1>10. TypeOK'
  BY <1>1, <1>9 DEF TypeOK, RestTyped
<1>11. RunsInOwnAddressSpace' /\ ThreadSharesData'
  <2>1. CASE current' = current
    BY <1>1, <2>1 DEF maps, IInv, RunsInOwnAddressSpace, ThreadSharesData, ReadyToYield
  <2>2. CASE current' # current
    BY <1>1, <2>2 DEF MapFor, AddrSpace, RunsInOwnAddressSpace, ThreadSharesData, ReadyToYield
  <2>3. QED
    BY <2>1, <2>2
<1>12. QED
  BY <1>5, <1>6, <1>7, <1>8, <1>10, <1>11 DEF IInv

-----------------------------------------------------------------------------
\* What every action may assume of the process it finds running.
LEMMA CurrentFacts ==
    ASSUME IInv
    PROVE  /\ current \in Pid /\ 0 \in Pid /\ NULL \notin Pid
           /\ status[current] = "ACTIVE"
           /\ status[0] \in {"ACTIVE", "INACTIVE"}
           /\ waitFor[current] = 0 /\ waitFor[0] = 0
           /\ current < pidNext /\ parent[current] < pidNext
           /\ nextUp # NULL => nextUp = 0 /\ status[nextUp] = "INACTIVE"
           /\ parent[current] \in Pid
<1> USE DEF IInv, KERNEL_PROCESS_ID
<1>1. current \in Pid /\ 0 \in Pid /\ NULL \notin Pid /\ parent[current] \in Pid
  BY MaxProcsAssumption DEF TypeOK, Pid, NULL
<1>2. status[current] = "ACTIVE"
  BY <1>1 DEF OnlyCurrentActive
<1>3. status[0] \in {"ACTIVE", "INACTIVE"}
  BY DEF SchedulerFindsTask, Schedulable
<1>4. waitFor[current] = 0 /\ waitFor[0] = 0
  BY <1>1, <1>2, <1>3 DEF BlockedForOneReason
<1>5. current < pidNext /\ parent[current] < pidNext
  BY <1>1, <1>2 DEF TableInv, TypeOK, Pid
<1>6. nextUp # NULL => nextUp = 0 /\ status[nextUp] = "INACTIVE"
  BY <1>1, <1>3 DEF TableInv, SchedulerFindsTask, OnlyCurrentActive
<1>7. QED
  BY <1>1, <1>2, <1>3, <1>4, <1>5, <1>6

\* The table when only part of it changed: what a syscall leaves alone is typed.
LEMMA TypedFacts ==
    ASSUME IInv
    PROVE  /\ status \in [Pid -> Status]
           /\ nextUp \in {NULL} \cup Pid
           /\ parent \in [Pid -> Pid]
           /\ waitFor \in [Pid -> Pid]
           /\ ownAS \in [Pid -> BOOLEAN]
           /\ loaded \in [Pid -> BOOLEAN]
           /\ badCtx \subseteq Pid /\ 0 \notin badCtx
           /\ pidNext \in 2 .. MaxProcs
           /\ pidNext \in Int /\ 2 <= pidNext /\ pidNext <= MaxProcs
           /\ waiters \in Seq(Pid)
           /\ keys \in 0 .. MaxKeys
           /\ inKbugs \in BOOLEAN
           /\ \A i \in 1 .. Len(waiters) : waiters[i] \in Pid
<1>1. waiters \in Seq(Pid)
  BY DEF IInv, TypeOK
<1>2. \A i \in 1 .. Len(waiters) : waiters[i] \in Pid
  BY <1>1, ElementOfSeq
<1>3. QED
  BY <1>2, MaxProcsAssumption DEF IInv, TypeOK, TableInv, KERNEL_PROCESS_ID

\* yield
LEMMA YieldInv == ASSUME IInv, Yield PROVE IInv'
<1>1. /\ UNCHANGED <<parent, waitFor, ownAS, loaded, badCtx, pidNext, waiters, keys, inKbugs>>
      /\ inKbugs = FALSE
      /\ process_sched_yield(status, nextUp)
  BY TypedFacts DEF Yield, Running, kbd
<1>2. ReadyToYield(status, nextUp)
  <2>1. TableInv /\ BlockedForOneReason /\ OnlyCurrentActive
    BY DEF IInv
  <2>2. QED
    BY <1>1, <2>1, CurrentFacts, TypedFacts
       DEF ReadyToYield, TableInv, BlockedForOneReason, OnlyCurrentActive
<1>3. RestTyped' /\ pidNext' >= pidNext
  BY <1>1, TypedFacts, MaxProcsAssumption DEF RestTyped
<1>4. QED
  BY <1>1, <1>2, <1>3, YieldKeepsInv

\* wait: the caller is blocked, in no queue, and remembers whom it waits for.
LEMMA WaitInv == ASSUME IInv, NEW pid \in Pid, Wait(pid) PROVE IInv'
<1> DEFINE st == [status EXCEPT ![current] = "WAITING"]
<1>1. /\ UNCHANGED <<parent, ownAS, loaded, badCtx, pidNext, waiters, keys, inKbugs>>
      /\ inKbugs = FALSE
      /\ current # 0
      /\ waitFor' = [waitFor EXCEPT ![current] = pid]
      /\ process_sched_yield(st, nextUp)
  BY TypedFacts DEF Wait, UserRuns, Running, kbd, KERNEL_PROCESS_ID
<1>2. TableInv /\ BlockedForOneReason /\ OnlyCurrentActive
  BY DEF IInv
<1>3. /\ st \in [Pid -> Status]
      /\ \A p \in Pid : st[p] = IF p = current THEN "WAITING" ELSE status[p]
      /\ \A p \in Pid : waitFor'[p] = IF p = current THEN pid ELSE waitFor[p]
  BY <1>1, CurrentFacts, TypedFacts DEF Status
<1>4. \A i \in 1 .. Len(waiters) : waiters[i] # current
  BY <1>2, CurrentFacts DEF BlockedForOneReason
<1>5. ReadyToYield(st, nextUp)
  BY <1>1, <1>2, <1>3, <1>4, CurrentFacts, TypedFacts
     DEF ReadyToYield, TableInv, BlockedForOneReason, OnlyCurrentActive
<1>6. RestTyped' /\ pidNext' >= pidNext
  BY <1>1, CurrentFacts, TypedFacts, MaxProcsAssumption DEF RestTyped
<1>7. QED
  BY <1>1, <1>5, <1>6, YieldKeepsInv

\* A process that dies while it runs (exit, or killed after a crash).
LEMMA DeathInv ==
    ASSUME IInv,
           current # 0,
           NotifyParent(current),
           UNCHANGED <<parent, ownAS, loaded, pidNext, waiters, keys>>,
           badCtx' \subseteq Pid /\ 0 \notin badCtx',
           inKbugs' = FALSE,
           process_sched_yield(MarkDead(current), NextUpAfterDeath(current))
    PROVE  IInv'
<1> DEFINE st == MarkDead(current)
           up == NextUpAfterDeath(current)
           par == parent[current]
<1>1. TableInv /\ BlockedForOneReason /\ OnlyCurrentActive
  BY DEF IInv
<1>2. /\ st \in [Pid -> Status]
      /\ \A p \in Pid : st[p] = CASE p = current -> "WFD"
                                  [] p = par /\ WaitedFor(current) -> "INACTIVE"
                                  [] OTHER -> status[p]
  BY TypedFacts DEF MarkDead, Status
<1>3. WaitedFor(current) => /\ waitFor[par] = current
                            /\ par \in Pid /\ par # current /\ par # 0
                            /\ status[par] = "WAITING"
  BY <1>1, CurrentFacts DEF WaitedFor, BlockedForOneReason
<1>4. \A p \in Pid : waitFor'[p] = IF WaitedFor(current) /\ p = par THEN 0 ELSE waitFor[p]
  BY TypedFacts, CurrentFacts DEF NotifyParent
<1>5. waitFor' \in [Pid -> Pid]
  BY TypedFacts, CurrentFacts DEF NotifyParent
<1>6. \A i \in 1 .. Len(waiters) : waiters[i] # current /\ (WaitedFor(current) => waiters[i] # par)
  BY <1>1, <1>3, CurrentFacts DEF BlockedForOneReason
<1>7. /\ up \in {NULL} \cup Pid
      /\ up # NULL => st[up] = "INACTIVE"
  <2>1. CASE WaitedFor(current)
    BY <2>1, <1>2, <1>3 DEF NextUpAfterDeath
  <2>2. CASE ~ WaitedFor(current)
    BY <2>2, <1>2, CurrentFacts, TypedFacts DEF NextUpAfterDeath
  <2>3. QED
    BY <2>1, <2>2
<1>8. ReadyToYield(st, up)
  <2>1. st[0] \in {"ACTIVE", "INACTIVE"} /\ st[current] = "WFD"
    BY <1>2, <1>3, CurrentFacts
  <2>2. \A p \in Pid : /\ st[p] = "ACTIVE" => p = current
                       /\ st[p] = "WFD" => p = current
                       /\ st[p] = "UNUSED" <=> p >= pidNext
                       /\ waitFor'[p] # 0 => st[p] = "WAITING"
                       /\ loaded[p] => ownAS[p]
                       /\ parent[p] < pidNext
    BY <1>1, <1>2, <1>3, <1>4, CurrentFacts
       DEF TableInv, BlockedForOneReason, OnlyCurrentActive
  <2>3. \A i \in 1 .. Len(waiters) :
            /\ st[waiters[i]] = "WAITING"
            /\ waitFor'[waiters[i]] = 0
    BY <1>1, <1>2, <1>4, <1>6, TypedFacts DEF BlockedForOneReason
  <2>4. QED
    BY <1>1, <1>2, <1>7, <2>1, <2>2, <2>3, CurrentFacts, TypedFacts
       DEF ReadyToYield, BlockedForOneReason
<1>9. RestTyped' /\ pidNext' >= pidNext
  BY <1>5, TypedFacts, MaxProcsAssumption DEF RestTyped
<1>10. QED
  BY <1>8, <1>9, YieldKeepsInv

\* exit
LEMMA ExitInv == ASSUME IInv, Exit PROVE IInv'
<1>1. /\ current # 0
      /\ NotifyParent(current)
      /\ UNCHANGED <<parent, ownAS, loaded, pidNext, waiters, keys>>
      /\ badCtx' \subseteq Pid /\ 0 \notin badCtx'
      /\ inKbugs' = FALSE
      /\ process_sched_yield(MarkDead(current), NextUpAfterDeath(current))
  BY TypedFacts DEF Exit, UserRuns, Running, kbd, KERNEL_PROCESS_ID
<1>2. QED
  BY <1>1, DeathInv

\* kbugs_kill of the process that crashed
LEMMA KbugsKillInv == ASSUME IInv, ~KillAny, NEW pid \in Pid, KbugsKill(pid) PROVE IInv'
<1>1. pid = current
  BY DEF KbugsKill
<1>2. /\ current # 0
      /\ NotifyParent(current)
      /\ UNCHANGED <<parent, ownAS, loaded, pidNext, waiters, keys>>
      /\ badCtx' \subseteq Pid /\ 0 \notin badCtx'
      /\ inKbugs' = FALSE
      /\ process_sched_yield(MarkDead(current), NextUpAfterDeath(current))
  BY <1>1, TypedFacts, CurrentFacts DEF KbugsKill, kbd, KERNEL_PROCESS_ID
<1>3. QED
  BY <1>2, DeathInv

\* clone: the thread is a fresh pid, INACTIVE until the hand-over to it.
LEMMA CloneInv == ASSUME IInv, Clone PROVE IInv'
<1> DEFINE st == [status EXCEPT ![pidNext] = "INACTIVE"]
<1>1. /\ UNCHANGED <<waitFor, badCtx, waiters, keys, inKbugs>>
      /\ inKbugs = FALSE
      /\ pidNext < MaxProcs
      /\ pidNext' = pidNext + 1
      /\ parent' = [parent EXCEPT ![pidNext] = current]
      /\ ownAS' = [ownAS EXCEPT ![pidNext] = FALSE]
      /\ loaded' = [loaded EXCEPT ![pidNext] = FALSE]
      /\ process_sched_yield(st, pidNext)
  BY TypedFacts DEF Clone, NewProcess, UserRuns, Running, kbd
<1>2. TableInv /\ BlockedForOneReason /\ OnlyCurrentActive
  BY DEF IInv
<1>3. /\ pidNext \in Pid /\ pidNext # NULL /\ pidNext # 0 /\ pidNext # current
      /\ pidNext # parent[current]
      /\ pidNext' \in 2 .. MaxProcs /\ pidNext' >= pidNext
      /\ status[pidNext] = "UNUSED"
  <2>1. pidNext \in Pid
    BY <1>1, TypedFacts, PidBounds
  <2>2. pidNext # NULL /\ pidNext # 0 /\ pidNext # current /\ pidNext # parent[current]
    BY <2>1, TypedFacts, CurrentFacts, PidBounds
  <2>3. pidNext' \in 2 .. MaxProcs /\ pidNext' >= pidNext
    BY <1>1, TypedFacts, PidBounds
  <2>4. status[pidNext] = "UNUSED"
    BY <1>2, <2>1, PidBounds DEF TableInv
  <2>5. QED
    BY <2>1, <2>2, <2>3, <2>4
<1>4. /\ st \in [Pid -> Status]
      /\ \A p \in Pid : st[p] = IF p = pidNext THEN "INACTIVE" ELSE status[p]
  BY <1>3, TypedFacts DEF Status
<1>5. \A p \in Pid : p >= pidNext' <=> p >= pidNext /\ p # pidNext
  BY <1>1, TypedFacts, PidBounds
<1>6. \A i \in 1 .. Len(waiters) : waiters[i] # pidNext
  BY <1>2, <1>3 DEF BlockedForOneReason
<1>7. \A p \in Pid : /\ waitFor[p] # 0 => st[p] = "WAITING"
                     /\ st[p] = "ACTIVE" => p = current
                     /\ st[p] # "WFD"
                     /\ st[p] = "UNUSED" <=> p >= pidNext'
  BY <1>2, <1>3, <1>4, <1>5 DEF BlockedForOneReason, TableInv, OnlyCurrentActive
<1>8. /\ parent'[current] = parent[current]
      /\ ownAS'[current] = ownAS[current]
      /\ loaded'[current] = loaded[current]
      /\ \A p \in Pid : loaded'[p] => ownAS'[p]
  BY <1>1, <1>2, <1>3, CurrentFacts, TypedFacts DEF TableInv
<1>8a. \A p \in Pid : parent'[p] < pidNext'
  <2>1. \A p \in Pid : parent[p] \in Int /\ parent[p] < pidNext
    BY <1>2, TypedFacts, PidBounds DEF TableInv
  <2>2. \A p \in Pid : parent'[p] = IF p = pidNext THEN current ELSE parent[p]
    BY <1>1, <1>3, CurrentFacts, TypedFacts
  <2>3. current \in Int /\ current < pidNext /\ pidNext \in Int
    BY CurrentFacts, TypedFacts, PidBounds
  <2>4. QED
    BY <1>1, <2>1, <2>2, <2>3
<1>9. RestTyped'
  BY <1>1, <1>3, CurrentFacts, TypedFacts DEF RestTyped
<1>10. loaded'[parent[current]] = loaded[parent[current]]
  BY <1>1, <1>3, CurrentFacts, TypedFacts
<1>11. ReadyToYield(st, pidNext)
  <2>1. \A i \in 1 .. Len(waiters) : st[waiters[i]] = "WAITING"
    BY <1>2, <1>4, <1>6, TypedFacts DEF BlockedForOneReason
  <2>2. st[0] \in {"ACTIVE", "INACTIVE"} /\ st[current] = "ACTIVE" /\ st[pidNext] = "INACTIVE"
    BY <1>3, <1>4, CurrentFacts
  <2>3. /\ pidNext \in {NULL} \cup Pid
        /\ pidNext # NULL => st[pidNext] = "INACTIVE"
        /\ st[current] # "INACTIVE" /\ st[current] # "WFD"
    BY <1>3, <2>2
  <2>4. \A p \in Pid : st[p] = "WFD" => p = current
    BY <1>7
  <2>5. \A p \in Pid : waitFor'[p] # 0 => st[p] = "WAITING"
    BY <1>1, <1>7
  <2>6. /\ \A i \in 1 .. Len(waiters') :
              /\ st[waiters'[i]] = "WAITING"
              /\ waitFor'[waiters'[i]] = 0
              /\ \A j \in 1 .. Len(waiters') : waiters'[i] = waiters'[j] => i = j
        /\ waiters' # <<>> => keys' = 0
    BY <1>1, <1>2, <2>1 DEF BlockedForOneReason
  <2>7. QED
    BY <1>3, <1>4, <1>7, <1>8, <1>8a, <1>10, <2>2, <2>3, <2>4, <2>5, <2>6 DEF ReadyToYield
<1>12. QED
  BY <1>1, <1>3, <1>9, <1>11, YieldKeepsInv

\* fork: the child is a fresh pid and only becomes runnable.
LEMMA ForkInv == ASSUME IInv, Fork PROVE IInv'
<1>1. /\ UNCHANGED <<waitFor, badCtx, current, nextUp, mapText, mapData, mapStack,
                     waiters, keys, inKbugs>>
      /\ pidNext < MaxProcs
      /\ pidNext' = pidNext + 1
      /\ parent' = [parent EXCEPT ![pidNext] = current]
      /\ ownAS' = [ownAS EXCEPT ![pidNext] = ownAS[current]]
      /\ loaded' = [loaded EXCEPT ![pidNext] = loaded[current]]
      /\ status' = [status EXCEPT ![pidNext] = "INACTIVE"]
  BY DEF Fork, NewProcess, maps, kbd
<1>2. TableInv /\ BlockedForOneReason /\ OnlyCurrentActive
  BY DEF IInv
<1>3. /\ pidNext \in Pid /\ pidNext # 0 /\ pidNext # current /\ pidNext # parent[current]
      /\ pidNext' \in 2 .. MaxProcs
      /\ status[pidNext] = "UNUSED"
  <2>1. pidNext \in Pid
    BY <1>1, TypedFacts, PidBounds
  <2>2. pidNext # 0 /\ pidNext # current /\ pidNext # parent[current]
    BY <2>1, TypedFacts, CurrentFacts, PidBounds
  <2>3. pidNext' \in 2 .. MaxProcs
    BY <1>1, TypedFacts, PidBounds
  <2>4. status[pidNext] = "UNUSED"
    BY <1>2, <2>1, PidBounds DEF TableInv
  <2>5. QED
    BY <2>1, <2>2, <2>3, <2>4
<1>4. \A p \in Pid : status'[p] = IF p = pidNext THEN "INACTIVE" ELSE status[p]
  BY <1>1, TypedFacts
<1>5. TypeOK'
  <2>1. status' \in [Pid -> Status]
    BY <1>1, <1>3, TypedFacts DEF Status
  <2>2. /\ parent' \in [Pid -> Pid]
        /\ ownAS' \in [Pid -> BOOLEAN]
        /\ loaded' \in [Pid -> BOOLEAN]
    BY <1>1, <1>3, TypedFacts, CurrentFacts
  <2>3. QED
    BY <1>1, <1>3, <2>1, <2>2, TypedFacts DEF TypeOK, IInv
<1>6. TableInv'
  <2>1. \A p \in Pid : p >= pidNext' <=> p >= pidNext /\ p # pidNext
    BY <1>1, TypedFacts, PidBounds
  <2>2. \A p \in Pid : parent'[p] < pidNext'
    <3>1. \A p \in Pid : parent[p] \in Int /\ parent[p] < pidNext
      BY <1>2, TypedFacts, PidBounds DEF TableInv
    <3>2. \A p \in Pid : parent'[p] = IF p = pidNext THEN current ELSE parent[p]
      BY <1>1, <1>3, CurrentFacts, TypedFacts
    <3>3. current \in Int /\ current < pidNext /\ pidNext \in Int
      BY CurrentFacts, TypedFacts, PidBounds
    <3>4. QED
      BY <1>1, <3>1, <3>2, <3>3
  <2>3. \A p \in Pid : loaded'[p] => ownAS'[p]
    BY <1>1, <1>2, <1>3, CurrentFacts, TypedFacts DEF TableInv
  <2>4. QED
    BY <1>1, <1>2, <1>3, <1>4, <2>1, <2>2, <2>3 DEF TableInv
<1>7. OnlyCurrentActive'
  BY <1>1, <1>2, <1>3, <1>4 DEF OnlyCurrentActive
<1>8. SchedulerFindsTask'
  <2>1. 0 \in 0 .. pidNext' - 1
    BY <1>1, TypedFacts, ZeroBelow
  <2>2. nextUp # NULL => nextUp = 0
    BY CurrentFacts
  <2>3. status'[0] \in {"ACTIVE", "INACTIVE"}
    BY <1>3, <1>4, CurrentFacts
  <2>4. nextUp' # current'
    BY <1>1 DEF IInv, SchedulerFindsTask
  <2>5. QED
    BY <1>1, <2>1, <2>2, <2>3, <2>4
       DEF SchedulerFindsTask, Schedulable, Created, KERNEL_PROCESS_ID
<1>9. BlockedForOneReason'
  <2>1. \A p \in Pid : status[p] = "WAITING" => status'[p] = "WAITING"
    BY <1>3, <1>4
  <2>2. QED
    BY <1>1, <1>2, <2>1, TypedFacts DEF BlockedForOneReason
<1>10. RunsInOwnAddressSpace' /\ ThreadSharesData'
  <2>1. /\ loaded'[current] = loaded[current]
        /\ ownAS'[current] = ownAS[current]
        /\ parent'[current] = parent[current]
        /\ loaded'[parent[current]] = loaded[parent[current]]
    BY <1>1, <1>3, CurrentFacts, TypedFacts
  <2>2. QED
    BY <1>1, <2>1 DEF IInv, RunsInOwnAddressSpace, ThreadSharesData
<1>11. QED
  BY <1>5, <1>6, <1>7, <1>8, <1>9, <1>10 DEF IInv

\* execve, execm: the caller keeps running, in the address space just mapped.
LEMMA ExecInv == ASSUME IInv, NEW isElf \in BOOLEAN, Exec(isElf) PROVE IInv'
<1>1. /\ UNCHANGED <<parent, waitFor, badCtx, pidNext, current, nextUp, waiters, keys, inKbugs>>
      /\ current # 0
      /\ ownAS' = [ownAS EXCEPT ![current] = TRUE]
      /\ loaded' = [loaded EXCEPT ![current] = @ \/ isElf]
      /\ status' = [status EXCEPT ![current] = "ACTIVE"]
      /\ MapFor(current)
  BY DEF Exec, UserRuns, kbd, KERNEL_PROCESS_ID
<1>2. status' = status
  BY <1>1, CurrentFacts, TypedFacts
<1>3. /\ ownAS' \in [Pid -> BOOLEAN] /\ ownAS'[current] = TRUE
      /\ loaded' \in [Pid -> BOOLEAN]
      /\ \A p \in Pid : p # current => loaded'[p] = loaded[p] /\ ownAS'[p] = ownAS[p]
  BY <1>1, CurrentFacts, TypedFacts, Zenon
<1>4. AddrSpace(current) = current
  BY <1>3 DEF AddrSpace
<1>5. /\ mapStack' = current
      /\ loaded'[current] => mapText' = current /\ mapData' = current
      /\ mapText' \in Pid /\ mapData' \in Pid
  BY <1>1, <1>4, CurrentFacts DEF MapFor, IInv, TypeOK, KERNEL_PROCESS_ID
<1>6. TypeOK'
  BY <1>1, <1>2, <1>3, <1>5, CurrentFacts, TypedFacts DEF TypeOK
<1>7. TableInv'
  BY <1>1, <1>2, <1>3, CurrentFacts DEF TableInv, IInv
<1>8. OnlyCurrentActive' /\ BlockedForOneReason'
  BY <1>1, <1>2 DEF OnlyCurrentActive, BlockedForOneReason, IInv
<1>9. SchedulerFindsTask'
  BY <1>1, <1>2 DEF SchedulerFindsTask, Schedulable, Created, IInv
<1>10. RunsInOwnAddressSpace' /\ ThreadSharesData'
  BY <1>1, <1>3, <1>5 DEF RunsInOwnAddressSpace, ThreadSharesData
<1>11. QED
  BY <1>6, <1>7, <1>8, <1>9, <1>10 DEF IInv

\* read from the keyboard: a scancode is taken, or the caller joins the queue.
LEMMA ReadKeyInv == ASSUME IInv, ReadKey PROVE IInv'
<1> DEFINE st == [status EXCEPT ![current] = "WAITING"]
<1>1. /\ UNCHANGED <<parent, waitFor, ownAS, loaded, badCtx, pidNext, inKbugs>>
      /\ current # 0
      /\ inKbugs = FALSE
  BY TypedFacts DEF ReadKey, UserRuns, Running, KERNEL_PROCESS_ID
<1>2. TableInv /\ BlockedForOneReason /\ OnlyCurrentActive
  BY DEF IInv
<1>3. CASE keys > 0 /\ keys' = keys - 1 /\ UNCHANGED <<status, current, nextUp, maps, waiters>>
  <2>1. keys' \in 0 .. MaxKeys
    BY <1>3, TypedFacts, MaxKeysAssumption
  <2>2. waiters = <<>>
    BY <1>2, <1>3, TypedFacts DEF BlockedForOneReason
  <2>3. TypeOK'
    BY <1>1, <1>3, <2>1 DEF TypeOK, IInv, maps
  <2>4. BlockedForOneReason'
    BY <1>1, <1>2, <1>3, <2>2 DEF BlockedForOneReason
  <2>5. QED
    BY <1>1, <1>3, <2>3, <2>4
       DEF IInv, TableInv, OnlyCurrentActive, SchedulerFindsTask, Schedulable, Created,
           RunsInOwnAddressSpace, ThreadSharesData, maps
<1>4. CASE /\ keys = 0
           /\ waiters' = Append(waiters, current)
           /\ UNCHANGED keys
           /\ process_sched_yield(st, nextUp)
  <2>1. /\ waiters' \in Seq(Pid)
        /\ Len(waiters') = Len(waiters) + 1
        /\ Len(waiters) \in Nat
        /\ \A i \in 1 .. Len(waiters) : waiters'[i] = waiters[i]
        /\ waiters'[Len(waiters) + 1] = current
    BY <1>4, AppendProperties, LenProperties, CurrentFacts, TypedFacts
  <2>2. /\ st \in [Pid -> Status]
        /\ \A p \in Pid : st[p] = IF p = current THEN "WAITING" ELSE status[p]
    BY CurrentFacts, TypedFacts DEF Status
  <2>3. \A i \in 1 .. Len(waiters) : waiters[i] # current
    BY <1>2, CurrentFacts DEF BlockedForOneReason
  <2>4. \A i \in 1 .. Len(waiters') :
            /\ st[waiters'[i]] = "WAITING"
            /\ waitFor'[waiters'[i]] = 0
            /\ \A j \in 1 .. Len(waiters') : waiters'[i] = waiters'[j] => i = j
    <3> DEFINE n == Len(waiters)
    <3>1. \A i \in 1 .. Len(waiters') : i \in 1 .. n \/ i = n + 1
      BY <2>1
    <3>2. \A i \in 1 .. n : /\ waiters[i] \in Pid
                            /\ waiters'[i] = waiters[i]
                            /\ waiters'[i] # current
                            /\ status[waiters[i]] = "WAITING"
                            /\ waitFor[waiters[i]] = 0
                            /\ \A j \in 1 .. n : waiters[i] = waiters[j] => i = j
      BY <1>2, <2>1, <2>3, TypedFacts, ElementOfSeq DEF BlockedForOneReason
    <3>3. waiters'[n + 1] = current /\ waitFor[current] = 0 /\ current \in Pid
      BY <1>2, <2>1, CurrentFacts, TypedFacts DEF BlockedForOneReason
    <3> HIDE DEF n
    <3>4. \A i \in 1 .. Len(waiters') : st[waiters'[i]] = "WAITING" /\ waitFor'[waiters'[i]] = 0
      BY <1>1, <2>2, <3>1, <3>2, <3>3
    <3>5. \A i, j \in 1 .. Len(waiters') : waiters'[i] = waiters'[j] => i = j
      BY <3>1, <3>2, <3>3
    <3>6. QED
      BY <3>4, <3>5
  <2>5. \A p \in Pid : /\ st[p] = "ACTIVE" => p = current
                       /\ st[p] # "WFD"
                       /\ st[p] = "UNUSED" <=> p >= pidNext
                       /\ waitFor[p] # 0 => st[p] = "WAITING"
                       /\ loaded[p] => ownAS[p]
                       /\ parent[p] < pidNext
    BY <1>2, <2>2, CurrentFacts DEF TableInv, BlockedForOneReason, OnlyCurrentActive
  <2>6. /\ st[0] \in {"ACTIVE", "INACTIVE"}
        /\ st[current] = "WAITING"
        /\ nextUp # NULL => st[nextUp] = "INACTIVE"
    BY <1>1, <2>2, CurrentFacts
  <2>7. ReadyToYield(st, nextUp)
    BY <1>1, <1>4, <2>2, <2>4, <2>5, <2>6, TypedFacts DEF ReadyToYield
  <2>8. RestTyped' /\ pidNext' >= pidNext
    BY <1>1, <1>4, <2>1, TypedFacts, MaxProcsAssumption DEF RestTyped
  <2>9. QED
    BY <1>4, <2>7, <2>8, YieldKeepsInv
<1>5. QED
  BY <1>3, <1>4 DEF ReadKey

\* The keyboard interrupt: it wakes only a process blocked on the queue.
LEMMA KeyboardIRQInv == ASSUME IInv, KeyboardIRQ PROVE IInv'
<1>1. UNCHANGED <<parent, waitFor, ownAS, loaded, badCtx, pidNext, current, nextUp,
                  mapText, mapData, mapStack, inKbugs>>
  BY DEF KeyboardIRQ, maps
<1>2. TableInv /\ BlockedForOneReason /\ OnlyCurrentActive
  BY DEF IInv
<1>3. CASE /\ waiters = <<>>
           /\ keys < MaxKeys
           /\ keys' = keys + 1
           /\ UNCHANGED <<status, waiters>>
  <2>1. keys' \in 0 .. MaxKeys
    BY <1>3, TypedFacts, MaxKeysAssumption
  <2>2. TypeOK'
    BY <1>1, <1>3, <2>1 DEF TypeOK, IInv
  <2>3. BlockedForOneReason'
    BY <1>1, <1>2, <1>3 DEF BlockedForOneReason
  <2>4. QED
    BY <1>1, <1>3, <2>2, <2>3
       DEF IInv, TableInv, OnlyCurrentActive, SchedulerFindsTask, Schedulable, Created,
           RunsInOwnAddressSpace, ThreadSharesData
<1>4. CASE /\ waiters # <<>>
           /\ status' = [status EXCEPT ![Head(waiters)] = "INACTIVE"]
           /\ waiters' = Tail(waiters)
           /\ UNCHANGED keys
  <2> DEFINE h == Head(waiters)
  <2>1. /\ h = waiters[1] /\ h \in Pid
        /\ Len(waiters) \in Nat /\ Len(waiters) >= 1
        /\ waiters' \in Seq(Pid)
        /\ Len(waiters') = Len(waiters) - 1
        /\ \A i \in 1 .. Len(waiters') : waiters'[i] = waiters[i + 1]
    BY <1>4, HeadTailProperties, LenProperties, EmptySeq, TypedFacts
  <2>2. 1 \in 1 .. Len(waiters)
    BY <2>1
  <2>3. status[h] = "WAITING" /\ waitFor[h] = 0 /\ h # current /\ h # 0
    BY <1>2, <2>1, <2>2, CurrentFacts DEF BlockedForOneReason
  <2>4. /\ status' \in [Pid -> Status]
        /\ \A p \in Pid : status'[p] = IF p = h THEN "INACTIVE" ELSE status[p]
    BY <1>4, <2>1, TypedFacts DEF Status
  <2>5. TypeOK'
    BY <1>1, <1>4, <2>1, <2>4 DEF TypeOK, IInv
  <2>6. TableInv'
    BY <1>1, <1>2, <2>3, <2>4 DEF TableInv
  <2>7. OnlyCurrentActive'
    BY <1>1, <1>2, <2>3, <2>4 DEF OnlyCurrentActive
  <2>8. SchedulerFindsTask'
    <3>1. status'[0] = status[0] /\ (nextUp # NULL => nextUp = 0)
      BY <2>3, <2>4, CurrentFacts
    <3>2. QED
      BY <1>1, <3>1 DEF IInv, SchedulerFindsTask, Schedulable, Created, KERNEL_PROCESS_ID
  <2>9. BlockedForOneReason'
    <3>1. \A i \in 1 .. Len(waiters') :
             /\ i + 1 \in 1 .. Len(waiters) /\ i + 1 # 1
             /\ waiters'[i] = waiters[i + 1]
      BY <2>1
    <3>2. \A i \in 1 .. Len(waiters') : waiters'[i] # h /\ waiters'[i] \in Pid
      BY <1>2, <2>1, <2>2, <3>1, TypedFacts DEF BlockedForOneReason
    <3>3. \A i \in 1 .. Len(waiters') :
             /\ status'[waiters'[i]] = "WAITING"
             /\ waitFor'[waiters'[i]] = 0
             /\ \A j \in 1 .. Len(waiters') : waiters'[i] = waiters'[j] => i = j
      BY <1>1, <1>2, <2>4, <3>1, <3>2 DEF BlockedForOneReason
    <3>4. \A p \in Pid : waitFor'[p] # 0 => status'[p] = "WAITING"
      BY <1>1, <1>2, <2>3, <2>4 DEF BlockedForOneReason
    <3>5. QED
      BY <1>2, <1>4, <3>3, <3>4 DEF BlockedForOneReason
  <2>10. RunsInOwnAddressSpace' /\ ThreadSharesData'
    BY <1>1 DEF IInv, RunsInOwnAddressSpace, ThreadSharesData
  <2>11. QED
    BY <2>5, <2>6, <2>7, <2>8, <2>9, <2>10 DEF IInv
<1>5. QED
  BY <1>3, <1>4 DEF KeyboardIRQ

\* The exception handler hands over to the idle process, which is runnable.
LEMMA ExceptionInv == ASSUME IInv, Exception PROVE IInv'
<1>1. /\ UNCHANGED <<status, parent, waitFor, ownAS, loaded, badCtx, pidNext, current,
                     mapText, mapData, mapStack, waiters, keys>>
      /\ inKbugs' = TRUE
      /\ nextUp' = 0
  BY DEF Exception, table, maps, kbd, KERNEL_PROCESS_ID
<1>2. current # 0
  BY FaultingAssumption, TypedFacts DEF Exception
<1>3. nextUp' \in Schedulable(status)' /\ KERNEL_PROCESS_ID \in Schedulable(status)'
  BY <1>1 DEF IInv, SchedulerFindsTask, Schedulable, Created, KERNEL_PROCESS_ID
<1>4. QED
  BY <1>1, <1>2, <1>3, CurrentFacts
     DEF IInv, TypeOK, TableInv, OnlyCurrentActive, SchedulerFindsTask, BlockedForOneReason,
         RunsInOwnAddressSpace, ThreadSharesData, KERNEL_PROCESS_ID

\* Leaving kbugs: the process table, the scheduler and the queue are as before.
LEMMA KbugsQuitInv == ASSUME IInv, KbugsQuit PROVE IInv'
<1>1. /\ UNCHANGED <<status, parent, waitFor, ownAS, loaded, badCtx, pidNext, current, nextUp,
                     mapText, mapData, mapStack, waiters, keys>>
      /\ inKbugs' = FALSE
  BY DEF KbugsQuit, table, maps, kbd
<1>2. TypeOK'
  BY <1>1 DEF IInv, TypeOK
<1>3. TableInv' /\ OnlyCurrentActive' /\ BlockedForOneReason'
  BY <1>1 DEF IInv, TableInv, OnlyCurrentActive, BlockedForOneReason
<1>4. SchedulerFindsTask'
  BY <1>1 DEF IInv, SchedulerFindsTask, Schedulable, Created
<1>5. RunsInOwnAddressSpace' /\ ThreadSharesData'
  BY <1>1 DEF IInv, RunsInOwnAddressSpace, ThreadSharesData
<1>6. QED
  BY <1>2, <1>3, <1>4, <1>5 DEF IInv

\* A step that changes nothing.
LEMMA StutterInv == ASSUME IInv, UNCHANGED vars PROVE IInv'
  BY DEF vars, IInv, TypeOK, TableInv, OnlyCurrentActive, SchedulerFindsTask, Schedulable,
         Created, BlockedForOneReason, RunsInOwnAddressSpace, ThreadSharesData

\* Every step preserves the inductive invariant.
LEMMA StepInv == ASSUME ~KillAny, IInv, [Next]_vars PROVE IInv'
<1>1. CASE Yield
  BY <1>1, YieldInv
<1>2. CASE Fork
  BY <1>2, ForkInv
<1>3. CASE Clone
  BY <1>3, CloneInv
<1>4. CASE \E isElf \in BOOLEAN : Exec(isElf)
  BY <1>4, ExecInv
<1>5. CASE \E pid \in Pid : Wait(pid)
  BY <1>5, WaitInv
<1>6. CASE Exit
  BY <1>6, ExitInv
<1>7. CASE ReadKey
  BY <1>7, ReadKeyInv
<1>8. CASE KeyboardIRQ
  BY <1>8, KeyboardIRQInv
<1>9. CASE Exception
  BY <1>9, ExceptionInv
<1>10. CASE KbugsQuit
  BY <1>10, KbugsQuitInv
<1>11. CASE \E pid \in Pid : KbugsKill(pid)
  BY <1>11, KbugsKillInv
<1>12. CASE UNCHANGED vars
  BY <1>12, StutterInv
<1>13. QED
  BY <1>1, <1>2, <1>3, <1>4, <1>5, <1>6, <1>7, <1>8, <1>9, <1>10, <1>11, <1>12 DEF Next

-----------------------------------------------------------------------------
\* The inductive invariant holds in every reachable state of the process table
\* (process.c, syscalls/, wait_queue.c, interrupt.c), provided that the kbugs
\* operator kills only the process that crashed.
THEOREM Invariance == ASSUME ~KillAny PROVE Spec => []IInv
<1>1. Init => IInv
  BY InitInv
<1>2. IInv /\ [Next]_vars => IInv'
  BY StepInv
<1>3. QED
  BY <1>1, <1>2, PTL DEF Spec

\* Type correctness of the process table.
THEOREM TypeCorrect == ASSUME ~KillAny PROVE Spec => []TypeOK
<1>1. IInv => TypeOK
  BY DEF IInv
<1>2. QED
  BY <1>1, Invariance, PTL

\* process_sched_yield never leaves two processes ACTIVE, nor none.
THEOREM OneActiveProcess == ASSUME ~KillAny PROVE Spec => []OnlyCurrentActive
<1>1. IInv => OnlyCurrentActive
  BY DEF IInv
<1>2. QED
  BY <1>1, Invariance, PTL

\* The search loop of process_sched_yield always ends on a runnable process.
THEOREM SchedulerAlwaysFindsTask == ASSUME ~KillAny PROVE Spec => []SchedulerFindsTask
<1>1. IInv => SchedulerFindsTask
  BY DEF IInv
<1>2. QED
  BY <1>1, Invariance, PTL

\* wait(), the keyboard queue and the statuses never disagree on who is blocked.
THEOREM BlockedConsistently == ASSUME ~KillAny PROVE Spec => []BlockedForOneReason
<1>1. IInv => BlockedForOneReason
  BY DEF IInv
<1>2. QED
  BY <1>1, Invariance, PTL

\* The one set of page tables always shows the running process its own pages.
THEOREM OwnAddressSpace == ASSUME ~KillAny PROVE Spec => []RunsInOwnAddressSpace
<1>1. IInv => RunsInOwnAddressSpace
  BY DEF IInv
<1>2. QED
  BY <1>1, Invariance, PTL

\* A thread always sees the data of the process that cloned it (clone.c, and the
\* choice of the address space in process_sched_yield).
THEOREM ThreadsShareData == ASSUME ~KillAny PROVE Spec => []ThreadSharesData
<1>1. IInv => ThreadSharesData
  BY DEF IInv
<1>2. QED
  BY <1>1, Invariance, PTL

-----------------------------------------------------------------------------
(***************************************************************************)
(* Action properties: who may leave the statuses WAITING and DEAD.         *)
(***************************************************************************)

\* A yield does not touch a process that is neither running nor runnable.
LEMMA YieldLeavesOthers ==
    ASSUME IInv,
           NEW st \in [Pid -> Status],
           NEW up \in {NULL} \cup Pid,
           process_sched_yield(st, up),
           pidNext' \in Int,
           st[0] \in {"ACTIVE", "INACTIVE"},
           up # NULL => st[up] = "INACTIVE",
           NEW p \in Pid,
           p # current,
           st[p] \notin {"ACTIVE", "INACTIVE"}
    PROVE  status'[p] = st[p]
<1> DEFINE new == IF up = NULL THEN RoundRobin(st, current) ELSE up
<1>1. 0 \in Schedulable(st)
  BY TypedFacts DEF Schedulable, Created
<1>2. RoundRobin(st, current) \in Schedulable(st)
  BY <1>1, RoundRobinPicks DEF IInv, KERNEL_PROCESS_ID
<1>3. p # new
  BY <1>2 DEF Schedulable
<1>4. status' = st \/ status' = [st EXCEPT ![current] = SwitchedOut(@), ![new] = "ACTIVE"]
  BY DEF process_sched_yield
<1> HIDE DEF new
<1>5. QED
  BY <1>3, <1>4

\* A running process that dies wakes at most the parent that waits for it.
LEMMA DeathWakes ==
    ASSUME IInv,
           current # 0,
           UNCHANGED pidNext,
           process_sched_yield(MarkDead(current), NextUpAfterDeath(current)),
           NEW p \in Pid,
           status[p] \in {"WAITING", "DEAD"}
    PROVE  \/ status'[p] = status[p]
           \/ /\ status[p] = "WAITING"
              /\ waitFor[p] = current /\ parent[current] = p
              /\ status'[current] = "DEAD"
<1> DEFINE st == MarkDead(current)
           up == NextUpAfterDeath(current)
           par == parent[current]
<1>1. /\ st \in [Pid -> Status]
      /\ \A q \in Pid : st[q] = CASE q = current -> "WFD"
                                  [] q = par /\ WaitedFor(current) -> "INACTIVE"
                                  [] OTHER -> status[q]
  BY TypedFacts DEF MarkDead, Status
<1>2. WaitedFor(current) => /\ waitFor[par] = current
                            /\ par \in Pid /\ par # current /\ par # 0
                            /\ status[par] = "WAITING"
  BY CurrentFacts DEF WaitedFor, BlockedForOneReason, IInv
<1>3. /\ up \in {NULL} \cup Pid
      /\ up # NULL => st[up] = "INACTIVE"
  <2>1. CASE WaitedFor(current)
    BY <2>1, <1>1, <1>2 DEF NextUpAfterDeath
  <2>2. CASE ~ WaitedFor(current)
    BY <2>2, <1>1, CurrentFacts, TypedFacts DEF NextUpAfterDeath
  <2>3. QED
    BY <2>1, <2>2
<1>4. st[0] \in {"ACTIVE", "INACTIVE"} /\ st[current] = "WFD"
  BY <1>1, <1>2, CurrentFacts
<1>5. p # current
  BY CurrentFacts
<1>6. CASE ~ (p = par /\ WaitedFor(current))
  <2>1. st[p] = status[p]
    BY <1>1, <1>5, <1>6
  <2>2. QED
    BY <1>1, <1>3, <1>4, <1>5, <2>1, TypedFacts, YieldLeavesOthers
<1>7. CASE p = par /\ WaitedFor(current)
  <2>1. up = par
    BY <1>7 DEF NextUpAfterDeath
  <2>2. current # up /\ up # NULL
    BY <1>2, <1>7, <2>1, CurrentFacts
  <2>3. status' = [st EXCEPT ![current] = SwitchedOut(@), ![up] = "ACTIVE"]
    BY <2>2 DEF process_sched_yield
  <2>4. status'[current] = "DEAD"
    BY <1>1, <1>4, <2>2, <2>3, CurrentFacts DEF SwitchedOut
  <2>5. QED
    BY <1>2, <1>7, <2>4
<1>8. QED
  BY <1>6, <1>7

\* The same of a yield that leaves every other status as it was.
LEMMA PlainYieldLeaves ==
    ASSUME IInv,
           NEW st \in [Pid -> Status],
           NEW up \in {NULL} \cup Pid,
           process_sched_yield(st, up),
           pidNext' \in Int,
           NEW n \in Pid, n # 0, NEW s,
           st = [status EXCEPT ![n] = s],
           up # NULL => st[up] = "INACTIVE",
           NEW p \in Pid,
           p # n,
           status[p] \in {"WAITING", "DEAD"}
    PROVE  status'[p] = status[p]
<1>1. st[p] = status[p] /\ st[0] = status[0] /\ p # current
  BY CurrentFacts, TypedFacts
<1>2. QED
  BY <1>1, CurrentFacts, YieldLeavesOthers

\* Every way in which a blocked process stops being blocked; nothing changes the
\* status of a dead one.
LEMMA BlockedAndDead ==
    ASSUME ~KillAny, IInv, [Next]_vars,
           NEW p \in Pid, status[p] \in {"WAITING", "DEAD"}
    PROVE  \/ status'[p] = status[p]
           \/ /\ status[p] = "WAITING"
              /\ waiters # <<>> /\ p = Head(waiters)
              /\ waiters' = Tail(waiters)
           \/ /\ status[p] = "WAITING"
              /\ current # 0
              /\ waitFor[p] = current /\ parent[current] = p
              /\ status'[current] = "DEAD"
<1> USE DEF KERNEL_PROCESS_ID
<1>0. p # current
  BY CurrentFacts
<1>1. CASE Yield
  <2>1. pidNext' \in Int /\ process_sched_yield(status, nextUp)
    BY <1>1, TypedFacts DEF Yield
  <2>2. QED
    BY <1>0, <2>1, CurrentFacts, TypedFacts, YieldLeavesOthers
<1>2. CASE Fork
  <2>1. status' = [status EXCEPT ![pidNext] = "INACTIVE"]
    BY <1>2 DEF Fork
  <2>2. p # pidNext
    BY TypedFacts DEF IInv, TableInv
  <2>3. QED
    BY <2>1, <2>2, TypedFacts
<1>3. CASE Clone
  <2> DEFINE st == [status EXCEPT ![pidNext] = "INACTIVE"]
  <2>1. process_sched_yield(st, pidNext) /\ pidNext < MaxProcs /\ pidNext' = pidNext + 1
    BY <1>3 DEF Clone, NewProcess
  <2>2. pidNext \in Pid /\ pidNext # 0 /\ pidNext' \in Int
    BY <2>1, TypedFacts, PidBounds
  <2>3. p # pidNext
    BY TypedFacts DEF IInv, TableInv
  <2>4. st \in [Pid -> Status] /\ st[pidNext] = "INACTIVE"
    BY <2>2, TypedFacts DEF Status
  <2>5. QED
    BY <2>1, <2>2, <2>3, <2>4, PlainYieldLeaves
<1>4. CASE \E isElf \in BOOLEAN : Exec(isElf)
  <2>1. status' = [status EXCEPT ![current] = "ACTIVE"]
    BY <1>4 DEF Exec
  <2>2. QED
    BY <1>0, <2>1, TypedFacts
<1>5. CASE (\E pid \in Pid : Wait(pid)) \/ (ReadKey /\ keys = 0)
  <2> DEFINE st == [status EXCEPT ![current] = "WAITING"]
  <2>1. process_sched_yield(st, nextUp) /\ UNCHANGED pidNext /\ current # 0
    <3>1. CASE \E pid \in Pid : Wait(pid)
      BY <3>1 DEF Wait, UserRuns
    <3>2. CASE ReadKey /\ keys = 0
      BY <3>2, ~ (0 > 0) DEF ReadKey, UserRuns
    <3>3. QED
      BY <1>5, <3>1, <3>2
  <2>2. st \in [Pid -> Status]
    BY TypedFacts DEF Status
  <2>3. nextUp # NULL => st[nextUp] = "INACTIVE"
    BY <2>1, CurrentFacts, TypedFacts
  <2>4. current \in Pid /\ nextUp \in {NULL} \cup Pid /\ pidNext' \in Int
    BY <2>1, CurrentFacts, TypedFacts
  <2> DEFINE w == "WAITING"
  <2>5. st = [status EXCEPT ![current] = w]
    OBVIOUS
  <2> HIDE DEF st, w
  <2>6. st[p] = status[p] /\ st[0] = status[0] /\ p \in Pid /\ 0 \in Pid
    BY <1>0, <2>1, <2>4, <2>5, CurrentFacts, TypedFacts
  <2>7. st[0] \in {"ACTIVE", "INACTIVE"} /\ st[p] \notin {"ACTIVE", "INACTIVE"}
    BY <2>6, CurrentFacts
  <2>8. process_sched_yield(st, nextUp) /\ nextUp \in {NULL} \cup Pid /\ pidNext' \in Int
    BY <2>1, <2>4, Zenon
  <2>9. status'[p] = st[p]
    BY <1>0, <2>2, <2>3, <2>6, <2>7, <2>8, YieldLeavesOthers, Zenon
  <2>10. QED
    BY <2>6, <2>9, Zenon
<1>6. CASE Exit \/ \E pid \in Pid : KbugsKill(pid)
  <2>1. /\ current # 0
        /\ UNCHANGED pidNext
        /\ process_sched_yield(MarkDead(current), NextUpAfterDeath(current))
    BY <1>6 DEF Exit, UserRuns, KbugsKill
  <2>2. QED
    BY <2>1, DeathWakes
<1>7. CASE KeyboardIRQ
  <2>1. CASE waiters = <<>>
    BY <1>7, <2>1 DEF KeyboardIRQ
  <2>2. CASE waiters # <<>>
    <3> DEFINE h == Head(waiters)
    <3>1. status' = [status EXCEPT ![h] = "INACTIVE"] /\ waiters' = Tail(waiters)
      BY <1>7, <2>2 DEF KeyboardIRQ
    <3>2. h = waiters[1] /\ 1 \in 1 .. Len(waiters)
      BY <2>2, HeadTailProperties, LenProperties, EmptySeq, TypedFacts
    <3>3. status[h] = "WAITING"
      BY <3>2 DEF IInv, BlockedForOneReason
    <3>4. QED
      BY <2>2, <3>1, <3>3, TypedFacts
  <2>3. QED
    BY <2>1, <2>2
<1>8. CASE (ReadKey /\ keys # 0) \/ Exception \/ KbugsQuit \/ UNCHANGED vars
  BY <1>8, TypedFacts DEF ReadKey, Exception, KbugsQuit, table, vars
<1>9. QED
  BY <1>1, <1>2, <1>3, <1>4, <1>5, <1>6, <1>7, <1>8 DEF Next

\* Death is final: no schedule of yields, wake-ups by children or keys, and
\* crashes makes a process that exited runnable again.
THEOREM DeathIsFinal == ASSUME ~KillAny PROVE Spec => DeadStaysDead
<1>1. IInv /\ [Next]_vars =>
        [\A p \in Pid : status[p] \in {"WFD", "DEAD"} => status'[p] \in {"WFD", "DEAD"}]_vars
  BY BlockedAndDead DEF IInv, TableInv
<1>2. QED
  BY <1>1, Invariance, PTL DEF Spec, DeadStaysDead

\* No wake-up comes from anywhere but the head of the keyboard queue or the death
\* of the child that is waited for (exit.c, kbugs.c, ps2.c).
THEOREM WakeUpsHaveReasons == ASSUME ~KillAny PROVE Spec => WokenForAReason
<1>1. ASSUME IInv, [Next]_vars, NEW p \in Pid, status[p] = "WAITING", status'[p] # "WAITING"
      PROVE  \/ /\ waiters # <<>> /\ p = Head(waiters)
                /\ waiters' = Tail(waiters)
             \/ /\ waitFor[p] # 0 /\ parent[waitFor[p]] = p
                /\ status[waitFor[p]] # "DEAD" /\ status'[waitFor[p]] = "DEAD"
  BY <1>1, BlockedAndDead, CurrentFacts
<1>2. IInv /\ [Next]_vars =>
        [\A p \in Pid : (status[p] = "WAITING" /\ status'[p] # "WAITING") =>
          \/ /\ waiters # <<>> /\ p = Head(waiters)
             /\ waiters' = Tail(waiters)
          \/ /\ waitFor[p] # 0 /\ parent[waitFor[p]] = p
             /\ status[waitFor[p]] # "DEAD" /\ status'[waitFor[p]] = "DEAD"]_vars
  BY <1>1
<1>3. QED
  BY <1>2, Invariance, PTL DEF Spec, WokenForAReason
=============================================================================
