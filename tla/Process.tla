------------------------------- MODULE Process -------------------------------
(***************************************************************************)
(* The process table of the kernel and everything that changes it: the     *)
(* cooperative round-robin scheduler (task/process.c), the syscalls that   *)
(* create, replace, block and end processes (syscalls/), the keyboard wait *)
(* queue that blocks and wakes readers (task/wait_queue.c, ps2.c) and the  *)
(* exception handler with the kbugs monitor it drops into.                 *)
(*                                                                         *)
(* The scheduler never preempts, so one syscall is one step; the keyboard  *)
(* interrupt is a step of its own between two syscalls.  What happens when *)
(* it strikes inside a syscall is the subject of KeyboardRead.             *)
(*                                                                         *)
(* process_list is appended to in pid order and nothing is ever removed    *)
(* from it, so the list is the interval 0 .. pidNext - 1 and "the next     *)
(* node" is the next pid.                                                  *)
(***************************************************************************)
EXTENDS Integers, Sequences, FiniteSets, Functions, FiniteSetsExt

CONSTANTS
    MaxProcs,   \* bound on the processes ever created (pid_t is 32 bits wide)
    MaxKeys,    \* bound on the scancodes buffered while nobody reads
    Faulting,   \* the pids whose program may raise a CPU exception
    KillAny     \* may the kbugs operator kill a process other than the crashed one

ASSUME MaxProcsAssumption == MaxProcs \in Nat /\ MaxProcs >= 2
ASSUME MaxKeysAssumption == MaxKeys \in Nat
ASSUME FaultingAssumption == Faulting \subseteq Nat \ {0}
ASSUME KillAnyAssumption == KillAny \in BOOLEAN

Pid == 0 .. MaxProcs - 1

KERNEL_PROCESS_ID == 0
ROOT_PROCESS_ID == 1

\* process_next_up when it points at no process.
NULL == -1

\* PROCESS_STATUS_*; "UNUSED" is a pid not given out yet, WFD is
\* WAITING_FOR_DEATH.  SLEEP is never assigned and IN_SETUP never outlives the
\* syscall that sets it.
Status == {"UNUSED", "ACTIVE", "INACTIVE", "WAITING", "WFD", "DEAD"}

VARIABLES
    status,     \* process_data.status
    parent,     \* process_data.pid_parent
    waitFor,    \* process_data.wait_for_pid, 0 when it waits for nobody
    ownAS,      \* process_data.has_own_addr_space
    loaded,     \* does it have text and data sections of its own?
    badCtx,     \* the pids whose saved context is not one that iretq can restore
    pidNext,    \* global_proc_data.pid_next
    current,    \* global_proc_data.current_process
    nextUp,     \* global_proc_data.process_next_up
    mapText,    \* the process whose text pages are mapped at the user addresses,
    mapData,    \* ... whose data pages,
    mapStack,   \* ... and whose stack
    waiters,    \* wq_ps2_keyboard: the blocked readers, oldest first
    keys,       \* scancode_queue: how many scancodes are buffered
    inKbugs     \* the exception handler is in kbugs_main

table == <<status, parent, waitFor, ownAS, loaded, badCtx, pidNext>>
maps == <<mapText, mapData, mapStack>>
kbd == <<waiters, keys>>
vars == <<status, parent, waitFor, ownAS, loaded, badCtx, pidNext,
          current, nextUp, mapText, mapData, mapStack, waiters, keys, inKbugs>>

Created == 0 .. pidNext - 1

(***************************************************************************)
(* process_initalize, process_setup_init: the kernel's idle loop runs,     *)
(* /bin/first is loaded and its sections are mapped, its stack is not.     *)
(***************************************************************************)
Init ==
    /\ status = [p \in Pid |-> CASE p = KERNEL_PROCESS_ID -> "ACTIVE"
                                 [] p = ROOT_PROCESS_ID -> "INACTIVE"
                                 [] OTHER -> "UNUSED"]
    /\ parent = [p \in Pid |-> 0]
    /\ waitFor = [p \in Pid |-> 0]
    /\ ownAS = [p \in Pid |-> p = ROOT_PROCESS_ID]
    /\ loaded = [p \in Pid |-> p = ROOT_PROCESS_ID]
    /\ badCtx = {}
    /\ pidNext = 2
    /\ current = KERNEL_PROCESS_ID
    /\ nextUp = NULL
    /\ mapText = ROOT_PROCESS_ID
    /\ mapData = ROOT_PROCESS_ID
    /\ mapStack = NULL
    /\ waiters = <<>>
    /\ keys = 0
    /\ inKbugs = FALSE

-----------------------------------------------------------------------------
(***************************************************************************)
(* The scheduler.                                                          *)
(***************************************************************************)

\* The processes the round robin may pick, given the statuses st.
Schedulable(st) == {p \in Created : st[p] \in {"INACTIVE", "ACTIVE"}}

\* Wrong on purpose (see "mutants" in PROJECT.json): the search starts over at
\* the head of the list.
RoundRobin_FromHead(st, old) ==
    LET others == Schedulable(st) \ {old}
    IN  IF others # {} THEN Min(others) ELSE old

\* The first schedulable process after old in the list, wrapping at its end.
RoundRobin(st, old) ==
    LET after == {p \in Schedulable(st) : p > old}
    IN  IF after # {} THEN Min(after) ELSE Min(Schedulable(st))

\* Wrong on purpose (see "mutants" in PROJECT.json): the old process is not
\* demoted.
SwitchedOut_KeepsActive(s) == IF s = "WFD" THEN "DEAD" ELSE s

\* What becomes of the status of the process that is switched away from.
SwitchedOut(s) ==
    CASE s = "WFD" -> "DEAD"
      [] s = "WAITING" -> "WAITING"
      [] OTHER -> "INACTIVE"

\* Wrong on purpose (see "mutants" in PROJECT.json): a thread is given its
\* own, empty, list of sections.
AddrSpace_IgnoresThreads(p) == p

\* The process whose sections are mapped when p runs: its own, or its parent's
\* when p is a thread.
AddrSpace(p) == IF ownAS'[p] THEN p ELSE parent'[p]

\* Wrong on purpose (see "mutants" in PROJECT.json): the text of the new
\* process is not mapped.
MapFor_NoText(p) ==
    /\ mapData' = IF p # KERNEL_PROCESS_ID /\ loaded'[AddrSpace(p)]
                  THEN AddrSpace(p) ELSE mapData
    /\ mapStack' = IF p # KERNEL_PROCESS_ID THEN p ELSE mapStack
    /\ UNCHANGED mapText

\* The page tables after a switch to p.  The number of data pages comes from
\* the address space that is mapped, the number of text pages from p itself.
\* The kernel gets no sections, and its "stack" is page 0.
MapFor(p) ==
    /\ mapData' = IF p # KERNEL_PROCESS_ID /\ loaded'[AddrSpace(p)]
                  THEN AddrSpace(p) ELSE mapData
    /\ mapText' = IF p # KERNEL_PROCESS_ID /\ loaded'[p]
                  THEN AddrSpace(p) ELSE mapText
    /\ mapStack' = IF p # KERNEL_PROCESS_ID THEN p ELSE mapStack

\* Wrong on purpose (see "mutants" in PROJECT.json): process_next_up is not
\* reset once it is used.
process_sched_yield_StaleNextUp(st, up) ==
    LET new == IF up = NULL THEN RoundRobin(st, current) ELSE up
    IN  /\ nextUp' = up
        /\ current' = new
        /\ IF new = current
           THEN status' = st /\ UNCHANGED maps
           ELSE /\ status' = [st EXCEPT ![current] = SwitchedOut(@),
                                        ![new] = "ACTIVE"]
                /\ MapFor(new)

\* process_sched_yield, entered with the statuses st and process_next_up = up.
process_sched_yield(st, up) ==
    LET old == current
        new == IF up = NULL THEN RoundRobin(st, old) ELSE up
    IN  /\ nextUp' = NULL
        /\ current' = new
        /\ IF new = old
           THEN /\ status' = st
                /\ UNCHANGED maps
           ELSE /\ status' = [st EXCEPT ![old] = SwitchedOut(@),
                                        ![new] = "ACTIVE"]
                /\ MapFor(new)

-----------------------------------------------------------------------------
(***************************************************************************)
(* The syscalls.  The idle loop of the kernel process only yields; every   *)
(* other one is made by a user process.                                    *)
(***************************************************************************)
Running == ~inKbugs /\ current \notin badCtx
UserRuns == Running /\ current # KERNEL_PROCESS_ID

Yield ==
    /\ Running
    /\ UNCHANGED <<parent, waitFor, ownAS, loaded, badCtx, pidNext, kbd, inKbugs>>
    /\ process_sched_yield(status, nextUp)

\* process_get_new_process and the fields fork and clone fill in.
NewProcess(own, hasSections) ==
    /\ pidNext < MaxProcs
    /\ pidNext' = pidNext + 1
    /\ parent' = [parent EXCEPT ![pidNext] = current]
    /\ ownAS' = [ownAS EXCEPT ![pidNext] = own]
    /\ loaded' = [loaded EXCEPT ![pidNext] = hasSections]

\* fork: a copy of the stack and of the sections the caller itself has.
Fork ==
    /\ UserRuns
    /\ NewProcess(ownAS[current], loaded[current])
    /\ status' = [status EXCEPT ![pidNext] = "INACTIVE"]
    /\ UNCHANGED <<waitFor, badCtx, current, nextUp, maps, kbd, inKbugs>>

\* clone: a thread with a stack of its own, switched to at once.
Clone ==
    /\ UserRuns
    /\ NewProcess(FALSE, FALSE)
    /\ UNCHANGED <<waitFor, badCtx, kbd, inKbugs>>
    /\ process_sched_yield([status EXCEPT ![pidNext] = "INACTIVE"], pidNext)

\* execve and execm on a file that exists.  isElf: elf_loader_load found an ELF
\* image and replaced the sections; otherwise it leaves them as they were.  The
\* process is IN_SETUP meanwhile and ACTIVE at the end.
Exec(isElf) ==
    /\ UserRuns
    /\ ownAS' = [ownAS EXCEPT ![current] = TRUE]
    /\ loaded' = [loaded EXCEPT ![current] = @ \/ isElf]
    /\ status' = [status EXCEPT ![current] = "ACTIVE"]
    /\ MapFor(current)
    /\ UNCHANGED <<parent, waitFor, badCtx, pidNext, current, nextUp, kbd, inKbugs>>

\* wait: nothing is asked of pid.  The caller is WAITING, so syscall_handler
\* yields on its way out.
Wait(pid) ==
    /\ UserRuns
    /\ waitFor' = [waitFor EXCEPT ![current] = pid]
    /\ UNCHANGED <<parent, ownAS, loaded, badCtx, pidNext, kbd, inKbugs>>
    /\ process_sched_yield([status EXCEPT ![current] = "WAITING"], nextUp)

\* Wrong on purpose (see "mutants" in PROJECT.json): any parent is told.
WaitedFor_AnyParent(p) == TRUE

\* Wrong on purpose (see "mutants" in PROJECT.json): a blocked parent is told
\* whatever it is blocked on.
WaitedFor_AnyBlocked(p) == status[parent[p]] = "WAITING"

\* The parent of a process that dies, when it waits for exactly that process.
WaitedFor(p) == waitFor[parent[p]] = p

\* The statuses and process_next_up once p is marked as dying and its parent
\* has been told.  exit marks p after waking the parent, kbugs_kill before.
MarkDead(p) ==
    [q \in Pid |-> CASE q = p -> "WFD"
                     [] q = parent[p] /\ WaitedFor(p) -> "INACTIVE"
                     [] OTHER -> status[q]]

NextUpAfterDeath(p) == IF WaitedFor(p) THEN parent[p] ELSE nextUp

\* Wrong on purpose (see "mutants" in PROJECT.json): wait_for_pid is not reset.
NotifyParent_KeepsWaitFor(p) == UNCHANGED waitFor

NotifyParent(p) ==
    waitFor' = IF WaitedFor(p) THEN [waitFor EXCEPT ![parent[p]] = 0] ELSE waitFor

\* exit (its descriptors are closed in FileDescriptors).
Exit ==
    /\ UserRuns
    /\ NotifyParent(current)
    /\ UNCHANGED <<parent, ownAS, loaded, badCtx, pidNext, kbd, inKbugs>>
    /\ process_sched_yield(MarkDead(current), NextUpAfterDeath(current))

\* read from the keyboard: take the oldest scancode, or join the wait queue.
ReadKey ==
    /\ UserRuns
    /\ UNCHANGED <<parent, waitFor, ownAS, loaded, badCtx, pidNext, inKbugs>>
    /\ \/ /\ keys > 0
          /\ keys' = keys - 1
          /\ UNCHANGED <<status, current, nextUp, maps, waiters>>
       \/ /\ keys = 0
          /\ waiters' = Append(waiters, current)
          /\ UNCHANGED keys
          /\ process_sched_yield([status EXCEPT ![current] = "WAITING"], nextUp)

\* The keyboard interrupt: the scancode is queued and the oldest blocked reader,
\* if there is one, is given the oldest scancode and made INACTIVE.
KeyboardIRQ ==
    /\ \/ /\ waiters = <<>>
          /\ keys < MaxKeys
          /\ keys' = keys + 1
          /\ UNCHANGED <<status, waiters>>
       \/ /\ waiters # <<>>
          /\ status' = [status EXCEPT ![Head(waiters)] = "INACTIVE"]
          /\ waiters' = Tail(waiters)
          /\ UNCHANGED keys
    /\ UNCHANGED <<parent, waitFor, ownAS, loaded, badCtx, pidNext, current, nextUp, maps, inKbugs>>

-----------------------------------------------------------------------------
(***************************************************************************)
(* A CPU exception of a user process: the kernel process is put up next    *)
(* and kbugs_main reads commands until the operator quits or kills.        *)
(***************************************************************************)
Exception ==
    /\ ~inKbugs
    /\ current \in Faulting \/ current \in badCtx
    /\ inKbugs' = TRUE
    /\ nextUp' = KERNEL_PROCESS_ID
    /\ UNCHANGED <<table, current, maps, kbd>>

\* q: kbugs_main returns, the handler returns to the instruction that faulted.
KbugsQuit ==
    /\ inKbugs
    /\ inKbugs' = FALSE
    /\ UNCHANGED <<table, current, nextUp, maps, kbd>>

\* kill: the victim is marked, its parent is told, and k_yield_in_int enters
\* isr_254 by a plain call, so what it saves as the context of the current
\* process is no interrupt frame.
KbugsKill(pid) ==
    /\ inKbugs
    /\ pid \in Created /\ pid # KERNEL_PROCESS_ID
    /\ pid = current \/ KillAny
    /\ inKbugs' = FALSE
    /\ NotifyParent(pid)
    /\ badCtx' = badCtx \cup {current}
    /\ UNCHANGED <<parent, ownAS, loaded, pidNext, kbd>>
    /\ process_sched_yield(MarkDead(pid), NextUpAfterDeath(pid))

Next ==
    \/ Yield
    \/ Fork
    \/ Clone
    \/ \E isElf \in BOOLEAN : Exec(isElf)
    \/ \E pid \in Pid : Wait(pid)
    \/ Exit
    \/ ReadKey
    \/ KeyboardIRQ
    \/ Exception
    \/ KbugsQuit
    \/ \E pid \in Pid : KbugsKill(pid)

Spec == Init /\ [][Next]_vars

-----------------------------------------------------------------------------
TypeOK ==
    /\ status \in [Pid -> Status]
    /\ parent \in [Pid -> Pid]
    /\ waitFor \in [Pid -> Pid]
    /\ ownAS \in [Pid -> BOOLEAN]
    /\ loaded \in [Pid -> BOOLEAN]
    /\ badCtx \subseteq Pid
    /\ pidNext \in 2 .. MaxProcs
    /\ current \in Pid
    /\ nextUp \in {NULL} \cup Pid
    /\ mapText \in Pid /\ mapData \in Pid
    /\ mapStack \in {NULL} \cup Pid
    /\ waiters \in Seq(Pid)
    /\ keys \in 0 .. MaxKeys
    /\ inKbugs \in BOOLEAN

(***************************************************************************)
(* Safety.                                                                 *)
(***************************************************************************)

\* Exactly the process the kernel believes to be running is ACTIVE, whatever
\* mix of yields, hand-overs (clone, exit), blocking calls, wake-ups and kills
\* led here; a process that process_sched_yield forgot to demote would be
\* picked while it runs.
OnlyCurrentActive ==
    \A p \in Pid : status[p] = "ACTIVE" <=> p = current

\* The comment in process_sched_yield, "after this loop, task_head will always
\* contain a good task to switch to": the idle process never leaves the round
\* robin and process_next_up never names a process that cannot run, so the
\* search loop ends and never resumes a blocked or dead process.
SchedulerFindsTask ==
    /\ KERNEL_PROCESS_ID \in Schedulable(status)
    /\ nextUp # NULL => nextUp \in Schedulable(status)
    /\ nextUp # current

\* A blocked reader waits in the keyboard queue once and for nothing else, a
\* process that has wait_for_pid set is still blocked in wait(), and nobody
\* sleeps on the queue while scancodes are buffered.  wq_call_next_ready and
\* exit both make a process INACTIVE without looking at its status: this is
\* what keeps them from waking anyone else.
BlockedForOneReason ==
    /\ \A i \in 1 .. Len(waiters) :
          /\ status[waiters[i]] = "WAITING"
          /\ waitFor[waiters[i]] = 0
          /\ \A j \in 1 .. Len(waiters) : waiters[i] = waiters[j] => i = j
    /\ \A p \in Pid : waitFor[p] # 0 => status[p] = "WAITING"
    /\ waiters # <<>> => keys = 0

\* A user process that has sections of its own runs on its own text, data and
\* stack pages, after any sequence of switches, forks, clones and execs of
\* others that share the one set of page tables.
RunsInOwnAddressSpace ==
    current # KERNEL_PROCESS_ID =>
        /\ mapStack = current
        /\ loaded[current] => mapText = current /\ mapData = current

\* A thread sees the data of the process that cloned it.
ThreadSharesData ==
    (current # KERNEL_PROCESS_ID /\ ~ownAS[current] /\ loaded[parent[current]])
        => mapData = parent[current]

\* Death is final: a process that exited or was killed is never scheduled, woken
\* by a child it waited for, or woken by a key again.
DeadStaysDead ==
    [][\A p \in Pid : status[p] \in {"WFD", "DEAD"} => status'[p] \in {"WFD", "DEAD"}]_vars

\* A process leaves WAITING only because it was the oldest reader when a key
\* arrived, or because the very child it waited for has just died.
WokenForAReason ==
    [][\A p \in Pid : (status[p] = "WAITING" /\ status'[p] # "WAITING") =>
          \/ /\ waiters # <<>> /\ p = Head(waiters)
             /\ waiters' = Tail(waiters)
          \/ /\ waitFor[p] # 0 /\ parent[waitFor[p]] = p
             /\ status[waitFor[p]] # "DEAD" /\ status'[waitFor[p]] = "DEAD"]_vars

(***************************************************************************)
(* The inductive invariant: what the properties above need to know of each *)
(* other and of the rest of the table.                                     *)
(***************************************************************************)

\* Between two steps nobody is half dead, pids are handed out in order, parents
\* exist (process_sched_yield follows pid_parent without looking), the idle
\* process can be resumed,
\* process_next_up is either empty or the hand-over to the idle process that
\* the exception handler asked for, and only a process with an address space of
\* its own has sections.
TableInv ==
    /\ \A p \in Pid : status[p] = "UNUSED" <=> p >= pidNext
    /\ \A p \in Pid : status[p] # "WFD"
    /\ \A p \in Pid : parent[p] < pidNext
    /\ KERNEL_PROCESS_ID \notin badCtx
    /\ \A p \in Pid : loaded[p] => ownAS[p]
    /\ nextUp \in {NULL, KERNEL_PROCESS_ID}
    /\ inKbugs => nextUp = KERNEL_PROCESS_ID

IInv ==
    /\ TypeOK
    /\ TableInv
    /\ OnlyCurrentActive
    /\ SchedulerFindsTask
    /\ BlockedForOneReason
    /\ RunsInOwnAddressSpace
    /\ ThreadSharesData

(***************************************************************************)
(* Liveness.  The scheduler cannot take the processor away, so what it     *)
(* promises holds for programs that keep calling yield: Yield is weakly    *)
(* fair.  The idle loop does nothing else.                                 *)
(***************************************************************************)
FairSpec == Spec /\ WF_vars(Yield)

\* No runnable process starves: the round robin reaches it however the others
\* block, wake, fork, clone, hand over to a waiting parent, crash and exit,
\* unless a crash stops the machine in kbugs.
RunnableEventuallyRuns ==
    \A p \in Pid : status[p] = "INACTIVE" ~> (current = p \/ inKbugs)
=============================================================================
