----------------------------- MODULE KeyboardRead -----------------------------
(***************************************************************************)
(* A read from the keyboard (syscalls/read.c, stdin.c, ps2.c,              *)
(* wait_queue.c), statement by statement, against the keyboard interrupt.  *)
(* The syscall gate is a trap gate: interrupts stay enabled in the kernel, *)
(* so the handler may run between any two of these statements, on the same *)
(* two lists and the same process table.  Process takes a syscall as one   *)
(* step; this module opens up the one that shares data with an interrupt.  *)
(* StdinRead adds the serial port, the other device stdin may stand for.   *)
(*                                                                         *)
(* Scancodes are numbered in the order of arrival.  One call of a list     *)
(* function is one step, and which runnable process runs next is left open *)
(* (Process says which).                                                   *)
(***************************************************************************)
EXTENDS Integers, Sequences, SequencesExt, FiniteSets

CONSTANTS
    Reader,     \* the pids of the processes that read from stdin
    MaxPress,   \* bound on the scancodes that arrive
    Release     \* the arrivals whose scancode is 0x81 or more

ASSUME ReaderAssumption == Reader \subseteq Nat \ {0}
ASSUME PressAssumption == MaxPress \in Nat /\ Release \subseteq 1 .. MaxPress

\* The idle process.
KERNEL_PROCESS_ID == 0

Key == 1 .. MaxPress

VARIABLES
    pc,         \* where a reader is in its read, "user" when it is outside
    status,     \* process_data.status
    running,    \* current_process, the idle process included
    queue,      \* wq_ps2_keyboard->queue, oldest entry first
    scancodes,  \* scancode_queue, oldest first
    pressed,    \* how many scancodes have arrived
    held,       \* the list node a reader holds between looking and freeing
    taken,      \* the scancodes converted for a reader, in that order
    buff        \* what the program finds in the buffer it passed, 0 is NUL

vars == <<pc, status, running, queue, scancodes, pressed, held, taken, buff>>

Init ==
    /\ pc = [r \in Reader |-> "user"]
    /\ status = [r \in Reader |-> "INACTIVE"]
    /\ running = KERNEL_PROCESS_ID
    /\ queue = <<>>
    /\ scancodes = <<>>
    /\ pressed = 0
    /\ held = [r \in Reader |-> 0]
    /\ taken = <<>>
    /\ buff = [r \in Reader |-> 0]

\* keyboard_scancode_to_char: a release has no character.
keyboard_scancode_to_char(k) == IF k \in Release THEN 0 ELSE k

At(r, l) == running = r /\ pc[r] = l
Goto(r, l) == pc' = [pc EXCEPT ![r] = l]

\* The program calls read on descriptor 0.
Call(r) ==
    /\ At(r, "user")
    /\ Goto(r, "check")
    /\ UNCHANGED <<status, running, queue, scancodes, pressed, held, taken, buff>>

\* The size of the scancode queue is read, and its tail node when it is not empty.
CheckSize(r) ==
    /\ At(r, "check")
    /\ \/ /\ scancodes = <<>>
          /\ Goto(r, "wq_add")
          /\ UNCHANGED held
       \/ /\ scancodes # <<>>
          /\ Goto(r, "take")
          /\ held' = [held EXCEPT ![r] = Head(scancodes)]
    /\ UNCHANGED <<status, running, queue, scancodes, pressed, taken, buff>>

\* The held node is converted and freed, and stdin_read stores the character.
Take(r) ==
    /\ At(r, "take")
    /\ taken' = Append(taken, held[r])
    /\ scancodes' = RemoveFirst(scancodes, held[r])
    /\ buff' = [buff EXCEPT ![r] = keyboard_scancode_to_char(held[r])]
    /\ Goto(r, "tail")
    /\ UNCHANGED <<status, running, queue, pressed, held>>

\* wq_add, first half: the entry is queued.
Enqueue(r) ==
    /\ At(r, "wq_add")
    /\ queue' = Append(queue, r)
    /\ Goto(r, "wq_status")
    /\ UNCHANGED <<status, running, scancodes, pressed, held, taken, buff>>

\* wq_add, second half: the process is WAITING.
SetWaiting(r) ==
    /\ At(r, "wq_status")
    /\ status' = [status EXCEPT ![r] = "WAITING"]
    /\ Goto(r, "store")
    /\ UNCHANGED <<running, queue, scancodes, pressed, held, taken, buff>>

\* stdin_read stores what the device's read returned, which is 0 on this path.
StoreNul(r) ==
    /\ At(r, "store")
    /\ buff' = [buff EXCEPT ![r] = 0]
    /\ Goto(r, "tail")
    /\ UNCHANGED <<status, running, queue, scancodes, pressed, held, taken>>

\* process_sched_yield from r (or the idle loop) to another runnable process or
\* the idle loop.
SwitchFrom(r) ==
    \E s \in Reader \cup {KERNEL_PROCESS_ID} :
        /\ s = r => r = KERNEL_PROCESS_ID
        /\ s # KERNEL_PROCESS_ID => status[s] = "INACTIVE"
        /\ running' = s
        /\ status' = [x \in Reader |-> IF x = s THEN "ACTIVE"
                                       ELSE IF x = r /\ status[x] # "WAITING" THEN "INACTIVE"
                                       ELSE status[x]]

\* Wrong on purpose (see "mutants" in PROJECT.json): the caller goes back to its
\* program even when it is WAITING.
SyscallTail_NoYield(r) ==
    /\ At(r, "tail")
    /\ Goto(r, "user")
    /\ UNCHANGED <<status, running, queue, scancodes, pressed, held, taken, buff>>

\* The end of syscall_handler: a WAITING process yields, and is in the middle of
\* its read until somebody switches back to it.
SyscallTail(r) ==
    /\ At(r, "tail")
    /\ \/ /\ status[r] = "WAITING"
          /\ Goto(r, "blocked")
          /\ SwitchFrom(r)
       \/ /\ status[r] # "WAITING"
          /\ Goto(r, "user")
          /\ UNCHANGED <<status, running>>
    /\ UNCHANGED <<queue, scancodes, pressed, held, taken, buff>>

\* The reader that blocked is scheduled again: iretq to its program.
Resume(r) ==
    /\ At(r, "blocked")
    /\ Goto(r, "user")
    /\ UNCHANGED <<status, running, queue, scancodes, pressed, held, taken, buff>>

\* A program, or the idle loop, yields.
Yield ==
    /\ running # KERNEL_PROCESS_ID => pc[running] = "user"
    /\ SwitchFrom(running)
    /\ UNCHANGED <<pc, queue, scancodes, pressed, held, taken, buff>>

\* ps2_keyboard_wq_ready for the reader r, with the scancodes codes.
Serve(codes, r) ==
    /\ taken' = Append(taken, Head(codes))
    /\ scancodes' = Tail(codes)
    /\ buff' = [buff EXCEPT ![r] = keyboard_scancode_to_char(Head(codes))]
    /\ status' = [status EXCEPT ![r] = "INACTIVE"]

\* Wrong on purpose (see "mutants" in PROJECT.json): the oldest scancode makes
\* room for the new one.
KeyboardIRQ_DropsOldest ==
    /\ pressed < MaxPress
    /\ pressed' = pressed + 1
    /\ \/ /\ queue = <<>>
          /\ scancodes' = Append(IF Len(scancodes) = 2 THEN Tail(scancodes) ELSE scancodes, pressed + 1)
          /\ UNCHANGED <<queue, taken, buff, status>>
       \/ /\ queue # <<>>
          /\ queue' = Tail(queue)
          /\ Serve(Append(scancodes, pressed + 1), Head(queue))
    /\ UNCHANGED <<pc, running, held>>

\* ps2_keyboard_interrupt_handler: the scancode is queued, then the oldest
\* waiting reader is served, if there is one.
KeyboardIRQ ==
    /\ pressed < MaxPress
    /\ pressed' = pressed + 1
    /\ \/ /\ queue = <<>>
          /\ scancodes' = Append(scancodes, pressed + 1)
          /\ UNCHANGED <<queue, taken, buff, status>>
       \/ /\ queue # <<>>
          /\ queue' = Tail(queue)
          /\ Serve(Append(scancodes, pressed + 1), Head(queue))
    /\ UNCHANGED <<pc, running, held>>

-----------------------------------------------------------------------------
\* The steps of a read that do not depend on the device.
ReadSteps ==
    \/ \E r \in Reader : \/ Call(r)
                         \/ Enqueue(r)
                         \/ SetWaiting(r)
                         \/ StoreNul(r)
                         \/ SyscallTail(r)
                         \/ Resume(r)
    \/ Yield

KeyboardSteps ==
    \/ \E r \in Reader : CheckSize(r) \/ Take(r)
    \/ KeyboardIRQ

Next == ReadSteps \/ KeyboardSteps

Spec == Init /\ [][Next]_vars

-----------------------------------------------------------------------------
TypeOK ==
    /\ pc \in [Reader -> {"user", "check", "take", "take_byte", "wq_add", "wq_status",
                          "store", "tail", "blocked"}]
    /\ status \in [Reader -> {"ACTIVE", "INACTIVE", "WAITING"}]
    /\ running \in Reader \cup {KERNEL_PROCESS_ID}
    /\ queue \in Seq(Reader)
    /\ scancodes \in Seq(Key)
    /\ pressed \in 0 .. MaxPress
    /\ held \in [Reader -> 0 .. MaxPress]
    /\ taken \in Seq(Key)
    /\ buff \in [Reader -> 0 .. MaxPress]

\* The node a reader is about to free is still in the list: no interrupt took and
\* freed it in between (avs_list_remove, "Removes an element from the list", does
\* not check).
HeldNodeIsInList ==
    \A r \in Reader : pc[r] = "take" => held[r] \in ToSet(scancodes)

\* The interrupt handler writes through the buffer pointer of a queue entry only
\* while the program that passed it is still inside its read.
NoStrayWrite ==
    [][\A r \in Reader : (queue # <<>> /\ Head(queue) = r /\ queue' = Tail(queue))
          => pc[r] # "user"]_vars

\* wq_add, "Add the given process to the wait queue": a reader that gave up the
\* processor is in the queue until it is woken, or nobody will ever wake it.
WaiterIsQueued ==
    \A r \in Reader :
        pc[r] = "blocked" /\ status[r] = "WAITING" => r \in ToSet(queue)

=============================================================================
