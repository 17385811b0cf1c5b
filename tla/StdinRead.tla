------------------------------- MODULE StdinRead -------------------------------
(***************************************************************************)
(* A read of stdin from the device it stands for: the keyboard, as in      *)
(* KeyboardRead, or, on a machine without the GUI, the serial port         *)
(* (devices/character/serial.c).  The port's interrupt handler writes to a *)
(* ring of bytes and wakes the oldest waiting reader; the ring knows       *)
(* neither full nor empty, only two indexes.                               *)
(***************************************************************************)
EXTENDS KeyboardRead

CONSTANT RING   \* the size of serial3_buffer, 50

ASSUME RingAssumption == RING \in Nat \ {0}

VARIABLES
    d_use_as_stdin,         \* the device, chosen at boot by the loader's configuration
    serial3_buffer,
    serial3_buffer_w_index,
    serial3_buffer_r_index,
    overrun                 \* history: a byte came when RING were unread

serial == <<serial3_buffer, serial3_buffer_w_index, serial3_buffer_r_index, overrun>>
allvars == <<vars, d_use_as_stdin, serial>>

Wrapped(i) == IF i + 1 = RING THEN 0 ELSE i + 1

\* The bytes from the read index to the write index.
Unread ==
    LET r == serial3_buffer_r_index
        w == serial3_buffer_w_index
        At0(from, to) == [i \in 1 .. to - from |-> serial3_buffer[from + i - 1]]
    IN  IF r <= w THEN At0(r, w) ELSE At0(r, RING) \o At0(0, w)

-----------------------------------------------------------------------------
\* Wrong on purpose (see "mutants" in PROJECT.json): equal indexes count as a byte.
CheckIndex_AtMost(r) ==
    /\ At(r, "check")
    /\ Goto(r, IF serial3_buffer_r_index <= serial3_buffer_w_index THEN "take_byte" ELSE "wq_add")
    /\ UNCHANGED <<status, running, queue, scancodes, pressed, held, taken, buff, serial>>

\* serial3_read compares the indexes: after the write index has wrapped, the bytes
\* behind the read index do not count.
CheckIndex(r) ==
    /\ At(r, "check")
    /\ Goto(r, IF serial3_buffer_r_index < serial3_buffer_w_index THEN "take_byte" ELSE "wq_add")
    /\ UNCHANGED <<status, running, queue, scancodes, pressed, held, taken, buff, serial>>

\* The next byte for the reader r, taken out of the ring with these contents.
TakeByte(r, ring) ==
    /\ taken' = Append(taken, ring[serial3_buffer_r_index])
    /\ buff' = [buff EXCEPT ![r] = ring[serial3_buffer_r_index]]
    /\ serial3_buffer_r_index' = Wrapped(serial3_buffer_r_index)

ReadByte(r) ==
    /\ At(r, "take_byte")
    /\ TakeByte(r, serial3_buffer)
    /\ Goto(r, "tail")
    /\ UNCHANGED <<status, running, queue, scancodes, pressed, held, serial3_buffer,
                   serial3_buffer_w_index, overrun>>

\* serial3_interrupt_handler, and serial3_wq_ready when a reader waits.
SerialIRQ ==
    LET ring == [serial3_buffer EXCEPT ![serial3_buffer_w_index] = pressed + 1]
    IN  /\ pressed < MaxPress
        /\ pressed' = pressed + 1
        /\ serial3_buffer' = ring
        /\ serial3_buffer_w_index' = Wrapped(serial3_buffer_w_index)
        /\ \/ /\ queue = <<>>
              /\ overrun' = (overrun \/ Len(Unread) + 1 = RING)
              /\ UNCHANGED <<queue, status, taken, buff, serial3_buffer_r_index>>
           \/ /\ queue # <<>>
              /\ queue' = Tail(queue)
              /\ status' = [status EXCEPT ![Head(queue)] = "INACTIVE"]
              /\ TakeByte(Head(queue), ring)
              /\ UNCHANGED overrun
        /\ UNCHANGED <<pc, running, scancodes, held>>

SerialSteps ==
    \/ \E r \in Reader : CheckIndex(r) \/ ReadByte(r)
    \/ SerialIRQ

-----------------------------------------------------------------------------
InitStdin ==
    /\ Init
    /\ d_use_as_stdin \in {"ps2keyboard", "serial3"}
    /\ serial3_buffer = [i \in 0 .. RING - 1 |-> 0]
    /\ serial3_buffer_w_index = 0 /\ serial3_buffer_r_index = 0
    /\ overrun = FALSE

NextStdin ==
    /\ \/ ReadSteps /\ UNCHANGED serial
       \/ d_use_as_stdin = "ps2keyboard" /\ KeyboardSteps /\ UNCHANGED serial
       \/ d_use_as_stdin = "serial3" /\ SerialSteps
    /\ UNCHANGED d_use_as_stdin

SpecStdin == InitStdin /\ [][NextStdin]_allvars

-----------------------------------------------------------------------------
TypeOKStdin ==
    /\ TypeOK
    /\ serial3_buffer \in [0 .. RING - 1 -> 0 .. MaxPress]
    /\ {serial3_buffer_w_index, serial3_buffer_r_index} \subseteq 0 .. RING - 1
    /\ overrun \in BOOLEAN

\* Wherever the interrupt strikes, every scancode or byte is either handed to a
\* reader or still waiting, exactly once and in the order of arrival, around the
\* end of the ring too; only a ring that RING bytes have filled forgets.
EachKeyTakenOnceInOrder ==
    /\ TypeOKStdin
    /\ overrun \/ taken \o scancodes \o Unread = [i \in 1 .. pressed |-> i]

-----------------------------------------------------------------------------
(***************************************************************************)
(* The inductive invariant, for one reader.                                *)
(***************************************************************************)
\* The reader is in the queue at most once, while it is inside its read, and then
\* it is WAITING, or about to be.
QueuedInside ==
    /\ Len(queue) <= 1
    /\ \A r \in Reader : queue # <<>> =>
          /\ pc[r] \in {"wq_status", "store", "tail", "blocked"}
          /\ pc[r] # "wq_status" => status[r] = "WAITING"

\* A reader that blocked runs again only after it was woken.
ResumesWoken ==
    \A r \in Reader : running = r /\ pc[r] = "blocked" => status[r] # "WAITING"

\* Each device leaves the data of the other alone.
OneDevice ==
    /\ d_use_as_stdin \in {"ps2keyboard", "serial3"}
    /\ d_use_as_stdin = "ps2keyboard" =>
          /\ serial3_buffer_r_index = 0 /\ serial3_buffer_w_index = 0 /\ ~ overrun
          /\ \A r \in Reader : pc[r] # "take_byte"
    /\ d_use_as_stdin = "serial3" =>
          /\ scancodes = <<>>
          /\ \A r \in Reader : pc[r] # "take"

\* The keyboard: what was handed over and what still waits are all scancodes, and
\* the reader holds the oldest that waits.
KeysInOrder ==
    d_use_as_stdin = "ps2keyboard" =>
        /\ Len(taken) + Len(scancodes) = pressed
        /\ \A i \in 1 .. Len(taken) : taken[i] = i
        /\ \A i \in 1 .. Len(scancodes) : scancodes[i] = Len(taken) + i
        /\ \A r \in Reader : pc[r] = "take" => scancodes # <<>> /\ held[r] = scancodes[1]

\* The port: bytes came before the write index, and everywhere once it has gone
\* round; the read index is behind them.
RingWritten ==
    LET all == \A j \in 0 .. RING - 1 : serial3_buffer[j] \in Key
    IN  /\ \A j \in 0 .. RING - 1 : j < serial3_buffer_w_index => serial3_buffer[j] \in Key
        /\ serial3_buffer_w_index < serial3_buffer_r_index => all
        /\ \A r \in Reader : pc[r] = "take_byte" =>
              serial3_buffer_r_index < serial3_buffer_w_index \/ all

\* How many bytes the indexes say are unread, and where the i-th of them is.
UnreadCount ==
    IF serial3_buffer_r_index <= serial3_buffer_w_index
    THEN serial3_buffer_w_index - serial3_buffer_r_index
    ELSE RING - serial3_buffer_r_index + serial3_buffer_w_index

Slot(i) ==
    IF serial3_buffer_r_index + i - 1 < RING THEN serial3_buffer_r_index + i - 1
    ELSE serial3_buffer_r_index + i - 1 - RING

\* Unless the ring overran, these are the ones not handed over.
RingInOrder ==
    d_use_as_stdin = "serial3" /\ ~ overrun =>
        /\ Len(taken) + UnreadCount = pressed
        /\ \A i \in 1 .. Len(taken) : taken[i] = i
        /\ \A i \in 1 .. UnreadCount : serial3_buffer[Slot(i)] = Len(taken) + i
        /\ \A r \in Reader : pc[r] = "take_byte" => UnreadCount > 0

StdinInv ==
    /\ TypeOKStdin
    /\ QueuedInside /\ ResumesWoken /\ OneDevice
    /\ KeysInOrder /\ RingWritten /\ RingInOrder
=============================================================================
