------------------------------ MODULE StdioProofs ------------------------------
(***************************************************************************)
(* Proofs about what a user types and sees.                                *)
(*                                                                         *)
(* StdinRead, for one reader, any number of scancodes or bytes and a ring  *)
(* of any size: keys are handed over once and in order.                    *)
(*                                                                         *)
(* Console, for a console and texts of any size: what the screen shows is  *)
(* in the buffer and is what a terminal would show.                        *)
(***************************************************************************)
EXTENDS StdinRead, Console, LibraryLemmas, SequenceTheorems, TLAPS

\* One process reads from stdin.
OneReader == \A r, s \in Reader : r = s

\* What the pieces of the ring say of the unread bytes.
LEMMA UnreadBytes ==
    ASSUME TypeOKStdin
    PROVE  /\ Unread \in Seq(0 .. MaxPress)
           /\ Len(Unread) = UnreadCount /\ UnreadCount \in Nat
           /\ \A i \in 1 .. UnreadCount : Unread[i] = serial3_buffer[Slot(i)]
<1> DEFINE r == serial3_buffer_r_index
           w == serial3_buffer_w_index
           At0(from, to) == [i \in 1 .. to - from |-> serial3_buffer[from + i - 1]]
<1>1. /\ RING \in Nat /\ r \in 0 .. RING - 1 /\ w \in 0 .. RING - 1
      /\ serial3_buffer \in [0 .. RING - 1 -> 0 .. MaxPress]
  BY RingAssumption DEF TypeOKStdin
<1>2. Unread = IF r <= w THEN At0(r, w) ELSE At0(r, RING) \o At0(0, w)
  BY Zenon DEF Unread
<1>3. UnreadCount = IF r <= w THEN w - r ELSE RING - r + w
  BY DEF UnreadCount
<1>4. ASSUME NEW from \in 0 .. RING, NEW to \in from .. RING
      PROVE  /\ At0(from, to) \in Seq(0 .. MaxPress) /\ Len(At0(from, to)) = to - from
             /\ \A i \in 1 .. to - from : At0(from, to)[i] = serial3_buffer[from + i - 1]
  <2>1. to - from \in Nat
    BY <1>1
  <2>2. \A i \in 1 .. to - from : from + i - 1 \in 0 .. RING - 1
    BY <1>1
  <2>3. \A i \in 1 .. to - from : serial3_buffer[from + i - 1] \in 0 .. MaxPress
    BY <1>1, <2>2
  <2>4. At0(from, to) \in [1 .. to - from -> 0 .. MaxPress]
    BY <2>3
  <2>5. QED
    BY <2>1, <2>4
<1> HIDE DEF At0
<1>5. CASE r <= w
  <2>1. r \in 0 .. RING /\ w \in r .. RING
    BY <1>1, <1>5
  <2>2. /\ At0(r, w) \in Seq(0 .. MaxPress) /\ Len(At0(r, w)) = w - r
        /\ \A i \in 1 .. w - r : At0(r, w)[i] = serial3_buffer[r + i - 1]
    BY <2>1, <1>4
  <2>3. \A i \in 1 .. w - r : r + i - 1 < RING
    BY <1>1, <1>5
  <2>4. UnreadCount = w - r /\ Unread = At0(r, w) /\ w - r \in Nat
    BY <1>1, <1>2, <1>3, <1>5
  <2>5. QED
    BY <2>2, <2>3, <2>4 DEF Slot
<1>6. CASE ~ (r <= w)
  <2>1. r \in 0 .. RING /\ RING \in r .. RING /\ 0 \in 0 .. RING /\ w \in 0 .. RING
    BY <1>1, <1>6
  <2>2. /\ At0(r, RING) \in Seq(0 .. MaxPress) /\ Len(At0(r, RING)) = RING - r
        /\ \A i \in 1 .. RING - r : At0(r, RING)[i] = serial3_buffer[r + i - 1]
    BY <2>1, <1>4
  <2>3. /\ At0(0, w) \in Seq(0 .. MaxPress) /\ Len(At0(0, w)) = w - 0
        /\ \A i \in 1 .. w - 0 : At0(0, w)[i] = serial3_buffer[0 + i - 1]
    BY <2>1, <1>4
  <2>4. /\ At0(r, RING) \o At0(0, w) \in Seq(0 .. MaxPress)
        /\ Len(At0(r, RING) \o At0(0, w)) = Len(At0(r, RING)) + Len(At0(0, w))
        /\ \A i \in 1 .. Len(At0(r, RING)) + Len(At0(0, w)) :
              (At0(r, RING) \o At0(0, w))[i] = IF i <= Len(At0(r, RING)) THEN At0(r, RING)[i]
                                               ELSE At0(0, w)[i - Len(At0(r, RING))]
    BY <2>2, <2>3, ConcatProperties, Zenon
  <2>5. /\ Unread = At0(r, RING) \o At0(0, w) /\ UnreadCount = RING - r + w
        /\ UnreadCount \in Nat /\ Len(At0(r, RING)) + Len(At0(0, w)) = UnreadCount
    <3>1. Unread = At0(r, RING) \o At0(0, w) /\ UnreadCount = RING - r + w
      BY <1>2, <1>3, <1>6, Zenon
    <3>2. UnreadCount \in Nat
      BY <1>1, <3>1
    <3>3. Len(At0(r, RING)) + Len(At0(0, w)) = (RING - r) + (w - 0)
      BY <2>2, <2>3, Zenon
    <3>4. (RING - r) + (w - 0) = RING - r + w
      BY <1>1
    <3>5. QED
      BY <3>1, <3>2, <3>3, <3>4, Zenon
  <2>6. ASSUME NEW i \in 1 .. UnreadCount
        PROVE  Unread[i] = serial3_buffer[Slot(i)]
    <3>1. Unread[i] = IF i <= RING - r THEN At0(r, RING)[i] ELSE At0(0, w)[i - (RING - r)]
      BY <2>2, <2>4, <2>5
    <3>2. CASE i <= RING - r
      <4>1. i \in 1 .. RING - r /\ r + i - 1 < RING
        BY <1>1, <2>5, <3>2
      <4>2. QED
        BY <2>2, <3>1, <3>2, <4>1 DEF Slot
    <3>3. CASE ~ (i <= RING - r)
      <4>1. /\ i - (RING - r) \in 1 .. w - 0 /\ ~ (r + i - 1 < RING)
            /\ 0 + (i - (RING - r)) - 1 = r + i - 1 - RING
        BY <1>1, <2>5, <3>3
      <4>2. At0(0, w)[i - (RING - r)] = serial3_buffer[r + i - 1 - RING]
        BY <2>3, <4>1
      <4>3. Unread[i] = serial3_buffer[r + i - 1 - RING]
        BY <3>1, <3>3, <4>2
      <4>4. QED
        BY <4>1, <4>3 DEF Slot
    <3>4. QED
      BY <3>2, <3>3
  <2>7. Unread \in Seq(0 .. MaxPress) /\ Len(Unread) = UnreadCount /\ UnreadCount \in Nat
    BY <2>4, <2>5, Zenon
  <2>8. QED
    BY <2>6, <2>7, Zenon
<1>7. QED
  BY <1>5, <1>6

-----------------------------------------------------------------------------
\* Nothing has arrived and nobody reads.
LEMMA InitOfStdin == InitStdin => StdinInv
<1>1. SUFFICES ASSUME InitStdin PROVE StdinInv
  OBVIOUS
<1>2. TypeOKStdin
  <2>1. 0 \in 0 .. MaxPress /\ 0 \in 0 .. RING - 1
    BY RingAssumption, PressAssumption
  <2>2. TypeOK
    BY <1>1, <2>1 DEF InitStdin, Init, TypeOK
  <2>3. serial3_buffer \in [0 .. RING - 1 -> 0 .. MaxPress]
    BY <1>1, <2>1 DEF InitStdin
  <2>4. QED
    BY <1>1, <2>1, <2>2, <2>3 DEF InitStdin, TypeOKStdin
<1>3. QueuedInside /\ ResumesWoken
  BY <1>1 DEF InitStdin, Init, QueuedInside, ResumesWoken
<1>4. OneDevice
  BY <1>1 DEF InitStdin, Init, OneDevice
<1>5. KeysInOrder
  BY <1>1 DEF InitStdin, Init, KeysInOrder
<1>6. RingWritten
  BY <1>1, RingAssumption DEF InitStdin, Init, RingWritten
<1>7. RingInOrder
  BY <1>1 DEF InitStdin, Init, RingInOrder, UnreadCount
<1>8. QED
  BY <1>2, <1>3, <1>4, <1>5, <1>6, <1>7 DEF StdinInv

\* A step that touches neither device and does not go to fetch from one keeps
\* what the invariant says of them.
LEMMA DevicesStay ==
    ASSUME StdinInv, UNCHANGED <<scancodes, pressed, held, taken, d_use_as_stdin, serial>>,
           \A r \in Reader : pc'[r] \in {"take", "take_byte"} => pc[r] = pc'[r]
    PROVE  OneDevice' /\ KeysInOrder' /\ RingWritten' /\ RingInOrder'
<1>1. OneDevice'
  BY DEF StdinInv, OneDevice, serial
<1>2. KeysInOrder'
  BY DEF StdinInv, KeysInOrder, serial
<1>3. RingWritten'
  BY DEF StdinInv, RingWritten, serial
<1>4. RingInOrder'
  <2>1. UnreadCount' = UnreadCount /\ \A i \in 1 .. UnreadCount : Slot(i)' = Slot(i)
    BY DEF UnreadCount, Slot, serial
  <2>2. QED
    BY <2>1 DEF StdinInv, RingInOrder, serial
<1>5. QED
  BY <1>1, <1>2, <1>3, <1>4

\* The steps of a read that do not depend on the device keep the invariant: the
\* reader queues itself once, is WAITING when it blocks, and runs again only
\* when it has been taken out of the queue.
LEMMA ReadKeeps ==
    ASSUME OneReader, StdinInv, ReadSteps, UNCHANGED <<serial, d_use_as_stdin>>
    PROVE  StdinInv'
<1>0. /\ TypeOK /\ TypeOKStdin /\ QueuedInside /\ ResumesWoken
      /\ \A r, s \in Reader : r = s
      /\ KERNEL_PROCESS_ID \notin Reader
  BY ReaderAssumption DEF StdinInv, TypeOKStdin, OneReader, KERNEL_PROCESS_ID
<1>1. UNCHANGED <<scancodes, pressed, held, taken>>
  BY DEF ReadSteps, Call, Enqueue, SetWaiting, StoreNul, SyscallTail, Resume, Yield
<1>2. \A r \in Reader : pc'[r] \in {"take", "take_byte"} => pc[r] = pc'[r]
  BY <1>0 DEF ReadSteps, Call, Enqueue, SetWaiting, StoreNul, SyscallTail, Resume, Yield, At, Goto, TypeOK
<1>3. ASSUME NEW r \in Reader \cup {KERNEL_PROCESS_ID}, SwitchFrom(r)
      PROVE  /\ status' \in [Reader -> {"ACTIVE", "INACTIVE", "WAITING"}]
             /\ running' \in Reader \cup {KERNEL_PROCESS_ID}
             /\ \A x \in Reader : status[x] = "WAITING" => status'[x] = "WAITING"
             /\ \A x \in Reader : running' = x => status'[x] # "WAITING"
  BY <1>0, <1>3 DEF SwitchFrom, TypeOK
<1>4. TypeOKStdin'
  <2>1. UNCHANGED <<serial3_buffer, serial3_buffer_w_index, serial3_buffer_r_index, overrun>>
    BY DEF serial
  <2>2. pc' \in [Reader -> {"user", "check", "take", "take_byte", "wq_add", "wq_status",
                            "store", "tail", "blocked"}]
    BY <1>0 DEF ReadSteps, Call, Enqueue, SetWaiting, StoreNul, SyscallTail, Resume, Yield, Goto, TypeOK
  <2>3. /\ status' \in [Reader -> {"ACTIVE", "INACTIVE", "WAITING"}]
        /\ running' \in Reader \cup {KERNEL_PROCESS_ID}
    <3>1. CASE Yield
      BY <1>0, <1>3, <3>1 DEF Yield, TypeOK
    <3>2. ASSUME NEW r \in Reader, SyscallTail(r)
          PROVE  /\ status' \in [Reader -> {"ACTIVE", "INACTIVE", "WAITING"}]
                 /\ running' \in Reader \cup {KERNEL_PROCESS_ID}
      BY <1>0, <1>3, <3>2 DEF SyscallTail, TypeOK
    <3>3. ASSUME NEW r \in Reader, Call(r) \/ Enqueue(r) \/ SetWaiting(r) \/ StoreNul(r) \/ Resume(r)
          PROVE  /\ status' \in [Reader -> {"ACTIVE", "INACTIVE", "WAITING"}]
                 /\ running' \in Reader \cup {KERNEL_PROCESS_ID}
      BY <1>0, <3>3 DEF Call, Enqueue, SetWaiting, StoreNul, Resume, TypeOK
    <3>4. QED
      BY <3>1, <3>2, <3>3 DEF ReadSteps
  <2>4. queue' \in Seq(Reader)
    <3>1. queue' = queue \/ \E r \in Reader : queue' = Append(queue, r)
      BY DEF ReadSteps, Call, Enqueue, SetWaiting, StoreNul, SyscallTail, Resume, Yield
    <3>2. queue \in Seq(Reader)
      BY <1>0 DEF TypeOK
    <3>3. QED
      BY <3>1, <3>2
  <2>5. buff' \in [Reader -> 0 .. MaxPress]
    <3>1. 0 \in 0 .. MaxPress
      BY PressAssumption
    <3>2. buff' = buff \/ \E r \in Reader : buff' = [buff EXCEPT ![r] = 0]
      BY DEF ReadSteps, Call, Enqueue, SetWaiting, StoreNul, SyscallTail, Resume, Yield
    <3>3. QED
      BY <1>0, <3>1, <3>2 DEF TypeOK
  <2>6. TypeOK'
    BY <1>0, <1>1, <2>2, <2>3, <2>4, <2>5 DEF TypeOK
  <2>7. QED
    BY <1>0, <2>1, <2>6 DEF TypeOKStdin
<1>5. QueuedInside' /\ ResumesWoken'
  <2>1. ASSUME NEW r \in Reader, Call(r) PROVE QueuedInside' /\ ResumesWoken'
    BY <1>0, <2>1 DEF Call, At, Goto, TypeOK, QueuedInside, ResumesWoken
  <2>2. ASSUME NEW r \in Reader, Enqueue(r) PROVE QueuedInside' /\ ResumesWoken'
    <3>1. queue = <<>> /\ queue' = Append(queue, r) /\ pc' = [pc EXCEPT ![r] = "wq_status"]
      BY <1>0, <2>2 DEF Enqueue, At, Goto, QueuedInside
    <3>2. Len(queue') = 1
      BY <1>0, <3>1
    <3>3. \A x \in Reader : pc'[x] = "wq_status"
      BY <1>0, <3>1 DEF TypeOK
    <3>4. QED
      BY <3>2, <3>3 DEF QueuedInside, ResumesWoken
  <2>3. ASSUME NEW r \in Reader, SetWaiting(r) PROVE QueuedInside' /\ ResumesWoken'
    BY <1>0, <2>3 DEF SetWaiting, At, Goto, TypeOK, QueuedInside, ResumesWoken
  <2>4. ASSUME NEW r \in Reader, StoreNul(r) PROVE QueuedInside' /\ ResumesWoken'
    BY <1>0, <2>4 DEF StoreNul, At, Goto, TypeOK, QueuedInside, ResumesWoken
  <2>5. ASSUME NEW r \in Reader, SyscallTail(r) PROVE QueuedInside' /\ ResumesWoken'
    <3>1. CASE status[r] = "WAITING"
      <4>1. SwitchFrom(r) /\ pc' = [pc EXCEPT ![r] = "blocked"] /\ queue' = queue
        BY <2>5, <3>1 DEF SyscallTail, Goto
      <4>2. /\ \A x \in Reader : status[x] = "WAITING" => status'[x] = "WAITING"
            /\ \A x \in Reader : running' = x => status'[x] # "WAITING"
        BY <1>3, <4>1
      <4>3. \A x \in Reader : pc'[x] = "blocked" /\ status'[x] = "WAITING"
        BY <1>0, <3>1, <4>1, <4>2 DEF TypeOK
      <4>4. QED
        BY <1>0, <4>1, <4>2, <4>3 DEF QueuedInside, ResumesWoken
    <3>2. CASE status[r] # "WAITING"
      <4>1. pc' = [pc EXCEPT ![r] = "user"] /\ UNCHANGED <<queue, status, running>> /\ pc[r] = "tail"
        BY <2>5, <3>2 DEF SyscallTail, Goto, At
      <4>2. queue = <<>>
        BY <1>0, <3>2, <4>1 DEF QueuedInside
      <4>3. QED
        BY <1>0, <4>1, <4>2 DEF QueuedInside, ResumesWoken, TypeOK
    <3>3. QED
      BY <3>1, <3>2
  <2>6. ASSUME NEW r \in Reader, Resume(r) PROVE QueuedInside' /\ ResumesWoken'
    <3>1. /\ pc' = [pc EXCEPT ![r] = "user"] /\ UNCHANGED <<queue, status, running>>
          /\ running = r /\ pc[r] = "blocked"
      BY <2>6 DEF Resume, Goto, At
    <3>2. queue = <<>>
      BY <1>0, <3>1 DEF QueuedInside, ResumesWoken
    <3>3. QED
      BY <1>0, <3>1, <3>2 DEF QueuedInside, ResumesWoken, TypeOK
  <2>7. CASE Yield
    <3>1. SwitchFrom(running) /\ UNCHANGED <<pc, queue>> /\ running \in Reader \cup {KERNEL_PROCESS_ID}
      BY <1>0, <2>7 DEF Yield, TypeOK
    <3>2. /\ \A x \in Reader : status[x] = "WAITING" => status'[x] = "WAITING"
          /\ \A x \in Reader : running' = x => status'[x] # "WAITING"
      BY <1>3, <3>1
    <3>3. QED
      BY <1>0, <3>1, <3>2 DEF QueuedInside, ResumesWoken
  <2>8. QED
    BY <2>1, <2>2, <2>3, <2>4, <2>5, <2>6, <2>7 DEF ReadSteps
<1>6. OneDevice' /\ KeysInOrder' /\ RingWritten' /\ RingInOrder'
  BY <1>1, <1>2, DevicesStay
<1>7. QED
  BY <1>4, <1>5, <1>6 DEF StdinInv

-----------------------------------------------------------------------------
\* The keyboard's part keeps the invariant: a reader takes the oldest scancode,
\* and the interrupt hands the oldest to the waiting reader.
LEMMA KeyboardKeeps ==
    ASSUME OneReader, StdinInv, KeyboardSteps, d_use_as_stdin = "ps2keyboard",
           UNCHANGED <<serial, d_use_as_stdin>>
    PROVE  StdinInv'
<1>0. /\ TypeOK /\ TypeOKStdin /\ QueuedInside /\ ResumesWoken /\ OneDevice /\ RingWritten
      /\ \A r, s \in Reader : r = s
      /\ taken \in Seq(Key) /\ scancodes \in Seq(Key)
      /\ Len(taken) \in Nat /\ Len(scancodes) \in Nat /\ pressed \in Nat
      /\ Len(taken) + Len(scancodes) = pressed
      /\ \A i \in 1 .. Len(taken) : taken[i] = i
      /\ \A i \in 1 .. Len(scancodes) : scancodes[i] = Len(taken) + i
      /\ \A r \in Reader : pc[r] = "take" => scancodes # <<>> /\ held[r] = scancodes[1]
  BY DEF StdinInv, TypeOKStdin, TypeOK, OneReader, KeysInOrder
<1>1. ASSUME TypeOK', QueuedInside', ResumesWoken', KeysInOrder',
             \A r \in Reader : pc'[r] # "take_byte"
      PROVE  StdinInv'
  <2>1. UNCHANGED <<serial3_buffer, serial3_buffer_w_index, serial3_buffer_r_index, overrun>>
    BY DEF serial
  <2>2. TypeOKStdin'
    BY <1>0, <1>1, <2>1 DEF TypeOKStdin
  <2>3. OneDevice'
    BY <1>0, <1>1, <2>1 DEF OneDevice
  <2>4. RingWritten'
    BY <1>0, <1>1, <2>1 DEF RingWritten
  <2>5. RingInOrder'
    BY DEF RingInOrder
  <2>6. QED
    BY <1>1, <2>2, <2>3, <2>4, <2>5 DEF StdinInv
<1>2. \A r \in Reader : pc[r] # "take_byte"
  BY <1>0 DEF OneDevice
<1>3. ASSUME NEW k \in Key PROVE keyboard_scancode_to_char(k) \in 0 .. MaxPress
  BY <1>3, PressAssumption DEF keyboard_scancode_to_char, Key
<1>4. ASSUME NEW r \in Reader, CheckSize(r) PROVE StdinInv'
  <2>1. UNCHANGED <<status, running, queue, scancodes, pressed, taken, buff>> /\ pc[r] = "check"
    BY <1>4 DEF CheckSize, At
  <2>2. \/ /\ pc' = [pc EXCEPT ![r] = "wq_add"] /\ held' = held
        \/ /\ pc' = [pc EXCEPT ![r] = "take"] /\ held' = [held EXCEPT ![r] = scancodes[1]]
           /\ scancodes # <<>>
    BY <1>0, <1>4 DEF CheckSize, Goto
  <2>3. scancodes # <<>> => scancodes[1] \in 0 .. MaxPress
    <3>1. scancodes # <<>> => scancodes[1] \in Key
      BY <1>0
    <3>2. QED
      BY <3>1, PressAssumption DEF Key
  <2>4. TypeOK'
    <3>1. held' \in [Reader -> 0 .. MaxPress]
      BY <1>0, <2>2, <2>3 DEF TypeOK
    <3>2. QED
      BY <1>0, <2>1, <2>2, <3>1 DEF TypeOK
  <2>5. QueuedInside' /\ ResumesWoken' /\ \A x \in Reader : pc'[x] # "take_byte"
    BY <1>0, <1>2, <2>1, <2>2 DEF TypeOK, QueuedInside, ResumesWoken
  <2>6. KeysInOrder'
    <3>1. \A x \in Reader : pc'[x] = "take" => scancodes # <<>> /\ held'[x] = scancodes[1]
      BY <1>0, <2>2 DEF TypeOK
    <3>2. QED
      BY <1>0, <2>1, <3>1 DEF KeysInOrder
  <2>7. QED
    BY <1>1, <2>4, <2>5, <2>6
\* The oldest of some scancodes, numbered on from those handed over, is handed over.
<1>5. ASSUME NEW codes \in Seq(Key), codes # <<>>, NEW n \in Nat, Len(taken) + Len(codes) = n,
             \A i \in 1 .. Len(codes) : codes[i] = Len(taken) + i,
             taken' = Append(taken, Head(codes)), scancodes' = Tail(codes), pressed' = n,
             \A x \in Reader : pc'[x] # "take"
      PROVE  KeysInOrder' /\ taken' \in Seq(Key) /\ scancodes' \in Seq(Key) /\ Head(codes) \in Key
  <2>1. /\ Len(codes) \in Nat /\ Len(codes) >= 1 /\ Head(codes) = codes[1] /\ codes[1] \in Key
        /\ Tail(codes) \in Seq(Key) /\ Len(Tail(codes)) = Len(codes) - 1
        /\ \A i \in 1 .. Len(codes) - 1 : Tail(codes)[i] = codes[i + 1]
    BY <1>5
  <2>2. /\ taken' \in Seq(Key) /\ Len(taken') = Len(taken) + 1
        /\ \A i \in 1 .. Len(taken) : taken'[i] = taken[i]
        /\ taken'[Len(taken) + 1] = codes[1]
    BY <1>0, <1>5, <2>1
  <2>3. codes[1] = Len(taken) + 1
    BY <1>5, <2>1
  <2>4. ASSUME NEW i \in 1 .. Len(taken') PROVE taken'[i] = i
    <3>1. i \in 1 .. Len(taken) \/ i = Len(taken) + 1
      BY <1>0, <2>2
    <3>2. CASE i \in 1 .. Len(taken)
      BY <1>0, <2>2, <3>2, Zenon
    <3>3. CASE i = Len(taken) + 1
      BY <2>2, <2>3, <3>3, Zenon
    <3>4. QED
      BY <3>1, <3>2, <3>3
  <2>5. ASSUME NEW i \in 1 .. Len(scancodes') PROVE scancodes'[i] = Len(taken') + i
    <3>1. i \in 1 .. Len(codes) - 1 /\ i + 1 \in 1 .. Len(codes)
      BY <1>5, <2>1
    <3>2. scancodes'[i] = Len(taken) + (i + 1)
      BY <1>5, <2>1, <3>1
    <3>3. QED
      BY <1>0, <2>2, <3>1, <3>2
  <2>6. Len(taken') + Len(scancodes') = pressed'
    <3>1. Len(taken') = Len(taken) + 1 /\ Len(scancodes') = Len(codes) - 1
      BY <1>5, <2>1, <2>2
    <3>2. Len(codes) \in Nat /\ Len(taken) + Len(codes) = n /\ pressed' = n
      BY <1>5, <2>1
    <3>3. Len(taken) \in Nat
      BY <1>0
    <3>4. QED
      BY <3>1, <3>2, <3>3
  <2>7. QED
    BY <1>5, <2>1, <2>2, <2>4, <2>5, <2>6 DEF KeysInOrder
<1>6. ASSUME NEW r \in Reader, Take(r) PROVE StdinInv'
  <2>1. /\ pc[r] = "take" /\ taken' = Append(taken, held[r]) /\ pc' = [pc EXCEPT ![r] = "tail"]
        /\ scancodes' = RemoveFirst(scancodes, held[r])
        /\ buff' = [buff EXCEPT ![r] = keyboard_scancode_to_char(held[r])]
        /\ UNCHANGED <<status, running, queue, pressed, held>>
    BY <1>6 DEF Take, At, Goto
  <2>2. scancodes # <<>> /\ held[r] = Head(scancodes) /\ held[r] = scancodes[1]
    BY <1>0, <2>1
  <2>3. RemoveFirst(scancodes, held[r]) = Tail(scancodes)
    <3>1. 1 \in 1 .. Len(scancodes)
      BY <1>0, <2>2
    <3>2. PICK at : at = {i \in 1 .. Len(scancodes) : scancodes[i] = held[r]}
      OBVIOUS
    <3>3. at \in SUBSET Nat /\ 1 \in at /\ \A i \in at : i >= 1
      BY <2>2, <3>1, <3>2
    <3>4. Min(at) \in at /\ \A i \in at : Min(at) <= i
      BY <3>3, MinOfNat
    <3>5. Min(at) = 1
      <4>1. Min(at) \in Nat /\ Min(at) <= 1 /\ Min(at) >= 1
        BY <3>3, <3>4
      <4>2. QED
        BY <4>1
    <3>6. SelectInSeq(scancodes, LAMBDA k : k = held[r]) = 1
      BY <3>2, <3>3, <3>5 DEF SelectInSeq
    <3>7. RemoveFirst(scancodes, held[r]) = RemoveAt(scancodes, 1)
      BY <2>2, <3>1, <3>6 DEF RemoveFirst
    <3>8. RemoveAt(scancodes, 1) = Tail(scancodes)
      <4>1. PICK t : t = RemoveAt(scancodes, 1)
        OBVIOUS
      <4>2. /\ t \in Seq(Key) /\ Len(t) = Len(scancodes) - 1
            /\ \A i \in 1 .. Len(scancodes) - 1 : t[i] = IF i < 1 THEN scancodes[i] ELSE scancodes[i + 1]
        BY <1>0, <3>1, <4>1, RemovedAt
      <4>3. t = Tail(scancodes)
        BY <1>0, <2>2, <4>2
      <4>4. QED
        BY <4>1, <4>3
    <3>9. QED
      BY <3>7, <3>8
  <2>4. /\ KeysInOrder' /\ taken' \in Seq(Key) /\ scancodes' \in Seq(Key) /\ Head(scancodes) \in Key
    <3>1. \A x \in Reader : pc'[x] # "take"
      BY <1>0, <2>1 DEF TypeOK
    <3>2. taken' = Append(taken, Head(scancodes)) /\ scancodes' = Tail(scancodes) /\ pressed' = pressed
      BY <2>1, <2>2, <2>3
    <3>3. QED
      BY <1>0, <1>5, <2>2, <3>1, <3>2
  <2>5. TypeOK'
    <3>1. buff' \in [Reader -> 0 .. MaxPress]
      BY <1>0, <1>3, <2>1, <2>2, <2>4 DEF TypeOK
    <3>2. QED
      BY <1>0, <2>1, <2>4, <3>1 DEF TypeOK
  <2>6. QueuedInside' /\ ResumesWoken' /\ \A x \in Reader : pc'[x] # "take_byte"
    BY <1>0, <1>2, <2>1 DEF TypeOK, QueuedInside, ResumesWoken
  <2>7. QED
    BY <1>1, <2>4, <2>5, <2>6
<1>7. ASSUME KeyboardIRQ PROVE StdinInv'
  <2>1. pressed < MaxPress /\ pressed' = pressed + 1 /\ UNCHANGED <<pc, running, held>>
    BY <1>7 DEF KeyboardIRQ
  <2>2. PICK codes \in Seq(Key) :
           /\ codes = Append(scancodes, pressed + 1) /\ codes # <<>>
           /\ Len(codes) = Len(scancodes) + 1
           /\ \A i \in 1 .. Len(codes) : codes[i] = Len(taken) + i
           /\ scancodes # <<>> => codes[1] = scancodes[1]
    <3>1. pressed + 1 \in Key
      BY <1>0, <2>1, PressAssumption DEF Key
    <3>2. PICK codes : codes = Append(scancodes, pressed + 1)
      OBVIOUS
    <3>3. /\ codes \in Seq(Key) /\ Len(codes) = Len(scancodes) + 1 /\ codes # <<>>
          /\ \A i \in 1 .. Len(scancodes) : codes[i] = scancodes[i]
          /\ codes[Len(scancodes) + 1] = pressed + 1
      BY <1>0, <3>1, <3>2
    <3>4. \A i \in 1 .. Len(codes) : codes[i] = Len(taken) + i
      <4>1. ASSUME NEW i \in 1 .. Len(codes), i # Len(scancodes) + 1 PROVE codes[i] = Len(taken) + i
        <5>1. i \in 1 .. Len(scancodes)
          BY <1>0, <3>3, <4>1
        <5>2. QED
          BY <1>0, <3>3, <5>1
      <4>2. pressed + 1 = Len(taken) + (Len(scancodes) + 1)
        BY <1>0
      <4>3. QED
        BY <3>3, <4>1, <4>2
    <3>5. scancodes # <<>> => codes[1] = scancodes[1]
      BY <1>0, <3>3
    <3>6. QED
      BY <3>2, <3>3, <3>4, <3>5
  <2>3. pressed' \in 0 .. MaxPress /\ pressed' \in Nat
    BY <1>0, <2>1, PressAssumption
  <2>4. CASE queue = <<>>
    <3>1. scancodes' = codes /\ UNCHANGED <<queue, taken, buff, status>>
      BY <1>7, <2>2, <2>4 DEF KeyboardIRQ
    <3>2. KeysInOrder'
      BY <1>0, <2>1, <2>2, <3>1 DEF KeysInOrder
    <3>3. TypeOK'
      BY <1>0, <2>1, <2>2, <2>3, <3>1 DEF TypeOK
    <3>4. QueuedInside' /\ ResumesWoken' /\ \A x \in Reader : pc'[x] # "take_byte"
      BY <1>0, <1>2, <2>1, <3>1 DEF QueuedInside, ResumesWoken
    <3>5. QED
      BY <1>1, <3>2, <3>3, <3>4
  <2>5. CASE queue # <<>>
    <3>1. queue' = Tail(queue) /\ Serve(codes, Head(queue)) /\ Head(queue) \in Reader
      BY <1>0, <1>7, <2>2, <2>5 DEF KeyboardIRQ, TypeOK
    <3>2. PICK r \in Reader : r = Head(queue)
      BY <3>1
    <3>3. /\ taken' = Append(taken, Head(codes)) /\ scancodes' = Tail(codes)
          /\ buff' = [buff EXCEPT ![r] = keyboard_scancode_to_char(Head(codes))]
          /\ status' = [status EXCEPT ![r] = "INACTIVE"]
      BY <3>1, <3>2 DEF Serve
    <3>4. \A x \in Reader : pc'[x] # "take"
      BY <1>0, <2>1, <2>5 DEF QueuedInside
    <3>5. Len(taken) + Len(codes) = pressed'
      BY <1>0, <2>1, <2>2
    <3>6. KeysInOrder' /\ taken' \in Seq(Key) /\ scancodes' \in Seq(Key) /\ Head(codes) \in Key
      BY <1>5, <2>2, <2>3, <3>3, <3>4, <3>5
    <3>7. queue' = <<>> /\ queue' \in Seq(Reader)
      BY <1>0, <2>5, <3>1 DEF QueuedInside, TypeOK
    <3>8. TypeOK'
      <4>1. buff' \in [Reader -> 0 .. MaxPress]
        BY <1>0, <1>3, <3>3, <3>6 DEF TypeOK
      <4>2. QED
        BY <1>0, <2>1, <2>3, <3>3, <3>6, <3>7, <4>1 DEF TypeOK
    <3>9. QueuedInside' /\ ResumesWoken' /\ \A x \in Reader : pc'[x] # "take_byte"
      BY <1>0, <1>2, <2>1, <3>3, <3>7 DEF QueuedInside, ResumesWoken, TypeOK
    <3>10. QED
      BY <1>1, <3>6, <3>8, <3>9
  <2>6. QED
    BY <2>4, <2>5
<1>8. QED
  BY <1>4, <1>6, <1>7 DEF KeyboardSteps

-----------------------------------------------------------------------------
\* Where the unread bytes are: from the read index on, up to the write index, and
\* never on it.
LEMMA Slots ==
    ASSUME TypeOKStdin
    PROVE  /\ UnreadCount \in 0 .. RING - 1
           /\ UnreadCount = 0 <=> serial3_buffer_r_index = serial3_buffer_w_index
           /\ \A i \in 1 .. UnreadCount : Slot(i) \in 0 .. RING - 1 /\ Slot(i) # serial3_buffer_w_index
           /\ Slot(UnreadCount + 1) = serial3_buffer_w_index
           /\ Slot(1) = serial3_buffer_r_index
<1>1. /\ RING \in Nat /\ serial3_buffer_r_index \in 0 .. RING - 1
      /\ serial3_buffer_w_index \in 0 .. RING - 1
  BY RingAssumption DEF TypeOKStdin
<1>2. UnreadCount \in 0 .. RING - 1
  BY <1>1 DEF UnreadCount
<1>3. UnreadCount = 0 <=> serial3_buffer_r_index = serial3_buffer_w_index
  BY <1>1 DEF UnreadCount
<1>4. ASSUME NEW i \in 1 .. UnreadCount
      PROVE  Slot(i) \in 0 .. RING - 1 /\ Slot(i) # serial3_buffer_w_index
  BY <1>1, <1>4 DEF UnreadCount, Slot
<1>5. Slot(UnreadCount + 1) = serial3_buffer_w_index
  BY <1>1 DEF UnreadCount, Slot
<1>6. Slot(1) = serial3_buffer_r_index
  BY <1>1 DEF Slot
<1>7. QED
  BY <1>2, <1>3, <1>4, <1>5, <1>6

\* The indexes after a byte was taken, after one came, and after both.
LEMMA IndexesMove ==
    ASSUME TypeOKStdin
    PROVE  /\ (UnreadCount > 0 /\ serial3_buffer_r_index' = Wrapped(serial3_buffer_r_index)
                  /\ serial3_buffer_w_index' = serial3_buffer_w_index) =>
                 /\ UnreadCount' = UnreadCount - 1
                 /\ \A i \in 1 .. UnreadCount' : Slot(i)' = Slot(i + 1)
           /\ (UnreadCount + 1 # RING /\ serial3_buffer_r_index' = serial3_buffer_r_index
                  /\ serial3_buffer_w_index' = Wrapped(serial3_buffer_w_index)) =>
                 /\ UnreadCount' = UnreadCount + 1
                 /\ \A i \in 1 .. UnreadCount' : Slot(i)' = Slot(i)
           /\ (serial3_buffer_r_index' = Wrapped(serial3_buffer_r_index)
                  /\ serial3_buffer_w_index' = Wrapped(serial3_buffer_w_index)) =>
                 /\ UnreadCount' = UnreadCount
                 /\ \A i \in 1 .. UnreadCount' : Slot(i)' = Slot(i + 1)
<1>1. /\ RING \in Nat /\ serial3_buffer_r_index \in 0 .. RING - 1
      /\ serial3_buffer_w_index \in 0 .. RING - 1
  BY RingAssumption DEF TypeOKStdin
<1>2. ASSUME UnreadCount > 0, serial3_buffer_r_index' = Wrapped(serial3_buffer_r_index),
             serial3_buffer_w_index' = serial3_buffer_w_index
      PROVE  /\ UnreadCount' = UnreadCount - 1
             /\ \A i \in 1 .. UnreadCount' : Slot(i)' = Slot(i + 1)
  <2>1. UnreadCount' = UnreadCount - 1
    BY <1>1, <1>2 DEF UnreadCount, Wrapped
  <2>2. ASSUME NEW i \in 1 .. UnreadCount' PROVE Slot(i)' = Slot(i + 1)
    <3>1. i \in Nat /\ i >= 1 /\ i < RING
      BY <1>1, <2>1 DEF UnreadCount
    <3>2. QED
      BY <1>1, <1>2, <3>1 DEF Slot, Wrapped
  <2>3. QED
    BY <2>1, <2>2
<1>3. ASSUME UnreadCount + 1 # RING, serial3_buffer_r_index' = serial3_buffer_r_index,
             serial3_buffer_w_index' = Wrapped(serial3_buffer_w_index)
      PROVE  /\ UnreadCount' = UnreadCount + 1
             /\ \A i \in 1 .. UnreadCount' : Slot(i)' = Slot(i)
  <2>1. UnreadCount' = UnreadCount + 1
    BY <1>1, <1>3 DEF UnreadCount, Wrapped
  <2>2. QED
    BY <1>3, <2>1 DEF Slot
<1>4. ASSUME serial3_buffer_r_index' = Wrapped(serial3_buffer_r_index),
             serial3_buffer_w_index' = Wrapped(serial3_buffer_w_index)
      PROVE  /\ UnreadCount' = UnreadCount
             /\ \A i \in 1 .. UnreadCount' : Slot(i)' = Slot(i + 1)
  <2>1. UnreadCount' = UnreadCount
    BY <1>1, <1>4 DEF UnreadCount, Wrapped
  <2>2. ASSUME NEW i \in 1 .. UnreadCount' PROVE Slot(i)' = Slot(i + 1)
    <3>1. i \in Nat /\ i >= 1 /\ i < RING
      BY <1>1, <2>1 DEF UnreadCount
    <3>2. QED
      BY <1>1, <1>4, <3>1 DEF Slot, Wrapped
  <2>3. QED
    BY <2>1, <2>2
<1>5. QED
  BY <1>2, <1>3, <1>4

\* The serial port's part keeps the invariant.
LEMMA SerialKeeps ==
    ASSUME OneReader, StdinInv, SerialSteps, d_use_as_stdin = "serial3", UNCHANGED d_use_as_stdin
    PROVE  StdinInv'
<1>0. /\ TypeOK /\ TypeOKStdin /\ QueuedInside /\ ResumesWoken /\ OneDevice /\ RingWritten /\ RingInOrder
      /\ \A r, s \in Reader : r = s
      /\ taken \in Seq(Key) /\ Len(taken) \in Nat /\ pressed \in Nat
      /\ scancodes = <<>> /\ \A r \in Reader : pc[r] # "take"
  BY PressAssumption DEF StdinInv, TypeOKStdin, TypeOK, OneReader, OneDevice
<1>1. /\ RING \in Nat /\ RING > 0
      /\ serial3_buffer_r_index \in 0 .. RING - 1 /\ serial3_buffer_w_index \in 0 .. RING - 1
      /\ serial3_buffer \in [0 .. RING - 1 -> 0 .. MaxPress] /\ overrun \in BOOLEAN
  BY <1>0, RingAssumption DEF TypeOKStdin
<1>2. ASSUME TypeOKStdin', QueuedInside', ResumesWoken', RingWritten', RingInOrder',
             scancodes' = scancodes, \A r \in Reader : pc'[r] # "take"
      PROVE  StdinInv'
  <2>1. OneDevice'
    BY <1>0, <1>2 DEF OneDevice
  <2>2. KeysInOrder'
    BY DEF KeysInOrder
  <2>3. QED
    BY <1>2, <2>1, <2>2 DEF StdinInv
<1>3. ASSUME NEW r \in Reader, CheckIndex(r) PROVE StdinInv'
  <2>1. /\ UNCHANGED <<status, running, queue, scancodes, pressed, held, taken, buff>>
        /\ UNCHANGED <<serial3_buffer, serial3_buffer_w_index, serial3_buffer_r_index, overrun>>
        /\ pc[r] = "check"
    BY <1>3 DEF CheckIndex, At, serial
  <2>2. pc' = [pc EXCEPT ![r] = IF serial3_buffer_r_index < serial3_buffer_w_index
                                THEN "take_byte" ELSE "wq_add"]
    BY <1>3 DEF CheckIndex, Goto
  <2>3. \A x \in Reader : /\ pc'[x] \in {"take_byte", "wq_add"}
                          /\ pc'[x] = "take_byte" => serial3_buffer_r_index < serial3_buffer_w_index
    BY <1>0, <2>2 DEF TypeOK
  <2>4. TypeOKStdin'
    BY <1>0, <2>1, <2>2 DEF TypeOK, TypeOKStdin
  <2>5. QueuedInside' /\ ResumesWoken'
    BY <1>0, <2>1, <2>3 DEF QueuedInside, ResumesWoken
  <2>6. RingWritten'
    BY <1>0, <2>1, <2>3 DEF RingWritten
  <2>7. RingInOrder'
    <3>1. UnreadCount' = UnreadCount /\ \A i \in 1 .. UnreadCount : Slot(i)' = Slot(i)
      BY <2>1 DEF UnreadCount, Slot
    <3>2. serial3_buffer_r_index < serial3_buffer_w_index => UnreadCount > 0
      BY <1>1 DEF UnreadCount
    <3>3. QED
      BY <1>0, <2>1, <2>3, <3>1, <3>2 DEF RingInOrder
  <2>8. QED
    BY <1>2, <2>1, <2>3, <2>4, <2>5, <2>6, <2>7
<1>4. ASSUME NEW r \in Reader, ReadByte(r) PROVE StdinInv'
  <2>1. /\ UNCHANGED <<status, running, queue, scancodes, pressed, held>>
        /\ UNCHANGED <<serial3_buffer, serial3_buffer_w_index, overrun>>
        /\ pc[r] = "take_byte" /\ pc' = [pc EXCEPT ![r] = "tail"]
        /\ taken' = Append(taken, serial3_buffer[serial3_buffer_r_index])
        /\ buff' = [buff EXCEPT ![r] = serial3_buffer[serial3_buffer_r_index]]
        /\ serial3_buffer_r_index' = Wrapped(serial3_buffer_r_index)
    BY <1>4 DEF ReadByte, At, Goto, TakeByte
  <2>2. serial3_buffer[serial3_buffer_r_index] \in Key
    BY <1>0, <1>1, <2>1 DEF RingWritten
  <2>3. /\ taken' \in Seq(Key) /\ Len(taken') = Len(taken) + 1
        /\ \A i \in 1 .. Len(taken) : taken'[i] = taken[i]
        /\ taken'[Len(taken) + 1] = serial3_buffer[serial3_buffer_r_index]
    BY <1>0, <2>1, <2>2
  <2>4. serial3_buffer_r_index' \in 0 .. RING - 1
    BY <1>1, <2>1 DEF Wrapped
  <2>5. \A x \in Reader : pc'[x] = "tail"
    BY <1>0, <2>1 DEF TypeOK
  <2>6. TypeOKStdin'
    <3>1. buff' \in [Reader -> 0 .. MaxPress]
      BY <1>0, <1>1, <2>1 DEF TypeOK
    <3>2. TypeOK'
      BY <1>0, <2>1, <2>3, <3>1 DEF TypeOK
    <3>3. QED
      BY <1>0, <1>1, <2>1, <2>4, <3>2 DEF TypeOKStdin
  <2>7. QueuedInside' /\ ResumesWoken'
    <3>1. queue = <<>>
      BY <1>0, <2>1 DEF QueuedInside
    <3>2. QED
      BY <1>0, <2>1, <2>5, <3>1 DEF QueuedInside, ResumesWoken
  <2>8. RingWritten'
    <3>1. serial3_buffer_w_index < serial3_buffer_r_index' => ~ (serial3_buffer_r_index < serial3_buffer_w_index)
      BY <1>1, <2>1 DEF Wrapped
    <3>2. QED
      BY <1>0, <2>1, <2>5, <3>1 DEF RingWritten
  <2>9. RingInOrder'
    <3>1. SUFFICES ASSUME ~ overrun PROVE RingInOrder'
      BY <2>1 DEF RingInOrder
    <3>2. /\ Len(taken) + UnreadCount = pressed /\ UnreadCount > 0
          /\ \A i \in 1 .. Len(taken) : taken[i] = i
          /\ \A i \in 1 .. UnreadCount : serial3_buffer[Slot(i)] = Len(taken) + i
      BY <1>0, <2>1, <3>1 DEF RingInOrder
    <3>3. UnreadCount \in 0 .. RING - 1 /\ Slot(1) = serial3_buffer_r_index
      BY <1>0, Slots
    <3>4. UnreadCount' = UnreadCount - 1 /\ \A i \in 1 .. UnreadCount' : Slot(i)' = Slot(i + 1)
      BY <1>0, <2>1, <3>2, IndexesMove
    <3>5. serial3_buffer[serial3_buffer_r_index] = Len(taken) + 1
      BY <3>2, <3>3
    <3>6. \A i \in 1 .. Len(taken') : taken'[i] = i
      BY <1>0, <2>3, <3>2, <3>5
    <3>7. ASSUME NEW i \in 1 .. UnreadCount' PROVE serial3_buffer'[Slot(i)'] = Len(taken') + i
      <4>1. i + 1 \in 1 .. UnreadCount
        BY <3>3, <3>4
      <4>2. serial3_buffer[Slot(i + 1)] = Len(taken) + (i + 1)
        BY <3>2, <4>1
      <4>3. Len(taken) + (i + 1) = Len(taken') + i
        BY <1>0, <2>3, <3>3, <3>4
      <4>4. QED
        BY <2>1, <3>4, <4>2, <4>3
    <3>8. Len(taken') + UnreadCount' = pressed'
      <4>1. Len(taken') = Len(taken) + 1
        BY <2>3
      <4>2. pressed' = pressed /\ Len(taken) \in Nat
        BY <1>0, <2>1
      <4>3. Len(taken) + UnreadCount = pressed
        BY <3>2
      <4>4. UnreadCount' = UnreadCount - 1
        BY <3>4
      <4>5. QED
        BY <3>3, <4>1, <4>2, <4>3, <4>4
    <3>9. QED
      BY <2>5, <3>6, <3>7, <3>8 DEF RingInOrder
  <2>10. QED
    BY <1>2, <2>1, <2>5, <2>6, <2>7, <2>8, <2>9
<1>5. ASSUME SerialIRQ PROVE StdinInv'
  <2> DEFINE ring == [serial3_buffer EXCEPT ![serial3_buffer_w_index] = pressed + 1]
  <2>1. /\ pressed < MaxPress /\ pressed' = pressed + 1 /\ serial3_buffer' = ring
        /\ serial3_buffer_w_index' = Wrapped(serial3_buffer_w_index)
        /\ UNCHANGED <<pc, running, scancodes, held>>
    BY <1>5 DEF SerialIRQ
  <2>2. pressed + 1 \in Key /\ pressed' \in 0 .. MaxPress
    BY <1>0, <2>1, PressAssumption DEF Key
  <2>3. /\ ring \in [0 .. RING - 1 -> 0 .. MaxPress] /\ ring[serial3_buffer_w_index] = pressed + 1
        /\ \A j \in 0 .. RING - 1 : j # serial3_buffer_w_index => ring[j] = serial3_buffer[j]
        /\ \A j \in 0 .. RING - 1 : serial3_buffer[j] \in Key => ring[j] \in Key
    <3>1. pressed + 1 \in 0 .. MaxPress
      BY <2>1, <2>2
    <3>2. QED
      BY <1>1, <2>2, <3>1
  <2> HIDE DEF ring
  <2>4. serial3_buffer_w_index' \in 0 .. RING - 1 /\ Wrapped(serial3_buffer_r_index) \in 0 .. RING - 1
    BY <1>1, <2>1 DEF Wrapped
  <2>5. \A x \in Reader : pc'[x] # "take"
    BY <1>0, <2>1
  <2>6. /\ \A j \in 0 .. RING - 1 : j < serial3_buffer_w_index => serial3_buffer[j] \in Key
        /\ serial3_buffer_w_index < serial3_buffer_r_index => \A j \in 0 .. RING - 1 : serial3_buffer[j] \in Key
        /\ \A x \in Reader : pc[x] = "take_byte" =>
              \/ serial3_buffer_r_index < serial3_buffer_w_index
              \/ \A j \in 0 .. RING - 1 : serial3_buffer[j] \in Key
    BY <1>0, Zenon DEF RingWritten
\* When the write index goes round, all of the ring has been written.
  <2>7. /\ \A j \in 0 .. RING - 1 : j < serial3_buffer_w_index' => ring[j] \in Key
        /\ \/ serial3_buffer_w_index' = serial3_buffer_w_index + 1
           \/ \A j \in 0 .. RING - 1 : ring[j] \in Key
    <3>1. CASE serial3_buffer_w_index + 1 = RING
      <4>1. ASSUME NEW j \in 0 .. RING - 1 PROVE ring[j] \in Key
        <5>1. CASE j = serial3_buffer_w_index
          BY <2>2, <2>3, <5>1
        <5>2. CASE j # serial3_buffer_w_index
          BY <1>1, <2>3, <2>6, <3>1, <5>2
        <5>3. QED
          BY <5>1, <5>2
      <4>2. QED
        BY <4>1
    <3>2. CASE serial3_buffer_w_index + 1 # RING
      <4>1. serial3_buffer_w_index' = serial3_buffer_w_index + 1
        BY <2>1, <3>2 DEF Wrapped
      <4>2. ASSUME NEW j \in 0 .. RING - 1, j < serial3_buffer_w_index' PROVE ring[j] \in Key
        <5>1. CASE j = serial3_buffer_w_index
          BY <2>2, <2>3, <5>1
        <5>2. CASE j # serial3_buffer_w_index
          <6>1. j < serial3_buffer_w_index
            BY <1>1, <4>1, <4>2, <5>2
          <6>2. QED
            BY <2>3, <2>6, <6>1
        <5>3. QED
          BY <5>1, <5>2
      <4>3. QED
        BY <4>1, <4>2
    <3>3. QED
      BY <3>1, <3>2
  <2>8. (\A j \in 0 .. RING - 1 : serial3_buffer[j] \in Key) => \A j \in 0 .. RING - 1 : ring[j] \in Key
    BY <2>3
  <2>9. CASE queue = <<>>
    <3>1. /\ overrun' = (overrun \/ Len(Unread) + 1 = RING)
          /\ UNCHANGED <<queue, status, taken, buff, serial3_buffer_r_index>>
      BY <1>5, <2>9 DEF SerialIRQ
    <3>2. TypeOKStdin'
      <4>1. TypeOK'
        BY <1>0, <2>1, <2>2, <3>1 DEF TypeOK
      <4>2. overrun' \in BOOLEAN
        BY <3>1, Zenon
      <4>3. serial3_buffer' \in [0 .. RING - 1 -> 0 .. MaxPress]
        BY <2>1, <2>3
      <4>4. {serial3_buffer_w_index', serial3_buffer_r_index'} \subseteq 0 .. RING - 1
        BY <1>1, <2>4, <3>1
      <4>5. QED
        BY <4>1, <4>2, <4>3, <4>4 DEF TypeOKStdin
    <3>3. QueuedInside' /\ ResumesWoken'
      BY <1>0, <2>1, <3>1 DEF QueuedInside, ResumesWoken
    <3>4. RingWritten'
      <4>1. serial3_buffer_w_index' < serial3_buffer_r_index' => \A j \in 0 .. RING - 1 : ring[j] \in Key
        BY <1>1, <2>4, <2>6, <2>7, <2>8, <3>1
      <4>2. ASSUME NEW x \in Reader, pc'[x] = "take_byte"
            PROVE  \/ serial3_buffer_r_index' < serial3_buffer_w_index'
                   \/ \A j \in 0 .. RING - 1 : ring[j] \in Key
        BY <1>1, <2>1, <2>6, <2>7, <2>8, <3>1, <4>2
      <4>3. QED
        BY <2>1, <2>7, <4>1, <4>2 DEF RingWritten
    <3>5. RingInOrder'
      <4>1. SUFFICES ASSUME ~ overrun' PROVE RingInOrder'
        BY DEF RingInOrder
      <4>2. ~ overrun /\ Len(Unread) + 1 # RING
        BY <3>1, <4>1, Zenon
      <4>3. UnreadCount + 1 # RING
        BY <1>0, <4>2, UnreadBytes
      <4>4. /\ Len(taken) + UnreadCount = pressed
            /\ \A i \in 1 .. Len(taken) : taken[i] = i
            /\ \A i \in 1 .. UnreadCount : serial3_buffer[Slot(i)] = Len(taken) + i
        BY <1>0, <4>2 DEF RingInOrder
      <4>5. UnreadCount' = UnreadCount + 1 /\ \A i \in 1 .. UnreadCount' : Slot(i)' = Slot(i)
        BY <1>0, <2>1, <3>1, <4>3, IndexesMove
      <4>6. /\ UnreadCount \in 0 .. RING - 1
            /\ \A i \in 1 .. UnreadCount : Slot(i) \in 0 .. RING - 1 /\ Slot(i) # serial3_buffer_w_index
            /\ Slot(UnreadCount + 1) = serial3_buffer_w_index
        BY <1>0, Slots
      <4>7. ASSUME NEW i \in 1 .. UnreadCount' PROVE serial3_buffer'[Slot(i)'] = Len(taken) + i
        <5>1. CASE i = UnreadCount + 1
          <6>1. Slot(i)' = serial3_buffer_w_index
            BY <4>5, <4>6, <5>1
          <6>2. serial3_buffer'[Slot(i)'] = pressed + 1
            BY <2>1, <2>3, <6>1
          <6>3. Len(taken) + UnreadCount = pressed /\ Len(taken) \in Nat
            BY <1>0, <4>4
          <6>4. pressed + 1 = Len(taken) + i
            BY <4>6, <5>1, <6>3
          <6>5. QED
            BY <6>2, <6>4
        <5>2. CASE i # UnreadCount + 1
          <6>1. i \in 1 .. UnreadCount
            BY <4>5, <4>6, <5>2
          <6>2. QED
            BY <2>1, <2>3, <4>4, <4>5, <4>6, <6>1
        <5>3. QED
          BY <5>1, <5>2
      <4>8. Len(taken') + UnreadCount' = pressed' /\ UnreadCount' > 0
        BY <1>0, <2>1, <3>1, <4>4, <4>5, <4>6
      <4>9. QED
        BY <3>1, <4>4, <4>7, <4>8 DEF RingInOrder
    <3>6. QED
      BY <1>2, <2>1, <2>5, <3>2, <3>3, <3>4, <3>5
  <2>10. CASE queue # <<>>
    <3>1. /\ queue' = Tail(queue) /\ status' = [status EXCEPT ![Head(queue)] = "INACTIVE"]
          /\ TakeByte(Head(queue), ring) /\ UNCHANGED overrun
      BY <1>5, <2>10 DEF SerialIRQ, ring
    <3>2. PICK r \in Reader : r = Head(queue)
      BY <1>0, <2>10 DEF TypeOK
    <3>3. /\ taken' = Append(taken, ring[serial3_buffer_r_index])
          /\ buff' = [buff EXCEPT ![r] = ring[serial3_buffer_r_index]]
          /\ serial3_buffer_r_index' = Wrapped(serial3_buffer_r_index)
          /\ status' = [status EXCEPT ![r] = "INACTIVE"]
      BY <3>1, <3>2 DEF TakeByte
    <3>4. queue' = <<>> /\ queue' \in Seq(Reader)
      BY <1>0, <2>10, <3>1 DEF QueuedInside, TypeOK
    <3>5. \A x \in Reader : pc'[x] # "take_byte"
      BY <1>0, <2>1, <2>10 DEF QueuedInside
    <3>6. ring[serial3_buffer_r_index] \in Key
      <4>1. CASE serial3_buffer_r_index = serial3_buffer_w_index
        BY <2>2, <2>3, <4>1
      <4>2. CASE serial3_buffer_r_index # serial3_buffer_w_index
        BY <1>1, <2>3, <2>6, <4>2
      <4>3. QED
        BY <4>1, <4>2
    <3>7. /\ taken' \in Seq(Key) /\ Len(taken') = Len(taken) + 1
          /\ \A i \in 1 .. Len(taken) : taken'[i] = taken[i]
          /\ taken'[Len(taken) + 1] = ring[serial3_buffer_r_index]
      BY <1>0, <3>3, <3>6
    <3>8. TypeOKStdin'
      <4>1. buff' \in [Reader -> 0 .. MaxPress]
        BY <1>0, <1>1, <2>3, <3>3 DEF TypeOK
      <4>2. TypeOK'
        BY <1>0, <2>1, <2>2, <3>3, <3>4, <3>7, <4>1 DEF TypeOK
      <4>3. serial3_buffer' \in [0 .. RING - 1 -> 0 .. MaxPress] /\ overrun' \in BOOLEAN
        BY <1>1, <2>1, <2>3, <3>1
      <4>4. QED
        BY <2>4, <3>3, <4>2, <4>3 DEF TypeOKStdin
    <3>9. QueuedInside' /\ ResumesWoken'
      BY <1>0, <2>1, <3>3, <3>4 DEF QueuedInside, ResumesWoken, TypeOK
    <3>10. RingWritten'
      <4>1. serial3_buffer_w_index' < serial3_buffer_r_index' => \A j \in 0 .. RING - 1 : ring[j] \in Key
        BY <1>1, <2>1, <2>6, <2>7, <2>8, <3>3 DEF Wrapped
      <4>2. QED
        BY <2>1, <2>7, <3>5, <4>1 DEF RingWritten
    <3>11. RingInOrder'
      <4>1. SUFFICES ASSUME ~ overrun PROVE RingInOrder'
        BY <3>1 DEF RingInOrder
      <4>2. /\ Len(taken) + UnreadCount = pressed
            /\ \A i \in 1 .. Len(taken) : taken[i] = i
            /\ \A i \in 1 .. UnreadCount : serial3_buffer[Slot(i)] = Len(taken) + i
        BY <1>0, <4>1 DEF RingInOrder
      <4>3. UnreadCount' = UnreadCount /\ \A i \in 1 .. UnreadCount' : Slot(i)' = Slot(i + 1)
        BY <1>0, <2>1, <3>3, IndexesMove
      <4>4. /\ UnreadCount \in 0 .. RING - 1
            /\ \A i \in 1 .. UnreadCount : Slot(i) \in 0 .. RING - 1 /\ Slot(i) # serial3_buffer_w_index
            /\ Slot(UnreadCount + 1) = serial3_buffer_w_index
            /\ Slot(1) = serial3_buffer_r_index
        BY <1>0, Slots
      <4>5. ASSUME NEW i \in 1 .. UnreadCount + 1 PROVE ring[Slot(i)] = Len(taken) + i
        <5>1. CASE i = UnreadCount + 1
          <6>1. ring[Slot(i)] = pressed + 1
            BY <2>3, <4>4, <5>1
          <6>2. Len(taken) + UnreadCount = pressed /\ Len(taken) \in Nat
            BY <1>0, <4>2
          <6>3. pressed + 1 = Len(taken) + i
            BY <4>4, <5>1, <6>2
          <6>4. QED
            BY <6>1, <6>3
        <5>2. CASE i # UnreadCount + 1
          <6>1. i \in 1 .. UnreadCount
            BY <4>4, <5>2
          <6>2. QED
            BY <2>3, <4>2, <4>4, <6>1
        <5>3. QED
          BY <5>1, <5>2
      <4>6. taken'[Len(taken) + 1] = Len(taken) + 1
        <5>1. 1 \in 1 .. UnreadCount + 1
          BY <4>4
        <5>2. QED
          BY <3>7, <4>4, <4>5, <5>1
      <4>7. \A i \in 1 .. Len(taken') : taken'[i] = i
        BY <1>0, <3>7, <4>2, <4>6
      <4>8. ASSUME NEW i \in 1 .. UnreadCount' PROVE serial3_buffer'[Slot(i)'] = Len(taken') + i
        <5>1. i + 1 \in 1 .. UnreadCount + 1 /\ Len(taken) + (i + 1) = Len(taken') + i
          BY <1>0, <3>7, <4>3, <4>4
        <5>2. QED
          BY <2>1, <4>3, <4>5, <5>1
      <4>9. Len(taken') + UnreadCount' = pressed'
        <5>1. Len(taken') = Len(taken) + 1
          BY <3>7
        <5>2. pressed' = pressed + 1 /\ Len(taken) \in Nat
          BY <1>0, <2>1
        <5>3. Len(taken) + UnreadCount = pressed
          BY <4>2
        <5>4. UnreadCount' = UnreadCount
          BY <4>3
        <5>5. QED
          BY <4>4, <5>1, <5>2, <5>3, <5>4
      <4>10. QED
        BY <3>5, <4>7, <4>8, <4>9 DEF RingInOrder
    <3>12. QED
      BY <1>2, <2>1, <2>5, <3>8, <3>9, <3>10, <3>11
  <2>11. QED
    BY <2>9, <2>10
<1>6. QED
  BY <1>3, <1>4, <1>5 DEF SerialSteps

-----------------------------------------------------------------------------
\* The invariant of a read of stdin.
THEOREM StdinInvariance == ASSUME OneReader PROVE SpecStdin => []StdinInv
<1>1. InitStdin => StdinInv
  BY InitOfStdin
<1>2. StdinInv /\ [NextStdin]_allvars => StdinInv'
  <2>1. SUFFICES ASSUME StdinInv, [NextStdin]_allvars PROVE StdinInv'
    OBVIOUS
  <2>2. CASE ReadSteps /\ UNCHANGED <<serial, d_use_as_stdin>>
    BY <2>1, <2>2, ReadKeeps
  <2>3. CASE d_use_as_stdin = "ps2keyboard" /\ KeyboardSteps /\ UNCHANGED <<serial, d_use_as_stdin>>
    BY <2>1, <2>3, KeyboardKeeps
  <2>4. CASE d_use_as_stdin = "serial3" /\ SerialSteps /\ UNCHANGED d_use_as_stdin
    BY <2>1, <2>4, SerialKeeps
  <2>5. CASE UNCHANGED allvars
    <3>1. /\ UNCHANGED <<pc, status, running, queue, scancodes, pressed, held, taken, buff>>
          /\ UNCHANGED <<serial3_buffer, serial3_buffer_w_index, serial3_buffer_r_index, overrun>>
          /\ UNCHANGED <<serial, d_use_as_stdin>>
      BY <2>5 DEF allvars, vars, serial
    <3>2. OneDevice' /\ KeysInOrder' /\ RingWritten' /\ RingInOrder'
      BY <2>1, <3>1, DevicesStay
    <3>3. TypeOKStdin' /\ QueuedInside' /\ ResumesWoken'
      BY <2>1, <3>1 DEF StdinInv, TypeOKStdin, TypeOK, QueuedInside, ResumesWoken
    <3>4. QED
      BY <3>2, <3>3 DEF StdinInv
  <2>6. QED
    BY <2>1, <2>2, <2>3, <2>4, <2>5 DEF NextStdin
<1>3. QED
  BY <1>1, <1>2, PTL DEF SpecStdin

\* Two sequences that count on from each other count together.
LEMMA ConcatIsCount ==
    \A s, t, n, S, T : s \in Seq(S) /\ t \in Seq(T) /\ n \in Nat /\ Len(s) + Len(t) = n
                      /\ (\A i \in 1 .. Len(s) : s[i] = i)
                      /\ (\A i \in 1 .. Len(t) : t[i] = Len(s) + i)
                      => s \o t = [i \in 1 .. n |-> i]
<1>1. SUFFICES ASSUME NEW s, NEW t, NEW n \in Nat, NEW S, NEW T,
                      s \in Seq(S), t \in Seq(T), Len(s) + Len(t) = n,
                      \A i \in 1 .. Len(s) : s[i] = i, \A i \in 1 .. Len(t) : t[i] = Len(s) + i
               PROVE  s \o t = [i \in 1 .. n |-> i]
  BY Zenon
<1>2. s \in Seq(S \cup T) /\ t \in Seq(S \cup T) /\ Len(s) \in Nat /\ Len(t) \in Nat
  BY <1>1
<1>3. /\ s \o t \in Seq(S \cup T) /\ Len(s \o t) = Len(s) + Len(t)
      /\ \A i \in 1 .. Len(s) + Len(t) : (s \o t)[i] = IF i <= Len(s) THEN s[i] ELSE t[i - Len(s)]
  BY <1>2, ConcatProperties, Zenon
<1>4. ASSUME NEW i \in 1 .. n PROVE (s \o t)[i] = i
  <2>1. (s \o t)[i] = IF i <= Len(s) THEN s[i] ELSE t[i - Len(s)]
    BY <1>1, <1>3
  <2>2. CASE i <= Len(s)
    BY <1>1, <1>2, <2>1, <2>2
  <2>3. CASE ~ (i <= Len(s))
    <3>1. i - Len(s) \in 1 .. Len(t) /\ Len(s) + (i - Len(s)) = i
      BY <1>1, <1>2, <2>3
    <3>2. QED
      BY <1>1, <2>1, <2>3, <3>1
  <2>4. QED
    BY <2>2, <2>3
<1>5. s \o t = [i \in 1 .. Len(s \o t) |-> (s \o t)[i]]
  <2>1. \A x \in Seq(S \cup T) : x = [i \in 1 .. Len(x) |-> x[i]]
    OBVIOUS
  <2>2. QED
    BY <1>3, <2>1, Zenon
<1>6. s \o t = [i \in 1 .. n |-> (s \o t)[i]]
  BY <1>1, <1>3, <1>5
<1>7. QED
  BY <1>4, <1>6, Zenon

\* The invariant says where every key and byte is.
LEMMA WhereKeysAre == StdinInv => EachKeyTakenOnceInOrder
<1>1. SUFFICES ASSUME StdinInv PROVE EachKeyTakenOnceInOrder
  OBVIOUS
<1>2. /\ TypeOKStdin /\ taken \in Seq(Key) /\ scancodes \in Seq(Key) /\ pressed \in Nat
      /\ Len(taken) \in Nat /\ Len(scancodes) \in Nat
  BY <1>1, PressAssumption DEF StdinInv, TypeOKStdin, TypeOK
<1>3. Unread \in Seq(0 .. MaxPress) /\ Len(Unread) = UnreadCount /\ UnreadCount \in Nat
  BY <1>2, UnreadBytes
<1>4. CASE d_use_as_stdin = "ps2keyboard"
  <2>1. UnreadCount = 0
    BY <1>1, <1>4 DEF StdinInv, OneDevice, UnreadCount
  <2>2. Unread = <<>>
    BY <1>3, <2>1
  <2>3. taken \o scancodes \o Unread = taken \o scancodes
    BY <1>2, <2>2
  <2>4. /\ Len(taken) + Len(scancodes) = pressed
        /\ \A i \in 1 .. Len(taken) : taken[i] = i
        /\ \A i \in 1 .. Len(scancodes) : scancodes[i] = Len(taken) + i
    BY <1>1, <1>4 DEF StdinInv, KeysInOrder
  <2>5. taken \o scancodes = [i \in 1 .. pressed |-> i]
    BY <1>2, <2>4, ConcatIsCount
  <2>6. QED
    BY <1>2, <2>3, <2>5 DEF EachKeyTakenOnceInOrder
<1>5. CASE d_use_as_stdin = "serial3" /\ ~ overrun
  <2>1. scancodes = <<>>
    BY <1>1, <1>5 DEF StdinInv, OneDevice
  <2>2. taken \o scancodes \o Unread = taken \o Unread
    BY <1>2, <2>1
  <2>3. /\ Len(taken) + Len(Unread) = pressed
        /\ \A i \in 1 .. Len(taken) : taken[i] = i
        /\ \A i \in 1 .. UnreadCount : serial3_buffer[Slot(i)] = Len(taken) + i
    BY <1>1, <1>3, <1>5 DEF StdinInv, RingInOrder
  <2>4. \A i \in 1 .. Len(Unread) : Unread[i] = Len(taken) + i
    BY <1>2, <1>3, <2>3, UnreadBytes
  <2>5. taken \o Unread = [i \in 1 .. pressed |-> i]
    <3>1. Len(Unread) \in Nat
      BY <1>3
    <3>2. QED
      BY <1>2, <1>3, <2>3, <2>4, <3>1, ConcatIsCount, Zenon
  <2>6. QED
    BY <1>2, <2>2, <2>5 DEF EachKeyTakenOnceInOrder
<1>6. QED
  BY <1>1, <1>2, <1>4, <1>5 DEF EachKeyTakenOnceInOrder, StdinInv, OneDevice

\* Every scancode and byte is handed over once and in order, or waits.
THEOREM KeysTakenInOrder == ASSUME OneReader PROVE SpecStdin => []EachKeyTakenOnceInOrder
  BY StdinInvariance, WhereKeysAre, PTL

\* The node a reader frees is one of the list.
THEOREM HeldNodeStays == ASSUME OneReader PROVE SpecStdin => []HeldNodeIsInList
<1>1. StdinInv => HeldNodeIsInList
  <2>1. SUFFICES ASSUME StdinInv, NEW r \in Reader, pc[r] = "take" PROVE held[r] \in ToSet(scancodes)
    BY DEF HeldNodeIsInList
  <2>2. d_use_as_stdin = "ps2keyboard" /\ scancodes \in Seq(Key)
    BY <2>1 DEF StdinInv, OneDevice, TypeOKStdin, TypeOK
  <2>3. scancodes # <<>> /\ held[r] = scancodes[1]
    BY <2>1, <2>2 DEF StdinInv, KeysInOrder
  <2>4. 1 \in DOMAIN scancodes
    BY <2>2, <2>3
  <2>5. QED
    BY <2>3, <2>4 DEF ToSet
<1>2. QED
  BY <1>1, StdinInvariance, PTL

\* An interrupt serves no reader that has left its read.
THEOREM NoWriteAfterRead == ASSUME OneReader PROVE SpecStdin => NoStrayWrite
<1>1. StdinInv => \A r \in Reader : queue # <<>> => pc[r] # "user"
  BY DEF StdinInv, QueuedInside
<1>2. (\A r \in Reader : queue # <<>> => pc[r] # "user") /\ [NextStdin]_allvars =>
         [\A r \in Reader : (queue # <<>> /\ Head(queue) = r /\ queue' = Tail(queue))
             => pc[r] # "user"]_vars
  OBVIOUS
<1>3. QED
  BY <1>1, <1>2, StdinInvariance, PTL DEF SpecStdin, NoStrayWrite

-----------------------------------------------------------------------------
(***************************************************************************)
(* The console: what each call does to the console and the screen.         *)
(***************************************************************************)
\* The part of the invariant that is about the console and the screen.
BufferFits(v) ==
    /\ v \in [con : Consoles, screen : Grid, stray : {FALSE}]
    /\ \A r \in 1..NumRows, c \in 1..NumCols :
          v.screen[r][c] \in {Blank, Shown(v.con.rows[r][c])}

InOrder(v) ==
    BufferFits(v) /\ v.con.px = v.con.current_col /\ v.con.py = v.con.current_row

\* What SizeAssumption says of the size of the console: a column fits into 16 bits.
LEMMA Sizes == /\ NumRows \in Nat /\ NumRows > 0
               /\ NumCols \in Nat /\ NumCols > 0 /\ NumCols < 65535
<1>1. NumRows \in Nat \ {0}
  BY SizeAssumption
<1>2. NumCols \in 1 .. UInt16 - 2
  BY SizeAssumption
<1>3. NumCols \in Nat /\ NumCols > 0 /\ NumCols < 65535
  BY <1>2, SMTT(20) DEF UInt16
<1>4. NumRows > 0
  BY <1>1
<1>5. QED
  BY <1>1, <1>3, <1>4

\* The cells that vui_console_create and a scroll fill the rows with.
LEMMA BasicCells ==
    /\ Blank \in Cell /\ EmptyCell \in Cell /\ Shown(EmptyCell) = Blank
    /\ \A cell \in Cell : Shown(cell) \in Cell
    /\ EmptyRow \in [1..NumCols -> Cell]
    /\ SPACE \in Plain
<1>1. SPACE \in Chars
  <2>1. \A a, b : SPACE \in a \cup b \cup {SPACE}
    OBVIOUS
  <2>2. QED
    BY <2>1, Zenon DEF Chars
<1>2. None \in Colours
  BY Zenon DEF Colours
<1>3. Blank \in Cell /\ EmptyCell \in Cell /\ Shown(EmptyCell) = Blank
  BY <1>1, <1>2 DEF Cell, Blank, EmptyCell, Shown, NUL
<1>4. \A cell \in Cell : Shown(cell) \in Cell
  BY <1>1 DEF Cell, Shown
<1>5. SPACE \in Plain
  BY <1>1 DEF Plain, ESC, TAB, NL, BS, NUL, SPACE
<1>6. EmptyRow \in [1..NumCols -> Cell]
  BY <1>3 DEF EmptyRow
<1>7. QED
  BY <1>3, <1>4, <1>5, <1>6, Zenon

\* The cell a character gets.
CellOf(v, c) == [ch |-> c, fg |-> v.con.override_fg, bg |-> v.con.override_bg]

\* Whatever the colours, a character makes a cell.
LEMMA CellIsOne ==
    ASSUME NEW v, v.con \in Consoles, NEW c \in Chars
    PROVE  CellOf(v, c) \in Cell
<1>1. v.con.override_fg \in Colours \ Background /\ v.con.override_bg \in {None} \cup Background
  BY DEF Consoles
<1>2. v.con.override_fg \in Colours /\ v.con.override_bg \in Colours
  BY <1>1 DEF Colours
<1>3. QED
  BY <1>2 DEF CellOf, Cell

\* Both columns move on.
LEMMA AdvancedCursor ==
    ASSUME NEW k \in Consoles, NEW s, NEW b
    PROVE  Advanced([con |-> k, screen |-> s, stray |-> b]) =
             [con |-> [k EXCEPT !.current_col = (k.current_col + 1) % UInt16,
                                !.px = (k.px + 1) % UInt16],
              screen |-> s, stray |-> b]
<1> DEFINE v == [con |-> k, screen |-> s, stray |-> b]
           m == (k.current_col + 1) % UInt16
           n == (k.px + 1) % UInt16
           k1 == [k EXCEPT !.current_col = m]
<1>1. [v EXCEPT !.con.current_col = (@ + 1) % UInt16] = [con |-> k1, screen |-> s, stray |-> b]
  OBVIOUS
<1>2. k1.px = k.px
  BY DEF Consoles
<1>3. [[con |-> k1, screen |-> s, stray |-> b] EXCEPT !.con.px = (@ + 1) % UInt16] =
         [con |-> [k1 EXCEPT !.px = n], screen |-> s, stray |-> b]
  <2>1. \A x : [[con |-> x, screen |-> s, stray |-> b] EXCEPT !.con.px = (@ + 1) % UInt16] =
                [con |-> [x EXCEPT !.px = (x.px + 1) % UInt16], screen |-> s, stray |-> b]
    OBVIOUS
  <2> HIDE DEF k1
  <2>2. QED
    BY <1>2, <2>1, Zenon
<1>4. QED
  BY <1>1, <1>3, Zenon DEF Advanced

\* A character to show, where the line has room for it.
LEMMA PlainPut ==
    ASSUME NEW v, InOrder(v), ~v.con.capturing, v.con.current_col <= NumCols, NEW c \in Plain,
           NEW w, w = PutDefault(v, c)
    PROVE  /\ InOrder(w)
           /\ w.con.capturing = v.con.capturing
           /\ w.con.override_fg = v.con.override_fg /\ w.con.override_bg = v.con.override_bg
           /\ w.con.current_row = v.con.current_row
           /\ w.con.current_col = v.con.current_col + 1
           /\ w.screen = [v.screen EXCEPT ![v.con.current_row][v.con.current_col] = CellOf(v, c)]
<1> DEFINE row == v.con.current_row
           col == v.con.current_col
           cell == CellOf(v, c)
           con1 == [v.con EXCEPT !.rows[row][col] = cell, !.dirty[row] = TRUE]
           con2 == [con1 EXCEPT !.current_col = col + 1, !.px = col + 1]
           screen2 == [v.screen EXCEPT ![row][col] = cell]
           s1 == [con |-> con1, screen |-> v.screen, stray |-> FALSE]
           s2 == [con |-> con1, screen |-> screen2, stray |-> FALSE]
           z == [con |-> con2, screen |-> screen2, stray |-> FALSE]
<1>1. /\ v.con \in Consoles /\ v.screen \in Grid /\ v.stray = FALSE
      /\ v.con.px = col /\ v.con.py = row
      /\ v = [con |-> v.con, screen |-> v.screen, stray |-> FALSE]
  BY DEF InOrder, BufferFits
<1>2. row \in 1..NumRows /\ col \in 1..NumCols
  <2>1. row \in 1..NumRows /\ col \in 1..NumCols + 1
    BY <1>1 DEF Consoles
  <2>2. QED
    BY <2>1, Sizes
<1>3. (col + 1) % UInt16 = col + 1 /\ col # NumCols + 1 /\ col + 1 \in 1..NumCols + 1
  <2> HIDE DEF col
  <2>1. QED
    BY <1>2, Sizes DEF UInt16
<1>4. PutDefault(v, c) = Advanced(vui_draw_char(Stored(v, row, col, cell), cell))
  BY <1>3 DEF PutDefault, PutPlain, CellOf
<1> HIDE DEF row, col, cell
<1>5. Stored(v, row, col, cell) = s1
  BY <1>1, <1>2 DEF Stored
<1>6. cell \in Cell /\ c # NUL /\ cell.ch = c
  BY <1>1, CellIsOne DEF cell, CellOf, Plain
<1>7. con1 \in Consoles /\ con1.px = col /\ con1.py = row /\ con1.current_col = col
  <2>1. [v.con.rows EXCEPT ![row][col] = cell] \in Grid /\ [v.con.dirty EXCEPT ![row] = TRUE] \in [1..NumRows -> BOOLEAN]
    BY <1>1, <1>2, <1>6 DEF Consoles, Grid
  <2>2. QED
    BY <1>1, <2>1 DEF Consoles, row, col
<1>8. screen2 \in Grid
  BY <1>1, <1>2, <1>6 DEF Grid
<1>9. vui_draw_char(s1, cell) = s2
  BY <1>2, <1>7 DEF vui_draw_char
<1>10. con2 \in Consoles /\ Advanced(s2) = z
  <2>1. Advanced(s2) = z
    <3>1. Advanced(s2) = [con |-> [con1 EXCEPT !.current_col = (con1.current_col + 1) % UInt16,
                                               !.px = (con1.px + 1) % UInt16],
                          screen |-> screen2, stray |-> FALSE]
      BY <1>7, AdvancedCursor
    <3>2. QED
      BY <1>3, <1>7, <3>1
  <2>2. con2 \in Consoles
    BY <1>3, <1>7 DEF Consoles
  <2>3. QED
    BY <2>1, <2>2
<1>11. PutDefault(v, c) = z
  BY <1>4, <1>5, <1>9, <1>10
<1>12. /\ con2.rows = [v.con.rows EXCEPT ![row][col] = cell]
       /\ con2.current_col = col + 1 /\ con2.px = col + 1 /\ con2.py = row /\ con2.current_row = row
       /\ con2.capturing = v.con.capturing
       /\ con2.override_fg = v.con.override_fg /\ con2.override_bg = v.con.override_bg
  BY <1>1 DEF Consoles, row
<1>13. \A r \in 1..NumRows, d \in 1..NumCols : screen2[r][d] \in {Blank, Shown(con2.rows[r][d])}
  <2>1. SUFFICES ASSUME NEW r \in 1..NumRows, NEW d \in 1..NumCols
                 PROVE  screen2[r][d] \in {Blank, Shown(con2.rows[r][d])}
    OBVIOUS
  <2>2. CASE r = row /\ d = col
    <3>1. screen2[r][d] = cell /\ con2.rows[r][d] = cell
      BY <1>1, <1>2, <1>12, <2>2, ZenonT(30) DEF Grid, Consoles
    <3>2. Shown(cell) = cell
      BY <1>6 DEF Shown
    <3>3. QED
      BY <3>1, <3>2
  <2>3. CASE ~ (r = row /\ d = col)
    <3>1. screen2[r][d] = v.screen[r][d] /\ con2.rows[r][d] = v.con.rows[r][d]
      BY <1>1, <1>2, <1>12, <2>3 DEF Grid, Consoles
    <3>2. v.screen[r][d] \in {Blank, Shown(v.con.rows[r][d])}
      BY DEF InOrder, BufferFits
    <3>3. QED
      BY <3>1, <3>2
  <2>4. QED
    BY <2>2, <2>3
<1> HIDE DEF con1, con2, screen2
<1>14. InOrder(z)
  BY <1>8, <1>10, <1>12, <1>13 DEF InOrder, BufferFits
<1>15. QED
  BY <1>11, <1>12, <1>14 DEF row, col, cell, screen2

\* vui_console_scroll_up: both moves, and then the drawing.
LEMMA ScrollIs ==
    ASSUME NEW k, NEW s, NEW b, NEW v, v = [con |-> k, screen |-> s, stray |-> b]
    PROVE  vui_console_scroll_up(v) = vui_console_draw_from_struct(
              [con |-> ToLastRow(RowsUp(k)), screen |-> Upwards(s, BlankRow), stray |-> b])
<1> DEFINE l == ToLastRow(RowsUp(k))
           t == Upwards(s, BlankRow)
<1>1. v.con = k /\ v.screen = s
  OBVIOUS
<1>2. l = ToLastRow(RowsUp(v.con)) /\ t = Upwards(v.screen, BlankRow)
  BY <1>1
<1> HIDE DEF l, t
<1>3. [[con |-> k, screen |-> s, stray |-> b] EXCEPT !.con = l] = [con |-> l, screen |-> s, stray |-> b]
  OBVIOUS
<1>4. [[con |-> l, screen |-> s, stray |-> b] EXCEPT !.screen = t] = [con |-> l, screen |-> t, stray |-> b]
  OBVIOUS
<1>5. [v EXCEPT !.con = l, !.screen = t] = [con |-> l, screen |-> t, stray |-> b]
  BY <1>3, <1>4, Zenon
<1>6. QED
  BY <1>2, <1>5, Zenon DEF vui_console_scroll_up, l, t

\* vui_console_draw_from_struct: dirty rows come from the buffer.
LEMMA DrawIs ==
    ASSUME NEW k, NEW s, NEW b
    PROVE  vui_console_draw_from_struct([con |-> k, screen |-> s, stray |-> b]) =
              [con |-> [k EXCEPT !.dirty = [r \in 1..NumRows |-> FALSE]],
               screen |-> [r \in 1..NumRows |->
                             IF k.dirty[r] THEN [c \in 1..NumCols |-> Shown(k.rows[r][c])] ELSE s[r]],
               stray |-> b]
<1> DEFINE v == [con |-> k, screen |-> s, stray |-> b]
           clean == [r \in 1..NumRows |-> FALSE]
           t == [r \in 1..NumRows |->
                             IF k.dirty[r] THEN [c \in 1..NumCols |-> Shown(k.rows[r][c])] ELSE s[r]]
<1>1. t = [r \in 1..NumRows |->
                  IF v.con.dirty[r] THEN [c \in 1..NumCols |-> Shown(v.con.rows[r][c])]
                  ELSE v.screen[r]]
  OBVIOUS
<1> HIDE DEF t, clean
<1>3. [[con |-> k, screen |-> s, stray |-> b] EXCEPT !.screen = t] = [con |-> k, screen |-> t, stray |-> b]
  OBVIOUS
<1>4. [[con |-> k, screen |-> t, stray |-> b] EXCEPT !.con.dirty = clean] =
         [con |-> [k EXCEPT !.dirty = clean], screen |-> t, stray |-> b]
  OBVIOUS
<1>5. [v EXCEPT !.screen = t, !.con.dirty = clean] = [con |-> [k EXCEPT !.dirty = clean], screen |-> t, stray |-> b]
  BY <1>3, <1>4, Zenon
<1>6. QED
  BY <1>1, <1>5, Zenon DEF vui_console_draw_from_struct, clean, t

\* vui_console_scroll_up: the buffer and the screen move alike, and what is drawn
\* from a dirty last row is blank already.
LEMMA ScrolledUp ==
    ASSUME NEW v, BufferFits(v),
           NEW w, w = vui_console_scroll_up(v)
    PROVE  /\ InOrder(w)
           /\ w.con.capturing = v.con.capturing
           /\ w.con.override_fg = v.con.override_fg /\ w.con.override_bg = v.con.override_bg
           /\ w.con.current_row = NumRows /\ w.con.current_col = 1
           /\ w.screen = Upwards(v.screen, BlankRow)
<1> DEFINE k == v.con
           up == Upwards(k.rows, EmptyRow)
           dirty == [r \in 1..NumRows |-> r = NumRows /\ k.dirty[r]]
           screen1 == Upwards(v.screen, BlankRow)
           con0 == [k EXCEPT !.rows = up, !.dirty = dirty]
           con1 == ToLastRow(con0)
           s1 == [con |-> con1, screen |-> screen1, stray |-> FALSE]
           con2 == [con1 EXCEPT !.dirty = [r \in 1..NumRows |-> FALSE]]
           z == [con |-> con2, screen |-> screen1, stray |-> FALSE]
<1>1. /\ k \in Consoles /\ v.screen \in Grid /\ v.stray = FALSE
      /\ v = [con |-> k, screen |-> v.screen, stray |-> FALSE]
  BY DEF BufferFits
<1>2. up \in Grid /\ dirty \in [1..NumRows -> BOOLEAN] /\ screen1 \in Grid
  <2>1. k.rows \in Grid /\ k.dirty \in [1..NumRows -> BOOLEAN]
    BY <1>1 DEF Consoles
  <2>2. BlankRow \in [1..NumCols -> Cell]
    BY BasicCells DEF BlankRow
  <2>3. \A r \in 1..NumRows : r < NumRows => r + 1 \in 1..NumRows
    BY Sizes
  <2>4. \A g \in Grid, row \in [1..NumCols -> Cell] : Upwards(g, row) \in Grid
    BY <2>3 DEF Grid, Upwards
  <2>5. QED
    BY <1>1, <2>1, <2>2, <2>4, BasicCells
<1>3. RowsUp(k) = con0
  <2>1. k.rows \in Grid /\ k = [k EXCEPT !.rows = @]
    BY <1>1 DEF Consoles
  <2>2. QED
    BY <1>1 DEF RowsUp, Consoles
<1> HIDE DEF up, dirty, screen1
<1>4. con0 \in Consoles /\ con0.rows = up /\ con0.dirty = dirty
      /\ con0.capturing = k.capturing /\ con0.override_fg = k.override_fg /\ con0.override_bg = k.override_bg
  BY <1>1, <1>2 DEF Consoles
<1> HIDE DEF con0
<1>5. /\ con1 \in Consoles /\ con1.rows = up /\ con1.dirty = dirty
      /\ con1.px = 1 /\ con1.py = NumRows /\ con1.current_col = 1 /\ con1.current_row = NumRows
      /\ con1.capturing = k.capturing /\ con1.override_fg = k.override_fg /\ con1.override_bg = k.override_bg
  <2>1. 1 \in 1..NumCols + 1 /\ 1 \in 1..NumRows /\ NumRows \in 1..NumRows
    BY Sizes
  <2>2. con1 = [con0 EXCEPT !.px = 1, !.py = NumRows, !.current_col = 1, !.current_row = NumRows]
    BY DEF ToLastRow
  <2> HIDE DEF con1
  <2>3. con1 \in Consoles
    BY <1>4, <2>1, <2>2 DEF Consoles
  <2>4. /\ con1.rows = up /\ con1.dirty = dirty
        /\ con1.px = 1 /\ con1.py = NumRows /\ con1.current_col = 1 /\ con1.current_row = NumRows
        /\ con1.capturing = k.capturing /\ con1.override_fg = k.override_fg /\ con1.override_bg = k.override_bg
    BY <1>4, <2>2 DEF Consoles
  <2>5. QED
    BY <2>3, <2>4
<1>6. vui_console_scroll_up(v) = vui_console_draw_from_struct(s1)
  <2>1. vui_console_scroll_up(v) = vui_console_draw_from_struct(
            [con |-> ToLastRow(RowsUp(k)), screen |-> Upwards(v.screen, BlankRow), stray |-> FALSE])
    BY <1>1, ScrollIs
  <2>2. ToLastRow(RowsUp(k)) = con1
    BY <1>3
  <2> HIDE DEF con1
  <2>3. QED
    BY <2>1, <2>2 DEF screen1
<1> HIDE DEF con1
<1>7. vui_console_draw_from_struct(s1) = z
  <2> DEFINE drawn == [r \in 1..NumRows |-> IF con1.dirty[r] THEN [c \in 1..NumCols |-> Shown(con1.rows[r][c])]
                                            ELSE screen1[r]]
  <2>1. drawn = screen1
    <3>1. ASSUME NEW r \in 1..NumRows PROVE drawn[r] = screen1[r]
      <4>1. CASE con1.dirty[r]
        <5>1. r = NumRows
          BY <1>5, <4>1 DEF dirty
        <5>2. con1.rows[r] = EmptyRow /\ screen1[r] = BlankRow
          <6>1. \A g, x : Upwards(g, x)[NumRows] = x
            BY Sizes DEF Upwards
          <6>2. QED
            BY <1>5, <5>1, <6>1 DEF up, screen1
        <5>3. [c \in 1..NumCols |-> Shown(con1.rows[r][c])] = BlankRow
          BY <5>2, BasicCells DEF EmptyRow, BlankRow
        <5>4. QED
          BY <4>1, <5>2, <5>3
      <4>2. CASE ~ con1.dirty[r]
        BY <4>2
      <4>3. QED
        BY <4>1, <4>2
    <3>2. screen1 = [r \in 1..NumRows |-> screen1[r]]
      BY <1>2 DEF Grid
    <3> HIDE DEF drawn
    <3>3. drawn = [r \in 1..NumRows |-> drawn[r]]
      BY DEF drawn
    <3>4. QED
      BY <3>1, <3>2, <3>3
  <2>2. vui_console_draw_from_struct(s1) = [con |-> con2, screen |-> drawn, stray |-> FALSE]
    BY DrawIs
  <2>3. QED
    BY <2>1, <2>2
<1>8. InOrder(z)
  <2>1. /\ con2 \in Consoles /\ con2.rows = up /\ con2.px = con2.current_col /\ con2.py = con2.current_row
    BY <1>5 DEF Consoles
  <2> HIDE DEF con2
  <2>2. ASSUME NEW r \in 1..NumRows, NEW c \in 1..NumCols
        PROVE  screen1[r][c] \in {Blank, Shown(up[r][c])}
    <3>1. CASE r < NumRows
      <4>1. r + 1 \in 1..NumRows
        BY <3>1, Sizes
      <4>2. v.screen[r + 1][c] \in {Blank, Shown(k.rows[r + 1][c])}
        BY <4>1 DEF BufferFits
      <4>3. QED
        BY <3>1, <4>2 DEF up, screen1, Upwards
    <3>2. CASE ~ (r < NumRows)
      BY <3>2, BasicCells DEF screen1, Upwards, BlankRow
    <3>3. QED
      BY <3>1, <3>2
  <2>3. QED
    BY <1>2, <2>1, <2>2 DEF InOrder, BufferFits
<1>9. /\ con2.capturing = k.capturing /\ con2.override_fg = k.override_fg
      /\ con2.override_bg = k.override_bg /\ con2.current_row = NumRows /\ con2.current_col = 1
  BY <1>5 DEF Consoles
<1> HIDE DEF con2
<1>10. QED
  BY <1>6, <1>7, <1>8, <1>9 DEF screen1

\* The end of a line above the last row.
LEMMA NextRowIs ==
    ASSUME NEW k \in Consoles, k.current_row # NumRows, NEW s, NEW b
    PROVE  vui_console_do_new_line([con |-> k, screen |-> s, stray |-> b]) =
             [con |-> [k EXCEPT !.current_col = 1, !.current_row = k.current_row + 1,
                                !.py = k.py + 1, !.px = 1],
              screen |-> s, stray |-> b]
<1> DEFINE v == [con |-> k, screen |-> s, stray |-> b]
           k1 == [k EXCEPT !.current_col = 1]
           m == k.current_row + 1
           n == k.py + 1
           k2 == [k1 EXCEPT !.current_row = m]
           k3 == [k2 EXCEPT !.py = n]
           k4 == [k3 EXCEPT !.px = 1]
           w == [con |-> k1, screen |-> s, stray |-> b]
           x == [con |-> k3, screen |-> s, stray |-> b]
           y == [con |-> k2, screen |-> s, stray |-> b]
<1>1. k1.current_row = k.current_row /\ k2.py = k.py
  BY DEF Consoles
<1> HIDE DEF k1, k2, k3, k4
<1>2. [v EXCEPT !.con.current_col = 1] = w
  BY DEF k1
<1>3. [w EXCEPT !.con.current_row = @ + 1] = y
  BY <1>1 DEF k2
<1>4. [y EXCEPT !.con.py = @ + 1] = x
  BY <1>1 DEF k3
<1>5. [w EXCEPT !.con.current_row = @ + 1, !.con.py = @ + 1] = x
  <2> HIDE DEF w, x, y
  <2>1. QED
    BY <1>3, <1>4
<1>6. [x EXCEPT !.con.px = 1] = [con |-> k4, screen |-> s, stray |-> b]
  BY DEF k4
<1>7. w.con.current_row # NumRows
  BY <1>1
<1> HIDE DEF x, w
<1>8. QED
  BY <1>2, <1>5, <1>6, <1>7, Zenon DEF vui_console_do_new_line, k4, k3, k2, k1

\* vui_console_do_new_line.
LEMMA NewLinePut ==
    ASSUME NEW v, InOrder(v),
           NEW w, w = vui_console_do_new_line(v)
    PROVE  /\ InOrder(w)
           /\ w.con.capturing = v.con.capturing
           /\ w.con.override_fg = v.con.override_fg /\ w.con.override_bg = v.con.override_bg
           /\ w.con.current_col = 1
           /\ w.con.current_row = IF v.con.current_row = NumRows THEN NumRows
                                  ELSE v.con.current_row + 1
           /\ w.screen = IF v.con.current_row = NumRows THEN Upwards(v.screen, BlankRow)
                         ELSE v.screen
<1> DEFINE k == v.con
           s == v.screen
           b == v.stray
           k1 == [k EXCEPT !.current_col = 1]
           w1 == [con |-> k1, screen |-> s, stray |-> b]
           x == vui_console_scroll_up(w1)
           z == vui_console_do_new_line(v)
<1>1. /\ k \in Consoles /\ s \in Grid /\ b \in {FALSE} /\ v = [con |-> k, screen |-> s, stray |-> b]
      /\ \A r \in 1..NumRows, c \in 1..NumCols : s[r][c] \in {Blank, Shown(k.rows[r][c])}
      /\ k.px = k.current_col /\ k.py = k.current_row
  BY DEF InOrder, BufferFits
<1> HIDE DEF k, s, b
<1>2. 1 \in 1..NumCols + 1
  BY Sizes
<1>3. CASE k.current_row = NumRows
  <2>1. /\ k1 \in Consoles /\ k1.rows = k.rows /\ k1.current_row = NumRows
        /\ k1.capturing = k.capturing /\ k1.override_fg = k.override_fg /\ k1.override_bg = k.override_bg
    BY <1>1, <1>2, <1>3 DEF Consoles
  <2>2. [[con |-> k, screen |-> s, stray |-> b] EXCEPT !.con.current_col = 1] = w1
    OBVIOUS
  <2> HIDE DEF k1
  <2>3. BufferFits(w1)
    BY <1>1, <2>1 DEF BufferFits
  <2>4. /\ InOrder(x)
        /\ x.con.capturing = k.capturing
        /\ x.con.override_fg = k.override_fg /\ x.con.override_bg = k.override_bg
        /\ x.con.current_row = NumRows /\ x.con.current_col = 1
        /\ x.screen = Upwards(s, BlankRow)
    BY <2>1, <2>3, ScrolledUp
  <2>5. w1.con.current_row = NumRows
    BY <2>1
  <2> HIDE DEF w1
  <2>6. z = [x EXCEPT !.con.px = 1]
    BY <1>1, <2>2, <2>5, Zenon DEF vui_console_do_new_line
  <2> HIDE DEF x, z
  <2>7. z = x
    <3>1. x.con \in Consoles /\ x.con.px = 1 /\ x = [con |-> x.con, screen |-> x.screen, stray |-> x.stray]
      BY <2>4 DEF InOrder, BufferFits
    <3>2. [x.con EXCEPT !.px = 1] = x.con
      BY <3>1 DEF Consoles
    <3> DEFINE l == x.con
               t == x.screen
               d == x.stray
    <3>3. x = [con |-> l, screen |-> t, stray |-> d] /\ [l EXCEPT !.px = 1] = l
      BY <3>1, <3>2
    <3> HIDE DEF l, t, d
    <3>4. [[con |-> l, screen |-> t, stray |-> d] EXCEPT !.con.px = 1] =
             [con |-> [l EXCEPT !.px = 1], screen |-> t, stray |-> d]
      OBVIOUS
    <3>5. QED
      BY <2>6, <3>3, <3>4, Zenon
  <2>8. QED
    BY <1>3, <2>4, <2>7 DEF z, k, s
<1>4. CASE k.current_row # NumRows
  <2> DEFINE l == [k EXCEPT !.current_col = 1, !.current_row = k.current_row + 1,
                            !.py = k.py + 1, !.px = 1]
  <2>1. z = [con |-> l, screen |-> s, stray |-> b]
    <3>1. vui_console_do_new_line([con |-> k, screen |-> s, stray |-> b]) =
            [con |-> l, screen |-> s, stray |-> b]
      BY <1>1, <1>4, NextRowIs
    <3>2. QED
      BY <1>1, <3>1, Zenon
  <2>2. k.current_row + 1 \in 1..NumRows /\ k.py + 1 \in 1..NumRows
    <3>1. k.current_row \in 1..NumRows /\ k.py = k.current_row
      BY <1>1 DEF Consoles
    <3>2. QED
      BY <1>4, <3>1, Sizes
  <2>3. /\ l \in Consoles /\ l.rows = k.rows
        /\ l.capturing = k.capturing /\ l.override_fg = k.override_fg /\ l.override_bg = k.override_bg
        /\ l.current_col = 1 /\ l.px = 1 /\ l.current_row = k.current_row + 1 /\ l.py = k.py + 1
    <3>1. l \in Consoles
      BY <1>1, <1>2, <2>2 DEF Consoles
    <3>2. QED
      BY <1>1, <3>1 DEF Consoles
  <2> HIDE DEF l, z
  <2>4. InOrder(z)
    BY <1>1, <2>1, <2>3 DEF InOrder, BufferFits
  <2>5. QED
    BY <1>4, <2>1, <2>3, <2>4 DEF z, k, s
<1>5. QED
  BY <1>3, <1>4

\* A character drawn inside the text area.
LEMMA DrawCharIs ==
    ASSUME NEW k, NEW s, NEW b, NEW cell, k.px \in 1..NumCols, k.py \in 1..NumRows
    PROVE  vui_draw_char([con |-> k, screen |-> s, stray |-> b], cell) =
             [con |-> k, screen |-> [s EXCEPT ![k.py][k.px] = cell], stray |-> b]
<1> DEFINE v == [con |-> k, screen |-> s, stray |-> b]
           y == k.py
           x == k.px
<1>1. v.con.px = x /\ v.con.py = y
  OBVIOUS
<1> HIDE DEF x, y
<1>2. [v EXCEPT !.screen[y][x] = cell] = [con |-> k, screen |-> [s EXCEPT ![y][x] = cell], stray |-> b]
  OBVIOUS
<1>3. QED
  BY <1>1, <1>2 DEF vui_draw_char, x, y

\* vui_console_do_backspace, where the line has a character to erase.
LEMMA BackspacePut ==
    ASSUME NEW v, InOrder(v), v.con.current_col > 1,
           NEW w, w = vui_console_do_backspace(v)
    PROVE  /\ InOrder(w)
           /\ w.con.capturing = v.con.capturing
           /\ w.con.current_col = v.con.current_col - 1
           /\ w.con.current_row = v.con.current_row
           /\ w.screen = [v.screen EXCEPT ![v.con.current_row][v.con.current_col - 1] = Blank]
<1> DEFINE k == v.con
           s == v.screen
           b == v.stray
           m == k.current_col - 1
           k1 == [k EXCEPT !.current_col = m]
           k2 == [k1 EXCEPT !.px = m]
           w1 == [con |-> k1, screen |-> s, stray |-> b]
           w2 == [con |-> k2, screen |-> s, stray |-> b]
           t == [s EXCEPT ![k.current_row][m] = Blank]
           z == [con |-> k2, screen |-> t, stray |-> b]
<1>1. /\ k \in Consoles /\ s \in Grid /\ b \in {FALSE} /\ v = [con |-> k, screen |-> s, stray |-> b]
      /\ \A r \in 1..NumRows, c \in 1..NumCols : s[r][c] \in {Blank, Shown(k.rows[r][c])}
      /\ k.px = k.current_col /\ k.py = k.current_row /\ k.current_col > 1
  BY DEF InOrder, BufferFits
<1> HIDE DEF k, s, b
<1>2. k.current_col \in 1..NumCols + 1 /\ k.current_row \in 1..NumRows
  BY <1>1 DEF Consoles
<1>3. m % UInt16 = m /\ m \in 1..NumCols /\ m \in 1..NumCols + 1
  BY <1>1, <1>2, Sizes DEF UInt16
<1>4. /\ k1.px = k.current_col /\ k2 \in Consoles /\ k2.rows = k.rows /\ k2.px = m /\ k2.current_col = m
      /\ k2.current_row = k.current_row /\ k2.py = k.current_row /\ k2.capturing = k.capturing
  BY <1>1, <1>3 DEF Consoles
<1>5. (k.current_col - 1) % UInt16 = m /\ (k1.px - 1) % UInt16 = m
  BY <1>3, <1>4
<1> HIDE DEF k1, k2, m
<1>6. [v EXCEPT !.con.current_col = (@ - 1) % UInt16] = w1
  <2>1. [[con |-> k, screen |-> s, stray |-> b] EXCEPT !.con.current_col = (@ - 1) % UInt16] = w1
    BY <1>5 DEF k1
  <2> HIDE DEF w1
  <2>2. QED
    BY <1>1, <2>1
<1>7. [w1 EXCEPT !.con.px = (@ - 1) % UInt16] = w2
  BY <1>5 DEF k2
<1>8. vui_draw_char(w2, Blank) = z
  BY <1>2, <1>3, <1>4, DrawCharIs
<1>9. vui_console_do_backspace(v) = z
  <2> HIDE DEF w1, w2, z
  <2>1. [v EXCEPT !.con.current_col = (@ - 1) % UInt16, !.con.px = (@ - 1) % UInt16] = w2
    BY <1>6, <1>7
  <2>2. QED
    BY <1>8, <2>1 DEF vui_console_do_backspace
<1>10. t \in Grid
  BY <1>1, <1>2, <1>3, BasicCells DEF Grid
<1>11. \A r \in 1..NumRows, c \in 1..NumCols : t[r][c] = Blank \/ t[r][c] = s[r][c]
  BY <1>1, <1>2, <1>3 DEF Grid
<1> HIDE DEF t
<1>12. InOrder(z)
  <2>1. \A r \in 1..NumRows, c \in 1..NumCols : t[r][c] \in {Blank, Shown(k2.rows[r][c])}
    BY <1>1, <1>4, <1>11
  <2>2. QED
    BY <1>1, <1>4, <1>10, <2>1 DEF InOrder, BufferFits
<1>13. QED
  BY <1>4, <1>9, <1>12 DEF t, m, k, s

\* In the line of the cursor, n characters of t were put.
Added(v, w, t, n) ==
    /\ w.con.current_row = v.con.current_row
    /\ w.con.current_col = v.con.current_col + n
    /\ \A r \in 1..NumRows, c \in 1..NumCols :
          w.screen[r][c] =
             IF r = v.con.current_row /\ c \in v.con.current_col .. v.con.current_col + n - 1
             THEN CellOf(v, t[c - v.con.current_col + 1]) ELSE v.screen[r][c]

\* One character to show after another, for text that does not reach the edge.
LEMMA TextLoop ==
    ASSUME NEW v, InOrder(v), ~v.con.capturing, NEW n \in Nat, v.con.current_col + n <= NumCols + 1,
           NEW f, f[0] = v, NEW t,
           \A i \in 1..n : t[i] \in Plain /\ f[i] = PutDefault(f[i - 1], t[i])
    PROVE  InOrder(f[n]) /\ ~f[n].con.capturing /\ Added(v, f[n], t, n)
<1> DEFINE row == v.con.current_row
           col == v.con.current_col
           Written(i) == \A r \in 1..NumRows, c \in 1..NumCols :
                            f[i].screen[r][c] = IF r = row /\ c \in col .. col + i - 1
                                                THEN CellOf(v, t[c - col + 1]) ELSE v.screen[r][c]
           Good(i) == /\ InOrder(f[i]) /\ ~f[i].con.capturing
                      /\ f[i].con.override_fg = v.con.override_fg
                      /\ f[i].con.override_bg = v.con.override_bg
                      /\ f[i].con.current_row = row /\ f[i].con.current_col = col + i
                      /\ Written(i)
           S == {i \in 0..n : Good(i)}
<1>1. row \in 1..NumRows /\ col \in 1..NumCols + 1 /\ col \in Nat
  <2>1. v.con \in Consoles
    BY DEF InOrder, BufferFits
  <2>2. row \in 1..NumRows /\ col \in 1..NumCols + 1
    BY <2>1 DEF Consoles
  <2>3. QED
    BY <2>2, Sizes
<1>2. 0 \in S
  <2>1. \A c \in 1..NumCols : c \notin col .. col + 0 - 1
    <3> HIDE DEF col
    <3>1. QED
      BY <1>1, Sizes
  <2>2. Written(0)
    BY <2>1
  <2>3. col + 0 = col
    BY <1>1
  <2>4. 0 \in 0..n
    OBVIOUS
  <2> HIDE DEF Written
  <2>5. QED
    BY <2>2, <2>3, <2>4
<1>3. ASSUME NEW i \in 1..n, i - 1 \in S PROVE i \in S
  <2> DEFINE u == f[i - 1]
             cell == CellOf(v, t[i])
  <2>1. i \in 0..n /\ t[i] \in Plain /\ f[i] = PutDefault(u, t[i])
    OBVIOUS
  <2>2. Good(i - 1)
    BY <1>3
  <2>3. /\ InOrder(u) /\ ~u.con.capturing
        /\ u.con.override_fg = v.con.override_fg /\ u.con.override_bg = v.con.override_bg
        /\ u.con.current_row = row /\ u.con.current_col = col + (i - 1)
        /\ Written(i - 1)
    BY <2>2
  <2> HIDE DEF Written, row, col, u
  <2>4. u.con.current_col <= NumCols /\ u.con.current_col + 1 = col + i /\ col + (i - 1) \in 1..NumCols
    BY <1>1, <2>3, Sizes DEF col
  <2>5. CellOf(u, t[i]) = cell
    BY <2>3 DEF CellOf
  <2>6. /\ InOrder(f[i]) /\ f[i].con.capturing = u.con.capturing
        /\ f[i].con.override_fg = u.con.override_fg /\ f[i].con.override_bg = u.con.override_bg
        /\ f[i].con.current_row = u.con.current_row
        /\ f[i].con.current_col = u.con.current_col + 1
        /\ f[i].screen = [u.screen EXCEPT ![u.con.current_row][u.con.current_col] = CellOf(u, t[i])]
    <3>1. InOrder(u) /\ ~u.con.capturing /\ u.con.current_col <= NumCols /\ t[i] \in Plain
      BY <2>1, <2>3, <2>4
    <3>2. f[i] = PutDefault(u, t[i])
      BY <2>1
    <3> DEFINE x == t[i]
               y == f[i]
    <3> HIDE DEF x, y
    <3>3. InOrder(u) /\ ~u.con.capturing /\ u.con.current_col <= NumCols /\ x \in Plain /\ y = PutDefault(u, x)
      BY <3>1, <3>2 DEF x, y
    <3>4. /\ InOrder(y) /\ y.con.capturing = u.con.capturing
          /\ y.con.override_fg = u.con.override_fg /\ y.con.override_bg = u.con.override_bg
          /\ y.con.current_row = u.con.current_row
          /\ y.con.current_col = u.con.current_col + 1
          /\ y.screen = [u.screen EXCEPT ![u.con.current_row][u.con.current_col] = CellOf(u, x)]
      BY <3>3, PlainPut
    <3>5. QED
      BY <3>4 DEF x, y
  <2> HIDE DEF cell
  <2>7. f[i].screen = [u.screen EXCEPT ![row][col + (i - 1)] = cell]
    BY <2>3, <2>5, <2>6
  <2>8. u.screen \in Grid
    BY <2>3 DEF InOrder, BufferFits
  <2>9. Written(i)
    <3>1. SUFFICES ASSUME NEW r \in 1..NumRows, NEW c \in 1..NumCols
                   PROVE  f[i].screen[r][c] = IF r = row /\ c \in col .. col + i - 1
                                              THEN CellOf(v, t[c - col + 1]) ELSE v.screen[r][c]
      BY DEF Written
    <3>2. u.screen[r][c] = IF r = row /\ c \in col .. col + (i - 1) - 1
                           THEN CellOf(v, t[c - col + 1]) ELSE v.screen[r][c]
      BY <2>3 DEF Written, u
    <3>3. CASE r = row /\ c = col + (i - 1)
      <4>1. f[i].screen[r][c] = cell
        BY <1>1, <2>4, <2>7, <2>8, <3>3, ZenonT(30) DEF Grid
      <4>2. c - col + 1 = i /\ c \in col .. col + i - 1
        BY <1>1, <3>3
      <4>3. QED
        BY <3>3, <4>1, <4>2 DEF cell
    <3>4. CASE ~ (r = row /\ c = col + (i - 1))
      <4>1. f[i].screen[r][c] = u.screen[r][c]
        BY <1>1, <2>4, <2>7, <2>8, <3>4 DEF Grid
      <4>2. r = row => (c \in col .. col + i - 1 <=> c \in col .. col + (i - 1) - 1)
        BY <1>1, <3>4
      <4>3. QED
        BY <3>2, <4>1, <4>2
    <3>5. QED
      BY <3>3, <3>4
  <2>10. Good(i)
    BY <2>3, <2>4, <2>6, <2>9
  <2>11. QED
    BY <2>1, <2>10
<1>4. n \in S
  <2> HIDE DEF S
  <2>1. \A i \in 0..n : i \in S
    BY <1>2, <1>3, CountingUp
  <2>2. QED
    BY <2>1
<1>5. QED
  BY <1>4 DEF Added

\* The two views show the same, with the cursor in the same place.
SameText(u, v) ==
    /\ u.screen = v.screen /\ u.con.rows = v.con.rows
    /\ u.con.current_row = v.con.current_row /\ u.con.current_col = v.con.current_col
    /\ u.con.px = v.con.px /\ u.con.py = v.con.py

\* What may change between two such views.
LEMMA StaysInOrder ==
    ASSUME NEW v, InOrder(v), NEW w, w \in [con : Consoles, screen : Grid, stray : {FALSE}], SameText(w, v)
    PROVE  InOrder(w)
  BY DEF InOrder, BufferFits, SameText

\* A colour sequence changes no text: at its start ...
LEMMA EscapeStarts ==
    ASSUME NEW v, InOrder(v), NEW w, w = vui_console_put_char(v, ESC)
    PROVE  /\ InOrder(w) /\ SameText(w, v)
           /\ w.con.capturing /\ w.con.captured = <<>>
<1>1. v \in [con : Consoles, screen : Grid, stray : {FALSE}]
  BY DEF InOrder, BufferFits
<1>2. w = [v EXCEPT !.con.capturing = TRUE, !.con.captured = <<>>]
  BY Zenon DEF vui_console_put_char, ESC, TAB, NL, BS
<1>3. <<>> \in Seq(Chars)
  BY EmptySeq
<1> DEFINE l == [v.con EXCEPT !.capturing = TRUE, !.captured = <<>>]
<1>4. w.con = l /\ w.screen = v.screen /\ w.stray = v.stray
  BY <1>1, <1>2
<1>5. w \in [con : Consoles, screen : Grid, stray : {FALSE}]
  <2>1. \A k \in Consoles, x \in BOOLEAN, y \in Seq(Chars) :
           [k EXCEPT !.capturing = x, !.captured = y] \in Consoles
    BY DEF Consoles
  <2>2. v.con \in Consoles /\ TRUE \in BOOLEAN
    BY <1>1
  <2>3. w.con \in Consoles
    BY <1>3, <1>4, <2>1, <2>2
  <2>4. w = [con |-> w.con, screen |-> w.screen, stray |-> w.stray]
    BY <1>1, <1>2
  <2>5. QED
    BY <1>1, <1>4, <2>3, <2>4
<1>6. l.capturing /\ l.captured = <<>>
  BY <1>1 DEF Consoles
<1>7. SameText(w, v)
  BY <1>1, <1>4 DEF SameText, Consoles
<1>8. QED
  BY <1>4, <1>5, <1>6, <1>7, StaysInOrder

\* ... at each character it consists of ...
LEMMA EscapeCollects ==
    ASSUME NEW v, InOrder(v), v.con.capturing, NEW c \in Chars, c # "m",
           Len(v.con.captured) < EscapeSize,
           NEW w, w = vui_console_process_escape(v, c)
    PROVE  /\ InOrder(w) /\ SameText(w, v)
           /\ w.con.capturing /\ w.con.captured = Append(v.con.captured, c)
<1>1. v \in [con : Consoles, screen : Grid, stray : {FALSE}]
  BY DEF InOrder, BufferFits
<1>2. w = [v EXCEPT !.con.captured = Append(@, c), !.stray = @ \/ Len(v.con.captured) >= EscapeSize]
  BY DEF vui_console_process_escape
<1> DEFINE l == Append(v.con.captured, c)
           b == (v.stray \/ Len(v.con.captured) >= EscapeSize)
<1>3. l \in Seq(Chars)
  BY <1>1, AppendProperties DEF Consoles
<1>5. b = FALSE
  <2>1. v.stray = FALSE /\ v.con.captured \in Seq(Chars)
    BY <1>1 DEF Consoles
  <2>2. Len(v.con.captured) \in Nat /\ EscapeSize \in Nat
    BY <2>1, LenProperties, SizeAssumption
  <2>3. ~ (Len(v.con.captured) >= EscapeSize)
    BY <2>2
  <2>4. QED
    BY <2>1, <2>3, Zenon
<1>4. w = [v EXCEPT !.con.captured = l, !.stray = FALSE]
  BY <1>1, <1>2, <1>5
<1> HIDE DEF l, b
<1>6. /\ w.con.capturing /\ w.con.captured = l /\ SameText(w, v)
  BY <1>1, <1>4 DEF SameText, Consoles
<1>7. w \in [con : Consoles, screen : Grid, stray : {FALSE}]
  BY <1>1, <1>4, <1>3, ZenonT(30) DEF Consoles
<1>8. QED
  BY <1>6, <1>7, StaysInOrder DEF l

\* ... and at 'm', where it ends.
LEMMA EscapeEnds ==
    ASSUME NEW v, InOrder(v), Len(v.con.captured) < EscapeSize,
           \A n \in 1..3 : Len(Field(v.con.captured, n)) <= FieldSize,
           NEW w, w = vui_console_process_escape(v, "m")
    PROVE  InOrder(w) /\ SameText(w, v) /\ ~ w.con.capturing
<1> DEFINE captured == v.con.captured
           at(n) == Field(captured, n)
           bg == IF Len(at(3)) = 1 THEN Head(at(3)) ELSE NUL
           fg == IF bg \in BrightBackground THEN bg
                 ELSE IF Len(at(2)) = 1 THEN Head(at(2)) ELSE NUL
           newfg == IF fg \in Foreground \cup BrightBackground THEN fg ELSE None
           newbg == IF bg \in Background THEN bg ELSE None
           b == (v.stray \/ Len(captured) >= EscapeSize \/ \E n \in 1..3 : Len(at(n)) > FieldSize)
<1>1. v \in [con : Consoles, screen : Grid, stray : {FALSE}]
  BY DEF InOrder, BufferFits
<1>2. w = [v EXCEPT !.con.capturing = FALSE, !.con.captured = <<>>, !.con.override_fg = newfg,
                    !.con.override_bg = newbg, !.stray = b]
  BY <1>1, Zenon DEF vui_console_process_escape
<1>3. newfg \in Colours \ Background /\ newbg \in {None} \cup Background
  BY DEF Colours, Foreground, BrightBackground, Background, None
<1>4. b = FALSE
  <2>1. v.stray = FALSE /\ captured \in Seq(Chars)
    BY <1>1 DEF Consoles
  <2>2. Len(captured) \in Nat /\ EscapeSize \in Nat /\ FieldSize \in Nat
    BY <2>1, LenProperties, SizeAssumption
  <2>3. ~ (Len(captured) >= EscapeSize)
    BY <2>2
  <2>4. \A n \in 1..3 : ~ (Len(at(n)) > FieldSize)
    BY <2>2
  <2>5. QED
    BY <2>1, <2>3, <2>4, Zenon
<1> HIDE DEF newfg, newbg, b
<1>5. w = [v EXCEPT !.con.capturing = FALSE, !.con.captured = <<>>, !.con.override_fg = newfg,
                    !.con.override_bg = newbg, !.stray = FALSE]
  BY <1>2, <1>4
<1> DEFINE k == [v.con EXCEPT !.capturing = FALSE, !.captured = <<>>, !.override_fg = newfg,
                              !.override_bg = newbg]
<1>6. w.con = k /\ w.screen = v.screen /\ w.stray = FALSE
  BY <1>1, <1>5
<1>7. k \in Consoles
  <2>1. \A l \in Consoles, x \in BOOLEAN, y \in Seq(Chars), g \in Colours \ Background,
           h \in {None} \cup Background :
           [l EXCEPT !.capturing = x, !.captured = y, !.override_fg = g, !.override_bg = h] \in Consoles
    BY ZenonT(30) DEF Consoles
  <2>2. FALSE \in BOOLEAN /\ <<>> \in Seq(Chars)
    BY EmptySeq
  <2>3. QED
    BY <1>1, <1>3, <2>1, <2>2
<1>8. ~ w.con.capturing /\ SameText(w, v)
  BY <1>1, <1>6 DEF SameText, Consoles
<1>9. w = [con |-> w.con, screen |-> w.screen, stray |-> w.stray]
  BY <1>1, <1>5
<1>10. w \in [con : Consoles, screen : Grid, stray : {FALSE}]
  BY <1>1, <1>6, <1>7, <1>9
<1>11. QED
  BY <1>8, <1>10, StaysInOrder

\* A character that is not a control character.
LEMMA OrdinaryChar ==
    ASSUME NEW v, NEW c \in Plain
    PROVE  vui_console_put_char(v, c) = PutDefault(v, c)
<1>1. c # ESC /\ c # TAB /\ c # NL /\ c # BS
  BY DEF Plain
<1>2. QED
  BY <1>1, Zenon DEF vui_console_put_char

\* A whole colour sequence changes colours only.
LEMMA ColourPut ==
    ASSUME NEW v, InOrder(v), NEW s, IsColour(s), NEW f, f[0] = v,
           \A i \in 1..Len(s) : f[i] = vui_console_put_char(f[i - 1], s[i])
    PROVE  LET w == f[Len(s)] IN InOrder(w) /\ SameText(w, v) /\ ~ w.con.capturing
<1> DEFINE n == Len(s) - 2
           Good(u, i) == /\ InOrder(u) /\ SameText(u, v) /\ u.con.capturing
                         /\ u.con.captured = SubSeq(s, 2, i)
           S == {i \in 0..n : Good(f[i + 1], i + 1)}
<1>1. /\ s \in Seq(Chars) /\ Len(s) \in 2..EscapeSize + 1 /\ s[1] = ESC /\ s[Len(s)] = "m"
      /\ \A i \in 2..Len(s) - 1 : s[i] \in Plain \ {"m"}
      /\ \A m \in 1..3 : Len(Field(SubSeq(s, 2, Len(s) - 1), m)) <= FieldSize
  BY DEF IsColour
<1>2. EscapeSize \in Nat /\ n \in Nat /\ n + 2 = Len(s) /\ n < EscapeSize
  BY <1>1, SizeAssumption
<1> HIDE DEF n
<1>3. 0 \in S
  <2>1. 1 \in 1..Len(s) /\ 0 \in 0..n
    BY <1>2
  <2>2. f[1] = vui_console_put_char(v, ESC)
    BY <1>1, <2>1
  <2>3. /\ InOrder(f[1]) /\ SameText(f[1], v)
        /\ f[1].con.capturing /\ f[1].con.captured = <<>>
    BY <2>2, EscapeStarts
  <2>4. SubSeq(s, 2, 1) = <<>>
    BY <1>1, SubSeqEmpty
  <2>5. Good(f[1], 1)
    <3>1. SubSeq(s, 2, 1) = f[1].con.captured
      BY <2>3, <2>4
    <3>2. QED
      BY <2>3, <3>1
  <2>6. 0 + 1 = 1
    OBVIOUS
  <2> HIDE DEF Good
  <2>7. QED
    BY <2>1, <2>5, <2>6
<1>4. ASSUME NEW i \in 1..n, i - 1 \in S PROVE i \in S
  <2> DEFINE u == f[i]
             w == f[i + 1]
             c == s[i + 1]
  <2>1. i \in 0..n /\ i + 1 \in 1..Len(s) /\ i + 1 \in 2..Len(s) - 1 /\ (i + 1) - 1 = i /\ (i - 1) + 1 = i
    BY <1>2
  <2>2. Good(u, i)
    BY <1>4, <2>1
  <2>3. w = vui_console_put_char(u, c) /\ c \in Plain /\ c # "m"
    BY <1>1, <2>1
  <2>4. vui_console_put_char(u, c) = vui_console_process_escape(u, c)
    <3>1. vui_console_put_char(u, c) = PutDefault(u, c)
      BY <2>3, OrdinaryChar
    <3>2. QED
      BY <2>2, <3>1, Zenon DEF PutDefault
  <2>5. Len(SubSeq(s, 2, i)) = i - 1
    BY <1>1, <1>2, SubSeqProperties
  <2>6. Append(SubSeq(s, 2, i), c) = SubSeq(s, 2, i + 1)
    <3> DEFINE a == SubSeq(s, 2, i)
               b == SubSeq(s, 2, i + 1)
    <3>1. a \in Seq(Chars) /\ Len(a) = i - 1 /\ \A j \in 1..i - 1 : a[j] = s[j + 1]
      <4>1. i \in 1..Len(s) /\ i + 1 >= 2
        BY <2>1
      <4>2. QED
        BY <1>1, <4>1, <2>5, SubSeqProperties
    <3>2. b \in Seq(Chars) /\ Len(b) = i /\ \A j \in 1..i : b[j] = s[j + 1]
      <4>1. i + 1 \in Int /\ 2 <= i + 1 /\ (i + 1) - 2 + 1 = i
        BY <2>1
      <4>2. \A j \in 2..i + 1 : s[j] \in Chars
        BY <1>1, <2>1
      <4>3. /\ b \in Seq(Chars) /\ Len(b) = (i + 1) - 2 + 1
            /\ \A j \in 1..(i + 1) - 2 + 1 : b[j] = s[2 + j - 1]
        BY <4>1, <4>2, SubSeqProperties
      <4>4. \A j \in 1..i : 2 + j - 1 = j + 1
        OBVIOUS
      <4>5. QED
        BY <4>1, <4>3, <4>4
    <3>3. c \in Chars
      BY <2>3 DEF Plain
    <3> HIDE DEF a, b, c
    <3>4. /\ Append(a, c) \in Seq(Chars) /\ Len(Append(a, c)) = i
          /\ \A j \in 1..i : Append(a, c)[j] = IF j = i THEN c ELSE a[j]
      BY <3>1, <3>3, AppendProperties
    <3>5. ASSUME NEW j \in 1..i PROVE Append(a, c)[j] = b[j]
      <4>1. CASE j = i
        <5>1. Append(a, c)[j] = c /\ b[j] = s[i + 1]
          BY <3>2, <3>4, <4>1
        <5>2. QED
          BY <5>1 DEF c
      <4>2. CASE j # i
        <5>1. j \in 1..i - 1
          BY <4>2
        <5>2. QED
          BY <3>1, <3>2, <3>4, <4>2, <5>1
      <4>3. QED
        BY <4>1, <4>2
    <3>6. Append(a, c) = b
      BY <3>2, <3>4, <3>5, SeqEqual
    <3>7. QED
      BY <3>6 DEF a, b
  <2>7. c \in Chars
    BY <2>3 DEF Plain
  <2> HIDE DEF u, w, c
  <2>8. /\ InOrder(w) /\ SameText(w, u) /\ w.con.capturing
        /\ w.con.captured = Append(u.con.captured, c)
    <3>1. Len(u.con.captured) < EscapeSize
      BY <1>2, <2>2, <2>5
    <3>2. InOrder(u) /\ u.con.capturing
      BY <2>2
    <3>3. QED
      BY <2>3, <2>4, <2>7, <3>1, <3>2, EscapeCollects
  <2>9. SameText(w, v)
    BY <2>2, <2>8 DEF SameText
  <2>10. Good(w, i + 1)
    BY <2>2, <2>6, <2>8, <2>9
  <2>11. QED
    BY <2>1, <2>10 DEF w
<1>5. n \in S
  <2> HIDE DEF S
  <2>1. \A i \in 0..n : i \in S
    BY <1>2, <1>3, <1>4, CountingUp
  <2>2. QED
    BY <1>2, <2>1
<1>6. QED
  <2> DEFINE u == f[n + 1]
             w == f[Len(s)]
  <2>1. Good(u, n + 1)
    BY <1>5
  <2>2. Len(s) \in 1..Len(s) /\ Len(s) - 1 = n + 1
    BY <1>2
  <2>3. w = vui_console_put_char(u, "m")
    BY <1>1, <2>2
  <2>4. "m" # ESC /\ "m" # TAB /\ "m" # NL /\ "m" # BS
    BY DEF ESC, TAB, NL, BS
  <2> HIDE DEF u, w
  <2>5. w = vui_console_process_escape(u, "m")
    BY <2>1, <2>3, <2>4, Zenon DEF vui_console_put_char, PutDefault
  <2>6. Len(u.con.captured) < EscapeSize
    <3>1. Len(SubSeq(s, 2, n + 1)) = n
      BY <1>1, <1>2, SubSeqProperties
    <3>2. QED
      BY <1>2, <2>1, <3>1
  <2>7. \A m \in 1..3 : Len(Field(u.con.captured, m)) <= FieldSize
    BY <1>1, <2>1, <2>2
  <2>8. InOrder(w) /\ SameText(w, u) /\ ~ w.con.capturing
    BY <2>1, <2>5, <2>6, <2>7, EscapeEnds
  <2>9. QED
    BY <2>1, <2>8 DEF SameText, w

\* The views vui_console_put_string goes through.
LEMMA StringLoop ==
    ASSUME NEW v, NEW s, Len(s) \in Nat
    PROVE  \E f : /\ vui_console_put_string(v, s) = f[Len(s)] /\ f[0] = v
                  /\ \A i \in 1..Len(s) : f[i] = vui_console_put_char(f[i - 1], s[i])
<1> DEFINE Step(u, i) == vui_console_put_char(u, s[i])
           n == Len(s)
<1> HIDE DEF Step
<1> DEFINE Loop(f, m) == f = [i \in 0..m |-> IF i = 0 THEN v ELSE Step(f[i - 1], i)]
           S == {m \in 0..n : \E f : Loop(f, m)}
<1>1. Loop([i \in 0..0 |-> v], 0)
  OBVIOUS
<1>2. ASSUME NEW m \in 1..n, NEW g, Loop(g, m - 1) PROVE \E f : Loop(f, m)
  <2> DEFINE f == [i \in 0..m |-> IF i = m THEN Step(g[m - 1], m) ELSE g[i]]
  <2>1. m \in Nat /\ m # 0 /\ m - 1 \in 0..m - 1
    OBVIOUS
  <2>2. \A i \in 0..m - 1 : f[i] = g[i]
    BY <2>1
  <2>3. ASSUME NEW i \in 0..m PROVE f[i] = IF i = 0 THEN v ELSE Step(f[i - 1], i)
    <3>1. CASE i = m
      BY <2>1, <2>2, <3>1
    <3>2. CASE i # m
      <4>1. i \in 0..m - 1 /\ (i # 0 => i - 1 \in 0..m - 1)
        BY <2>1, <3>2
      <4>2. g[i] = IF i = 0 THEN v ELSE Step(g[i - 1], i)
        BY <1>2, <4>1
      <4>3. QED
        BY <2>2, <4>1, <4>2, Zenon
    <3>3. QED
      BY <3>1, <3>2
  <2>4. f = [i \in 0..m |-> f[i]]
    OBVIOUS
  <2> HIDE DEF f
  <2>5. Loop(f, m)
    BY <2>3, <2>4
  <2>6. QED
    BY <2>5
<1> HIDE DEF Loop
<1>3. n \in S
  <2>1. 0 \in S
    BY <1>1
  <2>2. ASSUME NEW m \in 1..n, m - 1 \in S PROVE m \in S
    BY <1>2, <2>2
  <2> HIDE DEF S
  <2>3. \A m \in 0..n : m \in S
    BY <2>1, <2>2, CountingUp
  <2>4. QED
    BY <2>3
<1> DEFINE after == CHOOSE f : Loop(f, n)
<1>4. Loop(after, n)
  BY <1>3, Zenon
<1>5. vui_console_put_string(v, s) = after[n]
  BY DEF vui_console_put_string, Loop, Step
<1> HIDE DEF after
<1>6. after[0] = v /\ \A i \in 1..n : after[i] = Step(after[i - 1], i)
  BY <1>4 DEF Loop
<1>7. QED
  BY <1>5, <1>6 DEF Step

\* The views PutSpaces goes through.
LEMMA SpacesLoop ==
    ASSUME NEW v, NEW n \in Nat
    PROVE  \E f : /\ PutSpaces(v, n) = f[n] /\ f[0] = v
                  /\ \A i \in 1..n : f[i] = PutDefault(f[i - 1], SPACE)
<1> DEFINE Step(u) == PutDefault(u, SPACE)
<1> HIDE DEF Step
<1> DEFINE Loop(f, m) == f = [i \in 0..m |-> IF i = 0 THEN v ELSE Step(f[i - 1])]
           S == {m \in 0..n : \E f : Loop(f, m)}
<1>1. Loop([i \in 0..0 |-> v], 0)
  OBVIOUS
<1>2. ASSUME NEW m \in 1..n, NEW g, Loop(g, m - 1) PROVE \E f : Loop(f, m)
  <2> DEFINE f == [i \in 0..m |-> IF i = m THEN Step(g[m - 1]) ELSE g[i]]
  <2>1. m \in Nat /\ m # 0 /\ m - 1 \in 0..m - 1
    OBVIOUS
  <2>2. \A i \in 0..m - 1 : f[i] = g[i]
    BY <2>1
  <2>3. ASSUME NEW i \in 0..m PROVE f[i] = IF i = 0 THEN v ELSE Step(f[i - 1])
    <3>1. CASE i = m
      BY <2>1, <2>2, <3>1
    <3>2. CASE i # m
      <4>1. i \in 0..m - 1 /\ (i # 0 => i - 1 \in 0..m - 1)
        BY <2>1, <3>2
      <4>2. g[i] = IF i = 0 THEN v ELSE Step(g[i - 1])
        BY <1>2, <4>1
      <4>3. QED
        BY <2>2, <4>1, <4>2, Zenon
    <3>3. QED
      BY <3>1, <3>2
  <2>4. f = [i \in 0..m |-> f[i]]
    OBVIOUS
  <2> HIDE DEF f
  <2>5. Loop(f, m)
    BY <2>3, <2>4
  <2>6. QED
    BY <2>5
<1> HIDE DEF Loop
<1>3. n \in S
  <2>1. 0 \in S
    BY <1>1
  <2>2. ASSUME NEW m \in 1..n, m - 1 \in S PROVE m \in S
    BY <1>2, <2>2
  <2> HIDE DEF S
  <2>3. \A m \in 0..n : m \in S
    BY <2>1, <2>2, CountingUp
  <2>4. QED
    BY <2>3
<1> DEFINE after == CHOOSE f : Loop(f, n)
<1>4. Loop(after, n)
  BY <1>3, Zenon
<1>5. PutSpaces(v, n) = after[n]
  BY DEF PutSpaces, Loop, Step
<1> HIDE DEF after
<1>6. after[0] = v /\ \A i \in 1..n : after[i] = Step(after[i - 1])
  BY <1>4 DEF Loop
<1>7. QED
  BY <1>5, <1>6 DEF Step

\* vui_console_do_tab: nothing, or a few spaces that leave room in the line.
Spaces(n) == [i \in 1..n |-> SPACE]

\* It leaves one column free, so that spaces never wrap.
LEMMA TabPut ==
    ASSUME NEW v, InOrder(v), ~v.con.capturing, NEW w, w = vui_console_do_tab(v)
    PROVE  /\ InOrder(w) /\ ~ w.con.capturing
           /\ \/ w = v
              \/ \E n \in 1..TabSize : v.con.current_col + n <= NumCols /\ Added(v, w, Spaces(n), n)
<1> DEFINE past == (v.con.current_col - 1) % TabSize
           n == IF past = 0 THEN TabSize ELSE past
           col == v.con.current_col
<1>1. col \in 1..NumCols + 1 /\ col \in Nat /\ col > 0 /\ TabSize \in Nat /\ TabSize > 0 /\ NumCols \in Nat
  <2>1. v.con \in Consoles
    BY DEF InOrder, BufferFits
  <2>2. col \in 1..NumCols + 1
    BY <2>1 DEF Consoles
  <2> HIDE DEF col
  <2>3. QED
    BY <2>2, Sizes, SizeAssumption
<1>2. n \in 1..TabSize
  <2>2. col - 1 \in Nat /\ TabSize \in Nat \ {0}
    BY <1>1
  <2>3. past \in 0..TabSize - 1
    BY <2>2, Division
  <2> HIDE DEF past
  <2>4. QED
    BY <1>1, <2>3
<1>3. CASE ~ (col + TabSize < NumCols)
  BY <1>3 DEF vui_console_do_tab
<1>4. CASE col + TabSize < NumCols
  <2>1. w = PutSpaces(v, n)
    BY <1>4 DEF vui_console_do_tab
  <2> HIDE DEF n
  <2>2. n \in Nat /\ col + n <= NumCols /\ col + n <= NumCols + 1
    <3> HIDE DEF col
    <3>1. QED
      BY <1>1, <1>2, <1>4
  <2>3. PICK f : PutSpaces(v, n) = f[n] /\ f[0] = v /\ \A i \in 1..n : f[i] = PutDefault(f[i - 1], SPACE)
    <3>1. \A m \in Nat : \E f : /\ PutSpaces(v, m) = f[m] /\ f[0] = v
                                  /\ \A i \in 1..m : f[i] = PutDefault(f[i - 1], SPACE)
      BY SpacesLoop
    <3>2. QED
      BY <2>2, <3>1
  <2> DEFINE t == Spaces(n)
  <2>4. \A i \in 1..n : t[i] = SPACE
    BY DEF Spaces
  <2> HIDE DEF t
  <2>5. \A i \in 1..n : t[i] \in Plain /\ f[i] = PutDefault(f[i - 1], t[i])
    BY <2>3, <2>4, BasicCells
  <2>6. InOrder(f[n]) /\ ~f[n].con.capturing /\ Added(v, f[n], t, n)
    BY <2>2, <2>3, <2>5, TextLoop
  <2>7. QED
    BY <1>2, <2>1, <2>2, <2>3, <2>6, Zenon DEF t
<1>5. QED
  BY <1>3, <1>4

\* The screen scrolls or the cursor goes down.
LineEnded(v, w) ==
    /\ w.con.current_col = 1
    /\ w.con.current_row = IF v.con.current_row = NumRows THEN NumRows ELSE v.con.current_row + 1
    /\ w.screen = IF v.con.current_row = NumRows THEN Upwards(v.screen, BlankRow) ELSE v.screen


\* A call with one character.
LEMMA OneChar ==
    ASSUME NEW v, NEW c
    PROVE  vui_console_put_string(v, <<c>>) = vui_console_put_char(v, c)
<1> DEFINE s == <<c>>
<1>1. Len(s) = 1 /\ s[1] = c /\ 1 \in 1..1 /\ 1 - 1 = 0 /\ 1 \in Nat
  OBVIOUS
<1> HIDE DEF s
<1>2. PICK f : /\ vui_console_put_string(v, s) = f[Len(s)] /\ f[0] = v
               /\ \A i \in 1..Len(s) : f[i] = vui_console_put_char(f[i - 1], s[i])
  BY <1>1, StringLoop
<1>3. f[1] = vui_console_put_char(f[1 - 1], s[1])
  BY <1>1, <1>2
<1>4. QED
  BY <1>1, <1>2, <1>3 DEF s

\* A call with text that does not run over the edge.
LEMMA TextPut ==
    ASSUME NEW v, InOrder(v), ~v.con.capturing, NEW s, IsText(s),
           v.con.current_col + Len(s) <= NumCols + 1,
           NEW w, w = vui_console_put_string(v, s)
    PROVE  InOrder(w) /\ ~ w.con.capturing /\ Added(v, w, s, Len(s))
<1>1. s \in Seq(Plain) /\ Len(s) \in Nat
  BY LenProperties DEF IsText
<1>2. PICK f : /\ vui_console_put_string(v, s) = f[Len(s)] /\ f[0] = v
               /\ \A i \in 1..Len(s) : f[i] = vui_console_put_char(f[i - 1], s[i])
  BY <1>1, StringLoop
<1>3. ASSUME NEW i \in 1..Len(s) PROVE s[i] \in Plain /\ f[i] = PutDefault(f[i - 1], s[i])
  <2>1. s[i] \in Plain
    BY <1>1
  <2>2. f[i] = vui_console_put_char(f[i - 1], s[i])
    BY <1>2
  <2>3. QED
    BY <2>1, <2>2, OrdinaryChar
<1>4. InOrder(f[Len(s)]) /\ ~f[Len(s)].con.capturing /\ Added(v, f[Len(s)], s, Len(s))
  BY <1>1, <1>2, <1>3, TextLoop
<1>5. QED
  BY <1>2, <1>4, Zenon

\* What programs print: the strings of WholeStrings.
LEMMA OutputPut ==
    ASSUME NEW v, InOrder(v), ~v.con.capturing, NEW s,
           IsText(s) \/ IsColour(s) \/ s \in {<<TAB>>, <<NL>>},
           IsText(s) => v.con.current_col + Len(s) <= NumCols + 1,
           NEW w, w = vui_console_put_string(v, s)
    PROVE  /\ InOrder(w) /\ ~ w.con.capturing
           /\ \/ SameText(w, v)
              \/ IsText(s) /\ Added(v, w, s, Len(s))
              \/ \E n \in 1..TabSize : v.con.current_col + n <= NumCols /\ Added(v, w, Spaces(n), n)
              \/ LineEnded(v, w)
<1>1. CASE IsText(s)
  BY <1>1, TextPut, Zenon
<1>2. CASE IsColour(s)
  <2>1. Len(s) \in Nat
    BY <1>2, LenProperties DEF IsColour
  <2>2. PICK f : /\ vui_console_put_string(v, s) = f[Len(s)] /\ f[0] = v
                 /\ \A i \in 1..Len(s) : f[i] = vui_console_put_char(f[i - 1], s[i])
    BY <2>1, StringLoop
  <2>3. InOrder(f[Len(s)]) /\ SameText(f[Len(s)], v) /\ ~ f[Len(s)].con.capturing
    BY <1>2, <2>2, ColourPut
  <2>4. QED
    BY <2>2, <2>3, Zenon
<1>3. CASE s = <<TAB>>
  <2>1. w = vui_console_put_char(v, TAB)
    BY <1>3, OneChar, Zenon
  <2>2. TAB # ESC
    BY DEF TAB, ESC
  <2>3. w = vui_console_do_tab(v)
    BY <2>1, <2>2, Zenon DEF vui_console_put_char, TAB, NL, BS
  <2>4. /\ InOrder(w) /\ ~ w.con.capturing
        /\ \/ w = v
           \/ \E n \in 1..TabSize : v.con.current_col + n <= NumCols /\ Added(v, w, Spaces(n), n)
    BY <2>3, TabPut
  <2>5. w = v => SameText(w, v)
    BY DEF SameText
  <2>6. QED
    BY <2>4, <2>5, Zenon
<1>4. CASE s = <<NL>>
  <2>1. w = vui_console_put_char(v, NL)
    BY <1>4, OneChar, Zenon
  <2>2. w = vui_console_do_new_line(v)
    BY <2>1, Zenon DEF vui_console_put_char, TAB, NL, BS, ESC
  <2>3. /\ InOrder(w) /\ w.con.capturing = v.con.capturing /\ LineEnded(v, w)
    BY <2>2, NewLinePut DEF LineEnded
  <2>4. QED
    BY <2>3, Zenon
<1>5. QED
  BY <1>1, <1>2, <1>3, <1>4

-----------------------------------------------------------------------------
(***************************************************************************)
(* The invariant of the console.                                           *)
(***************************************************************************)
\* The console is created with a blank buffer and drawn with a blank screen.
LEMMA ConsoleInitial == InitConsole => ConsoleInv
<1> SUFFICES ASSUME InitConsole PROVE ConsoleInv
  OBVIOUS
<1> DEFINE grid == [r \in 1..NumRows |-> EmptyRow]
           clean == [r \in 1..NumRows |-> FALSE]
           shown == [r \in 1..NumRows |-> BlankRow]
<1>1. con = vui_console_create /\ screen = shown /\ stray = FALSE /\ typed = 0 /\ puts = 0
  BY DEF InitConsole, BlankRow
<1>2. grid \in Grid /\ clean \in [1..NumRows -> BOOLEAN] /\ shown \in Grid
  BY BasicCells DEF Grid, BlankRow
<1>3. 1 \in 1..NumRows /\ 1 \in 1..NumCols + 1
  BY Sizes
<1>4. None \in Colours \ Background /\ <<>> \in Seq(Chars)
  BY EmptySeq DEF None, Colours, Background
<1> DEFINE k == [rows |-> grid, dirty |-> clean,
                 current_row |-> 1, current_col |-> 1, px |-> 1, py |-> 1,
                 capturing |-> FALSE, captured |-> <<>>,
                 override_fg |-> None, override_bg |-> None]
<1>5. con = k
  BY <1>1 DEF vui_console_create
<1>6. k \in Consoles
  <2> HIDE DEF grid, clean
  <2>1. \A b \in BOOLEAN, q \in Seq(Chars), x \in Colours \ Background :
           [rows |-> grid, dirty |-> clean,
            current_row |-> 1, current_col |-> 1, px |-> 1, py |-> 1,
            capturing |-> b, captured |-> q, override_fg |-> x, override_bg |-> None] \in Consoles
    BY <1>2, <1>3 DEF Consoles
  <2>2. QED
    BY <1>4, <2>1, Zenon
<1>7. \A r \in 1..NumRows, c \in 1..NumCols : screen[r][c] = Blank
  BY <1>1 DEF BlankRow
<1>8. k.px = k.current_col /\ k.py = k.current_row /\ ~ k.capturing /\ k.current_col = 1
  OBVIOUS
<1>9. puts \in 0..MaxPuts
  BY <1>1, SizeAssumption
<1> HIDE DEF k, shown
<1>10. TypeOKConsole
  BY <1>1, <1>2, <1>5, <1>6, <1>9 DEF TypeOKConsole
<1>11. CursorsAgree
  BY <1>5, <1>8, <1>10 DEF CursorsAgree
<1>12. BufferHoldsScreen
  BY <1>7 DEF BufferHoldsScreen
<1>13. QED
  BY <1>1, <1>5, <1>8, <1>11, <1>12 DEF ConsoleInv, WritesStayInside

\* The invariant and the views of one call.
LEMMA ViewInOrder ==
    ASSUME ConsoleInv
    PROVE  /\ InOrder(View) /\ ~View.con.capturing
           /\ View.con = con /\ View.screen = screen
<1>1. View = [con |-> con, screen |-> screen, stray |-> stray]
  BY DEF View
<1>2. stray = FALSE
  BY DEF ConsoleInv, WritesStayInside, CursorsAgree, TypeOKConsole
<1>3. con \in Consoles /\ screen \in Grid
  BY DEF ConsoleInv, CursorsAgree, TypeOKConsole
<1>4. con.px = con.current_col /\ con.py = con.current_row /\ ~ con.capturing
  BY DEF ConsoleInv, CursorsAgree
<1>5. \A r \in 1..NumRows, c \in 1..NumCols : screen[r][c] \in {Blank, Shown(con.rows[r][c])}
  BY DEF ConsoleInv, BufferHoldsScreen
<1>6. QED
  BY <1>1, <1>2, <1>3, <1>4, <1>5 DEF InOrder, BufferFits

\* A call that leaves a view in order keeps the invariant.
LEMMA OrderKept ==
    ASSUME NEW w, InOrder(w), ~ w.con.capturing, State(w),
           typed' \in Nat, typed' < w.con.current_col, puts' \in 0..MaxPuts
    PROVE  ConsoleInv'
<1>1. con' = w.con /\ screen' = w.screen /\ stray' = w.stray
  BY DEF State
<1>2. /\ con' \in Consoles /\ screen' \in Grid /\ stray' = FALSE
      /\ con'.px = con'.current_col /\ con'.py = con'.current_row /\ ~ con'.capturing
  BY <1>1 DEF InOrder, BufferFits
<1>3. \A r \in 1..NumRows, c \in 1..NumCols : screen'[r][c] \in {Blank, Shown(con'.rows[r][c])}
  BY <1>1 DEF InOrder, BufferFits
<1>4. TypeOKConsole'
  BY <1>2 DEF TypeOKConsole
<1>5. CursorsAgree'
  BY <1>2, <1>4 DEF CursorsAgree
<1>6. BufferHoldsScreen'
  BY <1>3 DEF BufferHoldsScreen
<1>7. typed' < con'.current_col
  BY <1>1
<1>8. QED
  BY <1>2, <1>5, <1>6, <1>7 DEF ConsoleInv, WritesStayInside

\* A program prints.
LEMMA OutputStep ==
    ASSUME ShortStrings, ConsoleInv, NEW s \in Strings, Output(s),
           NEW v, v = View, NEW w, w = vui_console_put_string(v, s)
    PROVE  /\ ConsoleInv' /\ InOrder(w)
           /\ \/ SameText(w, v)
              \/ IsText(s) /\ con.current_col + Len(s) <= NumCols + 1 /\ Added(v, w, s, Len(s))
              \/ \E n \in 1..TabSize : v.con.current_col + n <= NumCols /\ Added(v, w, Spaces(n), n)
              \/ LineEnded(v, w)
<1>1. typed = 0 /\ typed' = 0 /\ puts \in 0..MaxPuts /\ puts < MaxPuts /\ puts' = puts + 1 /\ Fits(s)
  BY DEF Output, Put, ConsoleInv, CursorsAgree, TypeOKConsole
<1>2. State(w)
  BY Zenon DEF Output, Put
<1>3. IsText(s) \/ IsColour(s) \/ s \in {<<TAB>>, <<NL>>}
  BY DEF ShortStrings, WholeStrings
<1>4. InOrder(v) /\ ~v.con.capturing /\ v.con = con
  BY ViewInOrder
<1>5. ASSUME IsText(s) PROVE con.current_col + Len(s) <= NumCols + 1
  <2>1. s \in Seq(Plain) /\ s # <<>>
    BY <1>5 DEF IsText
  <2>2. Head(s) \in Plain
    BY <2>1, HeadTailProperties
  <2>3. Head(s) \notin {ESC, TAB, NL, BS}
    BY <2>2 DEF Plain
  <2>4. QED
    BY <1>1, <2>3 DEF Fits, ShortStrings
<1>6. /\ InOrder(w) /\ ~ w.con.capturing
      /\ \/ SameText(w, v)
         \/ IsText(s) /\ Added(v, w, s, Len(s))
         \/ \E n \in 1..TabSize : v.con.current_col + n <= NumCols /\ Added(v, w, Spaces(n), n)
         \/ LineEnded(v, w)
  <2>1. IsText(s) => v.con.current_col + Len(s) <= NumCols + 1
    BY <1>4, <1>5
  <2>2. QED
    BY <1>3, <1>4, <2>1, OutputPut
<1>7. w.con.current_col \in 1..NumCols + 1
  <2>1. w.con \in Consoles
    BY <1>6 DEF InOrder, BufferFits
  <2>2. QED
    BY <2>1 DEF Consoles
<1>8. typed' \in Nat /\ typed' < w.con.current_col /\ puts' \in 0..MaxPuts
  <2>1. w.con.current_col > 0
    BY <1>7, Sizes
  <2>2. puts' \in 0..MaxPuts
    BY <1>1, SizeAssumption
  <2>3. QED
    BY <1>1, <2>1, <2>2
<1>9. ConsoleInv'
  BY <1>2, <1>6, <1>8, OrderKept
<1>10. QED
  BY <1>5, <1>6, <1>9, Zenon

\* The shell echoes a key.
LEMMA EchoStep ==
    ASSUME ShortStrings, ConsoleInv, NEW c \in Keys, Echo(c),
           NEW v, v = View, NEW w, w = vui_console_put_string(v, <<c>>)
    PROVE  ConsoleInv' /\ InOrder(w) /\ con.current_col + 1 <= NumCols + 1 /\ Added(v, w, <<c>>, 1)
<1>1. /\ typed \in Nat /\ typed' = typed + 1 /\ puts \in 0..MaxPuts /\ puts < MaxPuts /\ puts' = puts + 1
      /\ Fits(<<c>>) /\ typed < con.current_col
  BY DEF Echo, Put, ConsoleInv, CursorsAgree, TypeOKConsole
<1>2. State(w)
  BY Zenon DEF Echo, Put
<1>3. c \in Plain
  BY DEF ShortStrings, WholeStrings
<1>4. IsText(<<c>>) /\ Len(<<c>>) = 1 /\ Head(<<c>>) = c
  BY <1>3 DEF IsText
<1>5. con.current_col + 1 <= NumCols + 1
  <2>1. c \notin {ESC, TAB, NL, BS}
    BY <1>3 DEF Plain
  <2>2. QED
    BY <1>1, <1>4, <2>1 DEF Fits, ShortStrings
<1>6. InOrder(v) /\ ~v.con.capturing /\ v.con = con
  BY ViewInOrder
<1>7. InOrder(w) /\ ~ w.con.capturing /\ Added(v, w, <<c>>, 1)
  <2>1. v.con.current_col + Len(<<c>>) <= NumCols + 1
    BY <1>4, <1>5, <1>6
  <2>2. InOrder(w) /\ ~ w.con.capturing /\ Added(v, w, <<c>>, Len(<<c>>))
    BY <1>4, <1>6, <2>1, TextPut
  <2>3. QED
    BY <1>4, <2>2
<1>8. typed' \in Nat /\ typed' < w.con.current_col /\ puts' \in 0..MaxPuts
  <2>1. w.con.current_col = con.current_col + 1
    BY <1>6, <1>7 DEF Added
  <2>2. con.current_col \in Nat
    <3>1. con.current_col \in 1..NumCols + 1
      BY DEF ConsoleInv, CursorsAgree, TypeOKConsole, Consoles
    <3>2. QED
      BY <3>1, Sizes
  <2>3. puts' \in 0..MaxPuts
    BY <1>1, SizeAssumption
  <2>4. QED
    BY <1>1, <2>1, <2>2, <2>3
<1>9. ConsoleInv'
  BY <1>2, <1>7, <1>8, OrderKept
<1>10. QED
  BY <1>5, <1>7, <1>9

\* The shell takes a key back.
LEMMA EraseStep ==
    ASSUME ConsoleInv, Erase, NEW v, v = View, NEW w, w = vui_console_do_backspace(v)
    PROVE  /\ ConsoleInv' /\ State(w) /\ con.current_col > 1
           /\ w.con.current_col = con.current_col - 1
           /\ w.con.current_row = con.current_row
           /\ w.screen = [screen EXCEPT ![con.current_row][con.current_col - 1] = Blank]
<1>1. /\ typed \in Nat /\ typed > 0 /\ typed' = typed - 1
      /\ puts \in 0..MaxPuts /\ puts < MaxPuts /\ puts' = puts + 1 /\ typed < con.current_col
  BY DEF Erase, Put, ConsoleInv, CursorsAgree, TypeOKConsole
<1>2. State(w)
  <2>1. State(vui_console_put_string(v, <<BS>>))
    BY Zenon DEF Erase, Put
  <2>2. vui_console_put_string(v, <<BS>>) = vui_console_put_char(v, BS)
    BY OneChar
  <2>3. vui_console_put_char(v, BS) = w
    BY Zenon DEF vui_console_put_char, ESC, TAB, NL, BS
  <2>4. QED
    BY <2>1, <2>2, <2>3, Zenon
<1>3. con.current_col \in Nat
  <2>1. con.current_col \in 1..NumCols + 1
    BY DEF ConsoleInv, CursorsAgree, TypeOKConsole, Consoles
  <2>2. QED
    BY <2>1, Sizes
<1>4. con.current_col > 1
  BY <1>1, <1>3
<1>5. InOrder(v) /\ ~v.con.capturing /\ v.con = con /\ v.screen = screen
  BY ViewInOrder
<1>6. /\ InOrder(w) /\ ~ w.con.capturing
      /\ w.con.current_col = con.current_col - 1
      /\ w.con.current_row = con.current_row
      /\ w.screen = [screen EXCEPT ![con.current_row][con.current_col - 1] = Blank]
  BY <1>4, <1>5, BackspacePut
<1>7. typed' \in Nat /\ typed' < w.con.current_col /\ puts' \in 0..MaxPuts
  <2>1. puts' \in 0..MaxPuts
    BY <1>1, SizeAssumption
  <2>2. typed' \in Nat /\ typed' < con.current_col - 1
    BY <1>1, <1>3
  <2>3. QED
    BY <1>6, <2>1, <2>2
<1>8. ConsoleInv'
  BY <1>2, <1>6, <1>7, OrderKept
<1>9. QED
  BY <1>2, <1>4, <1>6, <1>8

\* The shell ends the line.
LEMMA EnterStep ==
    ASSUME ConsoleInv, Enter, NEW v, v = View, NEW w, w = vui_console_do_new_line(v)
    PROVE  ConsoleInv' /\ State(w) /\ LineEnded(v, w)
<1>1. typed' = 0 /\ puts \in 0..MaxPuts /\ puts < MaxPuts /\ puts' = puts + 1
  BY DEF Enter, Put, ConsoleInv, CursorsAgree, TypeOKConsole
<1>2. State(w)
  <2>1. State(vui_console_put_string(v, <<NL>>))
    BY Zenon DEF Enter, Put
  <2>2. vui_console_put_string(v, <<NL>>) = vui_console_put_char(v, NL)
    BY OneChar
  <2>3. vui_console_put_char(v, NL) = w
    BY Zenon DEF vui_console_put_char, ESC, TAB, NL, BS
  <2>4. QED
    BY <2>1, <2>2, <2>3, Zenon
<1>3. InOrder(v) /\ ~v.con.capturing
  BY ViewInOrder
<1>4. InOrder(w) /\ w.con.capturing = v.con.capturing /\ LineEnded(v, w)
  BY <1>3, NewLinePut DEF LineEnded
<1>5. ~ w.con.capturing
  BY <1>3, <1>4, Zenon
<1>6. typed' \in Nat /\ typed' < w.con.current_col /\ puts' \in 0..MaxPuts
  <2>1. puts' \in 0..MaxPuts
    BY <1>1, SizeAssumption
  <2>2. w.con.current_col = 1
    BY <1>4 DEF LineEnded
  <2>3. QED
    BY <1>1, <2>1, <2>2
<1>7. ConsoleInv'
  BY <1>2, <1>4, <1>5, <1>6, OrderKept
<1>8. QED
  BY <1>2, <1>4, <1>7

\* Between two calls, what is on the screen, in the buffer and in the cursors fits
\* together, whatever programs print and the user types.
THEOREM ConsoleInvariance == ASSUME ShortStrings PROVE SpecConsole => []ConsoleInv
<1>1. ConsoleInv /\ [NextConsole]_convars => ConsoleInv'
  <2> SUFFICES ASSUME ConsoleInv, [NextConsole]_convars PROVE ConsoleInv'
    OBVIOUS
  <2>1. ASSUME NEW s \in Strings, Output(s) PROVE ConsoleInv'
    BY <2>1, OutputStep
  <2>2. ASSUME NEW c \in Keys, Echo(c) PROVE ConsoleInv'
    BY <2>2, EchoStep
  <2>3. CASE Erase
    BY <2>3, EraseStep
  <2>4. CASE Enter
    BY <2>4, EnterStep
  <2>5. CASE UNCHANGED convars
    BY <2>5 DEF convars, ConsoleInv, CursorsAgree, TypeOKConsole, BufferHoldsScreen, WritesStayInside
  <2>6. QED
    BY <2>1, <2>2, <2>3, <2>4, <2>5 DEF NextConsole
<1>2. QED
  BY <1>1, ConsoleInitial, PTL DEF SpecConsole

\* Row and column, and the pixel position, stay the same place.
THEOREM CursorsAlwaysAgree == ASSUME ShortStrings PROVE SpecConsole => []CursorsAgree
<1>1. ConsoleInv => CursorsAgree
  BY DEF ConsoleInv
<1>2. QED
  BY <1>1, ConsoleInvariance, PTL

\* The buffer can redraw the screen after any scroll.
THEOREM BufferAlwaysHoldsScreen == ASSUME ShortStrings PROVE SpecConsole => []BufferHoldsScreen
<1>1. ConsoleInv => BufferHoldsScreen
  BY DEF ConsoleInv
<1>2. QED
  BY <1>1, ConsoleInvariance, PTL

\* Nothing is stored or drawn outside the console's buffers.
THEOREM WritesAlwaysInside == ASSUME ShortStrings PROVE SpecConsole => []WritesStayInside
<1>1. ConsoleInv => WritesStayInside
  BY DEF ConsoleInv
<1>2. QED
  BY <1>1, ConsoleInvariance, PTL

-----------------------------------------------------------------------------
(***************************************************************************)
(* What is on the screen is a terminal's.                                  *)
(***************************************************************************)
\* Grids with the same cells.
LEMMA GridsEqual ==
    ASSUME NEW g \in Grid, NEW h \in Grid,
           \A r \in 1..NumRows, c \in 1..NumCols : g[r][c] = h[r][c]
    PROVE  g = h
<1> DEFINE R == 1..NumRows
           C == 1..NumCols
           Line == [C -> Cell]
<1>1. g \in [R -> Line] /\ h \in [R -> Line] /\ \A r \in R : \A c \in C : g[r][c] = h[r][c]
  BY DEF Grid
<1> HIDE DEF R, C
<1>2. ASSUME NEW r \in R PROVE g[r] = h[r]
  <2> DEFINE a == g[r]
             b == h[r]
  <2>1. a \in [C -> Cell] /\ b \in [C -> Cell] /\ \A c \in C : a[c] = b[c]
    BY <1>1
  <2> HIDE DEF a, b
  <2>2. a = b
    BY <2>1, FunctionsEqual
  <2>3. QED
    BY <2>2 DEF a, b
<1> HIDE DEF Line
<1>3. QED
  BY <1>1, <1>2, FunctionsEqual

\* The screen after one character of text ...
LEMMA CharIsAdded ==
    ASSUME NEW v, InOrder(v), v.con.current_col <= NumCols, NEW w, InOrder(w), NEW t, Added(v, w, t, 1)
    PROVE  w.screen = [v.screen EXCEPT ![v.con.current_row][v.con.current_col] = CellOf(v, t[1])]
<1> DEFINE row == v.con.current_row
           col == v.con.current_col
           x == CellOf(v, t[1])
           g == [v.screen EXCEPT ![row][col] = x]
<1>1. v.screen \in Grid /\ w.screen \in Grid /\ v.con \in Consoles
  BY DEF InOrder, BufferFits
<1>2. row \in 1..NumRows /\ col \in 1..NumCols
  <2>1. row \in 1..NumRows /\ col \in 1..NumCols + 1
    BY <1>1 DEF Consoles
  <2>2. QED
    BY <2>1, Sizes
<1>3. \A r \in 1..NumRows, c \in 1..NumCols :
         w.screen[r][c] = IF r = row /\ c \in col .. col + 1 - 1
                          THEN CellOf(v, t[c - col + 1]) ELSE v.screen[r][c]
  BY DEF Added
<1> HIDE DEF row, col
<1>4. \A c \in 1..NumCols : (c \in col .. col + 1 - 1 <=> c = col) /\ (c = col => c - col + 1 = 1)
  BY <1>2, Sizes
<1>5. \A r \in 1..NumRows, c \in 1..NumCols :
         w.screen[r][c] = IF r = row /\ c = col THEN x ELSE v.screen[r][c]
  BY <1>3, <1>4
<1>6. w.screen[row][col] = x /\ w.screen[row][col] \in Cell
  <2>1. w.screen[row][col] = x
    BY <1>2, <1>5
  <2>2. w.screen[row][col] \in Cell
    BY <1>1, <1>2 DEF Grid
  <2>3. QED
    BY <2>1, <2>2
<1> HIDE DEF x
<1>7. x \in Cell
  BY <1>6
<1>8. g \in Grid /\ \A r \in 1..NumRows, c \in 1..NumCols :
         g[r][c] = IF r = row /\ c = col THEN x ELSE v.screen[r][c]
  BY <1>1, <1>2, <1>7 DEF Grid
<1> HIDE DEF g
<1>9. w.screen = g
  BY <1>1, <1>5, <1>8, GridsEqual
<1>10. QED
  BY <1>9 DEF g, row, col, x

\* ... and after the spaces of a tab.
LEMMA SpacesAreAdded ==
    ASSUME NEW v, InOrder(v), NEW n \in Nat, v.con.current_col + n <= NumCols,
           NEW w, InOrder(w), Added(v, w, Spaces(n), n)
    PROVE  w.screen = [v.screen EXCEPT ![v.con.current_row] = [c \in 1..NumCols |->
                          IF c \in v.con.current_col .. (v.con.current_col + n - 1)
                          THEN CellOf(v, SPACE) ELSE @[c]]]
<1> DEFINE row == v.con.current_row
           col == v.con.current_col
           x == CellOf(v, SPACE)
           line == [c \in 1..NumCols |-> IF c \in col .. (col + n - 1) THEN x ELSE v.screen[row][c]]
           g == [v.screen EXCEPT ![row] = line]
<1>1. v.screen \in Grid /\ w.screen \in Grid /\ v.con \in Consoles
  BY DEF InOrder, BufferFits
<1>2. row \in 1..NumRows /\ col \in 1..NumCols + 1 /\ col \in Nat
  <2>1. row \in 1..NumRows /\ col \in 1..NumCols + 1
    BY <1>1 DEF Consoles
  <2>2. QED
    BY <2>1, Sizes
<1>3. \A r \in 1..NumRows, c \in 1..NumCols :
         w.screen[r][c] = IF r = row /\ c \in col .. col + n - 1
                          THEN CellOf(v, Spaces(n)[c - col + 1]) ELSE v.screen[r][c]
  BY DEF Added
<1>4. g = [v.screen EXCEPT ![row] = [c \in 1..NumCols |->
                          IF c \in col .. (col + n - 1) THEN x ELSE @[c]]]
  BY <1>1, <1>2 DEF Grid
<1>5. x \in Cell
  <2>1. SPACE \in Chars
    BY BasicCells DEF Plain
  <2>2. QED
    BY <1>1, <2>1, CellIsOne
<1> HIDE DEF row, col
<1>6. \A c \in col .. col + n - 1 : Spaces(n)[c - col + 1] = SPACE
  <2>1. \A c \in col .. col + n - 1 : c - col + 1 \in 1..n
    BY <1>2
  <2>2. \A i \in 1..n : Spaces(n)[i] = SPACE
    BY DEF Spaces
  <2>3. QED
    BY <2>1, <2>2
<1>7. \A r \in 1..NumRows, c \in 1..NumCols :
         w.screen[r][c] = IF r = row /\ c \in col .. col + n - 1 THEN x ELSE v.screen[r][c]
  BY <1>3, <1>6
<1> HIDE DEF x
<1>8. line \in [1..NumCols -> Cell]
  BY <1>1, <1>2, <1>5 DEF Grid
<1>9. \A c \in 1..NumCols : line[c] = IF c \in col .. col + n - 1 THEN x ELSE v.screen[row][c]
  OBVIOUS
<1> HIDE DEF line
<1>10. g \in Grid /\ \A r \in 1..NumRows : g[r] = IF r = row THEN line ELSE v.screen[r]
  BY <1>1, <1>2, <1>8 DEF Grid
<1> HIDE DEF g
<1>11. \A r \in 1..NumRows, c \in 1..NumCols : w.screen[r][c] = g[r][c]
  BY <1>7, <1>9, <1>10
<1>12. w.screen = g
  BY <1>1, <1>10, <1>11, GridsEqual
<1>13. QED
  BY <1>4, <1>12 DEF row, col, x

\* The terminal scrolls as the console does.
LEMMA ScrolledIsUpwards ==
    ASSUME NEW g
    PROVE  Upwards(g, BlankRow) = AsTerminal!Scrolled(g)
<1>1. \A r \in 1..NumRows : r < NumRows <=> ~ (r = NumRows)
  BY Sizes
<1>2. BlankRow = AsTerminal!EmptyRow
  BY DEF BlankRow, AsTerminal!EmptyRow
<1>3. QED
  BY <1>1, <1>2 DEF Upwards, AsTerminal!Scrolled

\* The cells of the terminal.
Visibles == [ch : Visible, fg : Colours \ Background, bg : {None} \cup Background]

\* One character of text.
LEMMA TextIsText ==
    ASSUME ConsoleInv, ConsoleInv', NEW v, v = View, NEW w, State(w), InOrder(w),
           con.current_col + 1 <= NumCols + 1, NEW t, t[1] \in Visible, Added(v, w, t, 1)
    PROVE  \E x \in Visibles : AsTerminal!Text(x)
<1> DEFINE x == CellOf(v, t[1])
<1>1. InOrder(v) /\ v.con = con /\ v.screen = screen
  BY ViewInOrder
<1>2. /\ con.px = con.current_col /\ con.py = con.current_row
      /\ con'.px = con'.current_col /\ con'.py = con'.current_row
  BY DEF ConsoleInv, CursorsAgree
<1>3. con.current_col \in Nat /\ con.current_col <= NumCols /\ con.current_col # NumCols + 1
  <2>1. con.current_col \in 1..NumCols + 1
    BY DEF ConsoleInv, CursorsAgree, TypeOKConsole, Consoles
  <2>2. QED
    BY <2>1, Sizes
<1>4. con' = w.con /\ screen' = w.screen
  BY DEF State
<1>5. screen' = [screen EXCEPT ![con.py][con.px] = x]
  BY <1>1, <1>2, <1>3, <1>4, CharIsAdded
<1>6. con'.py = con.py /\ con'.px = con.px + 1
  BY <1>1, <1>2, <1>4 DEF Added
<1>7. x \in Visibles
  <2>1. con.override_fg \in Colours \ Background /\ con.override_bg \in {None} \cup Background
    BY DEF ConsoleInv, CursorsAgree, TypeOKConsole, Consoles
  <2>2. QED
    BY <1>1, <2>1 DEF CellOf, Visibles
<1> HIDE DEF x
<1>8. AsTerminal!Text(x)
  BY <1>2, <1>3, <1>5, <1>6 DEF AsTerminal!Text
<1>9. QED
  BY <1>7, <1>8

\* A tab.
LEMMA TabIsTab ==
    ASSUME ConsoleInv, ConsoleInv', NEW v, v = View, NEW w, State(w), InOrder(w),
           NEW n \in 1..TabSize, con.current_col + n <= NumCols, Added(v, w, Spaces(n), n)
    PROVE  \E x \in Visibles : AsTerminal!Tab(n, x)
<1> DEFINE x == CellOf(v, SPACE)
<1>1. InOrder(v) /\ v.con = con /\ v.screen = screen
  BY ViewInOrder
<1>2. /\ con.px = con.current_col /\ con.py = con.current_row
      /\ con'.px = con'.current_col /\ con'.py = con'.current_row
  BY DEF ConsoleInv, CursorsAgree
<1>3. con' = w.con /\ screen' = w.screen
  BY DEF State
<1>4. n \in Nat
  BY SizeAssumption
<1>5. screen' = [screen EXCEPT ![con.py] = [c \in 1..NumCols |->
                    IF c \in con.px .. (con.px + n - 1) THEN x ELSE @[c]]]
  <2>1. w.screen = [v.screen EXCEPT ![v.con.current_row] = [c \in 1..NumCols |->
                          IF c \in v.con.current_col .. (v.con.current_col + n - 1)
                          THEN CellOf(v, SPACE) ELSE @[c]]]
    BY <1>1, <1>4, SpacesAreAdded
  <2>2. QED
    BY <1>1, <1>2, <1>3, <2>1
<1>6. con'.py = con.py /\ con'.px = con.px + n
  BY <1>1, <1>2, <1>3 DEF Added
<1>7. x \in Visibles
  <2>1. con.override_fg \in Colours \ Background /\ con.override_bg \in {None} \cup Background
    BY DEF ConsoleInv, CursorsAgree, TypeOKConsole, Consoles
  <2>2. QED
    BY <1>1, <2>1 DEF CellOf, Visibles, Visible
<1> HIDE DEF x
<1>8. AsTerminal!Tab(n, x)
  BY <1>2, <1>5, <1>6 DEF AsTerminal!Tab
<1>9. QED
  BY <1>7, <1>8

\* The end of a line.
LEMMA EndIsNewLine ==
    ASSUME ConsoleInv, ConsoleInv', NEW v, v = View, NEW w, State(w), LineEnded(v, w)
    PROVE  AsTerminal!NewLine
<1>1. v.con = con /\ v.screen = screen
  BY ViewInOrder
<1>2. /\ con.py = con.current_row
      /\ con'.px = con'.current_col /\ con'.py = con'.current_row
  BY DEF ConsoleInv, CursorsAgree
<1>3. con' = w.con /\ screen' = w.screen
  BY DEF State
<1>4. /\ w.con.current_col = 1
      /\ w.con.current_row = IF con.current_row = NumRows THEN NumRows ELSE con.current_row + 1
      /\ w.screen = IF con.current_row = NumRows THEN Upwards(screen, BlankRow) ELSE screen
  BY <1>1 DEF LineEnded
<1>5. screen' = AsTerminal!GridBelow
  BY <1>2, <1>3, <1>4, ScrolledIsUpwards DEF AsTerminal!GridBelow
<1>6. con'.py = AsTerminal!RowBelow
  BY <1>2, <1>3, <1>4 DEF AsTerminal!RowBelow
<1>7. con'.px = 1
  BY <1>2, <1>3, <1>4
<1>8. QED
  BY <1>5, <1>6, <1>7 DEF AsTerminal!NewLine

\* A character taken back.
LEMMA EraseIsErase ==
    ASSUME ConsoleInv, ConsoleInv', NEW w, State(w), con.current_col > 1,
           w.con.current_col = con.current_col - 1, w.con.current_row = con.current_row,
           w.screen = [screen EXCEPT ![con.current_row][con.current_col - 1] = Blank]
    PROVE  AsTerminal!Erase
<1>1. /\ con.px = con.current_col /\ con.py = con.current_row
      /\ con'.px = con'.current_col /\ con'.py = con'.current_row
  BY DEF ConsoleInv, CursorsAgree
<1>2. con' = w.con /\ screen' = w.screen
  BY DEF State
<1>3. QED
  BY <1>1, <1>2 DEF AsTerminal!Erase

\* Every call is a step of the terminal or changes nothing it shows.
LEMMA TerminalStep ==
    ASSUME ShortStrings, OneAtATime, ConsoleInv, ConsoleInv', [NextConsole]_convars
    PROVE  [AsTerminal!Next]_(AsTerminal!vars)
<1> DEFINE v == View
<1>1. ASSUME NEW x \in Visibles, AsTerminal!Text(x) PROVE AsTerminal!Next
  BY <1>1, Zenon DEF AsTerminal!Next, Visibles
<1>2. ASSUME NEW n \in 1..TabSize, NEW x \in Visibles, AsTerminal!Tab(n, x) PROVE AsTerminal!Next
  BY <1>2, Zenon DEF AsTerminal!Next, Visibles
<1>3. ASSUME NEW s \in Strings, Output(s) PROVE [AsTerminal!Next]_(AsTerminal!vars)
  <2> DEFINE w == vui_console_put_string(v, s)
  <2>1. State(w)
    BY <1>3, Zenon DEF Output, Put
  <2>2. /\ InOrder(w)
        /\ \/ SameText(w, v)
           \/ IsText(s) /\ con.current_col + Len(s) <= NumCols + 1 /\ Added(v, w, s, Len(s))
           \/ \E n \in 1..TabSize : v.con.current_col + n <= NumCols /\ Added(v, w, Spaces(n), n)
           \/ LineEnded(v, w)
    BY <1>3, OutputStep
  <2>3. v.con = con /\ v.screen = screen
    BY ViewInOrder
  <2>4. InOrder(w)
    BY <2>2
  <2> HIDE DEF v, w
  <2>5. CASE SameText(w, v)
    <3>1. screen' = screen /\ con'.py = con.py /\ con'.px = con.px
      BY <2>1, <2>3, <2>5 DEF SameText, State
    <3>2. QED
      BY <3>1 DEF AsTerminal!vars
  <2>6. CASE IsText(s) /\ con.current_col + Len(s) <= NumCols + 1 /\ Added(v, w, s, Len(s))
    <3>1. Len(s) = 1
      BY <2>6 DEF OneAtATime
    <3>2. s[1] \in Visible
      <4>1. s \in Seq(Plain) /\ s # <<>>
        BY <2>6 DEF IsText
      <4>2. Head(s) = s[1] /\ s[1] \in Plain
        BY <4>1, HeadTailProperties
      <4>3. s[1] \notin {ESC, TAB, NL, BS}
        BY <4>2 DEF Plain
      <4>4. QED
        BY <4>2, <4>3 DEF Visible
    <3>3. \E x \in Visibles : AsTerminal!Text(x)
      BY <2>1, <2>4, <2>6, <3>1, <3>2, TextIsText DEF v
    <3>4. QED
      BY <1>1, <3>3
  <2>7. ASSUME NEW n \in 1..TabSize, v.con.current_col + n <= NumCols, Added(v, w, Spaces(n), n)
        PROVE  [AsTerminal!Next]_(AsTerminal!vars)
    <3>1. \E x \in Visibles : AsTerminal!Tab(n, x)
      BY <2>1, <2>3, <2>4, <2>7, TabIsTab DEF v
    <3>2. QED
      BY <1>2, <3>1
  <2>8. CASE LineEnded(v, w)
    <3>1. AsTerminal!NewLine
      BY <2>1, <2>8, EndIsNewLine DEF v
    <3>2. QED
      BY <3>1 DEF AsTerminal!Next
  <2>9. QED
    BY <2>2, <2>5, <2>6, <2>7, <2>8
<1>4. ASSUME NEW c \in Keys, Echo(c) PROVE AsTerminal!Next
  <2> DEFINE s == <<c>>
             w == vui_console_put_string(v, s)
  <2>1. State(w)
    BY <1>4, Zenon DEF Echo, Put
  <2>2. InOrder(w) /\ con.current_col + 1 <= NumCols + 1 /\ Added(v, w, s, 1)
    BY <1>4, EchoStep
  <2>4. s[1] \in Visible
    BY DEF Visible
  <2> HIDE DEF v, w, s
  <2>5. \E x \in Visibles : AsTerminal!Text(x)
    BY <2>1, <2>2, <2>4, TextIsText DEF v
  <2>6. QED
    BY <1>1, <2>5
<1>5. CASE Erase
  <2> DEFINE w == vui_console_do_backspace(v)
  <2>1. /\ State(w) /\ con.current_col > 1
        /\ w.con.current_col = con.current_col - 1
        /\ w.con.current_row = con.current_row
        /\ w.screen = [screen EXCEPT ![con.current_row][con.current_col - 1] = Blank]
    BY <1>5, EraseStep
  <2> HIDE DEF w
  <2>2. AsTerminal!Erase
    BY <2>1, EraseIsErase
  <2>3. QED
    BY <2>2 DEF AsTerminal!Next
<1>6. CASE Enter
  <2> DEFINE w == vui_console_do_new_line(v)
  <2>1. State(w) /\ LineEnded(v, w)
    BY <1>6, EnterStep
  <2> HIDE DEF v, w
  <2>2. AsTerminal!NewLine
    BY <2>1, EndIsNewLine DEF v
  <2>3. QED
    BY <2>2 DEF AsTerminal!Next
<1>7. CASE UNCHANGED convars
  BY <1>7 DEF convars, AsTerminal!vars
<1>8. QED
  BY <1>3, <1>4, <1>5, <1>6, <1>7 DEF NextConsole

\* The console implements the terminal: every vui_console_put_string puts text, a
\* tab or a new line where the cursor is, takes one character back, or shows nothing.
THEOREM ConsoleIsATerminal == ASSUME ShortStrings, OneAtATime PROVE SpecConsole => ImplementsTerminal
<1>1. InitConsole => AsTerminal!Init
  <2> SUFFICES ASSUME InitConsole PROVE AsTerminal!Init
    OBVIOUS
  <2>1. screen = [r \in 1..NumRows |-> AsTerminal!EmptyRow]
    BY DEF InitConsole, AsTerminal!EmptyRow
  <2>2. con.py = 1 /\ con.px = 1
    BY DEF InitConsole, vui_console_create
  <2>3. QED
    BY <2>1, <2>2 DEF AsTerminal!Init
<1>2. ConsoleInv /\ ConsoleInv' /\ [NextConsole]_convars => [AsTerminal!Next]_(AsTerminal!vars)
  BY TerminalStep
<1>3. QED
  BY <1>1, <1>2, ConsoleInvariance, PTL DEF SpecConsole, ImplementsTerminal, AsTerminal!Spec
=============================================================================
