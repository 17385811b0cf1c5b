--------------------------------- MODULE E1000 ---------------------------------
(***************************************************************************)
(* The network card's descriptor rings (devices/arch/x86_64/e1000.c).  The *)
(* card fills receive descriptors from its head on and must not pass the   *)
(* tail; the interrupt handler empties them from rx_index on and moves the *)
(* tail.  The card runs on while the handler does, so each access of the   *)
(* handler to a register or a descriptor is a step.  An interrupt of the   *)
(* card is not nested in itself: the PIC is told of the end afterwards.    *)
(*                                                                         *)
(* The card itself is external.                                            *)
(***************************************************************************)
EXTENDS Integers, Sequences, SequencesExt

CONSTANTS
    E1000_QUEUE_LENGTH,     \* descriptors of a ring
    MaxPackets,             \* bound on the packets received
    MaxSends                \* bound on the packets sent

ASSUME QueueAssumption == E1000_QUEUE_LENGTH \in Nat /\ E1000_QUEUE_LENGTH > 1
ASSUME PacketsAssumption == MaxPackets \in Nat /\ MaxSends \in Nat

Index == 0 .. E1000_QUEUE_LENGTH - 1

\* Bits of the interrupt cause register: a packet was received, one was sent
\* (the two bits of 0x03), and everything else (link change, few descriptors
\* left, overrun).
RXT0 == "received"
TX == "sent"
MISC == "other"

VARIABLES
    rxd,        \* rxd[i]: the packet in receive descriptor i with its status bit, 0 if none
    head,       \* REG_RXDESCHEAD
    tail,       \* REG_RXDESCTAIL
    icr,        \* the causes set in REG_ICR
    rx_index,   \* the descriptor the handler looks at next
    handler,    \* where the handler is, "idle" when it does not run
    h,          \* its local variable head
    tx_index,   \* the transmit descriptor used next
    accepted,   \* the packets the card has stored, in order (a history variable)
    delivered,  \* the packets handed to ethernet_process_packet, in order
    skipped     \* a packet was reported together with another cause (a history variable)

cardvars == <<rxd, head, tail, icr, rx_index, handler, h, tx_index, accepted, delivered,
          skipped>>

NextIndex(i) == IF i + 1 = E1000_QUEUE_LENGTH THEN 0 ELSE i + 1

\* e1000_rx_init and e1000_tx_init.
InitCard ==
    /\ rxd = [i \in Index |-> 0]
    /\ head = 0 /\ tail = E1000_QUEUE_LENGTH - 1
    /\ icr = {}
    /\ rx_index = 0 /\ tx_index = 0
    /\ handler = "idle" /\ h = 0
    /\ accepted = <<>> /\ delivered = <<>>
    /\ skipped = FALSE

-----------------------------------------------------------------------------
(***************************************************************************)
(* The card.                                                               *)
(***************************************************************************)

\* A packet arrives and there is a descriptor for it; without one it is dropped.
Receive ==
    /\ Len(accepted) < MaxPackets /\ head # tail
    /\ LET n == Len(accepted) + 1
       IN  rxd' = [rxd EXCEPT ![head] = n] /\ accepted' = Append(accepted, n)
    /\ head' = (head + 1) % E1000_QUEUE_LENGTH
    /\ icr' = icr \cup {RXT0}
    /\ UNCHANGED <<tail, rx_index, handler, h, tx_index, delivered, skipped>>

OtherCause ==
    /\ icr' = icr \cup {MISC}
    /\ UNCHANGED <<rxd, head, tail, rx_index, handler, h, tx_index, accepted, delivered, skipped>>

-----------------------------------------------------------------------------
(***************************************************************************)
(* The driver.                                                             *)
(***************************************************************************)

\* e1000_send, with interrupts disabled, and the card's answer.  A process calls
\* it, or ethernet_process_packet to answer a packet.  tx_index is never set back:
\* with MaxSends > E1000_QUEUE_LENGTH a packet is copied behind the last descriptor.
e1000_send ==
    /\ handler \in {"idle", "process"} /\ tx_index < MaxSends
    /\ tx_index' = tx_index + 1
    /\ icr' = icr \cup {TX}
    /\ UNCHANGED <<rxd, head, tail, rx_index, handler, h, accepted, delivered, skipped>>

\* Wrong on purpose (see "mutants" in PROJECT.json): the bits of 0x03 stay in.
PendingPacket_KeepsTx(causes) == causes = {RXT0}

\* "we've got a pending packet": nothing but the packet, and packets sent.
PendingPacket(causes) == causes \ {TX} = {RXT0}

\* e1000_interrupt_handler is entered; reading the causes clears them.
ReadICR ==
    /\ handler = "idle" /\ icr # {}
    /\ icr' = {}
    /\ handler' = IF PendingPacket(icr) THEN "head" ELSE "idle"
    /\ skipped' = (skipped \/ {RXT0, MISC} \subseteq icr)
    /\ UNCHANGED <<rxd, head, tail, rx_index, h, tx_index, accepted, delivered>>

\* "head should not equal the index".
ReadHead ==
    /\ handler = "head"
    /\ h' = head
    /\ handler' = IF head # rx_index THEN "loop" ELSE "idle"
    /\ UNCHANGED <<rxd, head, tail, icr, rx_index, tx_index, accepted, delivered, skipped>>

\* The condition of the loop: the descriptor at rx_index holds a packet.
TestStatus ==
    /\ handler = "loop"
    /\ handler' = IF rxd[rx_index] # 0 THEN "process" ELSE "idle"
    /\ UNCHANGED <<rxd, head, tail, icr, rx_index, h, tx_index, accepted, delivered, skipped>>

\* The packet goes up the network stack and the descriptor's status is reset.
Process ==
    /\ handler = "process"
    /\ delivered' = Append(delivered, rxd[rx_index])
    /\ rxd' = [rxd EXCEPT ![rx_index] = 0]
    /\ rx_index' = NextIndex(rx_index)
    /\ handler' = IF NextIndex(rx_index) = h THEN "recheck" ELSE "tail"
    /\ UNCHANGED <<head, tail, icr, h, tx_index, accepted, skipped>>

\* All up to the head are done: if the card has not moved on, so is the handler,
\* and the tail stays where it is.
RereadHead ==
    /\ handler = "recheck"
    /\ h' = head
    /\ handler' = IF head = rx_index THEN "idle" ELSE "tail"
    /\ UNCHANGED <<rxd, head, tail, icr, rx_index, tx_index, accepted, delivered, skipped>>

\* Wrong on purpose (see "mutants" in PROJECT.json): one descriptor too many.
NewTail_TooFar == NextIndex(rx_index)

\* "Update tail to the new rx index".
NewTail == rx_index

WriteTail ==
    /\ handler = "tail"
    /\ tail' = NewTail
    /\ handler' = "loop"
    /\ UNCHANGED <<rxd, head, icr, rx_index, h, tx_index, accepted, delivered, skipped>>

NextCard ==
    \/ Receive \/ OtherCause
    \/ e1000_send
    \/ ReadICR \/ ReadHead \/ TestStatus \/ Process \/ RereadHead \/ WriteTail

SpecCard == InitCard /\ [][NextCard]_cardvars

-----------------------------------------------------------------------------
TypeOKCard ==
    /\ rxd \in [Index -> 0 .. MaxPackets]
    /\ head \in Index /\ tail \in Index /\ h \in Index /\ rx_index \in Index
    /\ tx_index \in Index \cup {E1000_QUEUE_LENGTH}
    /\ icr \subseteq {RXT0, TX, MISC} /\ skipped \in BOOLEAN
    /\ handler \in {"idle", "head", "loop", "process", "recheck", "tail"}

\* The packets the card has stored reach ethernet_process_packet in their order,
\* none twice and none overwritten: what has not been delivered is in the ring,
\* from rx_index up to the head.  The card may use every descriptor, so that a
\* full ring and an empty one have the same head and index; the handler must not
\* take the one for the other, which NothingLeftBehind is about.
EachPacketOnceInOrder ==
    LET pending == Len(accepted) - Len(delivered)
    IN  /\ TypeOKCard
        /\ IsPrefix(delivered, accepted)
        /\ pending <= E1000_QUEUE_LENGTH
        /\ head = (rx_index + pending) % E1000_QUEUE_LENGTH
        /\ \A i \in 0 .. pending - 1 :
              rxd[(rx_index + i) % E1000_QUEUE_LENGTH] = accepted[Len(delivered) + i + 1]

\* "process pending packets": when the handler has returned and no cause is left
\* in the register, no packet waits in the ring.  A packet reported together with
\* anything but packets sent is not looked for, so that this holds only until then.
NothingLeftBehind ==
    handler = "idle" /\ icr = {} /\ ~skipped => Len(delivered) = Len(accepted)

-----------------------------------------------------------------------------
(***************************************************************************)
(* The inductive invariant: the registers count the packets, modulo the    *)
(* length of the ring.  The tail counts the descriptors the card has been  *)
(* given; the handler leaves it one short of a full turn, except between   *)
(* its writing and the next packet.  While it loops, a packet is left.     *)
(***************************************************************************)
Stored == Len(accepted)
Done == Len(delivered)

\* The descriptor of the packet before which so many others came.
Place(count) == count % E1000_QUEUE_LENGTH

CountsAgree ==
    /\ {accepted, delivered} \subseteq Seq(1 .. MaxPackets) /\ Stored <= MaxPackets
    /\ \A i \in 1 .. Stored : accepted[i] = i
    /\ \A i \in 1 .. Done : delivered[i] = i
    /\ Done <= Stored /\ Stored <= Done + E1000_QUEUE_LENGTH

RingHoldsPackets ==
    /\ head = Place(Stored)
    /\ rx_index = Place(Done)
    /\ \A i \in Done .. Done + E1000_QUEUE_LENGTH - 1 :
          rxd[Place(i)] = IF i < Stored THEN i + 1 ELSE 0

TailGivesRoom ==
    \E t \in Stored .. Done + E1000_QUEUE_LENGTH :
        /\ tail = Place(t)
        /\ handler \notin {"loop", "process"} => t < Done + E1000_QUEUE_LENGTH

LoopHasPacket ==
    handler \in {"loop", "process", "tail"} =>
        \E q \in Done + 1 .. Stored :
            q < Done + E1000_QUEUE_LENGTH /\ h = Place(q)

PacketIsReported == handler = "idle" /\ ~skipped /\ Done < Stored => RXT0 \in icr

RingInv ==
    /\ TypeOKCard
    /\ CountsAgree /\ RingHoldsPackets /\ TailGivesRoom
    /\ LoopHasPacket /\ PacketIsReported
=============================================================================
