----------------------------------- MODULE Tcp -----------------------------------
(***************************************************************************)
(* The TCP client (net/tcp.c): tcp_test opens the kernel's only            *)
(* connection, waits, and sends one message.  Every TCP packet that comes  *)
(* in sets the connection's two numbers, in the interrupt, also while a    *)
(* segment is put together.                                                *)
(***************************************************************************)
EXTENDS Ipv4

CONSTANTS
    SeqModulus,     \* 2^32 in the code: sequence numbers wrap around
    FirstSeq        \* 159753100, the client's first number

VARIABLES
    test_connection,    \* seq, ack, connection_state and connected
    segment,            \* the header a send function fills in, with its checksum
    tcp_pc              \* where tcp_test is, "none" while it has not been called

tcp_vars == <<test_connection, segment>>

ASSUME SeqAssumption == SeqModulus \in Nat \ {0} /\ FirstSeq \in 0 .. SeqModulus - 1

NextSeq(n) == (n + 1) % SeqModulus

\* The client's number once its SYN is acknowledged; a message counts one.
FirstData == NextSeq(FirstSeq)

\* A segment as it goes out.  sum is the address the checksum was made with.
Segment(flags, seq, ack, sum) == [flags |-> flags, seq |-> seq, ack |-> ack, sum |-> sum]

At(from, to) == tcp_pc = from /\ tcp_pc' = to

-----------------------------------------------------------------------------
(***************************************************************************)
(* tcp_connection_connect.                                                 *)
(***************************************************************************)
\* The header is filled in from the connection and its checksum made from the
\* address; ipv4_send reads the address again.
PrepareSyn ==
    /\ At("none", "syn")
    /\ test_connection' = [seq |-> FirstSeq, ack |-> 0, state |-> "none", connected |-> FALSE]
    /\ segment' = Segment("SYN", FirstSeq, 0, networking_info)
    /\ UNCHANGED <<networking_info, out>>

Send(from, to) ==
    /\ At(from, to)
    /\ ipv4_send("peer", "tcp", segment)
    /\ UNCHANGED <<networking_info, segment>>

SendSyn == Send("syn", "connecting") /\ UNCHANGED test_connection

\* "Do this much better..."  Nothing is sent again and nothing ends the wait.
SynAckHasCome ==
    /\ At("connecting", "increment")
    /\ test_connection.state = "SYN_ACK_RECV"
    /\ UNCHANGED <<networking_info, out, tcp_vars>>

\* Wrong on purpose (see "mutants" in PROJECT.json): the number is counted up in
\* the connection after the header was made.
IncrementAck_Late ==
    /\ At("increment", "ack_header")
    /\ UNCHANGED <<networking_info, out, tcp_vars>>

\* tcp_connection_send_ack counts the peer's SYN, then fills in the header; the
\* next segment may come in between.
IncrementAck ==
    /\ At("increment", "ack_header")
    /\ test_connection' = [test_connection EXCEPT !.ack = NextSeq(@)]
    /\ UNCHANGED <<networking_info, out, segment>>

PrepareAck ==
    /\ At("ack_header", "ack")
    /\ segment' = Segment("ACK", test_connection.seq, test_connection.ack, networking_info)
    /\ UNCHANGED <<networking_info, out, test_connection>>

SendAck ==
    /\ Send("ack", "connected")
    /\ test_connection' = [test_connection EXCEPT !.connected = TRUE]

-----------------------------------------------------------------------------
\* tcp_connection_send_data.  seq is not counted up: the peer's next segment does it.
PrepareData ==
    /\ At("connected", "data")
    /\ segment' = Segment("PSH|ACK", test_connection.seq, test_connection.ack, networking_info)
    /\ UNCHANGED <<networking_info, out, test_connection>>

\* tcp_test then shuts the machine down, after a second.
SendData == Send("data", "sent") /\ UNCHANGED test_connection

-----------------------------------------------------------------------------
\* Wrong on purpose (see "mutants" in PROJECT.json): the client's own number is
\* left to the functions that send.
tcp_connection_handle_recv_KeepsSeq(header) ==
    test_connection' = [test_connection EXCEPT
        !.ack = header.seq,
        !.state = IF header.flags = "SYN|ACK" THEN "SYN_ACK_RECV" ELSE @]

\* tcp_connection_handle_recv.  The ports are not looked at, nor the numbers, and
\* data that comes with the segment is only printed.
tcp_connection_handle_recv(header) ==
    test_connection' = [test_connection EXCEPT
        !.ack = header.seq,
        !.seq = header.ack,
        !.state = IF header.flags = "SYN|ACK" THEN "SYN_ACK_RECV" ELSE @]
=============================================================================
