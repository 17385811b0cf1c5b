----------------------------- MODULE NetworkProofs -----------------------------
(***************************************************************************)
(* Proofs about the network: about Network, for any servers, any sequence  *)
(* numbers and any number of repeated frames; and about E1000, for a ring  *)
(* of any length and any number of packets received, as long as no more    *)
(* packets are sent than the transmit ring has descriptors.                *)
(***************************************************************************)
EXTENDS Network, E1000, LibraryLemmas, TLAPS

Address == Servers \cup {NoAddress, Neighbour}
Number == 0 .. SeqModulus - 1

\* The numbers a segment may carry.
LEMMA Numbers ==
    /\ 0 \in Number /\ FirstSeq \in Number /\ PeerFirstSeq \in Number
    /\ \A n \in Number : NextSeq(n) \in Number
    /\ FirstData \in Number
<1>1. 0 \in Number /\ FirstSeq \in Number /\ PeerFirstSeq \in Number
  BY SeqAssumption, PeerAssumption DEF Number
<1>2. ASSUME NEW n \in Number PROVE NextSeq(n) \in Number
  <2>1. n + 1 \in Nat /\ SeqModulus \in Nat \ {0}
    BY SeqAssumption DEF Number
  <2>2. QED
    BY <2>1, Division DEF NextSeq, Number
<1>3. QED
  BY <1>1, <1>2 DEF FirstData

\* What no step undoes: code that has passed a point, and the history variables.
Forward ==
    /\ pc = "idle" => pc' = "idle" /\ request_payload' = request_payload
    /\ tcp_pc \notin {"none", "syn"} => tcp_pc' \notin {"none", "syn"}
    /\ tcp_pc \in TalkedTo => tcp_pc' \in TalkedTo
    /\ foreign => foreign'
    /\ second => second'
    /\ moved => moved'
    /\ undone => undone'

\* Frames that are on their way stay as the invariant says.
LEMMA FramesStayFit ==
    ASSUME FramesFit, Forward
    PROVE  /\ \A frame \in in : AnswerFits(frame)'
           /\ \A frame \in out : FrameFits(frame)'
<1>1. ASSUME NEW frame \in in PROVE AnswerFits(frame)'
  <2>1. AnswerFits(frame)
    BY DEF FramesFit
  <2>2. CASE frame.protocol = "udp" /\ DhcpAnswerFits(frame.body)
    BY <2>2 DEF AnswerFits, DhcpAnswerFits, Forward
  <2>3. CASE frame.protocol = "tcp" /\ SegmentInFits(frame.body)
    BY <2>3 DEF AnswerFits, SegmentInFits, Forward
  <2>4. QED
    BY <2>1, <2>2, <2>3 DEF AnswerFits
<1>2. ASSUME NEW frame \in out PROVE FrameFits(frame)'
  <2>1. FrameFits(frame)
    BY DEF FramesFit
  <2>2. CASE frame.protocol = "udp" /\ RequestFits(frame.body)
    BY <2>1, <2>2 DEF FrameFits, RequestFits, Forward
  <2>3. CASE frame.protocol = "tcp" /\ SegmentOutFits(frame.body, frame.source)
    BY <2>1, <2>3 DEF FrameFits, SegmentOutFits, NumbersFit, Forward
  <2>4. QED
    BY <2>1, <2>2, <2>3 DEF FrameFits
<1>3. QED
  BY <1>1, <1>2

\* A step that adds no frame.
LEMMA NoNewFrame ==
    ASSUME FramesFit, Forward, in' \subseteq in, out' \subseteq out
    PROVE  FramesFit'
  BY FramesStayFit DEF FramesFit

\* A step that adds one.
LEMMA OneNewFrame ==
    ASSUME FramesFit, Forward, NEW frame,
           \/ in' \subseteq in /\ out' \subseteq out \cup {frame} /\ FrameFits(frame)'
           \/ out' \subseteq out /\ in' \subseteq in \cup {frame} /\ AnswerFits(frame)'
    PROVE  FramesFit'
  BY FramesStayFit DEF FramesFit

-----------------------------------------------------------------------------
\* The initial state.
LEMMA InitNet == ASSUME Init PROVE NetInv
<1>1. TypeOK /\ EnvironmentTypeOK
  BY Numbers DEF Init, TypeOK, EnvironmentTypeOK, NoPacket, Segment, Number
<1>2. FramesFit
  BY DEF Init, FramesFit
<1>3. QED
  BY <1>1, <1>2 DEF Init, NetInv, OfferIsKept, AddressIsRequested, PeerIsAnswered, ConnectionFits,
                    HeaderFits, TalkedTo

-----------------------------------------------------------------------------
(***************************************************************************)
(* The boot code.                                                          *)
(***************************************************************************)
\* Steps of the boot code leave everything of TCP and of the servers alone.
LEMMA BootKeepsTcp ==
    ASSUME NetInv, enable_networking
    PROVE  /\ Forward
           /\ TypeOK' /\ EnvironmentTypeOK'
           /\ AddressIsRequested' /\ PeerIsAnswered' /\ ConnectionFits' /\ HeaderFits'
<1> USE DEF enable_networking, environment, tcp_vars, dhcp_vars, Goto,
            dhcp_start, SendDiscover, OfferHasCome, ReadSiaddr, ReadYiaddr, SendRequest
<1>1. Forward
  BY DEF Forward, TalkedTo
<1>2. /\ networking_info' = networking_info /\ pc # "idle"
      /\ UNCHANGED <<in, test_connection, segment, tcp_pc, server, peer, repeats, lost, foreign,
                     second, moved, undone>>
  BY DEF udp_send
<1>3. request_payload' \in [siaddr : Address, yiaddr : Address]
  BY DEF NetInv, TypeOK, Address
<1>4. TypeOK'
  BY <1>2, <1>3 DEF NetInv, TypeOK, Address, Number
<1>5. EnvironmentTypeOK' /\ PeerIsAnswered'
  BY <1>2 DEF NetInv, EnvironmentTypeOK, PeerIsAnswered
<1>6. AddressIsRequested'
  BY <1>2 DEF NetInv, AddressIsRequested
<1>7. ConnectionFits' /\ HeaderFits'
  BY <1>2 DEF NetInv, ConnectionFits, HeaderFits, NumbersFit
<1>8. QED
  BY <1>1, <1>4, <1>5, <1>6, <1>7

\* What is read of the offer is what the flag says is there.
LEMMA BootKeepsOffer == ASSUME NetInv, enable_networking PROVE OfferIsKept'
  BY DEF NetInv, TypeOK, OfferIsKept, enable_networking, environment, tcp_vars, dhcp_vars, Goto,
         dhcp_start, SendDiscover, OfferHasCome, ReadSiaddr, ReadYiaddr, SendRequest

\* What enable_networking sends fits its exchange with the server.
LEMMA BootKeepsFrames == ASSUME NetInv, enable_networking PROVE FramesFit'
<1>0. /\ Forward /\ FramesFit /\ in' \subseteq in
      /\ networking_info \in Address
  BY BootKeepsTcp DEF enable_networking, NetInv, TypeOK, Address
<1>1. CASE UNCHANGED out
  BY <1>0, <1>1, NoNewFrame
<1>2. CASE SendDiscover
  <2> DEFINE body == [type |-> "discover"]
  <2>0. PICK frame : frame = [mac |-> dest_mac("0xFFFFFFFF"), source |-> networking_info,
                              protocol |-> "udp", body |-> body]
    OBVIOUS
  <2>1. out' = out \cup {frame}
    BY <1>2, <2>0 DEF SendDiscover, udp_send, ipv4_send
  <2>2. FrameFits(frame)'
    BY <1>0, <2>0 DEF FrameFits, RequestFits, Address
  <2>3. QED
    BY <1>0, <2>1, <2>2, OneNewFrame
<1>3. CASE SendRequest
  <2> DEFINE body == [type |-> "request", siaddr |-> request_payload.siaddr,
                      yiaddr |-> request_payload.yiaddr]
  <2>0. PICK frame : frame = [mac |-> dest_mac("0xFFFFFFFF"), source |-> networking_info,
                              protocol |-> "udp", body |-> body]
    OBVIOUS
  <2>1. out' = out \cup {frame} /\ pc' = "idle" /\ request_payload' = request_payload
    BY <1>3, <2>0 DEF SendRequest, udp_send, ipv4_send, Goto, dhcp_vars
  <2>2. FrameFits(frame)'
    BY <1>0, <1>3, <2>0, <2>1 DEF FrameFits, RequestFits, Address, SendRequest
  <2>3. QED
    BY <1>0, <2>1, <2>2, OneNewFrame
<1>4. QED
  BY <1>1, <1>2, <1>3 DEF enable_networking, dhcp_start, OfferHasCome, ReadSiaddr, ReadYiaddr

-----------------------------------------------------------------------------
(***************************************************************************)
(* The code of tcp_test.                                                   *)
(***************************************************************************)
TcpStep == Call_tcp_test \/ tcp_test

\* tcp_test leaves what DHCP knows alone.
LEMMA TcpKeepsDhcp ==
    ASSUME NetInv, TcpStep
    PROVE  /\ Forward
           /\ EnvironmentTypeOK' /\ OfferIsKept' /\ AddressIsRequested' /\ PeerIsAnswered'
<1>1. /\ UNCHANGED <<networking_info, in, send_dhcp_request, dhcp_request_packet,
                     request_payload, pc, server, peer, repeats, lost, foreign, second, moved, undone>>
      /\ tcp_pc \notin {"none", "syn"} => tcp_pc' \notin {"none", "syn"}
      /\ tcp_pc \in TalkedTo => tcp_pc' \in TalkedTo
  BY DEF TcpStep, Call_tcp_test, tcp_test, environment, dhcp_vars, tcp_vars, At, Send, TalkedTo,
         PrepareSyn, SendSyn, SynAckHasCome, IncrementAck, PrepareAck, SendAck, PrepareData, SendData
<1>2. Forward /\ PeerIsAnswered'
  BY <1>1 DEF Forward, NetInv, PeerIsAnswered
<1>3. EnvironmentTypeOK'
  BY <1>1 DEF NetInv, EnvironmentTypeOK
<1>4. OfferIsKept' /\ AddressIsRequested'
  BY <1>1 DEF NetInv, OfferIsKept, AddressIsRequested
<1>5. QED
  BY <1>2, <1>3, <1>4

\* The variables of tcp_test keep their types.
LEMMA TcpKeepsTypes == ASSUME NetInv, TcpStep PROVE TypeOK'
<1> USE DEF TcpStep, Call_tcp_test, tcp_test, environment, dhcp_vars, tcp_vars, At, Send,
         PrepareSyn, SendSyn, SynAckHasCome, IncrementAck, PrepareAck, SendAck, PrepareData, SendData
<1>1. UNCHANGED <<networking_info, send_dhcp_request, dhcp_request_packet, request_payload, pc, server>>
  OBVIOUS
<1>2. test_connection' \in [seq : Number, ack : Number, connected : BOOLEAN,
                            state : {"none", "SYN_ACK_RECV"}]
  <2>1. /\ test_connection \in [seq : Number, ack : Number, connected : BOOLEAN,
                                state : {"none", "SYN_ACK_RECV"}]
        /\ NextSeq(test_connection.ack) \in Number
    BY Numbers DEF NetInv, TypeOK, Number
  <2>2. \/ UNCHANGED test_connection
        \/ test_connection' = [seq |-> FirstSeq, ack |-> 0, state |-> "none", connected |-> FALSE]
        \/ test_connection' = [test_connection EXCEPT !.ack = NextSeq(test_connection.ack)]
        \/ test_connection' = [test_connection EXCEPT !.connected = TRUE]
    OBVIOUS
  <2>3. CASE test_connection' = [seq |-> FirstSeq, ack |-> 0, state |-> "none", connected |-> FALSE]
    BY <2>3, Numbers
  <2>4. QED
    BY <2>1, <2>2, <2>3
<1>3. segment' \in [flags : {"none", "SYN", "ACK", "PSH|ACK"}, seq : Number, ack : Number,
                    sum : Address]
  BY Numbers DEF NetInv, TypeOK, Number, Address, Segment
<1>4. tcp_pc' \in {"none", "syn", "connecting", "increment", "ack_header", "ack", "connected",
                   "data", "sent"}
  OBVIOUS
<1>5. QED
  BY <1>1, <1>2, <1>3, <1>4 DEF NetInv, TypeOK, Number, Address

\* tcp_test moves seq and ack with what it sends.
LEMMA TcpKeepsConnection == ASSUME NetInv, TcpStep PROVE ConnectionFits' /\ HeaderFits'
<1>1. UNCHANGED <<networking_info, moved, undone>>
  BY DEF TcpStep, Call_tcp_test, tcp_test, environment, At, Send,
         PrepareSyn, SendSyn, SynAckHasCome, IncrementAck, PrepareAck, SendAck, PrepareData, SendData
<1>2. ConnectionFits'
  BY <1>1 DEF NetInv, TypeOK, ConnectionFits, NumbersFit, TalkedTo,
         TcpStep, Call_tcp_test, tcp_test, environment, dhcp_vars, tcp_vars, At, Send,
         PrepareSyn, SendSyn, SynAckHasCome, IncrementAck, PrepareAck, SendAck, PrepareData, SendData
<1>3. HeaderFits'
  BY <1>1 DEF NetInv, TypeOK, ConnectionFits, HeaderFits, NumbersFit, TalkedTo, Segment,
         TcpStep, Call_tcp_test, tcp_test, environment, dhcp_vars, tcp_vars, At, Send,
         PrepareSyn, SendSyn, SynAckHasCome, IncrementAck, PrepareAck, SendAck, PrepareData, SendData
<1>4. QED
  BY <1>2, <1>3

\* What tcp_test sends carries the numbers of the connection.
LEMMA TcpKeepsFrames == ASSUME NetInv, TcpStep PROVE FramesFit'
<1>0. /\ Forward /\ FramesFit /\ in' \subseteq in
      /\ networking_info \in Address /\ UNCHANGED <<moved, undone>>
  BY TcpKeepsDhcp DEF TcpStep, Call_tcp_test, tcp_test, environment, NetInv, TypeOK, Address, TcpStep,
         PrepareSyn, SendSyn, SynAckHasCome, IncrementAck, PrepareAck, SendAck, PrepareData, SendData
<1>1. CASE UNCHANGED out
  BY <1>0, <1>1, NoNewFrame
<1>2. CASE SendSyn \/ SendAck \/ SendData
  <2>0. PICK frame : frame = [mac |-> dest_mac("peer"), source |-> networking_info,
                              protocol |-> "tcp", body |-> segment]
    OBVIOUS
  <2>1. out' = out \cup {frame} /\ UNCHANGED segment
    BY <1>2, <2>0 DEF SendSyn, SendAck, SendData, Send, ipv4_send
  <2>2. SegmentOutFits(segment, networking_info)'
    BY <1>0, <1>2 DEF SegmentOutFits, NumbersFit, NetInv, HeaderFits, SendSyn, SendAck, SendData, Send,
                 At, TalkedTo, TypeOK
  <2>3. FrameFits(frame)'
    <3>1. /\ frame.protocol = "tcp" /\ frame.source = networking_info /\ frame.body = segment
          /\ UNCHANGED <<segment, networking_info>>
      BY <1>2, <2>0 DEF SendSyn, SendAck, SendData, Send
    <3>2. QED
      BY <1>0, <2>2, <3>1 DEF FrameFits, Address
  <2>4. QED
    BY <1>0, <2>1, <2>3, OneNewFrame
<1>3. QED
  BY <1>1, <1>2 DEF TcpStep, Call_tcp_test, tcp_test, PrepareSyn, SynAckHasCome, IncrementAck,
                    PrepareAck, PrepareData

-----------------------------------------------------------------------------
(***************************************************************************)
(* The interrupt.                                                          *)
(***************************************************************************)
\* What a frame leaves alone, and what the history remembers of it.
LEMMA InterruptFrame ==
    ASSUME NetInv, NEW frame \in in, Interrupt(frame)
    PROVE  /\ AnswerFits(frame)
           /\ UNCHANGED <<out, request_payload, pc, segment, tcp_pc, server, peer, lost, foreign>>
           /\ in' \subseteq in
           /\ second' = (second \/ (pc = "yiaddr" /\ frame.body.type = "offer"))
           /\ moved' = (moved \/ (tcp_pc # "none" /\ networking_info' # networking_info))
           /\ undone' = (undone \/ /\ frame.protocol = "tcp" /\ frame.body.flags = "SYN|ACK"
                                   /\ tcp_pc \notin {"connecting", "increment"})
           /\ {lost, foreign, second, moved, undone} \subseteq BOOLEAN
           /\ Forward
<1>1. AnswerFits(frame) /\ {lost, foreign, second, moved, undone} \subseteq BOOLEAN
  BY DEF NetInv, FramesFit, EnvironmentTypeOK
<1>2. QED
  BY <1>1 DEF Interrupt, Forward

\* A DHCP answer: an offer is kept whole, an acknowledgement gives the address.
LEMMA DhcpAnswerKeeps ==
    ASSUME NetInv, NEW frame \in in, Interrupt(frame),
           frame.protocol = "udp", DhcpAnswerFits(frame.body)
    PROVE  NetInv'
<1>1. /\ dhcp_process_packet(frame.body)
      /\ UNCHANGED test_connection
  BY DEF Interrupt, ethernet_process_packet
<1> DEFINE Packet == [siaddr : Address, yiaddr : Address]
           body == frame.body
<1>2. \/ /\ body.type = "offer"
         /\ dhcp_request_packet' = [siaddr |-> body.siaddr, yiaddr |-> body.yiaddr]
         /\ send_dhcp_request' = TRUE /\ UNCHANGED networking_info
      \/ /\ body.type = "ack" /\ networking_info' = body.yiaddr
         /\ UNCHANGED <<send_dhcp_request, dhcp_request_packet>>
      \/ UNCHANGED <<networking_info, send_dhcp_request, dhcp_request_packet>>
  BY <1>1 DEF dhcp_process_packet, dhcp_handle_offer, dhcp_handle_ack
<1>3. dhcp_request_packet' \in Packet /\ networking_info' \in Address /\ send_dhcp_request' \in BOOLEAN
  <2>1. /\ body.siaddr \in Address /\ body.yiaddr \in Address
        /\ dhcp_request_packet \in Packet /\ networking_info \in Address
    BY DEF DhcpAnswerFits, NetInv, TypeOK, Address
  <2>2. dhcp_request_packet' \in Packet /\ networking_info' \in Address
    BY <1>2, <2>1
  <2>3. send_dhcp_request' \in BOOLEAN
    BY <1>2, Zenon DEF NetInv, TypeOK
  <2>4. QED
    BY <2>2, <2>3
<1>4. TypeOK'
  BY <1>1, <1>3, InterruptFrame DEF NetInv, TypeOK, Address
<1>5. EnvironmentTypeOK'
  BY InterruptFrame DEF NetInv, EnvironmentTypeOK
<1>6. FramesFit'
  BY InterruptFrame, NoNewFrame DEF NetInv
<1>7. OfferIsKept'
  <2>1. /\ UNCHANGED <<request_payload, pc>>
        /\ second => second'
        /\ pc = "yiaddr" /\ body.type = "offer" => second'
    BY InterruptFrame
  <2>2. CASE body.type = "offer" /\ dhcp_request_packet' = [siaddr |-> body.siaddr, yiaddr |-> body.yiaddr]
             /\ send_dhcp_request' = TRUE
    <3>1. /\ body.siaddr \in Servers /\ body.yiaddr = body.siaddr
          /\ dhcp_request_packet'.siaddr = body.siaddr /\ dhcp_request_packet'.yiaddr = body.yiaddr
      BY <2>2 DEF DhcpAnswerFits
    <3>2. QED
      BY <2>1, <2>2, <3>1 DEF NetInv, OfferIsKept
  <2>3. CASE UNCHANGED <<send_dhcp_request, dhcp_request_packet>>
    BY <2>1, <2>3 DEF NetInv, OfferIsKept
  <2>4. QED
    BY <1>2, <2>2, <2>3
<1>8. AddressIsRequested'
  BY <1>2, InterruptFrame DEF NetInv, AddressIsRequested, DhcpAnswerFits
<1>9. PeerIsAnswered' /\ ConnectionFits' /\ HeaderFits'
  <2>1. /\ UNCHANGED <<pc, tcp_pc, peer, test_connection, segment>>
        /\ undone => undone'
        /\ moved' = (moved \/ (tcp_pc # "none" /\ networking_info' # networking_info))
    BY <1>1, InterruptFrame
  <2>2. QED
    BY <2>1 DEF NetInv, PeerIsAnswered, ConnectionFits, HeaderFits, NumbersFit
<1>10. QED
  BY <1>4, <1>5, <1>6, <1>7, <1>8, <1>9 DEF NetInv

\* A TCP segment: its numbers become the connection's.
LEMMA SegmentKeeps ==
    ASSUME NetInv, NEW frame \in in, Interrupt(frame),
           frame.protocol = "tcp", SegmentInFits(frame.body)
    PROVE  NetInv'
<1> DEFINE body == frame.body
           state == IF body.flags = "SYN|ACK" THEN "SYN_ACK_RECV" ELSE test_connection.state
<1>1. /\ tcp_connection_handle_recv(body)
      /\ UNCHANGED <<networking_info, send_dhcp_request, dhcp_request_packet>>
  BY DEF Interrupt, ethernet_process_packet
<1>2. body.seq \in Number /\ body.ack \in Number
  BY Numbers DEF SegmentInFits
<1>3. /\ test_connection \in [seq : Number, ack : Number, connected : BOOLEAN,
                              state : {"none", "SYN_ACK_RECV"}]
      /\ test_connection' = [test_connection EXCEPT !.ack = body.seq, !.seq = body.ack, !.state = state]
  BY <1>1 DEF NetInv, TypeOK, Number, tcp_connection_handle_recv
<1>4. /\ test_connection' \in [seq : Number, ack : Number, connected : BOOLEAN,
                               state : {"none", "SYN_ACK_RECV"}]
      /\ test_connection'.ack = body.seq /\ test_connection'.seq = body.ack
      /\ test_connection'.state = state
  BY <1>2, <1>3
<1>5. /\ UNCHANGED <<out, request_payload, pc, segment, tcp_pc, server, peer, lost, foreign>>
      /\ undone' = (undone \/ (body.flags = "SYN|ACK" /\ tcp_pc \notin {"connecting", "increment"}))
      /\ second => second'
      /\ moved => moved'
      /\ undone => undone'
  BY InterruptFrame
<1>6. TypeOK'
  BY <1>1, <1>4, <1>5 DEF NetInv, TypeOK, Number
<1>7. EnvironmentTypeOK'
  BY InterruptFrame DEF NetInv, EnvironmentTypeOK
<1>8. FramesFit'
  BY InterruptFrame, NoNewFrame DEF NetInv
<1>9. OfferIsKept' /\ AddressIsRequested' /\ PeerIsAnswered' /\ HeaderFits'
  BY <1>1, <1>5 DEF NetInv, OfferIsKept, AddressIsRequested, PeerIsAnswered, HeaderFits, NumbersFit
<1>10. ConnectionFits'
  BY <1>4, <1>5 DEF NetInv, ConnectionFits, NumbersFit, SegmentInFits, TalkedTo
<1>11. QED
  BY <1>6, <1>7, <1>8, <1>9, <1>10 DEF NetInv

\* An interrupt that delivers a frame keeps the invariant.
LEMMA ArriveKeepsNet == ASSUME NetInv, Arrive PROVE NetInv'
<1>1. PICK frame \in in : Interrupt(frame)
  BY DEF Arrive
<1>2. AnswerFits(frame)
  BY <1>1, InterruptFrame
<1>3. QED
  BY <1>1, <1>2, DhcpAnswerKeeps, SegmentKeeps DEF AnswerFits

-----------------------------------------------------------------------------
(***************************************************************************)
(* Servers, peer and medium.                                               *)
(***************************************************************************)
\* A step that leaves the kernel alone keeps what is said of it.
LEMMA KernelStays ==
    ASSUME NetInv, UNCHANGED kernel, UNCHANGED <<second, moved, undone>>, foreign => foreign'
    PROVE  /\ Forward /\ OfferIsKept' /\ AddressIsRequested' /\ ConnectionFits' /\ HeaderFits'
           /\ server' \in [Servers -> {"idle", "offered", "bound"}] => TypeOK'
<1>1. UNCHANGED <<networking_info, send_dhcp_request, dhcp_request_packet, request_payload, pc,
                  test_connection, segment, tcp_pc, second, moved, undone>>
  BY DEF kernel, dhcp_vars, tcp_vars
<1>2. Forward
  BY <1>1 DEF Forward
<1>3. OfferIsKept' /\ AddressIsRequested'
  BY <1>1 DEF NetInv, OfferIsKept, AddressIsRequested
<1>4. ConnectionFits' /\ HeaderFits'
  BY <1>1 DEF NetInv, ConnectionFits, HeaderFits, NumbersFit
<1>5. server' \in [Servers -> {"idle", "offered", "bound"}] => TypeOK'
  BY <1>1 DEF NetInv, TypeOK
<1>6. QED
  BY <1>2, <1>3, <1>4, <1>5

\* A server that offers or acknowledges keeps the invariant.
LEMMA ServerKeepsNet ==
    ASSUME NetInv, NEW s \in Servers, Offer(s) \/ Acknowledge(s) \/ AcknowledgeNeighbour(s)
    PROVE  NetInv'
<1>1. /\ UNCHANGED kernel /\ UNCHANGED <<peer, lost, second, moved, undone>>
      /\ foreign => foreign'
      /\ foreign' \in BOOLEAN
  <2>1. /\ UNCHANGED kernel /\ UNCHANGED <<peer, lost, second, moved, undone>>
        /\ foreign' = foreign \/ foreign' = TRUE
    BY Zenon DEF Offer, Acknowledge, AcknowledgeNeighbour, history
  <2>2. foreign \in BOOLEAN
    BY DEF NetInv, EnvironmentTypeOK
  <2>3. CASE foreign' = foreign
    BY <2>1, <2>2, <2>3, Zenon
  <2>4. CASE foreign' = TRUE
    BY <2>1, <2>4, Zenon
  <2>5. QED
    BY <2>1, <2>3, <2>4, Zenon
<1>2. server' \in [Servers -> {"idle", "offered", "bound"}]
  BY DEF Offer, Acknowledge, AcknowledgeNeighbour, NetInv, TypeOK
<1>3. TypeOK' /\ Forward /\ OfferIsKept' /\ AddressIsRequested' /\ ConnectionFits' /\ HeaderFits'
  BY <1>1, <1>2, KernelStays
<1>4. EnvironmentTypeOK'
  BY <1>1 DEF NetInv, EnvironmentTypeOK
<1>5. PeerIsAnswered'
  BY <1>1, <1>3 DEF NetInv, PeerIsAnswered, Forward
<1>6. \E frame : out' \subseteq out /\ in' \subseteq in \cup {frame} /\ AnswerFits(frame)'
  <2>1. CASE Offer(s)
    <3>1. PICK frame : frame = UdpFrame([type |-> "offer", siaddr |-> s, yiaddr |-> s])
      OBVIOUS
    <3>2. AnswerFits(frame)'
      BY <3>1 DEF AnswerFits, DhcpAnswerFits, UdpFrame
    <3>3. QED
      BY <2>1, <3>1, <3>2 DEF Offer
  <2>2. CASE Acknowledge(s)
    <3>1. PICK request \in out :
            /\ request.protocol = "udp" /\ request.body.type = "request" /\ request.body.siaddr = s
            /\ out' = out \ {request}
            /\ in' = in \cup {UdpFrame(
                  [type |-> IF request.body.yiaddr = s THEN "ack" ELSE "nak",
                   siaddr |-> s, yiaddr |-> request.body.yiaddr])}
      BY <2>2 DEF Acknowledge
    <3>2. PICK frame : frame = UdpFrame(
                  [type |-> IF request.body.yiaddr = s THEN "ack" ELSE "nak",
                   siaddr |-> s, yiaddr |-> request.body.yiaddr])
      OBVIOUS
    <3>3. /\ pc = "idle" /\ request.body.yiaddr = request_payload.yiaddr
          /\ request_payload.yiaddr \in Address
      BY <3>1 DEF NetInv, FramesFit, FrameFits, RequestFits, TypeOK, Address
    <3>4. /\ frame.protocol = "udp" /\ frame.body.type \in {"ack", "nak"}
          /\ frame.body.siaddr = s /\ frame.body.yiaddr = request_payload.yiaddr
      BY <3>2, <3>3 DEF UdpFrame
    <3>5. UNCHANGED <<pc, request_payload>>
      BY <1>1 DEF kernel, dhcp_vars
    <3>6. AnswerFits(frame)'
      BY <3>3, <3>4, <3>5 DEF AnswerFits, DhcpAnswerFits, Address
    <3>7. QED
      BY <3>1, <3>2, <3>6
  <2>3. CASE AcknowledgeNeighbour(s)
    <3>1. PICK frame : frame = UdpFrame([type |-> "ack", siaddr |-> s, yiaddr |-> Neighbour])
      OBVIOUS
    <3>2. AnswerFits(frame)'
      BY <2>3, <3>1 DEF AnswerFits, DhcpAnswerFits, UdpFrame, AcknowledgeNeighbour
    <3>3. QED
      BY <2>3, <3>1, <3>2 DEF AcknowledgeNeighbour
  <2>4. QED
    BY <2>1, <2>2, <2>3
<1>7. FramesFit'
  <2>1. PICK frame : out' \subseteq out /\ in' \subseteq in \cup {frame} /\ AnswerFits(frame)'
    BY <1>6
  <2>2. QED
    BY <1>3, <2>1, OneNewFrame DEF NetInv
<1>8. QED
  BY <1>3, <1>4, <1>5, <1>7 DEF NetInv

\* The peer answers a SYN, and acknowledges and sends data, with numbers that fit.
LEMMA PeerKeepsNet == ASSUME NetInv, Listen \/ PeerData PROVE NetInv'
<1>1. /\ UNCHANGED kernel /\ UNCHANGED <<server, lost, foreign, second, moved, undone>>
      /\ UNCHANGED tcp_pc
  BY DEF Listen, PeerData, history, kernel
<1>2. server' \in [Servers -> {"idle", "offered", "bound"}]
  BY <1>1 DEF NetInv, TypeOK
<1>3. TypeOK' /\ Forward /\ OfferIsKept' /\ AddressIsRequested' /\ ConnectionFits' /\ HeaderFits'
  BY <1>1, <1>2, KernelStays
<1>4. /\ peer' \in [state : {"listen", "syn_received", "established"},
                    address : Servers \cup {NoAddress, Neighbour}, got : BOOLEAN, said : BOOLEAN]
      /\ PeerIsAnswered'
      /\ \E frame : out' \subseteq out /\ in' \subseteq in \cup {frame} /\ AnswerFits(frame)'
  <2>0. peer \in [state : {"listen", "syn_received", "established"},
                  address : Servers \cup {NoAddress, Neighbour}, got : BOOLEAN, said : BOOLEAN]
    BY DEF NetInv, EnvironmentTypeOK
  <2>1. CASE PeerData
    <3>1. PICK frame : frame = TcpFrame("PSH|ACK", NextSeq(PeerFirstSeq),
                               IF peer.got THEN NextSeq(FirstData) ELSE FirstData)
      OBVIOUS
    <3>2. tcp_pc \in TalkedTo
      BY <2>1 DEF PeerData, NetInv, PeerIsAnswered
    <3>3. AnswerFits(frame)'
      BY <1>1, <3>1, <3>2 DEF AnswerFits, SegmentInFits, TcpFrame
    <3>4. QED
      BY <1>1, <2>0, <2>1, <3>1, <3>2, <3>3 DEF PeerData, PeerIsAnswered
  <2>2. CASE Listen
    <3>1. PICK sent \in out :
            /\ sent.protocol = "tcp"
            /\ TakeSyn(sent) \/ (Acceptable(sent) /\ (TakeAck(sent) \/ TakeData(sent)))
            /\ out' = out \ {sent}
      BY <2>2 DEF Listen
    <3>2. SegmentOutFits(sent.body, sent.source) /\ sent.source \in Address
      BY <3>1 DEF NetInv, FramesFit, FrameFits, Address
    <3>3. CASE TakeSyn(sent)
      <4>1. PICK frame : frame = TcpFrame("SYN|ACK", PeerFirstSeq, NextSeq(sent.body.seq))
        OBVIOUS
      <4>2. sent.body.seq = FirstSeq /\ tcp_pc \notin {"none", "syn"}
        BY <3>2, <3>3 DEF TakeSyn, SegmentOutFits
      <4>3. AnswerFits(frame)'
        BY <1>1, <4>1, <4>2 DEF AnswerFits, SegmentInFits, TcpFrame, FirstData
      <4>4. /\ peer' \in [state : {"listen", "syn_received", "established"},
                          address : Servers \cup {NoAddress, Neighbour}, got : BOOLEAN, said : BOOLEAN]
            /\ peer'.state = "syn_received"
        BY <2>0, <3>2, <3>3 DEF TakeSyn, Address
      <4>5. QED
        BY <3>1, <3>3, <4>1, <4>3, <4>4 DEF TakeSyn, PeerIsAnswered
    <3>4. CASE TakeAck(sent)
      <4>1. tcp_pc \in TalkedTo
        BY <3>2, <3>4 DEF TakeAck, SegmentOutFits
      <4>2. PeerIsAnswered'
        BY <1>1, <4>1 DEF PeerIsAnswered
      <4>3. \E frame : in' \subseteq in \cup {frame} /\ AnswerFits(frame)'
        <5>1. PICK frame : frame = UdpFrame([type |-> "nak", siaddr |-> NoAddress, yiaddr |-> NoAddress])
          OBVIOUS
        <5>2. AnswerFits(frame)'
          BY <5>1 DEF AnswerFits, DhcpAnswerFits, UdpFrame
        <5>3. QED
          BY <3>4, <5>2 DEF TakeAck
      <4>4. QED
        BY <2>0, <3>1, <3>4, <4>2, <4>3 DEF TakeAck
    <3>5. CASE TakeData(sent)
      <4>1. tcp_pc \in TalkedTo
        BY <3>2, <3>5 DEF TakeData, SegmentOutFits
      <4>2. PICK frame : frame = TcpFrame("ACK", NextSeq(PeerFirstSeq), NextSeq(FirstData))
        OBVIOUS
      <4>3. AnswerFits(frame)'
        BY <1>1, <4>1, <4>2 DEF AnswerFits, SegmentInFits, TcpFrame
      <4>4. QED
        BY <1>1, <2>0, <3>1, <3>5, <4>1, <4>2, <4>3 DEF TakeData, PeerIsAnswered
    <3>6. QED
      BY <3>1, <3>3, <3>4, <3>5
  <2>3. QED
    BY <2>1, <2>2
<1>5. EnvironmentTypeOK'
  BY <1>1, <1>4 DEF NetInv, EnvironmentTypeOK
<1>6. FramesFit'
  <2>1. PICK frame : out' \subseteq out /\ in' \subseteq in \cup {frame} /\ AnswerFits(frame)'
    BY <1>4
  <2>2. QED
    BY <1>3, <2>1, OneNewFrame DEF NetInv
<1>7. QED
  BY <1>3, <1>4, <1>5, <1>6 DEF NetInv

\* A frame lost on the wire takes no promise with it.
LEMMA LoseKeepsNet == ASSUME NetInv, Lose PROVE NetInv'
<1>1. /\ UNCHANGED kernel /\ UNCHANGED <<server, peer, foreign, second, moved, undone, tcp_pc>>
      /\ lost' = TRUE /\ in' \subseteq in /\ out' \subseteq out
  BY DEF Lose, kernel
<1>2. server' \in [Servers -> {"idle", "offered", "bound"}]
  BY <1>1 DEF NetInv, TypeOK
<1>3. TypeOK' /\ Forward /\ OfferIsKept' /\ AddressIsRequested' /\ ConnectionFits' /\ HeaderFits'
  BY <1>1, <1>2, KernelStays
<1>4. EnvironmentTypeOK' /\ PeerIsAnswered'
  BY <1>1 DEF NetInv, EnvironmentTypeOK, PeerIsAnswered
<1>5. FramesFit'
  BY <1>1, <1>3, NoNewFrame DEF NetInv
<1>6. QED
  BY <1>3, <1>4, <1>5 DEF NetInv

-----------------------------------------------------------------------------
\* The inductive invariant.
THEOREM NetInvariance == Spec => []NetInv
<1>1. Init => NetInv
  BY InitNet
<1>2. NetInv /\ [Next]_vars => NetInv'
  <2> SUFFICES ASSUME NetInv, [Next]_vars PROVE NetInv'
    OBVIOUS
  <2>1. CASE enable_networking
    BY <2>1, BootKeepsTcp, BootKeepsOffer, BootKeepsFrames DEF NetInv
  <2>2. CASE Call_tcp_test \/ tcp_test
    <3>1. TcpStep
      BY <2>2 DEF TcpStep
    <3>2. QED
      BY <3>1, TcpKeepsDhcp, TcpKeepsTypes, TcpKeepsConnection, TcpKeepsFrames DEF NetInv
  <2>3. CASE Arrive
    BY <2>3, ArriveKeepsNet
  <2>4. CASE \E s \in Servers : Offer(s) \/ Acknowledge(s) \/ AcknowledgeNeighbour(s)
    BY <2>4, ServerKeepsNet
  <2>5. CASE Listen \/ PeerData
    BY <2>5, PeerKeepsNet
  <2>6. CASE Lose
    BY <2>6, LoseKeepsNet
  <2>7. CASE UNCHANGED vars
    <3>1. UNCHANGED <<networking_info, out, in, send_dhcp_request, dhcp_request_packet, request_payload,
                      pc, test_connection, segment, tcp_pc, server, peer, lost, foreign, second, moved,
                      undone>>
      BY <2>7 DEF vars, dhcp_vars, tcp_vars, environment
    <3>2. Forward /\ FramesFit'
      BY <3>1, NoNewFrame DEF Forward, NetInv
    <3>3. TypeOK' /\ EnvironmentTypeOK'
      BY <3>1 DEF NetInv, TypeOK, EnvironmentTypeOK
    <3>4. QED
      BY <3>1, <3>2, <3>3 DEF NetInv, OfferIsKept, AddressIsRequested, PeerIsAnswered,
                          ConnectionFits, HeaderFits, NumbersFit
  <2>8. QED
    BY <2>1, <2>2, <2>3, <2>4, <2>5, <2>6, <2>7 DEF Next, Answer
<1>3. QED
  BY <1>1, <1>2, PTL DEF Spec

\* RequestNamesOneOffer: whatever comes in while dhcp_handle_offer_stage_2 reads the
\* packet, only a second offer between its two readings mixes two servers up.
THEOREM RequestIsOneOffer == Spec => []RequestNamesOneOffer
<1>1. NetInv => RequestNamesOneOffer
  BY DEF NetInv, FramesFit, FrameFits, RequestFits, OfferIsKept, RequestNamesOneOffer, Sent
<1>2. QED
  BY <1>1, NetInvariance, PTL

\* AddressWasRequested: the address is the requested one, or another machine's
\* acknowledgement came by.
THEOREM AddressIsOurs == Spec => []AddressWasRequested
<1>1. NetInv => AddressWasRequested
  BY DEF NetInv, AddressIsRequested, AddressWasRequested
<1>2. QED
  BY <1>1, NetInvariance, PTL

\* SegmentsFit: every segment carries the numbers the peer waits for, for sequence
\* numbers of any width, and a checksum made for its source.
THEOREM SegmentsAreAccepted == Spec => []SegmentsFit
<1>1. NetInv => SegmentsFit
  BY DEF NetInv, FramesFit, FrameFits, SegmentOutFits, NumbersFit, SegmentsFit, Sent
<1>2. QED
  BY <1>1, NetInvariance, PTL

-----------------------------------------------------------------------------
(***************************************************************************)
(* The card's rings.                                                       *)
(***************************************************************************)

\* The length of the ring as the divisor of LibraryLemmas.
LEMMA QueueLength == E1000_QUEUE_LENGTH \in Nat \ {0} /\ E1000_QUEUE_LENGTH - 1 \in Nat
  BY QueueAssumption

\* The remainder after a full turn.
LEMMA FullTurn ==
    ASSUME NEW a \in Nat
    PROVE  (a + E1000_QUEUE_LENGTH) % E1000_QUEUE_LENGTH = a % E1000_QUEUE_LENGTH
<1> DEFINE N == E1000_QUEUE_LENGTH
           q == a \div N
           r == a % N
<1>1. N \in Nat \ {0}
  BY QueueLength
<1> HIDE DEF N
<1>2. r \in 0 .. N - 1 /\ q \in Nat /\ a = N * q + r
  BY <1>1, Division
<1> HIDE DEF q, r
<1>3. a + N = N * (q + 1) + r /\ q + 1 \in Nat
  BY <1>1, <1>2
<1>4. (a + N) % N = r
  BY <1>1, <1>2, <1>3, DivisionUnique
<1>5. QED
  BY <1>4 DEF r, N

\* Counting a register on, as the handler (NextIndex) and the card do, and a turn.
LEMMA Advance ==
    ASSUME NEW a \in Nat
    PROVE  /\ Place(a) \in Index
           /\ NextIndex(Place(a)) = Place(a + 1)
           /\ (Place(a) + 1) % E1000_QUEUE_LENGTH = Place(a + 1)
           /\ Place(a + E1000_QUEUE_LENGTH) = Place(a)
<1>1. a % E1000_QUEUE_LENGTH \in Index
  BY QueueLength, Division DEF Index
<1>2. (a + 1) % E1000_QUEUE_LENGTH =
        IF a % E1000_QUEUE_LENGTH = E1000_QUEUE_LENGTH - 1 THEN 0 ELSE (a % E1000_QUEUE_LENGTH) + 1
  BY QueueLength, DivisionOfNext
<1>3. ((a % E1000_QUEUE_LENGTH) + 1) % E1000_QUEUE_LENGTH = (a + 1) % E1000_QUEUE_LENGTH
  BY QueueLength, RemainderOfSum
<1>4. NextIndex(a % E1000_QUEUE_LENGTH) = (a + 1) % E1000_QUEUE_LENGTH
  BY <1>1, <1>2, QueueLength DEF NextIndex, Index
<1>5. QED
  BY <1>1, <1>3, <1>4, FullTurn DEF Place

\* Two counts less than a turn apart with the same descriptor are the same.
LEMMA SamePlace ==
    ASSUME NEW a \in Nat, NEW b \in Nat, Place(a) = Place(b),
           b < a + E1000_QUEUE_LENGTH, a < b + E1000_QUEUE_LENGTH
    PROVE  a = b
<1>1. CASE a <= b
  BY <1>1, QueueLength, SameRemainder DEF Place
<1>2. CASE b <= a
  BY <1>2, QueueLength, SameRemainder DEF Place
<1>3. QED
  BY <1>1, <1>2

\* The counters are numbers.
LEMMA Counters ==
    ASSUME CountsAgree
    PROVE  Stored \in Nat /\ Done \in Nat
  BY DEF CountsAgree, Stored, Done

\* The first turn.
LEMMA FirstTurn == ASSUME NEW a \in Index PROVE Place(a) = a
  BY QueueLength, DivisionOfSmall DEF Place, Index

\* The initial state.
LEMMA InitRing == ASSUME MaxSends <= E1000_QUEUE_LENGTH, InitCard PROVE RingInv
<1>1. TypeOKCard
  <2>1. 0 \in Index /\ E1000_QUEUE_LENGTH - 1 \in Index /\ 0 \in 0 .. MaxPackets
    BY QueueLength, PacketsAssumption DEF Index
  <2>2. QED
    BY <2>1 DEF InitCard, TypeOKCard
<1>2. Stored = 0 /\ Done = 0
  BY DEF InitCard, Stored, Done
<1>3. CountsAgree
  <2>1. {accepted, delivered} \subseteq Seq(1 .. MaxPackets)
    BY DEF InitCard
  <2>2. QED
    BY <1>2, <2>1, QueueLength, PacketsAssumption DEF CountsAgree
<1>4. Place(0) = 0 /\ Place(E1000_QUEUE_LENGTH - 1) = E1000_QUEUE_LENGTH - 1
  <2>1. 0 \in Index /\ E1000_QUEUE_LENGTH - 1 \in Index
    BY QueueLength DEF Index
  <2>2. QED
    BY <2>1, FirstTurn
<1>5. RingHoldsPackets
  <2>1. ASSUME NEW i \in 0 .. 0 + E1000_QUEUE_LENGTH - 1
        PROVE  rxd[Place(i)] = IF i < 0 THEN i + 1 ELSE 0
    <3>1. i \in Nat /\ Place(i) \in Index
      BY Advance
    <3>2. QED
      BY <3>1 DEF InitCard
  <2>2. QED
    BY <1>2, <1>4, <2>1 DEF InitCard, RingHoldsPackets
<1>6. TailGivesRoom
  BY <1>2, <1>4, QueueLength DEF InitCard, TailGivesRoom
<1>7. LoopHasPacket /\ PacketIsReported
  BY <1>2 DEF InitCard, LoopHasPacket, PacketIsReported
<1>8. QED
  BY <1>1, <1>3, <1>5, <1>6, <1>7 DEF RingInv

-----------------------------------------------------------------------------
\* The card stores a packet: the descriptor at the head is empty, because the tail
\* is not there.
LEMMA ReceiveKeepsRing == ASSUME RingInv, Receive PROVE RingInv'
<1> DEFINE N == E1000_QUEUE_LENGTH
           n == Stored + 1
<1>0. N \in Nat \ {0} /\ N - 1 \in Nat /\ Stored \in Nat /\ Done \in Nat
  BY QueueLength, Counters DEF RingInv
<1>1. PICK t \in Stored .. Done + N :
          /\ tail = Place(t)
          /\ handler \notin {"loop", "process"} => t < Done + N
  BY DEF RingInv, TailGivesRoom
<1>2. t \in n .. Done + N /\ n <= Done + N /\ n \in Nat
  BY <1>0, <1>1 DEF Receive, RingInv, RingHoldsPackets
<1>3. /\ accepted' = Append(accepted, n) /\ delivered' = delivered
      /\ n \in 1 .. MaxPackets
  BY <1>0, PacketsAssumption DEF Receive, Stored
<1>4. /\ Stored' = n /\ Done' = Done
      /\ accepted' \in Seq(1 .. MaxPackets)
      /\ \A i \in 1 .. n : accepted'[i] = IF i = n THEN n ELSE accepted[i]
  BY <1>3 DEF Stored, Done, RingInv, CountsAgree
<1>5. CountsAgree'
  <2>1. {accepted', delivered'} \subseteq Seq(1 .. MaxPackets)
    BY <1>3, <1>4 DEF RingInv, CountsAgree
  <2>2. \A i \in 1 .. n : accepted'[i] = i
    BY <1>0, <1>4 DEF RingInv, CountsAgree
  <2>3. n <= MaxPackets /\ n <= Done + N /\ Done <= n
    BY <1>0, <1>2, <1>3, PacketsAssumption DEF RingInv, CountsAgree
  <2>4. \A i \in 1 .. Done : delivered'[i] = i
    BY <1>3 DEF RingInv, CountsAgree
  <2>5. QED
    BY <2>1, <2>2, <2>3, <2>4, <1>4 DEF CountsAgree
<1>6. /\ head = Place(Stored) /\ Place(Stored) \in Index
      /\ head' = Place(n) /\ Place(n) \in Index
  BY <1>0, <1>2, Advance DEF Receive, RingInv, RingHoldsPackets
<1>7. rxd' = [rxd EXCEPT ![Place(Stored)] = n]
  BY <1>6 DEF Receive, Stored
<1>8. TypeOKCard'
  <2>1. rxd' \in [Index -> 0 .. MaxPackets]
    <3>1. n \in 0 .. MaxPackets
      BY <1>3
    <3>2. rxd \in [Index -> 0 .. MaxPackets]
      BY DEF RingInv, TypeOKCard
    <3>3. QED
      BY <1>6, <1>7, <3>1, <3>2
  <2>2. icr' \subseteq {RXT0, TX, MISC}
    BY DEF Receive, RingInv, TypeOKCard
  <2>3. QED
    BY <1>6, <2>1, <2>2 DEF Receive, RingInv, TypeOKCard
<1>9. RingHoldsPackets'
  <2>1. ASSUME NEW i \in Done .. Done + N - 1
        PROVE  rxd'[Place(i)] = IF i < n THEN i + 1 ELSE 0
    <3>1. rxd[Place(i)] = IF i < Stored THEN i + 1 ELSE 0
      BY <2>1 DEF RingInv, RingHoldsPackets
    <3>2. i \in Nat /\ Place(i) \in Index
      <4>1. i \in Nat
        BY <1>0
      <4>2. QED
        BY <4>1, Advance
    <3>3. CASE i = Stored
      BY <3>3, <1>6, <1>7, <1>0 DEF RingInv, TypeOKCard
    <3>4. CASE i # Stored
      <4>1. i < Stored + N /\ Stored < i + N
        BY <1>0, <1>2, <2>1 DEF RingInv, CountsAgree
      <4>2. Place(i) # Place(Stored)
        BY <3>2, <3>4, <4>1, <1>0, SamePlace
      <4>3. rxd'[Place(i)] = rxd[Place(i)]
        BY <4>2, <3>2, <1>7 DEF RingInv, TypeOKCard
      <4>4. QED
        BY <4>3, <3>1, <3>2, <3>4, <1>0
    <3>5. QED
      BY <3>3, <3>4
  <2>2. rx_index' = Place(Done)
    BY DEF Receive, RingInv, RingHoldsPackets
  <2>3. QED
    BY <1>4, <1>6, <2>1, <2>2 DEF RingHoldsPackets
<1>10. TailGivesRoom'
  BY <1>1, <1>2, <1>4 DEF TailGivesRoom, Receive
<1>11. LoopHasPacket'
  BY <1>0, <1>4 DEF LoopHasPacket, RingInv, Receive
<1>12. PacketIsReported'
  BY DEF PacketIsReported, Receive
<1>13. QED
  BY <1>5, <1>8, <1>9, <1>10, <1>11, <1>12 DEF RingInv

\* A cause is added, and packets sent: the rings the handler reads stay as they are.
LEMMA OtherCauseKeepsRing == ASSUME RingInv, OtherCause PROVE RingInv'
<1>1. Stored' = Stored /\ Done' = Done
  BY DEF OtherCause, Stored, Done
<1>2. TypeOKCard' /\ CountsAgree'
  BY <1>1 DEF OtherCause, RingInv, TypeOKCard, CountsAgree, MISC
<1>3. RingHoldsPackets' /\ TailGivesRoom' /\ LoopHasPacket' /\ PacketIsReported'
  BY <1>1 DEF OtherCause, RingInv, RingHoldsPackets, TailGivesRoom, LoopHasPacket, PacketIsReported
<1>4. QED
  BY <1>2, <1>3 DEF RingInv

\* e1000_send writes the transmit ring only.
LEMMA SendKeepsRing ==
    ASSUME MaxSends <= E1000_QUEUE_LENGTH, RingInv, e1000_send
    PROVE  RingInv'
<1>1. Stored' = Stored /\ Done' = Done
  BY DEF e1000_send, Stored, Done
<1>2. tx_index' \in Index \cup {E1000_QUEUE_LENGTH}
  BY QueueLength, PacketsAssumption DEF e1000_send, RingInv, TypeOKCard, Index
<1>3. TypeOKCard' /\ CountsAgree'
  BY <1>1, <1>2 DEF e1000_send, RingInv, TypeOKCard, CountsAgree, TX
<1>4. RingHoldsPackets' /\ TailGivesRoom' /\ LoopHasPacket' /\ PacketIsReported'
  BY <1>1 DEF e1000_send, RingInv, RingHoldsPackets, TailGivesRoom, LoopHasPacket, PacketIsReported
<1>5. QED
  BY <1>3, <1>4 DEF RingInv

\* The causes are cleared: the handler looks for the packet, or skipped says so.
LEMMA ReadICRKeepsRing == ASSUME RingInv, ReadICR PROVE RingInv'
<1>1. Stored' = Stored /\ Done' = Done
  BY DEF ReadICR, Stored, Done
<1>2. TypeOKCard' /\ CountsAgree'
  BY <1>1 DEF ReadICR, RingInv, TypeOKCard, CountsAgree
<1>3. RingHoldsPackets' /\ TailGivesRoom' /\ LoopHasPacket'
  BY <1>1 DEF ReadICR, RingInv, RingHoldsPackets, TailGivesRoom, LoopHasPacket
<1>4. PacketIsReported'
  <2>1. SUFFICES ASSUME handler' = "idle", ~skipped', Done' < Stored' PROVE FALSE
    BY DEF PacketIsReported
  <2>2. RXT0 \in icr
    BY <1>1, <2>1 DEF ReadICR, RingInv, PacketIsReported
  <2>3. MISC \notin icr
    BY <2>1, <2>2 DEF ReadICR
  <2>4. icr \ {TX} = {RXT0}
    BY <2>2, <2>3 DEF RingInv, TypeOKCard, TX, RXT0, MISC
  <2>5. QED
    BY <2>1, <2>4 DEF ReadICR, PendingPacket
<1>5. QED
  BY <1>2, <1>3, <1>4 DEF RingInv

\* The handler has read the head and compares it with its own index: they differ
\* exactly when a packet waits, because the ring is not full of packets yet.
LEMMA HeadTellsPacket ==
    ASSUME RingInv, handler \in {"head", "recheck"}
    PROVE  /\ Stored < Done + E1000_QUEUE_LENGTH
           /\ (head = rx_index) <=> (Done = Stored)
<1> DEFINE N == E1000_QUEUE_LENGTH
<1>0. N \in Nat \ {0} /\ N - 1 \in Nat /\ Stored \in Nat /\ Done \in Nat
  BY QueueLength, Counters DEF RingInv
<1>1. Stored < Done + N
  BY <1>0 DEF RingInv, TailGivesRoom
<1>2. Done <= Stored
  BY DEF RingInv, CountsAgree
<1>3. Place(Done) = Place(Stored) => Done = Stored
  BY <1>0, <1>1, <1>2, SamePlace
<1>4. QED
  BY <1>1, <1>3 DEF RingInv, RingHoldsPackets

\* Reading the head register: a packet is there when head and rx_index differ.
LEMMA ReadHeadKeepsRing == ASSUME RingInv, ReadHead \/ RereadHead PROVE RingInv'
<1>0. /\ Stored \in Nat /\ Done \in Nat /\ Done <= Stored
      /\ Stored' = Stored /\ Done' = Done
  BY Counters DEF ReadHead, RereadHead, Stored, Done, RingInv, CountsAgree
<1>1. /\ Stored < Done + E1000_QUEUE_LENGTH
      /\ (head = rx_index) <=> (Done = Stored)
  BY HeadTellsPacket DEF ReadHead, RereadHead
<1>2. TypeOKCard' /\ CountsAgree' /\ RingHoldsPackets'
  BY <1>0 DEF ReadHead, RereadHead, RingInv, TypeOKCard, CountsAgree, RingHoldsPackets
<1>3. TailGivesRoom'
  BY <1>0 DEF ReadHead, RereadHead, RingInv, TailGivesRoom
<1>4. LoopHasPacket' /\ PacketIsReported'
  <2>1. handler' = "idle" <=> Done = Stored
    BY <1>1 DEF ReadHead, RereadHead
  <2>2. h' = Place(Stored)
    BY DEF ReadHead, RereadHead, RingInv, RingHoldsPackets
  <2>3. LoopHasPacket'
    BY <1>0, <1>1, <2>1, <2>2 DEF LoopHasPacket, ReadHead, RereadHead
  <2>4. PacketIsReported'
    BY <1>0, <2>1 DEF PacketIsReported
  <2>5. QED
    BY <2>3, <2>4
<1>5. QED
  BY <1>2, <1>3, <1>4 DEF RingInv

\* The loop's condition always holds: it is left only through the head.
LEMMA TestStatusKeepsRing == ASSUME RingInv, TestStatus PROVE RingInv'
<1>0. /\ Stored \in Nat /\ Done \in Nat
      /\ Stored' = Stored /\ Done' = Done
  BY Counters DEF TestStatus, Stored, Done, RingInv
<1>1. rxd[rx_index] # 0
  <2>1. Done < Stored /\ Done \in Done .. Done + E1000_QUEUE_LENGTH - 1
    BY <1>0, QueueLength DEF TestStatus, RingInv, LoopHasPacket
  <2>2. rxd[Place(Done)] = Done + 1
    BY <2>1 DEF RingInv, RingHoldsPackets
  <2>3. QED
    BY <1>0, <2>2 DEF RingInv, RingHoldsPackets
<1>2. TypeOKCard' /\ CountsAgree' /\ RingHoldsPackets'
  BY <1>0 DEF TestStatus, RingInv, TypeOKCard, CountsAgree, RingHoldsPackets
<1>3. handler' = "process"
  BY <1>1 DEF TestStatus
<1>4. TailGivesRoom' /\ LoopHasPacket' /\ PacketIsReported'
  BY <1>0, <1>3 DEF TestStatus, RingInv, TailGivesRoom, LoopHasPacket, PacketIsReported
<1>5. QED
  BY <1>2, <1>4 DEF RingInv

\* The handler delivers the packet at rx_index, which is the next one.
LEMMA ProcessKeepsRing == ASSUME RingInv, Process PROVE RingInv'
<1> DEFINE N == E1000_QUEUE_LENGTH
           n == Done + 1
<1>0. N \in Nat \ {0} /\ N - 1 \in Nat /\ Stored \in Nat /\ Done \in Nat /\ n \in Nat
  BY QueueLength, Counters DEF RingInv
<1>1. PICK q \in n .. Stored : q < Done + N /\ h = Place(q)
  BY DEF Process, RingInv, LoopHasPacket
<1>2. n <= Stored /\ n \in 1 .. MaxPackets /\ Stored <= MaxPackets /\ Stored <= Done + N
  BY <1>0, <1>1, PacketsAssumption DEF RingInv, CountsAgree
<1>3. rx_index = Place(Done) /\ Place(Done) \in Index
  BY <1>0, Advance DEF RingInv, RingHoldsPackets
<1>4. rxd[Place(Done)] = n
  <2>1. Done \in Done .. Done + N - 1 /\ Done < Stored
    BY <1>0, <1>2
  <2>2. QED
    BY <2>1 DEF RingInv, RingHoldsPackets
<1>5. /\ delivered' = Append(delivered, n) /\ accepted' = accepted
      /\ rxd' = [rxd EXCEPT ![Place(Done)] = 0]
  BY <1>3, <1>4 DEF Process
<1>6. /\ Stored' = Stored /\ Done' = n
      /\ delivered' \in Seq(1 .. MaxPackets)
      /\ \A i \in 1 .. n : delivered'[i] = IF i = n THEN n ELSE delivered[i]
  BY <1>2, <1>5 DEF Stored, Done, RingInv, CountsAgree
<1>7. CountsAgree'
  <2>1. {accepted', delivered'} \subseteq Seq(1 .. MaxPackets)
    BY <1>5, <1>6 DEF RingInv, CountsAgree
  <2>2. \A i \in 1 .. n : delivered'[i] = i
    <3>1. \A i \in 1 .. Done : delivered[i] = i
      BY DEF RingInv, CountsAgree
    <3>2. QED
      BY <1>0, <1>6, <3>1
  <2>3. Stored <= MaxPackets /\ Stored <= n + N /\ n <= Stored
    BY <1>0, <1>2
  <2>4. \A i \in 1 .. Stored : accepted'[i] = i
    BY <1>5 DEF RingInv, CountsAgree
  <2>5. QED
    BY <2>1, <2>2, <2>3, <2>4, <1>6 DEF CountsAgree
<1>8. rx_index' = Place(n) /\ Place(n) \in Index
  BY <1>0, <1>3, Advance DEF Process
<1>9. handler' = IF q = n THEN "recheck" ELSE "tail"
  <2>1. n < q + N /\ q < n + N /\ q \in Nat
    BY <1>0, <1>1
  <2>2. Place(n) = Place(q) <=> q = n
    BY <1>0, <2>1, SamePlace
  <2>3. handler' = IF rx_index' = h THEN "recheck" ELSE "tail"
    BY DEF Process
  <2>4. QED
    BY <1>1, <1>8, <2>2, <2>3
<1>10. TypeOKCard'
  <2>1. rxd \in [Index -> 0 .. MaxPackets] /\ 0 \in 0 .. MaxPackets
    BY PacketsAssumption DEF RingInv, TypeOKCard
  <2>2. rxd' \in [Index -> 0 .. MaxPackets]
    BY <1>5, <2>1
  <2>3. QED
    BY <2>2, <1>8, <1>9 DEF Process, RingInv, TypeOKCard
<1>11. RingHoldsPackets'
  <2>1. ASSUME NEW i \in n .. n + N - 1
        PROVE  rxd'[Place(i)] = IF i < Stored THEN i + 1 ELSE 0
    <3>1. i \in Nat /\ Place(i) \in Index
      <4>1. i \in Nat
        BY <1>0
      <4>2. QED
        BY <4>1, Advance
    <3>2. CASE i = Done + N
      <4>1. Place(i) = Place(Done)
        BY <3>2, <1>0, Advance
      <4>2. rxd'[Place(i)] = 0
        BY <4>1, <1>3, <1>5 DEF RingInv, TypeOKCard
      <4>3. QED
        BY <4>2, <3>2, <1>0, <1>2
    <3>3. CASE i # Done + N
      <4>1. i \in Done .. Done + N - 1 /\ i # Done
        BY <3>3, <1>0
      <4>2. Place(i) # Place(Done)
        BY <3>1, <4>1, <1>0, SamePlace
      <4>3. rxd'[Place(i)] = rxd[Place(i)]
        BY <4>2, <3>1, <1>5 DEF RingInv, TypeOKCard
      <4>4. QED
        BY <4>1, <4>3 DEF RingInv, RingHoldsPackets
    <3>4. QED
      BY <3>2, <3>3
  <2>2. head' = Place(Stored)
    BY DEF Process, RingInv, RingHoldsPackets
  <2>3. QED
    BY <1>6, <1>8, <2>1, <2>2 DEF RingHoldsPackets
<1>12. TailGivesRoom'
  <2>1. PICK t \in Stored .. Done + N : tail = Place(t)
    BY DEF RingInv, TailGivesRoom
  <2>2. t \in Stored .. n + N /\ t < n + N
    BY <1>0, <2>1
  <2>3. tail' = Place(t)
    BY <2>1 DEF Process
  <2>4. QED
    BY <1>6, <2>2, <2>3 DEF TailGivesRoom
<1>13. LoopHasPacket'
  <2>1. SUFFICES ASSUME handler' = "tail" PROVE LoopHasPacket'
    BY <1>9 DEF LoopHasPacket
  <2>2. q \in n + 1 .. Stored /\ q < n + N
    BY <1>0, <1>1, <1>9, <2>1
  <2>3. h' = Place(q)
    BY <1>1 DEF Process
  <2>4. QED
    BY <1>6, <2>2, <2>3 DEF LoopHasPacket
<1>14. PacketIsReported'
  BY <1>9 DEF PacketIsReported
<1>15. QED
  BY <1>7, <1>10, <1>11, <1>12, <1>13, <1>14 DEF RingInv

\* The tail goes to rx_index, a full turn ahead: until the next packet is taken the
\* card may fill every descriptor.
LEMMA WriteTailKeepsRing == ASSUME RingInv, WriteTail PROVE RingInv'
<1> DEFINE N == E1000_QUEUE_LENGTH
<1>0. /\ N \in Nat \ {0} /\ Stored \in Nat /\ Done \in Nat
      /\ Stored' = Stored /\ Done' = Done
  BY QueueLength, Counters DEF WriteTail, Stored, Done, RingInv
<1>1. TypeOKCard' /\ CountsAgree' /\ RingHoldsPackets'
  BY <1>0 DEF WriteTail, NewTail, RingInv, TypeOKCard, CountsAgree, RingHoldsPackets
<1>2. TailGivesRoom'
  <2>1. tail' = Place(Done + N) /\ handler' = "loop"
    BY <1>0, Advance DEF WriteTail, NewTail, RingInv, RingHoldsPackets
  <2>2. Done + N \in Stored .. Done + N
    BY <1>0 DEF RingInv, CountsAgree
  <2>3. QED
    BY <1>0, <2>1, <2>2 DEF TailGivesRoom
<1>3. LoopHasPacket' /\ PacketIsReported'
  BY <1>0 DEF WriteTail, RingInv, LoopHasPacket, PacketIsReported
<1>4. QED
  BY <1>1, <1>2, <1>3 DEF RingInv

-----------------------------------------------------------------------------
\* The inductive invariant, for every length of the ring and number of packets, as
\* long as the transmit ring is not run off (tx_index is never set back).
THEOREM RingInvariance == ASSUME MaxSends <= E1000_QUEUE_LENGTH PROVE SpecCard => []RingInv
<1>1. InitCard => RingInv
  BY InitRing
<1>2. RingInv /\ [NextCard]_cardvars => RingInv'
  <2> SUFFICES ASSUME RingInv, [NextCard]_cardvars PROVE RingInv'
    OBVIOUS
  <2>1. CASE Receive
    BY <2>1, ReceiveKeepsRing
  <2>2. CASE OtherCause
    BY <2>2, OtherCauseKeepsRing
  <2>3. CASE e1000_send
    BY <2>3, SendKeepsRing
  <2>4. CASE ReadICR
    BY <2>4, ReadICRKeepsRing
  <2>5. CASE ReadHead \/ RereadHead
    BY <2>5, ReadHeadKeepsRing
  <2>6. CASE TestStatus
    BY <2>6, TestStatusKeepsRing
  <2>7. CASE Process
    BY <2>7, ProcessKeepsRing
  <2>8. CASE WriteTail
    BY <2>8, WriteTailKeepsRing
  <2>9. CASE UNCHANGED cardvars
    BY <2>9 DEF cardvars, RingInv, TypeOKCard, CountsAgree, RingHoldsPackets, TailGivesRoom,
                LoopHasPacket, PacketIsReported, Stored, Done
  <2>10. QED
    BY <2>1, <2>2, <2>3, <2>4, <2>5, <2>6, <2>7, <2>8, <2>9 DEF NextCard
<1>3. QED
  BY <1>1, <1>2, PTL DEF SpecCard

\* EachPacketOnceInOrder: what the handler has passed to the network stack is what
\* the card stored, in order, and what it has not is in the ring, untouched, from
\* rx_index to the head.
THEOREM PacketsInOrder ==
    ASSUME MaxSends <= E1000_QUEUE_LENGTH
    PROVE  SpecCard => []EachPacketOnceInOrder
<1>1. RingInv => EachPacketOnceInOrder
  <2> SUFFICES ASSUME RingInv PROVE EachPacketOnceInOrder
    OBVIOUS
  <2> DEFINE N == E1000_QUEUE_LENGTH
             pending == Stored - Done
  <2>1. /\ N \in Nat \ {0} /\ Stored \in Nat /\ Done \in Nat
        /\ Done <= Stored /\ Stored <= Done + N
    BY QueueLength, Counters DEF RingInv, CountsAgree
  <2>2. pending \in Nat /\ pending <= N /\ Done + pending = Stored
    BY <2>1
  <2>3. \A i \in Nat : (Place(Done) + i) % N = Place(Done + i)
    BY <2>1, RemainderOfSum DEF Place
  <2>4. IsPrefix(delivered, accepted)
    <3>1. /\ accepted \in Seq(1 .. MaxPackets) /\ delivered \in Seq(1 .. MaxPackets)
          /\ Len(delivered) <= Len(accepted)
          /\ \A i \in 1 .. Len(delivered) : delivered[i] = accepted[i]
      BY <2>1 DEF RingInv, CountsAgree, Stored, Done
    <3>2. SubSeq(delivered, 1, Len(delivered)) = SubSeq(accepted, 1, Len(delivered))
      BY <3>1
    <3>3. QED
      BY <3>1, <3>2 DEF IsPrefix
  <2>5. head = (rx_index + pending) % N
    BY <2>2, <2>3 DEF RingInv, RingHoldsPackets
  <2>6. ASSUME NEW i \in 0 .. pending - 1
        PROVE  rxd[(rx_index + i) % N] = accepted[Done + i + 1]
    <3>1. i \in Nat /\ Done + i < Stored /\ Done + i \in Done .. Done + N - 1
          /\ Done + i + 1 \in 1 .. Stored
      BY <2>1, <2>2
    <3>2. rxd[Place(Done + i)] = Done + i + 1
      BY <3>1 DEF RingInv, RingHoldsPackets
    <3>3. accepted[Done + i + 1] = Done + i + 1
      BY <3>1 DEF RingInv, CountsAgree
    <3>4. QED
      BY <3>1, <3>2, <3>3, <2>3 DEF RingInv, RingHoldsPackets
  <2>7. QED
    BY <2>2, <2>4, <2>5, <2>6 DEF EachPacketOnceInOrder, RingInv, Stored, Done
<1>2. QED
  BY <1>1, RingInvariance, PTL

\* NothingLeftBehind: once the handler has returned and no cause waits, the ring is
\* empty, unless a packet was reported together with another cause.
THEOREM NoPacketWaits ==
    ASSUME MaxSends <= E1000_QUEUE_LENGTH
    PROVE  SpecCard => []NothingLeftBehind
<1>1. RingInv => NothingLeftBehind
  <2> SUFFICES ASSUME RingInv, handler = "idle", icr = {}, ~skipped PROVE Done = Stored
    BY DEF NothingLeftBehind, Stored, Done
  <2>1. ~ (Done < Stored)
    BY DEF RingInv, PacketIsReported
  <2>2. Stored \in Nat /\ Done \in Nat /\ Done <= Stored
    BY Counters DEF RingInv, CountsAgree
  <2>3. QED
    BY <2>1, <2>2
<1>2. QED
  BY <1>1, RingInvariance, PTL
=============================================================================
