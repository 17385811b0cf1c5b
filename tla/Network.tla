-------------------------------- MODULE Network --------------------------------
(***************************************************************************)
(* The kernel's network code as one system: the DHCP client, the TCP       *)
(* client, the way a packet takes up to them, and around them a network    *)
(* that loses, repeats and reorders frames.  A frame that arrives is       *)
(* handled from beginning to end in the interrupt, between any two steps   *)
(* of the code outside of it.  (That each packet reaches                   *)
(* ethernet_process_packet once and in order is the subject of E1000.)     *)
(*                                                                         *)
(* The servers, the TCP peer and the medium are external.                  *)
(***************************************************************************)
EXTENDS Dhcp, Tcp

CONSTANTS
    Neighbour,      \* the address of another machine on the network
    PeerFirstSeq,   \* the TCP peer's first number
    MaxRepeats      \* bound on the frames the network delivers twice

ASSUME NeighbourAssumption == Neighbour \notin Servers \cup {NoAddress}
ASSUME PeerAssumption == PeerFirstSeq \in 0 .. SeqModulus - 1
ASSUME RepeatsAssumption == MaxRepeats \in Nat

VARIABLES
    server,     \* how far each server is
    peer,       \* the TCP peer: its state, whom it talks to, what it has received and said
    repeats,    \* frames delivered twice so far
    \* History variables: what may have gone wrong on the network.
    lost,       \* a frame was lost
    foreign,    \* another machine's acknowledgement came by
    second,     \* an offer came while the request was made from the one before
    moved,      \* the address changed once tcp_test had begun
    undone      \* a repeated SYN|ACK set back the number that acknowledges it

environment == <<server, peer, repeats, lost, foreign, second, moved, undone>>
vars == <<networking_info, out, in, dhcp_vars, pc, tcp_vars, tcp_pc, environment>>

Init ==
    /\ networking_info = NoAddress /\ out = {} /\ in = {}
    /\ send_dhcp_request = FALSE /\ dhcp_request_packet = NoPacket
    /\ request_payload = NoPacket /\ pc = "boot"
    /\ test_connection = [seq |-> 0, ack |-> 0, state |-> "none", connected |-> FALSE]
    /\ segment = Segment("none", 0, 0, NoAddress) /\ tcp_pc = "none"
    /\ server = [s \in Servers |-> "idle"]
    /\ peer = [state |-> "listen", address |-> NoAddress, got |-> FALSE, said |-> FALSE]
    /\ repeats = 0 /\ lost = FALSE /\ foreign = FALSE
    /\ second = FALSE /\ moved = FALSE /\ undone = FALSE

-----------------------------------------------------------------------------
(***************************************************************************)
(* The kernel outside of interrupts: enable_networking, then tcp_test,     *)
(* which nothing in the kernel calls yet.                                  *)
(***************************************************************************)
enable_networking ==
    /\ \/ dhcp_start \/ SendDiscover \/ OfferHasCome
       \/ ReadSiaddr \/ ReadYiaddr \/ SendRequest
    /\ UNCHANGED <<in, tcp_vars, tcp_pc, environment>>

Call_tcp_test ==
    /\ pc = "idle" /\ PrepareSyn
    /\ UNCHANGED <<in, dhcp_vars, pc, environment>>

tcp_test ==
    /\ \/ SendSyn \/ SynAckHasCome \/ IncrementAck \/ PrepareAck \/ SendAck
       \/ PrepareData \/ SendData
    /\ UNCHANGED <<in, dhcp_vars, pc, environment>>

-----------------------------------------------------------------------------
(***************************************************************************)
(* The interrupt: ethernet_process_packet, ipv4_process_packet and         *)
(* udp_process_packet hand the body on by protocol and port.  Other        *)
(* packets are printed and change nothing, ARP packets too.                *)
(***************************************************************************)
ethernet_process_packet(frame) ==
    \/ /\ frame.protocol = "udp"
       /\ dhcp_process_packet(frame.body)
       /\ UNCHANGED test_connection
    \/ /\ frame.protocol = "tcp"
       /\ tcp_connection_handle_recv(frame.body)
       /\ UNCHANGED <<networking_info, send_dhcp_request, dhcp_request_packet>>

\* A frame arrives, perhaps not for the last time.
Interrupt(frame) ==
    /\ ethernet_process_packet(frame)
    /\ \/ in' = in \ {frame} /\ UNCHANGED repeats
       \/ repeats < MaxRepeats /\ repeats' = repeats + 1 /\ UNCHANGED in
    /\ second' = (second \/ (pc = "yiaddr" /\ frame.body.type = "offer"))
    /\ moved' = (moved \/ (tcp_pc # "none" /\ networking_info' # networking_info))
    /\ undone' = (undone \/ /\ frame.protocol = "tcp" /\ frame.body.flags = "SYN|ACK"
                            /\ tcp_pc \notin {"connecting", "increment"})
    /\ UNCHANGED <<out, request_payload, pc, segment, tcp_pc, server, peer, lost, foreign>>

-----------------------------------------------------------------------------
(***************************************************************************)
(* The network.                                                            *)
(***************************************************************************)
\* Answers name the type even of a TCP segment, which has none.
UdpFrame(body) == [protocol |-> "udp", body |-> body]
TcpFrame(flags, seq, ack) ==
    [protocol |-> "tcp", body |-> [type |-> "segment", flags |-> flags, seq |-> seq, ack |-> ack]]

kernel == <<networking_info, dhcp_vars, pc, tcp_vars, tcp_pc>>
history == <<repeats, lost, foreign, second, moved, undone>>

\* The request went to the gateway alone, which asks every server.
Offer(s) ==
    /\ server[s] = "idle"
    /\ \E frame \in out : frame.protocol = "udp" /\ frame.body.type = "discover"
    /\ server' = [server EXCEPT ![s] = "offered"]
    /\ in' = in \cup {UdpFrame([type |-> "offer", siaddr |-> s, yiaddr |-> s])}
    /\ UNCHANGED <<kernel, out, peer, history>>

\* A server acknowledges the request of what it has offered and refuses another.
Acknowledge(s) ==
    /\ \E frame \in out :
          /\ frame.protocol = "udp" /\ frame.body.type = "request" /\ frame.body.siaddr = s
          /\ out' = out \ {frame}
          /\ in' = in \cup {UdpFrame(
                [type |-> IF frame.body.yiaddr = s THEN "ack" ELSE "nak",
                 siaddr |-> s, yiaddr |-> frame.body.yiaddr])}
    /\ server' = [server EXCEPT ![s] = "bound"]
    /\ UNCHANGED <<kernel, peer, history>>

\* Broadcasts reach every machine.
AcknowledgeNeighbour(s) ==
    /\ ~foreign /\ foreign' = TRUE
    /\ in' = in \cup {UdpFrame([type |-> "ack", siaddr |-> s, yiaddr |-> Neighbour])}
    /\ UNCHANGED <<kernel, out, server, peer, repeats, lost, second, moved, undone>>

\* The peer answers a SYN that has a source to answer to.  A segment with a wrong
\* checksum, from another address or with other numbers it leaves alone.
TakeSyn(frame) ==
    /\ frame.body.flags = "SYN" /\ frame.source # NoAddress /\ peer.state = "listen"
    /\ peer' = [peer EXCEPT !.state = "syn_received", !.address = frame.source]
    /\ in' = in \cup {TcpFrame("SYN|ACK", PeerFirstSeq, NextSeq(frame.body.seq))}

TakeAck(frame) ==
    /\ frame.body.flags = "ACK" /\ peer' = [peer EXCEPT !.state = "established"]
    /\ UNCHANGED in

TakeData(frame) ==
    /\ frame.body.flags = "PSH|ACK"
    /\ peer' = [peer EXCEPT !.state = "established", !.got = TRUE]
    /\ in' = in \cup {TcpFrame("ACK", NextSeq(PeerFirstSeq), NextSeq(FirstData))}

Acceptable(frame) ==
    /\ frame.source = peer.address
    /\ frame.body.ack = NextSeq(PeerFirstSeq) /\ frame.body.seq = FirstData

Listen ==
    \E frame \in out :
        /\ frame.protocol = "tcp" /\ frame.body.sum = frame.source
        /\ \/ TakeSyn(frame)
           \/ Acceptable(frame) /\ (TakeAck(frame) \/ TakeData(frame))
        /\ out' = out \ {frame}
        /\ UNCHANGED <<kernel, server, history>>

\* The peer has something to say too.
PeerData ==
    /\ peer.state = "established" /\ ~peer.said
    /\ peer' = [peer EXCEPT !.said = TRUE]
    /\ in' = in \cup {TcpFrame("PSH|ACK", NextSeq(PeerFirstSeq),
                               IF peer.got THEN NextSeq(FirstData) ELSE FirstData)}
    /\ UNCHANGED <<kernel, out, server, history>>

Lose ==
    /\ \/ \E frame \in out : out' = out \ {frame} /\ UNCHANGED in
       \/ \E frame \in in : in' = in \ {frame} /\ UNCHANGED out
    /\ lost' = TRUE
    /\ UNCHANGED <<kernel, server, peer, repeats, foreign, second, moved, undone>>

-----------------------------------------------------------------------------
Arrive == \E frame \in in : Interrupt(frame)

Answer == Listen \/ \E s \in Servers : Offer(s) \/ Acknowledge(s)

Next ==
    \/ enable_networking \/ Call_tcp_test \/ tcp_test
    \/ Arrive \/ Answer
    \/ PeerData \/ Lose
    \/ \E s \in Servers : AcknowledgeNeighbour(s)

\* The boot code and tcp_test run on while they can, the card interrupts for what
\* has come, and servers and peer answer.
Fairness == WF_vars(enable_networking) /\ WF_vars(tcp_test) /\ WF_vars(Arrive) /\ WF_vars(Answer)

Spec == Init /\ [][Next]_vars /\ Fairness
-----------------------------------------------------------------------------
TypeOK ==
    LET Address == Servers \cup {NoAddress, Neighbour}
        Packet == [siaddr : Address, yiaddr : Address]
        Number == 0 .. SeqModulus - 1
    IN  /\ networking_info \in Address
        /\ send_dhcp_request \in BOOLEAN
        /\ dhcp_request_packet \in Packet /\ request_payload \in Packet
        /\ pc \in {"boot", "discover", "offer", "siaddr", "yiaddr", "request", "idle"}
        /\ test_connection \in [seq : Number, ack : Number, connected : BOOLEAN,
                                state : {"none", "SYN_ACK_RECV"}]
        /\ segment \in [flags : {"none", "SYN", "ACK", "PSH|ACK"}, seq : Number,
                        ack : Number, sum : Address]
        /\ tcp_pc \in {"none", "syn", "connecting", "increment", "ack_header", "ack",
                      "connected", "data", "sent"}
        /\ server \in [Servers -> {"idle", "offered", "bound"}]

Sent(protocol, kind) ==
    {frame \in out : frame.protocol = protocol
                        /\ (IF protocol = "udp" THEN frame.body.type ELSE frame.body.flags) \in kind}

\* The request names a server and the address this very server has offered,
\* although the packet is read in two pieces while the interrupt may write it:
\* only an offer that comes between the two can mix them.
RequestNamesOneOffer ==
    /\ TypeOK
    /\ \A frame \in Sent("udp", {"request"}) :
          \/ second
          \/ frame.body.siaddr \in Servers /\ frame.body.yiaddr = frame.body.siaddr

\* The kernel gives itself no other address than the one it has requested, and
\* none before; the client looks at no transaction number, so that another
\* machine's acknowledgement is the exception.
AddressWasRequested ==
    networking_info \in {NoAddress, request_payload.yiaddr} \/ foreign

\* Every segment that goes out is one the peer accepts: it acknowledges the peer's
\* SYN and nothing else, continues the client's, and its checksum was made for the
\* address it carries, read a second time.  A SYN|ACK that comes once more after
\* the first was counted, and an address that comes late, are the exceptions.
SegmentsFit ==
    \A frame \in Sent("tcp", {"SYN", "ACK", "PSH|ACK"}) :
        /\ moved \/ frame.body.sum = frame.source
        /\ frame.body.flags # "SYN" /\ ~undone =>
              /\ frame.body.ack = NextSeq(PeerFirstSeq)
              /\ frame.body.seq \in {FirstData, NextSeq(FirstData)}

\* "while( send_dhcp_request == false )": if no frame is lost and no offer comes
\* amiss, dhcp_start returns and the machine gets the address it has asked for.
GetsAnAddress ==
    [](~lost /\ ~second) => <>(pc = "idle" /\ networking_info = request_payload.yiaddr)

\* tcp_test, called by a machine with an address, gets its message across, unless a
\* frame is lost or one of the two exceptions of SegmentsFit happens.
MessageArrives ==
    [](~lost /\ ~moved /\ ~undone) =>
        ((tcp_pc = "syn" /\ segment.sum # NoAddress) ~> peer.got)

-----------------------------------------------------------------------------
(***************************************************************************)
(* The inductive invariant: what the frames on their way may say, given    *)
(* where the kernel's code is, and what that leaves in its variables.      *)
(***************************************************************************)
TalkedTo == {"connected", "data", "sent"}

EnvironmentTypeOK ==
    /\ peer \in [state : {"listen", "syn_received", "established"},
                 address : Servers \cup {NoAddress, Neighbour}, got : BOOLEAN, said : BOOLEAN]
    /\ {lost, foreign, second, moved, undone} \subseteq BOOLEAN

\* A server's own offer; an acknowledgement of the request, once it is out.
DhcpAnswerFits(body) ==
    /\ body.type \in {"offer", "ack", "nak"}
    /\ {body.siaddr, body.yiaddr} \subseteq Servers \cup {NoAddress, Neighbour}
    /\ body.type = "offer" => body.siaddr \in Servers /\ body.yiaddr = body.siaddr
    /\ body.type = "ack" => foreign \/ (pc = "idle" /\ body.yiaddr = request_payload.yiaddr)

\* Only the SYN|ACK comes before the client's acknowledgement is out.
SegmentInFits(body) ==
    \/ /\ body.flags = "SYN|ACK" /\ tcp_pc \notin {"none", "syn"}
       /\ body.seq = PeerFirstSeq /\ body.ack = FirstData
    \/ /\ body.flags \in {"ACK", "PSH|ACK"} /\ tcp_pc \in TalkedTo
       /\ body.seq = NextSeq(PeerFirstSeq) /\ body.ack \in {FirstData, NextSeq(FirstData)}

AnswerFits(frame) ==
    \/ frame.protocol = "udp" /\ DhcpAnswerFits(frame.body)
    \/ frame.protocol = "tcp" /\ SegmentInFits(frame.body)

RequestFits(body) ==
    body.type = "discover"
    \/ /\ body.type = "request" /\ pc = "idle"
       /\ body.siaddr = request_payload.siaddr /\ body.yiaddr = request_payload.yiaddr

NumbersFit(body) ==
    undone \/ (body.ack = NextSeq(PeerFirstSeq) /\ body.seq \in {FirstData, NextSeq(FirstData)})

SegmentOutFits(body, source) ==
    /\ moved \/ body.sum = source
    /\ \/ body.flags = "SYN" /\ body.seq = FirstSeq /\ tcp_pc \notin {"none", "syn"}
       \/ body.flags \in {"ACK", "PSH|ACK"} /\ tcp_pc \in TalkedTo /\ NumbersFit(body)

FrameFits(frame) ==
    /\ frame.source \in Servers \cup {NoAddress, Neighbour}
    /\ \/ frame.protocol = "udp" /\ RequestFits(frame.body)
       \/ frame.protocol = "tcp" /\ SegmentOutFits(frame.body, frame.source)

FramesFit ==
    /\ \A frame \in in : AnswerFits(frame)
    /\ \A frame \in out : FrameFits(frame)

\* The packet dhcp_start goes on with is one server's, and so is what it has read
\* of it, unless another offer came in between.
OfferIsKept ==
    /\ send_dhcp_request => /\ dhcp_request_packet.siaddr \in Servers
                            /\ dhcp_request_packet.yiaddr = dhcp_request_packet.siaddr
    /\ pc \in {"siaddr", "yiaddr", "request", "idle"} => send_dhcp_request
    /\ pc = "yiaddr" => second \/ request_payload.siaddr = dhcp_request_packet.siaddr
    /\ pc \in {"request", "idle"} => \/ second
                                     \/ /\ request_payload.siaddr \in Servers
                                        /\ request_payload.yiaddr = request_payload.siaddr

AddressIsRequested ==
    networking_info # NoAddress =>
        foreign \/ (pc = "idle" /\ networking_info = request_payload.yiaddr)

PeerIsAnswered == peer.state = "established" => tcp_pc \in TalkedTo

\* What the connection's numbers are at each place of the code, and the header.
ConnectionFits ==
    /\ tcp_pc = "syn" => test_connection.state = "none"
    /\ tcp_pc = "increment" \/ (tcp_pc = "connecting" /\ test_connection.state = "SYN_ACK_RECV")
          => test_connection.ack = PeerFirstSeq /\ test_connection.seq = FirstData
    /\ tcp_pc \in TalkedTo \cup {"ack_header", "ack"} => NumbersFit(test_connection)

HeaderFits ==
    /\ tcp_pc \in {"syn", "ack", "data"} => moved \/ segment.sum = networking_info
    /\ tcp_pc = "syn" => segment.flags = "SYN" /\ segment.seq = FirstSeq
    /\ tcp_pc = "ack" => segment.flags = "ACK" /\ NumbersFit(segment)
    /\ tcp_pc = "data" => segment.flags = "PSH|ACK" /\ NumbersFit(segment)

NetInv ==
    /\ TypeOK /\ EnvironmentTypeOK
    /\ FramesFit
    /\ OfferIsKept /\ AddressIsRequested
    /\ PeerIsAnswered /\ ConnectionFits /\ HeaderFits
=============================================================================
