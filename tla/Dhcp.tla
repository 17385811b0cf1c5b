---------------------------------- MODULE Dhcp ----------------------------------
(***************************************************************************)
(* The DHCP client (net/dhcp.c).  dhcp_start runs once, at boot, with      *)
(* interrupts enabled; the packets are handled in the interrupt, which     *)
(* leaves an offer in dhcp_request_packet for dhcp_start to go on with.    *)
(* Neither the transaction number nor the hardware address of an answer is *)
(* looked at.                                                              *)
(***************************************************************************)
EXTENDS Ipv4

VARIABLES
    send_dhcp_request,      \* an offer has come
    dhcp_request_packet,    \* its header: siaddr and yiaddr
    request_payload,        \* the request dhcp_handle_offer_stage_2 puts together
    pc                      \* where the code outside of interrupts is

dhcp_vars == <<send_dhcp_request, dhcp_request_packet, request_payload>>

NoPacket == [siaddr |-> NoAddress, yiaddr |-> NoAddress]

Goto(from, to) == pc = from /\ pc' = to

-----------------------------------------------------------------------------
\* The flag is reset before the request goes out, so that no answer is missed.
dhcp_start ==
    /\ Goto("boot", "discover")
    /\ send_dhcp_request' = FALSE
    /\ UNCHANGED <<networking_info, out, dhcp_request_packet, request_payload>>

\* Wrong on purpose (see "mutants" in PROJECT.json): the flag is reset once the
\* request is out.
SendDiscover_ThenReset ==
    /\ \/ /\ Goto("discover", "reset")
          /\ udp_send([type |-> "discover"])
          /\ UNCHANGED send_dhcp_request
       \/ /\ Goto("reset", "offer")
          /\ send_dhcp_request' = FALSE
          /\ UNCHANGED out
    /\ UNCHANGED <<networking_info, dhcp_request_packet, request_payload>>

SendDiscover ==
    /\ Goto("discover", "offer")
    /\ udp_send([type |-> "discover"])
    /\ UNCHANGED <<networking_info, dhcp_vars>>

\* "do nothing, wait".  Nothing is sent again.
OfferHasCome ==
    /\ Goto("offer", "siaddr")
    /\ send_dhcp_request
    /\ UNCHANGED <<networking_info, out, dhcp_vars>>

\* dhcp_handle_offer_stage_2 reads the packet twice, and the next offer may come
\* in between.
ReadSiaddr ==
    /\ Goto("siaddr", "yiaddr")
    /\ request_payload' = [request_payload EXCEPT !.siaddr = dhcp_request_packet.siaddr]
    /\ UNCHANGED <<networking_info, out, send_dhcp_request, dhcp_request_packet>>

ReadYiaddr ==
    /\ Goto("yiaddr", "request")
    /\ request_payload' = [request_payload EXCEPT !.yiaddr = dhcp_request_packet.yiaddr]
    /\ UNCHANGED <<networking_info, out, send_dhcp_request, dhcp_request_packet>>

\* dhcp_start returns without waiting for the acknowledgement.
SendRequest ==
    /\ Goto("request", "idle")
    /\ udp_send([type |-> "request", siaddr |-> request_payload.siaddr,
                 yiaddr |-> request_payload.yiaddr])
    /\ UNCHANGED <<networking_info, dhcp_vars>>

-----------------------------------------------------------------------------
\* dhcp_process_packet, called with a packet for port 68.
dhcp_handle_offer(packet) ==
    /\ dhcp_request_packet' = [siaddr |-> packet.siaddr, yiaddr |-> packet.yiaddr]
    /\ send_dhcp_request' = TRUE
    /\ UNCHANGED networking_info

dhcp_handle_ack(packet) ==
    /\ networking_info' = packet.yiaddr
    /\ UNCHANGED <<send_dhcp_request, dhcp_request_packet>>

\* Wrong on purpose (see "mutants" in PROJECT.json): every answer is kept.
dhcp_process_packet_KeepsAll(packet) ==
    /\ dhcp_request_packet' = [siaddr |-> packet.siaddr, yiaddr |-> packet.yiaddr]
    /\ send_dhcp_request' = (send_dhcp_request \/ packet.type = "offer")
    /\ networking_info' = IF packet.type = "ack" THEN packet.yiaddr ELSE networking_info

\* Wrong on purpose (see "mutants" in PROJECT.json): an offer is taken for granted.
dhcp_process_packet_FallsThrough(packet) ==
    /\ dhcp_request_packet' = [siaddr |-> packet.siaddr, yiaddr |-> packet.yiaddr]
    /\ send_dhcp_request' = TRUE
    /\ networking_info' = packet.yiaddr

dhcp_process_packet(packet) ==
    CASE packet.type = "offer" -> dhcp_handle_offer(packet)
      [] packet.type = "ack" -> dhcp_handle_ack(packet)
      [] OTHER -> UNCHANGED <<networking_info, send_dhcp_request, dhcp_request_packet>>
=============================================================================
