---------------------------------- MODULE Ipv4 ----------------------------------
(***************************************************************************)
(* What every packet passes on its way out and in: ipv4_send with          *)
(* ethernet_send_packet below it (net/ipv4.c, net/ethernet.c, net/udp.c),  *)
(* and the kernel's own configuration, networking_info.                    *)
(*                                                                         *)
(* A frame is a record; headers, byte order and padding are left out.      *)
(* Packets that come in are handled by the card's interrupt handler, which *)
(* nothing of the kernel interrupts: see Network.                          *)
(***************************************************************************)
EXTENDS Naturals

CONSTANTS
    Servers,        \* DHCP servers the gateway passes a request on to
    NoAddress       \* the address 0.0.0.0, and a local variable not yet set

VARIABLES
    networking_info,    \* its ipv4_address, the only field anything reads again
    out,                \* frames sent by the kernel and not yet lost or taken
    in                  \* frames on their way to the kernel

\* A server offers one address, named by the server.
ASSUME NoAddressAssumption == NoAddress \notin Servers

\* The hardware address of every frame: the test for a broadcast compares with
\* 0xFFFFFF, which the callers' 0xFFFFFFFF is not, and the other two branches
\* fill in the same address.
dest_mac(dest) == IF dest = "0xFFFFFF" THEN "broadcast" ELSE "gateway"

\* The source is read from networking_info here, whatever the caller did before.
ipv4_send(dest, protocol, body) ==
    out' = out \cup {[mac |-> dest_mac(dest), source |-> networking_info,
                      protocol |-> protocol, body |-> body]}

udp_send(body) == ipv4_send("0xFFFFFFFF", "udp", body)
=============================================================================
