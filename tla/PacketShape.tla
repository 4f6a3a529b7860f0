---------------------------- MODULE PacketShape ----------------------------
(***************************************************************************)
(* The layers of an ns_packet_t (include/netscope/packet.h) that the rest  *)
(* of the program branches on.  Packet shows that ns_packet_parse() only   *)
(* produces well-formed combinations; Stats relies on it.                  *)
(***************************************************************************)

NetworkProto == {"UNKNOWN", "IPV4", "IPV6", "ARP"}
TransportProto == {"UNKNOWN", "TCP", "UDP", "ICMP", "ICMPV6"}

Layers == [has_eth : BOOLEAN, malformed : BOOLEAN, network_proto : NetworkProto,
           transport_proto : TransportProto, has_dns : BOOLEAN]

\* Each layer presupposes the one below it, and a packet is malformed where
\* its decoding stopped: no transport layer was decoded above the damage.
WellFormed(p) ==
  /\ ~p.has_eth => p.malformed /\ p.network_proto = "UNKNOWN"
  /\ p.transport_proto # "UNKNOWN" => p.network_proto \in {"IPV4", "IPV6"} /\ ~p.malformed
  /\ p.network_proto = "ARP" => ~p.malformed
  /\ p.has_dns => p.transport_proto \in {"TCP", "UDP"}
=============================================================================
