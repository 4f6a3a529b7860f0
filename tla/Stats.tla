------------------------------- MODULE Stats -------------------------------
(***************************************************************************)
(* ns_stats_t of src/src/stats.c: the counters together with the flow      *)
(* table, and the report made of them when the capture ends.               *)
(*                                                                         *)
(* The packets are those ns_packet_parse() can produce: module Packet      *)
(* shows that their layers are well-formed.                                *)
(***************************************************************************)
EXTENDS FlowTable, PacketShape, FiniteSetsExt

CONSTANTS
  Packets,          \* packets that occur: layers, endpoints and lengths
  MaxPackets,       \* bound: packets counted
  Shown,            \* conversations listed, 10 in stats.c:251
  UINT64_MODULUS,   \* 2^64
  NoReport

VARIABLES
  count,            \* the packet counters of ns_stats_t, by name
  captured_bytes, wire_bytes,
  report            \* what ns_stats_print() computes

statsVars == <<flows, flow_count, offered, count, captured_bytes, wire_bytes, report>>

TransportCounter == {"tcp_packets", "udp_packets", "icmp_packets", "icmpv6_packets"}
Counter == TransportCounter \cup
  {"total_packets", "ipv4_packets", "ipv6_packets", "arp_packets", "dns_packets",
   "malformed_packets", "unsupported_packets"}

-----------------------------------------------------------------------------
\* Mutant: ARP is not a flow.
HasFlowIpOnly(p) == p.network_proto \in {"IPV4", "IPV6"} /\ p.transport_proto # "UNKNOWN"

\* extract_endpoints(): which packets belong to a flow, and its key.
HasFlow(p) == \/ p.network_proto = "ARP"
              \/ p.network_proto \in {"IPV4", "IPV6"} /\ p.transport_proto # "UNKNOWN"

FlowProtocol(p) == IF p.network_proto = "ARP" THEN "ARP" ELSE p.transport_proto

\* Only TCP and UDP have ports; they stay 0 for the others.
EndpointOf(p, e) == IF FlowProtocol(p) \in {"TCP", "UDP"} THEN e ELSE [e EXCEPT !.port = 0]

ASSUME StatsAssumption ==
  /\ MaxPackets \in Nat /\ Shown \in Nat
  /\ UINT64_MODULUS \in Nat /\ MaxPackets < UINT64_MODULUS
  /\ \A p \in Packets :
       /\ WellFormed(p)
       /\ p.has_eth \in BOOLEAN /\ p.malformed \in BOOLEAN /\ p.has_dns \in BOOLEAN
       /\ p.network_proto \in NetworkProto /\ p.transport_proto \in TransportProto
       /\ p.captured_length \in ByteCount /\ p.original_length \in Nat
       /\ HasFlow(p) => /\ FlowProtocol(p) \in Protocol
                        /\ EndpointOf(p, p.source) \in Endpoint
                        /\ EndpointOf(p, p.destination) \in Endpoint

\* Mutant: a missing break lets IPv6 fall through to ARP.
NetworkCounterFallsThrough(p, c) ==
  \/ c = "ipv4_packets" /\ p.network_proto = "IPV4"
  \/ c = "ipv6_packets" /\ p.network_proto = "IPV6"
  \/ c = "arp_packets" /\ p.network_proto \in {"ARP", "IPV6"}
  \/ c = "unsupported_packets" /\ p.network_proto = "UNKNOWN" /\ p.has_eth /\ ~p.malformed

\* The switch over network_proto of ns_stats_update().
NetworkCounter(p, c) ==
  \/ c = "ipv4_packets" /\ p.network_proto = "IPV4"
  \/ c = "ipv6_packets" /\ p.network_proto = "IPV6"
  \/ c = "arp_packets" /\ p.network_proto = "ARP"
  \/ c = "unsupported_packets" /\ p.network_proto = "UNKNOWN" /\ p.has_eth /\ ~p.malformed

\* The switch over transport_proto.
TransportCounted(p, c) ==
  \/ c = "tcp_packets" /\ p.transport_proto = "TCP"
  \/ c = "udp_packets" /\ p.transport_proto = "UDP"
  \/ c = "icmp_packets" /\ p.transport_proto = "ICMP"
  \/ c = "icmpv6_packets" /\ p.transport_proto = "ICMPV6"

Counted(p, c) ==
  \/ c = "total_packets"
  \/ c = "malformed_packets" /\ p.malformed
  \/ NetworkCounter(p, c)
  \/ TransportCounted(p, c)
  \/ c = "dns_packets" /\ p.has_dns

ns_stats_update(p) ==
  /\ report = NoReport
  /\ count["total_packets"] < MaxPackets
  /\ count' = [c \in Counter |-> IF Counted(p, c) THEN count[c] + 1 ELSE count[c]]
  /\ captured_bytes' = captured_bytes + p.captured_length
  /\ wire_bytes' = wire_bytes + p.original_length
  /\ \/ /\ HasFlow(p)
        /\ record_flow(FlowProtocol(p), EndpointOf(p, p.source), EndpointOf(p, p.destination),
                       p.captured_length)
     \/ ~HasFlow(p) /\ UNCHANGED tableVars
  /\ UNCHANGED report

-----------------------------------------------------------------------------
\* Mutant: malformed packets are taken out as well.
OtherMinusMalformed ==
  (count["total_packets"] - count["tcp_packets"] - count["udp_packets"]
     - count["icmp_packets"] - count["icmpv6_packets"] - count["arp_packets"]
     - count["malformed_packets"]) % UINT64_MODULUS

\* "Other", an unsigned subtraction.
Other == (count["total_packets"] - count["tcp_packets"] - count["udp_packets"]
            - count["icmp_packets"] - count["icmpv6_packets"] - count["arp_packets"])
         % UINT64_MODULUS

\* Mutant: compare_flow_ptrs_desc() has its results swapped.
SortedAscending(order) ==
  \A i, j \in DOMAIN order : i < j => flows[order[i]].bytes <= flows[order[j]].bytes

\* qsort() with compare_flow_ptrs_desc(); flows of equal size come in any order.
SortedDescending(order) ==
  \A i, j \in DOMAIN order : i < j => flows[order[i]].bytes >= flows[order[j]].bytes

\* The first of the flows in use; no list at all when flow_count is 0.
Listed(order) ==
  IF flow_count = 0 THEN << >>
  ELSE [i \in {j \in DOMAIN order : j <= Shown} |-> order[i]]

ns_stats_print ==
  /\ report = NoReport
  /\ \E order \in [1 .. Cardinality(Used) -> Used] :
       /\ \A i, j \in DOMAIN order : order[i] = order[j] => i = j
       /\ SortedDescending(order)
       /\ report' = [other |-> Other, top |-> Listed(order)]
  /\ UNCHANGED <<tableVars, count, captured_bytes, wire_bytes>>

StatsInit ==
  /\ Init
  /\ count = [c \in Counter |-> 0]
  /\ captured_bytes = 0 /\ wire_bytes = 0
  /\ report = NoReport

StatsNext == (\E p \in Packets : ns_stats_update(p)) \/ ns_stats_print

StatsSpec == StatsInit /\ [][StatsNext]_statsVars

-----------------------------------------------------------------------------
(* Type invariant of the counters and the report.                          *)
StatsTypeOK ==
  /\ TypeOK
  /\ count \in [Counter -> Nat]
  /\ captured_bytes \in Nat /\ wire_bytes \in Nat
  /\ \/ report = NoReport
     \/ /\ report.other \in 0 .. UINT64_MODULUS - 1
        /\ \E n \in 0 .. Shown : report.top \in [1 .. n -> Slots]

(* Every packet is counted in the network layer, as unsupported or as      *)
(* malformed, and in the first two at most once.                           *)
EveryPacketClassified ==
  LET classified == count["ipv4_packets"] + count["ipv6_packets"] + count["arp_packets"]
                      + count["unsupported_packets"]
  IN  /\ classified <= count["total_packets"]
      /\ count["total_packets"] <= classified + count["malformed_packets"]

(* stats.c:215: the subtraction never wraps around, and what it leaves     *)
(* includes every malformed and every unsupported packet: none of those is *)
(* also counted as TCP, UDP, ICMP, ICMPv6 or ARP.                          *)
OtherIsWhatIsLeft ==
  report # NoReport =>
    /\ report.other <= count["total_packets"]
    /\ count["unsupported_packets"] + count["malformed_packets"] <= report.other

(* No DNS message is counted without the TCP or UDP packet that carried it.*)
DnsWithinTransport == count["dns_packets"] <= count["tcp_packets"] + count["udp_packets"]

\* The sum of f over a set of its arguments, and what the flows in use hold.
Total(f, S) == MapThenSumSet(LAMBDA x : f[x], S)
FlowPackets == Total([s \in Slots |-> flows[s].packets], Used)
FlowBytes == Total([s \in Slots |-> flows[s].bytes], Used)

(* The flows account for the traffic: together they hold every packet that *)
(* has a transport protocol or is ARP until the table is full, and never   *)
(* more than that, nor more bytes than were captured.                      *)
FlowsAccountForTraffic ==
  LET carried == count["arp_packets"] + Total(count, TransportCounter)
  IN  /\ FlowPackets <= carried /\ FlowBytes <= captured_bytes
      /\ flow_count < NS_MAX_FLOWS => FlowPackets = carried

(* The report lists as many flows as it has room for, no conversation      *)
(* twice, and the largest there were: a conversation is listed, carried no *)
(* more than any flow that is, or never got a slot because the table was   *)
(* full.                                                                   *)
TopIsTop ==
  report # NoReport =>
    /\ \A n \in 1 .. Shown : n \in DOMAIN report.top <=> n <= flow_count
    /\ \A i, j \in DOMAIN report.top :
         ConversationOfKey(flows[report.top[i]].key) = ConversationOfKey(flows[report.top[j]].key)
           => i = j
    /\ \A c \in Conversation, i \in DOMAIN report.top :
         \/ \E j \in 1 .. i : ConversationOfKey(flows[report.top[j]].key) = c
         \/ offered[c].bytes <= flows[report.top[i]].bytes
         \/ /\ flow_count = NS_MAX_FLOWS
            /\ \A s \in Used : ConversationOfKey(flows[s].key) # c
=============================================================================
