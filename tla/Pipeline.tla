------------------------------ MODULE Pipeline ------------------------------
(***************************************************************************)
(* pcap_packet_callback() of src/src/capture.c and handle_packet() of      *)
(* src/src/main.c: module Packet parses each packet that arrives, and      *)
(* module Stats counts what it left behind.  Stats takes for granted that  *)
(* the layers of a packet fit together; here nothing is taken for granted, *)
(* the packets are those the parser makes.                                 *)
(***************************************************************************)
EXTENDS Packet, FiniteSets

CONSTANTS
  Endpoint, WireLength,
  NS_MAX_FLOWS, hash_flow, NoKey, MaxOffered,
  MaxPackets, Shown, UINT64_MODULUS, NoReport

VARIABLES
  waiting,        \* in pcap_loop(), between two packets
  flows, flow_count, offered, count, captured_bytes, wire_bytes, report

statistics == <<flows, flow_count, offered, count, captured_bytes, wire_bytes, report>>
pipelineVars == <<vars, waiting, statistics>>

FlowProtocols == {"ARP", "TCP", "UDP", "ICMP", "ICMPV6"}

\* What ns_stats_update() is prepared for.
HandedOver ==
  {p \in [has_eth : BOOLEAN, malformed : BOOLEAN, network_proto : NetworkProto,
          transport_proto : TransportProto, has_dns : BOOLEAN,
          source : Endpoint, destination : Endpoint,
          captured_length : Length, original_length : WireLength] : WellFormed(p)}

\* The flow table and the counters.
S == INSTANCE Stats
       WITH Packets <- HandedOver, ByteCount <- Length, Protocol <- FlowProtocols

\* Flows of protocols without ports are recorded with port 0.
PortZeroIncluded == \A e \in Endpoint : [e EXCEPT !.port = 0] \in Endpoint

ASSUME PipelineAssumption ==
  /\ MaxPackets \in Nat /\ Shown \in Nat /\ MaxOffered \in Nat
  /\ UINT64_MODULUS \in Nat /\ MaxPackets < UINT64_MODULUS
  /\ NS_MAX_FLOWS \in Nat \ {0}
  /\ WireLength \subseteq Nat
  /\ Endpoint \subseteq [addr : Int, port : Int]
  /\ PortZeroIncluded
  /\ hash_flow \in [[protocol : FlowProtocols, a : Endpoint, b : Endpoint] -> Nat]

PipelineInit == Init /\ waiting = TRUE /\ S!StatsInit

\* libpcap delivers a packet; ns_packet_parse() clears the structure.
Arrive ==
  /\ waiting /\ report = NoReport /\ count["total_packets"] < MaxPackets
  /\ waiting' = FALSE
  /\ pc' = "ethernet" /\ length' \in Length /\ offset' = 0 /\ proto' = "OTHER" /\ i' = 0
  /\ has_eth' = FALSE /\ malformed' = FALSE /\ has_dns' = FALSE
  /\ network_proto' = "UNKNOWN" /\ transport_proto' = "UNKNOWN"
  /\ payload' = 0 /\ payload_length' = length'
  /\ extent' = 0 /\ later_fragment' = FALSE
  /\ UNCHANGED statistics

\* ns_packet_parse(), header by header
Parse == ~waiting /\ Next /\ UNCHANGED <<waiting, statistics>>

\* The packet as it is passed to handle_packet(); addresses, ports and the
\* length on the wire are not in module Packet.
Handed(x, y, n) ==
  [has_eth |-> has_eth, malformed |-> malformed, network_proto |-> network_proto,
   transport_proto |-> transport_proto, has_dns |-> has_dns,
   source |-> x, destination |-> y, captured_length |-> length, original_length |-> n]

\* handle_packet()
Count ==
  /\ ~waiting /\ pc = "done"
  /\ \E x, y \in Endpoint, n \in WireLength : S!ns_stats_update(Handed(x, y, n))
  /\ waiting' = TRUE
  /\ UNCHANGED vars

\* ns_stats_print() behind the loop
PrintReport == waiting /\ S!ns_stats_print /\ UNCHANGED <<vars, waiting>>

PipelineNext == Arrive \/ Parse \/ Count \/ PrintReport

PipelineSpec == PipelineInit /\ [][PipelineNext]_pipelineVars

-----------------------------------------------------------------------------
(* The statistics of parsed packets behave as module Stats says: every     *)
(* packet the parser hands over is one that ns_stats_update() is prepared  *)
(* for, so that what is shown of Stats holds in the program.               *)
StatisticsHold == S!StatsSpec

(* packet.c:59-64, stats.c:28-58: a later fragment of an IPv4 packet makes *)
(* no conversation and adds to none, since its ports are not known.        *)
FragmentsMakeNoFlow ==
  [][later_fragment /\ network_proto = "IPV4" => UNCHANGED <<flows, flow_count>>]_pipelineVars
=============================================================================
