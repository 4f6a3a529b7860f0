--------------------------- MODULE PipelineProofs ---------------------------
(***************************************************************************)
(* The parser: for every packet length and every header budget no parser   *)
(* reads past the captured bytes, and the layers it leaves behind fit      *)
(* together.  Then the parser and the statistics: the proofs about the     *)
(* parser give what the proofs about the statistics assume.                *)
(***************************************************************************)
EXTENDS Pipeline, TLAPS

\* The layers one by one, as the provers want them.
LayerTypes ==
  /\ has_eth \in BOOLEAN /\ malformed \in BOOLEAN /\ has_dns \in BOOLEAN
  /\ network_proto \in NetworkProto /\ transport_proto \in TransportProto
  /\ later_fragment \in BOOLEAN

FitTogether ==
  /\ ~has_eth => malformed /\ network_proto = "UNKNOWN"
  /\ transport_proto # "UNKNOWN" => network_proto \in {"IPV4", "IPV6"} /\ ~malformed
  /\ network_proto = "ARP" => ~malformed
  /\ has_dns => transport_proto \in {"TCP", "UDP"}

\* No layer above Ethernet is decoded yet.
Bare == network_proto = "UNKNOWN" /\ transport_proto = "UNKNOWN" /\ ~has_dns /\ ~malformed

\* What the layers are when each parser is called.
LayersInv ==
  /\ LayerTypes
  /\ pc = "ethernet" => Bare /\ ~has_eth
  /\ pc \in {"arp", "ipv4", "ipv6"} => Bare /\ has_eth
  /\ pc \in {"extension", "transport"} =>
       /\ has_eth /\ ~malformed /\ ~has_dns /\ transport_proto = "UNKNOWN"
       /\ network_proto \in {"IPV4", "IPV6"}
  /\ pc = "extension" => network_proto = "IPV6"
  /\ pc = "dns" =>
       /\ has_eth /\ ~malformed /\ network_proto \in {"IPV4", "IPV6"}
       /\ transport_proto \in {"TCP", "UDP"}
  /\ pc = "done" => FitTogether

\* The transport parsers are not called on a later IPv4 fragment.
FragmentInv ==
  /\ LaterIpv4FragmentOpaque
  /\ pc \in {"transport", "dns"} /\ network_proto = "IPV4" => ~later_fragment

\* Where the parsers stand in the captured bytes.
BytesInv ==
  /\ pc \in {"ethernet", "arp", "ipv4", "ipv6", "extension", "transport", "dns", "done"}
  /\ length \in Length /\ offset \in Nat /\ extent \in Nat
  /\ proto \in NextHeader
  /\ i \in 0 .. NS_IPV6_MAX_EXTENSION_HEADERS
  /\ payload \in Int /\ payload_length \in Nat
  /\ pc = "ethernet" => offset = 0
  /\ ReadsInBounds /\ PayloadIsTail

PacketInv == BytesInv /\ LayersInv /\ FragmentInv

(* The layers have their types exactly when the packet record does.        *)
LEMMA PacketTypes == LayerTypes <=> packet \in Layers /\ later_fragment \in BOOLEAN
BY DEF LayerTypes, packet, Layers

(* FitTogether is WellFormed of the packet record.                         *)
LEMMA PacketWellFormed == FitTogether <=> WellFormed(packet)
BY DEF packet, WellFormed, FitTogether

(* The invariant holds when ns_packet_parse() starts.                      *)
LEMMA InitInv == Init => PacketInv
<1> SUFFICES ASSUME Init PROVE PacketInv OBVIOUS
<1>1. BytesInv
  BY PacketAssumption DEF Init, BytesInv, ReadsInBounds, PayloadIsTail, NextHeader
<1>2. LayersInv
  BY Zenon DEF Init, LayersInv, LayerTypes, Bare, NetworkProto, TransportProto
<1>3. FragmentInv
  BY DEF Init, FragmentInv, LaterIpv4FragmentOpaque
<1> QED BY <1>1, <1>2, <1>3 DEF PacketInv

\* UNCHANGED, as an equivalence between Booleans.
Kept(b) == b' <=> b

(* MarkMalformed leaves the layers below the damage as they were.          *)
LEMMA MalformedStep ==
  ASSUME NEW size, MarkMalformed(size), LayersInv, FragmentInv,
         pc \in {"ethernet", "arp", "ipv4", "ipv6", "extension", "transport"}
  PROVE  LayersInv' /\ FragmentInv'
<1>1. /\ pc' = "done" /\ malformed' /\ Kept(has_eth) /\ Kept(has_dns) /\ Kept(later_fragment)
      /\ network_proto' = network_proto /\ transport_proto' = transport_proto
  BY Zenon DEF MarkMalformed, Kept
<1>2. LayerTypes'
  BY Zenon DEF MarkMalformed, LayersInv, LayerTypes
<1> QED
  BY <1>1, <1>2 DEF Kept, LayersInv, FragmentInv, Bare, FitTogether, LaterIpv4FragmentOpaque

(* EnterNetwork decodes the network layer on top of Ethernet.              *)
LEMMA EnterNetworkStep ==
  ASSUME NEW net \in {"IPV4", "IPV6"}, NEW size, NEW to, NEW next, NEW later \in BOOLEAN,
         EnterNetwork(net, size, to, next, later), LayersInv, pc \in {"ipv4", "ipv6"},
         to = "done" \/ (to = "transport" /\ ~later) \/ (to = "extension" /\ net = "IPV6")
  PROVE  LayersInv' /\ FragmentInv'
<1>1. /\ pc' = to /\ Kept(malformed) /\ Kept(has_eth) /\ Kept(has_dns)
      /\ later_fragment' <=> later
      /\ network_proto' = net /\ transport_proto' = transport_proto
  BY Zenon DEF EnterNetwork, Kept
<1>2. has_eth' \in BOOLEAN /\ malformed' \in BOOLEAN /\ has_dns' \in BOOLEAN
      /\ later_fragment' \in BOOLEAN
  BY Zenon DEF EnterNetwork, LayersInv, LayerTypes
<1> QED
  BY <1>1, <1>2 DEF Kept, LayersInv, LayerTypes, FragmentInv, Bare, FitTogether,
                    LaterIpv4FragmentOpaque, NetworkProto, TransportProto

(* A transport protocol is recorded on top of the network layer.           *)
LEMMA TransportStep ==
  ASSUME NEW transport \in {"TCP", "UDP", "ICMP", "ICMPV6"},
         pc = "transport", LayersInv, FragmentInv,
         pc' = "done" \/ (pc' = "dns" /\ transport \in {"TCP", "UDP"}),
         transport_proto' = transport,
         UNCHANGED <<has_eth, malformed, network_proto, has_dns, later_fragment>>
  PROVE  LayersInv' /\ FragmentInv'
<1>1. /\ Kept(malformed) /\ Kept(has_eth) /\ Kept(has_dns) /\ Kept(later_fragment)
      /\ network_proto' = network_proto
  BY Zenon DEF Kept
<1>2. has_eth' \in BOOLEAN /\ malformed' \in BOOLEAN /\ has_dns' \in BOOLEAN
      /\ later_fragment' \in BOOLEAN
  BY Zenon DEF LayersInv, LayerTypes
<1> QED
  BY <1>1, <1>2 DEF Kept, LayersInv, LayerTypes, FragmentInv, FitTogether,
                    LaterIpv4FragmentOpaque, NetworkProto, TransportProto

(* StepOver changes no layer of an IPv6 packet.                            *)
LEMMA StepOverStep ==
  ASSUME NEW size, NEW next, NEW later \in BOOLEAN, StepOver(size, next, later),
         pc = "extension", LayersInv, FragmentInv
  PROVE  LayersInv' /\ FragmentInv'
<1>1. /\ pc' = pc /\ Kept(malformed) /\ Kept(has_eth) /\ Kept(has_dns)
      /\ later_fragment' <=> later
      /\ network_proto' = network_proto /\ transport_proto' = transport_proto
  BY Zenon DEF StepOver, Kept, layers
<1>2. LayerTypes'
  BY Zenon DEF StepOver, LayersInv, LayerTypes, layers
<1> QED
  BY <1>1, <1>2 DEF Kept, LayersInv, FragmentInv, LaterIpv4FragmentOpaque

(* Where each action can take the layers.                                  *)
LEMMA LayersStep ==
  ASSUME LayersInv, FragmentInv, Next
  PROVE  LayersInv' /\ FragmentInv'
<1> DEFINE Goal == LayersInv' /\ FragmentInv'
<1>1. CASE ParseEthernet
  <2>m. ASSUME NEW size, MarkMalformed(size) PROVE Goal
    BY <1>1, <2>m, MalformedStep DEF ParseEthernet
  <2>1. ASSUME NEW parser \in {"ipv4", "ipv6", "arp", "done"}, pc' = parser, has_eth' = TRUE,
               UNCHANGED <<malformed, network_proto, transport_proto, has_dns, later_fragment>>
        PROVE  Goal
    <3>1. /\ has_eth' /\ Kept(malformed) /\ Kept(has_dns) /\ Kept(later_fragment)
          /\ network_proto' = network_proto /\ transport_proto' = transport_proto
      BY <2>1, Zenon DEF Kept
    <3>2. LayerTypes'
      BY <2>1, Zenon DEF LayersInv, LayerTypes
    <3> QED
      BY <1>1, <2>1, <3>1, <3>2 DEF ParseEthernet, Kept, LayersInv, FragmentInv, Bare,
                                    FitTogether, LaterIpv4FragmentOpaque
  <2> QED BY <1>1, <2>m, <2>1, Zenon DEF ParseEthernet
<1>2. CASE ParseArp
  <2>m. ASSUME NEW size, MarkMalformed(size) PROVE Goal
    BY <1>2, <2>m, MalformedStep DEF ParseArp
  <2>1. ASSUME pc' = "done", network_proto' \in {network_proto, "ARP"},
               UNCHANGED <<has_eth, malformed, transport_proto, has_dns, later_fragment>>
        PROVE  Goal
    <3>1. /\ Kept(has_eth) /\ Kept(malformed) /\ Kept(has_dns) /\ Kept(later_fragment)
          /\ transport_proto' = transport_proto
      BY <2>1, Zenon DEF Kept
    <3>2. has_eth' \in BOOLEAN /\ malformed' \in BOOLEAN /\ has_dns' \in BOOLEAN
          /\ later_fragment' \in BOOLEAN
      BY <2>1, Zenon DEF LayersInv, LayerTypes
    <3> QED
      BY <1>2, <2>1, <3>1, <3>2 DEF ParseArp, Kept, LayersInv, LayerTypes, FragmentInv, Bare,
                  FitTogether, LaterIpv4FragmentOpaque, NetworkProto, TransportProto
  <2> QED BY <1>2, <2>m, <2>1, Zenon DEF ParseArp, layers
<1>3. CASE ParseIpv4
  <2>m. ASSUME NEW size, MarkMalformed(size) PROVE Goal
    BY <1>3, <2>m, MalformedStep DEF ParseIpv4
  <2>1. ASSUME NEW size, NEW next, NEW later \in BOOLEAN,
               EnterNetwork("IPV4", size, AfterIpv4(later), next, later)
        PROVE  Goal
    <3>1. AfterIpv4(later) = "done" \/ (AfterIpv4(later) = "transport" /\ ~later)
      BY Zenon DEF AfterIpv4
    <3> QED BY <1>3, <2>1, <3>1, EnterNetworkStep, Zenon DEF ParseIpv4
  <2> QED BY <1>3, <2>m, <2>1, Zenon DEF ParseIpv4
<1>4. CASE ParseIpv6
  <2>m. ASSUME NEW size, MarkMalformed(size) PROVE Goal
    BY <1>4, <2>m, MalformedStep DEF ParseIpv6
  <2>1. ASSUME NEW size, NEW next, EnterNetwork("IPV6", size, "extension", next, FALSE)
        PROVE  Goal
    BY <1>4, <2>1, EnterNetworkStep, Zenon DEF ParseIpv6
  <2> QED BY <1>4, <2>m, <2>1, Zenon DEF ParseIpv6
<1>5. CASE SkipOptions
  <2>m. ASSUME NEW size, MarkMalformed(size) PROVE Goal
    BY <1>5, <2>m, MalformedStep DEF SkipOptions
  <2>1. later_fragment \in BOOLEAN BY DEF LayersInv, LayerTypes
  <2>2. ASSUME NEW size, NEW next, StepOver(size, next, later_fragment) PROVE Goal
    BY <1>5, <2>1, <2>2, StepOverStep, Zenon DEF SkipOptions, Goal
  <2> QED BY <1>5, <2>m, <2>2, Zenon DEF SkipOptions, ChainInvalid
<1>6. CASE SkipFragment
  <2>m. ASSUME NEW size, MarkMalformed(size) PROVE Goal
    BY <1>6, <2>m, MalformedStep DEF SkipFragment
  <2>1. ASSUME NEW later \in BOOLEAN PROVE (later_fragment \/ later) \in BOOLEAN OBVIOUS
  <2>2. ASSUME NEW size, NEW next, NEW later \in BOOLEAN,
               StepOver(size, next, later_fragment \/ later)
        PROVE  Goal
    BY <1>6, <2>1, <2>2, StepOverStep, Zenon DEF SkipFragment
  <2> QED BY <1>6, <2>m, <2>2, Zenon DEF SkipFragment, ChainInvalid
<1>7. CASE EndOfChain
  <2>m. ASSUME NEW size, MarkMalformed(size) PROVE Goal
    BY <1>7, <2>m, MalformedStep DEF EndOfChain
  <2>1. ASSUME pc' = "transport", UNCHANGED <<layers, later_fragment>> PROVE Goal
    BY <1>7, <2>1 DEF EndOfChain, LayersInv, LayerTypes, FragmentInv, LaterIpv4FragmentOpaque,
                      layers
  <2> QED BY <1>7, <2>m, <2>1, Zenon DEF EndOfChain, ChainInvalid
<1>8. CASE ParseTcp
  <2>m. ASSUME NEW size, MarkMalformed(size) PROVE Goal
    BY <1>8, <2>m, MalformedStep DEF ParseTcp
  <2>1. ASSUME NEW size, NEW to \in {"dns", "done"}, EnterTransport("TCP", size, to) PROVE Goal
    BY <1>8, <2>1, TransportStep, Zenon DEF ParseTcp, EnterTransport
  <2> QED BY <1>8, <2>m, <2>1, Zenon DEF ParseTcp
<1>9. CASE ParseUdp
  <2>m. ASSUME NEW size, MarkMalformed(size) PROVE Goal
    BY <1>9, <2>m, MalformedStep DEF ParseUdp
  <2>1. ASSUME NEW size, NEW to \in {"dns", "done"}, EnterTransport("UDP", size, to) PROVE Goal
    BY <1>9, <2>1, TransportStep, Zenon DEF ParseUdp, EnterTransport
  <2> QED BY <1>9, <2>m, <2>1, Zenon DEF ParseUdp
<1>10. ASSUME NEW transport \in {"ICMP", "ICMPV6"}, IcmpHeader(transport) PROVE Goal
  <2>m. ASSUME NEW size, MarkMalformed(size) PROVE Goal
    BY <1>10, <2>m, MalformedStep DEF IcmpHeader
  <2>1. ASSUME pc' = "done", transport_proto' = transport,
               UNCHANGED <<has_eth, malformed, network_proto, has_dns, later_fragment>>
        PROVE  Goal
    BY <1>10, <2>1, TransportStep, Zenon DEF IcmpHeader
  <2> QED BY <1>10, <2>m, <2>1, Zenon DEF IcmpHeader
<1>11. CASE ParseOther
  BY <1>11 DEF ParseOther, LayersInv, LayerTypes, FitTogether, FragmentInv,
               LaterIpv4FragmentOpaque, layers
<1>12. CASE ParseDns
  <2>1. /\ Kept(malformed) /\ Kept(has_eth) /\ Kept(later_fragment)
        /\ network_proto' = network_proto /\ transport_proto' = transport_proto
    BY <1>12, Zenon DEF ParseDns, Kept
  <2>2. LayerTypes'
    BY <1>12, Zenon DEF ParseDns, InBounds, LayersInv, LayerTypes
  <2> QED
    BY <1>12, <2>1, <2>2 DEF ParseDns, Kept, LayersInv, FragmentInv, FitTogether,
                             LaterIpv4FragmentOpaque
<1> QED BY <1>1, <1>2, <1>3, <1>4, <1>5, <1>6, <1>7, <1>8, <1>9, <1>10, <1>11, <1>12
        DEF Next, ParseIcmp, ParseIcmpv6

(* No action reads, steps or points past the captured bytes.               *)
LEMMA BytesStep ==
  ASSUME BytesInv, Next
  PROVE  BytesInv'
<1> USE PacketAssumption
    DEF BytesInv, ReadsInBounds, PayloadIsTail, layers, view, InBounds, Reads, SetPayload
<1>1. CASE ParseEthernet
  BY <1>1 DEF ParseEthernet, MarkMalformed, NS_ETH_HEADER_LEN, NS_VLAN_TAG_LEN
<1>2. CASE ParseArp
  BY <1>2 DEF ParseArp, MarkMalformed, NS_ARP_HEADER_LEN, NS_ARP_BODY_LEN
<1>3. CASE ParseIpv4
  <2>1. pc' \in {"transport", "done"} /\ proto' \in NextHeader
    BY <1>3 DEF ParseIpv4, MarkMalformed, EnterNetwork, AfterIpv4
  <2> QED BY <1>3, <2>1 DEF ParseIpv4, MarkMalformed, EnterNetwork, NS_IPV4_MIN_HEADER_LEN
<1>4. CASE ParseIpv6
  BY <1>4 DEF ParseIpv6, MarkMalformed, EnterNetwork, NS_IPV6_HEADER_LEN
<1>5. CASE SkipOptions
  <2>1. ASSUME NEW size \in {0, 2}, InBounds(size), ChainInvalid(size) PROVE BytesInv'
    BY <2>1 DEF ChainInvalid, MarkMalformed
  <2>2. ASSUME NEW size \in Nat, NEW next \in NextHeader, StepOver(size, next, later_fragment)
        PROVE  BytesInv'
    <3>1. pc = "extension" /\ i < NS_IPV6_MAX_EXTENSION_HEADERS BY <1>5 DEF SkipOptions
    <3>2. /\ InBounds(size) /\ Reads(size) /\ offset' = offset + size
          /\ proto' = next /\ i' = i + 1
          /\ UNCHANGED <<pc, length, payload, payload_length>>
      BY <2>2 DEF StepOver
    <3> QED BY <3>1, <3>2
  <2>3. InBounds(0) OBVIOUS
  <2>4. \A units \in 0 .. 255 : 8 * (units + 1) \in Nat OBVIOUS
  <2> QED BY <1>5, <2>1, <2>2, <2>3, <2>4, Zenon DEF SkipOptions
<1>6. CASE SkipFragment
  BY <1>6 DEF SkipFragment, StepOver, ChainInvalid, MarkMalformed
<1>7. CASE EndOfChain
  BY <1>7 DEF EndOfChain, ChainInvalid, MarkMalformed
<1>8. CASE ParseTcp
  BY <1>8 DEF ParseTcp, MarkMalformed, EnterTransport, NS_TCP_MIN_HEADER_LEN
<1>9. CASE ParseUdp
  BY <1>9 DEF ParseUdp, MarkMalformed, EnterTransport, NS_UDP_HEADER_LEN
<1>10. CASE ParseIcmp \/ ParseIcmpv6
  BY <1>10 DEF ParseIcmp, ParseIcmpv6, IcmpHeader, MarkMalformed
<1>11. CASE ParseOther
  BY <1>11 DEF ParseOther
<1>12. CASE ParseDns
  BY <1>12 DEF ParseDns
<1> QED BY <1>1, <1>2, <1>3, <1>4, <1>5, <1>6, <1>7, <1>8, <1>9, <1>10, <1>11, <1>12 DEF Next

(* The inductive invariant of the packet parser.                           *)
THEOREM PacketInvariant == Spec => []PacketInv
<1>1. PacketInv /\ [Next]_vars => PacketInv'
  <2> SUFFICES ASSUME PacketInv, [Next]_vars PROVE PacketInv' OBVIOUS
  <2>1. CASE Next BY <2>1, LayersStep, BytesStep DEF PacketInv
  <2>2. CASE UNCHANGED vars
    <3>1. BytesInv'
      BY <2>2 DEF PacketInv, BytesInv, ReadsInBounds, PayloadIsTail, vars, layers, view
    <3>2. LayersInv' /\ FragmentInv'
      BY <2>2 DEF PacketInv, LayersInv, LayerTypes, FitTogether, FragmentInv, Bare,
                  LaterIpv4FragmentOpaque, vars, layers, view
    <3> QED BY <3>1, <3>2 DEF PacketInv
  <2> QED BY <2>1, <2>2
<1> QED BY InitInv, <1>1, PTL DEF Spec

(* Type correctness of the packet parser.                                  *)
THEOREM TypeCorrect == Spec => []TypeOK
<1>1. PacketInv => TypeOK
  BY PacketTypes DEF PacketInv, BytesInv, LayersInv, TypeOK
<1> QED BY PacketInvariant, <1>1, PTL

(* However long the packet and whatever its headers claim, ns_packet_parse *)
(* reads only captured bytes, and no length - offset wraps around.         *)
THEOREM NoOverread == Spec => []ReadsInBounds
<1>1. PacketInv => ReadsInBounds BY DEF PacketInv, BytesInv
<1> QED BY PacketInvariant, <1>1, PTL

(* The payload is always the tail of the captured bytes.                   *)
THEOREM PayloadTail == Spec => []PayloadIsTail
<1>1. PacketInv => PayloadIsTail BY DEF PacketInv, BytesInv
<1> QED BY PacketInvariant, <1>1, PTL

(* Every packet handed to the callback has layers that fit together, which *)
(* is what ns_stats_update() relies on.                                    *)
THEOREM HandsOverWellFormed == Spec => []LayersWellFormed
<1>1. PacketInv => LayersWellFormed
  BY PacketWellFormed DEF PacketInv, LayersInv, LayersWellFormed
<1> QED BY PacketInvariant, <1>1, PTL

(* No ports or flags are read out of a later IPv4 fragment.                *)
THEOREM Ipv4FragmentOpaque == Spec => []LaterIpv4FragmentOpaque
<1>1. PacketInv => LaterIpv4FragmentOpaque BY DEF PacketInv, FragmentInv
<1> QED BY PacketInvariant, <1>1, PTL

-----------------------------------------------------------------------------
\* How many parsers can still be called: at most one of each layer, and one
\* iteration of the walk for each extension header that is left.
StepsLeft ==
  CASE pc = "ethernet" -> NS_IPV6_MAX_EXTENSION_HEADERS + 5
    [] pc \in {"arp", "ipv4", "ipv6"} -> NS_IPV6_MAX_EXTENSION_HEADERS - i + 4
    [] pc = "extension" -> NS_IPV6_MAX_EXTENSION_HEADERS - i + 3
    [] pc = "transport" -> 2
    [] pc = "dns" -> 1
    [] OTHER -> 0

(* Each call of a parser, and each iteration of the walk, leaves fewer.    *)
LEMMA ParserAdvances ==
  ASSUME BytesInv, Next
  PROVE  StepsLeft \in Nat /\ StepsLeft' < StepsLeft
<1> DEFINE N == NS_IPV6_MAX_EXTENSION_HEADERS
<1>1. N \in Nat /\ i \in 0 .. N BY PacketAssumption, SMTT(20) DEF BytesInv
<1>2. \/ pc = "ethernet" /\ pc' \in {"arp", "ipv4", "ipv6", "done"} /\ i' = i
      \/ pc = "arp" /\ pc' = "done" /\ i' = i
      \/ pc = "ipv4" /\ pc' \in {"transport", "done"} /\ i' = i
      \/ pc = "ipv6" /\ pc' \in {"extension", "done"} /\ i' = i
      \/ pc = "extension" /\ pc' \in {"transport", "done"} /\ i' = i
      \/ pc = "extension" /\ pc' = "extension" /\ i < N /\ i' = i + 1
      \/ pc = "transport" /\ pc' \in {"dns", "done"} /\ i' = i
      \/ pc = "dns" /\ pc' = "done" /\ i' = i
  <2>1. ASSUME NEW size, MarkMalformed(size) PROVE pc' = "done" /\ i' = i
    BY <2>1 DEF MarkMalformed
  <2> USE DEF view, layers
  <2>2. CASE ParseEthernet BY <2>1, <2>2, Zenon DEF ParseEthernet
  <2>3. CASE ParseArp BY <2>1, <2>3, Zenon DEF ParseArp
  <2>4. CASE ParseIpv4 BY <2>1, <2>4, Zenon DEF ParseIpv4, EnterNetwork, AfterIpv4
  <2>5. CASE ParseIpv6 BY <2>1, <2>5, Zenon DEF ParseIpv6, EnterNetwork
  <2>6. CASE SkipOptions BY <2>1, <2>6, Zenon DEF SkipOptions, StepOver, ChainInvalid
  <2>7. CASE SkipFragment BY <2>1, <2>7, Zenon DEF SkipFragment, StepOver, ChainInvalid
  <2>8. CASE EndOfChain BY <2>1, <2>8, Zenon DEF EndOfChain, ChainInvalid
  <2>9. CASE ParseTcp BY <2>1, <2>9, Zenon DEF ParseTcp, EnterTransport
  <2>10. CASE ParseUdp BY <2>1, <2>10, Zenon DEF ParseUdp, EnterTransport
  <2>11. CASE ParseIcmp \/ ParseIcmpv6
    BY <2>1, <2>11, Zenon DEF ParseIcmp, ParseIcmpv6, IcmpHeader
  <2>12. CASE ParseOther BY <2>12 DEF ParseOther
  <2>13. CASE ParseDns BY <2>13 DEF ParseDns
  <2> QED BY <2>2, <2>3, <2>4, <2>5, <2>6, <2>7, <2>8, <2>9, <2>10, <2>11, <2>12, <2>13 DEF Next
<1>3. i' \in 0 .. N BY <1>1, <1>2
<1> HIDE DEF N
<1>4. CASE pc \in {"ethernet", "arp", "ipv4", "ipv6"}
  BY <1>1, <1>2, <1>3, <1>4 DEF StepsLeft, N
<1>5. CASE pc \in {"extension", "transport", "dns"}
  BY <1>1, <1>2, <1>3, <1>5 DEF StepsLeft, N
<1> QED BY <1>2, <1>4, <1>5

(* ns_packet_parse() calls at most five parsers, the extension header walk *)
(* going round at most NS_IPV6_MAX_EXTENSION_HEADERS times, whatever the   *)
(* packet says: it returns after a number of steps that does not depend    *)
(* on the packet.                                                          *)
THEOREM ParsingIsBounded ==
  Spec => /\ [](StepsLeft \in 0 .. NS_IPV6_MAX_EXTENSION_HEADERS + 5)
          /\ [][StepsLeft' < StepsLeft]_vars
<1>1. PacketInv => StepsLeft \in 0 .. NS_IPV6_MAX_EXTENSION_HEADERS + 5
  BY PacketAssumption DEF PacketInv, BytesInv, StepsLeft
<1>2. PacketInv /\ [Next]_vars => [StepsLeft' < StepsLeft]_vars
  BY ParserAdvances DEF PacketInv
<1> QED BY <1>1, <1>2, PacketInvariant, PTL DEF Spec

-----------------------------------------------------------------------------
\* The parser and the statistics

(* The parser's invariant holds for each packet, from its arrival on.      *)
LEMMA ArriveInv ==
  ASSUME Arrive PROVE PacketInv'
<1>1. BytesInv'
  <2>1. /\ pc' = "ethernet" /\ length' \in Length /\ offset' = 0 /\ proto' = "OTHER" /\ i' = 0
        /\ payload' = 0 /\ payload_length' = length' /\ extent' = 0
    BY DEF Arrive
  <2>2. length' \in Nat BY <2>1, PacketAssumption
  <2>3. ReadsInBounds' /\ PayloadIsTail'
    <3>1. extent' <= length' /\ offset' <= length' BY <2>1, <2>2
    <3>2. payload' = 0 /\ payload_length' = length' /\ payload_length' \in Nat BY <2>1, <2>2
    <3>3. \A m \in Nat : 0 >= 0 /\ 0 + m = m OBVIOUS
    <3>4. payload' >= 0 /\ payload' + payload_length' = length' BY <3>2, <3>3, Zenon
    <3> QED BY <3>1, <3>4 DEF ReadsInBounds, PayloadIsTail
  <2>4. i' \in 0 .. NS_IPV6_MAX_EXTENSION_HEADERS BY <2>1, PacketAssumption
  <2>5. proto' \in NextHeader BY <2>1 DEF NextHeader
  <2> QED BY <2>1, <2>2, <2>3, <2>4, <2>5 DEF BytesInv
<1>2. LayersInv'
  BY Zenon DEF Arrive, LayersInv, LayerTypes, Bare, NetworkProto, TransportProto
<1>3. FragmentInv'
  BY DEF Arrive, FragmentInv, LaterIpv4FragmentOpaque
<1> QED BY <1>1, <1>2, <1>3 DEF PacketInv

(* A step of the pipeline keeps it.                                        *)
LEMMA PipelineStep ==
  ASSUME PacketInv, [PipelineNext]_pipelineVars PROVE PacketInv'
<1>1. CASE Arrive BY <1>1, ArriveInv
<1>2. CASE Parse
  BY <1>2, LayersStep, BytesStep DEF Parse, PacketInv
<1>3. CASE UNCHANGED vars
  <2>1. BytesInv'
    BY <1>3 DEF PacketInv, BytesInv, ReadsInBounds, PayloadIsTail, vars, layers, view
  <2>2. LayersInv'
    BY <1>3 DEF PacketInv, LayersInv, LayerTypes, Bare, FitTogether, vars, layers
  <2>3. FragmentInv'
    BY <1>3 DEF PacketInv, FragmentInv, LaterIpv4FragmentOpaque, vars, layers
  <2> QED BY <2>1, <2>2, <2>3 DEF PacketInv
<1> QED BY <1>1, <1>2, <1>3 DEF PipelineNext, Count, PrintReport, pipelineVars

THEOREM PipelineInvariant == PipelineSpec => []PacketInv
<1>1. PipelineInit => PacketInv BY InitInv DEF PipelineInit
<1>2. PacketInv /\ [PipelineNext]_pipelineVars => PacketInv' BY PipelineStep
<1> QED BY <1>1, <1>2, PTL DEF PipelineSpec

-----------------------------------------------------------------------------
(* A packet that was parsed is one ns_stats_update() is prepared for.      *)
LEMMA ParsedIsPrepared ==
  ASSUME PacketInv, pc = "done", NEW x \in Endpoint, NEW y \in Endpoint, NEW n \in WireLength
  PROVE  Handed(x, y, n) \in HandedOver
<1>1. LayerTypes /\ FitTogether /\ length \in Length
  BY DEF PacketInv, LayersInv, BytesInv
<1>2. WellFormed(Handed(x, y, n))
  BY <1>1 DEF WellFormed, FitTogether, Handed
<1> QED BY <1>1, <1>2 DEF HandedOver, LayerTypes, Handed

(* The statistics of the packets the parser makes implement module Stats.  *)
THEOREM CountsParsedPackets == PipelineSpec => StatisticsHold
<1>1. PipelineInit => S!StatsInit BY DEF PipelineInit
<1>2. PacketInv /\ [PipelineNext]_pipelineVars => [S!StatsNext]_(S!statsVars)
  <2> SUFFICES ASSUME PacketInv, [PipelineNext]_pipelineVars
               PROVE  [S!StatsNext]_(S!statsVars)
    OBVIOUS
  <2>1. CASE Count
    <3>1. PICK x \in Endpoint, y \in Endpoint, n \in WireLength :
            S!ns_stats_update(Handed(x, y, n))
      BY <2>1 DEF Count
    <3>2. Handed(x, y, n) \in HandedOver BY <2>1, ParsedIsPrepared DEF Count
    <3> QED BY <3>1, <3>2 DEF S!StatsNext
  <2>2. CASE PrintReport BY <2>2 DEF PrintReport, S!StatsNext
  <2>3. CASE UNCHANGED statistics BY <2>3 DEF statistics, S!statsVars
  <2> QED BY <2>1, <2>2, <2>3 DEF PipelineNext, Arrive, Parse, pipelineVars
<1> QED BY <1>1, <1>2, PipelineInvariant, PTL DEF PipelineSpec, StatisticsHold, S!StatsSpec

(* What module Stats assumes of its packets and constants is true of the   *)
(* packets the parser makes.                                               *)
THEOREM NothingAssumed ==
  \A p \in HandedOver :
    /\ WellFormed(p)
    /\ p.captured_length \in Length /\ p.original_length \in Nat
    /\ S!HasFlow(p) => /\ S!FlowProtocol(p) \in FlowProtocols
                       /\ S!EndpointOf(p, p.source) \in Endpoint
                       /\ S!EndpointOf(p, p.destination) \in Endpoint
<1> SUFFICES ASSUME NEW p \in HandedOver
             PROVE  /\ WellFormed(p)
                    /\ p.captured_length \in Length /\ p.original_length \in Nat
                    /\ S!HasFlow(p) => /\ S!FlowProtocol(p) \in FlowProtocols
                                       /\ S!EndpointOf(p, p.source) \in Endpoint
                                       /\ S!EndpointOf(p, p.destination) \in Endpoint
  OBVIOUS
<1>1. /\ WellFormed(p) /\ p.captured_length \in Length /\ p.original_length \in Nat
      /\ p.source \in Endpoint /\ p.destination \in Endpoint
      /\ p.transport_proto \in TransportProto
  BY PipelineAssumption, Zenon DEF HandedOver
<1>2. \A e \in Endpoint : S!EndpointOf(p, e) \in Endpoint
  BY PipelineAssumption, Zenon DEF PortZeroIncluded, S!EndpointOf
<1>3. S!HasFlow(p) => S!FlowProtocol(p) \in FlowProtocols
  BY <1>1 DEF S!HasFlow, S!FlowProtocol, FlowProtocols, TransportProto
<1> QED BY <1>1, <1>2, <1>3

-----------------------------------------------------------------------------
\* What is proved of the statistics, for the packets the parser makes.
SP == INSTANCE StatsProofs
        WITH Packets <- HandedOver, ByteCount <- Length, Protocol <- FlowProtocols

(* The assumptions of FlowTable and of Stats are discharged.               *)
LEMMA FlowTableReady == SP!FlowTableAssumption
BY PipelineAssumption, PacketAssumption DEF SP!FlowTableAssumption, SP!FlowKey

LEMMA StatsReady == SP!StatsAssumption
<1>1. ASSUME NEW p \in HandedOver
      PROVE  /\ SP!WellFormed(p)
             /\ p.has_eth \in BOOLEAN /\ p.malformed \in BOOLEAN /\ p.has_dns \in BOOLEAN
             /\ p.network_proto \in SP!NetworkProto /\ p.transport_proto \in SP!TransportProto
             /\ p.captured_length \in Length /\ p.original_length \in Nat
             /\ SP!HasFlow(p) => /\ SP!FlowProtocol(p) \in FlowProtocols
                                 /\ SP!EndpointOf(p, p.source) \in Endpoint
                                 /\ SP!EndpointOf(p, p.destination) \in Endpoint
  <2>1. /\ p.has_eth \in BOOLEAN /\ p.malformed \in BOOLEAN /\ p.has_dns \in BOOLEAN
        /\ p.network_proto \in NetworkProto /\ p.transport_proto \in TransportProto
    BY DEF HandedOver
  <2>2. WellFormed(p) <=> SP!WellFormed(p) BY DEF WellFormed, SP!WellFormed
  <2>3. SP!HasFlow(p) <=> S!HasFlow(p) BY DEF S!HasFlow, SP!HasFlow
  <2>4. SP!FlowProtocol(p) = S!FlowProtocol(p) BY DEF S!FlowProtocol, SP!FlowProtocol
  <2>5. \A e : SP!EndpointOf(p, e) = S!EndpointOf(p, e)
    BY <2>4 DEF S!EndpointOf, SP!EndpointOf
  <2>6. NetworkProto = SP!NetworkProto /\ TransportProto = SP!TransportProto
    BY DEF NetworkProto, TransportProto, SP!NetworkProto, SP!TransportProto
  <2> QED BY <2>1, <2>2, <2>3, <2>4, <2>5, <2>6, NothingAssumed
<1> QED BY <1>1, PipelineAssumption DEF SP!StatsAssumption

(* The two instances of the statistics are the same.                       *)
LEMMA SameInit == S!StatsInit => SP!StatsInit
BY SMTT(20) DEF S!StatsInit, SP!StatsInit, S!Init, SP!Init, S!Slots, SP!Slots, S!FreeSlot, SP!FreeSlot,
       S!Conversation, SP!Conversation, S!Counter, SP!Counter,
       S!TransportCounter, SP!TransportCounter

LEMMA SameUpdate ==
  ASSUME NEW p \in HandedOver, S!ns_stats_update(p) PROVE SP!ns_stats_update(p)
BY Zenon DEF S!ns_stats_update, SP!ns_stats_update, S!Counter, SP!Counter, S!TransportCounter,
       SP!TransportCounter, S!Counted, SP!Counted, S!NetworkCounter, SP!NetworkCounter,
       S!TransportCounted, SP!TransportCounted, S!HasFlow, SP!HasFlow, S!FlowProtocol,
       SP!FlowProtocol, S!EndpointOf, SP!EndpointOf, S!record_flow, SP!record_flow,
       S!Canonical, SP!Canonical, S!After, SP!After, S!ConversationOf, SP!ConversationOf,
       S!Accumulate, SP!Accumulate, S!Insert, SP!Insert, S!Untracked, SP!Untracked,
       S!FirstStop, SP!FirstStop, S!Stops, SP!Stops, S!Probe, SP!Probe, S!Touched, SP!Touched,
       S!Filled, SP!Filled, S!Slots, SP!Slots, S!tableVars, SP!tableVars

LEMMA SamePrint == ASSUME S!ns_stats_print PROVE SP!ns_stats_print
<1>1. S!Used = SP!Used BY DEF S!Used, SP!Used, S!Slots, SP!Slots
<1>2. S!Other = SP!Other BY DEF S!Other, SP!Other
<1>3. \A o : S!Listed(o) = SP!Listed(o) BY DEF S!Listed, SP!Listed
<1>4. \A o : S!SortedDescending(o) <=> SP!SortedDescending(o)
  BY DEF S!SortedDescending, SP!SortedDescending
<1>5. \A X : S!Cardinality(X) = SP!Cardinality(X) BY DEF S!Cardinality, SP!Cardinality
<1> QED BY <1>1, <1>2, <1>3, <1>4, <1>5, Zenon
        DEF S!ns_stats_print, SP!ns_stats_print, S!tableVars, SP!tableVars

LEMMA SameStatistics == PipelineSpec => SP!StatsSpec
<1>1. [S!StatsNext]_(S!statsVars) => [SP!StatsNext]_(SP!statsVars)
  BY SameUpdate, SamePrint DEF S!StatsNext, SP!StatsNext, S!statsVars, SP!statsVars
<1> QED BY <1>1, SameInit, CountsParsedPackets, PTL DEF StatisticsHold, S!StatsSpec, SP!StatsSpec

(* Whatever bytes arrive: the counters of the packets ns_packet_parse()    *)
(* makes add up, "Other" never wraps around, the flows account for the     *)
(* traffic, conversations are exact and unsplit, and the largest are on    *)
(* top of the report.  Nothing is assumed of the packets.                  *)
THEOREM ReportOfParsedPackets ==
  PipelineSpec =>
    [](/\ SP!EveryPacketClassified /\ SP!OtherIsWhatIsLeft /\ SP!DnsWithinTransport
       /\ SP!FlowsAccountForTraffic /\ SP!TopIsTop
       /\ SP!OneSlotPerConversation /\ SP!TrackedExactly /\ SP!UntrackedOnlyWhenFull)
BY SameStatistics, FlowTableReady, StatsReady, SP!Classified, SP!OtherNeverWraps,
   SP!DnsCarried, SP!TrafficAccountedFor, SP!ListsTheLargest, SP!FlowsInStatistics, PTL

(* A step that counts a later IPv4 fragment leaves the flow table alone.   *)
LEMMA FragmentStep ==
  ASSUME PacketInv, [PipelineNext]_pipelineVars, later_fragment, network_proto = "IPV4"
  PROVE  UNCHANGED <<flows, flow_count>>
<1>1. CASE Count
  <2>1. transport_proto = "UNKNOWN"
    BY <1>1 DEF PacketInv, FragmentInv, LaterIpv4FragmentOpaque, Count
  <2>2. PICK x \in Endpoint, y \in Endpoint, n \in WireLength :
          S!ns_stats_update(Handed(x, y, n))
    BY <1>1 DEF Count
  <2>3. ~S!HasFlow(Handed(x, y, n))
    BY <2>1 DEF S!HasFlow, Handed
  <2> QED BY <2>2, <2>3, SMTT(20) DEF S!ns_stats_update, S!tableVars
<1>2. CASE PrintReport BY <1>2 DEF PrintReport, S!ns_stats_print, S!tableVars
<1>3. CASE UNCHANGED statistics BY <1>3 DEF statistics
<1> QED BY <1>1, <1>2, <1>3 DEF PipelineNext, Arrive, Parse, pipelineVars

(* Fragments without ports make no conversation, for all traffic.          *)
THEOREM NoFlowOfFragments == PipelineSpec => FragmentsMakeNoFlow
<1>1. PacketInv /\ [PipelineNext]_pipelineVars
        => [later_fragment /\ network_proto = "IPV4"
              => UNCHANGED <<flows, flow_count>>]_pipelineVars
  BY FragmentStep
<1> QED BY <1>1, PipelineInvariant, PTL DEF PipelineSpec, FragmentsMakeNoFlow
=============================================================================
