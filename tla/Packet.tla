------------------------------- MODULE Packet -------------------------------
(***************************************************************************)
(* ns_packet_parse() of src/src/packet.c with the header parsers of        *)
(* src/src/protocols/: one action per header.                              *)
(*                                                                         *)
(* The bytes of a packet are arbitrary, and every field that matters is    *)
(* read once, so a field is chosen when it is read.  What is kept is how   *)
(* many bytes there are, which of them are read, and which layers the      *)
(* packet ends up with.                                                    *)
(***************************************************************************)
EXTENDS Integers, PacketShape

CONSTANTS
  Length,                         \* captured lengths that occur
  NS_IPV6_MAX_EXTENSION_HEADERS   \* 8 in ipv6.h

ASSUME PacketAssumption ==
  /\ Length \subseteq Nat
  /\ NS_IPV6_MAX_EXTENSION_HEADERS \in Nat

VARIABLES
  pc,               \* the parser called next
  length,           \* captured_length
  offset,           \* where that parser starts
  proto,            \* IPv4 protocol or IPv6 next header
  i,                \* iterations of the extension header loop
  has_eth, malformed, network_proto, transport_proto, has_dns,
  payload,          \* where the payload starts, -1 for NULL
  payload_length,
  extent,           \* history: end of what was read or stepped over
  later_fragment    \* history: the header says "not the first fragment"

layers == <<has_eth, malformed, network_proto, transport_proto, has_dns>>
view == <<payload, payload_length>>
vars == <<pc, length, offset, proto, i, layers, view, extent, later_fragment>>

NS_ETH_HEADER_LEN == 14
NS_VLAN_TAG_LEN == 4
NS_ARP_HEADER_LEN == 8
NS_ARP_BODY_LEN == 20
NS_IPV4_MIN_HEADER_LEN == 20
NS_IPV6_HEADER_LEN == 40
NS_TCP_MIN_HEADER_LEN == 20
NS_UDP_HEADER_LEN == 8
NS_DNS_HEADER_LEN == 12

\* Next headers: the three kinds of options share one format.
ExtensionHeader == {"OPTIONS", "FRAGMENT"}
NextHeader == ExtensionHeader \cup {"TCP", "UDP", "ICMP", "ICMPV6", "OTHER"}

Init ==
  /\ pc = "ethernet"
  /\ length \in Length
  /\ offset = 0 /\ proto = "OTHER" /\ i = 0
  /\ has_eth = FALSE /\ malformed = FALSE /\ has_dns = FALSE
  /\ network_proto = "UNKNOWN" /\ transport_proto = "UNKNOWN"
  /\ payload = 0 /\ payload_length = length
  /\ extent = 0 /\ later_fragment = FALSE

-----------------------------------------------------------------------------
\* Mutant: the bound is checked against the start of the buffer only.
BoundsIgnoringSize(size) == offset <= length

\* ns_bounds_check(length - offset, 0, size), as the parsers call it on
\* data + offset; the extension walk passes length and offset themselves.
InBounds(size) == offset <= length /\ size <= length - offset

Reads(size) == extent' = IF offset + size > extent THEN offset + size ELSE extent

\* Mutant: the length is not reduced by the offset.
PayloadToEndOfBuffer(off) == payload' = off /\ payload_length' = length

\* ns_packet_set_payload()
SetPayload(off) ==
  IF off > length THEN payload' = -1 /\ payload_length' = 0
                  ELSE payload' = off /\ payload_length' = length - off

\* ns_packet_mark_malformed() and return, after reading size bytes.
MarkMalformed(size) ==
  /\ pc' = "done" /\ malformed' = TRUE /\ Reads(size)
  /\ UNCHANGED <<length, offset, proto, i, has_eth, network_proto, transport_proto,
                 has_dns, later_fragment>>

\* The network layer is decoded; parsing goes on at "to", size bytes on.
EnterNetwork(net, size, to, next, later) ==
  /\ pc' = to /\ network_proto' = net
  /\ Reads(size) /\ offset' = offset + size
  /\ proto' = next /\ later_fragment' = later
  /\ UNCHANGED <<length, i, has_eth, malformed, transport_proto, has_dns>>

-----------------------------------------------------------------------------
\* ns_packet_parse() up to its switch, with ns_parse_ethernet(): one VLAN tag
\* is stepped over.  Other link types never get here: ns_resolve_link_type()
\* refuses them when the capture is opened.
ParseEthernet ==
  /\ pc = "ethernet"
  /\ \/ ~InBounds(NS_ETH_HEADER_LEN) /\ MarkMalformed(0) /\ UNCHANGED view
     \/ /\ InBounds(NS_ETH_HEADER_LEN) /\ ~InBounds(NS_ETH_HEADER_LEN + NS_VLAN_TAG_LEN)
        /\ MarkMalformed(NS_ETH_HEADER_LEN) /\ UNCHANGED view
     \/ \E parser \in {"ipv4", "ipv6", "arp", "done"},   \* by ethertype
           consumed \in {NS_ETH_HEADER_LEN, NS_ETH_HEADER_LEN + NS_VLAN_TAG_LEN} :
          /\ InBounds(consumed)
          /\ pc' = parser
          /\ has_eth' = TRUE
          /\ offset' = consumed /\ Reads(consumed) /\ SetPayload(consumed)
          /\ UNCHANGED <<length, proto, i, malformed, network_proto, transport_proto,
                         has_dns, later_fragment>>

\* ns_packet_parse_arp(): other hardware or protocol types are unsupported,
\* not malformed.
ParseArp ==
  /\ pc = "arp"
  /\ SetPayload(offset)
  /\ \/ ~InBounds(NS_ARP_HEADER_LEN) /\ MarkMalformed(0)
     \/ /\ InBounds(NS_ARP_HEADER_LEN) /\ ~InBounds(NS_ARP_HEADER_LEN + NS_ARP_BODY_LEN)
        /\ MarkMalformed(NS_ARP_HEADER_LEN)
     \/ /\ InBounds(NS_ARP_HEADER_LEN)
        /\ pc' = "done" /\ Reads(NS_ARP_HEADER_LEN)
        /\ UNCHANGED <<length, offset, proto, i, layers, later_fragment>>
     \/ /\ InBounds(NS_ARP_HEADER_LEN + NS_ARP_BODY_LEN)
        /\ pc' = "done" /\ network_proto' = "ARP"
        /\ Reads(NS_ARP_HEADER_LEN + NS_ARP_BODY_LEN)
        /\ UNCHANGED <<length, offset, proto, i, has_eth, malformed, transport_proto,
                       has_dns, later_fragment>>

\* Mutant: the fragment offset is not looked at.
AfterIpv4Always(later) == "transport"

\* ns_packet_parse_ipv4(), ns_parse_ipv4(): version and total_length may be
\* wrong, ihl too small or larger than what was captured; a fragment that is
\* not the first has no transport header.
AfterIpv4(later) == IF later THEN "done" ELSE "transport"

ParseIpv4 ==
  /\ pc = "ipv4"
  /\ \/ ~InBounds(NS_IPV4_MIN_HEADER_LEN) /\ MarkMalformed(0) /\ UNCHANGED view
     \/ /\ InBounds(NS_IPV4_MIN_HEADER_LEN)
        /\ MarkMalformed(NS_IPV4_MIN_HEADER_LEN) /\ UNCHANGED view
     \/ \E ihl \in 5 .. 15, next \in NextHeader, later \in BOOLEAN :
          /\ InBounds(NS_IPV4_MIN_HEADER_LEN) /\ InBounds(4 * ihl)
          /\ EnterNetwork("IPV4", 4 * ihl, AfterIpv4(later), next, later)
          /\ SetPayload(offset + 4 * ihl)

\* ns_parse_ipv6(): the payload is set only after the extension headers.
ParseIpv6 ==
  /\ pc = "ipv6"
  /\ UNCHANGED view
  /\ \/ ~InBounds(NS_IPV6_HEADER_LEN) /\ MarkMalformed(0)
     \/ InBounds(NS_IPV6_HEADER_LEN) /\ MarkMalformed(NS_IPV6_HEADER_LEN)
     \/ \E next \in NextHeader :
          /\ InBounds(NS_IPV6_HEADER_LEN)
          /\ EnterNetwork("IPV6", NS_IPV6_HEADER_LEN, "extension", next, FALSE)

-----------------------------------------------------------------------------
\* ns_ipv6_skip_extension_headers(), one iteration at a time.
ChainInvalid(size) == MarkMalformed(size) /\ SetPayload(offset)

\* Mutant: a length of zero units is zero bytes and iterations are not counted.
StepOverUncounted(size, next, later) ==
  /\ InBounds(size - 8) /\ Reads(size - 8)
  /\ offset' = offset + size - 8 /\ proto' = next
  /\ later_fragment' = later
  /\ UNCHANGED <<pc, length, i, layers, view>>

\* The header is size bytes long and is followed by next.
StepOver(size, next, later) ==
  /\ InBounds(size) /\ Reads(size)
  /\ offset' = offset + size /\ proto' = next /\ i' = i + 1
  /\ later_fragment' = later
  /\ UNCHANGED <<pc, length, layers, view>>

SkipOptions ==
  /\ pc = "extension" /\ i < NS_IPV6_MAX_EXTENSION_HEADERS /\ proto = "OPTIONS"
  /\ \/ ~InBounds(2) /\ ChainInvalid(0)
     \/ \E units \in 0 .. 255 :
          /\ InBounds(2) /\ ~InBounds(8 * (units + 1))
          /\ ChainInvalid(2)
     \/ \E units \in 0 .. 255, next \in NextHeader :
          InBounds(2) /\ StepOver(8 * (units + 1), next, later_fragment)

\* The fragment offset in the header is not looked at.
SkipFragment ==
  /\ pc = "extension" /\ i < NS_IPV6_MAX_EXTENSION_HEADERS /\ proto = "FRAGMENT"
  /\ \/ ~InBounds(1) /\ ChainInvalid(0)
     \/ InBounds(1) /\ ~InBounds(8) /\ ChainInvalid(1)
     \/ \E next \in NextHeader, later \in BOOLEAN :
          StepOver(8, next, later_fragment \/ later)

\* The walk ends: at an upper-layer protocol, or after the last iteration.
EndOfChain ==
  /\ pc = "extension"
  /\ \/ i = NS_IPV6_MAX_EXTENSION_HEADERS /\ ChainInvalid(0)
     \/ /\ i < NS_IPV6_MAX_EXTENSION_HEADERS /\ proto \notin ExtensionHeader
        /\ pc' = "transport" /\ SetPayload(offset)
        /\ UNCHANGED <<length, offset, proto, i, layers, extent, later_fragment>>

-----------------------------------------------------------------------------
\* ns_packet_parse_transport()
EnterTransport(transport, size, to) ==
  /\ InBounds(size) /\ Reads(size)
  /\ pc' = to /\ transport_proto' = transport /\ offset' = offset + size
  /\ SetPayload(offset + size)
  /\ UNCHANGED <<length, proto, i, has_eth, malformed, network_proto, has_dns, later_fragment>>

\* ns_parse_tcp(): data_offset may be too small or past the captured bytes.
\* Port 53 leads on to DNS.
ParseTcp ==
  /\ pc = "transport" /\ proto = "TCP"
  /\ \/ ~InBounds(NS_TCP_MIN_HEADER_LEN) /\ MarkMalformed(0) /\ UNCHANGED view
     \/ /\ InBounds(NS_TCP_MIN_HEADER_LEN)
        /\ MarkMalformed(NS_TCP_MIN_HEADER_LEN) /\ UNCHANGED view
     \/ \E data_offset \in 5 .. 15, to \in {"dns", "done"} :
          /\ InBounds(NS_TCP_MIN_HEADER_LEN)
          /\ EnterTransport("TCP", 4 * data_offset, to)

\* Mutant: the protocol is recorded before the header is validated.
ParseUdpEarly ==
  /\ pc = "transport" /\ proto = "UDP"
  /\ pc' = "done" /\ transport_proto' = "UDP" /\ malformed' = ~InBounds(NS_UDP_HEADER_LEN)
  /\ UNCHANGED <<length, offset, proto, i, has_eth, network_proto, has_dns, view, extent,
                 later_fragment>>

\* ns_parse_udp(): the header may claim a length shorter than itself.
ParseUdp ==
  /\ pc = "transport" /\ proto = "UDP"
  /\ \/ ~InBounds(NS_UDP_HEADER_LEN) /\ MarkMalformed(0) /\ UNCHANGED view
     \/ InBounds(NS_UDP_HEADER_LEN) /\ MarkMalformed(NS_UDP_HEADER_LEN) /\ UNCHANGED view
     \/ \E to \in {"dns", "done"} : EnterTransport("UDP", NS_UDP_HEADER_LEN, to)

\* The two kinds of ICMP: four bytes, eight for an echo.  The payload stays at
\* the start of the ICMP header.
IcmpHeader(transport) ==
  /\ pc = "transport" /\ proto = transport
  /\ UNCHANGED view
  /\ \/ ~InBounds(4) /\ MarkMalformed(0)
     \/ InBounds(4) /\ ~InBounds(8) /\ MarkMalformed(4)
     \/ \E size \in {4, 8} :
          /\ InBounds(size) /\ Reads(size)
          /\ pc' = "done" /\ transport_proto' = transport
          /\ UNCHANGED <<length, offset, proto, i, has_eth, malformed, network_proto,
                         has_dns, later_fragment>>

ParseIcmp == IcmpHeader("ICMP")
ParseIcmpv6 == IcmpHeader("ICMPV6")

ParseOther ==
  /\ pc = "transport" /\ proto \in ExtensionHeader \cup {"OTHER"}
  /\ pc' = "done"
  /\ UNCHANGED <<length, offset, proto, i, layers, view, extent, later_fragment>>

\* ns_packet_parse_dns_if_applicable(): a damaged message leaves has_dns false
\* and the packet well-formed.  ns_parse_dns() is the subject of other modules.
ParseDns ==
  /\ pc = "dns"
  /\ pc' = "done"
  /\ has_dns' \in {FALSE, InBounds(NS_DNS_HEADER_LEN)}
  /\ UNCHANGED <<length, offset, proto, i, has_eth, malformed, network_proto,
                 transport_proto, view, extent, later_fragment>>

Next == \/ ParseEthernet \/ ParseArp \/ ParseIpv4 \/ ParseIpv6
        \/ SkipOptions \/ SkipFragment \/ EndOfChain
        \/ ParseTcp \/ ParseUdp \/ ParseIcmp \/ ParseIcmpv6
        \/ ParseOther \/ ParseDns

Spec == Init /\ [][Next]_vars /\ WF_vars(Next)

-----------------------------------------------------------------------------
packet == [has_eth |-> has_eth, malformed |-> malformed, network_proto |-> network_proto,
           transport_proto |-> transport_proto, has_dns |-> has_dns]

(* Type invariant.                                                         *)
TypeOK ==
  /\ pc \in {"ethernet", "arp", "ipv4", "ipv6", "extension", "transport", "dns", "done"}
  /\ length \in Length /\ offset \in Nat /\ extent \in Nat
  /\ proto \in NextHeader
  /\ i \in 0 .. NS_IPV6_MAX_EXTENSION_HEADERS
  /\ packet \in Layers
  /\ payload \in Int /\ payload_length \in Nat
  /\ later_fragment \in BOOLEAN

(* Whatever lengths the headers claim, no parser reads past the captured   *)
(* bytes, and length - offset, which each of them is given as its length,  *)
(* never wraps around.                                                     *)
ReadsInBounds == extent <= length /\ offset <= length

(* The payload a packet is left with is never NULL and always ends exactly *)
(* where the captured bytes end, whichever parser gave up.                 *)
PayloadIsTail == payload >= 0 /\ payload + payload_length = length

(* The layers fit together at every return of ns_packet_parse().           *)
LayersWellFormed == pc = "done" => WellFormed(packet)

(* packet.c:59-64: ports and flags are not read out of an IPv4 fragment    *)
(* that is not the first.                                                  *)
LaterIpv4FragmentOpaque ==
  later_fragment /\ network_proto = "IPV4" => transport_proto = "UNKNOWN"

(* ns_packet_parse() returns for every packet: the extension header walk   *)
(* cannot go on for ever.                                                  *)
Terminates == <>(pc = "done")

-----------------------------------------------------------------------------
(* What the documentation says and the code does not do.                   *)

(* packet.c:60-62, docs/packet-parsing.md:61-68: only the initial fragment *)
(* carries a transport header.                                             *)
LaterFragmentOpaque == later_fragment => transport_proto = "UNKNOWN"

(* ipv6.c:87-88: the budget of headers is exhausted only when no           *)
(* upper-layer protocol was reached.                                       *)
ExhaustedInsideChain ==
  pc = "extension" /\ i = NS_IPV6_MAX_EXTENSION_HEADERS => proto \in ExtensionHeader
=============================================================================
