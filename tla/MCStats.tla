------------------------------ MODULE MCStats ------------------------------
\* One packet of every kind that ns_stats_update() tells apart, with enough
\* conversations to fill a table of four slots and leave some out.
EXTENDS Stats

At(addr, port) == [addr |-> addr, port |-> port]

MCProtocol == {"ARP", "TCP", "UDP", "ICMP", "ICMPV6"}
MCEndpoint == {At(1, 0), At(1, 7), At(2, 0), At(2, 7)}
MCByteCount == {1, 2}
MCHash == [k \in FlowKey |-> k.a.addr + k.b.port]

Sent(network, transport, dns, malformed, x, y, n) ==
  [has_eth |-> TRUE, malformed |-> malformed, network_proto |-> network,
   transport_proto |-> transport, has_dns |-> dns, source |-> x, destination |-> y,
   captured_length |-> n, original_length |-> 2]

MCPackets ==
  {[Sent("UNKNOWN", "UNKNOWN", FALSE, TRUE, At(1, 0), At(1, 0), 1) EXCEPT !.has_eth = FALSE],
   Sent("UNKNOWN", "UNKNOWN", FALSE, TRUE, At(1, 0), At(1, 0), 1),
   Sent("UNKNOWN", "UNKNOWN", FALSE, FALSE, At(1, 0), At(1, 0), 1),
   Sent("ARP", "UNKNOWN", FALSE, FALSE, At(1, 7), At(2, 7), 1),
   Sent("IPV4", "UNKNOWN", FALSE, TRUE, At(1, 0), At(2, 0), 1),
   Sent("IPV4", "ICMP", FALSE, FALSE, At(1, 7), At(2, 7), 1),
   Sent("IPV4", "TCP", FALSE, FALSE, At(1, 7), At(2, 0), 2),
   Sent("IPV4", "TCP", FALSE, FALSE, At(2, 0), At(1, 7), 1),
   Sent("IPV4", "UDP", TRUE, FALSE, At(1, 7), At(2, 7), 1),
   Sent("IPV6", "TCP", TRUE, FALSE, At(2, 7), At(1, 7), 1),
   Sent("IPV6", "UDP", FALSE, FALSE, At(2, 7), At(1, 0), 2),
   Sent("IPV6", "ICMPV6", FALSE, FALSE, At(2, 0), At(1, 0), 1),
   Sent("IPV6", "UNKNOWN", FALSE, FALSE, At(2, 0), At(1, 0), 1)}
=============================================================================
