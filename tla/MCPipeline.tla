----------------------------- MODULE MCPipeline -----------------------------
\* Lengths at which headers are just complete or cut: 13 less than Ethernet, IPv4
\* with TCP, or with UDP and DNS 54, IPv6 with UDP 62.  One endpoint: TLC looks
\* for the packet of each step, and which conversation is which is the question
\* of FlowTable and Stats.
EXTENDS Pipeline

MCLength == {13, 54, 62}
MCEndpoint == {[addr |-> 1, port |-> 0]}
MCWireLength == {1500}
MCHash == [k \in [protocol : FlowProtocols, a : Endpoint, b : Endpoint] |-> k.a.port + k.b.port]
=============================================================================
