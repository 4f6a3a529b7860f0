---------------------------- MODULE MCFlowTable ----------------------------
\* Two addresses, two ports, one protocol, a table of three slots and a hash
\* under which keys collide, so that probing wraps and the table fills up.
EXTENDS FlowTable

MCProtocol == {"TCP"}
MCEndpoint == {[addr |-> 1, port |-> 1], [addr |-> 1, port |-> 2],
               [addr |-> 2, port |-> 1]}
MCByteCount == {3}
MCHash == [k \in FlowKey |-> k.a.addr + k.b.port + 3]
=============================================================================
