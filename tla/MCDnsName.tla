----------------------------- MODULE MCDnsName -----------------------------
\* A terminator, two label lengths, a reserved length and a pointer; the small
\* values are also the pointers' targets.
EXTENDS DnsName

MCByte == {0, 1, 2, 64, 192}
MCLength == 0 .. 6
MCOutLen == {3, 4, 6}
=============================================================================
