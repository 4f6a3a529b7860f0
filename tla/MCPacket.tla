------------------------------ MODULE MCPacket ------------------------------
\* Every length from an empty capture to past a tagged Ethernet header with
\* the largest IPv4 and TCP headers behind it, 18 + 60 + 60 bytes.
EXTENDS Packet

MCLength == 0 .. 140
=============================================================================
