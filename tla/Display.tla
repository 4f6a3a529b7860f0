------------------------------ MODULE Display -------------------------------
(***************************************************************************)
(* The functions that write text, of src/src/output.c and src/src/util.c:  *)
(* ns_output_packet() (module Output), json_write_escaped() (JsonString),  *)
(* ns_hex_dump() (HexDump) and ns_format_ipv6() (Ipv6Text).  None of them  *)
(* keeps anything between two calls, so one call of one of them, with any  *)
(* of its arguments, is all there is to look at.                           *)
(***************************************************************************)
EXTENDS Integers

CONSTANTS
  FlagSets,               \* ns_output_packet()
  Byte, MaxLength,        \* json_write_escaped()
  Length, OffsetDigits(_),\* ns_hex_dump()
  Group                   \* ns_format_ipv6()

VARIABLES
  function,               \* the one that was called
  pc, i, pos,             \* its place and its loop, and the end of its text
  pkt, opts, printed, json, open, protocol, shown, read,
  s, p, out, starts,
  length, offset, full, hex, ascii, newline,
  groups, best_start, best_len, cur_start, cur_len, tmp

place == <<pc, i, pos>>
ofOutput == <<pkt, opts, printed, json, open, protocol, shown, read>>
ofString == <<s, p, out, starts>>
ofDump == <<length, offset, full, hex, ascii, newline>>
ofAddress == <<groups, best_start, best_len, cur_start, cur_len, tmp>>
displayVars == <<function, place, ofOutput, ofString, ofDump, ofAddress>>

O == INSTANCE Output
J == INSTANCE JsonString
D == INSTANCE HexDump
A == INSTANCE Ipv6Text

\* The flags are those of tcp.c, a byte has eight bits, and an offset is
\* printed with four digits at least and, being 64 bits wide, 16 at most.
ASSUME DisplayAssumption ==
  /\ \A f \in FlagSets : \A x \in f : \E n \in 1 .. 8 : O!kFlags[n] = x
  /\ \A b \in Byte : b \in 0 .. 255
  /\ MaxLength \in Nat
  /\ Length \subseteq Nat
  /\ \A n \in Length : \A o \in 0 .. n : OffsetDigits(o) \in 4 .. 16
  /\ Group \subseteq Nat

\* The variables of functions that were not called.
NoPlace == pc = "none" /\ i = 0 /\ pos = 0
NoOutput ==
  /\ pkt = 0 /\ opts = 0 /\ printed = <<>> /\ json = <<>> /\ open = <<>> /\ protocol = "none"
  /\ shown = {} /\ read = {}
NoString == s = <<>> /\ p = 0 /\ out = <<>> /\ starts = <<>>
NoDump == length = 0 /\ offset = 0 /\ full = 0 /\ hex = {} /\ ascii = {} /\ newline = TRUE
NoAddress ==
  /\ groups = 0 /\ best_start = 0 /\ best_len = 0 /\ cur_start = 0 /\ cur_len = 0
  /\ tmp = <<>>

DisplayInit ==
  \/ function = "ns_output_packet" /\ O!Init /\ NoString /\ NoDump /\ NoAddress
  \/ function = "json_write_escaped" /\ J!Init /\ NoPlace /\ NoOutput /\ NoDump /\ NoAddress
  \/ function = "ns_hex_dump" /\ D!Init /\ NoOutput /\ NoString /\ NoAddress
  \/ function = "ns_format_ipv6" /\ A!Init /\ NoOutput /\ NoString /\ NoDump

OutputPacket ==
  /\ function = "ns_output_packet" /\ O!Next
  /\ UNCHANGED <<function, ofString, ofDump, ofAddress>>

WriteEscaped ==
  /\ function = "json_write_escaped" /\ J!Next
  /\ UNCHANGED <<function, place, ofOutput, ofDump, ofAddress>>

DumpHex ==
  /\ function = "ns_hex_dump" /\ D!Next
  /\ UNCHANGED <<function, ofOutput, ofString, ofAddress>>

FormatIpv6 ==
  /\ function = "ns_format_ipv6" /\ A!Next
  /\ UNCHANGED <<function, ofOutput, ofString, ofDump>>

DisplayNext == OutputPacket \/ WriteEscaped \/ DumpHex \/ FormatIpv6

DisplaySpec == DisplayInit /\ [][DisplayNext]_displayVars

-----------------------------------------------------------------------------
(* Each property comes with the type invariant of its function.            *)

(* ns_output_packet() reads only members of ns_packet_t that were decoded, *)
(* the flags[32] of its text line hold all the flags of the packet, and    *)
(* the "protocol" it prints is the highest layer that was decoded          *)
(* (output.c:45-53, 159, 201-212, 383-391).                               *)
TextAsDecoded ==
  function = "ns_output_packet" =>
    O!TypeOK /\ O!ReadsDecoded /\ O!FlagsComplete /\ O!ProtocolIsHighest

(* docs/usage.md:93, "one compact JSON object per packet": the JSON line   *)
(* is one complete object, whatever the packet has.                        *)
JsonLineValid == function = "ns_output_packet" => O!JsonLineValid

(* output.c:280-281, "7-bit-clean" and "always-valid": what                *)
(* json_write_escaped() writes is a JSON string of printable characters,   *)
(* and it reads back as the bytes it was made from.                        *)
ParsesBack == function = "json_write_escaped" => J!TypeOK /\ J!ParsesBack

(* util.c:191-227: ns_hex_dump() shows each byte, in hexadecimal and as a  *)
(* character, and no line is cut by its buffer.                            *)
DumpShowsAll == function = "ns_hex_dump" => D!TypeOK /\ D!LineFits /\ D!EveryByteShown

(* util.c:72-123: the text ns_format_ipv6() makes fits its buffer, leaves  *)
(* out the first of the longest runs of zero groups, and reads back as the *)
(* address, so that the flow table can tell addresses apart by it.         *)
AddressReadsBack ==
  function = "ns_format_ipv6" => A!TypeOK /\ A!TextFits /\ A!LeftmostLongest /\ A!ReadsBack
=============================================================================
