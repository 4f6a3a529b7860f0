------------------------------ MODULE DnsName ------------------------------
(***************************************************************************)
(* ns_dns_decode_name() of src/src/protocols/dns.c: one action per kind of *)
(* iteration of its loop.                                                  *)
(*                                                                         *)
(* A pointer may lead back to bytes that were read before, so the message  *)
(* is fixed from the start.  Of the text only its length is kept.          *)
(***************************************************************************)
EXTENDS Integers

CONSTANTS
  Byte,               \* byte values that occur
  Length,             \* message lengths that occur
  OutLen,             \* sizes of the callers' name buffers, 256 and 263
  NS_DNS_MAX_JUMPS    \* 32 in dns.h

ASSUME DnsNameAssumption ==
  /\ Byte \subseteq 0 .. 255
  /\ Length \subseteq Nat
  /\ OutLen \subseteq Nat \ {0, 1}
  /\ NS_DNS_MAX_JUMPS \in Nat

VARIABLES
  data, length, offset, out_len,    \* the arguments
  pos, out_pos, end_set, end_offset, jumps,
  status,                           \* "BUSY" until the function returns
  extent,                           \* history: end of the furthest read
  iterations                        \* history: iterations of the loop

arguments == <<data, length, offset, out_len>>
vars == <<arguments, pos, out_pos, end_set, end_offset, jumps, status, extent, iterations>>

Init ==
  /\ length \in Length
  /\ data \in [0 .. length - 1 -> Byte]
  /\ offset \in 0 .. length
  /\ out_len \in OutLen
  /\ pos = offset /\ out_pos = 0 /\ end_set = FALSE /\ end_offset = 0 /\ jumps = 0
  /\ status = "BUSY"
  /\ extent = 0 /\ iterations = 0

-----------------------------------------------------------------------------
\* ns_bounds_check(length, at, size)
InBounds(at, size) == at <= length /\ size <= length - at

\* The top two bits of a length byte.
IsPointer(at) == data[at] \div 64 = 3
IsReserved(at) == data[at] \div 64 \in {1, 2}
IsLabel(at) == data[at] \in 1 .. 63

\* The low 14 bits of the two bytes of a pointer.
Target(at) == 256 * (data[at] % 64) + data[at + 1]

Reads(end) == extent' = IF end > extent THEN end ELSE extent

Return(s) == status' = s

\* One iteration in which the length byte can be read.
Iteration == status = "BUSY" /\ InBounds(pos, 1) /\ iterations' = iterations + 1

ReadPastEnd ==
  /\ status = "BUSY" /\ ~InBounds(pos, 1)
  /\ iterations' = iterations + 1
  /\ Return("TRUNCATED")
  /\ UNCHANGED <<arguments, pos, out_pos, end_set, end_offset, jumps, extent>>

\* Only the first pointer sets the end of the name.
SetEnd(end) ==
  IF end_set THEN UNCHANGED <<end_offset, end_set>> ELSE end_offset' = end /\ end_set' = TRUE

\* Mutant: a jump back is followed without being counted.
FollowPointerUncounted ==
  /\ Iteration /\ IsPointer(pos) /\ InBounds(pos, 2)
  /\ SetEnd(pos + 2) /\ Reads(pos + 2)
  /\ pos' = Target(pos)
  /\ UNCHANGED <<arguments, out_pos, jumps, status>>

TooManyJumps == jumps + 1 > NS_DNS_MAX_JUMPS

FollowPointer ==
  /\ Iteration /\ IsPointer(pos)
  /\ \/ /\ ~InBounds(pos, 2)
        /\ Return("TRUNCATED") /\ Reads(pos + 1)
        /\ UNCHANGED <<pos, end_set, end_offset, jumps>>
     \/ /\ InBounds(pos, 2)
        /\ SetEnd(pos + 2) /\ Reads(pos + 2)
        /\ jumps' = jumps + 1
        /\ \/ TooManyJumps /\ Return("MALFORMED") /\ UNCHANGED pos
           \/ ~TooManyJumps /\ pos' = Target(pos) /\ UNCHANGED status
  /\ UNCHANGED <<arguments, out_pos>>

RejectReserved ==
  /\ Iteration /\ IsReserved(pos)
  /\ Return("MALFORMED") /\ Reads(pos + 1)
  /\ UNCHANGED <<arguments, pos, out_pos, end_set, end_offset, jumps>>

\* Mutant: the terminator that was jumped to sets the end of the name.
EndNameAlways ==
  /\ Iteration /\ data[pos] = 0
  /\ Return("OK") /\ Reads(pos + 1)
  /\ end_offset' = pos + 1
  /\ out_pos' = IF out_pos = 0 THEN 1 ELSE out_pos
  /\ UNCHANGED <<arguments, pos, end_set, jumps>>

\* The zero byte, and what follows the loop: the root is written as ".".
EndName ==
  /\ Iteration /\ data[pos] = 0
  /\ Return("OK") /\ Reads(pos + 1)
  /\ end_offset' = IF end_set THEN end_offset ELSE pos + 1
  /\ out_pos' = IF out_pos = 0 THEN 1 ELSE out_pos
  /\ UNCHANGED <<arguments, pos, end_set, jumps>>

\* Mutant: the dot before the label is forgotten in the check.
FitsWithoutDot(label_len) == out_pos + label_len < out_len

\* needed < out_len
Fits(label_len) == out_pos + label_len + 1 < out_len

\* Mutant: the label is read before its bound is checked.
InsideMessageOffByOne(label_len) == InBounds(pos, label_len)

\* The label's bytes, behind its length byte.
InsideMessage(label_len) == InBounds(pos + 1, label_len)

CopyLabel ==
  /\ Iteration /\ IsLabel(pos)
  /\ LET label_len == data[pos] IN
       \/ /\ ~InsideMessage(label_len)
          /\ Return("TRUNCATED") /\ Reads(pos + 1) /\ pos' = pos + 1
          /\ UNCHANGED out_pos
       \/ /\ InsideMessage(label_len) /\ ~Fits(label_len)
          /\ Return("MALFORMED") /\ Reads(pos + 1) /\ pos' = pos + 1
          /\ UNCHANGED out_pos
       \/ /\ InsideMessage(label_len) /\ Fits(label_len)
          /\ Reads(pos + 1 + label_len) /\ pos' = pos + 1 + label_len
          /\ out_pos' = (IF out_pos = 0 THEN 0 ELSE out_pos + 1) + label_len
          /\ UNCHANGED status
  /\ UNCHANGED <<arguments, end_set, end_offset, jumps>>

Next == ReadPastEnd \/ FollowPointer \/ RejectReserved \/ EndName \/ CopyLabel

Spec == Init /\ [][Next]_vars

-----------------------------------------------------------------------------
(* Type invariant.                                                         *)
TypeOK ==
  /\ length \in Length /\ data \in [0 .. length - 1 -> Byte]
  /\ offset \in 0 .. length /\ out_len \in OutLen
  /\ pos \in Nat /\ out_pos \in Nat /\ end_offset \in Nat
  /\ end_set \in BOOLEAN
  /\ jumps \in 0 .. NS_DNS_MAX_JUMPS + 1
  /\ status \in {"BUSY", "OK", "TRUNCATED", "MALFORMED"}
  /\ extent \in Nat /\ iterations \in Nat

(* Wherever pointers lead and whatever lengths labels claim, nothing past  *)
(* the end of the message is read.                                         *)
NameReadsInBounds == extent <= length

(* The text and the NUL behind it stay inside the caller's buffer.         *)
TextInBuffer == out_pos + 1 <= out_len

(* dns.c:12-15: the work is bounded independently of packet size or cycle  *)
(* length.  As every iteration is counted this is also termination.        *)
WorkBounded == iterations <= NS_DNS_MAX_JUMPS + out_len

\* A set of positions that has with every label the position behind it.
ClosedUnderLabels(K) ==
  \A p \in K : p < length /\ IsLabel(p) /\ p + 1 + data[p] <= length => p + 1 + data[p] \in K

\* The name as written at offset ends at e: its labels, read one after
\* another, lead to a zero byte or to the first pointer just before e.
WrittenEnd(e) ==
  \E t \in 0 .. length - 1 :
    /\ \A K \in SUBSET (0 .. length) : offset \in K /\ ClosedUnderLabels(K) => t \in K
    /\ \/ data[t] = 0 /\ e = t + 1
       \/ IsPointer(t) /\ e = t + 2

(* dns.c:15-18: *end_offset is right after the name as written, not        *)
(* affected by where a pointer jumps to, and lies in the message.          *)
EndOffsetAsWritten ==
  status = "OK" => WrittenEnd(end_offset) /\ offset < end_offset /\ end_offset <= length
=============================================================================
