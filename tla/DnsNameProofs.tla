--------------------------- MODULE DnsNameProofs ---------------------------
(***************************************************************************)
(* Name decoding is safe for every message, every buffer and every budget  *)
(* of jumps.                                                               *)
(***************************************************************************)
EXTENDS DnsName, TLAPS

\* Every set closed under labels that has offset also has p.
Reached(p) ==
  \A K \in SUBSET (0 .. length) : offset \in K /\ ClosedUnderLabels(K) => p \in K

EndFound == WrittenEnd(end_offset) /\ offset < end_offset /\ end_offset <= length

\* Until the first pointer the walk follows the name as written.
EndInv ==
  /\ status = "BUSY" /\ ~end_set => Reached(pos) /\ offset <= pos /\ pos <= length
  /\ end_set => EndFound
  /\ status = "OK" => EndFound

\* Every iteration before the last one is a jump or adds to the text.
WorkInv ==
  /\ status = "BUSY" => jumps <= NS_DNS_MAX_JUMPS /\ iterations <= jumps + out_pos
  /\ iterations <= NS_DNS_MAX_JUMPS + out_len

NameInv == TypeOK /\ NameReadsInBounds /\ TextInBuffer /\ WorkInv /\ EndInv

LEMMA NameInit == Init => NameInv
<1> SUFFICES ASSUME Init PROVE NameInv
  OBVIOUS
<1> USE DnsNameAssumption
<1>1. TypeOK
  <2>1. length \in Nat /\ offset \in Nat
    BY DEF Init
  <2>2. pos \in Nat /\ out_pos \in Nat /\ end_offset \in Nat
    BY <2>1 DEF Init
  <2>3. jumps \in 0 .. NS_DNS_MAX_JUMPS + 1
    BY DEF Init
  <2> QED
    BY <2>2, <2>3 DEF Init, TypeOK
<1>2. NameReadsInBounds /\ TextInBuffer /\ WorkInv
  BY DEF Init, NameReadsInBounds, TextInBuffer, WorkInv
<1>3. Reached(pos)
  BY DEF Init, Reached
<1>4. EndInv
  BY <1>3 DEF Init, EndInv
<1> QED
  BY <1>1, <1>2, <1>4 DEF NameInv

\* What is known of the byte at pos when it can be read.
LEMMA ByteRead ==
  ASSUME TypeOK, InBounds(pos, 1)
  PROVE  pos \in 0 .. length - 1 /\ data[pos] \in 0 .. 255 /\ length \in Nat
<1>1. length \in Nat /\ pos \in Nat
  BY DnsNameAssumption DEF TypeOK
<1>2. pos \in 0 .. length - 1
  BY <1>1 DEF InBounds
<1>3. data[pos] \in Byte
  BY <1>2 DEF TypeOK
<1> QED
  BY <1>1, <1>2, <1>3, DnsNameAssumption

\* A terminator or a first pointer that the walk arrives at ends the name.
LEMMA EndOfWalk ==
  ASSUME TypeOK, Reached(pos), pos \in 0 .. length - 1, NEW e \in Nat,
         (data[pos] = 0 /\ e = pos + 1) \/ (IsPointer(pos) /\ e = pos + 2)
  PROVE  WrittenEnd(e)
BY DEF Reached, WrittenEnd

\* A label leads on to the position behind it.
LEMMA WalkOn ==
  ASSUME TypeOK, Reached(pos), pos \in 0 .. length - 1, IsLabel(pos),
         pos + 1 + data[pos] <= length
  PROVE  Reached(pos + 1 + data[pos])
<1> SUFFICES ASSUME NEW K \in SUBSET (0 .. length), offset \in K, ClosedUnderLabels(K)
             PROVE  pos + 1 + data[pos] \in K
  BY DEF Reached
<1>1. pos \in K
  BY DEF Reached
<1>2. pos < length
  BY DnsNameAssumption DEF TypeOK
<1> QED
  BY <1>1, <1>2 DEF ClosedUnderLabels

\* What was found of the end of the name depends on the arguments alone.
LEMMA EndUnchanged ==
  ASSUME UNCHANGED <<arguments, end_offset>>
  PROVE  EndFound' <=> EndFound
BY DEF arguments, EndFound, WrittenEnd, ClosedUnderLabels, IsLabel, IsPointer

LEMMA ReachedUnchanged ==
  ASSUME UNCHANGED arguments, NEW p
  PROVE  (\A K \in SUBSET (0 .. length') : offset' \in K /\ ClosedUnderLabels(K)' => p \in K)
           <=> Reached(p)
BY DEF arguments, Reached, ClosedUnderLabels, IsLabel

-----------------------------------------------------------------------------
LEMMA NameStep == NameInv /\ [Next]_vars => NameInv'
<1> SUFFICES ASSUME NameInv, [Next]_vars PROVE NameInv'
  OBVIOUS
<1> USE DnsNameAssumption
<1>0. /\ length \in Nat /\ pos \in Nat /\ out_pos \in Nat /\ jumps \in Nat
      /\ extent \in Nat /\ iterations \in Nat /\ out_len \in Nat /\ offset \in Nat
      /\ end_offset \in Nat
  BY DEF NameInv, TypeOK
<1>1. CASE ReadPastEnd
  <2>1. TypeOK'
    BY <1>0, <1>1 DEF NameInv, TypeOK, ReadPastEnd, Return, arguments
  <2>2. NameReadsInBounds' /\ TextInBuffer' /\ WorkInv'
    BY <1>0, <1>1 DEF NameInv, TypeOK, NameReadsInBounds, TextInBuffer, WorkInv,
       ReadPastEnd, Return, arguments
  <2>3. EndInv'
    BY <1>1, EndUnchanged DEF NameInv, EndInv, ReadPastEnd, Return
  <2> QED
    BY <2>1, <2>2, <2>3 DEF NameInv
<1>2. CASE FollowPointer
  <2>0. pos \in 0 .. length - 1 /\ data[pos] \in 0 .. 255
    BY <1>2, ByteRead DEF NameInv, FollowPointer, Iteration
  <2>1. InBounds(pos, 2) => Target(pos) \in Nat
    <3>1. InBounds(pos, 2) => data[pos + 1] \in Byte
      BY <1>0, <2>0 DEF NameInv, TypeOK, InBounds
    <3>2. data[pos] % 64 \in Nat
      BY <2>0
    <3>3. \A b \in Byte : b \in Nat
      OBVIOUS
    <3>4. InBounds(pos, 2) => data[pos + 1] \in Nat
      BY <3>1, <3>3, Zenon
    <3> QED
      BY <3>2, <3>4 DEF Target
  <2>2. TypeOK'
    <3>1. pos' \in Nat
      BY <1>0, <1>2, <2>1 DEF FollowPointer
    <3>2. jumps' \in 0 .. NS_DNS_MAX_JUMPS + 1
      BY <1>0, <1>2 DEF NameInv, WorkInv, FollowPointer, Iteration
    <3>3. extent' \in Nat /\ iterations' \in Nat
      BY <1>0, <1>2 DEF FollowPointer, Iteration, Reads
    <3>4. end_offset' \in Nat
      BY <1>0, <1>2 DEF FollowPointer, SetEnd
    <3>6. end_set' \in BOOLEAN
      BY <1>2, Zenon DEF NameInv, TypeOK, FollowPointer, SetEnd
    <3>5. status' \in {"BUSY", "OK", "TRUNCATED", "MALFORMED"}
      BY <1>2 DEF NameInv, TypeOK, FollowPointer, Return
    <3> QED
      BY <1>2, <3>1, <3>2, <3>3, <3>4, <3>5, <3>6 DEF NameInv, TypeOK, FollowPointer, arguments
  <2>3. NameReadsInBounds' /\ TextInBuffer'
    BY <1>0, <1>2, <2>0 DEF NameInv, NameReadsInBounds, TextInBuffer, FollowPointer,
       Iteration, InBounds, Reads, arguments
  <2>4. WorkInv'
    BY <1>0, <1>2 DEF NameInv, TextInBuffer, WorkInv, FollowPointer, Iteration,
       TooManyJumps, Return, arguments
  <2>5. EndInv'
    <3>1. CASE ~InBounds(pos, 2) \/ end_set
      BY <1>2, <3>1, EndUnchanged DEF NameInv, EndInv, FollowPointer, Iteration, SetEnd, Return
    <3>2. CASE InBounds(pos, 2) /\ ~end_set
      <4>1. end_offset' = pos + 2 /\ end_set' = TRUE /\ UNCHANGED arguments
        BY <1>2, <3>2 DEF FollowPointer, SetEnd
      <4>2. WrittenEnd(pos + 2) /\ offset < pos + 2 /\ pos + 2 <= length
        BY <1>0, <1>2, <2>0, <3>2, EndOfWalk DEF NameInv, EndInv, FollowPointer, Iteration, InBounds
      <4>3. EndFound'
        BY <4>1, <4>2 DEF arguments, EndFound, WrittenEnd, ClosedUnderLabels, IsLabel, IsPointer
      <4>4. status' # "OK"
        BY <1>2 DEF FollowPointer, Iteration, Return
      <4> QED
        BY <4>1, <4>3, <4>4 DEF EndInv
    <3> QED
      BY <3>1, <3>2
  <2> QED
    BY <2>2, <2>3, <2>4, <2>5 DEF NameInv
<1>3. CASE RejectReserved
  <2>0. pos \in 0 .. length - 1
    BY <1>3, ByteRead DEF NameInv, RejectReserved, Iteration
  <2>1. TypeOK'
    BY <1>0, <1>3 DEF NameInv, TypeOK, RejectReserved, Iteration, Reads, Return, arguments
  <2>2. NameReadsInBounds' /\ TextInBuffer' /\ WorkInv'
    BY <1>0, <1>3, <2>0 DEF NameInv, NameReadsInBounds, TextInBuffer, WorkInv,
       RejectReserved, Iteration, Reads, Return, arguments
  <2>3. EndInv'
    BY <1>3, EndUnchanged DEF NameInv, EndInv, RejectReserved, Return
  <2> QED
    BY <2>1, <2>2, <2>3 DEF NameInv
<1>4. CASE EndName
  <2>0. pos \in 0 .. length - 1
    BY <1>4, ByteRead DEF NameInv, EndName, Iteration
  <2>1. TypeOK'
    BY <1>0, <1>4 DEF NameInv, TypeOK, EndName, Iteration, Reads, Return, arguments
  <2>2. NameReadsInBounds' /\ TextInBuffer' /\ WorkInv'
    BY <1>0, <1>4, <2>0 DEF NameInv, TypeOK, NameReadsInBounds, TextInBuffer, WorkInv,
       EndName, Iteration, Reads, Return, arguments
  <2>3. EndInv'
    <3>1. CASE end_set
      BY <1>4, <3>1, EndUnchanged DEF NameInv, EndInv, EndName, Return
    <3>2. CASE ~end_set
      <4>1. /\ end_offset' = pos + 1 /\ status' = "OK" /\ UNCHANGED end_set
            /\ UNCHANGED arguments
        BY <1>4, <3>2 DEF EndName, Return
      <4>2. WrittenEnd(pos + 1) /\ offset < pos + 1 /\ pos + 1 <= length
        BY <1>0, <1>4, <2>0, <3>2, EndOfWalk DEF NameInv, EndInv, EndName, Iteration
      <4>3. EndFound'
        BY <4>1, <4>2 DEF arguments, EndFound, WrittenEnd, ClosedUnderLabels, IsLabel, IsPointer
      <4> QED
        BY <3>2, <4>1, <4>3 DEF EndInv
    <3> QED
      BY <3>1, <3>2
  <2> QED
    BY <2>1, <2>2, <2>3 DEF NameInv
<1>5. CASE CopyLabel
  <2>0. pos \in 0 .. length - 1 /\ data[pos] \in 1 .. 63
    BY <1>5, ByteRead DEF NameInv, CopyLabel, Iteration, IsLabel
  <2>1. TypeOK'
    <3>1. pos' \in Nat /\ out_pos' \in Nat
      BY <1>0, <1>5, <2>0 DEF CopyLabel
    <3>2. extent' \in Nat /\ iterations' \in Nat
      BY <1>0, <1>5, <2>0 DEF CopyLabel, Iteration, Reads
    <3>3. status' \in {"BUSY", "OK", "TRUNCATED", "MALFORMED"}
      BY <1>5 DEF NameInv, TypeOK, CopyLabel, Return
    <3> QED
      BY <1>5, <3>1, <3>2, <3>3 DEF NameInv, TypeOK, CopyLabel, arguments
  <2>2. NameReadsInBounds'
    BY <1>0, <1>5, <2>0 DEF NameInv, NameReadsInBounds, CopyLabel, InsideMessage, InBounds,
       Reads, arguments
  <2>2a. TextInBuffer'
    BY <1>0, <1>5, <2>0, SMTT(30) DEF NameInv, TextInBuffer, CopyLabel, Fits, arguments
  <2>3. WorkInv'
    BY <1>0, <1>5, <2>0, SMTT(30) DEF NameInv, TextInBuffer, WorkInv, CopyLabel, Iteration, Fits,
       Return, arguments
  <2>4. EndInv'
    <3>1. CASE end_set \/ status' # "BUSY"
      BY <1>5, <3>1, EndUnchanged DEF NameInv, EndInv, CopyLabel, Iteration, Return
    <3>2. CASE ~end_set /\ status' = "BUSY"
      <4>1. /\ pos' = pos + 1 + data[pos] /\ pos + 1 + data[pos] <= length
            /\ UNCHANGED <<arguments, end_set>>
        BY <1>0, <1>5, <2>0, <3>2 DEF CopyLabel, Return, InsideMessage, InBounds
      <4>2. Reached(pos + 1 + data[pos])
        BY <1>0, <1>5, <2>0, <3>2, <4>1, WalkOn DEF NameInv, EndInv, CopyLabel, Iteration
      <4>3. Reached(pos)'
        BY <4>1, <4>2, ReachedUnchanged DEF Reached
      <4>4. offset' <= pos' /\ pos' <= length'
        BY <1>0, <1>5, <2>0, <3>2, <4>1 DEF NameInv, EndInv, arguments, CopyLabel, Iteration
      <4> QED
        BY <3>2, <4>1, <4>3, <4>4 DEF EndInv
    <3> QED
      BY <3>1, <3>2
  <2> QED
    BY <2>1, <2>2, <2>2a, <2>3, <2>4 DEF NameInv
<1>6. CASE UNCHANGED vars
  BY <1>6, ZenonT(40) DEF vars, arguments, NameInv, TypeOK, NameReadsInBounds, TextInBuffer, WorkInv,
     EndInv, EndFound, Reached, WrittenEnd, ClosedUnderLabels, IsLabel, IsPointer
<1> QED
  BY <1>1, <1>2, <1>3, <1>4, <1>5, <1>6 DEF Next

\* The inductive invariant of ns_dns_decode_name().
THEOREM NameInvariant == Spec => []NameInv
BY NameInit, NameStep, PTL DEF Spec

(* dns.c:20-89 reads nothing past the end of any message.                  *)
THEOREM NameNoOverread == Spec => []NameReadsInBounds
BY NameInvariant, PTL DEF NameInv

(* dns.c:72-87: text and NUL fit in every buffer of at least two bytes.    *)
THEOREM NameNoOverflow == Spec => []TextInBuffer
BY NameInvariant, PTL DEF NameInv

(* dns.c:14: the bound on the work does not depend on the message; it also *)
(* shows that the loop ends.                                               *)
THEOREM NameWorkBounded == Spec => []WorkBounded
<1>1. NameInv => WorkBounded
  BY DEF NameInv, WorkInv, WorkBounded
<1> QED
  BY <1>1, NameInvariant, PTL

(* dns.c:15-18: what callers continue from is the end of the name as       *)
(* written, whatever its pointers lead to.                                 *)
THEOREM NameEnd == Spec => []EndOffsetAsWritten
<1>1. NameInv => EndOffsetAsWritten
  BY DEF NameInv, EndInv, EndFound, EndOffsetAsWritten
<1> QED
  BY <1>1, NameInvariant, PTL

\* What module DnsMessage has of names: a size where they are written, and a
\* text that has at least one character and fits with its NUL.
NameDecoded ==
  status = "OK" =>
    /\ end_offset - offset \in Nat \ {0} /\ InBounds(offset, end_offset - offset)
    /\ out_pos \in Nat \ {0} /\ out_pos + 1 <= out_len

(* dns.c:15-18, 79-89: what ns_dns_decode_name() returns when it succeeds  *)
(* is what its callers in ns_dns_parse_question() and ns_dns_parse_record()*)
(* continue with; even the root has a text.                                *)
THEOREM DecodedForCallers == Spec => []NameDecoded
<1> DEFINE HasText == status = "OK" => out_pos # 0
<1>1. Init => HasText
  BY DEF Init
<1>2. HasText /\ [Next]_vars => HasText'
  BY DEF Next, vars, ReadPastEnd, FollowPointer, RejectReserved, EndName, CopyLabel, Iteration, Return
<1>3. NameInv /\ HasText => NameDecoded
  <2> SUFFICES ASSUME NameInv, HasText PROVE NameDecoded
    OBVIOUS
  <2>1. length \in Nat /\ offset \in Nat /\ end_offset \in Nat /\ out_pos \in Nat /\ out_len \in Nat
    BY DnsNameAssumption DEF NameInv, TypeOK
  <2> QED
    BY <2>1 DEF NameInv, EndInv, EndFound, TextInBuffer, NameDecoded, InBounds
<1> QED
  BY <1>1, <1>2, <1>3, NameInvariant, PTL DEF Spec
=============================================================================
