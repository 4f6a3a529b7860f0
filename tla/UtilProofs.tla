----------------------------- MODULE UtilProofs -----------------------------
(***************************************************************************)
(* ns_hex_dump() and ns_format_ipv6() of src/src/util.c, for every length  *)
(* and every address: each keeps its invariant, step by step, and what it  *)
(* has written at the end is complete and can be read back.                *)
(***************************************************************************)
EXTENDS Display, Sequences, TLAPS

\* The hex dump

\* The smaller of two numbers.
Least(a, b) == IF a < b THEN a ELSE b

\* The bytes in front of e.
Before(e) == 0 .. e - 1

\* Inside a line: how long its text is, and which bytes have been shown.
InCells ==
  /\ offset < length /\ ~newline
  /\ full = OffsetDigits(offset) + 2 + 3 * i + (IF i > 7 THEN 1 ELSE 0)
  /\ hex = Before(offset + Least(i, D!chunk)) /\ ascii = Before(offset)
InAscii ==
  /\ offset < length /\ i <= D!chunk
  /\ full = OffsetDigits(offset) + 52 + i
  /\ hex = Before(offset + D!chunk) /\ ascii = Before(offset + i)
InWrite ==
  /\ offset < length /\ newline
  /\ hex = Before(offset + D!chunk) /\ ascii = hex
BetweenLines ==
  /\ newline /\ hex = Before(Least(offset, length)) /\ ascii = hex

DumpTypes ==
  /\ length \in Length
  /\ pc \in {"line", "cells", "ascii", "write", "done", "failed"}
  /\ offset \in Nat /\ i \in 0 .. 16 /\ full \in Nat /\ newline \in BOOLEAN

DumpInv ==
  /\ DumpTypes
  /\ pos = full /\ pos < 127
  /\ pc = "cells" => InCells
  /\ pc = "ascii" => InAscii
  /\ pc \in {"write", "failed"} => InWrite
  /\ pc \in {"line", "done"} => BetweenLines
  /\ pc = "done" => offset >= length

LEMMA DumpArithmetic ==
  ASSUME length \in Length, offset \in Nat
  PROVE  /\ length \in Nat
         /\ offset < length => /\ OffsetDigits(offset) \in 4 .. 16
                               /\ D!chunk \in 1 .. 16 /\ offset + D!chunk <= length
<1>1. length \in Nat BY DisplayAssumption
<1>2. ASSUME offset < length PROVE OffsetDigits(offset) \in 4 .. 16
  <2>1. offset \in 0 .. length BY <1>1, <1>2
  <2>2. \A n \in Length : \A o \in 0 .. n : OffsetDigits(o) \in 4 .. 16
    BY DisplayAssumption
  <2> QED BY <2>1, <2>2, Zenon
<1>3. ASSUME offset < length PROVE D!chunk \in 1 .. 16 /\ offset + D!chunk <= length
  BY <1>1, <1>3 DEF D!chunk
<1> QED BY <1>1, <1>2, <1>3

(* append_line() does not cut what ends inside of the buffer.              *)
LEMMA NotClamped ==
  ASSUME NEW a \in Nat, NEW n \in Nat, a + n < 128
  PROVE  D!Clamped(a, n) = a + n
BY DEF D!Clamped, D!LINE_LEN

LEMMA DumpInit == D!Init => DumpInv
<1> SUFFICES ASSUME D!Init PROVE DumpInv
  OBVIOUS
<1>1. DumpTypes BY DEF D!Init, DumpTypes
<1>2. BetweenLines
  <2>1. length \in Nat BY DisplayAssumption DEF D!Init
  <2>2. Least(0, length) = 0 BY <2>1 DEF Least
  <2> QED BY <2>2 DEF D!Init, BetweenLines, Before
<1> QED BY <1>1, <1>2 DEF D!Init, DumpInv

LEMMA StartLineKeeps ==
  ASSUME DumpInv, D!StartLine PROVE DumpInv'
<1> DEFINE d == OffsetDigits(offset)
<1>1. /\ pc = "line" /\ offset < length /\ pc' = "cells" /\ i' = 0
      /\ pos' = D!Clamped(0, d + 2) /\ full' = d + 2 /\ newline' = FALSE
      /\ length' = length /\ offset' = offset /\ hex' = hex /\ ascii' = ascii
  BY DEF D!StartLine
<1>2. DumpTypes /\ BetweenLines BY <1>1 DEF DumpInv
<1>3. d \in 4 .. 16 /\ length \in Nat /\ D!chunk \in 1 .. 16
  BY <1>1, <1>2, DumpArithmetic DEF DumpTypes
<1> HIDE DEF d
<1>4. pos' = full' /\ pos' < 127 /\ full' \in Nat
  <2>1. d + 2 \in Nat /\ 0 + (d + 2) < 128 /\ 0 + (d + 2) = d + 2 /\ d + 2 < 127 BY <1>3
  <2> QED BY <1>1, <2>1, NotClamped
<1>5. DumpTypes'
  <2>1. 0 \in 0 .. 16 OBVIOUS
  <2> QED BY <1>1, <1>2, <1>4, <2>1, Zenon DEF DumpTypes
<1>6. InCells'
  <2>1. full' = OffsetDigits(offset') + 2 + 3 * i' + (IF i' > 7 THEN 1 ELSE 0)
    <3>1. d + 2 = d + 2 + 3 * 0 + 0 BY <1>3
    <3> QED BY <1>1, <3>1 DEF d
  <2>2. D!chunk' = D!chunk BY <1>1 DEF D!chunk
  <2>3. offset + Least(0, D!chunk) = offset /\ Least(offset, length) = offset
    BY <1>1, <1>2, <1>3 DEF Least, DumpTypes
  <2> QED BY <1>1, <1>2, <2>1, <2>2, <2>3 DEF InCells, BetweenLines
<1> QED BY <1>1, <1>4, <1>5, <1>6 DEF DumpInv

LEMMA CellKeeps ==
  ASSUME DumpInv, D!Cell PROVE DumpInv'
<1> DEFINE w == IF i = 7 THEN 4 ELSE 3
           c == D!chunk
           d == OffsetDigits(offset)
<1>1. /\ pc = "cells" /\ i < 16 /\ pc' = "cells" /\ i' = i + 1 /\ full' = full + w
      /\ pos' = IF i = 7 THEN D!Clamped(D!Clamped(pos, 3), 1) ELSE D!Clamped(pos, 3)
      /\ hex' = IF i < c THEN hex \cup {offset + i} ELSE hex
      /\ length' = length /\ offset' = offset /\ ascii' = ascii /\ newline' = newline
  BY DEF D!Cell
<1>2. DumpTypes /\ InCells /\ pos = full BY <1>1 DEF DumpInv
<1>3. d \in 4 .. 16 /\ length \in Nat /\ c \in 1 .. 16 /\ i \in 0 .. 15 /\ full \in Nat
  BY <1>1, <1>2, DumpArithmetic DEF DumpTypes, InCells
<1>4. full = d + 2 + 3 * i + (IF i > 7 THEN 1 ELSE 0) BY <1>2 DEF InCells
<1> HIDE DEF d
<1>5. full + 4 < 127 BY <1>3, <1>4
<1>6. pos' = full' /\ pos' < 127 /\ full' \in Nat
  <2>1. D!Clamped(full, 3) = full + 3
    BY <1>3, <1>5, NotClamped
  <2>2. D!Clamped(full + 3, 1) = full + 3 + 1
    BY <1>3, <1>5, NotClamped
  <2> QED BY <1>1, <1>2, <1>3, <1>5, <2>1, <2>2
<1>7. DumpTypes'
  BY <1>1, <1>2, <1>3, <1>6 DEF DumpTypes
<1>8. InCells'
  <2>1. full' = OffsetDigits(offset') + 2 + 3 * i' + (IF i' > 7 THEN 1 ELSE 0)
    <3>1. full + w = d + 2 + 3 * (i + 1) + (IF i + 1 > 7 THEN 1 ELSE 0)
      BY <1>3, <1>4
    <3> QED BY <1>1, <3>1 DEF d
  <2>2. D!chunk' = c BY <1>1 DEF D!chunk
  <2>3. hex' = Before(offset + Least(i + 1, c))
    <3> HIDE DEF c
    <3>1. hex = Before(offset + Least(i, c)) /\ offset \in Nat
      BY <1>2 DEF InCells, c, DumpTypes
    <3>2. CASE i < c
      <4>1. Least(i, c) = i /\ Least(i + 1, c) = i + 1 BY <1>3, <3>2 DEF Least
      <4>2. 0 .. (offset + i) - 1 \cup {offset + i} = 0 .. (offset + (i + 1)) - 1
        BY <1>3, <3>1
      <4> QED BY <1>1, <3>1, <3>2, <4>1, <4>2 DEF Before
    <3>3. CASE ~(i < c)
      <4>1. Least(i, c) = c /\ Least(i + 1, c) = c BY <1>3, <3>3 DEF Least
      <4> QED BY <1>1, <3>1, <3>3, <4>1
    <3> QED BY <3>2, <3>3
  <2> QED BY <1>1, <1>2, <2>1, <2>2, <2>3 DEF InCells
<1> QED BY <1>1, <1>6, <1>7, <1>8 DEF DumpInv

LEMMA GutterKeeps ==
  ASSUME DumpInv, D!Gutter PROVE DumpInv'
<1> DEFINE d == OffsetDigits(offset)
<1>1. /\ pc = "cells" /\ i = 16 /\ pc' = "ascii" /\ i' = 0
      /\ pos' = D!Clamped(pos, 1) /\ full' = full + 1
      /\ length' = length /\ offset' = offset /\ hex' = hex /\ ascii' = ascii /\ newline' = newline
  BY DEF D!Gutter, D!shown
<1>2. DumpTypes /\ InCells /\ pos = full BY <1>1 DEF DumpInv
<1>3. d \in 4 .. 16 /\ length \in Nat /\ D!chunk \in 1 .. 16 /\ full \in Nat
  BY <1>1, <1>2, DumpArithmetic DEF DumpTypes, InCells
<1>4. full = d + 51
  <2>1. full = d + 2 + 3 * 16 + (IF 16 > 7 THEN 1 ELSE 0) BY <1>1, <1>2 DEF InCells
  <2> QED BY <1>3, <2>1
<1> HIDE DEF d
<1>5. pos' = full' /\ pos' < 127 /\ full' \in Nat
  <2>1. full + 1 < 127 BY <1>3, <1>4
  <2>2. D!Clamped(full, 1) = full + 1 BY <1>3, <2>1, NotClamped
  <2> QED BY <1>1, <1>2, <1>3, <2>1, <2>2
<1>6. DumpTypes'
  BY <1>1, <1>2, <1>5 DEF DumpTypes
<1>7. InAscii'
  <2>1. full' = OffsetDigits(offset') + 52 + i'
    <3>1. d + 51 + 1 = d + 52 + 0 BY <1>3
    <3> QED BY <1>1, <1>4, <3>1 DEF d
  <2>2. D!chunk' = D!chunk BY <1>1 DEF D!chunk
  <2>3. Least(16, D!chunk) = D!chunk /\ offset + 0 = offset
    BY <1>2, <1>3 DEF Least, DumpTypes
  <2>4. 0 <= D!chunk BY <1>3
  <2> QED BY <1>1, <1>2, <2>1, <2>2, <2>3, <2>4 DEF InAscii, InCells
<1> QED BY <1>1, <1>5, <1>6, <1>7 DEF DumpInv

LEMMA CharacterKeeps ==
  ASSUME DumpInv, D!Character PROVE DumpInv'
<1> DEFINE d == OffsetDigits(offset)
           c == D!chunk
<1>1. /\ pc = "ascii" /\ i < c /\ pc' = "ascii" /\ i' = i + 1
      /\ pos' = pos + 1 /\ full' = full + 1 /\ ascii' = ascii \cup {offset + i}
      /\ length' = length /\ offset' = offset /\ hex' = hex /\ newline' = newline
  BY DEF D!Character
<1>2. DumpTypes /\ InAscii /\ pos = full BY <1>1 DEF DumpInv
<1>3. /\ d \in 4 .. 16 /\ length \in Nat /\ c \in 1 .. 16 /\ full \in Nat /\ i \in 0 .. 16
      /\ offset \in Nat
  BY <1>1, <1>2, DumpArithmetic DEF DumpTypes, InAscii
<1>4. full = d + 52 + i BY <1>2 DEF InAscii
<1> HIDE DEF d, c
<1>5. pos' = full' /\ pos' < 127 /\ full' \in Nat /\ i' \in 0 .. 16
  BY <1>1, <1>2, <1>3, <1>4
<1>6. DumpTypes'
  BY <1>1, <1>2, <1>5 DEF DumpTypes
<1>7. InAscii'
  <2>1. full' = OffsetDigits(offset') + 52 + i'
    <3>1. d + 52 + i + 1 = d + 52 + (i + 1) BY <1>3
    <3> QED BY <1>1, <1>4, <3>1 DEF d
  <2>2. D!chunk' = D!chunk BY <1>1 DEF D!chunk
  <2>3. ascii' = Before(offset + (i + 1))
    <3>1. 0 .. (offset + i) - 1 \cup {offset + i} = 0 .. (offset + (i + 1)) - 1
      BY <1>3
    <3> QED BY <1>1, <1>2, <3>1 DEF InAscii, Before
  <2>4. i + 1 <= c BY <1>1, <1>3
  <2> QED BY <1>1, <1>2, <2>1, <2>2, <2>3, <2>4 DEF InAscii, c
<1> QED BY <1>1, <1>5, <1>6, <1>7 DEF DumpInv

LEMMA EndLineKeeps ==
  ASSUME DumpInv, D!EndLine PROVE DumpInv'
<1> DEFINE d == OffsetDigits(offset)
           c == D!chunk
<1>1. /\ pc = "ascii" /\ ~(i < c /\ pos + 1 < 128) /\ pc' = "write" /\ full' = full + 1
      /\ length' = length /\ offset' = offset /\ i' = i /\ hex' = hex /\ ascii' = ascii
      /\ \/ pos + 1 < 128 /\ pos' = pos + 1 /\ newline' = TRUE
         \/ pos + 1 >= 128
  BY DEF D!EndLine, D!LINE_LEN
<1>2. DumpTypes /\ InAscii /\ pos = full BY <1>1 DEF DumpInv
<1>3. /\ d \in 4 .. 16 /\ length \in Nat /\ c \in 1 .. 16 /\ full \in Nat /\ i \in 0 .. 16
      /\ i <= c
  BY <1>1, <1>2, DumpArithmetic DEF DumpTypes, InAscii
<1>4. full = d + 52 + i BY <1>2 DEF InAscii
<1> HIDE DEF d, c
<1>5. pos' = full' /\ pos' < 127 /\ full' \in Nat /\ newline' = TRUE /\ i = c
  BY <1>1, <1>2, <1>3, <1>4
<1>6. DumpTypes'
  BY <1>1, <1>2, <1>5 DEF DumpTypes
<1>7. InWrite'
  <2>1. D!chunk' = D!chunk BY <1>1 DEF D!chunk
  <2> QED BY <1>1, <1>2, <1>5, <2>1 DEF InWrite, InAscii, c
<1> QED BY <1>1, <1>5, <1>6, <1>7 DEF DumpInv

LEMMA WriteKeeps ==
  ASSUME DumpInv, D!Write PROVE DumpInv'
<1> DEFINE c == D!chunk
<1>1. /\ pc = "write" /\ pos' = pos /\ full' = full
      /\ length' = length /\ i' = i /\ hex' = hex /\ ascii' = ascii /\ newline' = newline
      /\ \/ pc' = "line" /\ offset' = offset + 16
         \/ pc' = "failed" /\ offset' = offset
  BY DEF D!Write, D!Advance, D!shown
<1>2. DumpTypes /\ InWrite /\ pos = full /\ pos < 127 BY <1>1 DEF DumpInv
<1>3. length \in Nat /\ c \in 1 .. 16 /\ offset \in Nat /\ offset < length
  BY <1>2, DumpArithmetic DEF DumpTypes, InWrite
<1>4. CASE pc' = "line"
  <2>1. offset' = offset + 16 /\ offset' \in Nat BY <1>1, <1>3, <1>4
  <2>2. DumpTypes' BY <1>1, <1>2, <1>4, <2>1 DEF DumpTypes
  <2>3. Least(offset + 16, length) = offset + c BY <1>3 DEF Least, D!chunk
  <2>4. BetweenLines' BY <1>1, <1>2, <2>1, <2>3 DEF BetweenLines, InWrite
  <2> QED BY <1>1, <1>2, <1>4, <2>2, <2>4 DEF DumpInv
<1>5. CASE pc' = "failed"
  <2>1. offset' = offset BY <1>1, <1>5
  <2>2. DumpTypes' BY <1>1, <1>2, <1>5, <2>1 DEF DumpTypes
  <2>3. D!chunk' = D!chunk BY <1>1, <2>1 DEF D!chunk
  <2>4. InWrite' BY <1>1, <1>2, <2>1, <2>3 DEF InWrite
  <2> QED BY <1>1, <1>2, <1>5, <2>2, <2>4 DEF DumpInv
<1> QED BY <1>1, <1>4, <1>5

LEMMA ReturnKeeps ==
  ASSUME DumpInv, D!Return PROVE DumpInv'
<1>1. /\ pc = "line" /\ offset >= length /\ pc' = "done"
      /\ UNCHANGED <<length, offset, i, pos, full, hex, ascii, newline>>
  BY DEF D!Return, D!shown
<1>2. DumpTypes' /\ BetweenLines'
  BY <1>1 DEF DumpInv, DumpTypes, BetweenLines
<1> QED BY <1>1, <1>2 DEF DumpInv

(* Every step of the dump keeps its invariant.                             *)
LEMMA DumpStep ==
  ASSUME DumpInv, D!Next PROVE DumpInv'
BY StartLineKeeps, CellKeeps, GutterKeeps, CharacterKeeps, EndLineKeeps, WriteKeeps, ReturnKeeps
   DEF D!Next

LEMMA DumpShows == DumpInv => D!TypeOK /\ D!LineFits /\ D!EveryByteShown
<1> SUFFICES ASSUME DumpInv PROVE D!TypeOK /\ D!LineFits /\ D!EveryByteShown
  OBVIOUS
<1>1. DumpTypes /\ length \in Nat /\ offset \in Nat
  BY DumpArithmetic DEF DumpInv, DumpTypes
<1>2. D!LineFits
  BY <1>1 DEF DumpInv, DumpTypes, D!LineFits, D!LINE_LEN
<1>3. \E e \in 0 .. length : hex = Before(e)
  <2>1. CASE offset < length
    <3>1. D!chunk \in 1 .. 16 /\ offset + D!chunk <= length
      BY <1>1, <2>1, DumpArithmetic DEF DumpTypes
    <3>2. Least(offset, length) = offset BY <1>1, <2>1 DEF Least
    <3>3. i \in 0 .. 16 BY <1>1 DEF DumpTypes
    <3>4. offset + Least(i, D!chunk) \in 0 .. length /\ offset + D!chunk \in 0 .. length
      BY <1>1, <3>1, <3>3 DEF Least
    <3>5. offset \in 0 .. length BY <1>1, <2>1
    <3> QED
      BY <1>1, <3>2, <3>4, <3>5
      DEF DumpInv, DumpTypes, InCells, InAscii, InWrite, BetweenLines
  <2>2. CASE ~(offset < length)
    <3>1. Least(offset, length) = length BY <1>1, <2>2 DEF Least
    <3>2. pc \in {"line", "done"} BY <1>1, <2>2 DEF DumpInv, DumpTypes, InCells, InAscii, InWrite
    <3>3. length \in 0 .. length BY <1>1
    <3> QED BY <3>1, <3>2, <3>3 DEF DumpInv, BetweenLines
  <2> QED BY <2>1, <2>2
<1>4. ascii \subseteq hex
  <2>1. CASE pc = "cells"
    <3>1. InCells BY <2>1 DEF DumpInv
    <3>2. D!chunk \in 1 .. 16 BY <1>1, <3>1, DumpArithmetic DEF InCells, DumpTypes
    <3>3. Least(i, D!chunk) \in Nat BY <1>1, <3>2 DEF Least, DumpTypes
    <3> QED BY <1>1, <3>1, <3>3 DEF InCells, Before
  <2>2. CASE pc = "ascii"
    <3>1. InAscii BY <2>2 DEF DumpInv
    <3>2. D!chunk \in 1 .. 16 /\ i \in Nat /\ i <= D!chunk
      BY <1>1, <3>1, DumpArithmetic DEF InAscii, DumpTypes
    <3> QED BY <1>1, <3>1, <3>2 DEF InAscii, Before
  <2>3. CASE pc \in {"line", "write", "done", "failed"}
    BY <2>3 DEF DumpInv, InWrite, BetweenLines
  <2> QED BY <1>1, <2>1, <2>2, <2>3 DEF DumpTypes
<1>5. D!TypeOK
  <2>1. hex \subseteq 0 .. length - 1
    <3>1. PICK e \in 0 .. length : hex = Before(e) BY <1>3
    <3> QED BY <1>1, <3>1 DEF Before
  <2> QED BY <1>1, <1>4, <2>1 DEF D!TypeOK, DumpTypes, DumpInv
<1>6. D!EveryByteShown
  <2>1. pc = "done" => Least(offset, length) = length BY <1>1 DEF DumpInv, Least
  <2> QED BY <2>1 DEF DumpInv, D!EveryByteShown, InWrite, BetweenLines, Before
<1> QED BY <1>2, <1>5, <1>6

\* The invariant of a call of ns_hex_dump().
DumpCall == function = "ns_hex_dump" => DumpInv

LEMMA DumpCallInit == DisplayInit => DumpCall
BY DumpInit DEF DisplayInit, DumpCall

LEMMA DumpCallStep ==
  ASSUME DumpCall, [DisplayNext]_displayVars PROVE DumpCall'
<1> SUFFICES ASSUME function' = "ns_hex_dump" PROVE DumpInv'
  BY DEF DumpCall
<1>1. CASE DumpHex
  BY <1>1, DumpStep DEF DumpHex, DumpCall
<1>2. CASE UNCHANGED displayVars
  <2>1. DumpInv /\ UNCHANGED <<length, offset, full, hex, ascii, newline, pc, i, pos>>
    BY <1>2 DEF DumpCall, displayVars, place, ofDump
  <2> QED BY <2>1 DEF DumpInv, DumpTypes, InCells, InAscii, InWrite, BetweenLines, D!chunk
<1> QED BY <1>1, <1>2 DEF DisplayNext, OutputPacket, WriteEscaped, FormatIpv6

(* Whatever the length of the data: every byte is in the dump, once its    *)
(* line is written, in hexadecimal and as a character, and no line is cut  *)
(* by line[128] (util.c:187-234).                                          *)
THEOREM DumpIsComplete == DisplaySpec => []DumpShowsAll
<1>1. DumpCall /\ [DisplayNext]_displayVars => DumpCall' BY DumpCallStep
<1>2. DumpCall => DumpShowsAll BY DumpShows DEF DumpCall, DumpShowsAll
<1> QED BY DumpCallInit, <1>1, <1>2, PTL DEF DisplaySpec

-----------------------------------------------------------------------------
\* IPv6 addresses

AddressTypes ==
  /\ groups \in [0 .. 7 -> Group] /\ pc \in {"search", "text", "done"}
  /\ i \in 0 .. 8
  /\ best_start \in -1 .. 7 /\ best_len \in 0 .. 8
  /\ cur_start \in -1 .. 7 /\ cur_len \in 0 .. 8
  /\ tmp \in Seq({A!colon} \cup Group) /\ pos \in Nat

\* Group j is zero; n zero groups from a on, all of them in front of e.
Zero(j) == j \in 0 .. 7 /\ groups[j] = 0
RunBelow(a, n, e) == a + n <= e /\ \A j \in 0 .. 7 : a <= j /\ j < a + n => Zero(j)

\* The run that ends in front of group i, and the best one so far.
CurrentRun ==
  /\ cur_len <= i /\ cur_len <= best_len
  /\ cur_start = IF cur_len = 0 THEN -1 ELSE i - cur_len
  /\ \A j \in 0 .. 7 : i - cur_len <= j /\ j < i => Zero(j)
  /\ i - cur_len > 0 => ~Zero(i - cur_len - 1)
BestRun ==
  /\ IF best_len = 0 THEN best_start = -1
                     ELSE best_start >= 0 /\ RunBelow(best_start, best_len, i)
  /\ \A a \in 0 .. 7 : ~RunBelow(a, best_len + 1, i)
  /\ \A a \in 0 .. 7 : a < best_start => ~RunBelow(a, best_len, i)

\* The run that is left out of the text, if there is one.
LeftOut ==
  \/ best_start = -1 /\ best_len = 0
  \/ best_start >= 0 /\ best_len >= 2 /\ RunBelow(best_start, best_len, 8)

\* The groups in front of m, with colons between them.
FrontWritten(m) ==
  /\ \A n \in 0 .. 7 : n < m => tmp[2 * n + 1] = groups[n]
  /\ \A n \in 1 .. 7 : n < m => tmp[2 * n] = A!colon

\* Where "::" is, and what is behind it.
At == IF best_start = 0 THEN 1 ELSE 2 * best_start
Resume == best_start + best_len
BackWritten ==
  /\ tmp[At] = A!colon /\ tmp[At + 1] = A!colon
  /\ \A n \in 0 .. 7 : Resume <= n /\ n < i => tmp[At + 2 + 2 * (n - Resume)] = groups[n]
  /\ \A n \in 0 .. 7 : Resume < n /\ n < i => tmp[At + 1 + 2 * (n - Resume)] = A!colon

InFront ==
  /\ best_start = -1 \/ i <= best_start
  /\ Len(tmp) = IF i = 0 THEN 0 ELSE 2 * i - 1
  /\ FrontWritten(i)
Behind ==
  /\ best_start >= 0 /\ i >= Resume
  /\ Len(tmp) = IF i = Resume THEN At + 1 ELSE At + 2 * (i - Resume)
  /\ FrontWritten(best_start) /\ BackWritten

AddressInv ==
  /\ AddressTypes
  /\ pc = "search" => CurrentRun /\ BestRun /\ tmp = <<>> /\ pos = 0
  /\ pc = "text" => /\ LeftOut /\ A!LeftmostLongest /\ (InFront \/ Behind)
                    /\ pos <= 5 * i /\ (i > 0 => pos > 0)
  /\ pc = "done" => pos <= 40 /\ A!ReadsBack

LEMMA AddressInit == A!Init => AddressInv
<1> SUFFICES ASSUME A!Init PROVE AddressInv
  OBVIOUS
<1>1. /\ groups \in [0 .. 7 -> Group] /\ pc = "search" /\ i = 0 /\ best_start = -1 /\ best_len = 0
      /\ cur_start = -1 /\ cur_len = 0 /\ tmp = <<>> /\ pos = 0
  BY DEF A!Init
<1>2. AddressTypes
  <2>1. tmp \in Seq({A!colon} \cup Group) BY <1>1
  <2> QED BY <1>1, <2>1 DEF AddressTypes
<1>3. CurrentRun BY <1>1 DEF CurrentRun
<1>4. BestRun BY <1>1 DEF BestRun, RunBelow
<1> QED BY <1>1, <1>2, <1>3, <1>4 DEF AddressInv

(* A run that ends behind group i is part of the current one, or it ended  *)
(* before.                                                                 *)
LEMMA RunsBelowNext ==
  ASSUME AddressTypes, CurrentRun, i < 8, NEW a \in 0 .. 7, NEW n \in 1 .. 9,
         RunBelow(a, n, i + 1)
  PROVE  RunBelow(a, n, i) \/ (Zero(i) /\ a + n = i + 1 /\ a >= i - cur_len)
<1>1. i \in 0 .. 7 /\ cur_len \in 0 .. 8 /\ cur_len <= i
  BY DEF AddressTypes, CurrentRun
<1>2. CASE a + n <= i
  BY <1>2 DEF RunBelow
<1>3. CASE a + n = i + 1
  <2>1. Zero(i)
    <3>1. a <= i /\ i < a + n BY <1>1, <1>3
    <3> QED BY <1>1, <3>1 DEF RunBelow
  <2>2. a >= i - cur_len
    <3> SUFFICES ASSUME a < i - cur_len PROVE FALSE
      BY <1>1
    <3>1. /\ i - cur_len > 0 /\ i - cur_len - 1 \in 0 .. 7
          /\ a <= i - cur_len - 1 /\ i - cur_len - 1 < a + n
      BY <1>1, <1>3
    <3>2. Zero(i - cur_len - 1) BY <3>1 DEF RunBelow
    <3> QED BY <3>1, <3>2 DEF CurrentRun
  <2> QED BY <1>3, <2>1, <2>2
<1> QED BY <1>1, <1>2, <1>3 DEF RunBelow

(* A shorter run at the same place is a run.                               *)
LEMMA ShorterRun ==
  ASSUME NEW a \in Int, NEW n \in Int, NEW m \in Int, NEW e \in Int, m <= n, RunBelow(a, n, e)
  PROVE  RunBelow(a, m, e)
BY DEF RunBelow

LEMMA SearchKeeps ==
  ASSUME AddressInv, A!Search PROVE AddressInv'
<1>1. /\ pc = "search" /\ i < 8 /\ pc' = "search" /\ i' = i + 1
      /\ groups' = groups /\ tmp' = tmp /\ pos' = pos
  BY DEF A!Search, A!text
<1>2. AddressTypes /\ CurrentRun /\ BestRun /\ tmp = <<>> /\ pos = 0
  BY <1>1 DEF AddressInv
<1>3. /\ i \in 0 .. 7 /\ cur_len \in 0 .. 7 /\ best_len \in 0 .. 8 /\ best_start \in -1 .. 7
      /\ cur_len <= i /\ cur_len <= best_len /\ best_len <= i
  <2>1. best_len <= i
    <3>1. CASE best_len = 0 BY <1>2, <3>1 DEF AddressTypes
    <3>2. CASE best_len # 0
      <4>1. best_start >= 0 /\ best_start + best_len <= i
        BY <1>2, <3>2 DEF BestRun, RunBelow
      <4> QED BY <1>2, <4>1 DEF AddressTypes
    <3> QED BY <3>1, <3>2
  <2> QED BY <1>1, <1>2, <2>1 DEF AddressTypes, CurrentRun
<1>4. \A j : Zero(j)' <=> Zero(j) BY <1>1 DEF Zero
<1>5. \A a, n, e : RunBelow(a, n, e)' <=> RunBelow(a, n, e) BY <1>4 DEF RunBelow
<1>6. CASE groups[i] = 0
  <2>1. Zero(i) BY <1>3, <1>6 DEF Zero
  <2>2. /\ cur_len' = cur_len + 1 /\ cur_start' = i - cur_len
        /\ \/ cur_len + 1 > best_len /\ best_len' = cur_len + 1 /\ best_start' = i - cur_len
           \/ cur_len + 1 <= best_len /\ best_len' = best_len /\ best_start' = best_start
    <3>1. (IF cur_start < 0 THEN i ELSE cur_start) = i - cur_len
      BY <1>2, <1>3 DEF CurrentRun
    <3>2. /\ cur_start' = IF cur_start < 0 THEN i ELSE cur_start
          /\ cur_len' = cur_len + 1
          /\ \/ cur_len + 1 > best_len /\ best_len' = cur_len + 1 /\ best_start' = cur_start'
             \/ ~(cur_len + 1 > best_len) /\ best_len' = best_len /\ best_start' = best_start
      BY <1>6 DEF A!Search, A!Longer
    <3>3. cur_start' = i - cur_len BY <3>1, <3>2
    <3>4. ~(cur_len + 1 > best_len) => cur_len + 1 <= best_len BY <1>3
    <3> QED BY <3>2, <3>3, <3>4, Zenon
  <2>3. AddressTypes'
    BY <1>1, <1>2, <1>3, <2>2 DEF AddressTypes
  <2>4. CurrentRun'
    <3>1. cur_len' <= i' /\ cur_len' <= best_len' /\ cur_len' # 0 /\ i' - cur_len' = i - cur_len
      BY <1>1, <1>3, <2>2
    <3>2. \A j \in 0 .. 7 : i - cur_len <= j /\ j < i + 1 => Zero(j)
      BY <1>2, <1>3, <2>1 DEF CurrentRun
    <3>3. i - cur_len > 0 => ~Zero(i - cur_len - 1) BY <1>2 DEF CurrentRun
    <3> QED BY <1>1, <1>4, <2>2, <3>1, <3>2, <3>3 DEF CurrentRun
  <2>5. RunBelow(i - cur_len, cur_len + 1, i + 1)
    <3>1. i - cur_len + (cur_len + 1) = i + 1 BY <1>3
    <3>2. \A j \in 0 .. 7 : i - cur_len <= j /\ j < i + 1 => Zero(j)
      BY <1>2, <1>3, <2>1 DEF CurrentRun
    <3> QED BY <1>3, <3>1, <3>2 DEF RunBelow
  <2>6. CASE cur_len + 1 > best_len
    <3>1. best_len = cur_len /\ best_len' = cur_len + 1 /\ best_start' = i - cur_len
      BY <1>3, <2>2, <2>6
    <3>2. \A a \in 0 .. 7 : ~RunBelow(a, best_len' + 1, i + 1)
      <4> SUFFICES ASSUME NEW a \in 0 .. 7, RunBelow(a, cur_len + 2, i + 1) PROVE FALSE
        BY <1>3, <3>1
      <4>1. cur_len + 2 \in 1 .. 9 BY <1>3
      <4>2. RunBelow(a, cur_len + 2, i)
        BY <1>1, <1>2, <1>3, <4>1, RunsBelowNext
      <4>3. RunBelow(a, cur_len + 1, i) BY <1>3, <4>2, ShorterRun
      <4> QED BY <1>2, <3>1, <4>3 DEF BestRun
    <3>3. \A a \in 0 .. 7 : a < best_start' => ~RunBelow(a, best_len', i + 1)
      <4> SUFFICES ASSUME NEW a \in 0 .. 7, a < i - cur_len, RunBelow(a, cur_len + 1, i + 1)
                   PROVE FALSE
        BY <3>1
      <4>1. cur_len + 1 \in 1 .. 9 BY <1>3
      <4>2. RunBelow(a, cur_len + 1, i)
        BY <1>1, <1>2, <1>3, <4>1, RunsBelowNext
      <4> QED BY <1>2, <3>1, <4>2 DEF BestRun
    <3>4. BestRun'
      BY <1>1, <1>3, <1>5, <2>5, <3>1, <3>2, <3>3 DEF BestRun
    <3> QED BY <1>1, <1>2, <2>3, <2>4, <3>4 DEF AddressInv
  <2>7. CASE cur_len + 1 <= best_len
    <3>1. /\ best_len' = best_len /\ best_start' = best_start /\ best_len # 0
          /\ best_start >= 0 /\ RunBelow(best_start, best_len, i)
      BY <1>2, <1>3, <2>2, <2>7 DEF BestRun
    <3>2. best_start + best_len <= i /\ best_len + 1 \in 1 .. 9 /\ best_len \in 1 .. 9
      BY <1>3, <3>1 DEF RunBelow
    <3>3. \A a \in 0 .. 7 : ~RunBelow(a, best_len + 1, i + 1)
      <4> SUFFICES ASSUME NEW a \in 0 .. 7, RunBelow(a, best_len + 1, i + 1) PROVE FALSE
        OBVIOUS
      <4>1. RunBelow(a, best_len + 1, i) \/ (a + (best_len + 1) = i + 1 /\ a >= i - cur_len)
        BY <1>1, <1>2, <3>2, RunsBelowNext, Zenon
      <4>2. RunBelow(a, best_len + 1, i) BY <1>3, <2>7, <4>1
      <4> QED BY <1>2, <4>2 DEF BestRun
    <3>4. \A a \in 0 .. 7 : a < best_start => ~RunBelow(a, best_len, i + 1)
      <4> SUFFICES ASSUME NEW a \in 0 .. 7, a < best_start, RunBelow(a, best_len, i + 1)
                   PROVE FALSE
        OBVIOUS
      <4>1. RunBelow(a, best_len, i) \/ (a + best_len = i + 1 /\ a >= i - cur_len)
        BY <1>1, <1>2, <3>2, RunsBelowNext, Zenon
      <4>2. RunBelow(a, best_len, i) BY <1>3, <2>7, <3>2, <4>1
      <4> QED BY <1>2, <4>2 DEF BestRun
    <3>5. RunBelow(best_start, best_len, i + 1) BY <1>3, <3>1 DEF RunBelow
    <3>6. BestRun'
      BY <1>1, <1>5, <3>1, <3>3, <3>4, <3>5 DEF BestRun
    <3> QED BY <1>1, <1>2, <2>3, <2>4, <3>6 DEF AddressInv
  <2> QED BY <1>3, <2>6, <2>7
<1>7. CASE groups[i] # 0
  <2>1. ~Zero(i) BY <1>7 DEF Zero
  <2>2. cur_start' = -1 /\ cur_len' = 0 /\ best_start' = best_start /\ best_len' = best_len
    BY <1>7 DEF A!Search
  <2>3. AddressTypes'
    BY <1>1, <1>2, <1>3, <2>2 DEF AddressTypes
  <2>4. CurrentRun'
    <3>1. i + 1 - 0 - 1 = i /\ i + 1 - 0 = i + 1 BY <1>3
    <3>2. \A j \in 0 .. 7 : ~(i + 1 <= j /\ j < i + 1) BY <1>3
    <3> QED BY <1>1, <1>3, <1>4, <2>1, <2>2, <3>1, <3>2 DEF CurrentRun
  <2>5. \A a \in 0 .. 7, n \in 1 .. 9 : RunBelow(a, n, i + 1) => RunBelow(a, n, i)
    BY <1>1, <1>2, <2>1, RunsBelowNext
  <2>6. BestRun'
    <3>1. best_len + 1 \in 1 .. 9 /\ (best_len # 0 => best_len \in 1 .. 9) BY <1>3
    <3>2. \A a \in 0 .. 7 : ~RunBelow(a, best_len + 1, i + 1)
      BY <1>2, <2>5, <3>1 DEF BestRun
    <3>3. \A a \in 0 .. 7 : a < best_start => ~RunBelow(a, best_len, i + 1)
      <4>1. CASE best_len = 0
        <5>1. best_start = -1 BY <1>2, <4>1 DEF BestRun
        <5>2. \A a \in 0 .. 7 : ~(a < best_start) BY <5>1
        <5> QED BY <5>2, Zenon
      <4>2. CASE best_len # 0
        <5>1. \A a \in 0 .. 7 : a < best_start => ~RunBelow(a, best_len, i)
          BY <1>2, Zenon DEF BestRun
        <5> QED BY <2>5, <3>1, <4>2, <5>1, Zenon
      <4> QED BY <4>1, <4>2, Zenon
    <3>4. best_len # 0 => RunBelow(best_start, best_len, i + 1)
      BY <1>2, <1>3 DEF BestRun, RunBelow
    <3> QED BY <1>1, <1>2, <1>5, <2>2, <3>2, <3>3, <3>4 DEF BestRun
  <2> QED BY <1>1, <1>2, <2>3, <2>4, <2>6 DEF AddressInv
<1> QED BY <1>6, <1>7

LEMMA EndSearchKeeps ==
  ASSUME AddressInv, A!EndSearch PROVE AddressInv'
<1>1. /\ pc = "search" /\ i = 8 /\ pc' = "text" /\ i' = 0 /\ groups' = groups
      /\ cur_start' = cur_start /\ cur_len' = cur_len /\ tmp' = tmp /\ pos' = pos
  BY DEF A!EndSearch, A!text
<1>2. AddressTypes /\ BestRun /\ tmp = <<>> /\ pos = 0
  BY <1>1 DEF AddressInv
<1>3. best_len \in 0 .. 8 /\ best_start \in -1 .. 7
  BY <1>2 DEF AddressTypes
<1>4. \A j : Zero(j)' <=> Zero(j) BY <1>1 DEF Zero
<1>5. \A a, n, e : RunBelow(a, n, e)' <=> RunBelow(a, n, e) BY <1>4 DEF RunBelow
<1>6. \A a \in 0 .. 7, n \in 0 .. 9 : A!Zeros(a, n)' => RunBelow(a, n, 8)
  BY <1>1 DEF A!Zeros, RunBelow, Zero
<1>7. InFront' /\ pos' <= 5 * i' /\ ~(i' > 0)
  <2>1. best_start' = -1 \/ i' <= best_start'
    BY <1>1, <1>2, <1>3 DEF A!EndSearch, BestRun
  <2>2. Len(tmp') = 0 /\ pos' <= 5 * i' /\ ~(i' > 0) BY <1>1, <1>2
  <2>3. \A n \in 0 .. 7 : ~(n < i') BY <1>1
  <2> QED BY <1>1, <2>1, <2>2, <2>3 DEF InFront, FrontWritten
<1>8. CASE best_len < 2
  <2>1. best_start' = -1 /\ best_len' = 0
    BY <1>3, <1>8 DEF A!EndSearch
  <2>2. \A a \in 0 .. 6 : ~A!Zeros(a, 2)'
    <3> SUFFICES ASSUME NEW a \in 0 .. 6, A!Zeros(a, 2)' PROVE FALSE
      OBVIOUS
    <3>1. RunBelow(a, 2, 8) BY <1>6
    <3>2. RunBelow(a, best_len + 1, 8) BY <1>3, <1>8, <3>1, ShorterRun
    <3> QED BY <1>1, <1>2, <3>2 DEF BestRun
  <2>3. A!LeftmostLongest' BY <2>1, <2>2 DEF A!LeftmostLongest
  <2>4. LeftOut' BY <2>1 DEF LeftOut
  <2>5. AddressTypes' BY <1>1, <1>2, <2>1 DEF AddressTypes
  <2> QED BY <1>1, <1>7, <2>3, <2>4, <2>5 DEF AddressInv
<1>9. CASE best_len >= 2
  <2>1. best_start' = best_start /\ best_len' = best_len /\ best_start >= 0
    BY <1>2, <1>3, <1>9 DEF A!EndSearch, BestRun
  <2>2. RunBelow(best_start, best_len, 8)
    BY <1>1, <1>2, <1>3, <1>9 DEF BestRun
  <2>3. A!Zeros(best_start, best_len)'
    <3>1. best_start + best_len <= 8 BY <2>2 DEF RunBelow
    <3>2. \A j \in best_start .. best_start + best_len - 1 :
             j \in 0 .. 7 /\ best_start <= j /\ j < best_start + best_len
      BY <1>3, <2>1, <3>1
    <3> QED BY <1>1, <2>1, <2>2, <3>1, <3>2 DEF A!Zeros, RunBelow, Zero
  <2>4. \A a \in 0 .. 7 : ~A!Zeros(a, best_len + 1)'
    <3>1. best_len + 1 \in 0 .. 9 /\ best_len' + 1 = best_len + 1 BY <1>3, <2>1
    <3> QED BY <1>1, <1>2, <2>1, <3>1, <1>6 DEF BestRun, A!Zeros
  <2>5. \A a \in 0 .. best_start - 1 : ~A!Zeros(a, best_len)'
    <3>1. best_len \in 0 .. 9 /\ \A a \in 0 .. best_start - 1 : a \in 0 .. 7 /\ a < best_start
      BY <1>3
    <3> QED BY <1>1, <1>2, <2>1, <1>6, <3>1 DEF BestRun, A!Zeros
  <2>6. A!LeftmostLongest'
    <3>1. \A a \in 0 .. 7 : ~A!Zeros(a, best_len + 1)' BY <2>4
    <3> QED BY <1>9, <2>1, <2>3, <2>5, <3>1 DEF A!LeftmostLongest, A!Zeros
  <2>7. LeftOut' BY <1>5, <1>9, <2>1, <2>2 DEF LeftOut
  <2>8. AddressTypes' BY <1>1, <1>2, <2>1 DEF AddressTypes
  <2> QED BY <1>1, <1>7, <2>6, <2>7, <2>8 DEF AddressInv
<1> QED BY <1>3, <1>8, <1>9

(* What Append does to a sequence.                                         *)
LEMMA Appended ==
  ASSUME NEW S, NEW t \in Seq(S), NEW x \in S
  PROVE  /\ Append(t, x) \in Seq(S) /\ Len(Append(t, x)) = Len(t) + 1
         /\ \A k \in 1 .. Len(t) : Append(t, x)[k] = t[k]
         /\ Append(t, x)[Len(t) + 1] = x
OBVIOUS

LEMMA AppendedTwo ==
  ASSUME NEW S, NEW t \in Seq(S), NEW x \in S, NEW y \in S
  PROVE  /\ Append(Append(t, x), y) \in Seq(S) /\ Len(Append(Append(t, x), y)) = Len(t) + 2
         /\ \A k \in 1 .. Len(t) : Append(Append(t, x), y)[k] = t[k]
         /\ Append(Append(t, x), y)[Len(t) + 1] = x
         /\ Append(Append(t, x), y)[Len(t) + 2] = y
<1>1. Len(t) \in Nat OBVIOUS
<1>2. /\ Append(t, x) \in Seq(S) /\ Len(Append(t, x)) = Len(t) + 1
      /\ \A k \in 1 .. Len(t) : Append(t, x)[k] = t[k]
      /\ Append(t, x)[Len(t) + 1] = x
  BY Appended
<1> DEFINE u == Append(t, x)
<1> HIDE DEF u
<1>3. /\ Append(u, y) \in Seq(S) /\ Len(Append(u, y)) = Len(u) + 1
      /\ \A k \in 1 .. Len(u) : Append(u, y)[k] = u[k]
      /\ Append(u, y)[Len(u) + 1] = y
  BY <1>2, Appended DEF u
<1>4. Len(u) = Len(t) + 1 /\ u[Len(t) + 1] = x /\ \A k \in 1 .. Len(t) : u[k] = t[k]
  BY <1>2 DEF u
<1>5. /\ Len(u) + 1 = Len(t) + 2 /\ Len(t) + 1 \in 1 .. Len(u)
      /\ \A k \in 1 .. Len(t) : k \in 1 .. Len(u)
  BY <1>1, <1>4
<1> QED BY <1>3, <1>4, <1>5 DEF u

(* Before and behind the run that is left out.                             *)
LEMMA TextRange ==
  ASSUME AddressInv, pc = "text"
  PROVE  /\ AddressTypes /\ LeftOut /\ A!LeftmostLongest /\ (InFront \/ Behind)
         /\ i \in 0 .. 8 /\ best_start \in -1 .. 7 /\ best_len \in 0 .. 8
         /\ \/ best_start = -1 /\ best_len = 0
            \/ best_start \in 0 .. 6 /\ best_len \in 2 .. 8 /\ best_start + best_len <= 8
BY DEF AddressInv, AddressTypes, LeftOut, RunBelow

(* What the text keeps of the search.                                      *)
LEMMA RunStays ==
  ASSUME LeftOut, A!LeftmostLongest, pc = "text", pc' = "text",
         groups' = groups, best_start' = best_start, best_len' = best_len
  PROVE  LeftOut' /\ A!LeftmostLongest'
<1>1. \A a, n, e : RunBelow(a, n, e)' <=> RunBelow(a, n, e) BY DEF RunBelow, Zero
<1>2. LeftOut' BY <1>1 DEF LeftOut
<1>3. A!LeftmostLongest' BY DEF A!LeftmostLongest, A!Zeros
<1> QED BY <1>2, <1>3

LEMMA WriteDoubleColonKeeps ==
  ASSUME AddressInv, A!WriteDoubleColon PROVE AddressInv'
<1>1. /\ pc = "text" /\ i < 8 /\ i = best_start /\ pc' = "text" /\ groups' = groups
      /\ best_start' = best_start /\ best_len' = best_len
      /\ cur_start' = cur_start /\ cur_len' = cur_len
      /\ tmp' = Append(Append(tmp, A!colon), A!colon) /\ pos' = pos + 2
      /\ i' = i + best_len
  BY DEF A!WriteDoubleColon, A!search, A!BehindRun
<1>2. /\ AddressTypes /\ LeftOut /\ A!LeftmostLongest /\ (InFront \/ Behind)
      /\ i \in 0 .. 6 /\ best_len \in 2 .. 8 /\ i + best_len <= 8 /\ best_start >= 0
  BY <1>1, TextRange
<1>3. pos \in Nat /\ pos <= 5 * i BY <1>1 DEF AddressInv, AddressTypes
<1>4. InFront BY <1>1, <1>2 DEF Behind, Resume
<1>5. Len(tmp) = At - 1 /\ At >= 1 /\ At \in Nat /\ 2 * i - 1 <= Len(tmp) /\ FrontWritten(best_start)
  BY <1>1, <1>2, <1>4 DEF InFront, At
<1>6. /\ tmp' \in Seq({A!colon} \cup Group) /\ Len(tmp') = Len(tmp) + 2
      /\ \A k \in 1 .. Len(tmp) : tmp'[k] = tmp[k]
      /\ tmp'[Len(tmp) + 1] = A!colon /\ tmp'[Len(tmp) + 2] = A!colon
  <2>1. tmp \in Seq({A!colon} \cup Group) /\ A!colon \in {A!colon} \cup Group
    BY <1>2 DEF AddressTypes
  <2> QED BY <1>1, <2>1, AppendedTwo
<1>7. AddressTypes'
  BY <1>1, <1>2, <1>3, <1>6 DEF AddressTypes
<1>8. LeftOut' /\ A!LeftmostLongest' BY <1>1, <1>2, RunStays
<1>9. At' = At /\ Resume' = Resume /\ Resume = i' BY <1>1 DEF At, Resume
<1>10. FrontWritten(best_start)'
  <2>1. \A k \in 1 .. 2 * best_start - 1 : tmp'[k] = tmp[k]
    BY <1>1, <1>2, <1>5, <1>6
  <2> QED BY <1>1, <1>5, <2>1, <1>2 DEF FrontWritten
<1>11. BackWritten'
  <2>1. tmp'[At] = A!colon /\ tmp'[At + 1] = A!colon
    <3>1. Len(tmp) + 1 = At /\ Len(tmp) + 2 = At + 1 BY <1>5
    <3> QED BY <1>6, <3>1
  <2>2. \A n \in 0 .. 7 : ~(Resume <= n /\ n < i') BY <1>1, <1>2, <1>9 DEF Resume
  <2>3. \A n \in 0 .. 7 : ~(Resume < n /\ n < i') BY <1>1, <1>2, <1>9 DEF Resume
  <2> QED BY <1>9, <2>1, <2>2, <2>3 DEF BackWritten, A!colon
<1>12. Behind'
  <2>1. Len(tmp') = At + 1 /\ i' >= Resume BY <1>1, <1>2, <1>5, <1>6, <1>9
  <2> QED BY <1>1, <1>2, <1>9, <1>10, <1>11, <2>1 DEF Behind
<1>13. pos' <= 5 * i' /\ pos' > 0 BY <1>1, <1>2, <1>3
<1> QED BY <1>1, <1>7, <1>8, <1>12, <1>13 DEF AddressInv

LEMMA DigitCount == ASSUME NEW g PROVE A!Digits(g) \in 1 .. 4
BY SMT DEF A!Digits

LEMMA WriteGroupKeeps ==
  ASSUME AddressInv, A!WriteGroup PROVE AddressInv'
<1>1. /\ pc = "text" /\ i < 8 /\ i # best_start /\ pc' = "text" /\ groups' = groups
      /\ best_start' = best_start /\ best_len' = best_len
      /\ cur_start' = cur_start /\ cur_len' = cur_len
      /\ tmp' = Append(IF A!NeedsColon THEN Append(tmp, A!colon) ELSE tmp, groups[i])
      /\ pos' = pos + (IF A!NeedsColon THEN 1 ELSE 0) + A!Digits(groups[i])
      /\ i' = i + 1
  BY DEF A!WriteGroup, A!search
<1>2. /\ AddressTypes /\ LeftOut /\ A!LeftmostLongest /\ (InFront \/ Behind)
      /\ i \in 0 .. 7
      /\ \/ best_start = -1 /\ best_len = 0
         \/ best_start \in 0 .. 6 /\ best_len \in 2 .. 8 /\ best_start + best_len <= 8
  BY <1>1, TextRange
<1>3. LeftOut' /\ A!LeftmostLongest' BY <1>1, <1>2, RunStays
<1>4. pos' \in Nat /\ pos' <= 5 * i' /\ pos' > 0
  <2>1. A!Digits(groups[i]) \in 1 .. 4 BY DigitCount
  <2>2. pos \in Nat /\ pos <= 5 * i BY <1>1 DEF AddressInv, AddressTypes
  <2> QED BY <1>1, <1>2, <2>1, <2>2
<1>5. /\ tmp \in Seq({A!colon} \cup Group)
      /\ A!colon \in {A!colon} \cup Group /\ groups[i] \in {A!colon} \cup Group
  BY <1>2 DEF AddressTypes
<1>6. A!NeedsColon => /\ tmp' \in Seq({A!colon} \cup Group) /\ Len(tmp') = Len(tmp) + 2
                      /\ \A k \in 1 .. Len(tmp) : tmp'[k] = tmp[k]
                      /\ tmp'[Len(tmp) + 1] = A!colon /\ tmp'[Len(tmp) + 2] = groups[i]
  <2> SUFFICES ASSUME A!NeedsColon
               PROVE  /\ tmp' \in Seq({A!colon} \cup Group) /\ Len(tmp') = Len(tmp) + 2
                      /\ \A k \in 1 .. Len(tmp) : tmp'[k] = tmp[k]
                      /\ tmp'[Len(tmp) + 1] = A!colon /\ tmp'[Len(tmp) + 2] = groups[i]
    OBVIOUS
  <2>1. tmp' = Append(Append(tmp, A!colon), groups[i]) BY <1>1
  <2> QED BY <1>5, <2>1, AppendedTwo
<1>7. ~A!NeedsColon => /\ tmp' \in Seq({A!colon} \cup Group) /\ Len(tmp') = Len(tmp) + 1
                       /\ \A k \in 1 .. Len(tmp) : tmp'[k] = tmp[k]
                       /\ tmp'[Len(tmp) + 1] = groups[i]
  <2> SUFFICES ASSUME ~A!NeedsColon
               PROVE  /\ tmp' \in Seq({A!colon} \cup Group) /\ Len(tmp') = Len(tmp) + 1
                      /\ \A k \in 1 .. Len(tmp) : tmp'[k] = tmp[k]
                      /\ tmp'[Len(tmp) + 1] = groups[i]
    OBVIOUS
  <2>1. tmp' = Append(tmp, groups[i]) BY <1>1
  <2> QED BY <1>5, <2>1, Appended
<1>8. AddressTypes'
  <2>1. tmp' \in Seq({A!colon} \cup Group) BY <1>6, <1>7
  <2>2. i' \in 0 .. 8 BY <1>1, <1>2
  <2> QED BY <1>1, <1>2, <1>4, <2>1, <2>2 DEF AddressTypes, A!colon
<1>9. \A k \in 1 .. Len(tmp) : tmp'[k] = tmp[k] BY <1>6, <1>7
<1>10. CASE InFront
  <2>1. A!NeedsColon <=> i # 0
    BY <1>1, <1>2, <1>10 DEF InFront, A!NeedsColon
  <2>2. Len(tmp) = IF i = 0 THEN 0 ELSE 2 * i - 1
    BY <1>10 DEF InFront
  <2>3. /\ Len(tmp') = 2 * i + 1 /\ tmp'[2 * i + 1] = groups[i]
        /\ i # 0 => tmp'[2 * i] = A!colon
    <3>1. CASE i = 0 BY <1>7, <2>1, <2>2, <3>1
    <3>2. CASE i # 0
      <4>1. Len(tmp) + 1 = 2 * i /\ Len(tmp) + 2 = 2 * i + 1 BY <1>2, <2>2, <3>2
      <4> QED BY <1>6, <2>1, <3>2, <4>1
    <3> QED BY <3>1, <3>2
  <2>4. \A n \in 0 .. 7 : n < i + 1 => tmp'[2 * n + 1] = groups[n]
    <3> SUFFICES ASSUME NEW n \in 0 .. 7, n < i + 1 PROVE tmp'[2 * n + 1] = groups[n]
      OBVIOUS
    <3>1. CASE n = i BY <2>3, <3>1
    <3>2. CASE n < i
      <4>1. 2 * n + 1 \in 1 .. Len(tmp) BY <1>2, <2>2, <3>2
      <4> QED BY <1>9, <1>10, <3>2, <4>1 DEF InFront, FrontWritten
    <3> QED BY <1>2, <3>1, <3>2
  <2>5. \A n \in 1 .. 7 : n < i + 1 => tmp'[2 * n] = A!colon
    <3> SUFFICES ASSUME NEW n \in 1 .. 7, n < i + 1 PROVE tmp'[2 * n] = A!colon
      OBVIOUS
    <3>1. CASE n = i BY <2>3, <3>1
    <3>2. CASE n < i
      <4>1. 2 * n \in 1 .. Len(tmp) BY <1>2, <2>2, <3>2
      <4> QED BY <1>9, <1>10, <3>2, <4>1 DEF InFront, FrontWritten
    <3> QED BY <1>2, <3>1, <3>2
  <2>6. (best_start' = -1 \/ i' <= best_start') /\ i' # 0 /\ 2 * i' - 1 = 2 * i + 1
    BY <1>1, <1>2, <1>10 DEF InFront
  <2>7. InFront'
    BY <1>1, <2>3, <2>4, <2>5, <2>6, Zenon DEF InFront, FrontWritten, A!colon
  <2> QED BY <1>1, <1>3, <1>4, <1>8, <2>7 DEF AddressInv
<1>11. CASE Behind
  <2>1. /\ best_start \in 0 .. 6 /\ best_len \in 2 .. 8 /\ i >= Resume
        /\ Resume = best_start + best_len /\ At \in 1 .. 12 /\ (best_start > 0 => At = 2 * best_start)
        /\ Len(tmp) = IF i = Resume THEN At + 1 ELSE At + 2 * (i - Resume)
    BY <1>2, <1>11 DEF Behind, Resume, At
  <2>2. A!NeedsColon <=> i # Resume
    BY <1>2, <2>1 DEF A!NeedsColon
  <2>3. /\ Len(tmp') = At + 2 + 2 * (i - Resume)
        /\ tmp'[At + 2 + 2 * (i - Resume)] = groups[i]
        /\ i # Resume => tmp'[At + 1 + 2 * (i - Resume)] = A!colon
    <3>1. CASE i = Resume
      <4>1. Len(tmp) + 1 = At + 2 + 2 * (i - Resume) BY <1>2, <2>1, <3>1
      <4> QED BY <1>7, <2>2, <3>1, <4>1
    <3>2. CASE i # Resume
      <4>1. /\ Len(tmp) + 1 = At + 1 + 2 * (i - Resume)
            /\ Len(tmp) + 2 = At + 2 + 2 * (i - Resume)
        BY <1>2, <2>1, <3>2
      <4> QED BY <1>6, <2>2, <3>2, <4>1
    <3> QED BY <3>1, <3>2
  <2>4. At' = At /\ Resume' = Resume BY <1>1 DEF At, Resume
  <2>5. At + 1 <= Len(tmp) /\ Len(tmp) \in Nat BY <1>2, <2>1
  <2>6. FrontWritten(best_start)'
    <3>1. \A n \in 0 .. 7 : n < best_start => 2 * n + 1 \in 1 .. Len(tmp) BY <2>1, <2>5
    <3>2. \A n \in 1 .. 7 : n < best_start => 2 * n \in 1 .. Len(tmp) BY <2>1, <2>5
    <3> QED BY <1>1, <1>9, <1>11, <3>1, <3>2, Zenon DEF Behind, FrontWritten, A!colon
  <2>7. tmp'[At] = A!colon /\ tmp'[At + 1] = A!colon
    <3>1. At \in 1 .. Len(tmp) /\ At + 1 \in 1 .. Len(tmp) BY <2>1, <2>5
    <3> QED BY <1>9, <1>11, <3>1 DEF Behind, BackWritten
  <2>8. \A n \in 0 .. 7 : Resume <= n /\ n < i + 1 =>
          tmp'[At + 2 + 2 * (n - Resume)] = groups[n]
    <3> SUFFICES ASSUME NEW n \in 0 .. 7, Resume <= n, n < i + 1
                 PROVE  tmp'[At + 2 + 2 * (n - Resume)] = groups[n]
      OBVIOUS
    <3>1. CASE n = i BY <2>3, <3>1
    <3>2. CASE n < i
      <4>1. At + 2 + 2 * (n - Resume) \in 1 .. Len(tmp) BY <1>2, <2>1, <3>2
      <4> QED BY <1>9, <1>11, <3>2, <4>1 DEF Behind, BackWritten
    <3> QED BY <1>2, <3>1, <3>2
  <2>9. \A n \in 0 .. 7 : Resume < n /\ n < i + 1 =>
          tmp'[At + 1 + 2 * (n - Resume)] = A!colon
    <3> SUFFICES ASSUME NEW n \in 0 .. 7, Resume < n, n < i + 1
                 PROVE  tmp'[At + 1 + 2 * (n - Resume)] = A!colon
      OBVIOUS
    <3>1. CASE n = i
      <4>1. i # Resume BY <1>2, <2>1, <3>1
      <4> QED BY <2>3, <3>1, <4>1
    <3>2. CASE n < i
      <4>1. At + 1 + 2 * (n - Resume) \in 1 .. Len(tmp) BY <1>2, <2>1, <3>2
      <4> QED BY <1>9, <1>11, <3>2, <4>1, Zenon DEF Behind, BackWritten
    <3> QED BY <1>2, <3>1, <3>2
  <2>10. BackWritten'
    BY <1>1, <2>4, <2>7, <2>8, <2>9, Zenon DEF BackWritten, A!colon
  <2>11. /\ best_start' >= 0 /\ i' >= Resume' /\ i' # Resume'
         /\ Len(tmp') = At' + 2 * (i' - Resume')
    BY <1>1, <1>2, <2>1, <2>3, <2>4
  <2>12. Behind' BY <2>6, <2>10, <2>11 DEF Behind
  <2> QED BY <1>1, <1>3, <1>4, <1>8, <2>12 DEF AddressInv
<1> QED BY <1>2, <1>10, <1>11

(* A place of a text is odd or even.                                       *)
LEMMA Parity ==
  ASSUME NEW k \in Nat
  PROVE  \E m \in Nat : k = 2 * m \/ k = 2 * m + 1
<1>1. k \div 2 \in Nat /\ (k = 2 * (k \div 2) \/ k = 2 * (k \div 2) + 1) OBVIOUS
<1> QED BY <1>1

(* A whole text without "::" reads as its groups.                          *)
LEMMA PlainTextReads ==
  ASSUME AddressTypes, best_start = -1, i = 8, InFront
  PROVE  A!Denotes(tmp, groups)
<1>1. Len(tmp) = 15 BY DEF InFront
<1>2. \A n \in 0 .. 7 : tmp[2 * n + 1] = groups[n] /\ groups[n] # A!colon
  BY DisplayAssumption DEF InFront, FrontWritten, AddressTypes, A!colon
<1>3. \A n \in 1 .. 7 : tmp[2 * n] = A!colon
  BY DEF InFront, FrontWritten
<1>4. \A k \in 1 .. 14 : (tmp[k] = A!colon /\ tmp[k + 1] # A!colon)
                         \/ (tmp[k] # A!colon /\ tmp[k + 1] = A!colon)
  <2> SUFFICES ASSUME NEW k \in 1 .. 14
               PROVE  (tmp[k] = A!colon /\ tmp[k + 1] # A!colon)
                      \/ (tmp[k] # A!colon /\ tmp[k + 1] = A!colon)
    OBVIOUS
  <2>1. PICK m \in Nat : k = 2 * m \/ k = 2 * m + 1 BY Parity
  <2>2. CASE k = 2 * m
    <3>1. m \in 1 .. 7 /\ m \in 0 .. 7 /\ k + 1 = 2 * m + 1 BY <2>2
    <3> QED BY <1>2, <1>3, <2>2, <3>1
  <2>3. CASE k = 2 * m + 1
    <3>1. m \in 0 .. 7 /\ m + 1 \in 1 .. 7 /\ k + 1 = 2 * (m + 1) BY <2>3
    <3> QED BY <1>2, <1>3, <2>3, <3>1
  <2> QED BY <2>1, <2>2, <2>3
<1>5. Len(tmp) - 1 = 14 BY <1>1
<1>6. A!Runs(tmp) = {} BY <1>4, <1>5, Zenon DEF A!Runs
<1>7. \A n \in 0 .. 7 : groups[n] = tmp[A!Front(n)] BY <1>2 DEF A!Front
<1> QED BY <1>1, <1>4, <1>5, <1>6, <1>7 DEF A!Denotes

(* A whole text with "::" reads as its groups, with zeros for what "::"    *)
(* stands for.                                                             *)
LEMMA ShortTextReads ==
  ASSUME AddressTypes, LeftOut, best_start >= 0, i = 8, Behind
  PROVE  A!Denotes(tmp, groups)
<1>1. /\ best_start \in 0 .. 6 /\ best_len \in 2 .. 8 /\ Resume \in 2 .. 8
      /\ Resume = best_start + best_len /\ At \in 1 .. 12
      /\ (best_start = 0 => At = 1) /\ (best_start > 0 => At = 2 * best_start)
      /\ Len(tmp) = IF Resume = 8 THEN At + 1 ELSE At + 2 * (8 - Resume)
  BY DEF AddressTypes, LeftOut, RunBelow, Behind, Resume, At
<1>2. \A n \in 0 .. 7 : groups[n] # A!colon
  BY DisplayAssumption DEF AddressTypes, A!colon
<1>3. \A n \in 0 .. 7 : n < best_start => tmp[2 * n + 1] = groups[n]
  BY DEF Behind, FrontWritten
<1>4. \A n \in 1 .. 7 : n < best_start => tmp[2 * n] = A!colon
  BY DEF Behind, FrontWritten
<1>5. tmp[At] = A!colon /\ tmp[At + 1] = A!colon
  BY DEF Behind, BackWritten
<1>6. \A n \in 0 .. 7 : Resume <= n => tmp[At + 2 + 2 * (n - Resume)] = groups[n]
  BY DEF Behind, BackWritten
<1>7. \A n \in 0 .. 7 : Resume < n => tmp[At + 1 + 2 * (n - Resume)] = A!colon
  BY DEF Behind, BackWritten
<1>8. \A k \in 1 .. Len(tmp) - 1 : k # At =>
         (tmp[k] = A!colon /\ tmp[k + 1] # A!colon) \/ (tmp[k] # A!colon /\ tmp[k + 1] = A!colon)
  <2> SUFFICES ASSUME NEW k \in 1 .. Len(tmp) - 1, k # At
               PROVE  (tmp[k] = A!colon /\ tmp[k + 1] # A!colon)
                      \/ (tmp[k] # A!colon /\ tmp[k + 1] = A!colon)
    OBVIOUS
  <2>1. CASE k < At
    <3>0. k \in Nat BY <1>1
    <3>1. PICK m \in Nat : k = 2 * m \/ k = 2 * m + 1 BY <3>0, Parity, Zenon
    <3>2. CASE k = 2 * m
      <4>1. m \in 1 .. 7 /\ m \in 0 .. 7 /\ m < best_start /\ k + 1 = 2 * m + 1
        BY <1>1, <2>1, <3>2
      <4> QED BY <1>2, <1>3, <1>4, <3>2, <4>1
    <3>3. CASE k = 2 * m + 1
      <4>1. /\ m \in 0 .. 7 /\ m < best_start /\ k + 1 = 2 * (m + 1)
            /\ (m + 1 \in 1 .. 7 /\ m + 1 < best_start) \/ k + 1 = At
        BY <1>1, <2>1, <3>3
      <4> QED BY <1>2, <1>3, <1>4, <1>5, <3>3, <4>1
    <3> QED BY <3>1, <3>2, <3>3
  <2>2. CASE k > At
    <3>1. Resume # 8 /\ k <= At + 2 * (8 - Resume) - 1 BY <1>1, <2>2
    <3>2. k - At \in Nat BY <1>1, <2>2
    <3>3. PICK m \in Nat : k - At = 2 * m \/ k - At = 2 * m + 1 BY <3>2, Parity, Zenon
    <3>4. CASE k - At = 2 * m
      <4> DEFINE n == m - 1 + Resume
                 e == m + Resume
      <4>1. /\ n \in 0 .. 7 /\ Resume <= n /\ k = At + 2 + 2 * (n - Resume)
            /\ e \in 0 .. 7 /\ Resume < e /\ k + 1 = At + 1 + 2 * (e - Resume)
        BY <1>1, <2>2, <3>1, <3>4
      <4> HIDE DEF n, e
      <4>2. tmp[k] = groups[n] BY <1>6, <4>1
      <4>3. tmp[k + 1] = A!colon BY <1>7, <4>1
      <4> QED BY <1>2, <4>1, <4>2, <4>3
    <3>5. CASE k - At = 2 * m + 1
      <4> DEFINE n == m + Resume
      <4>1. /\ n \in 0 .. 7 /\ Resume <= n /\ k + 1 = At + 2 + 2 * (n - Resume)
            /\ k = At + 1 + 2 * (n - Resume) /\ (k = At + 1 \/ Resume < n)
        BY <1>1, <2>2, <3>1, <3>5
      <4> HIDE DEF n
      <4>2. tmp[k + 1] = groups[n] BY <1>6, <4>1
      <4>3. tmp[k] = A!colon BY <1>5, <1>7, <4>1
      <4> QED BY <1>2, <4>1, <4>2, <4>3
    <3> QED BY <3>3, <3>4, <3>5
  <2> QED BY <1>1, <2>1, <2>2
<1>9. A!Runs(tmp) = {At}
  <2>1. At \in 1 .. Len(tmp) - 1 BY <1>1
  <2> QED BY <1>5, <1>8, <2>1 DEF A!Runs
<1>10. \A n \in 0 .. 7 : groups[n] = A!GroupRead(tmp, At, n)
  <2> SUFFICES ASSUME NEW n \in 0 .. 7 PROVE groups[n] = A!GroupRead(tmp, At, n)
    OBVIOUS
  <2>1. CASE n < best_start
    <3>1. 2 * n + 1 < At BY <1>1, <2>1
    <3> QED BY <1>3, <2>1, <3>1 DEF A!GroupRead, A!Front
  <2>2. CASE best_start <= n /\ n < Resume
    <3>1. ~(2 * n + 1 < At) /\ ~(Len(tmp) - 2 * (7 - n) > At + 1) BY <1>1, <2>2
    <3>2. groups[n] = 0 BY <1>1, <2>2 DEF LeftOut, RunBelow, Zero
    <3> QED BY <3>1, <3>2 DEF A!GroupRead, A!Front, A!Back
  <2>3. CASE Resume <= n
    <3>1. /\ ~(2 * n + 1 < At) /\ Len(tmp) - 2 * (7 - n) > At + 1
          /\ Len(tmp) - 2 * (7 - n) = At + 2 + 2 * (n - Resume)
      BY <1>1, <2>3
    <3> QED BY <1>6, <2>3, <3>1 DEF A!GroupRead, A!Front, A!Back
  <2> QED BY <1>1, <2>1, <2>2, <2>3
<1>11. \A k \in 1 .. Len(tmp) - 1 : tmp[k] = A!colon \/ tmp[k + 1] = A!colon
  BY <1>5, <1>8
<1> QED BY <1>9, <1>10, <1>11 DEF A!Denotes

LEMMA EndTextKeeps ==
  ASSUME AddressInv, A!EndText PROVE AddressInv'
<1>1. /\ pc = "text" /\ i >= 8 /\ pc' = "done" /\ groups' = groups /\ i' = i
      /\ best_start' = best_start /\ best_len' = best_len
      /\ cur_start' = cur_start /\ cur_len' = cur_len
      /\ tmp' = IF pos = 0 THEN <<A!colon, A!colon>> ELSE tmp
      /\ pos' = IF pos = 0 THEN 2 ELSE pos
  BY DEF A!EndText, A!search
<1>2. /\ AddressTypes /\ LeftOut /\ (InFront \/ Behind) /\ i = 8
      /\ \/ best_start = -1
         \/ best_start \in 0 .. 6
  BY <1>1, TextRange
<1>3. pos <= 40 /\ pos > 0 /\ pos \in Nat
  BY <1>1, <1>2 DEF AddressInv, AddressTypes
<1>4. tmp' = tmp /\ pos' = pos BY <1>1, <1>3
<1>5. A!Denotes(tmp, groups)
  <2>1. CASE best_start = -1
    <3>1. InFront BY <1>2, <2>1 DEF Behind
    <3> QED BY <1>2, <2>1, <3>1, PlainTextReads
  <2>2. CASE best_start \in 0 .. 6
    <3>1. Behind BY <1>2, <2>2 DEF InFront
    <3> QED BY <1>2, <2>2, <3>1, ShortTextReads
  <2> QED BY <1>2, <2>1, <2>2
<1>6. A!ReadsBack'
  <2>1. A!Denotes(tmp', groups') BY <1>1, <1>4, <1>5
  <2> QED BY <2>1 DEF A!ReadsBack
<1>7. AddressTypes' BY <1>1, <1>2, <1>4 DEF AddressTypes
<1> QED BY <1>1, <1>3, <1>4, <1>6, <1>7 DEF AddressInv

(* Every step of ns_format_ipv6() keeps its invariant.                     *)
LEMMA AddressStep ==
  ASSUME AddressInv, A!Next PROVE AddressInv'
BY SearchKeeps, EndSearchKeeps, WriteDoubleColonKeeps, WriteGroupKeeps, EndTextKeeps DEF A!Next

LEMMA AddressReads ==
  AddressInv => A!TypeOK /\ A!TextFits /\ A!LeftmostLongest /\ A!ReadsBack
<1> SUFFICES ASSUME AddressInv
             PROVE  A!TypeOK /\ A!TextFits /\ A!LeftmostLongest /\ A!ReadsBack
  OBVIOUS
<1>1. A!TypeOK BY DEF AddressInv, AddressTypes, A!TypeOK
<1>2. A!TextFits
  <2>1. pc \in {"search", "text", "done"} /\ i \in 0 .. 8 /\ pos \in Nat
    BY DEF AddressInv, AddressTypes
  <2>2. pos <= 40 BY <2>1 DEF AddressInv
  <2> QED BY <2>1, <2>2 DEF A!TextFits
<1>3. A!LeftmostLongest
  <2>1. CASE pc = "text" BY <2>1 DEF AddressInv
  <2>2. CASE pc # "text" BY <2>2 DEF A!LeftmostLongest
  <2> QED BY <2>1, <2>2
<1>4. A!ReadsBack
  <2>1. CASE pc = "done" BY <2>1 DEF AddressInv
  <2>2. CASE pc # "done" BY <2>2 DEF A!ReadsBack
  <2> QED BY <2>1, <2>2
<1> QED BY <1>1, <1>2, <1>3, <1>4

\* The invariant of a call of ns_format_ipv6().
AddressCall == function = "ns_format_ipv6" => AddressInv

LEMMA AddressCallInit == DisplayInit => AddressCall
BY AddressInit DEF DisplayInit, AddressCall

LEMMA AddressCallStep ==
  ASSUME AddressCall, [DisplayNext]_displayVars PROVE AddressCall'
<1> SUFFICES ASSUME function' = "ns_format_ipv6" PROVE AddressInv'
  BY DEF AddressCall
<1>1. CASE FormatIpv6
  BY <1>1, AddressStep DEF FormatIpv6, AddressCall
<1>2. CASE UNCHANGED displayVars
  <2>1. /\ AddressInv
        /\ UNCHANGED <<groups, best_start, best_len, cur_start, cur_len, tmp, pc, i, pos>>
    BY <1>2 DEF AddressCall, displayVars, place, ofAddress
  <2>2. AddressTypes' /\ (CurrentRun' <=> CurrentRun) /\ (BestRun' <=> BestRun)
        /\ (LeftOut' <=> LeftOut) /\ (InFront' <=> InFront) /\ (Behind' <=> Behind)
        /\ (A!LeftmostLongest' <=> A!LeftmostLongest) /\ (A!ReadsBack' <=> A!ReadsBack)
    <3>1. AddressTypes' BY <2>1 DEF AddressInv, AddressTypes
    <3>2. CurrentRun' <=> CurrentRun BY <2>1 DEF CurrentRun, Zero
    <3>3. (BestRun' <=> BestRun) /\ (LeftOut' <=> LeftOut)
      <4>1. \A a, n, e : RunBelow(a, n, e)' <=> RunBelow(a, n, e) BY <2>1 DEF RunBelow, Zero
      <4> QED BY <2>1, <4>1 DEF BestRun, LeftOut
    <3>4. InFront' <=> InFront BY <2>1 DEF InFront, FrontWritten
    <3>5. Behind' <=> Behind BY <2>1 DEF Behind, FrontWritten, BackWritten, At, Resume
    <3>6. A!LeftmostLongest' <=> A!LeftmostLongest BY <2>1 DEF A!LeftmostLongest, A!Zeros
    <3>7. A!ReadsBack' <=> A!ReadsBack BY <2>1 DEF A!ReadsBack
    <3> QED BY <3>1, <3>2, <3>3, <3>4, <3>5, <3>6, <3>7
  <2> QED BY <2>1, <2>2 DEF AddressInv
<1> QED BY <1>1, <1>2 DEF DisplayNext, OutputPacket, WriteEscaped, DumpHex

(* Whatever the address: its text fits tmp[46], leaves out the first of    *)
(* the longest runs of two zero groups or more, and reads back as the      *)
(* address (util.c:72-123).                                                *)
THEOREM AddressTextIsFaithful == DisplaySpec => []AddressReadsBack
<1>1. AddressCall /\ [DisplayNext]_displayVars => AddressCall' BY AddressCallStep
<1>2. AddressCall => AddressReadsBack BY AddressReads DEF AddressCall, AddressReadsBack
<1> QED BY AddressCallInit, <1>1, <1>2, PTL DEF DisplaySpec

(* No text is read as two addresses.                                       *)
LEMMA OneAddress ==
  ASSUME NEW g \in [0 .. 7 -> Group], NEW h \in [0 .. 7 -> Group], NEW t,
         A!Denotes(t, g), A!Denotes(t, h)
  PROVE  g = h
<1>1. \A n \in 0 .. 7 : g[n] = h[n]
  <2>1. CASE A!Runs(t) = {} BY <2>1 DEF A!Denotes
  <2>2. CASE A!Runs(t) # {} BY <2>2 DEF A!Denotes
  <2> QED BY <2>1, <2>2
<1> QED BY <1>1

\* The address a text is read as: it depends on nothing but the text.
AddressOf(t) == CHOOSE g \in [0 .. 7 -> Group] : A!Denotes(t, g)

(* The text that ns_format_ipv6() returns determines the address it was    *)
(* called with: AddressOf is an inverse of the function, so no two         *)
(* addresses have the same text, and a comparison of texts, as in          *)
(* stats.c:33-34, is a comparison of addresses.                            *)
THEOREM TextsTellApart ==
  DisplaySpec => [](function = "ns_format_ipv6" /\ pc = "done" => groups = AddressOf(tmp))
<1>1. AddressReadsBack => (function = "ns_format_ipv6" /\ pc = "done" => groups = AddressOf(tmp))
  <2> SUFFICES ASSUME AddressReadsBack, function = "ns_format_ipv6", pc = "done"
               PROVE  groups = AddressOf(tmp)
    OBVIOUS
  <2>1. groups \in [0 .. 7 -> Group] /\ A!Denotes(tmp, groups)
    BY DEF AddressReadsBack, A!TypeOK, A!ReadsBack
  <2>2. AddressOf(tmp) \in [0 .. 7 -> Group] /\ A!Denotes(tmp, AddressOf(tmp))
    BY <2>1, Zenon DEF AddressOf
  <2> QED BY <2>1, <2>2, OneAddress
<1> QED BY <1>1, AddressTextIsFaithful, PTL
=============================================================================
