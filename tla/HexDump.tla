------------------------------ MODULE HexDump -------------------------------
(***************************************************************************)
(* ns_hex_dump() and append_line() of src/src/util.c: each line is put     *)
(* together in a buffer of 128 bytes and handed to a callback that may     *)
(* fail.  Of the line only its length and the bytes it shows are kept.     *)
(***************************************************************************)
EXTENDS Integers, FiniteSets

CONSTANTS
  Length,         \* lengths of the data
  OffsetDigits(_) \* width of "%04zx" for each offset: 4 to 16 digits

VARIABLES
  length,
  pc,        \* "line", "cells", "ascii", "write", "done" or "failed"
  offset,    \* first byte of the line
  i,         \* index of the loop at hand
  pos,       \* end of the text in line[128]
  full,      \* history: pos, had nothing been cut
  hex,       \* the bytes shown in hexadecimal so far
  ascii,     \* the bytes shown as characters so far
  newline    \* the line ends with "\n"

shown == <<hex, ascii, newline>>
vars == <<length, pc, offset, i, pos, full, shown>>

Init ==
  /\ length \in Length
  /\ pc = "line" /\ offset = 0 /\ i = 0 /\ pos = 0 /\ full = 0
  /\ hex = {} /\ ascii = {} /\ newline = TRUE

LINE_LEN == 128

chunk == IF length - offset < 16 THEN length - offset ELSE 16

\* append_line(): where the text ends after n more bytes
Clamped(p, n) == IF p >= LINE_LEN THEN p
                 ELSE IF n < LINE_LEN - p THEN p + n ELSE LINE_LEN - 1

-----------------------------------------------------------------------------
StartLine ==
  /\ pc = "line" /\ offset < length
  /\ pc' = "cells" /\ i' = 0
  /\ pos' = Clamped(0, OffsetDigits(offset) + 2)
  /\ full' = OffsetDigits(offset) + 2
  /\ newline' = FALSE
  /\ UNCHANGED <<length, offset, hex, ascii>>

\* "XX " or three spaces, and one space more in the middle of the line
Cell ==
  /\ pc = "cells" /\ i < 16
  /\ pos' = IF i = 7 THEN Clamped(Clamped(pos, 3), 1) ELSE Clamped(pos, 3)
  /\ full' = full + (IF i = 7 THEN 4 ELSE 3)
  /\ hex' = IF i < chunk THEN hex \cup {offset + i} ELSE hex
  /\ i' = i + 1
  /\ UNCHANGED <<length, pc, offset, ascii, newline>>

Gutter ==
  /\ pc = "cells" /\ i = 16
  /\ pc' = "ascii" /\ i' = 0
  /\ pos' = Clamped(pos, 1) /\ full' = full + 1
  /\ UNCHANGED <<length, offset, shown>>

Character ==
  /\ pc = "ascii" /\ i < chunk /\ pos + 1 < LINE_LEN
  /\ pos' = pos + 1 /\ full' = full + 1
  /\ ascii' = ascii \cup {offset + i}
  /\ i' = i + 1
  /\ UNCHANGED <<length, pc, offset, hex, newline>>

EndLine ==
  /\ pc = "ascii" /\ ~(i < chunk /\ pos + 1 < LINE_LEN)
  /\ \/ pos + 1 < LINE_LEN /\ pos' = pos + 1 /\ newline' = TRUE
     \/ pos + 1 >= LINE_LEN /\ UNCHANGED <<pos, newline>>
  /\ full' = full + 1
  /\ pc' = "write"
  /\ UNCHANGED <<length, offset, i, hex, ascii>>

\* Mutant: the last line is given up when it is not full.
AdvanceFull == IF offset + 32 > length THEN length ELSE offset + 16

Advance == offset + 16

\* The callback writes the line, or fails.
Write ==
  /\ pc = "write"
  /\ \/ pc' = "line" /\ offset' = Advance
     \/ pc' = "failed" /\ UNCHANGED offset
  /\ UNCHANGED <<length, i, pos, full, shown>>

Return ==
  /\ pc = "line" /\ offset >= length
  /\ pc' = "done"
  /\ UNCHANGED <<length, offset, i, pos, full, shown>>

Next == StartLine \/ Cell \/ Gutter \/ Character \/ EndLine \/ Write \/ Return

Spec == Init /\ [][Next]_vars

-----------------------------------------------------------------------------
(* Type invariant.                                                         *)
TypeOK ==
  /\ length \in Length
  /\ pc \in {"line", "cells", "ascii", "write", "done", "failed"}
  /\ offset \in Nat /\ i \in 0 .. 16 /\ pos \in Nat /\ full \in Nat
  /\ hex \subseteq 0 .. length - 1 /\ ascii \subseteq 0 .. length - 1
  /\ newline \in BOOLEAN

(* The NUL behind the text is inside line[128], and nothing is ever cut:   *)
(* util.c:192-194 is right about the longest line.                         *)
LineFits == pos < LINE_LEN /\ pos = full

(* Each byte is shown, in hexadecimal and as a character, when its line is *)
(* written, and every line ends with a newline: also the last one.         *)
EveryByteShown ==
  /\ pc = "write" => newline
  /\ pc \in {"line", "failed"} => hex = ascii
  /\ pc = "done" => hex = 0 .. length - 1 /\ ascii = 0 .. length - 1
=============================================================================
