----------------------------- MODULE JsonString -----------------------------
(***************************************************************************)
(* json_write_escaped() of src/src/output.c, byte by byte.  The strings    *)
(* that matter are the names of DNS messages: their labels are any bytes   *)
(* (dns.c copies them as they are), so that a name may hold a NUL byte and *)
(* is then shown up to it.  Characters are their codes.                    *)
(***************************************************************************)
EXTENDS Integers, Sequences

CONSTANTS
  Byte,        \* values of the bytes
  MaxLength    \* bound: length of a string

VARIABLES
  s,      \* the bytes, without the terminating NUL
  p,      \* index of the next one
  out,    \* what was written
  starts  \* history: where in it the text of each byte starts

vars == <<s, p, out, starts>>

quote == 34
backslash == 92
u == 117

Init ==
  /\ s \in UNION {[1 .. n -> Byte] : n \in 0 .. MaxLength}
  /\ p = 1
  /\ out = <<quote>> /\ starts = <<2>>

HexDigit(n) == IF n < 10 THEN 48 + n ELSE 87 + n

\* The escapes with a letter: \n, \r and \t
Letter(b) == IF b = 10 THEN 110 ELSE IF b = 13 THEN 114 ELSE 116

Printable(b) == b >= 32 /\ b < 127

\* Mutant: a backslash is written as it is.
EscapedNoBackslash(b) ==
  IF b = quote THEN <<backslash, b>>
  ELSE IF b \in {9, 10, 13} THEN <<backslash, Letter(b)>>
  ELSE IF Printable(b) THEN <<b>>
  ELSE <<backslash, u, 48, 48, HexDigit(b \div 16), HexDigit(b % 16)>>

Escaped(b) ==
  IF b \in {quote, backslash} THEN <<backslash, b>>
  ELSE IF b \in {9, 10, 13} THEN <<backslash, Letter(b)>>
  ELSE IF Printable(b) THEN <<b>>
  ELSE <<backslash, u, 48, 48, HexDigit(b \div 16), HexDigit(b % 16)>>

\* "\0" ends the string.
AtEnd == IF p > Len(s) THEN TRUE ELSE s[p] = 0

WriteByte ==
  /\ p > 0 /\ ~AtEnd
  /\ out' = out \o Escaped(s[p])
  /\ starts' = Append(starts, Len(out') + 1)
  /\ p' = p + 1
  /\ UNCHANGED s

Close ==
  /\ p > 0 /\ AtEnd
  /\ out' = Append(out, quote)
  /\ p' = 0
  /\ UNCHANGED <<s, starts>>

Next == WriteByte \/ Close

Spec == Init /\ [][Next]_vars

-----------------------------------------------------------------------------
(* Type invariant.  output.c:280: the output is "7-bit-clean", printable   *)
(* characters only, whatever the bytes of the name.                        *)
TypeOK == p \in 0 .. MaxLength + 1 /\ out \in Seq(32 .. 126)

\* How a JSON parser reads a string (RFC 8259, 7): what stands in out from a
\* up to e is the character b.
Nibble(c) == IF c < 58 THEN c - 48 ELSE c - 87
Plain(a, b, e) == out[a] \notin {quote, backslash} /\ b = out[a] /\ e = a + 1
ShortEscape(a, b, e) ==
  /\ out[a] = backslash /\ e = a + 2
  /\ \/ out[a + 1] \in {quote, backslash} /\ b = out[a + 1]
     \/ out[a + 1] = 110 /\ b = 10
     \/ out[a + 1] = 114 /\ b = 13
     \/ out[a + 1] = 116 /\ b = 9
LongEscape(a, b, e) ==
  /\ out[a] = backslash /\ out[a + 1] = u /\ out[a + 2] = 48 /\ out[a + 3] = 48 /\ e = a + 6
  /\ out[a + 4] \in (48 .. 57) \cup (97 .. 102) /\ out[a + 5] \in (48 .. 57) \cup (97 .. 102)
  /\ b = 16 * Nibble(out[a + 4]) + Nibble(out[a + 5])
Character(a, b, e) == Plain(a, b, e) \/ ShortEscape(a, b, e) \/ LongEscape(a, b, e)

(* output.c:280-281, "always-valid": from the quote at the beginning to    *)
(* the one at the end a JSON parser reads the bytes of the name up to a    *)
(* NUL byte, one character each.                                           *)
ParsesBack ==
  p = 0 =>
    LET n == Len(starts) - 1 IN
      /\ out[1] = quote /\ starts[1] = 2
      /\ \A k \in 1 .. n : s[k] # 0 /\ Character(starts[k], s[k], starts[k + 1])
      /\ starts[n + 1] = Len(out) /\ out[Len(out)] = quote
      /\ n = Len(s) \/ (n < Len(s) /\ s[n + 1] = 0)
=============================================================================
