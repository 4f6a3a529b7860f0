---------------------------- MODULE OutputProofs ----------------------------
(***************************************************************************)
(* json_write_escaped() and ns_output_packet() of src/src/output.c, for    *)
(* every string and every packet: what they write can be read back, and    *)
(* what they read of a packet was decoded.                                 *)
(***************************************************************************)
EXTENDS Display, Sequences, WellFoundedInduction, TLAPS

\* JSON strings

\* The texts of the first bytes follow each other, each in its place.
Readable ==
  /\ starts[1] = 2
  /\ \A k \in 1 .. Len(starts) - 1 :
       /\ s[k] # 0 /\ J!Character(starts[k], s[k], starts[k + 1])
       /\ starts[k] >= 1 /\ starts[k + 1] <= Len(out) + 1

StringInv ==
  /\ s \in Seq(Byte) /\ Len(s) <= MaxLength
  /\ out \in Seq(32 .. 126) /\ Len(out) >= 1 /\ out[1] = J!quote
  /\ starts \in Seq(Nat) /\ Len(starts) \in 1 .. Len(s) + 1
  /\ p \in 0 .. MaxLength + 1
  /\ Readable
  /\ p > 0 => p = Len(starts) /\ starts[p] = Len(out) + 1
  /\ p = 0 => /\ starts[Len(starts)] = Len(out) /\ out[Len(out)] = J!quote
              /\ Len(starts) = Len(s) + 1 \/ s[Len(starts)] = 0

(* What Append does to a sequence.                                         *)
LEMMA Appended ==
  ASSUME NEW S, NEW t \in Seq(S), NEW x \in S
  PROVE  /\ Append(t, x) \in Seq(S) /\ Len(Append(t, x)) = Len(t) + 1
         /\ \A k \in 1 .. Len(t) : Append(t, x)[k] = t[k]
         /\ Append(t, x)[Len(t) + 1] = x
OBVIOUS

\* The elements of t and, behind them, those of w.
IsConcatenation(t, w) ==
  /\ Len(t \o w) = Len(t) + Len(w)
  /\ \A k \in 1 .. Len(t) : (t \o w)[k] = t[k]
  /\ \A k \in 1 .. Len(w) : (t \o w)[Len(t) + k] = w[k]

(* What concatenation does to sequences.                                   *)
LEMMA Concatenated ==
  ASSUME NEW S, NEW t \in Seq(S), NEW w \in Seq(S)
  PROVE  t \o w \in Seq(S) /\ IsConcatenation(t, w)
BY DEF IsConcatenation

(* Lengths.                                                                *)
LEMMA LenIsNat == ASSUME NEW S, NEW t \in Seq(S) PROVE Len(t) \in Nat
OBVIOUS

LEMMA StringInit == J!Init => StringInv
<1> SUFFICES ASSUME J!Init PROVE StringInv
  OBVIOUS
<1>1. p = 1 /\ out = <<J!quote>> /\ starts = <<2>> BY DEF J!Init
<1>2. s \in Seq(Byte) /\ Len(s) <= MaxLength
  <2>1. PICK n \in 0 .. MaxLength : s \in [1 .. n -> Byte] BY DEF J!Init
  <2> QED BY <2>1, DisplayAssumption
<1>3. out \in Seq(32 .. 126) /\ Len(out) = 1 /\ out[1] = J!quote
  BY <1>1 DEF J!quote
<1>4. starts \in Seq(Nat) /\ Len(starts) = 1 /\ starts[1] = 2 BY <1>1
<1>5. Readable BY <1>4 DEF Readable
<1>6. p \in 0 .. MaxLength + 1 /\ 1 \in 1 .. Len(s) + 1 BY <1>1, <1>2, DisplayAssumption
<1> QED BY <1>1, <1>2, <1>3, <1>4, <1>5, <1>6 DEF StringInv

(* A character that was written is there for good.                         *)
LEMMA CharacterStays ==
  ASSUME NEW a \in Nat, NEW b, NEW e, J!Character(a, b, e), a >= 1, e <= Len(out) + 1,
         out \in Seq(32 .. 126), \A k \in 1 .. Len(out) : out'[k] = out[k]
  PROVE  J!Character(a, b, e)'
<1>1. CASE J!Plain(a, b, e)
  <2>1. a \in 1 .. Len(out) BY <1>1 DEF J!Plain
  <2>2. J!Plain(a, b, e)' BY <1>1, <2>1 DEF J!Plain
  <2> QED BY <2>2 DEF J!Character
<1>2. CASE J!ShortEscape(a, b, e)
  <2>1. a \in 1 .. Len(out) /\ a + 1 \in 1 .. Len(out) BY <1>2 DEF J!ShortEscape
  <2>2. J!ShortEscape(a, b, e)' BY <1>2, <2>1 DEF J!ShortEscape
  <2> QED BY <2>2 DEF J!Character
<1>3. CASE J!LongEscape(a, b, e)
  <2>1. /\ a \in 1 .. Len(out) /\ a + 1 \in 1 .. Len(out) /\ a + 2 \in 1 .. Len(out)
        /\ a + 3 \in 1 .. Len(out) /\ a + 4 \in 1 .. Len(out) /\ a + 5 \in 1 .. Len(out)
    BY <1>3 DEF J!LongEscape
  <2>2. J!LongEscape(a, b, e)' BY <1>3, <2>1, Zenon DEF J!LongEscape
  <2> QED BY <2>2 DEF J!Character
<1> QED BY <1>1, <1>2, <1>3 DEF J!Character

(* A hexadecimal digit reads back.                                         *)
LEMMA DigitReads ==
  ASSUME NEW n \in 0 .. 15
  PROVE  /\ J!HexDigit(n) \in (48 .. 57) \cup (97 .. 102) /\ J!HexDigit(n) \in 32 .. 126
         /\ J!Nibble(J!HexDigit(n)) = n
BY DEF J!HexDigit, J!Nibble

(* The text of a byte is printable, and reads back as the byte.            *)
LEMMA EscapedReads ==
  ASSUME out \in Seq(32 .. 126), NEW b \in 1 .. 255, out' = out \o J!Escaped(b),
         NEW a, NEW e, a = Len(out) + 1, e = Len(out') + 1
  PROVE  /\ out' \in Seq(32 .. 126) /\ Len(out') > Len(out)
         /\ \A k \in 1 .. Len(out) : out'[k] = out[k]
         /\ J!Character(a, b, e)'
<1> DEFINE w == J!Escaped(b)
           Grown == /\ out' \in Seq(32 .. 126) /\ Len(out') = Len(out) + Len(w)
                    /\ \A k \in 1 .. Len(out) : out'[k] = out[k]
                    /\ \A k \in 1 .. Len(w) : out'[Len(out) + k] = w[k]
<1>0. w \in Seq(32 .. 126) => Grown
  <2> HIDE DEF w
  <2>1. out' = out \o w BY DEF w
  <2> QED BY <2>1, Concatenated, SMTT(30) DEF IsConcatenation
<1> HIDE DEF Grown
<1>1. CASE b \in {J!quote, J!backslash}
  <2>1. w = <<J!backslash, b>> BY <1>1 DEF J!Escaped
  <2>2. w \in Seq(32 .. 126) /\ Len(w) = 2 /\ w[1] = J!backslash /\ w[2] = b
    BY <1>1, <2>1 DEF J!quote, J!backslash
  <2> HIDE DEF w
  <2>3. Grown BY <1>0, <2>2
  <2>4. out'[Len(out) + 1] = w[1] /\ out'[Len(out) + 2] = w[2] BY <2>2, <2>3 DEF Grown
  <2>5. a = Len(out) + 1 /\ a + 1 = Len(out) + 2 /\ e = a + 2 BY <2>2, <2>3 DEF Grown
  <2>6. J!ShortEscape(a, b, e)' BY <1>1, <2>2, <2>4, <2>5 DEF J!ShortEscape, J!quote, J!backslash
  <2> QED BY <2>2, <2>3, <2>6 DEF J!Character, Grown
<1>2. CASE b \in {9, 10, 13}
  <2>1. w = <<J!backslash, J!Letter(b)>> BY <1>2 DEF J!Escaped, J!quote, J!backslash
  <2>2. J!Letter(b) \in 32 .. 126 /\ J!backslash \in 32 .. 126 BY DEF J!Letter, J!backslash
  <2>3. w \in Seq(32 .. 126) /\ Len(w) = 2 /\ w[1] = J!backslash /\ w[2] = J!Letter(b)
    BY <2>1, <2>2
  <2> HIDE DEF w
  <2>4. Grown BY <1>0, <2>3
  <2>5. out'[Len(out) + 1] = w[1] /\ out'[Len(out) + 2] = w[2] BY <2>3, <2>4 DEF Grown
  <2>6. a = Len(out) + 1 /\ a + 1 = Len(out) + 2 /\ e = a + 2 BY <2>3, <2>4 DEF Grown
  <2>7. J!ShortEscape(a, b, e)'
    BY <1>2, <2>3, <2>5, <2>6 DEF J!ShortEscape, J!backslash, J!Letter
  <2> QED BY <2>3, <2>4, <2>7 DEF J!Character, Grown
<1>3. CASE b \notin {J!quote, J!backslash, 9, 10, 13} /\ J!Printable(b)
  <2>1. w = <<b>> BY <1>3 DEF J!Escaped
  <2>2. w \in Seq(32 .. 126) /\ Len(w) = 1 /\ w[1] = b BY <1>3, <2>1 DEF J!Printable
  <2> HIDE DEF w
  <2>3. Grown BY <1>0, <2>2
  <2>4. out'[Len(out) + 1] = w[1] /\ e = a + 1 BY <2>2, <2>3 DEF Grown
  <2>5. J!Plain(a, b, e)' BY <1>3, <2>2, <2>4 DEF J!Plain, J!quote, J!backslash
  <2> QED BY <2>2, <2>3, <2>5 DEF J!Character, Grown
<1>4. CASE b \notin {J!quote, J!backslash, 9, 10, 13} /\ ~J!Printable(b)
  <2> DEFINE high == b \div 16
             low == b % 16
             x == J!HexDigit(high)
             y == J!HexDigit(low)
  <2>1. high \in 0 .. 15 /\ low \in 0 .. 15 /\ b = 16 * high + low OBVIOUS
  <2>2. w = <<J!backslash, J!u, 48, 48, x, y>> BY <1>4 DEF J!Escaped
  <2> HIDE DEF high, low
  <2>3. /\ x \in (48 .. 57) \cup (97 .. 102) /\ y \in (48 .. 57) \cup (97 .. 102)
        /\ x \in 32 .. 126 /\ y \in 32 .. 126
        /\ J!Nibble(x) = high /\ J!Nibble(y) = low
    <3>1. high \in 0 .. 15 => /\ x \in (48 .. 57) \cup (97 .. 102) /\ x \in 32 .. 126
                              /\ J!Nibble(x) = high
      BY DigitReads, Zenon
    <3>2. low \in 0 .. 15 => /\ y \in (48 .. 57) \cup (97 .. 102) /\ y \in 32 .. 126
                             /\ J!Nibble(y) = low
      BY DigitReads, Zenon
    <3> HIDE DEF x, y
    <3> QED BY <2>1, <3>1, <3>2
  <2> HIDE DEF x, y
  <2>4. b = 16 * J!Nibble(x) + J!Nibble(y) BY <2>1, <2>3
  <2>5. J!backslash \in 32 .. 126 /\ J!u \in 32 .. 126 /\ 48 \in 32 .. 126
    BY DEF J!backslash, J!u
  <2>6. /\ w \in Seq(32 .. 126) /\ Len(w) = 6
        /\ w[1] = J!backslash /\ w[2] = J!u /\ w[3] = 48 /\ w[4] = 48 /\ w[5] = x /\ w[6] = y
    BY <2>2, <2>3, <2>5
  <2> HIDE DEF w
  <2>7. Grown BY <1>0, <2>6
  <2>8. /\ out'[Len(out) + 1] = w[1] /\ out'[Len(out) + 2] = w[2] /\ out'[Len(out) + 3] = w[3]
        /\ out'[Len(out) + 4] = w[4] /\ out'[Len(out) + 5] = w[5] /\ out'[Len(out) + 6] = w[6]
    <3>1. /\ 1 \in 1 .. Len(w) /\ 2 \in 1 .. Len(w) /\ 3 \in 1 .. Len(w)
          /\ 4 \in 1 .. Len(w) /\ 5 \in 1 .. Len(w) /\ 6 \in 1 .. Len(w)
      BY <2>6
    <3> QED BY <2>7, <3>1, Zenon DEF Grown
  <2>9. /\ a = Len(out) + 1 /\ a + 1 = Len(out) + 2 /\ a + 2 = Len(out) + 3
        /\ a + 3 = Len(out) + 4 /\ a + 4 = Len(out) + 5 /\ a + 5 = Len(out) + 6 /\ e = a + 6
    BY <2>6, <2>7 DEF Grown
  <2>10. J!LongEscape(a, b, e)'
    <3>1. /\ out'[a] = J!backslash /\ out'[a + 1] = J!u /\ out'[a + 2] = 48
          /\ out'[a + 3] = 48 /\ out'[a + 4] = x /\ out'[a + 5] = y
      BY <2>6, <2>8, <2>9, Zenon
    <3> QED BY <2>3, <2>4, <2>9, <3>1, Zenon DEF J!LongEscape, J!backslash, J!u
  <2> QED BY <2>6, <2>7, <2>10 DEF J!Character, Grown
<1> QED BY <1>1, <1>2, <1>3, <1>4

LEMMA WriteByteKeeps ==
  ASSUME StringInv, J!WriteByte PROVE StringInv'
<1>1. /\ p > 0 /\ ~J!AtEnd /\ out' = out \o J!Escaped(s[p])
      /\ starts' = Append(starts, Len(out') + 1) /\ p' = p + 1 /\ s' = s
  BY DEF J!WriteByte
<1>2. /\ s \in Seq(Byte) /\ Len(s) <= MaxLength /\ MaxLength \in Nat
      /\ out \in Seq(32 .. 126) /\ Len(out) >= 1 /\ out[1] = J!quote
      /\ starts \in Seq(Nat) /\ Readable /\ p = Len(starts) /\ starts[p] = Len(out) + 1
      /\ p \in 1 .. Len(s)
  BY <1>1, DisplayAssumption DEF StringInv, J!AtEnd
<1>3. s[p] \in 1 .. 255
  <2>1. s[p] \in Byte /\ s[p] # 0 BY <1>1, <1>2 DEF J!AtEnd
  <2> QED BY <2>1, DisplayAssumption
<1>4. PICK b \in 1 .. 255 : b = s[p] BY <1>3
<1>5. PICK a : a = Len(out) + 1 OBVIOUS
<1>6. PICK e : e = Len(out') + 1 OBVIOUS
<1>7. /\ out' \in Seq(32 .. 126) /\ Len(out') > Len(out)
      /\ \A k \in 1 .. Len(out) : out'[k] = out[k]
      /\ J!Character(a, b, e)'
  BY <1>1, <1>2, <1>4, <1>5, <1>6, EscapedReads, Zenon
<1>8. e \in Nat /\ a \in Nat /\ a >= 1 /\ e = Len(out') + 1 BY <1>2, <1>5, <1>6, <1>7
<1>9. /\ starts' \in Seq(Nat) /\ Len(starts') = Len(starts) + 1
      /\ \A k \in 1 .. Len(starts) : starts'[k] = starts[k]
      /\ starts'[Len(starts) + 1] = e
  <2>1. starts' = Append(starts, e) BY <1>1, <1>6
  <2> QED BY <1>2, <1>8, <2>1, Appended
<1>10. Readable'
  <2>1. starts'[1] = 2
    <3>1. 1 \in 1 .. Len(starts) BY <1>2
    <3> QED BY <1>2, <1>9, <3>1 DEF Readable
  <2>2. ASSUME NEW k \in 1 .. Len(starts') - 1
        PROVE  /\ s'[k] # 0 /\ J!Character(starts[k], s[k], starts[k + 1])'
               /\ starts'[k] >= 1 /\ starts'[k + 1] <= Len(out') + 1
    <3>1. CASE k = p
      <4>1. starts'[k] = a /\ s'[k] = b /\ starts'[k + 1] = e
        BY <1>1, <1>2, <1>4, <1>5, <1>9, <3>1
      <4>2. J!Character(starts[k], s[k], starts[k + 1])' BY <1>7, <4>1
      <4> QED BY <1>8, <4>1, <4>2
    <3>2. CASE k # p
      <4>1. k \in 1 .. Len(starts) - 1 /\ k \in 1 .. Len(starts) /\ k + 1 \in 1 .. Len(starts)
        BY <1>2, <1>9, <3>2
      <4>2. /\ s[k] # 0 /\ J!Character(starts[k], s[k], starts[k + 1])
            /\ starts[k] >= 1 /\ starts[k + 1] <= Len(out) + 1
            /\ starts[k] \in Nat /\ starts[k + 1] \in Nat
        BY <1>2, <4>1 DEF Readable
      <4>3. starts'[k] = starts[k] /\ s'[k] = s[k] /\ starts'[k + 1] = starts[k + 1]
        BY <1>1, <1>9, <4>1
      <4>4. PICK x \in Nat : x = starts[k] BY <4>2
      <4>5. PICK y : y = s[k] OBVIOUS
      <4>6. PICK z \in Nat : z = starts[k + 1] BY <4>2
      <4>7. J!Character(x, y, z)'
        BY <1>2, <1>7, <4>2, <4>4, <4>5, <4>6, CharacterStays, Zenon
      <4>8. J!Character(starts[k], s[k], starts[k + 1])' BY <4>3, <4>4, <4>5, <4>6, <4>7
      <4>9. starts[k + 1] <= Len(out') + 1 BY <1>2, <1>7, <4>2
      <4> QED BY <4>2, <4>3, <4>8, <4>9
    <3> QED BY <3>1, <3>2
  <2> QED BY <2>1, <2>2 DEF Readable
<1>11. /\ Len(out') >= 1 /\ out'[1] = J!quote
  <2>1. 1 \in 1 .. Len(out) BY <1>2
  <2> QED BY <1>2, <1>7, <2>1
<1>12. /\ p' \in 0 .. MaxLength + 1 /\ p' # 0 /\ p' = Len(starts')
       /\ Len(starts') \in 1 .. Len(s') + 1
  BY <1>1, <1>2, <1>9
<1>13. starts'[p'] = Len(out') + 1 BY <1>1, <1>2, <1>8, <1>9
<1> QED BY <1>1, <1>2, <1>7, <1>9, <1>10, <1>11, <1>12, <1>13 DEF StringInv, J!quote

LEMMA CloseKeeps ==
  ASSUME StringInv, J!Close PROVE StringInv'
<1>1. /\ p > 0 /\ J!AtEnd /\ out' = Append(out, J!quote) /\ p' = 0 /\ s' = s /\ starts' = starts
  BY DEF J!Close
<1>2. /\ s \in Seq(Byte) /\ Len(s) <= MaxLength /\ MaxLength \in Nat
      /\ out \in Seq(32 .. 126) /\ Len(out) >= 1 /\ out[1] = J!quote
      /\ starts \in Seq(Nat) /\ Len(starts) \in 1 .. Len(s) + 1
      /\ Readable /\ p = Len(starts) /\ starts[p] = Len(out) + 1
  BY <1>1, DisplayAssumption DEF StringInv
<1>3. /\ out' \in Seq(32 .. 126) /\ Len(out') = Len(out) + 1
      /\ \A k \in 1 .. Len(out) : out'[k] = out[k]
      /\ out'[Len(out) + 1] = J!quote
  <2>1. J!quote \in 32 .. 126 BY DEF J!quote
  <2> QED BY <1>1, <1>2, <2>1, Appended
<1>4. Len(starts) = Len(s) + 1 \/ s[Len(starts)] = 0
  BY <1>1, <1>2 DEF J!AtEnd
<1>5. Readable'
  <2>1. starts'[1] = 2 BY <1>1, <1>2 DEF Readable
  <2>2. ASSUME NEW k \in 1 .. Len(starts') - 1
        PROVE  /\ s'[k] # 0 /\ J!Character(starts[k], s[k], starts[k + 1])'
               /\ starts'[k] >= 1 /\ starts'[k + 1] <= Len(out') + 1
    <3>0. k \in 1 .. Len(starts) - 1 /\ k \in 1 .. Len(starts) /\ k + 1 \in 1 .. Len(starts)
      BY <1>1, <1>2
    <3>1. /\ s[k] # 0 /\ J!Character(starts[k], s[k], starts[k + 1])
          /\ starts[k] >= 1 /\ starts[k + 1] <= Len(out) + 1
          /\ starts[k] \in Nat /\ starts[k + 1] \in Nat
      BY <1>2, <3>0 DEF Readable
    <3>2. PICK x \in Nat : x = starts[k] BY <3>1
    <3>3. PICK y : y = s[k] OBVIOUS
    <3>4. PICK z \in Nat : z = starts[k + 1] BY <3>1
    <3>5. J!Character(x, y, z)'
      BY <1>2, <1>3, <3>1, <3>2, <3>3, <3>4, CharacterStays
    <3>6. J!Character(starts[k], s[k], starts[k + 1])' BY <1>1, <3>2, <3>3, <3>4, <3>5
    <3>7. starts[k + 1] <= Len(out') + 1 BY <1>2, <1>3, <3>1
    <3> QED BY <1>1, <3>1, <3>6, <3>7
  <2> QED BY <2>1, <2>2 DEF Readable
<1>6. Len(out') >= 1 /\ out'[1] = J!quote
  <2>1. 1 \in 1 .. Len(out) BY <1>2
  <2> QED BY <1>2, <1>3, <2>1
<1>7. 0 \in 0 .. MaxLength + 1 /\ ~(0 > 0) /\ starts[Len(starts)] = Len(out') BY <1>2, <1>3
<1>8. out'[Len(out')] = J!quote BY <1>3
<1> QED BY <1>1, <1>2, <1>3, <1>4, <1>5, <1>6, <1>7, <1>8 DEF StringInv, J!quote

LEMMA StringReads == StringInv => J!TypeOK /\ J!ParsesBack
<1> SUFFICES ASSUME StringInv PROVE J!TypeOK /\ J!ParsesBack
  OBVIOUS
<1>1. J!TypeOK BY DEF StringInv, J!TypeOK
<1>2. J!ParsesBack
  <2> SUFFICES ASSUME p = 0 PROVE J!ParsesBack
    BY DEF J!ParsesBack
  <2> DEFINE n == Len(starts) - 1
  <2>1. n \in 0 .. Len(s) /\ n + 1 = Len(starts) /\ Len(s) \in Nat BY DEF StringInv
  <2>2. \A k \in 1 .. n : s[k] # 0 /\ J!Character(starts[k], s[k], starts[k + 1])
    BY DEF StringInv, Readable
  <2>3. starts[n + 1] = Len(out) /\ out[Len(out)] = J!quote /\ starts[1] = 2 /\ out[1] = J!quote
    BY <2>1, Zenon DEF StringInv, Readable
  <2>4. n = Len(s) \/ (n < Len(s) /\ s[n + 1] = 0)
    <3>1. Len(starts) = Len(s) + 1 \/ s[Len(starts)] = 0 BY DEF StringInv
    <3>2. CASE Len(starts) = Len(s) + 1 BY <2>1, <3>2
    <3>3. CASE Len(starts) # Len(s) + 1
      <4>1. s[n + 1] = 0 BY <2>1, <3>1, <3>3, Zenon
      <4>2. n < Len(s)
        <5> HIDE DEF n
        <5> QED BY <2>1, <3>3
      <4> QED BY <4>1, <4>2
    <3> QED BY <3>2, <3>3
  <2> QED BY <2>2, <2>3, <2>4 DEF J!ParsesBack
<1> QED BY <1>1, <1>2

\* The invariant of a call of json_write_escaped().
StringCall == function = "json_write_escaped" => StringInv

LEMMA StringCallInit == DisplayInit => StringCall
BY StringInit DEF DisplayInit, StringCall

LEMMA StringCallStep ==
  ASSUME StringCall, [DisplayNext]_displayVars PROVE StringCall'
<1> SUFFICES ASSUME function' = "json_write_escaped" PROVE StringInv'
  BY DEF StringCall
<1>1. CASE WriteEscaped
  BY <1>1, WriteByteKeeps, CloseKeeps DEF WriteEscaped, J!Next, StringCall
<1>2. CASE UNCHANGED displayVars
  <2>1. StringInv /\ UNCHANGED <<s, p, out, starts>>
    BY <1>2 DEF StringCall, displayVars, ofString
  <2>2. Readable'
    BY <2>1 DEF StringInv, Readable, J!Character, J!Plain, J!ShortEscape, J!LongEscape
  <2> QED BY <2>1, <2>2 DEF StringInv, J!quote
<1> QED BY <1>1, <1>2 DEF DisplayNext, OutputPacket, DumpHex, FormatIpv6

(* Whatever the bytes of a name and however many: the string is printable, *)
(* ends where it seems to end, and a JSON parser reads the bytes up to a   *)
(* NUL byte from it (output.c:285-314).                                    *)
THEOREM StringIsValid == DisplaySpec => []ParsesBack
<1>1. StringCall /\ [DisplayNext]_displayVars => StringCall' BY StringCallStep
<1>2. StringCall => ParsesBack BY StringReads DEF StringCall, ParsesBack
<1> QED BY StringCallInit, <1>1, <1>2, PTL DEF DisplaySpec

(* What starts at a place of the output is one character with one end, and *)
(* none starts at a quote.                                                 *)
LEMMA OneCharacter ==
  ASSUME NEW a, NEW b, NEW c, NEW e, NEW f, J!Character(a, b, e), J!Character(a, c, f)
  PROVE  b = c /\ e = f /\ out[a] # J!quote
BY DEF J!Character, J!Plain, J!ShortEscape, J!LongEscape, J!quote, J!backslash, J!u

\* The C string at s: its bytes in front of the first NUL byte.
IsName(t) ==
  /\ Len(t) <= Len(s) /\ \A k \in 1 .. Len(t) : t[k] = s[k] /\ s[k] # 0
  /\ Len(t) = Len(s) \/ s[Len(t) + 1] = 0

\* A JSON parser reads t: from the place behind the first quote one character
\* after another, the k-th at q[k], up to a place where it finds a quote.
IsReading(t, q) ==
  /\ Len(q) = Len(t) + 1 /\ q[1] = 2
  /\ \A k \in 1 .. Len(t) : J!Character(q[k], t[k], q[k + 1])
  /\ out[q[Len(t) + 1]] = J!quote

\* A set of natural numbers has a smallest element.
LEMMA SmallestPlace ==
  ASSUME NEW T \in SUBSET Nat, T # {}
  PROVE  \E x \in T : \A y \in T : x <= y
<1>1. PICK x \in T : \A y \in T : ~(<<y, x>> \in OpToRel(<, Nat))
  BY NatLessThanWellFounded, WFMin, Zenon
<1>2. \A y \in T : ~(y < x) BY <1>1 DEF OpToRel
<1> QED BY <1>2

(* A parser is at the places where the program began the bytes.            *)
LEMMA SamePlaces ==
  ASSUME StringInv, NEW t \in Seq(0 .. 255), NEW q \in Seq(Nat), IsReading(t, q),
         NEW m \in Nat, m <= Len(t), m <= Len(starts) - 1
  PROVE  \A k \in 1 .. m + 1 : q[k] = starts[k]
<1> DEFINE wrong == {k \in 1 .. m + 1 : q[k] # starts[k]}
<1> SUFFICES ASSUME wrong # {} PROVE FALSE
  OBVIOUS
<1>1. PICK k \in wrong : \A y \in wrong : k <= y
  <2>1. wrong \in SUBSET Nat OBVIOUS
  <2> QED BY <2>1, SmallestPlace
<1>2. k \in 1 .. m + 1 /\ q[k] # starts[k] BY <1>1
<1>3. q[1] = starts[1] BY DEF StringInv, Readable, IsReading
<1>4. k - 1 \in 1 .. m BY <1>2, <1>3
<1>5. q[k - 1] = starts[k - 1] BY <1>1, <1>4
<1>6. J!Character(q[k - 1], t[k - 1], q[k])
  <2>1. Len(t) \in Nat BY LenIsNat
  <2>2. k - 1 \in 1 .. Len(t) /\ (k - 1) + 1 = k BY <1>2, <1>4, <2>1
  <2>3. J!Character(q[k - 1], t[k - 1], q[(k - 1) + 1]) BY <2>2, Zenon DEF IsReading
  <2> QED BY <2>2, <2>3
<1>7. J!Character(starts[k - 1], s[k - 1], starts[k])
  <2>1. Len(starts) \in Nat BY LenIsNat DEF StringInv
  <2>2. k - 1 \in 1 .. Len(starts) - 1 /\ (k - 1) + 1 = k BY <1>2, <1>4, <2>1
  <2>3. J!Character(starts[k - 1], s[k - 1], starts[(k - 1) + 1])
    BY <2>2, Zenon DEF StringInv, Readable
  <2> QED BY <2>2, <2>3
<1> QED BY <1>2, <1>5, <1>6, <1>7, OneCharacter

(* A closed string is read in one way only.                                *)
LEMMA ReadingIsName ==
  ASSUME StringInv, p = 0, NEW t \in Seq(0 .. 255), NEW q \in Seq(Nat), IsReading(t, q)
  PROVE  IsName(t) /\ q[Len(t) + 1] = Len(out)
<1> DEFINE n == Len(starts) - 1
           m == Len(t)
<1>1. m \in Nat /\ n \in Nat /\ Len(s) \in Nat /\ n <= Len(s) /\ n + 1 = Len(starts)
  BY LenIsNat DEF StringInv
<1>2. \A k \in 1 .. n : s[k] # 0 /\ J!Character(starts[k], s[k], starts[k + 1])
  BY Zenon DEF StringInv, Readable
<1>3. \A k \in 1 .. m : J!Character(q[k], t[k], q[k + 1])
  BY Zenon DEF IsReading
<1>4. out[q[m + 1]] = J!quote BY DEF IsReading
<1>5. starts[n + 1] = Len(out) /\ out[Len(out)] = J!quote
  BY <1>1, Zenon DEF StringInv
<1>6. n = Len(s) \/ s[n + 1] = 0
  <2>1. Len(starts) = Len(s) + 1 \/ s[Len(starts)] = 0 BY DEF StringInv
  <2>2. CASE s[Len(starts)] = 0 BY <1>1, <2>2, Zenon
  <2>3. CASE Len(starts) = Len(s) + 1 BY <1>1, <2>3
  <2> QED BY <2>1, <2>2, <2>3
<1>7. \A l \in Nat : l <= m /\ l <= n => \A k \in 1 .. l + 1 : q[k] = starts[k]
  BY SamePlaces
<1> HIDE DEF n, m
<1>8. ~(m < n)
  <2> SUFFICES ASSUME m < n PROVE FALSE
    OBVIOUS
  <2>1. m + 1 \in 1 .. n /\ m + 1 \in 1 .. m + 1 /\ m <= m /\ m <= n BY <1>1
  <2>2. q[m + 1] = starts[m + 1] BY <1>1, <1>7, <2>1
  <2>3. out[starts[m + 1]] # J!quote BY <1>2, <2>1, OneCharacter
  <2> QED BY <1>4, <2>2, <2>3
<1>9. ~(n < m)
  <2> SUFFICES ASSUME n < m PROVE FALSE
    OBVIOUS
  <2>1. n + 1 \in 1 .. m /\ n + 1 \in 1 .. n + 1 /\ n <= n /\ n <= m BY <1>1
  <2>2. q[n + 1] = starts[n + 1] BY <1>1, <1>7, <2>1
  <2>3. out[q[n + 1]] # J!quote BY <1>3, <2>1, OneCharacter
  <2> QED BY <1>5, <2>2, <2>3
<1>10. m = n BY <1>1, <1>8, <1>9
<1>11. \A k \in 1 .. m + 1 : q[k] = starts[k]
  BY <1>1, <1>7, <1>10
<1>12. \A k \in 1 .. m : t[k] = s[k] /\ s[k] # 0
  <2> SUFFICES ASSUME NEW k \in 1 .. m PROVE t[k] = s[k] /\ s[k] # 0
    OBVIOUS
  <2>1. k \in 1 .. m + 1 BY <1>1
  <2>2. q[k] = starts[k] BY <1>11, <2>1
  <2>3. J!Character(q[k], t[k], q[k + 1]) BY <1>3
  <2>4. s[k] # 0 /\ J!Character(starts[k], s[k], starts[k + 1]) BY <1>2, <1>10
  <2> QED BY <2>2, <2>3, <2>4, OneCharacter
<1>13. q[m + 1] = Len(out)
  <2>1. m + 1 \in 1 .. m + 1 BY <1>1
  <2> QED BY <1>5, <1>10, <1>11, <2>1
<1>14. m = Len(t) BY DEF m
<1> QED BY <1>1, <1>6, <1>10, <1>12, <1>13, <1>14 DEF IsName

(* And it is read: as the bytes in front of the first NUL byte.            *)
LEMMA NameIsRead ==
  ASSUME StringInv, p = 0, NEW t \in Seq(0 .. 255), IsName(t)
  PROVE  IsReading(t, starts)
<1> DEFINE n == Len(starts) - 1
           m == Len(t)
<1>1. m \in Nat /\ n \in Nat /\ Len(s) \in Nat /\ n <= Len(s) /\ n + 1 = Len(starts)
  BY LenIsNat DEF StringInv
<1>2. \A k \in 1 .. n : s[k] # 0 /\ J!Character(starts[k], s[k], starts[k + 1])
  BY Zenon DEF StringInv, Readable
<1>3. /\ m <= Len(s) /\ \A k \in 1 .. m : t[k] = s[k] /\ s[k] # 0
      /\ m = Len(s) \/ s[m + 1] = 0
  BY DEF IsName
<1>4. starts[n + 1] = Len(out) /\ out[Len(out)] = J!quote /\ starts[1] = 2
  BY <1>1, Zenon DEF StringInv, Readable
<1>5. n = Len(s) \/ s[n + 1] = 0
  <2>1. Len(starts) = Len(s) + 1 \/ s[Len(starts)] = 0 BY DEF StringInv
  <2>2. CASE s[Len(starts)] = 0 BY <1>1, <2>2, Zenon
  <2>3. CASE Len(starts) = Len(s) + 1 BY <1>1, <2>3
  <2> QED BY <2>1, <2>2, <2>3
<1>6. m = Len(t) BY DEF m
<1> HIDE DEF n, m
<1>7. ~(m < n)
  <2> SUFFICES ASSUME m < n PROVE FALSE
    OBVIOUS
  <2>1. m + 1 \in 1 .. n /\ m # Len(s) BY <1>1
  <2> QED BY <1>2, <1>3, <2>1
<1>8. ~(n < m)
  <2> SUFFICES ASSUME n < m PROVE FALSE
    OBVIOUS
  <2>1. n + 1 \in 1 .. m /\ n # Len(s) BY <1>1, <1>3
  <2> QED BY <1>3, <1>5, <2>1
<1>9. m = n BY <1>1, <1>7, <1>8
<1>10. \A k \in 1 .. m : J!Character(starts[k], t[k], starts[k + 1])
  BY <1>2, <1>3, <1>9
<1> QED BY <1>1, <1>4, <1>6, <1>9, <1>10 DEF IsReading

\* What a JSON parser makes of the string json_write_escaped() has written.
ReadInOneWay ==
  /\ \A t \in Seq(0 .. 255) : (\E q \in Seq(Nat) : IsReading(t, q)) <=> IsName(t)
  /\ \A t \in Seq(0 .. 255), q \in Seq(Nat) : IsReading(t, q) => q[Len(t) + 1] = Len(out)

(* There is one way to read the string json_write_escaped() has written    *)
(* (output.c:285-314): a JSON parser gets the bytes in front of the first  *)
(* NUL byte, no others, and the first quote it stops at is the last        *)
(* character of the string.                                                *)
THEOREM OneReading ==
  DisplaySpec => [](function = "json_write_escaped" /\ p = 0 => ReadInOneWay)
<1>1. StringCall /\ [DisplayNext]_displayVars => StringCall' BY StringCallStep
<1>2. StringCall => (function = "json_write_escaped" /\ p = 0 => ReadInOneWay)
  <2> SUFFICES ASSUME StringInv, p = 0 PROVE ReadInOneWay
    BY DEF StringCall
  <2>1. \A t \in Seq(0 .. 255), q \in Seq(Nat) :
          IsReading(t, q) => IsName(t) /\ q[Len(t) + 1] = Len(out)
    BY ReadingIsName
  <2>2. \A t \in Seq(0 .. 255) : IsName(t) => IsReading(t, starts)
    BY NameIsRead
  <2>3. starts \in Seq(Nat) BY DEF StringInv
  <2> QED BY <2>1, <2>2, <2>3, Zenon DEF ReadInOneWay
<1> QED BY StringCallInit, <1>1, <1>2, PTL DEF DisplaySpec

-----------------------------------------------------------------------------
\* One packet

TextPlaces == {"text", "text_flags", "text_line", "verbose", "verbose_flags", "verbose_end", "hex"}
JsonPlaces == {"json_head", "json_addresses", "json_tcp", "json_flags", "json_dns"}
Token == {"lbrace", "rbrace", "lbracket", "rbracket", "comma", "key", "value", "newline"}
Line == {"malformed", "arp", "line", "answer", "question", "verbose", "hex"}
Brackets == {<<>>, O!object, O!inner, O!list}

OutputTypes ==
  /\ pkt \in O!Packets /\ O!Canonical(pkt)
  /\ pc \in {"ns_output_packet", "done"} \cup TextPlaces \cup JsonPlaces
  /\ printed \in Seq(Line) /\ json \in Seq(Token) /\ open \in Seq(Brackets)
  /\ i \in 1 .. 9 /\ pos \in 0 .. 31 /\ shown \subseteq pkt.flags

\* Text and JSON exclude each other.
OneFormat ==
  /\ pc \in TextPlaces => opts.format = "text" /\ ~opts.quiet
  /\ pc \in JsonPlaces => opts.format = "json"
  /\ pc \in {"ns_output_packet", "json_head"} => json = <<>> /\ open = <<>>
  /\ printed # <<>> => opts.format = "text" /\ ~opts.quiet
  /\ json # <<>> => opts.format = "json"
  /\ opts.format \in {"text", "json"}

\* The names in front of kFlags[n] that the packet has.
Shown(n) == {x \in pkt.flags : \E j \in 1 .. 8 : j < n /\ O!kFlags[j] = x}

\* The loop over the flags: three bytes for the first, four for each other.
FlagsInv ==
  /\ pc \in {"text_flags", "verbose_flags"} =>
       /\ shown = Shown(i)
       /\ shown = {} => pos = 0
       /\ shown # {} => pos <= 4 * (i - 1) - 1
  /\ O!FlagsComplete

DecodedInv ==
  /\ O!ReadsDecoded /\ protocol \in {"none", O!TopProtocol}
  /\ pc \in {"json_tcp", "json_flags"} => O!transport = "TCP"

\* Each of the first m tokens may follow the one before it.
ChainTo(t, b, m) == \A n \in 2 .. m : O!MayFollow(t[n - 1], b[n - 1], t[n], b[n])
Chain(t, b) == ChainTo(t, b, Len(t))

\* The line so far: it ends with one of the tokens, and with the brackets c open.
Ends(t, b, tokens, c) ==
  /\ t \in Seq(Token) /\ b \in Seq(Brackets) /\ Len(t) >= 1 /\ Len(b) = Len(t)
  /\ t[1] = "lbrace" /\ b[1] = O!object /\ Chain(t, b)
  /\ t[Len(t)] \in tokens /\ b[Len(b)] = c

LineInv ==
  /\ pc \in {"json_addresses", "json_tcp", "json_dns"} =>
       Ends(json, open, {"value", "rbrace"}, O!object)
  /\ pc = "json_flags" => Ends(json, open, {"value", "lbracket"}, O!list)
  /\ O!JsonLineValid

OutputInv == OutputTypes /\ OneFormat /\ FlagsInv /\ DecodedInv /\ LineInv

LEMMA Flags == Len(O!kFlags) = 8
BY DEF O!kFlags

LEMMA InputStays == ASSUME O!Next PROVE pkt' = pkt /\ opts' = opts
BY Zenon DEF O!Next, O!Dispatch, O!PrintSpecialLine, O!FormatLine, O!PrintLine, O!FlagsToString,
       O!FlagsDone, O!PrintVerboseBlock, O!EndVerboseBlock, O!PrintHexDump, O!JsonHead,
       O!JsonAddresses, O!JsonTcp, O!JsonFlag, O!JsonFlagsEnd, O!JsonDns, O!input

(* What ns_packet_parse() leaves behind.                                   *)
LEMMA PacketKnown ==
  ASSUME OutputTypes
  PROVE  /\ pkt.questions \in 0 .. 1 /\ pkt.answers \in 0 .. 1 /\ pkt.flags \in FlagSets
         /\ O!net \in {"UNKNOWN", "IPV4", "IPV6", "ARP"}
         /\ O!transport \in {"UNKNOWN", "TCP", "UDP", "ICMP", "ICMPV6"}
         /\ O!transport # "UNKNOWN" => O!net \in {"IPV4", "IPV6"}
         /\ pkt.layers.has_dns => O!transport \in {"TCP", "UDP"}
         /\ pkt.layers.has_dns \in BOOLEAN
<1>1. PICK l \in {x \in O!Layers : O!WellFormed(x)}, r \in BOOLEAN, q \in 0 .. 1, a \in 0 .. 1,
           f \in FlagSets :
             pkt = [layers |-> l, is_response |-> r, questions |-> q, answers |-> a, flags |-> f]
  BY DEF OutputTypes, O!Packets
<1>2. /\ pkt.layers = l /\ pkt.questions \in 0 .. 1 /\ pkt.answers \in 0 .. 1
      /\ pkt.flags \in FlagSets
  BY <1>1
<1>3. l \in O!Layers /\ O!WellFormed(l) OBVIOUS
<1>4. /\ l.network_proto \in {"UNKNOWN", "IPV4", "IPV6", "ARP"}
      /\ l.transport_proto \in {"UNKNOWN", "TCP", "UDP", "ICMP", "ICMPV6"}
      /\ l.has_dns \in BOOLEAN
  BY <1>3 DEF O!Layers, O!NetworkProto, O!TransportProto
<1>5. /\ l.transport_proto # "UNKNOWN" => l.network_proto \in {"IPV4", "IPV6"}
      /\ l.has_dns => l.transport_proto \in {"TCP", "UDP"}
  BY <1>3 DEF O!WellFormed
<1> QED BY <1>2, <1>4, <1>5 DEF O!net, O!transport

LEMMA OutputInit == O!Init => OutputInv
<1> SUFFICES ASSUME O!Init PROVE OutputInv
  OBVIOUS
<1>1. /\ pkt \in O!Packets /\ O!Canonical(pkt)
      /\ opts \in [format : {"text", "json"}, quiet : BOOLEAN, verbose : BOOLEAN, hex : BOOLEAN]
      /\ pc = "ns_output_packet" /\ printed = <<>> /\ json = <<>> /\ open = <<>>
      /\ protocol = "none" /\ i = 1 /\ pos = 0 /\ shown = {} /\ read = {}
  BY DEF O!Init
<1>2. printed \in Seq(Line) /\ json \in Seq(Token) /\ open \in Seq(Brackets)
  BY <1>1
<1>3. OutputTypes BY <1>1, <1>2 DEF OutputTypes
<1>4. OneFormat BY <1>1 DEF OneFormat, TextPlaces, JsonPlaces
<1>5. FlagsInv BY <1>1 DEF FlagsInv, O!FlagsComplete
<1>6. DecodedInv BY <1>1 DEF DecodedInv, O!ReadsDecoded
<1>7. LineInv BY <1>1 DEF LineInv, O!JsonLineValid
<1> QED BY <1>3, <1>4, <1>5, <1>6, <1>7 DEF OutputInv

-----------------------------------------------------------------------------
(* The types, and one format only: the actions that print text.            *)
LEMMA TextTypes ==
  ASSUME OutputTypes, OneFormat,
         O!Dispatch \/ O!PrintSpecialLine \/ O!FormatLine \/ O!PrintLine \/ O!FlagsToString
           \/ O!FlagsDone \/ O!PrintVerboseBlock \/ O!EndVerboseBlock \/ O!PrintHexDump
  PROVE  OutputTypes' /\ OneFormat'
<1>1. pkt' = pkt /\ opts' = opts BY InputStays DEF O!Next
<1>2. /\ pkt' \in O!Packets /\ O!Canonical(pkt') /\ shown \subseteq pkt.flags
      /\ printed \in Seq(Line) /\ json \in Seq(Token) /\ open \in Seq(Brackets)
      /\ i \in 1 .. 9 /\ pos \in 0 .. 31 /\ opts.format \in {"text", "json"}
  BY <1>1 DEF OutputTypes, OneFormat
<1>3. json' = json /\ open' = open
  BY DEF O!Dispatch, O!PrintSpecialLine, O!FormatLine, O!PrintLine, O!FlagsToString,
         O!FlagsDone, O!PrintVerboseBlock, O!EndVerboseBlock, O!PrintHexDump, O!line
<1>4. CASE O!Dispatch
  <2>1. /\ printed' = printed /\ i' = i /\ pos' = pos /\ shown' = shown
        /\ pc = "ns_output_packet"
        /\ pc' = IF opts.format = "json" THEN "json_head" ELSE IF opts.quiet THEN "done" ELSE "text"
    BY <1>4 DEF O!Dispatch, O!Goto, O!flags_text
  <2> QED BY <1>1, <1>2, <1>3, <2>1 DEF OutputTypes, OneFormat, TextPlaces, JsonPlaces
<1>5. CASE O!PrintSpecialLine \/ O!PrintLine \/ O!EndVerboseBlock \/ O!PrintHexDump
  <2>1. i' = i /\ pos' = pos /\ shown' = shown /\ pc \in TextPlaces
    BY <1>5 DEF O!PrintSpecialLine, O!PrintLine, O!EndVerboseBlock, O!PrintHexDump, O!Goto,
                O!flags_text, TextPlaces
  <2>2. pc' \in {"verbose", "hex", "done"}
    BY <1>5 DEF O!PrintSpecialLine, O!PrintLine, O!EndVerboseBlock, O!PrintHexDump, O!Goto,
                O!AfterText
  <2>3. printed' \in Seq(Line)
    <3>1. \A x \in Line : Append(printed, x) \in Seq(Line) BY <1>2
    <3>2. \A x \in Line, y \in Line : Append(printed, x) \o <<y>> \in Seq(Line) BY <1>2
    <3>3. Append(printed, "line") \o <<>> \in Seq(Line) BY <1>2 DEF Line
    <3>4. {"malformed", "arp", "line", "verbose", "hex", "answer", "question"} \subseteq Line
      BY DEF Line
    <3>5. CASE O!PrintLine
      <4>1. \/ printed' = Append(printed, "line") \o O!DnsParts
            \/ printed' = Append(printed, "line")
        BY <3>5 DEF O!PrintLine
      <4>2. O!DnsParts \in {<<>>, <<"answer">>, <<"question">>} BY DEF O!DnsParts
      <4> QED BY <3>1, <3>2, <3>3, <3>4, <4>1, <4>2, Zenon
    <3>6. CASE O!PrintSpecialLine \/ O!EndVerboseBlock \/ O!PrintHexDump
      BY <3>1, <3>4, <3>6 DEF O!PrintSpecialLine, O!EndVerboseBlock, O!PrintHexDump
    <3> QED BY <1>5, <3>5, <3>6
  <2> QED BY <1>1, <1>2, <1>3, <2>1, <2>2, <2>3 DEF OutputTypes, OneFormat, TextPlaces, JsonPlaces
<1>6. CASE O!FormatLine \/ O!PrintVerboseBlock
  <2>1. /\ printed' = printed /\ i' = 1 /\ pos' = 0 /\ shown' = {} /\ pc \in {"text", "verbose"}
        /\ pc' \in {"text_flags", "text_line", "verbose_flags", "verbose_end"}
    BY <1>6 DEF O!FormatLine, O!PrintVerboseBlock, O!Goto
  <2>2. i' \in 1 .. 9 /\ pos' \in 0 .. 31 BY <2>1
  <2>3. OutputTypes' BY <1>1, <1>2, <1>3, <2>1, <2>2 DEF OutputTypes, TextPlaces
  <2>4. OneFormat' BY <1>1, <1>2, <1>3, <2>1 DEF OneFormat, TextPlaces, JsonPlaces
  <2> QED BY <2>3, <2>4
<1>7. CASE O!FlagsToString
  <2>1. printed' = printed /\ pc' = pc /\ pc \in {"text_flags", "verbose_flags"} /\ i <= 8
    BY <1>7, Flags DEF O!FlagsToString
  <2>2. /\ i' = i + 1 \/ i' = Len(O!kFlags) + 1
        /\ \/ pos' = pos /\ shown' = shown
           \/ /\ shown' = shown \cup {O!kFlags[i]} /\ O!kFlags[i] \in pkt.flags
              /\ O!FlagFits /\ pos' = pos + (IF shown = {} THEN 3 ELSE 4)
    BY <1>7 DEF O!FlagsToString, O!flags_text
  <2>3. i' \in 1 .. 9 BY <1>2, <2>1, <2>2, Flags
  <2>4. pos' \in 0 .. 31
    <3>1. CASE pos' = pos BY <1>2, <3>1
    <3>2. CASE O!FlagFits /\ shown = {} /\ pos' = pos + 3
      BY <1>2, <3>2 DEF O!FlagFits, O!FLAGS_LEN
    <3>3. CASE O!FlagFits /\ shown # {} /\ pos' = pos + 4
      BY <1>2, <3>3 DEF O!FlagFits, O!FLAGS_LEN
    <3> QED BY <2>2, <3>1, <3>2, <3>3, Zenon
  <2>5. shown' \subseteq pkt.flags BY <1>2, <2>2, Zenon
  <2> QED
    BY <1>1, <1>2, <1>3, <2>1, <2>3, <2>4, <2>5 DEF OutputTypes, OneFormat, TextPlaces, JsonPlaces
<1>8. CASE O!FlagsDone
  <2>1. /\ printed' = printed /\ i' = i /\ pos' = pos /\ shown' = shown
        /\ pc \in {"text_flags", "verbose_flags"} /\ pc' \in {"text_line", "verbose_end"}
    BY <1>8 DEF O!FlagsDone, O!Goto, O!flags_text
  <2> QED BY <1>1, <1>2, <1>3, <2>1 DEF OutputTypes, OneFormat, TextPlaces, JsonPlaces
<1> QED BY <1>4, <1>5, <1>6, <1>7, <1>8

(* Concatenation of tuples of tokens or brackets.                          *)
LEMMA Segments ==
  ASSUME NEW S, NEW t \in Seq(S), NEW v \in Seq(S), NEW w \in Seq(S)
  PROVE  t \o v \in Seq(S) /\ t \o v \o w \in Seq(S)
OBVIOUS

(* What the actions append, for any tokens in place of theirs.             *)
LEMMA TuplesOf ==
  ASSUME NEW S, NEW a \in S, NEW b \in S, NEW c \in S, NEW d \in S, NEW e \in S, NEW k \in S,
         NEW v \in S, NEW z \in S
  PROVE  /\ <<a, k, v, c, k, v, c, k, v, c, k, v>> \in Seq(S)
         /\ <<c, k, a, k, v, c, k, v, b>> \in Seq(S)
         /\ <<c, k, a, k, v, b>> \in Seq(S)
         /\ <<c, k, a, k, d>> \in Seq(S)
         /\ <<v>> \in Seq(S) /\ <<c, v>> \in Seq(S) /\ <<e, b>> \in Seq(S)
         /\ <<c, k, a, k, v, c, k, v, b, b, z>> \in Seq(S)
         /\ <<b, z>> \in Seq(S)
OBVIOUS

LEMMA TokenSegments ==
  /\ <<"lbrace", "key", "value", "comma", "key", "value", "comma", "key", "value",
       "comma", "key", "value">> \in Seq(Token)
  /\ <<"comma", "key", "lbrace", "key", "value", "comma", "key", "value", "rbrace">>
       \in Seq(Token)
  /\ <<"comma", "key", "lbrace", "key", "value", "rbrace">> \in Seq(Token)
  /\ <<"comma", "key", "lbrace", "key", "lbracket">> \in Seq(Token)
  /\ <<"value">> \in Seq(Token) /\ <<"comma", "value">> \in Seq(Token)
  /\ <<"rbracket", "rbrace">> \in Seq(Token)
  /\ <<"comma", "key", "lbrace", "key", "value", "comma", "key", "value",
       "rbrace", "rbrace", "newline">> \in Seq(Token)
  /\ <<"rbrace", "newline">> \in Seq(Token)
BY TuplesOf DEF Token

LEMMA BracketSegments ==
  /\ [n \in 1 .. 12 |-> O!object] \in Seq(Brackets)
  /\ <<O!object, O!object, O!inner, O!inner, O!inner, O!inner, O!inner, O!inner, O!object>>
       \in Seq(Brackets)
  /\ <<O!object, O!object, O!inner, O!inner, O!inner, O!object>> \in Seq(Brackets)
  /\ <<O!object, O!object, O!inner, O!inner, O!list>> \in Seq(Brackets)
  /\ <<O!list>> \in Seq(Brackets) /\ <<O!list, O!list>> \in Seq(Brackets)
  /\ <<O!inner, O!object>> \in Seq(Brackets)
  /\ <<O!object, O!object, O!inner, O!inner, O!inner, O!inner, O!inner, O!inner, O!object,
       <<>>, <<>> >> \in Seq(Brackets)
  /\ << <<>>, <<>> >> \in Seq(Brackets)
<1>1. /\ <<>> \in Brackets /\ O!object \in Brackets /\ O!inner \in Brackets /\ O!list \in Brackets
  BY DEF Brackets
<1> DEFINE none == <<>>
<1> HIDE DEF none
<1>2. none \in Brackets BY <1>1 DEF none
<1>3. [n \in 1 .. 12 |-> O!object] \in Seq(Brackets) BY <1>1
<1>4. <<O!object, O!object, O!inner, O!inner, O!inner, O!inner, O!inner, O!inner, O!object>>
        \in Seq(Brackets)
  BY <1>1
<1>5. /\ <<O!object, O!object, O!inner, O!inner, O!inner, O!object>> \in Seq(Brackets)
      /\ <<O!object, O!object, O!inner, O!inner, O!list>> \in Seq(Brackets)
  BY <1>1
<1>6. /\ <<O!list>> \in Seq(Brackets) /\ <<O!list, O!list>> \in Seq(Brackets)
      /\ <<O!inner, O!object>> \in Seq(Brackets)
  BY <1>1
<1>7. <<O!object, O!object, O!inner, O!inner, O!inner, O!inner, O!inner, O!inner, O!object,
        none, none>> \in Seq(Brackets)
  BY <1>1, <1>2
<1>8. <<none, none>> \in Seq(Brackets) BY <1>2
<1> QED BY <1>3, <1>4, <1>5, <1>6, <1>7, <1>8, Zenon DEF none

(* The actions that print JSON.                                            *)
LEMMA JsonTypes ==
  ASSUME OutputTypes, OneFormat,
         O!JsonHead \/ O!JsonAddresses \/ O!JsonTcp \/ O!JsonFlag \/ O!JsonFlagsEnd \/ O!JsonDns
  PROVE  OutputTypes' /\ OneFormat'
<1>1. pkt' = pkt /\ opts' = opts BY InputStays DEF O!Next
<1>2. /\ pkt' \in O!Packets /\ O!Canonical(pkt') /\ shown \subseteq pkt.flags
      /\ printed \in Seq(Line) /\ json \in Seq(Token) /\ open \in Seq(Brackets)
      /\ i \in 1 .. 9 /\ pos \in 0 .. 31
  BY <1>1 DEF OutputTypes, OneFormat
<1>3. /\ pc \in JsonPlaces /\ pc' \in (JsonPlaces \cup {"done"}) \ {"json_head"}
      /\ printed' = printed /\ pos' = pos /\ shown' = shown
  BY DEF O!JsonHead, O!JsonAddresses, O!JsonTcp, O!JsonFlag, O!JsonFlagsEnd, O!JsonDns, O!Goto,
         O!flags_text, JsonPlaces
<1>4. i' \in 1 .. 9
  <2>1. i' = i \/ i' = 1 \/ (i <= Len(O!kFlags) /\ i' = i + 1)
    BY DEF O!JsonHead, O!JsonAddresses, O!JsonTcp, O!JsonFlag, O!JsonFlagsEnd, O!JsonDns
  <2> QED BY <1>2, <2>1, Flags
<1>5. json' \in Seq(Token) /\ open' \in Seq(Brackets)
  <2>1. CASE O!JsonHead
    BY <2>1, TokenSegments, BracketSegments DEF O!JsonHead
  <2>2. CASE O!JsonAddresses
    <3>1. O!Endpoint \in Seq(Token) /\ O!EndpointOpen \in Seq(Brackets)
      BY TokenSegments, BracketSegments DEF O!Endpoint, O!EndpointOpen
    <3>2. CASE json' = json /\ open' = open BY <1>2, <3>2
    <3>3. CASE /\ json' = json \o O!Endpoint \o O!Endpoint
               /\ open' = open \o O!EndpointOpen \o O!EndpointOpen
      <4>1. json' \in Seq(Token) BY <1>2, <3>1, <3>3, Segments
      <4>2. open' \in Seq(Brackets) BY <1>2, <3>1, <3>3, Segments
      <4> QED BY <4>1, <4>2
    <3> QED BY <2>2, <3>2, <3>3 DEF O!JsonAddresses, O!line
  <2>3. CASE O!JsonTcp
    <3>1. json' \in Seq(Token) BY <1>2, <2>3, TokenSegments, Segments DEF O!JsonTcp
    <3>2. open' \in Seq(Brackets) BY <1>2, <2>3, BracketSegments, Segments DEF O!JsonTcp
    <3> QED BY <3>1, <3>2
  <2>4. CASE O!JsonFlag
    <3>1. \/ json' = json /\ open' = open
          \/ json' = json \o <<"value">> /\ open' = open \o <<O!list>>
          \/ json' = json \o <<"comma", "value">> /\ open' = open \o <<O!list, O!list>>
      BY <2>4, Zenon DEF O!JsonFlag, O!line
    <3>2. json \o <<"value">> \in Seq(Token) /\ json \o <<"comma", "value">> \in Seq(Token)
      BY <1>2, TokenSegments, Segments
    <3>3. open \o <<O!list>> \in Seq(Brackets) /\ open \o <<O!list, O!list>> \in Seq(Brackets)
      BY <1>2, BracketSegments, Segments
    <3> QED BY <1>2, <3>1, <3>2, <3>3, Zenon
  <2>5. CASE O!JsonFlagsEnd
    <3>1. json' \in Seq(Token) BY <1>2, <2>5, TokenSegments, Segments DEF O!JsonFlagsEnd
    <3>2. open' \in Seq(Brackets) BY <1>2, <2>5, BracketSegments, Segments DEF O!JsonFlagsEnd
    <3> QED BY <3>1, <3>2
  <2>6. CASE O!JsonDns
    <3> DEFINE question == <<"comma", "key", "lbrace", "key", "value", "comma", "key", "value",
                             "rbrace", "rbrace", "newline">>
               questionOpen == <<O!object, O!object, O!inner, O!inner, O!inner, O!inner, O!inner,
                                 O!inner, O!object, <<>>, <<>> >>
    <3>1. \/ json' = json \o question /\ open' = open \o questionOpen
          \/ json' = json \o <<"rbrace", "newline">> /\ open' = open \o << <<>>, <<>> >>
      BY <2>6, Zenon DEF O!JsonDns
    <3>2. question \in Seq(Token) /\ questionOpen \in Seq(Brackets)
      BY TokenSegments, BracketSegments, Zenon
    <3> HIDE DEF question, questionOpen
    <3>3. json \o question \in Seq(Token) /\ json \o <<"rbrace", "newline">> \in Seq(Token)
      BY <1>2, <3>2, TokenSegments, Segments, Zenon
    <3>4. open \o questionOpen \in Seq(Brackets) /\ open \o << <<>>, <<>> >> \in Seq(Brackets)
      BY <1>2, <3>2, BracketSegments, Segments, Zenon
    <3> QED BY <3>1, <3>3, <3>4, Zenon
  <2> QED BY <2>1, <2>2, <2>3, <2>4, <2>5, <2>6
<1> QED BY <1>1, <1>2, <1>3, <1>4, <1>5 DEF OutputTypes, OneFormat, TextPlaces, JsonPlaces

-----------------------------------------------------------------------------
\* The flags

LEMMA ShownGrows ==
  ASSUME NEW n \in 1 .. 8
  PROVE  Shown(n + 1) = Shown(n) \cup ({O!kFlags[n]} \cap pkt.flags)
<1>1. \A j \in 1 .. 8 : j < n + 1 <=> (j < n \/ j = n) OBVIOUS
<1> QED BY <1>1, Zenon DEF Shown

(* All flags a packet may have are in the table.                           *)
LEMMA ShownAll == ASSUME OutputTypes PROVE Shown(9) = pkt.flags /\ Shown(1) = {}
<1>1. \A j \in 1 .. 8 : j < 9 /\ ~(j < 1) OBVIOUS
<1>2. pkt.flags \in FlagSets BY PacketKnown
<1>3. \A x \in pkt.flags : \E j \in 1 .. 8 : O!kFlags[j] = x
  BY <1>2, DisplayAssumption, Zenon
<1> QED BY <1>1, <1>3, Zenon DEF Shown

LEMMA FlagsKept ==
  ASSUME OutputTypes, FlagsInv, O!Next PROVE FlagsInv'
<1>1. pkt' = pkt BY InputStays
<1>2. O!transport' = O!transport /\ \A n : Shown(n)' = Shown(n) BY <1>1 DEF O!transport, Shown
<1>3. CASE O!FormatLine \/ O!PrintVerboseBlock
  <2>1. /\ i' = 1 /\ pos' = 0 /\ shown' = {}
        /\ pc' \in {"text_line", "verbose_end"} => O!transport # "TCP"
    BY <1>3 DEF O!FormatLine, O!PrintVerboseBlock, O!Goto
  <2>2. Shown(i)' = {} BY <1>2, <2>1, ShownAll DEF Shown
  <2> QED BY <1>2, <2>1, <2>2 DEF FlagsInv, O!FlagsComplete
<1>4. CASE O!FlagsToString
  <2>1. /\ pc' = pc /\ pc \in {"text_flags", "verbose_flags"} /\ i \in 1 .. 8 /\ pos \in 0 .. 31
    BY <1>4, Flags DEF O!FlagsToString, OutputTypes
  <2>2. /\ shown = Shown(i) /\ (shown = {} => pos = 0) /\ (shown # {} => pos <= 4 * (i - 1) - 1)
    BY <2>1 DEF FlagsInv
  <2>3. O!FlagFits BY <2>1, <2>2 DEF O!FlagFits, O!FLAGS_LEN
  <2>4. Shown(i + 1) = shown \cup ({O!kFlags[i]} \cap pkt.flags) BY <2>1, <2>2, ShownGrows
  <2>5. CASE O!kFlags[i] \notin pkt.flags
    <3>1. i' = i + 1 /\ pos' = pos /\ shown' = shown
      BY <1>4, <2>5 DEF O!FlagsToString, O!flags_text
    <3>2. shown' = Shown(i + 1) BY <2>4, <2>5, <3>1, Zenon
    <3>3. shown # {} => pos <= 4 * (i + 1 - 1) - 1 BY <2>1, <2>2
    <3> QED BY <1>1, <2>1, <2>2, <3>1, <3>2, <3>3 DEF FlagsInv, O!FlagsComplete, Shown
  <2>6. CASE O!kFlags[i] \in pkt.flags
    <3>1. /\ i' = i + 1 /\ pos' = pos + (IF shown = {} THEN 3 ELSE 4)
          /\ shown' = shown \cup {O!kFlags[i]}
      BY <1>4, <2>3, <2>6 DEF O!FlagsToString
    <3>2. shown' = Shown(i + 1) /\ shown' # {} BY <2>4, <2>6, <3>1, Zenon
    <3>3. pos' <= 4 * (i + 1 - 1) - 1 BY <2>1, <2>2, <3>1
    <3> QED BY <1>1, <2>1, <3>1, <3>2, <3>3 DEF FlagsInv, O!FlagsComplete, Shown
  <2> QED BY <2>5, <2>6
<1>5. CASE O!FlagsDone
  <2>1. /\ pc \in {"text_flags", "verbose_flags"} /\ pc' \in {"text_line", "verbose_end"}
        /\ i > 8 /\ shown' = shown
    BY <1>5, Flags DEF O!FlagsDone, O!Goto, O!flags_text
  <2>2. i = 9 BY <2>1 DEF OutputTypes
  <2>3. shown = pkt.flags BY <2>1, <2>2, ShownAll DEF FlagsInv
  <2> QED BY <1>1, <2>1, <2>3 DEF FlagsInv, O!FlagsComplete
<1>6. CASE O!Dispatch \/ O!PrintSpecialLine \/ O!PrintLine \/ O!EndVerboseBlock \/ O!PrintHexDump
  <2>1. pc' \notin {"text_flags", "verbose_flags", "text_line", "verbose_end"}
    BY <1>6 DEF O!Dispatch, O!PrintSpecialLine, O!PrintLine, O!EndVerboseBlock, O!PrintHexDump,
                O!Goto, O!AfterText
  <2> QED BY <2>1 DEF FlagsInv, O!FlagsComplete
<1>7. CASE O!JsonHead \/ O!JsonAddresses \/ O!JsonTcp \/ O!JsonFlag \/ O!JsonFlagsEnd \/ O!JsonDns
  <2>1. pc' \notin {"text_flags", "verbose_flags", "text_line", "verbose_end"}
    BY <1>7 DEF O!JsonHead, O!JsonAddresses, O!JsonTcp, O!JsonFlag, O!JsonFlagsEnd, O!JsonDns,
                O!Goto
  <2> QED BY <2>1 DEF FlagsInv, O!FlagsComplete
<1> QED BY <1>3, <1>4, <1>5, <1>6, <1>7 DEF O!Next

-----------------------------------------------------------------------------
\* What is read

LEMMA DecodedKept ==
  ASSUME OutputTypes, DecodedInv, O!Next PROVE DecodedInv'
<1>1. pkt' = pkt BY InputStays
<1>2. /\ O!Decoded' = O!Decoded /\ O!TopProtocol' = O!TopProtocol /\ O!transport' = O!transport
  BY <1>1 DEF O!Decoded, O!TopProtocol, O!transport, O!net
<1>3. protocol' \in {"none", O!TopProtocol}
  <2>1. protocol' = protocol \/ protocol' = O!TopProtocol
    BY Zenon DEF O!Next, O!Dispatch, O!PrintSpecialLine, O!FormatLine, O!PrintLine, O!FlagsToString,
           O!FlagsDone, O!PrintVerboseBlock, O!EndVerboseBlock, O!PrintHexDump, O!JsonHead,
           O!JsonAddresses, O!JsonTcp, O!JsonFlag, O!JsonFlagsEnd, O!JsonDns
  <2> QED BY <2>1 DEF DecodedInv
<1>4. pc' \in {"json_tcp", "json_flags"} => O!transport = "TCP"
  BY Zenon DEF DecodedInv, O!Next, O!Dispatch, O!PrintSpecialLine, O!FormatLine, O!PrintLine,
         O!FlagsToString, O!FlagsDone, O!PrintVerboseBlock, O!EndVerboseBlock, O!PrintHexDump,
         O!JsonHead, O!JsonAddresses, O!JsonTcp, O!JsonFlag, O!JsonFlagsEnd, O!JsonDns,
         O!Goto, O!AfterText
<1>5. /\ {O!net, O!transport} \ {"UNKNOWN"} \subseteq O!Decoded
      /\ pkt.layers.has_eth => "ETH" \in O!Decoded
      /\ pkt.layers.has_dns /\ pkt.questions > 0 => "question" \in O!Decoded
      /\ pkt.layers.has_dns /\ pkt.answers > 0 => "answer" \in O!Decoded
  BY Zenon DEF O!Decoded
<1>6. O!Addresses \subseteq O!Decoded /\ {O!transport} \cap {"TCP", "UDP"} \subseteq O!Decoded
  <2>1. "IPV4" # "UNKNOWN" /\ "IPV6" # "UNKNOWN" /\ "TCP" # "UNKNOWN" /\ "UDP" # "UNKNOWN"
    OBVIOUS
  <2> QED BY <1>5, <2>1, Zenon DEF O!Addresses
<1>7. ASSUME NEW more, read' = read \cup more, more \subseteq O!Decoded PROVE DecodedInv'
  BY <1>2, <1>3, <1>4, <1>7 DEF DecodedInv, O!ReadsDecoded
<1>8. CASE read' = read BY <1>2, <1>3, <1>4, <1>8 DEF DecodedInv, O!ReadsDecoded
<1>9. CASE O!PrintSpecialLine
  <2>1. read' = read \/ (O!net = "ARP" /\ read' = read \cup {"ARP"})
    BY <1>9 DEF O!PrintSpecialLine
  <2>2. O!net = "ARP" => {"ARP"} \subseteq O!Decoded
    <3>1. "ARP" # "UNKNOWN" OBVIOUS
    <3> QED BY <1>5, <3>1, Zenon
  <2> QED BY <1>7, <1>8, <2>1, <2>2, Zenon
<1>10. CASE O!FormatLine
  <2>1. read' = read \cup (O!Addresses \cup ({O!transport} \ {"UNKNOWN"}))
    BY <1>10, Zenon DEF O!FormatLine
  <2>2. O!Addresses \cup ({O!transport} \ {"UNKNOWN"}) \subseteq O!Decoded BY <1>5, <1>6, Zenon
  <2> QED BY <1>7, <2>1, <2>2, Zenon
<1>11. CASE O!PrintLine
  <2>1. CASE pkt.layers.has_dns /\ read' = read \cup {O!DnsParts[n] : n \in 1 .. Len(O!DnsParts)}
    <3>1. {O!DnsParts[n] : n \in 1 .. Len(O!DnsParts)} \subseteq O!Decoded
      <4>1. CASE O!DnsParts = <<"answer">> /\ pkt.answers > 0 BY <1>5, <2>1, <4>1
      <4>2. CASE O!DnsParts = <<"question">> /\ pkt.questions > 0 BY <1>5, <2>1, <4>2
      <4>3. CASE O!DnsParts = <<>> BY <4>3
      <4> QED BY <4>1, <4>2, <4>3 DEF O!DnsParts
    <3> QED BY <1>7, <2>1, <3>1, Zenon
  <2> QED BY <1>8, <1>11, <2>1, Zenon DEF O!PrintLine
<1>12. CASE O!PrintVerboseBlock
  <2> DEFINE eth == IF pkt.layers.has_eth THEN {"ETH"} ELSE {}
             more == eth \cup O!Addresses \cup ({O!transport} \cap {"TCP", "UDP"})
  <2>1. read' = read \cup more BY <1>12, Zenon DEF O!PrintVerboseBlock
  <2>2. more \subseteq O!Decoded BY <1>5, <1>6, Zenon
  <2> HIDE DEF more
  <2> QED BY <1>7, <2>1, <2>2
<1>13. CASE O!JsonAddresses
  <2> DEFINE more == O!Addresses \cup ({O!transport} \cap {"TCP", "UDP"})
  <2>1. read' = read \/ read' = read \cup more BY <1>13, Zenon DEF O!JsonAddresses
  <2>2. more \subseteq O!Decoded BY <1>6, Zenon
  <2> HIDE DEF more
  <2> QED BY <1>7, <1>8, <2>1, <2>2
<1>14. CASE O!JsonTcp
  <2>1. read' = read \cup {"TCP"} /\ O!transport = "TCP"
    BY <1>14 DEF O!JsonTcp, O!Goto, DecodedInv
  <2>2. {"TCP"} \subseteq O!Decoded BY <1>6, <2>1, Zenon
  <2> QED BY <1>7, <2>1, <2>2, Zenon
<1>15. CASE O!JsonDns
  <2>1. \/ read' = read
        \/ pkt.layers.has_dns /\ pkt.questions > 0 /\ read' = read \cup {"question"}
    BY <1>15, Zenon DEF O!JsonDns
  <2> QED BY <1>5, <1>7, <1>8, <2>1, Zenon
<1>16. CASE \/ O!Dispatch \/ O!FlagsToString \/ O!FlagsDone \/ O!EndVerboseBlock
            \/ O!PrintHexDump \/ O!JsonHead \/ O!JsonFlag \/ O!JsonFlagsEnd
  BY <1>8, <1>16 DEF O!Dispatch, O!FlagsToString, O!FlagsDone, O!EndVerboseBlock,
                     O!PrintHexDump, O!JsonHead, O!JsonFlag, O!JsonFlagsEnd
<1> QED BY <1>9, <1>10, <1>11, <1>12, <1>13, <1>14, <1>15, <1>16 DEF O!Next

-----------------------------------------------------------------------------
\* The JSON line

(* The brackets that are open, and the innermost of them.                  *)
LEMMA BracketFacts ==
  /\ O!object # <<>> /\ O!inner # <<>> /\ O!list # <<>>
  /\ O!Within("lbrace", O!object) /\ O!Within("lbrace", O!inner) /\ O!Within("lbracket", O!list)
  /\ O!object = Append(<<>>, "lbrace") /\ O!inner = Append(O!object, "lbrace")
  /\ O!list = Append(O!inner, "lbracket") /\ O!object = <<"lbrace">>
<1>1. O!object = <<"lbrace">> BY DEF O!object
<1>2. ASSUME NEW b \in Seq(Token), NEW x \in Token
      PROVE  Append(b, x) \in Seq(Token) /\ Append(b, x) # <<>> /\ O!Within(x, Append(b, x))
  BY <1>2 DEF O!Within
<1>3. "lbrace" \in Token /\ "lbracket" \in Token /\ <<>> \in Seq(Token) BY DEF Token
<1>4. O!object \in Seq(Token) /\ O!object # <<>> /\ O!Within("lbrace", O!object)
  BY <1>2, <1>3, Zenon DEF O!object
<1>5. O!inner \in Seq(Token) /\ O!inner # <<>> /\ O!Within("lbrace", O!inner)
  BY <1>2, <1>3, <1>4 DEF O!inner
<1>6. O!list # <<>> /\ O!Within("lbracket", O!list)
  BY <1>2, <1>3, <1>5 DEF O!list
<1> QED BY <1>1, <1>4, <1>5, <1>6 DEF O!object, O!inner, O!list

(* The steps of the grammar the line is made of.                           *)
LEMMA Grammar ==
  /\ \A x \in {"value", "rbrace", "rbracket"} : \A b \in {O!object, O!inner, O!list} :
       O!MayFollow(x, b, "comma", b)
  /\ \A x \in {"lbrace", "comma"} : \A b \in {O!object, O!inner} : O!MayFollow(x, b, "key", b)
  /\ \A b \in {O!object, O!inner} : O!MayFollow("key", b, "value", b)
  /\ O!MayFollow("key", O!object, "lbrace", O!inner)
  /\ O!MayFollow("key", O!inner, "lbracket", O!list)
  /\ \A x \in {"lbracket", "comma"} : O!MayFollow(x, O!list, "value", O!list)
  /\ \A x \in {"value", "lbracket"} : O!MayFollow(x, O!list, "rbracket", O!inner)
  /\ \A x \in {"value", "rbrace", "rbracket"} : O!MayFollow(x, O!inner, "rbrace", O!object)
  /\ \A x \in {"value", "rbrace", "rbracket"} : O!MayFollow(x, O!object, "rbrace", <<>>)
BY BracketFacts DEF O!MayFollow, O!Complete, O!ValueExpected

\* A part of the line: its first m tokens follow each other, from x with the
\* brackets b open behind it to y with the brackets c open behind it.
Part(w, v, m, x, b, y, c) ==
  /\ w \in Seq(Token) /\ v \in Seq(Brackets) /\ Len(v) = Len(w) /\ m \in 1 .. Len(w)
  /\ ChainTo(w, v, m) /\ w[1] = x /\ v[1] = b /\ w[m] = y /\ v[m] = c

\* The line t and the first m tokens of the part w behind it.
Joined(t, b, w, v, m) ==
  /\ ChainTo(t \o w, b \o v, Len(t) + m)
  /\ Len(t \o w) = Len(b \o v) /\ Len(t \o w) = Len(t) + Len(w)
  /\ (t \o w)[1] = t[1] /\ (b \o v)[1] = b[1]
  /\ \A n \in 1 .. Len(w) : (t \o w)[Len(t) + n] = w[n] /\ (b \o v)[Len(t) + n] = v[n]

(* Two parts of a line, where the second may follow the first.             *)
LEMMA ChainConcat ==
  ASSUME NEW t, NEW b, NEW tokens, NEW c, Ends(t, b, tokens, c),
         NEW w, NEW v, NEW m, NEW x, NEW d, NEW y, NEW e, Part(w, v, m, x, d, y, e),
         \A z \in tokens : O!MayFollow(z, c, x, d)
  PROVE  Joined(t, b, w, v, m)
<1>0. /\ t \in Seq(Token) /\ b \in Seq(Brackets) /\ w \in Seq(Token) /\ v \in Seq(Brackets)
      /\ Len(t) >= 1 /\ Len(b) = Len(t) /\ Len(v) = Len(w) /\ m \in 1 .. Len(w)
      /\ Chain(t, b) /\ ChainTo(w, v, m)
      /\ O!MayFollow(t[Len(t)], b[Len(b)], w[1], v[1])
  BY DEF Ends, Part
<1> DEFINE u == t \o w
           o == b \o v
<1>1. /\ Len(t) \in Nat /\ Len(w) \in Nat /\ m \in Nat /\ 1 <= m /\ m <= Len(w) /\ 1 <= Len(t)
  <2>1. Len(t) \in Nat /\ Len(w) \in Nat BY <1>0, LenIsNat, Zenon
  <2>2. m \in 1 .. Len(w) /\ Len(t) >= 1 BY <1>0, Zenon
  <2> QED BY <2>1, <2>2
<1>2. /\ Len(u) = Len(t) + Len(w)
      /\ \A n \in 1 .. Len(t) : u[n] = t[n]
      /\ \A n \in 1 .. Len(w) : u[Len(t) + n] = w[n]
  <2>1. t \in Seq(Token) /\ w \in Seq(Token) BY <1>0, Zenon
  <2>2. IsConcatenation(t, w) BY <2>1, Concatenated, Zenon
  <2> QED BY <2>2, Zenon DEF IsConcatenation
<1>3. /\ Len(o) = Len(b) + Len(v)
      /\ \A n \in 1 .. Len(b) : o[n] = b[n]
      /\ \A n \in 1 .. Len(v) : o[Len(b) + n] = v[n]
  <2>1. b \in Seq(Brackets) /\ v \in Seq(Brackets) BY <1>0, Zenon
  <2>2. IsConcatenation(b, v) BY <2>1, Concatenated, Zenon
  <2> QED BY <2>2, Zenon DEF IsConcatenation
<1>4. /\ \A n \in 1 .. Len(t) : u[n] = t[n] /\ o[n] = b[n]
      /\ \A n \in 1 .. Len(w) : u[Len(t) + n] = w[n] /\ o[Len(t) + n] = v[n]
  <2>1. Len(b) = Len(t) /\ Len(v) = Len(w) BY <1>0, Zenon
  <2> HIDE DEF u, o
  <2> QED BY <1>2, <1>3, <2>1, Zenon
<1> HIDE DEF u, o
<1>5. ASSUME NEW n \in 2 .. Len(t) + m PROVE O!MayFollow(u[n - 1], o[n - 1], u[n], o[n])
  <2>1. CASE n <= Len(t)
    <3>1. n \in 2 .. Len(t) /\ n \in 1 .. Len(t) /\ n - 1 \in 1 .. Len(t) BY <1>1, <2>1
    <3>2. O!MayFollow(t[n - 1], b[n - 1], t[n], b[n]) BY <1>0, <3>1, Zenon DEF Chain, ChainTo
    <3> QED BY <1>4, <3>1, <3>2, Zenon
  <2>2. CASE n = Len(t) + 1
    <3>1. 1 \in 1 .. Len(w) /\ Len(t) \in 1 .. Len(t) /\ n - 1 = Len(t) BY <1>1, <2>2
    <3>2. u[n] = w[1] /\ o[n] = v[1] BY <1>4, <2>2, <3>1, Zenon
    <3>3. u[n - 1] = t[Len(t)] /\ o[n - 1] = b[Len(t)] BY <1>4, <3>1, Zenon
    <3> QED BY <1>0, <3>2, <3>3, Zenon
  <2>3. CASE n > Len(t) + 1
    <3> DEFINE k == n - Len(t)
    <3>1. k \in 2 .. m /\ k \in 1 .. Len(w) /\ n = Len(t) + k BY <1>1, <2>3
    <3>2. k - 1 \in 1 .. Len(w) /\ n - 1 = Len(t) + (k - 1) BY <1>1, <2>3
    <3> HIDE DEF k
    <3>3. u[n] = w[k] /\ o[n] = v[k] BY <1>4, <3>1, Zenon
    <3>4. u[n - 1] = w[k - 1] /\ o[n - 1] = v[k - 1] BY <1>4, <3>2, Zenon
    <3>5. O!MayFollow(w[k - 1], v[k - 1], w[k], v[k]) BY <1>0, <3>1, Zenon DEF ChainTo
    <3> QED BY <3>3, <3>4, <3>5, Zenon
  <2>4. n <= Len(t) \/ n = Len(t) + 1 \/ n > Len(t) + 1 BY <1>1
  <2> QED BY <2>1, <2>2, <2>3, <2>4, Zenon
<1>6. ChainTo(u, o, Len(t) + m) BY <1>5, Zenon DEF ChainTo
<1>7. 1 \in 1 .. Len(t) BY <1>1
<1>8. u[1] = t[1] /\ o[1] = b[1] BY <1>4, <1>7, Zenon
<1>9. Len(u) = Len(o) BY <1>0, <1>2, <1>3, Zenon
<1> QED BY <1>2, <1>4, <1>6, <1>8, <1>9, Zenon DEF Joined, u, o

LEMMA HeadPart ==
  Part(<<"lbrace", "key", "value", "comma", "key", "value", "comma", "key", "value",
         "comma", "key", "value">>, [n \in 1 .. 12 |-> O!object], 12,
       "lbrace", O!object, "value", O!object)
<1> DEFINE w == <<"lbrace", "key", "value", "comma", "key", "value", "comma", "key", "value",
                  "comma", "key", "value">>
           v == [n \in 1 .. 12 |-> O!object]
<1>1. w \in Seq(Token) /\ v \in Seq(Brackets) BY TokenSegments, BracketSegments, Zenon
<1>2. /\ Len(w) = 12 /\ w[1] = "lbrace" /\ w[2] = "key" /\ w[3] = "value" /\ w[4] = "comma"
      /\ w[5] = "key" /\ w[6] = "value" /\ w[7] = "comma" /\ w[8] = "key" /\ w[9] = "value"
      /\ w[10] = "comma" /\ w[11] = "key" /\ w[12] = "value"
  OBVIOUS
<1>3. Len(v) = 12 /\ \A n \in 1 .. 12 : v[n] = O!object OBVIOUS
<1> HIDE DEF w, v
<1>4. ASSUME NEW n \in 2 .. 12 PROVE O!MayFollow(w[n - 1], v[n - 1], w[n], v[n])
  <2>1. v[n - 1] = O!object /\ v[n] = O!object BY <1>3
  <2>2. n \in {2, 3, 4, 5, 6, 7, 8, 9, 10, 11, 12} OBVIOUS
  <2> QED BY <1>2, <2>1, <2>2, Grammar
<1>5. ChainTo(w, v, 12) BY <1>4 DEF ChainTo
<1>6. 12 \in 1 .. Len(w) BY <1>2
<1> QED BY <1>1, <1>2, <1>3, <1>5, <1>6 DEF Part, w, v

(* An endpoint with its port, and one without.                            *)
LEMMA EndpointWithPort ==
  Part(<<"comma", "key", "lbrace", "key", "value", "comma", "key", "value", "rbrace">>,
       <<O!object, O!object, O!inner, O!inner, O!inner, O!inner, O!inner, O!inner,
         O!object>>, 9,
       "comma", O!object, "rbrace", O!object)
<1> DEFINE w == <<"comma", "key", "lbrace", "key", "value", "comma", "key", "value",
                  "rbrace">>
           v == <<O!object, O!object, O!inner, O!inner, O!inner, O!inner, O!inner,
                  O!inner, O!object>>
<1>1. w \in Seq(Token) /\ v \in Seq(Brackets) BY TokenSegments, BracketSegments, Zenon
<1>2. /\ Len(w) = 9 /\ w[1] = "comma" /\ w[2] = "key" /\ w[3] = "lbrace" /\ w[4] = "key"
      /\ w[5] = "value" /\ w[6] = "comma" /\ w[7] = "key" /\ w[8] = "value"
      /\ w[9] = "rbrace"
  OBVIOUS
<1>3. /\ Len(v) = 9 /\ v[1] = O!object /\ v[2] = O!object /\ v[3] = O!inner
      /\ v[4] = O!inner /\ v[5] = O!inner /\ v[6] = O!inner /\ v[7] = O!inner
      /\ v[8] = O!inner /\ v[9] = O!object
  OBVIOUS
<1> HIDE DEF w, v
<1>4. ASSUME NEW n \in 2 .. 9 PROVE O!MayFollow(w[n - 1], v[n - 1], w[n], v[n])
  <2>1. n \in {2, 3, 4, 5, 6, 7, 8, 9} OBVIOUS
  <2> QED BY <1>2, <1>3, <2>1, Grammar
<1>5. ChainTo(w, v, 9) BY <1>4 DEF ChainTo
<1>6. 9 \in 1 .. Len(w) BY <1>2
<1> QED BY <1>1, <1>2, <1>3, <1>5, <1>6 DEF Part, w, v

LEMMA EndpointWithoutPort ==
  Part(<<"comma", "key", "lbrace", "key", "value", "rbrace">>,
       <<O!object, O!object, O!inner, O!inner, O!inner, O!object>>, 6,
       "comma", O!object, "rbrace", O!object)
<1> DEFINE w == <<"comma", "key", "lbrace", "key", "value", "rbrace">>
           v == <<O!object, O!object, O!inner, O!inner, O!inner, O!object>>
<1>1. w \in Seq(Token) /\ v \in Seq(Brackets) BY TokenSegments, BracketSegments, Zenon
<1>2. /\ Len(w) = 6 /\ w[1] = "comma" /\ w[2] = "key" /\ w[3] = "lbrace" /\ w[4] = "key"
      /\ w[5] = "value" /\ w[6] = "rbrace"
  OBVIOUS
<1>3. /\ Len(v) = 6 /\ v[1] = O!object /\ v[2] = O!object /\ v[3] = O!inner
      /\ v[4] = O!inner /\ v[5] = O!inner /\ v[6] = O!object
  OBVIOUS
<1> HIDE DEF w, v
<1>4. ASSUME NEW n \in 2 .. 6 PROVE O!MayFollow(w[n - 1], v[n - 1], w[n], v[n])
  <2>1. n \in {2, 3, 4, 5, 6} OBVIOUS
  <2> QED BY <1>2, <1>3, <2>1, Grammar
<1>5. ChainTo(w, v, 6) BY <1>4 DEF ChainTo
<1>6. 6 \in 1 .. Len(w) BY <1>2
<1> QED BY <1>1, <1>2, <1>3, <1>5, <1>6 DEF Part, w, v

(* The list of flags.                                                      *)
LEMMA TcpPart ==
  Part(<<"comma", "key", "lbrace", "key", "lbracket">>,
       <<O!object, O!object, O!inner, O!inner, O!list>>, 5,
       "comma", O!object, "lbracket", O!list)
<1> DEFINE w == <<"comma", "key", "lbrace", "key", "lbracket">>
           v == <<O!object, O!object, O!inner, O!inner, O!list>>
<1>1. w \in Seq(Token) /\ v \in Seq(Brackets) BY TokenSegments, BracketSegments, Zenon
<1>2. /\ Len(w) = 5 /\ w[1] = "comma" /\ w[2] = "key" /\ w[3] = "lbrace" /\ w[4] = "key"
      /\ w[5] = "lbracket"
  OBVIOUS
<1>3. /\ Len(v) = 5 /\ v[1] = O!object /\ v[2] = O!object /\ v[3] = O!inner
      /\ v[4] = O!inner /\ v[5] = O!list
  OBVIOUS
<1> HIDE DEF w, v
<1>4. ASSUME NEW n \in 2 .. 5 PROVE O!MayFollow(w[n - 1], v[n - 1], w[n], v[n])
  <2>1. n \in {2, 3, 4, 5} OBVIOUS
  <2> QED BY <1>2, <1>3, <2>1, Grammar
<1>5. ChainTo(w, v, 5) BY <1>4 DEF ChainTo
<1>6. 5 \in 1 .. Len(w) BY <1>2
<1> QED BY <1>1, <1>2, <1>3, <1>5, <1>6 DEF Part, w, v

LEMMA FirstFlagPart ==
  Part(<<"value">>,
       <<O!list>>, 1,
       "value", O!list, "value", O!list)
<1> DEFINE w == <<"value">>
           v == <<O!list>>
<1>1. w \in Seq(Token) /\ v \in Seq(Brackets) BY TokenSegments, BracketSegments, Zenon
<1>2. /\ Len(w) = 1 /\ w[1] = "value"
  OBVIOUS
<1>3. /\ Len(v) = 1 /\ v[1] = O!list
  OBVIOUS
<1> HIDE DEF w, v
<1>5. ChainTo(w, v, 1) BY DEF ChainTo
<1>6. 1 \in 1 .. Len(w) BY <1>2
<1> QED BY <1>1, <1>2, <1>3, <1>5, <1>6 DEF Part, w, v

LEMMA OtherFlagPart ==
  Part(<<"comma", "value">>,
       <<O!list, O!list>>, 2,
       "comma", O!list, "value", O!list)
<1> DEFINE w == <<"comma", "value">>
           v == <<O!list, O!list>>
<1>1. w \in Seq(Token) /\ v \in Seq(Brackets) BY TokenSegments, BracketSegments, Zenon
<1>2. /\ Len(w) = 2 /\ w[1] = "comma" /\ w[2] = "value"
  OBVIOUS
<1>3. /\ Len(v) = 2 /\ v[1] = O!list /\ v[2] = O!list
  OBVIOUS
<1> HIDE DEF w, v
<1>4. ASSUME NEW n \in 2 .. 2 PROVE O!MayFollow(w[n - 1], v[n - 1], w[n], v[n])
  <2>1. n \in {2} OBVIOUS
  <2> QED BY <1>2, <1>3, <2>1, Grammar
<1>5. ChainTo(w, v, 2) BY <1>4 DEF ChainTo
<1>6. 2 \in 1 .. Len(w) BY <1>2
<1> QED BY <1>1, <1>2, <1>3, <1>5, <1>6 DEF Part, w, v

LEMMA FlagsEndPart ==
  Part(<<"rbracket", "rbrace">>,
       <<O!inner, O!object>>, 2,
       "rbracket", O!inner, "rbrace", O!object)
<1> DEFINE w == <<"rbracket", "rbrace">>
           v == <<O!inner, O!object>>
<1>1. w \in Seq(Token) /\ v \in Seq(Brackets) BY TokenSegments, BracketSegments, Zenon
<1>2. /\ Len(w) = 2 /\ w[1] = "rbracket" /\ w[2] = "rbrace"
  OBVIOUS
<1>3. /\ Len(v) = 2 /\ v[1] = O!inner /\ v[2] = O!object
  OBVIOUS
<1> HIDE DEF w, v
<1>4. ASSUME NEW n \in 2 .. 2 PROVE O!MayFollow(w[n - 1], v[n - 1], w[n], v[n])
  <2>1. n \in {2} OBVIOUS
  <2> QED BY <1>2, <1>3, <2>1, Grammar
<1>5. ChainTo(w, v, 2) BY <1>4 DEF ChainTo
<1>6. 2 \in 1 .. Len(w) BY <1>2
<1> QED BY <1>1, <1>2, <1>3, <1>5, <1>6 DEF Part, w, v

(* The end of the object; the newline behind it is no token of JSON.       *)
LEMMA QuestionPart ==
  Part(<<"comma", "key", "lbrace", "key", "value", "comma", "key", "value", "rbrace",
         "rbrace", "newline">>,
       <<O!object, O!object, O!inner, O!inner, O!inner, O!inner, O!inner, O!inner,
         O!object, <<>>, <<>> >>, 10,
       "comma", O!object, "rbrace", <<>>)
<1> DEFINE w == <<"comma", "key", "lbrace", "key", "value", "comma", "key", "value",
                  "rbrace", "rbrace", "newline">>
           v == <<O!object, O!object, O!inner, O!inner, O!inner, O!inner, O!inner,
                  O!inner, O!object, <<>>, <<>> >>
<1>1. w \in Seq(Token) /\ v \in Seq(Brackets) BY TokenSegments, BracketSegments, Zenon
<1>2. /\ Len(w) = 11 /\ w[1] = "comma" /\ w[2] = "key" /\ w[3] = "lbrace" /\ w[4] = "key"
      /\ w[5] = "value" /\ w[6] = "comma" /\ w[7] = "key" /\ w[8] = "value"
      /\ w[9] = "rbrace" /\ w[10] = "rbrace" /\ w[11] = "newline"
  OBVIOUS
<1>3. /\ Len(v) = 11 /\ v[1] = O!object /\ v[2] = O!object /\ v[3] = O!inner
      /\ v[4] = O!inner /\ v[5] = O!inner /\ v[6] = O!inner /\ v[7] = O!inner
      /\ v[8] = O!inner /\ v[9] = O!object /\ v[10] = <<>> /\ v[11] = <<>>
  OBVIOUS
<1> HIDE DEF w, v
<1>4. ASSUME NEW n \in 2 .. 10 PROVE O!MayFollow(w[n - 1], v[n - 1], w[n], v[n])
  <2>1. n \in {2, 3, 4, 5, 6, 7, 8, 9, 10} OBVIOUS
  <2> QED BY <1>2, <1>3, <2>1, Grammar
<1>5. ChainTo(w, v, 10) BY <1>4 DEF ChainTo
<1>6. 10 \in 1 .. Len(w) BY <1>2
<1> QED BY <1>1, <1>2, <1>3, <1>5, <1>6 DEF Part, w, v

LEMMA EndPart ==
  Part(<<"rbrace", "newline">>,
       << <<>>, <<>> >>, 1,
       "rbrace", <<>>, "rbrace", <<>>)
<1> DEFINE w == <<"rbrace", "newline">>
           v == << <<>>, <<>> >>
<1>1. w \in Seq(Token) /\ v \in Seq(Brackets) BY TokenSegments, BracketSegments, Zenon
<1>2. /\ Len(w) = 2 /\ w[1] = "rbrace" /\ w[2] = "newline"
  OBVIOUS
<1>3. /\ Len(v) = 2 /\ v[1] = <<>> /\ v[2] = <<>>
  OBVIOUS
<1> HIDE DEF w, v
<1>5. ChainTo(w, v, 1) BY DEF ChainTo
<1>6. 1 \in 1 .. Len(w) BY <1>2
<1> QED BY <1>1, <1>2, <1>3, <1>5, <1>6 DEF Part, w, v

(* A part behind the line so far.                                          *)
LEMMA PartFollows ==
  ASSUME NEW t, NEW b, NEW tokens, NEW c, Ends(t, b, tokens, c),
         NEW w, NEW v, NEW x, NEW d, NEW y, NEW e, Part(w, v, Len(w), x, d, y, e),
         \A z \in tokens : O!MayFollow(z, c, x, d)
  PROVE  Ends(t \o w, b \o v, {y}, e)
<1>1. /\ t \in Seq(Token) /\ b \in Seq(Brackets) /\ w \in Seq(Token) /\ v \in Seq(Brackets)
      /\ Len(t) >= 1 /\ Len(b) = Len(t) /\ Len(v) = Len(w) /\ Len(w) \in 1 .. Len(w)
      /\ Chain(t, b) /\ ChainTo(w, v, Len(w)) /\ t[1] = "lbrace" /\ b[1] = O!object
      /\ w[Len(w)] = y /\ v[Len(w)] = e /\ O!MayFollow(t[Len(t)], b[Len(b)], w[1], v[1])
  BY DEF Ends, Part
<1>2. /\ ChainTo(t \o w, b \o v, Len(t) + Len(w))
      /\ Len(t \o w) = Len(b \o v) /\ Len(t \o w) = Len(t) + Len(w)
      /\ (t \o w)[1] = t[1] /\ (b \o v)[1] = b[1]
      /\ \A n \in 1 .. Len(w) : (t \o w)[Len(t) + n] = w[n] /\ (b \o v)[Len(t) + n] = v[n]
  <2>1. Joined(t, b, w, v, Len(w)) BY ChainConcat
  <2> QED BY <2>1, Zenon DEF Joined
<1>3. t \o w \in Seq(Token) /\ b \o v \in Seq(Brackets) BY <1>1, Segments
<1>4. Len(t) \in Nat /\ Len(w) \in Nat /\ Len(t) >= 1 BY <1>1, LenIsNat, Zenon
<1>5. Len(t \o w) >= 1 BY <1>2, <1>4
<1>6. (t \o w)[Len(t) + Len(w)] = y /\ (b \o v)[Len(t) + Len(w)] = e BY <1>1, <1>2, Zenon
<1> QED BY <1>1, <1>2, <1>3, <1>5, <1>6, Zenon DEF Ends, Chain

(* The two endpoints.                                                      *)
LEMMA EndpointPart ==
  Part(O!Endpoint, O!EndpointOpen, Len(O!Endpoint), "comma", O!object, "rbrace", O!object)
<1>1. CASE O!HasPort
  <2>1. Part(O!Endpoint, O!EndpointOpen, 9, "comma", O!object, "rbrace", O!object)
    BY <1>1, EndpointWithPort DEF O!Endpoint, O!EndpointOpen
  <2>2. Len(O!Endpoint) = 9 BY <1>1 DEF O!Endpoint
  <2> QED BY <2>1, <2>2
<1>2. CASE ~O!HasPort
  <2>1. Part(O!Endpoint, O!EndpointOpen, 6, "comma", O!object, "rbrace", O!object)
    BY <1>2, EndpointWithoutPort DEF O!Endpoint, O!EndpointOpen
  <2>2. Len(O!Endpoint) = 6 BY <1>2 DEF O!Endpoint
  <2> QED BY <2>1, <2>2
<1> QED BY <1>1, <1>2

(* The end of the line.                                                    *)
LEMMA LineEnds ==
  ASSUME OneFormat, pc = "json_dns", pc' = "done", printed' = printed,
         Ends(json, open, {"value", "rbrace"}, O!object),
         NEW w, NEW v, NEW m, NEW x, NEW d, NEW y, Part(w, v, m, x, d, y, <<>>),
         Len(w) = m + 1, w[m + 1] = "newline",
         \A z \in {"value", "rbrace"} : O!MayFollow(z, O!object, x, d),
         json' = json \o w, open' = open \o v
  PROVE  O!JsonLineValid'
<1>1. printed' = <<>>
  BY DEF OneFormat, JsonPlaces
<1>2. /\ json \in Seq(Token) /\ open \in Seq(Brackets) /\ w \in Seq(Token) /\ v \in Seq(Brackets)
      /\ Len(json) >= 1 /\ Len(open) = Len(json) /\ Len(v) = Len(w) /\ m \in 1 .. Len(w)
      /\ Chain(json, open) /\ ChainTo(w, v, m) /\ json[1] = "lbrace" /\ open[1] = O!object
      /\ v[m] = <<>> /\ O!MayFollow(json[Len(json)], open[Len(open)], w[1], v[1])
  BY DEF Ends, Part
<1>3. m \in Int /\ 1 <= m /\ Len(json) \in Nat /\ Len(json) >= 1
  <2>1. m \in 1 .. m + 1 /\ Len(json) >= 1 /\ Len(json) \in Nat BY <1>2, LenIsNat, Zenon
  <2> QED BY <2>1
<1>4. m \in 1 .. Len(w) /\ m + 1 \in 1 .. Len(w) BY <1>3
<1>5. /\ ChainTo(json', open', Len(json) + m)
      /\ Len(json') = Len(open') /\ Len(json') = Len(json) + Len(w)
      /\ json'[1] = json[1] /\ open'[1] = open[1]
      /\ json'[Len(json) + (m + 1)] = "newline" /\ open'[Len(json) + m] = <<>>
  <2>1. Joined(json, open, w, v, m) BY ChainConcat
  <2> QED BY <1>2, <1>4, <2>1, Zenon DEF Joined
<1>6. /\ Len(json') = Len(json) + (m + 1) /\ Len(json') - 1 = Len(json) + m /\ Len(json') > 2
  BY <1>3, <1>5
<1>7. \A n \in 2 .. Len(json') - 1 : O!MayFollow(json'[n - 1], open'[n - 1], json'[n], open'[n])
  BY <1>5, <1>6, Zenon DEF ChainTo
<1>8. json'[1] = "lbrace" /\ open'[1] = <<"lbrace">> BY <1>2, <1>5, BracketFacts, Zenon
<1>9. open'[Len(json') - 1] = <<>> /\ json'[Len(json')] = "newline" BY <1>5, <1>6, Zenon
<1> QED BY <1>1, <1>5, <1>6, <1>7, <1>8, <1>9, Zenon DEF O!JsonLineValid

LEMMA LineKept ==
  ASSUME OutputTypes, OneFormat, LineInv, O!Next PROVE LineInv'
<1>1. opts' = opts BY InputStays
<1>2. CASE O!Dispatch
  <2>1. pc' \notin JsonPlaces \ {"json_head"} /\ (pc' = "done" => opts.format # "json")
    BY <1>2 DEF O!Dispatch, O!Goto, JsonPlaces
  <2> QED BY <1>1, <2>1 DEF LineInv, O!JsonLineValid, JsonPlaces
<1>3. CASE O!PrintSpecialLine \/ O!FormatLine \/ O!PrintLine \/ O!FlagsToString
           \/ O!FlagsDone \/ O!PrintVerboseBlock \/ O!EndVerboseBlock \/ O!PrintHexDump
  <2>1. pc \in TextPlaces /\ pc' \notin JsonPlaces
    BY <1>3 DEF O!PrintSpecialLine, O!FormatLine, O!PrintLine, O!FlagsToString, O!FlagsDone,
                O!PrintVerboseBlock, O!EndVerboseBlock, O!PrintHexDump, O!Goto, O!AfterText,
                TextPlaces, JsonPlaces
  <2>2. opts.format = "text" BY <2>1 DEF OneFormat
  <2> QED BY <1>1, <2>1, <2>2 DEF LineInv, O!JsonLineValid, JsonPlaces
<1>4. ASSUME NEW tokens, tokens \subseteq {"value", "rbrace"},
             Ends(json', open', tokens, O!object),
             pc' \in {"json_addresses", "json_tcp", "json_dns"}
      PROVE  LineInv'
  BY <1>4, Zenon DEF LineInv, Ends, O!JsonLineValid
<1>5. ASSUME NEW tokens, tokens \subseteq {"value", "lbracket"},
             Ends(json', open', tokens, O!list), pc' = "json_flags"
      PROVE  LineInv'
  BY <1>5, Zenon DEF LineInv, Ends, O!JsonLineValid
<1>6. CASE O!JsonHead
  <2> DEFINE w == <<"lbrace", "key", "value", "comma", "key", "value", "comma", "key", "value",
                    "comma", "key", "value">>
             v == [n \in 1 .. 12 |-> O!object]
  <2>1. json' = w /\ open' = v /\ pc' = "json_addresses" BY <1>6, Zenon DEF O!JsonHead, O!Goto
  <2>2. Part(w, v, 12, "lbrace", O!object, "value", O!object) BY HeadPart, Zenon
  <2>3. Len(w) = 12 OBVIOUS
  <2> HIDE DEF w, v
  <2>4. Ends(w, v, {"value"}, O!object) BY <2>2, <2>3 DEF Part, Ends, Chain
  <2> QED BY <1>4, <2>1, <2>4
<1>7. CASE O!JsonAddresses
  <2>1. Ends(json, open, {"value", "rbrace"}, O!object) /\ pc' \in {"json_tcp", "json_dns"}
    BY <1>7 DEF O!JsonAddresses, O!Goto, LineInv
  <2>2. CASE json' = json /\ open' = open BY <1>4, <2>1, <2>2
  <2>3. CASE /\ json' = json \o O!Endpoint \o O!Endpoint
             /\ open' = open \o O!EndpointOpen \o O!EndpointOpen
    <3>1. \A z \in {"value", "rbrace"} : O!MayFollow(z, O!object, "comma", O!object) BY Grammar
    <3>2. Ends(json \o O!Endpoint, open \o O!EndpointOpen, {"rbrace"}, O!object)
      BY <2>1, <3>1, EndpointPart, PartFollows
    <3>3. \A z \in {"rbrace"} : O!MayFollow(z, O!object, "comma", O!object) BY <3>1
    <3> DEFINE t == json \o O!Endpoint
               b == open \o O!EndpointOpen
    <3> HIDE DEF t, b
    <3>4. Ends(t \o O!Endpoint, b \o O!EndpointOpen, {"rbrace"}, O!object)
      <4>1. Ends(t, b, {"rbrace"}, O!object) BY <3>2, Zenon DEF t, b
      <4> QED BY <3>3, <4>1, EndpointPart, PartFollows
    <3>5. Ends(json', open', {"rbrace"}, O!object) BY <2>3, <3>4, Zenon DEF t, b
    <3> QED BY <1>4, <2>1, <3>5
  <2> QED BY <1>7, <2>2, <2>3 DEF O!JsonAddresses, O!line
<1>8. CASE O!JsonTcp
  <2> DEFINE w == <<"comma", "key", "lbrace", "key", "lbracket">>
             v == <<O!object, O!object, O!inner, O!inner, O!list>>
  <2>1. Ends(json, open, {"value", "rbrace"}, O!object) /\ pc' = "json_flags"
    BY <1>8 DEF O!JsonTcp, O!Goto, LineInv
  <2>2. json' = json \o w /\ open' = open \o v BY <1>8, Zenon DEF O!JsonTcp
  <2>3. Part(w, v, Len(w), "comma", O!object, "lbracket", O!list)
    <3>1. Len(w) = 5 OBVIOUS
    <3> QED BY <3>1, TcpPart
  <2>4. \A z \in {"value", "rbrace"} : O!MayFollow(z, O!object, "comma", O!object) BY Grammar
  <2> HIDE DEF w, v
  <2>5. Ends(json', open', {"lbracket"}, O!list) BY <2>1, <2>2, <2>3, <2>4, PartFollows
  <2> QED BY <1>5, <2>1, <2>5
<1>9. CASE O!JsonFlag
  <2>1. Ends(json, open, {"value", "lbracket"}, O!list) /\ pc' = "json_flags"
    BY <1>9 DEF O!JsonFlag, LineInv
  <2>2. CASE json' = json /\ open' = open BY <1>5, <2>1, <2>2
  <2>3. CASE O!First /\ json' = json \o <<"value">> /\ open' = open \o <<O!list>>
    <3> DEFINE w == <<"value">>
               v == <<O!list>>
    <3>1. Ends(json, open, {"lbracket"}, O!list) BY <2>1, <2>3 DEF Ends, O!First
    <3>2. Part(w, v, Len(w), "value", O!list, "value", O!list)
      <4>1. Len(w) = 1 OBVIOUS
      <4> QED BY <4>1, FirstFlagPart, Zenon
    <3>3. \A z \in {"lbracket"} : O!MayFollow(z, O!list, "value", O!list) BY Grammar
    <3>4. json' = json \o w /\ open' = open \o v BY <2>3, Zenon
    <3> HIDE DEF w, v
    <3>5. Ends(json', open', {"value"}, O!list) BY <3>1, <3>2, <3>3, <3>4, PartFollows
    <3> QED BY <1>5, <2>1, <3>5
  <2>4. CASE /\ ~O!First /\ json' = json \o <<"comma", "value">>
             /\ open' = open \o <<O!list, O!list>>
    <3> DEFINE w == <<"comma", "value">>
               v == <<O!list, O!list>>
    <3>1. Ends(json, open, {"value"}, O!list) BY <2>1, <2>4 DEF Ends, O!First
    <3>2. Part(w, v, Len(w), "comma", O!list, "value", O!list)
      <4>1. Len(w) = 2 OBVIOUS
      <4> QED BY <4>1, OtherFlagPart, Zenon
    <3>3. \A z \in {"value"} : O!MayFollow(z, O!list, "comma", O!list) BY Grammar
    <3>4. json' = json \o w /\ open' = open \o v BY <2>4, Zenon
    <3> HIDE DEF w, v
    <3>5. Ends(json', open', {"value"}, O!list) BY <3>1, <3>2, <3>3, <3>4, PartFollows
    <3> QED BY <1>5, <2>1, <3>5
  <2> QED BY <1>9, <2>2, <2>3, <2>4, Zenon DEF O!JsonFlag, O!line
<1>10. CASE O!JsonFlagsEnd
  <2> DEFINE w == <<"rbracket", "rbrace">>
             v == <<O!inner, O!object>>
  <2>1. Ends(json, open, {"value", "lbracket"}, O!list) /\ pc' = "json_dns"
    BY <1>10 DEF O!JsonFlagsEnd, O!Goto, LineInv
  <2>2. json' = json \o w /\ open' = open \o v BY <1>10, Zenon DEF O!JsonFlagsEnd
  <2>3. Part(w, v, Len(w), "rbracket", O!inner, "rbrace", O!object)
    <3>1. Len(w) = 2 OBVIOUS
    <3> QED BY <3>1, FlagsEndPart, Zenon
  <2>4. \A z \in {"value", "lbracket"} : O!MayFollow(z, O!list, "rbracket", O!inner) BY Grammar
  <2> HIDE DEF w, v
  <2>5. Ends(json', open', {"rbrace"}, O!object) BY <2>1, <2>2, <2>3, <2>4, PartFollows
  <2> QED BY <1>4, <2>1, <2>5
<1>11. CASE O!JsonDns
  <2> DEFINE w == <<"comma", "key", "lbrace", "key", "value", "comma", "key", "value",
                    "rbrace", "rbrace", "newline">>
             v == <<O!object, O!object, O!inner, O!inner, O!inner, O!inner, O!inner, O!inner,
                    O!object, <<>>, <<>> >>
             x == <<"rbrace", "newline">>
             d == << <<>>, <<>> >>
  <2>1. /\ Ends(json, open, {"value", "rbrace"}, O!object)
        /\ pc = "json_dns" /\ pc' = "done" /\ printed' = printed
    BY <1>11 DEF O!JsonDns, O!Goto, LineInv
  <2>2. \/ json' = json \o w /\ open' = open \o v
        \/ json' = json \o x /\ open' = open \o d
    BY <1>11, Zenon DEF O!JsonDns
  <2>3. /\ Part(w, v, 10, "comma", O!object, "rbrace", <<>>)
        /\ Part(x, d, 1, "rbrace", <<>>, "rbrace", <<>>)
    BY QuestionPart, EndPart, Zenon
  <2>4. Len(w) = 10 + 1 /\ w[10 + 1] = "newline" OBVIOUS
  <2>5. Len(x) = 1 + 1 /\ x[1 + 1] = "newline" OBVIOUS
  <2>6. /\ \A z \in {"value", "rbrace"} : O!MayFollow(z, O!object, "comma", O!object)
        /\ \A z \in {"value", "rbrace"} : O!MayFollow(z, O!object, "rbrace", <<>>)
    BY Grammar
  <2> HIDE DEF w, v, x, d
  <2>7. O!JsonLineValid'
    <3>1. CASE json' = json \o w /\ open' = open \o v
      BY <2>1, <2>3, <2>4, <2>6, <3>1, LineEnds, Zenon
    <3>2. CASE json' = json \o x /\ open' = open \o d
      BY <2>1, <2>3, <2>5, <2>6, <3>2, LineEnds, Zenon
    <3> QED BY <2>2, <3>1, <3>2
  <2> QED BY <2>1, <2>7 DEF LineInv
<1> QED BY <1>2, <1>3, <1>6, <1>7, <1>8, <1>9, <1>10, <1>11 DEF O!Next

-----------------------------------------------------------------------------
\* ns_output_packet()

LEMMA OutputStep == ASSUME OutputInv, O!Next PROVE OutputInv'
<1>1. OutputTypes' /\ OneFormat' BY TextTypes, JsonTypes DEF OutputInv, O!Next
<1> QED BY <1>1, FlagsKept, DecodedKept, LineKept DEF OutputInv

LEMMA OutputReads ==
  ASSUME OutputInv
  PROVE  /\ O!TypeOK /\ O!ReadsDecoded /\ O!FlagsComplete /\ O!ProtocolIsHighest
         /\ O!JsonLineValid
<1>1. O!TypeOK BY DEF OutputInv, OutputTypes, OneFormat, Line, Token, O!TypeOK, O!FLAGS_LEN
<1>2. O!ReadsDecoded /\ O!FlagsComplete /\ O!JsonLineValid
  BY DEF OutputInv, FlagsInv, DecodedInv, LineInv
<1>3. O!ProtocolIsHighest
  <2> SUFFICES ASSUME protocol = O!TopProtocol PROVE O!ProtocolIsHighest
    BY DEF OutputInv, DecodedInv, O!ProtocolIsHighest
  <2>1. /\ O!net \in {"UNKNOWN", "IPV4", "IPV6", "ARP"}
        /\ O!transport \in {"UNKNOWN", "TCP", "UDP", "ICMP", "ICMPV6"}
        /\ O!transport # "UNKNOWN" => O!net \in {"IPV4", "IPV6"}
        /\ pkt.layers.has_dns => O!transport \in {"TCP", "UDP"}
    BY PacketKnown DEF OutputInv
  <2>2. /\ pkt.layers.has_dns => "DNS" \in O!Decoded
        /\ O!transport # "UNKNOWN" => O!transport \in O!Decoded
        /\ O!net # "UNKNOWN" => O!net \in O!Decoded
    BY Zenon DEF O!Decoded
  <2> QED BY <2>1, <2>2 DEF O!TopProtocol, O!ProtocolIsHighest
<1> QED BY <1>1, <1>2, <1>3

OutputCall == function = "ns_output_packet" => OutputInv

LEMMA OutputCallInit == DisplayInit => OutputCall
BY OutputInit DEF DisplayInit, OutputCall

LEMMA OutputCallStep ==
  ASSUME OutputCall, [DisplayNext]_displayVars PROVE OutputCall'
<1> SUFFICES ASSUME function' = "ns_output_packet" PROVE OutputInv'
  BY DEF OutputCall
<1>1. CASE OutputPacket
  BY <1>1, OutputStep DEF OutputPacket, OutputCall
<1>2. CASE UNCHANGED displayVars
  <2>1. OutputInv /\ UNCHANGED <<pc, i, pos, pkt, opts, printed, json, open, protocol, shown, read>>
    BY <1>2 DEF OutputCall, displayVars, place, ofOutput
  <2>2. OutputTypes' BY <2>1 DEF OutputInv, OutputTypes
  <2>3. OneFormat' BY <2>1 DEF OutputInv, OneFormat
  <2>4. FlagsInv'
    BY <2>1 DEF OutputInv, FlagsInv, Shown, O!FlagsComplete, O!transport
  <2>5. DecodedInv'
    BY <2>1 DEF OutputInv, DecodedInv, O!ReadsDecoded, O!Decoded, O!TopProtocol, O!net, O!transport
  <2>6. LineInv' BY <2>1, Zenon DEF OutputInv, LineInv, Ends, O!JsonLineValid
  <2> QED BY <2>2, <2>3, <2>4, <2>5, <2>6 DEF OutputInv
<1> QED BY <1>1, <1>2 DEF DisplayNext, WriteEscaped, DumpHex, FormatIpv6

(* Whatever the packet and the options: only members that were decoded are *)
(* read, flags[32] holds every flag of the packet, and "protocol" names    *)
(* the highest layer (output.c:45-53, 159, 201-212, 383-391).             *)
THEOREM OutputIsAsDecoded == DisplaySpec => []TextAsDecoded
<1>1. OutputCall /\ [DisplayNext]_displayVars => OutputCall' BY OutputCallStep
<1>2. OutputCall => TextAsDecoded BY OutputReads DEF OutputCall, TextAsDecoded
<1> QED BY OutputCallInit, <1>1, <1>2, PTL DEF DisplaySpec

(* The JSON line is one object: each token may follow the one before it,   *)
(* each bracket is closed by its own, and the last of them at the end of   *)
(* the line (output.c:315-394).                                            *)
THEOREM LineIsOneObject == DisplaySpec => []JsonLineValid
<1>1. OutputCall /\ [DisplayNext]_displayVars => OutputCall' BY OutputCallStep
<1>2. OutputCall => JsonLineValid BY OutputReads DEF OutputCall, JsonLineValid
<1> QED BY OutputCallInit, <1>1, <1>2, PTL DEF DisplaySpec
=============================================================================
