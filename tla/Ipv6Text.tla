------------------------------ MODULE Ipv6Text ------------------------------
(***************************************************************************)
(* ns_format_ipv6() of src/src/util.c: the search for the longest run of   *)
(* zero groups, and the text with "::" in its place.  The text matters     *)
(* beyond the display: stats.c tells conversations apart by it.            *)
(*                                                                         *)
(* A text is a sequence of groups (a number stands for its hexadecimal     *)
(* digits) and colons.                                                     *)
(***************************************************************************)
EXTENDS Integers, Sequences

CONSTANT Group    \* values of the 16-bit groups

VARIABLES
  groups,
  pc,         \* "search", "text" or "done"
  i,
  best_start, best_len, cur_start, cur_len,
  tmp,        \* the text
  pos         \* its length

search == <<best_start, best_len, cur_start, cur_len>>
text == <<tmp, pos>>
vars == <<groups, pc, i, search, text>>

Init ==
  /\ groups \in [0 .. 7 -> Group]
  /\ pc = "search" /\ i = 0
  /\ best_start = -1 /\ best_len = 0 /\ cur_start = -1 /\ cur_len = 0
  /\ tmp = <<>> /\ pos = 0

Longer(n) == n > best_len

Search ==
  /\ pc = "search" /\ i < 8
  /\ \/ /\ groups[i] = 0
        /\ cur_start' = IF cur_start < 0 THEN i ELSE cur_start
        /\ cur_len' = cur_len + 1
        /\ \/ Longer(cur_len + 1) /\ best_len' = cur_len + 1 /\ best_start' = cur_start'
           \/ ~Longer(cur_len + 1) /\ UNCHANGED <<best_start, best_len>>
     \/ /\ groups[i] # 0
        /\ cur_start' = -1 /\ cur_len' = 0
        /\ UNCHANGED <<best_start, best_len>>
  /\ i' = i + 1
  /\ UNCHANGED <<groups, pc, text>>

\* A single zero group is not shortened.
EndSearch ==
  /\ pc = "search" /\ i = 8
  /\ \/ best_len < 2 /\ best_start' = -1 /\ best_len' = 0
     \/ best_len >= 2 /\ UNCHANGED <<best_start, best_len>>
  /\ pc' = "text" /\ i' = 0
  /\ UNCHANGED <<groups, cur_start, cur_len, text>>

-----------------------------------------------------------------------------
colon == -1

Digits(g) == IF g < 16 THEN 1 ELSE IF g < 256 THEN 2 ELSE IF g < 4096 THEN 3 ELSE 4

BehindRun == i + best_len

WriteDoubleColon ==
  /\ pc = "text" /\ i < 8 /\ i = best_start
  /\ tmp' = Append(Append(tmp, colon), colon) /\ pos' = pos + 2
  /\ i' = BehindRun
  /\ UNCHANGED <<groups, pc, search>>

\* Mutant: a colon also behind "::".
NeedsColonAfterRun == i # 0

NeedsColon == i # 0 /\ i # best_start + best_len

WriteGroup ==
  /\ pc = "text" /\ i < 8 /\ i # best_start
  /\ tmp' = Append(IF NeedsColon THEN Append(tmp, colon) ELSE tmp, groups[i])
  /\ pos' = pos + (IF NeedsColon THEN 1 ELSE 0) + Digits(groups[i])
  /\ i' = i + 1
  /\ UNCHANGED <<groups, pc, search>>

EndText ==
  /\ pc = "text" /\ i >= 8
  /\ tmp' = IF pos = 0 THEN <<colon, colon>> ELSE tmp
  /\ pos' = IF pos = 0 THEN 2 ELSE pos
  /\ pc' = "done"
  /\ UNCHANGED <<groups, i, search>>

Next == Search \/ EndSearch \/ WriteDoubleColon \/ WriteGroup \/ EndText

Spec == Init /\ [][Next]_vars

-----------------------------------------------------------------------------
(* Type invariant; the loop over the groups ends at the eighth.            *)
TypeOK ==
  /\ groups \in [0 .. 7 -> Group] /\ pc \in {"search", "text", "done"}
  /\ i \in 0 .. 8
  /\ best_start \in -1 .. 7 /\ best_len \in 0 .. 8
  /\ cur_start \in -1 .. 7 /\ cur_len \in 0 .. 8
  /\ tmp \in Seq({colon} \cup Group) /\ pos \in Nat

(* No text is longer than the 45 bytes tmp[46] and the callers have room   *)
(* for.                                                                    *)
TextFits == pos <= 45

Zeros(a, n) == a + n <= 8 /\ \A j \in a .. a + n - 1 : groups[j] = 0

(* What is left out is the longest run of two zero groups or more, the     *)
(* first if there are several, and "::" is there only for such a run.      *)
LeftmostLongest ==
  pc = "text" =>
    \/ best_start = -1 /\ best_len = 0 /\ \A a \in 0 .. 6 : ~Zeros(a, 2)
    \/ /\ best_len >= 2 /\ Zeros(best_start, best_len)
       /\ \A a \in 0 .. 7 : ~Zeros(a, best_len + 1)
       /\ \A a \in 0 .. best_start - 1 : ~Zeros(a, best_len)

\* How a text is read: without "::" the groups are at its odd places; with it
\* those in front are counted from the beginning, those behind from the end,
\* and all between them are zero.
Runs(t) == {n \in 1 .. Len(t) - 1 : t[n] = colon /\ t[n + 1] = colon}
Front(n) == 2 * n + 1
Back(t, n) == Len(t) - 2 * (7 - n)
GroupRead(t, at, n) == IF Front(n) < at THEN t[Front(n)]
                       ELSE IF Back(t, n) > at + 1 THEN t[Back(t, n)] ELSE 0

\* A well-formed text that is read as the address g.
Denotes(t, g) ==
  /\ \A a, b \in Runs(t) : a = b
  /\ \A n \in 1 .. Len(t) - 1 : t[n] = colon \/ t[n + 1] = colon
  /\ Runs(t) = {} => Len(t) = 15 /\ \A n \in 0 .. 7 : g[n] = t[Front(n)]
  /\ \A at \in Runs(t), n \in 0 .. 7 : g[n] = GroupRead(t, at, n)

(* The text reads back as the address it was made from: "::" occurs at     *)
(* most once, groups are apart, and different addresses have different     *)
(* texts, on which the keys of the flow table rely (stats.c:33-34).        *)
ReadsBack == pc = "done" => Denotes(tmp, groups)
=============================================================================
