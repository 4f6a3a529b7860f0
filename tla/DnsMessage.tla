----------------------------- MODULE DnsMessage -----------------------------
(***************************************************************************)
(* ns_parse_dns() of src/src/protocols/dns.c, as packet.c calls it on the  *)
(* bytes behind a UDP or TCP header: the loops over questions and answers, *)
(* and the text made of an answer's data.                                  *)
(*                                                                         *)
(* Every byte that matters here is read once, so values are chosen when    *)
(* they are read.  Names are read by ns_dns_decode_name(), module DnsName: *)
(* it fails, or the name takes at least one byte and ends in the message,  *)
(* and its text fits in the buffer.                                        *)
(***************************************************************************)
EXTENDS Integers

CONSTANTS
  Length,                 \* lengths of the bytes behind the transport header
  Word,                   \* 16-bit values that occur in the header
  NameSize,               \* bytes a name takes where it is written
  NameText,               \* lengths of a name's text
  RdLength,               \* 16-bit values of rdlength
  SegmentLength,          \* 8-bit lengths of the strings of a TXT record
  NS_DNS_MAX_NAME,        \* 255 in dns.h
  NS_DNS_MAX_QUESTIONS,   \* 4
  NS_DNS_MAX_ANSWERS      \* 12

ASSUME DnsMessageAssumption ==
  /\ Length \subseteq Nat /\ Word \subseteq Nat
  /\ NameSize \subseteq Nat \ {0} /\ NameText \subseteq Nat \ {0}
  /\ RdLength \subseteq Nat /\ SegmentLength \subseteq Nat
  /\ NS_DNS_MAX_NAME \in Nat /\ NS_DNS_MAX_NAME >= 38
  /\ NS_DNS_MAX_QUESTIONS \in Nat /\ NS_DNS_MAX_ANSWERS \in Nat

NS_DNS_HEADER_LEN == 12
NS_DNS_MAX_RDATA_TEXT == NS_DNS_MAX_NAME + 8

VARIABLES
  pc,
  length,
  tcp, sent,              \* the transport; words 2 to 4 of the header as sent:
                          \* flags, qdcount and ancount
  question_count, answer_count, decoded_question_count, decoded_answer_count,
  i, offset,
  questions, answers,     \* history: slots of the two arrays written to
  type, rdata_offset, rdlength, pos,
  text,                   \* length of the answer's rdata_text
  cut,                    \* history: part of it did not fit
  has_dns,
  extent                  \* history: end of the furthest read

message == <<length, tcp, sent>>
counts == <<question_count, answer_count, decoded_question_count, decoded_answer_count>>
slots == <<questions, answers>>
rdata == <<type, rdata_offset, rdlength, pos, text, cut>>
vars == <<pc, message, counts, i, offset, slots, rdata, has_dns, extent>>

Types == {"A", "AAAA", "NAME", "MX", "TXT", "OTHER"}  \* NAME: CNAME, NS and PTR

Init ==
  /\ pc = "header"
  /\ length \in Length /\ tcp \in BOOLEAN
  /\ sent \in [2 .. 4 -> Word]
  /\ question_count = 0 /\ answer_count = 0
  /\ decoded_question_count = 0 /\ decoded_answer_count = 0
  /\ i = 0 /\ offset = 0 /\ questions = {} /\ answers = {}
  /\ type = "OTHER" /\ rdata_offset = 0 /\ rdlength = 0 /\ pos = 0 /\ text = 0 /\ cut = FALSE
  /\ has_dns = FALSE /\ extent = 0

-----------------------------------------------------------------------------
\* ns_bounds_check(length, at, size)
InBounds(at, size) == at <= length /\ size <= length - at

Reads(end) == extent' = IF end > extent THEN end ELSE extent

\* An error is returned: packet.c leaves has_dns false.
Fail == pc' = "done" /\ UNCHANGED has_dns

\* The k-th word of the header as the parser finds it: a message over TCP
\* comes behind its two-byte length, and packet.c passes both.
Found(k) == IF tcp THEN sent[k - 1] ELSE sent[k]

ParseHeader ==
  /\ pc = "header"
  /\ \/ /\ ~InBounds(0, NS_DNS_HEADER_LEN) /\ Fail
        /\ UNCHANGED <<question_count, answer_count, offset, extent>>
     \/ /\ InBounds(0, NS_DNS_HEADER_LEN) /\ Reads(NS_DNS_HEADER_LEN)
        /\ question_count' = Found(3) /\ answer_count' = Found(4)
        /\ offset' = NS_DNS_HEADER_LEN
        /\ pc' = "questions" /\ UNCHANGED has_dns
  /\ UNCHANGED <<message, decoded_question_count, decoded_answer_count, i, slots, rdata>>

HasSlot == i < NS_DNS_MAX_QUESTIONS

\* Mutant: questions that are not stored are not parsed either.
MoreQuestionsStored == i < question_count /\ i < NS_DNS_MAX_QUESTIONS

MoreQuestions == i < question_count

\* ns_dns_parse_question(): without a slot the name goes to a scratch buffer.
ParseQuestion ==
  /\ pc = "questions" /\ MoreQuestions
  /\ questions' = IF HasSlot THEN questions \cup {decoded_question_count} ELSE questions
  /\ \/ Fail /\ UNCHANGED <<decoded_question_count, i, offset, extent>>   \* the name
     \/ \E size \in NameSize :
          /\ InBounds(offset, size) /\ ~InBounds(offset + size, 4)
          /\ Fail /\ UNCHANGED <<decoded_question_count, i, offset, extent>>
     \/ \E size \in NameSize :
          /\ InBounds(offset, size) /\ InBounds(offset + size, 4)
          /\ Reads(offset + size + 4)
          /\ offset' = offset + size + 4
          /\ decoded_question_count' = decoded_question_count + IF HasSlot THEN 1 ELSE 0
          /\ i' = i + 1
          /\ UNCHANGED <<pc, has_dns>>
  /\ UNCHANGED <<message, question_count, answer_count, decoded_answer_count, answers, rdata>>

EndOfQuestions ==
  /\ pc = "questions" /\ ~MoreQuestions
  /\ pc' = "answers" /\ i' = 0
  /\ UNCHANGED <<message, counts, offset, slots, rdata, has_dns, extent>>

-----------------------------------------------------------------------------
MoreAnswers == i < answer_count /\ i < NS_DNS_MAX_ANSWERS

\* ns_dns_parse_record() up to its data.  The slot is written only when
\* nothing can fail any more.
ParseRecord ==
  /\ pc = "answers" /\ MoreAnswers
  /\ \/ /\ Fail                                                          \* the name
        /\ UNCHANGED <<answers, rdata, extent>>
     \/ \E size \in NameSize :
          /\ InBounds(offset, size) /\ ~InBounds(offset + size, 10)
          /\ Fail /\ UNCHANGED <<answers, rdata, extent>>
     \/ \E size \in NameSize, n \in RdLength :
          /\ InBounds(offset, size) /\ InBounds(offset + size, 10)
          /\ ~InBounds(offset + size + 10, n)
          /\ Reads(offset + size + 10)
          /\ Fail /\ UNCHANGED <<answers, rdata>>
     \/ \E size \in NameSize, n \in RdLength, t \in Types :
          /\ InBounds(offset, size) /\ InBounds(offset + size, 10)
          /\ InBounds(offset + size + 10, n)
          /\ Reads(offset + size + 10)
          /\ answers' = answers \cup {decoded_answer_count}
          /\ type' = t /\ rdata_offset' = offset + size + 10 /\ rdlength' = n
          /\ pos' = 0 /\ text' = 0 /\ cut' = FALSE
          /\ pc' = IF t = "TXT" THEN "txt" ELSE "rdata"
          /\ UNCHANGED has_dns
  /\ UNCHANGED <<message, counts, i, offset, questions>>

\* The end of ns_dns_parse_record(), and of the loop's body.
NextRecord ==
  /\ pc' = "answers"
  /\ offset' = rdata_offset + rdlength
  /\ decoded_answer_count' = decoded_answer_count + 1 /\ i' = i + 1
  /\ UNCHANGED <<message, question_count, answer_count, decoded_question_count, slots,
                 type, rdata_offset, rdlength, has_dns>>

\* snprintf() of a text of n characters into rdata_text.
Printed(n) ==
  /\ text' = IF n < NS_DNS_MAX_RDATA_TEXT THEN n ELSE NS_DNS_MAX_RDATA_TEXT - 1
  /\ cut' = (n >= NS_DNS_MAX_RDATA_TEXT)
  /\ UNCHANGED pos

\* "<%u bytes>", for unknown types and where the data cannot be formatted.
FormatBytes ==
  /\ type \in {"A", "AAAA"} => rdlength # (IF type = "A" THEN 4 ELSE 16)
  /\ Printed(8 + 5)
  /\ UNCHANGED extent

\* ns_dns_format_a(), ns_dns_format_aaaa(): at most 15 and 39 characters.
FormatAddress ==
  \/ type = "A" /\ rdlength = 4 /\ Printed(15) /\ Reads(rdata_offset + 4)
  \/ type = "AAAA" /\ rdlength = 16 /\ Printed(39) /\ Reads(rdata_offset + 16)

\* ns_dns_format_name_rdata(): the name is decoded into rdata_text itself and
\* may be longer than rdlength.
FormatName ==
  /\ type = "NAME"
  /\ \E n \in NameText : n + 1 <= NS_DNS_MAX_RDATA_TEXT /\ Printed(n)
  /\ UNCHANGED extent

\* Mutant: the name is decoded into a buffer as large as the text's.
MxNameFitsText(n) == n + 1 <= NS_DNS_MAX_RDATA_TEXT

MxNameFits(n) == n + 1 <= NS_DNS_MAX_NAME + 1

\* ns_dns_format_mx(): a preference of one to five digits, a space, a name.
FormatMx ==
  /\ type = "MX" /\ InBounds(rdata_offset, 2) /\ Reads(rdata_offset + 2)
  /\ \E digits \in 1 .. 5, n \in NameText : MxNameFits(n) /\ Printed(digits + 1 + n)

\* ns_dns_format_rdata() for every type but TXT.
FormatRdata ==
  /\ pc = "rdata"
  /\ FormatBytes \/ FormatAddress \/ FormatName \/ FormatMx
  /\ NextRecord

-----------------------------------------------------------------------------
\* ns_dns_format_txt(), one string at a time.
MoreText == pos < rdlength /\ text + 1 < NS_DNS_MAX_RDATA_TEXT

\* Mutant: the string is compared with the message, not with the record.
SegmentInsideMessage(n) == rdata_offset + pos + 1 + n <= length

SegmentInside(n) == pos + 1 + n <= rdlength

Copied(n) ==
  IF text + n >= NS_DNS_MAX_RDATA_TEXT THEN NS_DNS_MAX_RDATA_TEXT - text - 1 ELSE n

FormatTxt ==
  /\ pc = "txt" /\ MoreText
  /\ \/ \E n \in SegmentLength :
          /\ SegmentInside(n)
          /\ Reads(rdata_offset + pos + 1 + Copied(n))
          /\ text' = text + Copied(n)
          /\ cut' = (cut \/ Copied(n) < n)
          /\ pos' = pos + 1 + n
          /\ UNCHANGED <<pc, counts, i, offset, message, slots, type, rdata_offset, rdlength,
                         has_dns>>
     \/ \E n \in SegmentLength :
          /\ ~SegmentInside(n)
          /\ Reads(rdata_offset + pos + 1)
          /\ UNCHANGED <<pos, text, cut>>
          /\ NextRecord

EndOfTxt ==
  /\ pc = "txt" /\ ~MoreText
  /\ UNCHANGED <<pos, text, cut, extent>>
  /\ NextRecord

\* Mutant: a message is used as soon as its questions are there.
EndOfAnswersEarly ==
  /\ pc = "answers"
  /\ pc' = "done" /\ has_dns' = TRUE
  /\ UNCHANGED <<message, counts, i, offset, slots, rdata, extent>>

\* NS_PARSE_OK: packet.c sets has_dns.
EndOfAnswers ==
  /\ pc = "answers" /\ ~MoreAnswers
  /\ pc' = "done" /\ has_dns' = TRUE
  /\ UNCHANGED <<message, counts, i, offset, slots, rdata, extent>>

Next == \/ ParseHeader \/ ParseQuestion \/ EndOfQuestions \/ ParseRecord
        \/ FormatRdata \/ FormatTxt \/ EndOfTxt \/ EndOfAnswers

Spec == Init /\ [][Next]_vars

-----------------------------------------------------------------------------
(* Type invariant.                                                         *)
TypeOK ==
  /\ pc \in {"header", "questions", "answers", "rdata", "txt", "done"}
  /\ length \in Length /\ tcp \in BOOLEAN /\ sent \in [2 .. 4 -> Word]
  /\ question_count \in Nat /\ answer_count \in Nat
  /\ decoded_question_count \in Nat /\ decoded_answer_count \in Nat
  /\ i \in Nat /\ offset \in Nat /\ extent \in Nat
  /\ questions \subseteq 0 .. NS_DNS_MAX_QUESTIONS - 1
  /\ answers \subseteq 0 .. NS_DNS_MAX_ANSWERS - 1
  /\ type \in Types /\ rdata_offset \in Nat /\ rdlength \in Nat /\ pos \in Nat
  /\ text \in Nat /\ cut \in BOOLEAN /\ has_dns \in BOOLEAN

(* No read past the message, and none of a TXT record's strings past the   *)
(* record, whatever lengths they claim.                                    *)
MessageReadsInBounds ==
  /\ extent <= length /\ offset <= length
  /\ pc = "txt" => extent <= rdata_offset + rdlength

AtMost(n, limit) == IF n < limit THEN n ELSE limit

(* A message that is shown was decoded to its end: the slots counted are   *)
(* exactly those written, and there is one for every question and answer   *)
(* up to the size of the arrays.                                           *)
ShownComplete ==
  has_dns =>
    /\ decoded_question_count = AtMost(question_count, NS_DNS_MAX_QUESTIONS)
    /\ decoded_answer_count = AtMost(answer_count, NS_DNS_MAX_ANSWERS)
    /\ questions = 0 .. decoded_question_count - 1
    /\ answers = 0 .. decoded_answer_count - 1

(* Answers are looked for behind all the questions, stored or not, and     *)
(* each item takes bytes of the message: counts of 65535 in a short        *)
(* message cost no more than its length.                                   *)
AnswersBehindQuestions ==
  /\ pc = "questions" => offset >= NS_DNS_HEADER_LEN + 5 * i
  /\ pc \in {"answers", "rdata", "txt"} =>
       offset >= NS_DNS_HEADER_LEN + 5 * question_count + 11 * decoded_answer_count

(* dns.h:19-21: an answer's text and its NUL fit in rdata_text, and only a *)
(* TXT record's text is ever cut.                                          *)
RdataTextFits == text < NS_DNS_MAX_RDATA_TEXT /\ (cut => type = "TXT")

-----------------------------------------------------------------------------
(* What the documentation says and the code does not do.                   *)

(* docs/architecture.md:31: messages are parsed on UDP and TCP alike.      *)
CountsAsSent == has_dns => question_count = sent[3] /\ answer_count = sent[4]

(* dns.h:19: rdata_text is large enough for the widest rendering.          *)
RdataTextComplete == ~cut

(* docs/packet-parsing.md:96-99, 110-112: a name whose text does not fit   *)
(* in 256 bytes is rejected, in rdata as elsewhere.                        *)
NameTextLimited == pc = "answers" /\ type = "NAME" => text + 1 <= NS_DNS_MAX_NAME + 1
=============================================================================
