-------------------------- MODULE DnsMessageProofs --------------------------
(***************************************************************************)
(* The message loops are safe, and what they show is complete, for every   *)
(* message and every size of the arrays.                                   *)
(***************************************************************************)
EXTENDS DnsMessage, TLAPS

\* Where the reads and the current record are.
PlaceInv ==
  /\ extent <= length /\ offset <= length
  /\ pc = "header" => extent = 0 /\ offset = 0
  /\ pc \in {"questions", "answers"} => extent <= offset + 2
  /\ pc \in {"rdata", "txt"} =>
       rdata_offset >= offset + 11 /\ rdata_offset + rdlength <= length
  /\ pc = "rdata" => extent <= rdata_offset
  /\ pc = "txt" => pos <= rdlength /\ extent <= rdata_offset + pos

\* The questions are all behind the parser.
QuestionsDone ==
  /\ decoded_question_count = AtMost(question_count, NS_DNS_MAX_QUESTIONS)
  /\ questions = 0 .. decoded_question_count - 1

\* How far the loops are, and what they have stored.
LoopInv ==
  /\ pc = "header" => /\ i = 0 /\ decoded_question_count = 0 /\ decoded_answer_count = 0
                      /\ questions = {} /\ answers = {}
  /\ pc = "questions" => /\ i <= question_count
                         /\ decoded_question_count = AtMost(i, NS_DNS_MAX_QUESTIONS)
                         /\ questions = 0 .. decoded_question_count - 1
                         /\ decoded_answer_count = 0 /\ answers = {}
  /\ pc \in {"answers", "rdata", "txt"} => QuestionsDone /\ i = decoded_answer_count
  /\ pc = "answers" => /\ i <= answer_count /\ i <= NS_DNS_MAX_ANSWERS
                       /\ answers = 0 .. decoded_answer_count - 1
  /\ pc \in {"rdata", "txt"} => /\ i < answer_count /\ i < NS_DNS_MAX_ANSWERS
                                /\ answers = 0 .. decoded_answer_count
  /\ has_dns => pc = "done"

TextInv ==
  /\ RdataTextFits
  /\ pc = "rdata" => type # "TXT"
  /\ pc = "txt" => type = "TXT"

MsgInv == TypeOK /\ PlaceInv /\ LoopInv /\ TextInv /\ AnswersBehindQuestions /\ ShownComplete

LEMMA MsgInit == Init => MsgInv
<1> SUFFICES ASSUME Init PROVE MsgInv
  OBVIOUS
<1> USE DnsMessageAssumption
<1>1. TypeOK
  BY Zenon DEF Init, TypeOK, Types
<1>2. PlaceInv /\ LoopInv /\ AnswersBehindQuestions /\ ShownComplete
  BY DEF Init, PlaceInv, LoopInv, AnswersBehindQuestions, ShownComplete
<1>3. TextInv
  BY DEF Init, TextInv, RdataTextFits, NS_DNS_MAX_RDATA_TEXT
<1> QED
  BY <1>1, <1>2, <1>3 DEF MsgInv

\* One more slot behind the ones in use.
LEMMA NextSlot ==
  ASSUME NEW n \in Nat
  PROVE  (0 .. n - 1) \cup {n} = 0 .. n
OBVIOUS

LEMMA Numbers ==
  ASSUME TypeOK
  PROVE  /\ length \in Nat /\ question_count \in Nat /\ answer_count \in Nat
         /\ decoded_question_count \in Nat /\ decoded_answer_count \in Nat
         /\ i \in Nat /\ offset \in Nat /\ extent \in Nat /\ rdata_offset \in Nat
         /\ rdlength \in Nat /\ pos \in Nat /\ text \in Nat
BY DnsMessageAssumption DEF TypeOK

LEMMA HeaderStep == MsgInv /\ ParseHeader => MsgInv'
<1> SUFFICES ASSUME MsgInv, ParseHeader PROVE MsgInv'
  OBVIOUS
<1> USE DnsMessageAssumption
<1>0. TypeOK
  BY DEF MsgInv
<1>1. question_count' \in Nat /\ answer_count' \in Nat /\ offset' \in Nat /\ extent' \in Nat
  <2>0. \A k \in 2 .. 4 : sent[k] \in Nat
    BY <1>0, Zenon DEF TypeOK
  <2>1. Found(3) \in Nat /\ Found(4) \in Nat
    BY <2>0 DEF Found
  <2> QED
    BY <1>0, <2>1, Numbers DEF ParseHeader, Reads, NS_DNS_HEADER_LEN
<1>2. TypeOK'
  BY <1>0, <1>1 DEF TypeOK, ParseHeader, Fail, message, slots, rdata
<1>3. PlaceInv'
  BY <1>0, Numbers DEF MsgInv, PlaceInv, ParseHeader, Fail, Reads, InBounds, NS_DNS_HEADER_LEN,
     message, rdata
<1>4. LoopInv'
  BY <1>0, <1>1, Numbers DEF MsgInv, LoopInv, ParseHeader, Fail, AtMost, slots
<1>5. TextInv'
  BY DEF MsgInv, TextInv, RdataTextFits, ParseHeader, Fail, rdata
<1>6. AnswersBehindQuestions'
  BY <1>0, Numbers DEF MsgInv, LoopInv, AnswersBehindQuestions, ParseHeader, Fail, NS_DNS_HEADER_LEN
<1>7. ShownComplete'
  BY Zenon DEF MsgInv, LoopInv, ShownComplete, ParseHeader, Fail
<1> QED
  BY <1>2, <1>3, <1>4, <1>5, <1>6, <1>7 DEF MsgInv

LEMMA QuestionStep == MsgInv /\ ParseQuestion => MsgInv'
<1> SUFFICES ASSUME MsgInv, ParseQuestion PROVE MsgInv'
  OBVIOUS
<1> USE DnsMessageAssumption
<1>0. TypeOK
  BY DEF MsgInv
<1>1. /\ pc = "questions" /\ i < question_count /\ ~has_dns
      /\ UNCHANGED <<message, question_count, answer_count, decoded_answer_count, answers, rdata>>
      /\ UNCHANGED has_dns
  BY DEF MsgInv, LoopInv, ParseQuestion, MoreQuestions, Fail
<1>2. CASE pc' = "done"
  <2>1. UNCHANGED <<decoded_question_count, i, offset, extent>>
    BY <1>1, <1>2 DEF ParseQuestion
  <2>2. questions' \subseteq 0 .. NS_DNS_MAX_QUESTIONS - 1
    BY <1>0, Numbers DEF MsgInv, LoopInv, TypeOK, ParseQuestion, HasSlot, AtMost
  <2>3. TypeOK'
    BY <1>0, <1>1, <1>2, <2>1, <2>2 DEF TypeOK, message, rdata
  <2> QED
    BY <1>1, <1>2, <2>1, <2>3 DEF MsgInv, PlaceInv, LoopInv, TextInv, RdataTextFits,
       AnswersBehindQuestions, ShownComplete, message, rdata
<1>3. CASE pc' # "done"
  <2>1. PICK size \in NameSize :
          /\ InBounds(offset, size) /\ InBounds(offset + size, 4)
          /\ Reads(offset + size + 4)
          /\ offset' = offset + size + 4
          /\ decoded_question_count' = decoded_question_count + IF HasSlot THEN 1 ELSE 0
          /\ i' = i + 1
          /\ UNCHANGED pc
    BY <1>3 DEF ParseQuestion, Fail
  <2>2. size \in Nat /\ size >= 1
    OBVIOUS
  <2>3. offset' \in Nat /\ extent' \in Nat /\ i' \in Nat /\ decoded_question_count' \in Nat
    BY <1>0, <2>1, <2>2, Numbers DEF Reads
  <2>4. /\ decoded_question_count' = AtMost(i', NS_DNS_MAX_QUESTIONS)
        /\ questions' = 0 .. decoded_question_count' - 1
    <3>1. CASE i < NS_DNS_MAX_QUESTIONS
      <4>1. decoded_question_count = i /\ decoded_question_count' = i + 1
        BY <1>0, <1>1, <2>1, <3>1, Numbers DEF MsgInv, LoopInv, AtMost, HasSlot
      <4>2. questions' = (0 .. i - 1) \cup {i}
        BY <1>1, <3>1, <4>1 DEF MsgInv, LoopInv, ParseQuestion, HasSlot
      <4>3. questions' = 0 .. i
        BY <1>0, <4>2, Numbers, NextSlot
      <4>4. decoded_question_count' - 1 = i
        BY <1>0, <4>1, Numbers
      <4>5. questions' = 0 .. decoded_question_count' - 1
        BY <4>3, <4>4
      <4>6. i' = i + 1 /\ i \in Nat
        BY <1>0, <2>1, Numbers
      <4>7. AtMost(i', NS_DNS_MAX_QUESTIONS) = i'
        BY <3>1, <4>6 DEF AtMost
      <4> QED
        BY <4>1, <4>5, <4>6, <4>7
    <3>2. CASE ~(i < NS_DNS_MAX_QUESTIONS)
      <4>1. UNCHANGED <<decoded_question_count, questions>>
        BY <1>0, <2>1, <3>2, Numbers DEF HasSlot, ParseQuestion
      <4>2. i' = i + 1 /\ i \in Nat
        BY <1>0, <2>1, Numbers
      <4>3. AtMost(i', NS_DNS_MAX_QUESTIONS) = AtMost(i, NS_DNS_MAX_QUESTIONS)
        BY <3>2, <4>2 DEF AtMost
      <4>4. /\ decoded_question_count = AtMost(i, NS_DNS_MAX_QUESTIONS)
            /\ questions = 0 .. decoded_question_count - 1
        BY <1>1 DEF MsgInv, LoopInv
      <4> QED
        BY <4>1, <4>3, <4>4
    <3> QED
      BY <3>1, <3>2
  <2>5. questions' \subseteq 0 .. NS_DNS_MAX_QUESTIONS - 1
    <3>1. decoded_question_count' <= NS_DNS_MAX_QUESTIONS
      BY <2>3, <2>4 DEF AtMost
    <3> QED
      BY <2>3, <2>4, <3>1
  <2>6. TypeOK'
    BY <1>0, <1>1, <2>1, <2>3, <2>5 DEF TypeOK, message, rdata
  <2>7. PlaceInv'
    BY <1>0, <1>1, <2>1, <2>2, Numbers DEF MsgInv, PlaceInv, InBounds, Reads, message
  <2>8. LoopInv'
    <3>1. i' <= question_count'
      BY <1>0, <1>1, <2>1, Numbers
    <3> QED
      BY <1>1, <2>1, <2>4, <3>1 DEF MsgInv, LoopInv
  <2>9. TextInv' /\ ShownComplete'
    BY <1>1, <2>1 DEF MsgInv, TextInv, RdataTextFits, ShownComplete, rdata
  <2>10. AnswersBehindQuestions'
    BY <1>0, <1>1, <2>1, <2>2, Numbers DEF MsgInv, AnswersBehindQuestions, NS_DNS_HEADER_LEN
  <2> QED
    BY <2>6, <2>7, <2>8, <2>9, <2>10 DEF MsgInv
<1> QED
  BY <1>2, <1>3

LEMMA EndOfQuestionsStep == MsgInv /\ EndOfQuestions => MsgInv'
<1> SUFFICES ASSUME MsgInv, EndOfQuestions PROVE MsgInv'
  OBVIOUS
<1> USE DnsMessageAssumption
<1>0. TypeOK
  BY DEF MsgInv
<1>1. i = question_count
  BY <1>0, Numbers DEF MsgInv, LoopInv, EndOfQuestions, MoreQuestions
<1>2. TypeOK'
  BY <1>0 DEF TypeOK, EndOfQuestions, message, counts, slots, rdata
<1>3. PlaceInv' /\ TextInv' /\ ShownComplete'
  BY DEF MsgInv, PlaceInv, LoopInv, TextInv, RdataTextFits, ShownComplete, EndOfQuestions,
     message, counts, slots, rdata
<1>4. LoopInv'
  BY <1>0, <1>1, Numbers DEF MsgInv, LoopInv, QuestionsDone, EndOfQuestions, counts, slots
<1>5. AnswersBehindQuestions'
  BY <1>0, <1>1, Numbers DEF MsgInv, LoopInv, AnswersBehindQuestions, NS_DNS_HEADER_LEN, EndOfQuestions, counts
<1> QED
  BY <1>2, <1>3, <1>4, <1>5 DEF MsgInv

LEMMA EndOfAnswersStep == MsgInv /\ EndOfAnswers => MsgInv'
<1> SUFFICES ASSUME MsgInv, EndOfAnswers PROVE MsgInv'
  OBVIOUS
<1> USE DnsMessageAssumption
<1>0. TypeOK
  BY DEF MsgInv
<1>1. TypeOK'
  BY <1>0 DEF TypeOK, EndOfAnswers, message, counts, slots, rdata
<1>2. PlaceInv' /\ LoopInv' /\ TextInv' /\ AnswersBehindQuestions'
  BY DEF MsgInv, PlaceInv, LoopInv, TextInv, RdataTextFits, AnswersBehindQuestions, EndOfAnswers,
     message, counts, slots, rdata
<1>3. decoded_answer_count = AtMost(answer_count, NS_DNS_MAX_ANSWERS)
  BY <1>0, Numbers DEF MsgInv, LoopInv, EndOfAnswers, MoreAnswers, AtMost
<1>4. ShownComplete'
  BY <1>3 DEF MsgInv, LoopInv, QuestionsDone, ShownComplete, EndOfAnswers, counts, slots
<1> QED
  BY <1>1, <1>2, <1>4 DEF MsgInv

-----------------------------------------------------------------------------
LEMMA RecordStep == MsgInv /\ ParseRecord => MsgInv'
<1> SUFFICES ASSUME MsgInv, ParseRecord PROVE MsgInv'
  OBVIOUS
<1> USE DnsMessageAssumption
<1>0. TypeOK
  BY DEF MsgInv
<1>1. /\ pc = "answers" /\ i < answer_count /\ i < NS_DNS_MAX_ANSWERS /\ ~has_dns
      /\ UNCHANGED <<message, counts, i, offset, questions, has_dns>>
  BY DEF MsgInv, LoopInv, ParseRecord, MoreAnswers, Fail
<1>2. CASE pc' = "done"
  <2>1. UNCHANGED <<answers, rdata>>
    BY <1>2 DEF ParseRecord
  <2>2. extent' \in Nat /\ extent' <= length
    <3>1. CASE UNCHANGED extent
      BY <1>0, <3>1, Numbers DEF MsgInv, PlaceInv
    <3>2. CASE \E size \in NameSize :
                 /\ InBounds(offset, size) /\ InBounds(offset + size, 10)
                 /\ Reads(offset + size + 10)
      BY <1>0, <3>2, Numbers DEF MsgInv, PlaceInv, InBounds, Reads
    <3> QED
      BY <1>2, <3>1, <3>2 DEF ParseRecord
  <2>3. TypeOK'
    BY <1>0, <1>1, <1>2, <2>1, <2>2 DEF TypeOK, message, counts, rdata
  <2> QED
    BY <1>1, <1>2, <2>1, <2>2, <2>3 DEF MsgInv, PlaceInv, LoopInv, TextInv, RdataTextFits,
       AnswersBehindQuestions, ShownComplete, message, counts, rdata
<1>3. CASE pc' # "done"
  <2>1. PICK size \in NameSize, n \in RdLength, t \in Types :
          /\ InBounds(offset, size) /\ InBounds(offset + size, 10)
          /\ InBounds(offset + size + 10, n)
          /\ Reads(offset + size + 10)
          /\ answers' = answers \cup {decoded_answer_count}
          /\ type' = t /\ rdata_offset' = offset + size + 10 /\ rdlength' = n
          /\ pos' = 0 /\ text' = 0 /\ cut' = FALSE
          /\ pc' = IF t = "TXT" THEN "txt" ELSE "rdata"
    BY <1>3 DEF ParseRecord, Fail
  <2>2. size \in Nat /\ size >= 1 /\ n \in Nat
    OBVIOUS
  <2>3. /\ offset + size + 10 \in Nat /\ extent' \in Nat
        /\ extent' <= offset + size + 10
    BY <1>0, <1>1, <2>1, <2>2, Numbers DEF MsgInv, PlaceInv, Reads
  <2>4. decoded_answer_count = i /\ answers' = 0 .. i
    <3>1. decoded_answer_count = i /\ answers = 0 .. i - 1
      BY <1>1 DEF MsgInv, LoopInv
    <3> QED
      BY <1>0, <2>1, <3>1, Numbers, NextSlot, Zenon
  <2>5. answers' \subseteq 0 .. NS_DNS_MAX_ANSWERS - 1
    BY <1>0, <1>1, <2>4, Numbers
  <2>6. TypeOK'
    BY <1>0, <1>1, <2>1, <2>2, <2>3, <2>5, Zenon DEF TypeOK, message, counts
  <2>7. PlaceInv'
    BY <1>0, <1>1, <2>1, <2>2, <2>3, Numbers DEF MsgInv, PlaceInv, InBounds, message
  <2>8. LoopInv'
    BY <1>1, <2>1, <2>4 DEF MsgInv, LoopInv, QuestionsDone, counts
  <2>9. TextInv'
    BY <2>1 DEF TextInv, RdataTextFits, NS_DNS_MAX_RDATA_TEXT
  <2>10. AnswersBehindQuestions' /\ ShownComplete'
    BY <1>1, <2>1 DEF MsgInv, AnswersBehindQuestions, ShownComplete, counts
  <2> QED
    BY <2>6, <2>7, <2>8, <2>9, <2>10 DEF MsgInv
<1> QED
  BY <1>2, <1>3

\* The end of a record, once its text is known to fit.
LEMMA NextRecordStep ==
  ASSUME MsgInv, pc \in {"rdata", "txt"}, NextRecord,
         extent' \in Nat, extent' <= length, extent' <= rdata_offset + rdlength + 2,
         pos' \in Nat, text' \in Nat, cut' \in BOOLEAN,
         text' < NS_DNS_MAX_RDATA_TEXT, cut' => type = "TXT"
  PROVE  MsgInv'
<1> USE DnsMessageAssumption
<1>0. TypeOK
  BY DEF MsgInv
<1>1. /\ pc' = "answers" /\ offset' = rdata_offset + rdlength
      /\ decoded_answer_count' = decoded_answer_count + 1 /\ i' = i + 1
      /\ UNCHANGED <<message, question_count, answer_count, decoded_question_count, slots,
                     type, rdata_offset, rdlength, has_dns>>
  BY DEF NextRecord
<1>2. offset' \in Nat /\ decoded_answer_count' \in Nat /\ i' \in Nat
  BY <1>0, <1>1, Numbers
<1>3. TypeOK'
  BY <1>0, <1>1, <1>2 DEF TypeOK, message, slots
<1>4. PlaceInv'
  BY <1>0, <1>1, Numbers DEF MsgInv, PlaceInv, message
<1>5. LoopInv'
  <2>1. i' <= answer_count' /\ i' <= NS_DNS_MAX_ANSWERS /\ i' = decoded_answer_count'
    <3>1. i < answer_count /\ i < NS_DNS_MAX_ANSWERS /\ i = decoded_answer_count
      BY DEF MsgInv, LoopInv
    <3> QED
      BY <1>0, <1>1, <3>1, Numbers
  <2>2. answers' = 0 .. decoded_answer_count' - 1
    <3>1. answers' = 0 .. decoded_answer_count
      BY <1>1 DEF MsgInv, LoopInv, slots
    <3>2. decoded_answer_count' - 1 = decoded_answer_count
      BY <1>0, <1>1, Numbers
    <3> QED
      BY <3>1, <3>2
  <2> QED
    BY <1>1, <2>1, <2>2 DEF MsgInv, LoopInv, QuestionsDone, slots
<1>6. TextInv'
  BY <1>1 DEF TextInv, RdataTextFits, NS_DNS_MAX_RDATA_TEXT
<1>7. AnswersBehindQuestions'
  BY <1>0, <1>1, Numbers DEF MsgInv, PlaceInv, AnswersBehindQuestions, NS_DNS_HEADER_LEN
<1>8. ShownComplete'
  BY <1>1 DEF MsgInv, LoopInv, ShownComplete
<1> QED
  BY <1>3, <1>4, <1>5, <1>6, <1>7, <1>8 DEF MsgInv

\* A text of n characters that fits is printed whole.
LEMMA PrintedWhole ==
  ASSUME NEW n \in Nat, n < NS_DNS_MAX_RDATA_TEXT, Printed(n)
  PROVE  text' = n /\ cut' \in BOOLEAN /\ ~cut' /\ UNCHANGED pos
<1>1. NS_DNS_MAX_RDATA_TEXT \in Nat
  BY DnsMessageAssumption DEF NS_DNS_MAX_RDATA_TEXT
<1>2. ~(n >= NS_DNS_MAX_RDATA_TEXT)
  BY <1>1
<1>3. cut' = (n >= NS_DNS_MAX_RDATA_TEXT) /\ UNCHANGED pos
  BY DEF Printed
<1>4. cut' \in BOOLEAN
  <2>1. (n >= NS_DNS_MAX_RDATA_TEXT) \in BOOLEAN
    BY <1>1
  <2> QED
    BY <1>3, <2>1, Zenon
<1>6. ~cut'
  BY <1>2, <1>3, Zenon
<1>5. text' = n
  BY DEF Printed
<1> QED
  BY <1>3, <1>4, <1>5, <1>6

LEMMA RdataStep == MsgInv /\ FormatRdata => MsgInv'
<1> SUFFICES ASSUME MsgInv, FormatRdata PROVE MsgInv'
  OBVIOUS
<1> USE DnsMessageAssumption
<1>0. TypeOK
  BY DEF MsgInv
<1>1. pc = "rdata" /\ NextRecord
  BY DEF FormatRdata
<1>2. extent \in Nat /\ extent <= length /\ extent <= rdata_offset + rdlength + 2
  BY <1>0, <1>1, Numbers DEF MsgInv, PlaceInv
<1>3. PICK n \in Nat : n < NS_DNS_MAX_RDATA_TEXT /\ Printed(n)
  <2>1. CASE FormatBytes \/ FormatAddress
    BY <2>1 DEF FormatBytes, FormatAddress, NS_DNS_MAX_RDATA_TEXT
  <2>2. CASE FormatName
    BY <2>2 DEF FormatName, NS_DNS_MAX_RDATA_TEXT
  <2>3. CASE FormatMx
    <3>1. PICK digits \in 1 .. 5, m \in NameText : MxNameFits(m) /\ Printed(digits + 1 + m)
      BY <2>3 DEF FormatMx
    <3>2. digits + 1 + m \in Nat /\ digits + 1 + m < NS_DNS_MAX_RDATA_TEXT
      BY <3>1 DEF MxNameFits, NS_DNS_MAX_RDATA_TEXT
    <3> QED
      BY <3>1, <3>2
  <2> QED
    BY <2>1, <2>2, <2>3 DEF FormatRdata
<1>4. extent' \in Nat /\ extent' <= length /\ extent' <= rdata_offset + rdlength + 2
  <2>1. CASE FormatBytes \/ FormatName
    BY <1>2, <2>1 DEF FormatBytes, FormatName
  <2>2. CASE FormatAddress
    BY <1>0, <1>1, <1>2, <2>2, Numbers DEF MsgInv, PlaceInv, FormatAddress, Reads
  <2>3. CASE FormatMx
    BY <1>0, <1>1, <1>2, <2>3, Numbers DEF FormatMx, InBounds, Reads
  <2> QED
    BY <2>1, <2>2, <2>3 DEF FormatRdata
<1>5. text' = n /\ cut' \in BOOLEAN /\ ~cut' /\ pos' \in Nat
  BY <1>0, <1>3, PrintedWhole, Numbers
<1> QED
  BY <1>1, <1>3, <1>4, <1>5, NextRecordStep

LEMMA TxtStep == MsgInv /\ (FormatTxt \/ EndOfTxt) => MsgInv'
<1> SUFFICES ASSUME MsgInv, FormatTxt \/ EndOfTxt PROVE MsgInv'
  OBVIOUS
<1> USE DnsMessageAssumption
<1>0. TypeOK
  BY DEF MsgInv
<1>1. /\ pc = "txt" /\ type = "TXT" /\ pos <= rdlength /\ extent <= rdata_offset + pos
      /\ rdata_offset + rdlength <= length /\ text < NS_DNS_MAX_RDATA_TEXT
  BY DEF MsgInv, PlaceInv, TextInv, RdataTextFits, FormatTxt, EndOfTxt
<1>2. CASE EndOfTxt
  BY <1>0, <1>1, <1>2, NextRecordStep, Numbers DEF EndOfTxt, TypeOK
<1>3. CASE FormatTxt /\ NextRecord /\ UNCHANGED <<pos, text, cut>>
  <2>1. extent' \in Nat /\ extent' <= rdata_offset + rdlength
    BY <1>0, <1>1, <1>3, Numbers DEF FormatTxt, MoreText, Reads
  <2> QED
    BY <1>0, <1>1, <1>3, <2>1, NextRecordStep, Numbers DEF TypeOK
<1>4. CASE \E n \in SegmentLength :
             /\ MoreText /\ SegmentInside(n)
             /\ Reads(rdata_offset + pos + 1 + Copied(n))
             /\ text' = text + Copied(n)
             /\ cut' = (cut \/ Copied(n) < n)
             /\ pos' = pos + 1 + n
             /\ UNCHANGED <<pc, counts, i, offset, message, slots, type, rdata_offset, rdlength,
                            has_dns>>
  <2>1. PICK n \in SegmentLength :
             /\ MoreText /\ SegmentInside(n)
             /\ Reads(rdata_offset + pos + 1 + Copied(n))
             /\ text' = text + Copied(n)
             /\ cut' = (cut \/ Copied(n) < n)
             /\ pos' = pos + 1 + n
             /\ UNCHANGED <<pc, counts, i, offset, message, slots, type, rdata_offset, rdlength,
                            has_dns>>
    BY <1>4
  <2>2. n \in Nat
    OBVIOUS
  <2>3. /\ Copied(n) \in Nat /\ Copied(n) <= n
        /\ text + Copied(n) < NS_DNS_MAX_RDATA_TEXT
    BY <1>0, <1>1, <2>1, <2>2, Numbers DEF Copied, MoreText, NS_DNS_MAX_RDATA_TEXT
  <2>4. /\ text' \in Nat /\ pos' \in Nat /\ pos' <= rdlength
        /\ extent' \in Nat /\ extent' <= rdata_offset + pos'
    BY <1>0, <1>1, <2>1, <2>2, <2>3, Numbers DEF SegmentInside, Reads
  <2>5. cut' \in BOOLEAN
    BY <2>1, Zenon
  <2>6. TypeOK'
    BY <1>0, <2>1, <2>4, <2>5 DEF TypeOK, counts, message, slots
  <2>7. PlaceInv'
    BY <1>0, <1>1, <2>1, <2>4, Numbers DEF MsgInv, PlaceInv, message
  <2>8. LoopInv' /\ AnswersBehindQuestions' /\ ShownComplete'
    BY <2>1 DEF MsgInv, LoopInv, QuestionsDone, AnswersBehindQuestions, ShownComplete, counts, slots
  <2>9. TextInv'
    BY <1>1, <2>1, <2>3 DEF TextInv, RdataTextFits, NS_DNS_MAX_RDATA_TEXT
  <2> QED
    BY <2>6, <2>7, <2>8, <2>9 DEF MsgInv
<1> QED
  BY <1>2, <1>3, <1>4 DEF FormatTxt

LEMMA MsgStep == MsgInv /\ [Next]_vars => MsgInv'
<1> SUFFICES ASSUME MsgInv, [Next]_vars PROVE MsgInv'
  OBVIOUS
<1>1. CASE UNCHANGED vars
  BY <1>1 DEF vars, message, counts, slots, rdata, MsgInv, TypeOK, PlaceInv, LoopInv, TextInv,
     QuestionsDone, RdataTextFits, AnswersBehindQuestions, ShownComplete
<1> QED
  BY <1>1, HeaderStep, QuestionStep, EndOfQuestionsStep, RecordStep, RdataStep, TxtStep,
     EndOfAnswersStep DEF Next

\* The inductive invariant of ns_parse_dns().
THEOREM MessageInvariant == Spec => []MsgInv
BY MsgInit, MsgStep, PTL DEF Spec

(* dns.c:167-313 reads nothing past the message, nor past a TXT record.    *)
THEOREM MessageNoOverread == Spec => []MessageReadsInBounds
<1>1. MsgInv => MessageReadsInBounds
  <2> SUFFICES ASSUME MsgInv PROVE MessageReadsInBounds
    OBVIOUS
  <2>1. TypeOK
    BY DEF MsgInv
  <2> QED
    BY <2>1, Numbers DEF MsgInv, PlaceInv, MessageReadsInBounds
<1> QED
  BY <1>1, MessageInvariant, PTL

(* dns.c:291-312: has_dns is only set when every slot that is counted has  *)
(* been decoded, for any counts in the header.                             *)
THEOREM ShownIsComplete == Spec => []ShownComplete
BY MessageInvariant, PTL DEF MsgInv

(* dns.c:291-310: stored or not, every question is behind the parser when  *)
(* it looks for answers, and the loops consume the message.                *)
THEOREM LoopsConsumeMessage == Spec => []AnswersBehindQuestions
BY MessageInvariant, PTL DEF MsgInv

(* dns.h:19-21: rdata_text holds every rendering but that of TXT records.  *)
THEOREM RdataFits == Spec => []RdataTextFits
BY MessageInvariant, PTL DEF MsgInv, TextInv

-----------------------------------------------------------------------------
\* The first byte of the message that no loop is done with.
Current == CASE pc = "txt" -> rdata_offset + pos [] pc = "rdata" -> rdata_offset [] OTHER -> offset

\* Two steps for each byte that is left, and those between the loops.
WorkLeft ==
  2 * (length - Current)
    + CASE pc = "header" -> 6 [] pc = "questions" -> 4 [] pc = "answers" -> 2
        [] pc \in {"rdata", "txt"} -> 3 [] OTHER -> 0

(* Each step uses up bytes of the message or leaves a loop for good.       *)
LEMMA WorkShrinks ==
  ASSUME MsgInv, Next
  PROVE  WorkLeft' < WorkLeft
<1> USE DnsMessageAssumption
<1>0. TypeOK /\ UNCHANGED length
  BY DEF MsgInv, Next, ParseHeader, ParseQuestion, EndOfQuestions, ParseRecord, FormatRdata,
     FormatTxt, EndOfTxt, EndOfAnswers, NextRecord, message
<1>1. CASE ParseHeader
  BY <1>0, <1>1, Numbers DEF ParseHeader, Fail, WorkLeft, Current, NS_DNS_HEADER_LEN, MsgInv, PlaceInv
<1>2. CASE ParseQuestion
  <2>1. pc = "questions"
    BY <1>2 DEF ParseQuestion
  <2>2. \/ pc' = "done" /\ UNCHANGED offset
        \/ UNCHANGED pc /\ \E size \in NameSize : offset' = offset + size + 4
    BY <1>2 DEF ParseQuestion, Fail
  <2> QED
    BY <1>0, <2>1, <2>2, Numbers, SMTT(20) DEF WorkLeft, Current
<1>3. CASE EndOfQuestions \/ EndOfAnswers
  BY <1>0, <1>3, Numbers DEF EndOfQuestions, EndOfAnswers, WorkLeft, Current
<1>4. CASE ParseRecord
  <2>1. pc = "answers" /\ UNCHANGED offset
    BY <1>4 DEF ParseRecord
  <2>2. \/ pc' = "done"
        \/ /\ pc' \in {"rdata", "txt"} /\ pos' = 0
           /\ \E size \in NameSize : rdata_offset' = offset + size + 10
    BY <1>4 DEF ParseRecord, Fail
  <2> QED
    BY <1>0, <2>1, <2>2, Numbers DEF WorkLeft, Current
<1>5. ASSUME NextRecord, pc \in {"rdata", "txt"} PROVE WorkLeft' < WorkLeft
  BY <1>0, <1>5, Numbers DEF NextRecord, WorkLeft, Current, MsgInv, PlaceInv
<1>6. CASE FormatRdata \/ EndOfTxt
  BY <1>5, <1>6 DEF FormatRdata, EndOfTxt
<1>7. CASE FormatTxt
  <2>1. pc = "txt"
    BY <1>7 DEF FormatTxt
  <2>2. \/ NextRecord
        \/ UNCHANGED <<pc, rdata_offset>> /\ \E n \in SegmentLength : pos' = pos + 1 + n
    BY <1>7 DEF FormatTxt
  <2> QED
    BY <1>0, <1>5, <2>1, <2>2, Numbers DEF WorkLeft, Current
<1> QED
  BY <1>1, <1>2, <1>3, <1>4, <1>6, <1>7, Zenon DEF Next

(* dns.c:291-312: a message of n bytes takes at most 2 n + 6 iterations    *)
(* and calls, whatever its header counts and its lengths say, and each of  *)
(* them brings the end of ns_parse_dns() closer.                           *)
THEOREM MessageWorkBounded ==
  Spec => [](WorkLeft \in 0 .. 2 * length + 6) /\ [][WorkLeft' < WorkLeft]_vars
<1>1. MsgInv => WorkLeft \in 0 .. 2 * length + 6
  <2> SUFFICES ASSUME MsgInv PROVE WorkLeft \in 0 .. 2 * length + 6
    OBVIOUS
  <2>1. TypeOK
    BY DEF MsgInv
  <2>2. Current \in Nat /\ Current <= length
    BY <2>1, Numbers DEF Current, MsgInv, PlaceInv
  <2> QED
    BY <2>1, <2>2, Numbers DEF WorkLeft
<1>2. MsgInv /\ [Next]_vars => [WorkLeft' < WorkLeft]_vars
  BY WorkShrinks
<1> QED
  BY <1>1, <1>2, MessageInvariant, PTL DEF Spec

\* A message that is used has a header.
UsedHasHeader == has_dns => length >= NS_DNS_HEADER_LEN

(* dns.c:268-270, packet.c:32-35: bytes too short for a DNS header are     *)
(* never taken for a message; module Packet has this of ns_parse_dns().    *)
THEOREM UsedMessageHasHeader == Spec => []UsedHasHeader
<1>1. Init => UsedHasHeader
  BY DEF Init, UsedHasHeader
<1>2. MsgInv /\ UsedHasHeader /\ [Next]_vars => UsedHasHeader'
  <2> SUFFICES ASSUME MsgInv, UsedHasHeader, [Next]_vars PROVE UsedHasHeader'
    OBVIOUS
  <2>1. TypeOK
    BY DEF MsgInv
  <2>2. CASE EndOfAnswers
    BY <2>1, <2>2, Numbers DEF EndOfAnswers, MsgInv, PlaceInv, AnswersBehindQuestions,
       UsedHasHeader, NS_DNS_HEADER_LEN, message
  <2>3. CASE UNCHANGED <<has_dns, length>>
    BY <2>3, Zenon DEF UsedHasHeader
  <2>4. [Next]_vars => EndOfAnswers \/ UNCHANGED <<has_dns, length>>
    BY Zenon DEF Next, vars, ParseHeader, ParseQuestion, EndOfQuestions, ParseRecord, FormatRdata,
       FormatTxt, EndOfTxt, NextRecord, Fail, message
  <2> QED
    BY <2>2, <2>3, <2>4
<1> QED
  BY <1>1, <1>2, MessageInvariant, PTL DEF Spec
=============================================================================
