SPECIFICATION Spec
CONSTANTS
  Length <- MCLength
  Word <- MCWord
  NameSize <- MCNameSize
  NameText <- MCNameText
  RdLength <- MCRdLength
  SegmentLength <- MCSegmentLength
  NS_DNS_MAX_NAME = 40
  NS_DNS_MAX_QUESTIONS = 2
  NS_DNS_MAX_ANSWERS = 2
INVARIANTS
  MessageReadsInBounds
  ShownComplete
  AnswersBehindQuestions
  RdataTextFits
CHECK_DEADLOCK FALSE
