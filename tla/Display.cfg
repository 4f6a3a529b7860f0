SPECIFICATION DisplaySpec
CONSTANTS
  FlagSets <- MCFlagSets
  Byte <- MCByte
  MaxLength = 3
  Length <- MCLength
  OffsetDigits <- MCOffsetDigits
  Group <- MCGroup
INVARIANTS
  TextAsDecoded
  JsonLineValid
  ParsesBack
  DumpShowsAll
  AddressReadsBack
CHECK_DEADLOCK FALSE
