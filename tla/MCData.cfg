\* Two bytes a node and up to four a call, so that calls begin and end in the midst of
\* nodes and go over three; every number of two widths, and three strings; a parser of
\* either type of message, marks two bytes back.
CONSTANTS
  Base = 2
  Digits = 1
  MaxNodes = 3
  MaxLen = 4
  MaxCalls = 5
  Radix = 4
  Weight <- TwoBits
  Limit <- ThreeAndFive
  Room <- TwoAndThree
  FixedSize = 2
  ByteWeight <- ThreeBits
  Numbers <- EveryNumber
  Texts <- Strings
  MaxSent = 2
  Types = {"both"}
  Decimal = 3
  Hex = 2
  Max64 = 6
  MaxMark = 2
  MaxFlags = 2
SPECIFICATION DataSpec
CHECK_DEADLOCK FALSE
INVARIANTS
  DataTypeOK
  
  ParserAsserts
  CodingsAgree
PROPERTY
  ImplementsBytes
