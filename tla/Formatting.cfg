CONSTANTS
  SizeLimit = 1000
  TicksPerSecond = 2
  LocalTime <- MCLocalTime
  Terminals = 2
  Patterns <- MCPatterns
  MsgSizes <- MCMsgSizes
  MaxMessages = 2
  MaxPatterns = 1
  LastTime = 4
  MaxInt = 127
  CharBits = 4
  ShortBits = 6
  IntBits = 8
  WordBits = 12
  Buffers = {b1, b2}
  Blocks = {k1, k2, k3}
  InlineSize = 2
  Texts <- MCTexts
  Inline = Inline
  MaxText = 4
SPECIFICATION FormattingSpec
INVARIANTS  TextsParsed ValuesWritten BuffersSound
CHECK_DEADLOCK FALSE
