CONSTANTS
  Base = 2
  Word = 2
  ArrayLen = 2
  Buffers <- MCBuffers
  PktBase = 3
  MaxMsg = 3
  Tokens <- MCTokens
  Options <- MCOptions
  MaxAdds = 3
  MaxArgs = 3
  Most = 127
  Milli = 4
  Second = 10
  MostSec = 7
  MostMs = 15
  Operands <- MCOperands
  Periods <- MCPeriods
  Frequencies = {0, 4, 30}
  MaxNow = 6
  Cmds = {"go", "halt"}
  PacketLen = 3
SPECIFICATION PartsSpec
INVARIANTS TypeOK Unmixed CommandArrives Canonical FailsOnlyWhenShort ReceivedAsSent ParsedAsGiven ConversionsKeep NeverEarly
PROPERTY CallsReturn
CHECK_DEADLOCK FALSE
