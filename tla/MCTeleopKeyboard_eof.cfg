CONSTANTS
  Keys = {"w", "x"}
  AllKeys = {}
  Linear = 1
  Angular = 2
  Word = 2
  FrameId = 1
  SeqMod = 2
  OutCap = 9
  HupReadable = FALSE
  MaxKeys = 1
SPECIFICATION FairSpec
PROPERTY EOFStops
CHECK_DEADLOCK FALSE
