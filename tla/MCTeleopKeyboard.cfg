CONSTANTS
  Keys = {"w", "Q", "x"}
  AllKeys = {"q", "Q", "w", "W", "e", "E", "a", "A", "s", "S", "d", "D", "space", "x", "1"}
  Linear = 1
  Angular = 2
  Word = 2
  FrameId = 1
  SeqMod = 2
  OutCap = 9
  HupReadable = TRUE
  MaxKeys = 3
SPECIFICATION FairSpec
INVARIANTS TypeOK OutputFidelity WholeFrames OneAfterRaise
PROPERTIES Stops
CHECK_DEADLOCK FALSE
