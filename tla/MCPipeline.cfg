CONSTANTS
  Keys = {"w", "Q"}
  Linear = 1
  Angular = 2
  Word = 1
  FrameId = 0
  SeqMod = 4
  OutCap = 3
  MaxKeys = 2
SPECIFICATION FairSpec
INVARIANTS DrivesWhatWasTyped StoppedAtTheEnd
PROPERTIES EachServesTheOther ProgramsEnd EveryKeyDrives
CHECK_DEADLOCK FALSE
