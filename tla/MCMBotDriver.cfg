CONSTANTS
  Word = 2
  Sizes = {0, 14, 17}
  Lens = {0, 1}
  MaxAlloc = 16
  MaxFrames = 2
SPECIFICATION FairSpec
INVARIANTS TypeOK DriveFidelity Framing OneAfterRaise
PROPERTIES Stops EveryFrameTaken
CHECK_DEADLOCK FALSE
