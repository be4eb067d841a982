SPECIFICATION Spec
CONSTANTS
  NumSources = 2
  MaskBits = 64
  NoSource = NoSource
  Wsarb = Wsarb
  Common = Common
  MaxStamp = 2
  MaxFrames = 2
  MaxTime = 3
  FutureLimit = 0
  MaxAge = 1
  Window = 1
INVARIANTS TypeOK VerdictIsTrue
CHECK_DEADLOCK FALSE
