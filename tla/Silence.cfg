SPECIFICATION Spec
CONSTANTS
  NumSources = 2
  MaskBits = 64
  NoSource = NoSource
  MaxStamp = 2
  Limit = 1
  First = 2
  Every = 2
INVARIANT TypeOK
PROPERTIES QuietMarketLetsNobodyGo OneBook BouncesSpaced DeadLeaderLetGo SilentIsReconnected
