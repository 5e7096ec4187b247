CONSTANTS
  Pictures <- MCPictures
  MaxFrames = 6 MaxBatch = 2 Statics = {2} Hold = 1 RefWin = 3 FloorWin = 1 FloorStep = 2
  OffLevel = 1 OffFloor = 20 OffOn = 20 FullAbs = 0 FullShare = 20 EdgeShare = 50 LitEdge = 1
  DropWin = 3 RampWin = 1 Ramp = 1 Drop = 2 DropShare = 25
  BlinkMax = 1 BlinkGroup = 2 QuietMin = 1 JumpMin = 2 JumpTimes = 1 Margin = 1 Merge = 1 Settle = 1
  Day = 6 Back = 1 Fixed = 2 Columns = 4 Near = 1
  Forever = 14 MinStill = 2 MinBlack = 1
  EventTol = 1 OffAbs = 1 OffShare = 50 Early = 1 Late = 3 Gap = 2 Delay = 1 OffMargin = 0
  Shift = 1 MinBins = 2 Edge = 1 Diff = 2
  Reach = 2 Penalty = 1 MemoTol = 1 MemoLength = 1 ChangeTol = 1
SPECIFICATION AnalysisSpec
INVARIANTS JudgedAtMarks NoChangeInBlink FileIsRead ComparisonIsSound LeftOutIsExplained
CHECK_DEADLOCK FALSE
