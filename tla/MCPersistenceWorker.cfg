SPECIFICATION Spec
CONSTANTS
  NFrames = 5
  BlockLen = 2
  QueueCap = 2
  FlushLen = 3
INVARIANTS TypeOK FileIsStream NothingForgotten CacheBounded CrashLosesOnlyCache StopDrains
