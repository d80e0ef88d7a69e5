CONSTANTS
  Map <- MCMap
  MinPage = 3
  Reserved <- MCReserved
  RecycleCap = 3
  Conventional = "conv"
  Frames <- MCFrames
  MaxStale = 1
SPECIFICATION Spec
INVARIANTS
  EveryPageOnce
  UsedCountsHeld
  FailsOnlyWhenExhausted
  FreePagesCover
