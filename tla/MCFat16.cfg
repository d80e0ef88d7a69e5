SPECIFICATION FatSpec
CONSTANTS
  PerSector = 2
  MinClusters = 2
  MaxClusters = 5
  BlockCount = 12
  Images <- MCImages
  Starts = {0, 1, 2}
  Names = {"a", "b"}
INVARIANTS FindAgrees LayoutInside
