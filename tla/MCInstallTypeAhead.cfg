SPECIFICATION Spec
CONSTANTS
  Disk = {d1, d2}
  SourceMedia <- MCSourceMedia
  DiskMedia <- MCDiskMedia
  Chunk = 4
  MaxChunk = 12
  MaxTyped = 2
INVARIANT ConfirmedAfterWarning
