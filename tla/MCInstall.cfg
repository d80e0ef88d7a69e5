SPECIFICATION Spec
CONSTANTS
  Disk = {d1, d2}
  SourceMedia <- MCSourceMedia
  DiskMedia <- MCDiskMedia
  Chunk = 4
  MaxChunk = 12
  MaxTyped = 3
INVARIANTS OnlyConsentedErase PrefixCopied CompleteMeansInstalled
PROPERTIES InstallAdvances InstallEnds
