\* Two files on three data clusters, chained in any order.
SPECIFICATION Spec
CONSTANTS
  SectorsPerCluster = 2
  BytesPerSector = 2
  ReservedSectors = 3
  FatSectors = 3
  TotalSectors = 18
  FatEntriesPerSector = 3
  SlotsPerCluster = 6
  MaxContexts = 2
  Counts = {1, 2, 5}
  Disks <- MCDisks
  Paths <- MCPaths
INVARIANTS MountFindsFiles DeliversInOrder ReadsWhatIsDue LoadsWholeFile
