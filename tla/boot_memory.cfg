\* Sixteen pages of four bytes; a buddy map and any requests after boot.
SPECIFICATION Spec
CONSTANTS
  Capacity = 16
  BlockSize = 4
  EntrySize = 1
  Width = 8
  RamSizes = {62, 64}
  MmioRegions <- MCMmio
  KernelSizes = {25, 30}
  ImageEnds = {2, 7}
  RamDisks <- MCRamDisks
  Sizes = {0, 1, 5, 9}
INVARIANTS HighestTypeWins PagesPartitioned TagsMatchLists FailsOnlyWhenFragmented KernelMemoryKept
