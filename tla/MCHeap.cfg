SPECIFICATION HeapSpec
CONSTANTS
  Unit = 8
  SizeMod = 1024
  NALLOC = 4
  Base = 1
  MemStart = 4
  MemLimit = 16
  Requests = {1, 25}
INVARIANTS
  NoLeak
  ListSound
PROPERTIES
  GrowsWhenFull
  Allocates
  CallsReturn
