SPECIFICATION Spec
CONSTANTS
  MaxOrder = 2
  DmaLimit = 14
  LowMem = 2
  MetaPer = 8
  Users = {u1, u2}
  MaxRef = 2
  Threads = {t1, t2}
  PageUnits = 8
  SlabHdr = 3
  MaxPageOrder = 4
  MaxSlabs = 2
  MaxBlocks = 1
  Spaces = {"parent", "child"}
  Mappers = {"parent"}
  Top = 2
  MmapBase = 1
  Objs = {1, 2}
  Frames = {1, 2}
  MapProts = {{"write"}}
  Prots = {{}}
  Flags = {"private", "locked"}
  Hints = {0, 2}
  MaxLen = 2
  GrowLimit = 1
  Targets = {1}
  Lens = {1, 2, 4}
  MaxTables = 3
  MaxCalls = 3
  Caches = {1, 2}
  Contents = {"x"}
  Layers = {0, 1}
  MaxPages = 2
  PageBytes = 2
  Budget = 5
INVARIANTS FramesSound HeapSound SpacesSound PagesLive TranslationRight
PROPERTY BudgetKept
SYMMETRY Symmetry
CHECK_DEADLOCK FALSE
