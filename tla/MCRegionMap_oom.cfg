\* No memory for a page table.
CONSTANTS
  a = a
  b = b
  Contexts = {a, b}
  NKernelPages = 20
  NFrames = 3
  NPte = 2
  NPde = 2
  NoRegion = NoRegion
  Regions <- OnePage
  Device <- NoDevice
  MaxOthers = 3
  LowMemory <- VectorPage
SPECIFICATION FairSpec
INVARIANTS
  SuccessMeansMapped
