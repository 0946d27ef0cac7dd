\* Seven frames for four page tables and four pages, less what others take,
\* and a window that lasts for all regions and ends during the next call.
CONSTANTS
  a = a
  b = b
  Contexts = {a, b}
  NKernelPages = 34
  NFrames = 8
  NPte = 4
  NPde = 2
  NoRegion = NoRegion
  Regions <- Several
  Device <- LastFrame
  MaxOthers = 1
  LowMemory <- ClearPage
SPECIFICATION FairSpec
INVARIANTS
  FramesConserved
  SuccessMeansMapped
PROPERTIES
  PagesStay
  MapReturns
