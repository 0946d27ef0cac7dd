\* A window that lasts for the pages and a copy, and may end within the second.
\* After MaxCopies copies nothing happens.
CONSTANTS
  a = a
  b = b
  Contexts = {a, b}
  NKernelPages = 27
  NFrames = 7
  NPte = 2
  NPde = 2
  PageSize = 2
  KernelBytes = 4
  InUse = {0, 1}
  Mappable <- Pages
  MaxCopies = 2
SPECIFICATION FairCopySpec
INVARIANTS
  CopyExact
PROPERTIES
  CopyReturns
CHECK_DEADLOCK FALSE
