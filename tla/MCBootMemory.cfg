CONSTANTS
  PageSize = 4
  NPte = 4
  NKernelPde = 4
  NStartPde = 2
  NAddresses = 64
  LowLimit = 8
  KernelEnd = 14
  EntrySize = 1
  Null = Null
  freelist = freelist
  bootlist = bootlist
  Maps <- SomeMaps
SPECIFICATION Spec
INVARIANTS
  PoolExact
  FreePagesCounted
  BootNeverFaults
  KernelMapKept
  KernelEverywhere
