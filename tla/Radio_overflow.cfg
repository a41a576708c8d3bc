CONSTANTS
  DataSizes = {1, 3}
  MaxAlloc = 8
  ReallocMayFail = FALSE
SPECIFICATION Spec
INVARIANT NoHeapOverflow
