CONSTANTS
  DataSizes = {2}
  MaxAlloc = 8
  ReallocMayFail = TRUE
SPECIFICATION Spec
PROPERTY ShutdownCompletes
CHECK_DEADLOCK FALSE
