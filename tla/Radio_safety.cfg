\* Fixed-size blocks, allocation failures allowed.  Blocks of one size
\* cannot overflow (radio_overflow varies them), so NoHeapOverflow is not
\* checked here.  An allocation failure
\* leaves the program hung (see Radio_realloc_hang.cfg), so the end states
\* of those behaviours are not reported as deadlocks here; the liveness
\* property covers every behaviour in which no allocation fails.
CONSTANTS
  DataSizes = {2}
  MaxAlloc = 8
  ReallocMayFail = TRUE
SPECIFICATION Spec
INVARIANT ResourcesReleasedOnce
PROPERTY ShutdownCompletesUnlessAllocFails
CHECK_DEADLOCK FALSE
