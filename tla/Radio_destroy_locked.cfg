\* Fixed-size blocks, allocation failures allowed.  The behaviours in which
\* the audio thread blocks on the mutex hang (radio_realloc_hang); the end
\* states are not deadlocks of interest here.
CONSTANTS
  DataSizes = {2}
  MaxAlloc = 8
  ReallocMayFail = TRUE
SPECIFICATION Spec
INVARIANT MutexFreeWhenDestroyed
CHECK_DEADLOCK FALSE
