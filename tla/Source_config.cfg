\* Two gain names, one string, the numbers 0 and 2 (0 is refused as an
\* average), the sample rate and the loop flag as the members a caller sets,
\* four configuration calls.  Files of 6 reals, mono or stereo, a buffer of
\* 3 complex samples, requests of up to 4 (so the clamp acts), up to 4
\* reads, a 16-bit unsigned index.  A read that hits the stray write ends
\* the process, a stop of its own.
CONSTANTS
  Names = {"lna", "vga"}
  Strs = {"s"}
  Vals = {0, 2}
  ScalarFields = {"samp_rate"}
  FlagFields = {"loop"}
  MaxOps = 4
  FileChannels = {1, 2}
  BufSize = 3
  MaxReq = 4
  FileLen = 6
  Width = 16
  MaxReads = 4
  Garbage = 99
SPECIFICATION Spec
INVARIANT ConfigReachesSource
