------------------------------- MODULE Source -------------------------------
(***************************************************************************)
(* A signal source (src/analyzer/source.c) as a caller uses it: it builds  *)
(* a configuration (SourceConfig), calls suscan_source_new, which clones   *)
(* the configuration and opens a file (libsndfile) or an SDR (SoapySDR)    *)
(* with the clone, then reads blocks through suscan_source_read and        *)
(* finally destroys the source.                                            *)
(*                                                                         *)
(* A file read fills the caller's buffer of SUCOMPLEX samples through its  *)
(* SUFLOAT view (as_real): memory is modelled as that view, complex sample *)
(* k being as_real[2k] (real part) and as_real[2k+1] (imaginary part).     *)
(* For a mono file every real is then widened in place to a complex        *)
(* sample, walking the buffer backwards with an unsigned int index of      *)
(* Width bits, so "i >= 0" and "--i" behave as they do in the C code.      *)
(***************************************************************************)
EXTENDS SourceConfig

CONSTANTS
    FileChannels,   \* channel counts a WAV file may have
    BufSize,        \* SUSCAN_SOURCE_DEFAULT_BUFSIZ, in complex samples
    MaxReq,         \* largest max a caller passes
    FileLen,        \* reals in the file
    Width,          \* bits of unsigned int
    MaxReads,       \* reads one behaviour makes
    Garbage         \* what the buffer holds where nothing was written yet

ASSUME /\ FileChannels \subseteq {1, 2} /\ BufSize \in Nat \ {0}
       /\ MaxReq \in Nat /\ FileLen \in Nat /\ Width \in Nat \ {0}
       /\ MaxReads \in Nat

Word == 2 ^ Width

VARIABLES
    src,        \* "none" (not created yet), "open", "failed", "destroyed"
    why,        \* why suscan_source_new failed: "clone", "open" or "none"
    scfg,       \* source->config, the clone the source was opened with
    channels,   \* source->sf_info.channels
    mem,        \* the caller's buffer, as reals: 0 .. 2*BufSize-1
    req,        \* the max the caller passed to the current read
    got,        \* the count the read returns
    i,          \* the unsigned index of the widening loop
    pc,         \* "closed", "read", "widen", "done", "oob" (stray write)
    wrapped,    \* the widening loop has gone past index 0
    pos,        \* position in the file, in reals
    start,      \* position the current read started at
    reads       \* reads made so far

srcVars == <<src, why, scfg, channels, mem, req, got, i, pc, wrapped, pos,
             start, reads>>
vars == <<cfg, ops, srcVars>>

Reals == 0..(2 * BufSize - 1)

\* The value of the real at file position k (distinct, non-zero).
Sample(k) == k + 1

\* source->iq_file, set by open_file from the channel count.
IqFile == channels = 2

Init ==
    /\ ConfigInit
    /\ src = "none" /\ why = "none" /\ scfg = NULL /\ channels = 0
    /\ mem = [k \in Reals |-> Garbage]
    /\ req = 0 /\ got = 0 /\ i = 0 /\ wrapped = FALSE
    /\ pc = "closed"
    /\ pos = 0 /\ start = 0 /\ reads = 0

\* The caller configures before it creates the source; the source works on
\* its own clone, so later changes to cfg could not affect it.
Configure ==
    /\ src = "none"
    /\ ConfigStep
    /\ UNCHANGED srcVars

-----------------------------------------------------------------------------
(* open_file: without a path it fails.  WAV and AUTO try sf_open as an     *)
(* audio file, whose header gives the channel count and the sample rate    *)
(* (written back to the configuration); if that fails WAV gives up and     *)
(* AUTO falls through to RAW, which opens the file as 2-channel float at   *)
(* the configured rate, or fails.                                          *)
OpenFileOutcomes(c) ==
    LET fail == [ok |-> FALSE, channels |-> 0, samp_rate |-> c.samp_rate]
        wav  == {[ok |-> TRUE, channels |-> ch, samp_rate |-> r] :
                   ch \in FileChannels, r \in Vals}
        raw  == {[ok |-> TRUE, channels |-> 2, samp_rate |-> c.samp_rate], fail}
    IN  CASE c.path = NULL    -> {fail}
          [] c.format = "WAV"  -> wav \cup {fail}
          [] c.format = "AUTO" -> wav \cup raw
          [] OTHER             -> raw

(* open_sdr: SoapySDRDevice_make with the SDR arguments, then antenna (if  *)
(* set), gains (failures ignored), frequency, bandwidth, sample rate, DC   *)
(* offset mode, setupStream and activateStream; any of the checked calls   *)
(* may fail, which fails the open.                                         *)
OpenSdrOutcomes == BOOLEAN

(* suscan_source_new: the configuration is cloned, then the source of its  *)
(* type is opened; on any failure the source is destroyed and NULL is      *)
(* returned.                                                               *)
SourceNew ==
    /\ src = "none"
    /\ LET cl == Clone(cfg)
           Opened(c, ch) ==
             /\ src' = "open" /\ why' = "none" /\ scfg' = c /\ channels' = ch
             /\ pc' = "read"
           Failed(w) ==
             /\ src' = "failed" /\ why' = w
             /\ UNCHANGED <<scfg, channels, pc>>
       IN  CASE ~cl.ok -> Failed("clone")
             [] cl.cfg.type = "FILE" ->
                  \E r \in OpenFileOutcomes(cl.cfg) :
                     IF r.ok THEN Opened([cl.cfg EXCEPT !.samp_rate = r.samp_rate],
                                         r.channels)
                             ELSE Failed("open")
             [] OTHER ->
                  \E ok \in OpenSdrOutcomes :
                     IF ok THEN Opened(cl.cfg, 0) ELSE Failed("open")
    /\ UNCHANGED <<cfg, ops, mem, req, got, i, wrapped, pos, start, reads>>

-----------------------------------------------------------------------------
(* suscan_source_read_file                                                 *)

\* sf_read returns up to count of the reals left after position from.
SfRead(from, count) == IF FileLen - from < count THEN FileLen - from ELSE count

\* Mutant: an I/Q read returns the count of reals, not of samples.
ReadCount_NoHalve(n) == n

\* got >>= 1 unless the file is mono: two reals per complex sample.
ReadCount(n) == IF channels = 1 THEN n ELSE n \div 2

(* max is clamped to SUSCAN_SOURCE_DEFAULT_BUFSIZ; real_count is max, or   *)
(* 2*max for an I/Q file.  When sf_read returns 0 and the source loops,    *)
(* sf_seek goes back to the start (when it fails the read returns 0) and   *)
(* sf_read is called again.  A mono read then widens its reals.            *)
ReadFile ==
    /\ pc = "read" /\ scfg.type = "FILE"
    /\ reads < MaxReads
    /\ \E max \in 0..MaxReq, seek_ok \in BOOLEAN :
         LET m          == IF max > BufSize THEN BufSize ELSE max
             real_count == m * (IF IqFile THEN 2 ELSE 1)
             again      == SfRead(pos, real_count) = 0 /\ scfg.loop
             from       == IF again /\ seek_ok THEN 0 ELSE pos
             n          == IF again /\ ~seek_ok THEN 0 ELSE SfRead(from, real_count)
         IN  /\ again \/ seek_ok    \* without a seek, seek_ok is irrelevant
             /\ req' = max
             /\ mem' = [k \in Reals |-> IF k < n THEN Sample(from + k) ELSE mem[k]]
             /\ pos' = from + n
             /\ start' = from
             /\ got' = ReadCount(n)
             /\ i' = IF n > 0 /\ channels = 1 THEN (n - 1) % Word ELSE i
             /\ pc' = IF n > 0 /\ channels = 1 THEN "widen" ELSE "done"
    /\ reads' = reads + 1
    /\ UNCHANGED <<cfg, ops, src, why, scfg, channels, wrapped>>

\* Mutant: only the real part of buf[i] is stored.
Widen_RealOnly(m, k) == [m EXCEPT ![2 * k] = m[k]]

\* buf[i] = as_real[i]: the complex sample gets the real as real part and
\* zero as imaginary part.
Widen(m, k) == [m EXCEPT ![2 * k] = m[k], ![2 * k + 1] = 0]

(* for (i = got - 1; i >= 0; --i) buf[i] = as_real[i];                     *)
(* With i unsigned the condition always holds; a write to buf[i] beyond    *)
(* the buffer is recorded as pc = "oob".                                   *)
WidenStep ==
    /\ pc = "widen"
    /\ IF 2 * i + 1 <= 2 * BufSize - 1
       THEN /\ mem' = Widen(mem, i)
            /\ i' = (i + Word - 1) % Word
            /\ wrapped' = (wrapped \/ i = 0)
            /\ pc' = "widen"
       ELSE /\ pc' = "oob"
            /\ UNCHANGED <<mem, i, wrapped>>
    /\ UNCHANGED <<cfg, ops, src, why, scfg, channels, req, got, pos, start, reads>>

\* suscan_source_read_sdr: SoapySDRDevice_readStream returns up to max
\* samples, or a negative error, which is returned as SU_FALSE (0).
ReadSdr ==
    /\ pc = "read" /\ scfg.type = "SDR"
    /\ reads < MaxReads
    /\ \E max \in 0..MaxReq, result \in {-1} \cup 0..MaxReq :
         /\ result <= max
         /\ req' = max
         /\ got' = IF result < 0 THEN 0 ELSE result
    /\ pc' = "done"
    /\ reads' = reads + 1
    /\ UNCHANGED <<cfg, ops, src, why, scfg, channels, mem, i, wrapped, pos, start>>

\* suscan_source_read calls source->read, which suscan_source_new set to
\* read_file or read_sdr by the configuration's type once the open had
\* succeeded; it is never NULL for a source that new returned, so the -1
\* of the NULL check is never returned.
SourceRead == ReadFile \/ ReadSdr

\* The caller takes the samples and reads again.
Consume ==
    /\ pc = "done"
    /\ reads < MaxReads
    /\ pc' = "read"
    /\ UNCHANGED <<cfg, ops, src, why, scfg, channels, mem, req, got, i,
                   wrapped, pos, start, reads>>

\* suscan_source_destroy: sf_close or the SDR stream and device are
\* released, then the cloned configuration.
SourceDestroy ==
    /\ src = "open" /\ pc = "done"
    /\ src' = "destroyed"
    /\ pc' = "closed"
    /\ UNCHANGED <<cfg, ops, why, scfg, channels, mem, req, got, i, wrapped,
                   pos, start, reads>>

\* The caller is done, or the process has crashed on the stray write.
Stopped == (pc = "oob" \/ src \in {"failed", "destroyed"}) /\ UNCHANGED vars

Next == Configure \/ SourceNew \/ SourceRead \/ WidenStep \/ Consume
        \/ SourceDestroy \/ Stopped

Spec == Init /\ [][Next]_vars

-----------------------------------------------------------------------------
(* Walking backwards, the in-place widening never reads a real that an     *)
(* earlier iteration overwrote: once index 0 has been widened, every one   *)
(* of the got samples is a complex number whose real part is the sample    *)
(* read from the file and whose imaginary part is zero.                    *)
WidenedSamplesCorrect ==
    wrapped =>
        \A k \in 0..(got - 1) : mem[2 * k] = Sample(start + k) /\ mem[2 * k + 1] = 0

(* suscan_source_read never reports more samples than the caller asked     *)
(* for: the clamp to the default buffer size, the doubling for I/Q files   *)
(* and the halving of the count back to samples agree on every read.       *)
ReadCountWithinRequest == pc = "done" => got <= req

(* spec.md 9 (open question on the mono-file loop): the widening loop      *)
(* stops after index 0 and never writes outside the caller's buffer.       *)
WidenStaysInBuffer == pc # "oob"

(* The source is opened with the configuration the caller built, up to    *)
(* the sample rate a WAV header overrides: clone carries every member.     *)
OpenedWithCallersConfig ==
    src = "open" => scfg = [cfg EXCEPT !.samp_rate = scfg.samp_rate]

(* suscan_source_new fails only when the file or device cannot be opened,  *)
(* never in the clone of a valid configuration.                            *)
NewFailsOnlyOnOpen == src = "failed" => why # "clone"

(* suscan_source_new hands the caller's configuration to the source: both  *)
(* of the above.                                                           *)
ConfigReachesSource == OpenedWithCallersConfig /\ NewFailsOnlyOnOpen
=============================================================================
