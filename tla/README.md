# TLA+ models of suscan (analyzer server delivery, radio command, signal source)

This directory holds TLA+ models of the parts of `src/` whose behaviour
depends on threads interleaving, on queue policies, or on integer edge cases.
It also holds the TLC configurations that check the models. `PROJECT.json`
lists the components, runs, mutants, the map from definitions to source lines,
the findings and the hazards.

## The system and its parts

| Part | Source | Behaviour | Model |
|---|---|---|---|
| Per-client delivery thread | `src/cli/devserv/tx.c` | The server pushes serialized PDUs into a `suscan_mq`. A tx thread reads the queue, polls the socket and a cancel pipe, compresses large PDUs, and sends each PDU as a header plus chunks. A hard `stop` sets `thread_cancelled`, queues an urgent CANCEL and writes a pipe byte. A soft `stop_soft` queues CANCEL at the tail. `finalize` joins the thread and frees the queue. | `TxThread`, `MC_TxThread` |
| Backpressure classifier | `tx.c`, "Cleanup callbacks" | Once the queue passes `SUSCLI_ANALYZER_CLIENT_TX_CLEANUP_WATERMARK`, the mq runs a cleanup pass. `pre_cleanup`, `try_destroy` (once per entry) and `post_cleanup` drop PSD and inspector-spectrum messages. They also drop source-info messages in front of the first critical message and re-inject the latest of those at the head. | `TxCleanup`, `MC_TxCleanup` |
| Typed message queue | `src/util/mq.c` (not in this tree) | Write, urgent write, blocking read, and the cleanup pass with its watermark. | Operators `MqWrite`, `MqWriteUrgent`, `MqCleanup`, `CleanupScan`, modelled from spec.md 4.3 |
| Radio command | `src/cli/cmd/radio.c` | The capture thread's `on_data_cb` appends samples to a shared growable buffer under a mutex. The audio thread's `play_cb` drains it and `error_cb` marks the state halting. The main thread initialises the state (parameters, mutex, audio player), opens and runs the channel loop, and at its fail label halts, destroys the channel loop and finalizes; a failed init is finalized twice. | `Radio` |
| Source configuration | `src/analyzer/source.c`, "Source Config API" | `suscan_source_config_new`, the setters, the gain list (`lookup_gain`, `assert_gain`, `set_gain`) and `clone`. `to_object` serialises; `from_object` is a stub. | `SourceConfig` (no serialisation) |
| Signal source | `source.c` | `suscan_source_new` clones the configuration and opens a file (libsndfile, WAV with RAW fallback) or an SDR (SoapySDR). `read_file` clamps the request, calls `sf_read` (seeking back to the start when looping), halves the count for I/Q files and widens mono reals into complex samples in place, walking backwards. `read_sdr` reads the stream. `destroy` releases everything. | `Source` (EXTENDS `SourceConfig`) |
| Inspector, GUI inspector, CBOR | `*.h` | Declarations and two inline helpers; the code is not in this tree. | not modelled |

The tx thread is the only component with a consumer on another thread than its
producer. The cleanup callbacks run inside the producer's (or stopper's) call to
the mq. `TxThread` therefore composes three modules: it EXTENDS `TxCleanup` and
applies `CleanupPass` inside every write once the queue passes the watermark.
`DeliveryChannel` states what the three promise together, and `TxThread`
refines it. `Source` composes a configuration built by the caller with the
source that `suscan_source_new` makes from its clone.

## Modules and how they correspond to the code

**TxCleanup** is a set of pure operators and has no variables.
- An entry is `[type, id, kind]`:
  - `type` is the mq tag, MESSAGE or the NULL CANCEL;
  - `kind` is what partial deserialisation reveals: source info, PSD, inspector spectrum, inspector other, other message, or a non-message call.
- `PreCleanup` is the context.
- `SaveSourceInfo`, `TryDestroy` (with `Consumed`, `Kept`, `Barrier`) and `PostCleanup` translate the callbacks branch by branch.
- `CleanupScan` folds `TryDestroy` over the queue, as the mq does.

**MC_TxCleanup** takes every queue of up to `MaxLen` entries (`Queues`). `PolicyHolds` compares the pass on each of them with `RefCleanup`, a reference written from the policy comment in tx.c (lines 393-416). The pass is a function of the queue, so `PolicyHolds` is a constant formula, and TLC evaluates it once when a run starts. `MC_TxThread` extends this module. Its invariant `CleanupMatchesPolicy` states `PolicyHolds`, and also that the delivery queue never grows past `MaxLen`, so every cleanup pass the thread model performs is one of the checked ones.

**TxThread** has these variables:
- `queue`;
- the tx thread's control point `tx`;
- the buffer it holds, `held`;
- `magic` and `left`, the bytes of the PDU still to send;
- `cancelled`, `pipe` and `running`, which are the fields of `struct suscli_analyzer_client_tx_thread`;
- the stopper's control point `st`;
- the socket as the peer leaves it, `sock`;
- two history variables: `log`, the PDUs pushed, and `wire`, the header and chunk events the peer received.

There is one action per step of the code:
- The tx thread:
  - `TxRead`: `suscan_mq_read`; a CANCEL ends the loop.
  - `TxPollCancelled` / `TxPollHangup`: the poll outcomes.
  - `TxWritePlain` / `TxWriteCompressed` / `TxDeflateFails`: `write_buffer` and its compression decision, `size > compress_threshold`.
  - `TxSendHeader`: the header send.
  - `TxChunkCheck`: the chunk loop's condition `size > 0 && !thread_cancelled` (tx.c:120), checked before every chunk.
  - `TxSendChunk`: one chunk's `helper_send`. It blocks while the socket is full and looks at neither `thread_cancelled` nor the pipe.
  - `TxSendFails`: `send` returns 0 or -1.
  - `TxWriteDone`: the loop has ended (all sent, or cancelled); `dispose_buffer`.
  - `TxExit`: the `done:` label.
- The stopper: `StopBegin` / `StopSoftBegin`, then `CancelFlag`, `CancelUrgent`, `CancelPipe` in the order of `cancel`, or `SoftWrite`, then `Join` and `Finalize`.
- The producer: `Push`.
- `TxPollFails`: `poll` returning -1 (a signal, EINTR), enabled by `PollMayFail`; like every failure in the loop it goes to `done`.
- The peer, which is not code: `SockFill`, `SockDrain`, `SockHangup`. The tx thread is the socket's only writer, so the send buffer can fill only during one of its chunk sends: `SockFill` is enabled only in the `send` step. POLLOUT leaves room for more than the 8-byte header.

Payloads are sizes in bytes. A deflated size is any non-zero size.

**Radio** has a variable for each field of `struct suscli_radio_state` that the threads share: `mutex` (its holder), `len`, `alloc` and `halting`. It has a control point per thread. `overflow` records a `memcpy` past `audio_data_alloc`. The actions split `on_data_cb` at its lock and unlock: `CaptureLock`, `CaptureCopy` (grow, copy, unlock), `CaptureReallocFails` and `CaptureReturn`. They split `play_cb` into `AudioPlay` (the unlocked halting check), `AudioLock` and `AudioDrain`. The main thread follows `suscli_radio_state_init` and `suscli_radio_cb`:
- `MainParse`: parameter parsing, which may fail.
- `MainMutexInit`: the `!= -1` check cannot see a failure, so it always proceeds.
- `MainPlayerNew`: starts the audio thread, or fails.
- `MainOpen`: the channel loop, which starts the capture, or fails.
- `MainWork`: `suscli_chanloop_work` returns once the capture has stopped.
- `MainHalt`: the fail label's `mark_halting`.
- `MainFinalize`: `suscli_radio_state_finalize`. The player destroy waits for the callback in progress, then the buffer is freed and the mutex destroyed if the fields say so, then the state is zeroed. State_init calls it on its own failure, and the fail label calls it again.

`player` and `mutexInit` are the state's fields. `mutexObj` and `bufObj` track the objects they refer to.

**DeliveryChannel** is the abstract contract of the delivery path, with no queue, thread or socket. Its variables are:
- `pushed`, the PDUs accepted;
- `pending`, those neither delivered nor dropped;
- `delivered`;
- `closing`.

Its actions are:
- `Accept`: append a PDU, then optionally shed;
- `Shed`;
- `Deliver`: the head of `pending`;
- `Close`;
- `Abandon`: the PDU in hand or all of `pending`, only once closing.

`Sheds(s)` is the set of order-preserving subsequences of `s` that keep every critical PDU and the last source info.

`TxThread` maps onto it with `Channel == INSTANCE DeliveryChannel WITH ...`:
- `pushed` is `log`;
- `pending` is the PDU the tx thread holds before its header is sent, followed by the MESSAGE entries of the queue;
- `delivered` is the PDUs whose header was sent;
- `closing` is "the stopper has started or the socket is closed".

`ChannelSpec == Channel!Spec` is checked as a PROPERTY.

**SourceConfig** has a record `cfg` with one field per member of `suscan_source_config_t`. It has one action per kind of setter, plus `AssertGain` and `SetGain`. `ops` bounds the calls. The operators are:
- `ConfigNew`;
- `LookupGain`;
- `AssertedGain`: `keyval_new` never stores `val`, so the new gain's value is a nondeterministic choice;
- `SetGainIn`;
- `Clone`: a fold of `set_gain` over the gains on a fresh configuration, then the numeric and boolean members. It does not copy `loop` or the SDR arguments, as in the code.

**Source** extends it:
- `Configure` is a configuration call made before the source exists.
- `SourceNew` clones the configuration. It then opens the file, whose outcomes come from `OpenFileOutcomes`: a missing path fails; WAV and AUTO try the audio header, which sets the channel count and the sample rate; AUTO falls back to RAW, which opens 2 channels. Or it opens the SDR, which succeeds or fails.
- The caller's buffer is its `as_real` view: reals `0..2*BufSize-1`.
- `ReadFile` is `read_file` up to the loop. It clamps, computes `real_count`, calls `sf_read`, and on loop seeks and reads again; a failed seek returns 0.
- `WidenStep` is one iteration of `for (i = got - 1; i >= 0; --i) buf[i] = as_real[i]`, where `i` is an unsigned integer of `Width` bits. A write outside the buffer is recorded as `pc = "oob"`.
- `ReadSdr` returns up to `max` samples, or 0 on a stream error.
- `SourceRead` is `suscan_source_read`: it dispatches to `read_file` or `read_sdr`, whichever `suscan_source_new` installed. The pointer is never NULL for a source that `new` returned.
- `Consume` is the caller asking for the next block.
- `SourceDestroy`.

## Runs

| Run | Checks | Shows |
|---|---|---|
| `tx_safety` (pass) | `TypeOK`, `CriticalInOrder`, `NoDuplicatePdu`, `SourceInfoMonotonic`, `LatestSourceInfoKept` | Cleanup passes, pushes, stops, peer failures and interrupted polls interleave in every order (about 2.2M distinct states). Critical PDUs reach the peer as a gap-free prefix of those pushed. No PDU is framed twice. Source info never goes backwards, although post_cleanup moves it to the head. The latest source info is never lost while the thread lives. |
| `tx_stop` (pass) | `CleanupMatchesPolicy`, `StopCompletes`, `ChannelSpec` | The cleanup pass keeps exactly what the tx.c comment says, for every queue of up to 6 entries of 7 kinds (137257 queues). With a peer that keeps reading, every hard or soft stop ends finalized. With compression off, every step of push, cleanup, the tx thread and the stopper is a `DeliveryChannel` step: critical PDUs and the latest source info are never shed, nothing is reordered or framed twice, and nothing is abandoned before a stop or a hangup. |
| `tx_cancel_header` (violation) | `NoHeaderAfterCancel` | The thread holds a PDU when `thread_cancelled` is set. It finishes that PDU and reads the next one before the urgent CANCEL is queued. The pipe is still empty, so it sends the next PDU's header. |
| `tx_stalled_peer` (violation) | `HardStopCompletes` | A hard stop hangs when the peer stops reading while the thread is blocked in a chunk's `send()`. The flag, the urgent CANCEL and the pipe byte all arrive, and none of them reaches `helper_send`. |
| `tx_deflate_failure` (violation) | `ExitOnlyOnStopOrTransportError` | A deflate failure ends the delivery thread instead of falling back to raw. |
| `radio_safety` (pass) | `ResourcesReleasedOnce`, `ShutdownCompletesUnlessAllocFails` | On every path, init failures included, the state never refers to a destroyed mutex or a freed buffer. When the command returns, both are released and the audio thread is gone; the double finalize after a failed init is harmless only because of the memset. Every behaviour in which no realloc fails leads from a halt or the end of the capture to finalize. |
| `radio_overflow` (violation) | `NoHeapOverflow` | With block sizes 1 and 3, doubling the allocation is not enough and the copy overflows. |
| `radio_realloc_hang` (violation) | `ShutdownCompletes` | A failed realloc leaves the mutex locked and shutdown hangs. |
| `radio_destroy_locked` (violation) | `MutexFreeWhenDestroyed` | This is the other outcome of the same failed realloc. If the audio thread's next play callback comes after `mark_halting`, the callback never locks and the player is destroyed. Finalize then calls `pthread_mutex_destroy` on the mutex the capture thread still holds, which POSIX leaves undefined (10 states, three threads). |
| `source` (pass) | `WidenedSamplesCorrect`, `ReadCountWithinRequest`, `GainNamesUnique` | The backwards in-place widening is correct down to index 0. No read, file or SDR, reports more samples than requested across clamping and I/Q doubling and halving. The gain list never repeats a name, however the configuration calls interleave (228054 states). |
| `source_widen_oob` (violation) | `WidenStaysInBuffer` | The unsigned index wraps and the loop writes past the buffer. |
| `source_config_lost` (violation) | `ConfigReachesSource` | The property has two conjuncts, and each breaks in 3 states. TLC reports whichever a worker reaches first. `NewFailsOnlyOnOpen`: with a gain set, `clone`'s `set_gain` fails, and so does `suscan_source_new`. `OpenedWithCallersConfig`: a configuration with `loop` set opens with `loop` cleared, because `clone` copies neither `loop` nor the SDR arguments. |

Each property of a passing run has a mutant in `PROJECT.json`: a plausible bug in the mapped code that TLC finds.

**The spec's cleanup example.** spec.md section 8 gives a worked cleanup example whose result differs from the code. On [SI A, PSD B, critical C, SI D, PSD E]:
- the code keeps `<<A, C, D>>`, with 3 discards counted. It drops every PSD message and re-injects A.
- the spec says C, D and E are kept, with 2 discards.

`RefCleanup` follows the code comment, and `CleanupMatchesPolicy` confirms that the code does what that comment says.

## Bounds

**MC_TxCleanup** (`MaxLen = 6`, in every MC_TxThread cfg): every queue of up to 6 entries over the 6 kinds and CANCEL. The queues of `tx_stop` hold at most 3 entries with the entry being written. That leaves room for two source infos and a PSD in front of the barrier, and for more behind it.

**TxThread** (MC_TxThread):
- 3 PDUs, with a cleanup watermark of 2. A pass runs on the third push, and also on a CANCEL written to a queue of 2.
- Kinds: source info, PSD and other message. These cover the three classes.
- Sizes: {0, 1, 3}, with 2-byte chunks and a compression threshold of 2. This gives an empty PDU, a single partial chunk and a compressed PDU.
- `tx_stop` and the violation runs use 2 PDUs, which is enough for a PDU in flight and one queued. With 3 PDUs, `tx_stop`'s liveness check takes about 15 minutes. With 2, a cleanup pass still runs under the refinement check when the CANCEL is written to a queue of 2. Of the tx runs, only `tx_safety` enables poll failures. The others leave them off, so each isolates one question. So no run checks the silent exit on an interrupted poll (hazard at tx.c:208) against a property it breaks.
- `tx_stop` sets `compress_threshold` to 0, which disables compression in the code. With compression on, a deflate failure abandons PDUs while the channel is open, and `ChannelSpec` fails for the reason `tx_deflate_failure` already shows. An interrupted poll makes it fail the same way.

**Radio**:
- `MaxAlloc = 8` allows three doublings.
- Block sizes are {2} for the passing runs and {1, 3} to show the overflow.

**Source** (one set of constants for all three runs):
- Two gain names, one string, values {0, 2}: enough for two gains to exist and for a gain to be asserted twice.
- The caller makes 4 configuration calls: enough to set a path, two gains and `loop`, or to assert a gain twice between other calls.
- Only `samp_rate` and `loop` among the numeric and flag members; the others are copied alike by `clone`.
- WAV files of 1 or 2 channels.
- The buffer holds 3 complex samples, and requests go up to 4 so that the clamp acts.
- The file holds 6 reals, and a behaviour makes up to 4 reads, so reads reach the end of the file.
- Because `clone` drops `loop`, a source made by `suscan_source_new` never loops, and the seek branch of `ReadFile` is unreachable in this composition.
- `Width = 16` keeps the wrap small, and the wrap behaves the same at 32 bits.

## Fairness

The tx thread and the stopper are threads of the process, so they get weak fairness. A blocked `send` or `poll` returns whenever the socket becomes writable, so it gets strong fairness: the peer may make the socket writable only intermittently.

The producer, the server's decision to stop and the peer get no fairness. `tx_stop` adds `WF(SockDrain)`, a peer that keeps reading. Without it, stop does not complete; `tx_stalled_peer` shows this.

In Radio every thread step is weakly fair. The end of the source and player errors are not.

A signal interrupting `poll` is an event of the environment, so `TxPollFails` gets no fairness.

`DeliveryChannel` and `Source` are checked for safety only. Nothing in `source.c` runs on its own: the caller drives every step.

## Not modelled

- **The mq implementation.** It is not in this tree; its write and cleanup are modelled from the spec.
- **poll timeouts.** `poll` is called with no timeout, so there is none to model. An interrupted poll is `TxPollFails`.
- **Parameter values and on_open_cb in radio.c.** Parsing is modelled by its outcome, success or failure. `on_open_cb` only writes configuration. `start_cb` stores a sample rate nobody reads, and `stop_cb` is a no-op.
- **Inspector (`src/analyzer/inspector/inspector.h`).** The header holds the inspector struct and inline accessors: `push_sample` and `set_msg_watermark` bound the sampler pointer and watermark by the buffer size, and `feed_sc_sample` feeds the sub-tuner under its mutex. The sampler loop, factory and lifecycle that use them are in `inspector.c`, which is not in this repository. A model of those inline helpers would restate their guards, and the loop around them would come from spec.md alone.
- **GUI inspector and CBOR headers.** They hold declarations only; the code is not in this repository.
- **Inside the source opens.** The libsndfile and SoapySDR calls are outside the tree. `open_file` is modelled by its outcomes, and `open_sdr` by success or failure.
- **`to_object` and `from_object`.** `suscan_object_t` is not in this tree, and `from_object` returns NULL. The `to_object` label/path mix-up is listed as a hazard.
- **Getters.** They change no state, and `get_gain` of a missing name returns 0.
- **Headers.** They hold declarations only.

## Plan for later sittings

1. **A keyval_new run.** `keyval_new` never stores `val` (source.c:62). This bug needs a violation run of its own, and so do the `mutex_init` check (radio.c:323) and the `to_object` label/path mix-up (source.c:503). The project keeps at most 12 runs. `cleanup_policy` has already been folded into `tx_stop` to make room for `radio_destroy_locked`, so one more run would have to be retired.
2. **Larger instances**: 4 PDUs for `tx_safety`, if run time allows (3 take about 95 s).
