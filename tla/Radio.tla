------------------------------- MODULE Radio -------------------------------
(***************************************************************************)
(* The "radio" command (src/cli/cmd/radio.c).  Three threads share         *)
(* struct suscli_radio_state:                                              *)
(*   - the capture thread, in which the channel loop calls                 *)
(*     suscli_radio_on_data_cb with each block of demodulated samples:     *)
(*     under state->mutex it grows audio_data_samples if needed and        *)
(*     appends the block, then returns FALSE once state->halting is set;   *)
(*   - the audio thread, in which the player calls                         *)
(*     suscli_radio_audio_play_cb (drain the buffer under the mutex unless *)
(*     halting) and, on a player error, suscli_radio_audio_error_cb;       *)
(*   - the main thread (suscli_radio_cb), which initialises the state     *)
(*     (parse the parameters, init the mutex, create the player, which     *)
(*     starts the audio thread), opens the channel loop, which starts the  *)
(*     capture, returns from suscli_chanloop_work when the capture stops,  *)
(*     and at its fail label marks the state halting, destroys the channel *)
(*     loop and finalizes the state (the player is destroyed, which waits  *)
(*     for the audio callback in progress, then the buffer and the mutex   *)
(*     are released and the state is zeroed).  state_init finalizes the    *)
(*     state itself when it fails, so a failed init is finalized twice.    *)
(* Sample values are not modelled, only counts.                            *)
(***************************************************************************)
EXTENDS Naturals

CONSTANTS
    DataSizes,      \* sizes of the blocks the channel loop delivers
    MaxAlloc,       \* bound on audio_data_alloc (and so on audio_data_len)
    ReallocMayFail  \* whether realloc() may return NULL

ASSUME DataSizes \subseteq Nat \ {0}
       /\ MaxAlloc \in Nat /\ ReallocMayFail \in BOOLEAN

VARIABLES
    mutex,      \* holder of state->mutex: "none", "capture" or "audio"
    len,        \* state->audio_data_len
    alloc,      \* state->audio_data_alloc
    overflow,   \* a memcpy wrote past audio_data_alloc
    halting,    \* state->halting
    cap,        \* control point of the capture thread
    size,       \* size of the block being delivered
    aud,        \* control point of the audio thread
    main,       \* control point of the main thread
    player,     \* state->player # NULL
    mutexInit,  \* state->mutex_initialized
    mutexObj,   \* the pthread mutex: "none", "live" or "destroyed"
    bufObj      \* the audio_data_samples block: "none", "live" or "freed"

vars == <<mutex, len, alloc, overflow, halting, cap, size, aud, main,
          player, mutexInit, mutexObj, bufObj>>

\* Variables the main thread's lifecycle owns.
lifeVars == <<player, mutexInit, mutexObj, bufObj>>

\* state_init starts with memset(state, 0): no thread runs yet.
Init ==
    /\ mutex = "none"
    /\ len = 0 /\ alloc = 0 /\ overflow = FALSE
    /\ halting = FALSE
    /\ cap = "none" /\ size = 0
    /\ aud = "none"
    /\ main = "parse"
    /\ player = FALSE /\ mutexInit = FALSE
    /\ mutexObj = "none" /\ bufObj = "none"

-----------------------------------------------------------------------------
(* suscli_radio_on_data_cb                                                 *)

\* The growth policy: the first allocation is exactly what is needed, later
\* ones double the previous allocation.
NewAlloc(l, s, a) == IF a = 0 THEN l + s ELSE 2 * a

NeedsGrowth(l, s, a) == l + s > a

Grown(l, s, a) == IF NeedsGrowth(l, s, a) THEN NewAlloc(l, s, a) ELSE a

\* pthread_mutex_lock(&state->mutex), with the block the loop delivers.
\* (Grown(len, s, alloc) >= len + s unless the growth policy is wrong.)
CaptureLock ==
    /\ cap = "idle"
    /\ mutex = "none"
    /\ \E s \in DataSizes :
         \* MaxAlloc bounds the blocks delivered before halting; once halting
         \* is set the call in progress is the last one, so it is not bounded.
         /\ ~halting => Grown(len, s, alloc) <= MaxAlloc
         /\ size' = s
    /\ mutex' = "capture"
    /\ cap' = "locked"
    /\ UNCHANGED <<len, alloc, overflow, halting, aud, main, lifeVars>>

\* Grow if needed, then memcpy at audio_data_len and add the block.  A copy
\* past audio_data_alloc is a heap overflow; the model records it.
CaptureCopy ==
    /\ cap = "locked"
    /\ alloc' = Grown(len, size, alloc)
    /\ overflow' = (overflow \/ len + size > Grown(len, size, alloc))
    /\ len' = len + size
    /\ mutex' = "none"
    /\ cap' = "unlocked"
    /\ bufObj' = IF NeedsGrowth(len, size, alloc) THEN "live" ELSE bufObj
    /\ UNCHANGED <<halting, size, aud, main, player, mutexInit, mutexObj>>

\* realloc() returned NULL: SU_TRYCATCH(..., return SU_FALSE) leaves the
\* callback with state->mutex still locked.
CaptureReallocFails ==
    /\ ReallocMayFail
    /\ cap = "locked"
    /\ NeedsGrowth(len, size, alloc)
    /\ cap' = "stopped"
    /\ UNCHANGED <<mutex, len, alloc, overflow, halting, size, aud, main, lifeVars>>

\* After the unlock: return !state->halting; the channel loop stops on FALSE.
CaptureReturn ==
    /\ cap = "unlocked"
    /\ cap' = IF halting THEN "stopped" ELSE "idle"
    /\ UNCHANGED <<mutex, len, alloc, overflow, halting, size, aud, main, lifeVars>>

\* The channel loop ends by itself (end of source, read error).
CaptureSourceEnds ==
    /\ cap = "idle"
    /\ cap' = "stopped"
    /\ UNCHANGED <<mutex, len, alloc, overflow, halting, size, aud, main, lifeVars>>

-----------------------------------------------------------------------------
(* suscli_radio_audio_play_cb and suscli_radio_audio_error_cb              *)

\* if (!state->halting) pthread_mutex_lock(...); a halting state makes the
\* callback return FALSE without touching the buffer.
AudioPlay ==
    /\ aud = "idle"
    /\ aud' = IF halting THEN "idle" ELSE "lock"
    /\ UNCHANGED <<mutex, len, alloc, overflow, halting, cap, size, main, lifeVars>>

AudioLock ==
    /\ aud = "lock"
    /\ mutex = "none"
    /\ mutex' = "audio"
    /\ aud' = "locked"
    /\ UNCHANGED <<len, alloc, overflow, halting, cap, size, main, lifeVars>>

\* Mutant: the mutex is not released after draining.
AudioDrain_NoUnlock ==
    /\ aud = "locked"
    /\ len' = 0
    /\ aud' = "idle"
    /\ UNCHANGED <<mutex, alloc, overflow, halting, cap, size, main, lifeVars>>

\* Copy min(audio_data_len, *len) samples out, drop the rest
\* (audio_data_len = 0) and unlock.  Sample counts are not tracked, so *len
\* does not appear.
AudioDrain ==
    /\ aud = "locked"
    /\ len' = 0
    /\ mutex' = "none"
    /\ aud' = "idle"
    /\ UNCHANGED <<alloc, overflow, halting, cap, size, main, lifeVars>>

\* suscli_radio_audio_error_cb -> suscli_radio_state_mark_halting
AudioError ==
    /\ aud = "idle"
    /\ ~halting
    /\ halting' = TRUE
    /\ UNCHANGED <<mutex, len, alloc, overflow, cap, size, aud, main, lifeVars>>

-----------------------------------------------------------------------------
(* suscli_radio_cb and suscli_radio_state_init                             *)

\* suscli_radio_params_parse: the profile may be missing or a parameter
\* invalid (an unknown demodulator, say); the failure is finalized by init.
MainParse ==
    /\ main = "parse"
    /\ \E ok \in BOOLEAN : main' = IF ok THEN "mutex" ELSE "initfail"
    /\ UNCHANGED <<mutex, len, alloc, overflow, halting, cap, size, aud, lifeVars>>

\* pthread_mutex_init(...) != -1: pthread_mutex_init returns an error
\* number, never -1, so the check always passes; mutex_initialized is set.
MainMutexInit ==
    /\ main = "mutex"
    /\ mutexInit' = TRUE
    /\ mutexObj' = "live"
    /\ main' = "player"
    /\ UNCHANGED <<mutex, len, alloc, overflow, halting, cap, size, aud, player, bufObj>>

\* suscli_audio_player_new starts the audio thread, which calls play_cb from
\* then on; when it fails, init finalizes the state.
MainPlayerNew ==
    /\ main = "player"
    /\ \/ /\ player' = TRUE /\ aud' = "idle" /\ main' = "open"
       \/ /\ main' = "initfail" /\ UNCHANGED <<player, aud>>
    /\ UNCHANGED <<mutex, len, alloc, overflow, halting, cap, size, mutexInit, mutexObj, bufObj>>

\* suscli_chanloop_open starts the capture; on failure: goto fail.
MainOpen ==
    /\ main = "open"
    /\ \/ /\ cap' = "idle" /\ main' = "work"
       \/ /\ main' = "fail" /\ UNCHANGED cap
    /\ UNCHANGED <<mutex, len, alloc, overflow, halting, size, aud, lifeVars>>

\* suscli_chanloop_work returns once on_data returned FALSE or the source
\* ended (ok or not, both reach the fail label).
MainWork ==
    /\ main = "work"
    /\ cap = "stopped"
    /\ main' = "fail"
    /\ UNCHANGED <<mutex, len, alloc, overflow, halting, cap, size, aud, lifeVars>>

\* fail: suscli_radio_state_mark_halting, then suscli_chanloop_destroy (the
\* capture has stopped).
MainHalt ==
    /\ main = "fail"
    /\ halting' = TRUE
    /\ main' = "finalize"
    /\ UNCHANGED <<mutex, len, alloc, overflow, cap, size, aud, lifeVars>>

\* Mutant: finalize releases the resources but does not zero the state.
MainFinalize_NoReset ==
    /\ main \in {"initfail", "finalize"}
    /\ player => aud = "idle"
    /\ aud' = IF player THEN "gone" ELSE aud
    /\ bufObj' = IF alloc > 0 THEN "freed" ELSE bufObj
    /\ mutexObj' = IF mutexInit THEN "destroyed" ELSE mutexObj
    /\ main' = IF main = "initfail" THEN "fail" ELSE "done"
    /\ UNCHANGED <<mutex, len, alloc, overflow, halting, cap, size, player, mutexInit>>

(* suscli_radio_state_finalize, from init's failure path or from the fail  *)
(* label: suscli_audio_player_destroy waits for the play callback in       *)
(* progress and ends the audio thread; the buffer is freed if non-NULL,    *)
(* the mutex destroyed if initialized, and the state zeroed by memset.     *)
MainFinalize ==
    /\ main \in {"initfail", "finalize"}
    /\ player => aud = "idle"
    /\ aud' = IF player THEN "gone" ELSE aud
    /\ bufObj' = IF alloc > 0 THEN "freed" ELSE bufObj
    /\ mutexObj' = IF mutexInit THEN "destroyed" ELSE mutexObj
    /\ len' = 0 /\ alloc' = 0 /\ halting' = FALSE
    /\ player' = FALSE /\ mutexInit' = FALSE
    /\ main' = IF main = "initfail" THEN "fail" ELSE "done"
    /\ UNCHANGED <<mutex, overflow, cap, size>>

Terminated == main = "done" /\ UNCHANGED vars

-----------------------------------------------------------------------------
MainStep == MainParse \/ MainMutexInit \/ MainPlayerNew \/ MainOpen \/ MainWork
            \/ MainHalt \/ MainFinalize

Next == CaptureLock \/ CaptureCopy \/ CaptureReallocFails \/ CaptureReturn
        \/ CaptureSourceEnds \/ AudioPlay \/ AudioLock \/ AudioDrain
        \/ AudioError \/ MainStep \/ Terminated

(* Every thread that can run is eventually scheduled; the player calls the *)
(* play callback periodically.  Whether the source ends or the player      *)
(* fails is not up to the program and is not fair.                         *)
Fairness ==
    /\ WF_vars(CaptureLock) /\ WF_vars(CaptureCopy) /\ WF_vars(CaptureReturn)
    /\ WF_vars(AudioPlay) /\ WF_vars(AudioLock) /\ WF_vars(AudioDrain)
    /\ WF_vars(MainStep)

Spec == Init /\ [][Next]_vars /\ Fairness

-----------------------------------------------------------------------------
(* on_data_cb never copies a block past the end of audio_data_samples:     *)
(* after any interleaving of captures and drains, the growth policy has    *)
(* made room for audio_data_len + size.                                    *)
NoHeapOverflow == ~overflow

(* Once the radio is halting (player error) or the capture has stopped     *)
(* (the callback returned FALSE, the source ended, an allocation failed),  *)
(* suscli_radio_cb finalizes the state and returns: no thread is left      *)
(* waiting for the mutex or for another thread.                            *)
ShutdownCompletes == (halting \/ cap = "stopped") ~> (main = "done")

\* The capture thread has returned from a failed realloc holding the mutex;
\* nothing in the program releases it afterwards.
AllocFailed == cap = "stopped" /\ mutex = "capture"

(* Every behaviour in which no realloc in on_data_cb fails shuts down:     *)
(* whatever the interleaving of capture, play and error callbacks, the     *)
(* halting flag read without the mutex and the player destroy waiting for  *)
(* the callback in progress never leave a thread waiting for ever.         *)
ShutdownCompletesUnlessAllocFails ==
    <>AllocFailed \/ ((halting \/ cap = "stopped") ~> (main = "done"))

(* suscli_radio_cb releases what it acquired exactly once, on every path:  *)
(* the state never points at a destroyed mutex or a freed buffer (a failed *)
(* init is finalized by state_init and again at the fail label, which is   *)
(* harmless only because finalize zeroes the state), and when the command  *)
(* returns the mutex and the buffer are released and the audio thread is   *)
(* gone.                                                                   *)
ResourcesReleasedOnce ==
    /\ mutexInit => mutexObj = "live"
    /\ alloc > 0 => bufObj = "live"
    /\ main = "done" => /\ mutexObj # "live" /\ bufObj # "live"
                       /\ aud \in {"none", "gone"}
(* suscli_radio_state_finalize destroys state->mutex only when no thread   *)
(* holds it (POSIX leaves destroying a locked mutex undefined): by then    *)
(* the channel loop has returned from on_data_cb and the player has been   *)
(* destroyed, so every lock taken has been released.                       *)
MutexFreeWhenDestroyed == mutexObj = "destroyed" => mutex = "none"
=============================================================================
