----------------------------- MODULE TxCleanup -----------------------------
(***************************************************************************)
(* The backpressure classifier of the analyzer server's per-client         *)
(* delivery queue (src/cli/devserv/tx.c, "Cleanup callbacks").  When the   *)
(* queue grows past its cleanup watermark the message queue runs a pass    *)
(* over its entries, front to back: pre_cleanup builds a context,          *)
(* try_destroy is called once per entry and says whether the entry was     *)
(* consumed, post_cleanup re-injects the saved source-info message at the  *)
(* head of the queue (urgent write) and frees the context.                 *)
(*                                                                         *)
(* A queue entry is a record [type, id, kind]: type is the mq tag (MESSAGE *)
(* for a PDU, CANCEL for the NULL stop message), id names the buffer and   *)
(* kind is what the partial deserialisation of the PDU reveals.            *)
(***************************************************************************)
EXTENDS Naturals, Sequences, SequencesExt

\* What suscan_analyzer_remote_call_deserialize_partial and
\* suscan_analyzer_msg_deserialize_partial reveal of a PDU.
Kinds == { "source_info",    \* analyzer message SOURCE_INFO   (overridable)
           "psd",            \* analyzer message PSD           (discardable)
           "insp_spectrum",  \* inspector message, SPECTRUM kind (discardable)
           "insp_other",     \* inspector message, other kind  (critical)
           "other_msg",      \* any other analyzer message     (critical)
           "call" }          \* a remote call that is not a message (critical)

MessageEntry(id, k) == [type |-> "MESSAGE", id |-> id, kind |-> k]

\* suscli_analyzer_client_tx_thread_cancel(_soft) queue a CANCEL with a NULL
\* buffer.
CancelEntry == [type |-> "CANCEL", id |-> 0, kind |-> "none"]

\* Classification by the code comment above pre_cleanup.
Discardable(e) == e.type = "MESSAGE" /\ e.kind \in {"psd", "insp_spectrum"}
Overridable(e) == e.type = "MESSAGE" /\ e.kind = "source_info"
Critical(e)    == e.type = "MESSAGE" /\ e.kind \in {"insp_other", "other_msg", "call"}

-----------------------------------------------------------------------------
(* The cleanup context.  head_source_info is a sequence of at most one     *)
(* entry (the C pointer or NULL).                                          *)

PreCleanup == [head_source_info |-> <<>>, critical_reached |-> FALSE, discarded |-> 0]

\* Mutant: the first source-info message is kept instead of the latest.
SaveSourceInfo_KeepFirst(ctx, e) ==
    IF ctx.head_source_info = <<>>
    THEN [ctx EXCEPT !.head_source_info = <<e>>]
    ELSE ctx

\* cleanup_ctx_save_source_info: the previously saved buffer is freed and
\* replaced by the newer one.
SaveSourceInfo(ctx, e) == [ctx EXCEPT !.head_source_info = <<e>>]

Consumed(ctx) == [removed |-> TRUE, ctx |-> [ctx EXCEPT !.discarded = @ + 1]]
Kept(ctx)     == [removed |-> FALSE, ctx |-> ctx]
Barrier(ctx)  == [removed |-> FALSE, ctx |-> [ctx EXCEPT !.critical_reached = TRUE]]

\* Mutant: the default branch treats unknown analyzer messages as discardable.
TryDestroy_DropOther(ctx, e) ==
    IF e.type # "MESSAGE" THEN Kept(ctx)
    ELSE CASE e.kind = "source_info" /\ ~ctx.critical_reached ->
                Consumed(SaveSourceInfo(ctx, e))
         []   e.kind = "source_info"   -> Kept(ctx)
         []   e.kind \in {"psd", "insp_spectrum", "other_msg"} -> Consumed(ctx)
         []   OTHER                    -> Barrier(ctx)

\* Mutant: PSD messages are only dropped in front of the first critical one.
TryDestroy_PsdBeforeBarrier(ctx, e) ==
    IF e.type # "MESSAGE" THEN Kept(ctx)
    ELSE CASE e.kind = "source_info" /\ ~ctx.critical_reached ->
                Consumed(SaveSourceInfo(ctx, e))
         []   e.kind = "source_info"   -> Kept(ctx)
         []   e.kind \in {"psd", "insp_spectrum"} /\ ~ctx.critical_reached ->
                Consumed(ctx)
         []   e.kind \in {"psd", "insp_spectrum"} -> Kept(ctx)
         []   OTHER                    -> Barrier(ctx)

\* Mutant: a saved source-info message is not removed from the queue.
TryDestroy_SaveButKeep(ctx, e) ==
    IF e.type # "MESSAGE" THEN Kept(ctx)
    ELSE CASE e.kind = "source_info" /\ ~ctx.critical_reached ->
                Kept(SaveSourceInfo(ctx, e))
         []   e.kind = "source_info"   -> Kept(ctx)
         []   e.kind \in {"psd", "insp_spectrum"} -> Consumed(ctx)
         []   OTHER                    -> Barrier(ctx)

(* try_destroy: entries that are not MESSAGEs (the NULL CANCEL) are left   *)
(* alone and do not act as a barrier; source info in front of the first    *)
(* critical message is saved and consumed, after it is kept; PSD and       *)
(* inspector spectrum messages are always consumed; everything else sets   *)
(* the critical barrier and is kept.                                       *)
TryDestroy(ctx, e) ==
    IF e.type # "MESSAGE" THEN Kept(ctx)
    ELSE CASE e.kind = "source_info" /\ ~ctx.critical_reached ->
                Consumed(SaveSourceInfo(ctx, e))
         []   e.kind = "source_info"   -> Kept(ctx)
         []   e.kind \in {"psd", "insp_spectrum"} -> Consumed(ctx)
         []   OTHER                    -> Barrier(ctx)

\* Mutant: the saved source info is written at the tail (plain write).
PostCleanup_AtTail(kept, ctx) == kept \o ctx.head_source_info

\* post_cleanup: suscan_mq_write_urgent_unsafe puts the saved message at the
\* head of the queue.
PostCleanup(kept, ctx) == ctx.head_source_info \o kept

(* The mq's cleanup pass: every queued entry is offered to try_destroy in   *)
(* order and dropped when it says so, then post_cleanup runs.  The result   *)
(* is the new queue and the final context (its discard counter is logged).  *)
CleanupScan(q) ==
    LET Step(acc, e) ==
          LET r == TryDestroy(acc.ctx, e)
          IN  [kept |-> IF r.removed THEN acc.kept ELSE Append(acc.kept, e),
               ctx  |-> r.ctx]
    IN  FoldLeft(Step, [kept |-> <<>>, ctx |-> PreCleanup], q)

CleanupPass(q) ==
    LET s == CleanupScan(q) IN PostCleanup(s.kept, s.ctx)

CleanupDiscarded(q) == CleanupScan(q).ctx.discarded

=============================================================================
