------------------------------ MODULE TxThread ------------------------------
(***************************************************************************)
(* One per-client delivery thread of the analyzer server                   *)
(* (src/cli/devserv/tx.c) together with the threads that talk to it:      *)
(*   - the producer, which pushes serialized PDUs                          *)
(*     (suscli_analyzer_client_tx_thread_push / push_zerocopy);            *)
(*   - the tx thread (suscli_analyzer_client_tx_thread_func), which reads  *)
(*     the queue, polls the socket and the cancel pipe, frames the PDU and *)
(*     sends it in chunks of SUSCAN_REMOTE_READ_BUFFER bytes;              *)
(*   - the stopper, which calls stop (hard: flag, urgent CANCEL, pipe      *)
(*     byte) or stop_soft (CANCEL at the tail), joins and finalizes;       *)
(*   - the remote peer, which may stop reading (socket full), read again   *)
(*     or hang up.                                                         *)
(* The queue is a suscan_mq with the cleanup callbacks of TxCleanup and    *)
(* the cleanup watermark SUSCLI_ANALYZER_CLIENT_TX_CLEANUP_WATERMARK.      *)
(* The buffer pool (self->pool) only recycles grow_buf_t structs and is    *)
(* folded into push and dispose.                                           *)
(***************************************************************************)
EXTENDS TxCleanup, FiniteSets

CONSTANTS
    NumMsgs,            \* PDUs the producer pushes in a behaviour
    MsgKinds,           \* kinds of PDU the producer may push (subset of Kinds)
    Sizes,              \* payload sizes (bytes) a PDU, raw or deflated, may have
    ReadBuffer,         \* SUSCAN_REMOTE_READ_BUFFER: bytes per chunk
    CompressThreshold,  \* self->compress_threshold (0 disables compression)
    CleanupWatermark,   \* SUSCLI_ANALYZER_CLIENT_TX_CLEANUP_WATERMARK
    PollMayFail         \* a signal may interrupt poll (EINTR)

ASSUME /\ NumMsgs \in Nat /\ MsgKinds \subseteq Kinds
       /\ Sizes \subseteq Nat /\ ReadBuffer \in Nat \ {0}
       /\ CompressThreshold \in Nat /\ CleanupWatermark \in Nat
       /\ PollMayFail \in BOOLEAN

VARIABLES
    queue,      \* self->queue: sequence of TxCleanup entries
    log,        \* history: the PDUs pushed so far, in push order (id = index)
    sizeOf,     \* payload size of each pushed PDU
    tx,         \* control point of the tx thread
    held,       \* the buffer the tx thread holds: <<>> or <<entry>>
    magic,      \* magic of the PDU being sent
    left,       \* payload bytes of that PDU still to send
    cancelled,  \* self->thread_cancelled
    pipe,       \* bytes in self->cancel_pipefd
    running,    \* self->thread_running
    st,         \* control point of the stopper
    sock,       \* state of the client socket as the peer leaves it
    wire,       \* what the peer has received: header and chunk events
    inFlight    \* history: id of the PDU held when thread_cancelled was set

vars == <<queue, log, sizeOf, tx, held, magic, left, cancelled, pipe,
          running, st, sock, wire, inFlight>>

TxPcs == {"read", "poll", "header", "chunk", "send", "exit", "finished"}
StPcs == {"idle", "cancel_flag", "cancel_urgent", "cancel_pipe", "soft_write",
          "join", "finalize", "stopped"}
Entry == [type : {"MESSAGE", "CANCEL"}, id : Nat, kind : Kinds \cup {"none"}]
WireEvent == [ev : {"hdr"}, id : Nat, magic : {"plain", "compressed"}]
               \cup [ev : {"data"}, id : Nat]

MinOf(a, b) == IF a < b THEN a ELSE b

MaxSizeOf == CHOOSE m \in Sizes : \A n \in Sizes : n <= m

-----------------------------------------------------------------------------
(* suscan_mq (src/util/mq.c is not part of this source tree; modelled from  *)
(* spec.md 4.3): a write appends, an urgent write prepends, and once the    *)
(* number of queued entries exceeds the cleanup watermark the cleanup pass  *)
(* runs inside the same critical section.                                   *)

MqCleanup(q) == IF Len(q) > CleanupWatermark THEN CleanupPass(q) ELSE q

MqWrite(q, e) == MqCleanup(Append(q, e))

MqWriteUrgent(q, e) == MqCleanup(<<e>> \o q)

-----------------------------------------------------------------------------
Init ==
    /\ queue = <<>>
    /\ log = <<>>
    /\ sizeOf = <<>>
    /\ tx = "read"
    /\ held = <<>>
    /\ magic = "plain"
    /\ left = 0
    /\ cancelled = FALSE
    /\ pipe = 0
    /\ running = TRUE
    /\ st = "idle"
    /\ sock = "ok"
    /\ wire = <<>>
    /\ inFlight = 0

\* Mutant: the PDU is queued with an urgent write, ahead of older ones.
Push_Urgent ==
    /\ Len(log) < NumMsgs
    /\ st \notin {"finalize", "stopped"}
    /\ \E k \in MsgKinds, s \in Sizes :
         LET e == MessageEntry(Len(log) + 1, k)
         IN  /\ queue' = MqWriteUrgent(queue, e)
             /\ log' = Append(log, e)
             /\ sizeOf' = Append(sizeOf, s)
    /\ UNCHANGED <<tx, held, magic, left, cancelled, pipe, running, st, sock, wire, inFlight>>

(* push / push_zerocopy: a buffer is taken from the pool (or allocated),    *)
(* the PDU is transferred into it and written to the queue.  The server     *)
(* stops pushing once the client is being finalized.                        *)
Push ==
    /\ Len(log) < NumMsgs
    /\ st \notin {"finalize", "stopped"}
    /\ \E k \in MsgKinds, s \in Sizes :
         LET e == MessageEntry(Len(log) + 1, k)
         IN  /\ queue' = MqWrite(queue, e)
             /\ log' = Append(log, e)
             /\ sizeOf' = Append(sizeOf, s)
    /\ UNCHANGED <<tx, held, magic, left, cancelled, pipe, running, st, sock, wire, inFlight>>

-----------------------------------------------------------------------------
(* The tx thread.                                                          *)

\* suscan_mq_read blocks until an entry is queued.  The CANCEL entry carries
\* a NULL buffer, which ends the while loop.
TxRead ==
    /\ tx = "read"
    /\ queue # <<>>
    /\ queue' = Tail(queue)
    /\ IF Head(queue).type = "CANCEL"
       THEN tx' = "exit" /\ held' = <<>>
       ELSE tx' = "poll" /\ held' = <<Head(queue)>>
    /\ UNCHANGED <<log, sizeOf, magic, left, cancelled, pipe, running, st, sock, wire, inFlight>>

\* poll() on the socket (POLLOUT) and the cancel pipe (POLLIN) returns once
\* either is ready; the pipe is checked first and its byte consumed.
TxPollCancelled ==
    /\ tx = "poll"
    /\ pipe > 0
    /\ pipe' = pipe - 1
    /\ tx' = "exit"
    /\ UNCHANGED <<queue, log, sizeOf, held, magic, left, cancelled, running, st, sock, wire, inFlight>>

\* POLLERR/POLLHUP on the socket: "Impossible to write to this fd, give up".
TxPollHangup ==
    /\ tx = "poll"
    /\ pipe = 0
    /\ sock = "closed"
    /\ tx' = "exit"
    /\ UNCHANGED <<queue, log, sizeOf, held, magic, left, cancelled, pipe, running, st, sock, wire, inFlight>>

\* poll returns -1 (a signal interrupted it, EINTR): SU_TRYCATCH goes to
\* done, dropping the buffer in hand, whatever the state of the socket.
TxPollFails ==
    /\ PollMayFail
    /\ tx = "poll"
    /\ tx' = "exit"
    /\ UNCHANGED <<queue, log, sizeOf, held, magic, left, cancelled, pipe, running, st, sock, wire, inFlight>>

\* POLLOUT: write_buffer decides on compression (size > compress_threshold).
Compressible(e) == CompressThreshold > 0 /\ sizeOf[e.id] > CompressThreshold

\* write_buffer_internal with SUSCAN_REMOTE_PDU_HEADER_MAGIC.
TxWritePlain ==
    /\ tx = "poll"
    /\ pipe = 0
    /\ sock = "ok"
    /\ ~Compressible(held[1])
    /\ magic' = "plain"
    /\ left' = sizeOf[held[1].id]
    /\ tx' = "header"
    /\ UNCHANGED <<queue, log, sizeOf, held, cancelled, pipe, running, st, sock, wire, inFlight>>

\* write_compressed_buffer: suscan_remote_deflate_pdu succeeded; the deflated
\* payload, of any size, goes out under the compressed magic.
TxWriteCompressed ==
    /\ tx = "poll"
    /\ pipe = 0
    /\ sock = "ok"
    /\ Compressible(held[1])
    /\ magic' = "compressed"
    /\ \E c \in Sizes \ {0} : left' = c
    /\ tx' = "header"
    /\ UNCHANGED <<queue, log, sizeOf, held, cancelled, pipe, running, st, sock, wire, inFlight>>

\* suscan_remote_deflate_pdu failed: write_buffer returns FALSE and the
\* SU_TRYCATCH in the thread loop jumps to done.
TxDeflateFails ==
    /\ tx = "poll"
    /\ pipe = 0
    /\ sock = "ok"
    /\ Compressible(held[1])
    /\ tx' = "exit"
    /\ UNCHANGED <<queue, log, sizeOf, held, magic, left, cancelled, pipe, running, st, sock, wire, inFlight>>

\* helper_send of the 8-byte header: blocks while the socket is full.
TxSendHeader ==
    /\ tx = "header"
    /\ sock = "ok"
    /\ wire' = Append(wire, [ev |-> "hdr", id |-> held[1].id, magic |-> magic])
    /\ tx' = "chunk"
    /\ UNCHANGED <<queue, log, sizeOf, held, magic, left, cancelled, pipe, running, st, sock, inFlight>>

\* The chunk loop: while (size > 0 && !self->thread_cancelled) enters the
\* body, which calls helper_send.
TxChunkCheck ==
    /\ tx = "chunk"
    /\ left > 0
    /\ ~cancelled
    /\ tx' = "send"
    /\ UNCHANGED <<queue, log, sizeOf, held, magic, left, cancelled, pipe, running, st, sock, wire, inFlight>>

\* Mutant: the last chunk is not clamped to the bytes that are left.
TxSendChunk_NoClamp ==
    /\ tx = "send"
    /\ sock = "ok"
    /\ wire' = Append(wire, [ev |-> "data", id |-> held[1].id])
    /\ left' = left - ReadBuffer
    /\ tx' = "chunk"
    /\ UNCHANGED <<queue, log, sizeOf, held, magic, cancelled, pipe, running, st, sock, inFlight>>

(* helper_send of one chunk of min(size, SUSCAN_REMOTE_READ_BUFFER) bytes: *)
(* send() blocks while the socket is full, and nothing in it looks at      *)
(* thread_cancelled or the cancel pipe; then back to the loop condition.   *)
TxSendChunk ==
    /\ tx = "send"
    /\ sock = "ok"
    /\ wire' = Append(wire, [ev |-> "data", id |-> held[1].id])
    /\ left' = left - MinOf(left, ReadBuffer)
    /\ tx' = "chunk"
    /\ UNCHANGED <<queue, log, sizeOf, held, magic, cancelled, pipe, running, st, sock, inFlight>>

\* send() returned 0 or -1: write_buffer fails and the thread gives up.
TxSendFails ==
    /\ tx \in {"header", "send"}
    /\ sock = "closed"
    /\ tx' = "exit"
    /\ UNCHANGED <<queue, log, sizeOf, held, magic, left, cancelled, pipe, running, st, sock, wire, inFlight>>

\* The loop ends (all sent, or cancelled mid-payload): write_buffer returns
\* TRUE and dispose_buffer hands the buffer back to the pool.
TxWriteDone ==
    /\ tx = "chunk"
    /\ left = 0 \/ cancelled
    /\ held' = <<>>
    /\ tx' = "read"
    /\ UNCHANGED <<queue, log, sizeOf, magic, left, cancelled, pipe, running, st, sock, wire, inFlight>>

\* done: the held buffer is freed and thread_finished is set.
TxExit ==
    /\ tx = "exit"
    /\ held' = <<>>
    /\ tx' = "finished"
    /\ UNCHANGED <<queue, log, sizeOf, magic, left, cancelled, pipe, running, st, sock, wire, inFlight>>

-----------------------------------------------------------------------------
(* The stopper: suscli_analyzer_client_tx_thread_stop / stop_soft and      *)
(* finalize.  Which one runs, and when, is the server's choice.            *)

\* if (self->thread_running) { if (!self->thread_finished) cancel... }
StopBegin ==
    /\ st = "idle"
    /\ running
    /\ IF tx = "finished" THEN st' = "join" ELSE st' = "cancel_flag"
    /\ UNCHANGED <<queue, log, sizeOf, tx, held, magic, left, cancelled, pipe, running, sock, wire, inFlight>>

StopSoftBegin ==
    /\ st = "idle"
    /\ running
    /\ IF tx = "finished" THEN st' = "join" ELSE st' = "soft_write"
    /\ UNCHANGED <<queue, log, sizeOf, tx, held, magic, left, cancelled, pipe, running, sock, wire, inFlight>>

\* cancel: self->thread_cancelled = SU_TRUE
CancelFlag ==
    /\ st = "cancel_flag"
    /\ cancelled' = TRUE
    /\ inFlight' = IF held = <<>> THEN 0 ELSE held[1].id
    /\ st' = "cancel_urgent"
    /\ UNCHANGED <<queue, log, sizeOf, tx, held, magic, left, pipe, running, sock, wire>>

\* Mutant: the urgent CANCEL is never queued.
CancelUrgent_Skipped ==
    /\ st = "cancel_urgent"
    /\ st' = "cancel_pipe"
    /\ UNCHANGED <<queue, log, sizeOf, tx, held, magic, left, cancelled, pipe, running, sock, wire, inFlight>>

\* cancel: suscan_mq_write_urgent(&self->queue, CANCEL, NULL)
CancelUrgent ==
    /\ st = "cancel_urgent"
    /\ queue' = MqWriteUrgent(queue, CancelEntry)
    /\ st' = "cancel_pipe"
    /\ UNCHANGED <<log, sizeOf, tx, held, magic, left, cancelled, pipe, running, sock, wire, inFlight>>

\* cancel: write(self->cancel_pipefd[1], &b, 1)
CancelPipe ==
    /\ st = "cancel_pipe"
    /\ pipe' = pipe + 1
    /\ st' = "join"
    /\ UNCHANGED <<queue, log, sizeOf, tx, held, magic, left, cancelled, running, sock, wire, inFlight>>

\* cancel_soft: suscan_mq_write(&self->queue, CANCEL, NULL)
SoftWrite ==
    /\ st = "soft_write"
    /\ queue' = MqWrite(queue, CancelEntry)
    /\ st' = "join"
    /\ UNCHANGED <<log, sizeOf, tx, held, magic, left, cancelled, pipe, running, sock, wire, inFlight>>

\* pthread_join, then self->thread_running = SU_FALSE
Join ==
    /\ st = "join"
    /\ tx = "finished"
    /\ running' = FALSE
    /\ st' = "finalize"
    /\ UNCHANGED <<queue, log, sizeOf, tx, held, magic, left, cancelled, pipe, sock, wire, inFlight>>

\* finalize: consume_buffer_mq frees what is left in pool and queue; the
\* pipe is closed.
Finalize ==
    /\ st = "finalize"
    /\ queue' = <<>>
    /\ pipe' = 0
    /\ st' = "stopped"
    /\ UNCHANGED <<log, sizeOf, tx, held, magic, left, cancelled, running, sock, wire, inFlight>>

-----------------------------------------------------------------------------
(* The remote peer.  The tx thread is the socket's only writer, so the    *)
(* send buffer fills only while one of its chunk sends is in progress      *)
(* (poll reports POLLOUT with room for more than the 8-byte header); a     *)
(* peer that stops reading leaves it full until it reads again.            *)

SockFill   == tx = "send" /\ sock = "ok" /\ sock' = "full" /\ UNCHANGED <<queue, log, sizeOf, tx, held, magic, left, cancelled, pipe, running, st, wire, inFlight>>
SockDrain  == sock = "full" /\ sock' = "ok"   /\ UNCHANGED <<queue, log, sizeOf, tx, held, magic, left, cancelled, pipe, running, st, wire, inFlight>>
SockHangup == sock # "closed" /\ sock' = "closed" /\ UNCHANGED <<queue, log, sizeOf, tx, held, magic, left, cancelled, pipe, running, st, wire, inFlight>>

\* The client has been torn down: nothing is left to do.
Terminated == st = "stopped" /\ UNCHANGED vars

-----------------------------------------------------------------------------
TxStep == TxRead \/ TxPollCancelled \/ TxPollHangup \/ TxPollFails \/ TxWritePlain
          \/ TxWriteCompressed \/ TxDeflateFails \/ TxSendHeader
          \/ TxChunkCheck \/ TxSendChunk \/ TxSendFails \/ TxWriteDone \/ TxExit

StopStep == CancelFlag \/ CancelUrgent \/ CancelPipe \/ SoftWrite \/ Join \/ Finalize

Next == Push \/ TxStep \/ StopBegin \/ StopSoftBegin \/ StopStep
        \/ SockFill \/ SockDrain \/ SockHangup \/ Terminated

(* The tx thread and the stopper are threads of this process and are      *)
(* scheduled; a blocked send or poll returns as soon as the socket is      *)
(* writable again, however briefly (strong fairness).  Neither the         *)
(* producer, the server's decision to stop nor the peer is fair.           *)
ThreadFairness ==
    /\ WF_vars(TxRead) /\ WF_vars(TxPollCancelled) /\ WF_vars(TxPollHangup)
    /\ SF_vars(TxWritePlain \/ TxWriteCompressed \/ TxDeflateFails)
    /\ SF_vars(TxSendHeader) /\ WF_vars(TxChunkCheck) /\ SF_vars(TxSendChunk)
    /\ WF_vars(TxSendFails) /\ WF_vars(TxWriteDone) /\ WF_vars(TxExit)
    /\ WF_vars(StopStep)

Spec == Init /\ [][Next]_vars /\ ThreadFairness

\* A peer that keeps reading: a full socket eventually drains.
FairPeerSpec == Spec /\ WF_vars(SockDrain)

-----------------------------------------------------------------------------
(* Properties.                                                             *)

TypeOK ==
    /\ queue \in Seq(Entry)
    /\ log \in Seq(Entry) /\ Len(log) <= NumMsgs
    /\ sizeOf \in Seq(Sizes) /\ Len(sizeOf) = Len(log)
    /\ tx \in TxPcs /\ st \in StPcs
    /\ held \in Seq(Entry) /\ Len(held) <= 1
    /\ magic \in {"plain", "compressed"} /\ left \in 0..MaxSizeOf
    /\ cancelled \in BOOLEAN /\ pipe \in 0..1 /\ running \in BOOLEAN
    /\ sock \in {"ok", "full", "closed"}
    /\ wire \in Seq(WireEvent)
    /\ inFlight \in 0..NumMsgs

\* The PDUs whose header reached the peer, in the order they were framed.
Delivered == [i \in 1..Len(SelectSeq(wire, LAMBDA w : w.ev = "hdr")) |->
                 log[SelectSeq(wire, LAMBDA w : w.ev = "hdr")[i].id]]

Ids(s) == [i \in DOMAIN s |-> s[i].id]

(* Critical messages ("needed to be delivered always, in order, to keep    *)
(* the client in sync", tx.c) reach the peer in push order and with no     *)
(* gap: whatever cleanup passes ran on the queue, the critical PDUs framed *)
(* so far are a prefix of the critical PDUs pushed.                        *)
CriticalInOrder ==
    IsPrefix(Ids(SelectSeq(Delivered, Critical)), Ids(SelectSeq(log, Critical)))

(* No PDU is framed twice: an entry consumed by try_destroy and re-injected *)
(* by post_cleanup, or read by the tx thread, is never also left queued.   *)
NoDuplicatePdu ==
    \A i, j \in DOMAIN Delivered : i < j => Delivered[i].id # Delivered[j].id

(* Source info is overridable: the peer never receives a source info       *)
(* message older than one it has already received, although post_cleanup  *)
(* moves the saved one to the head of the queue.                           *)
SourceInfoMonotonic ==
    LET s == Ids(SelectSeq(Delivered, Overridable))
    IN  \A i, j \in DOMAIN s : i < j => s[i] < s[j]

(* While the tx thread is alive, the most recent source info pushed is     *)
(* still queued, held, or already framed: a cleanup pass may drop older    *)
(* ones but never the latest.                                              *)
LatestSourceInfoKept ==
    LET sis == SelectSeq(log, Overridable)
    IN  (sis # <<>> /\ tx \notin {"exit", "finished"}) =>
           LET latest == Last(sis)
           IN  \/ Contains(queue, latest)
               \/ Contains(held, latest)
               \/ Contains(Delivered, latest)

-----------------------------------------------------------------------------
(* Refinement: the delivery thread, its queue and its stopper implement    *)
(* the abstract DeliveryChannel.  The pending PDUs are the one the tx      *)
(* thread holds before its header is sent, followed by the MESSAGE entries *)
(* of the queue (CANCEL entries are control, not PDUs); a PDU is delivered *)
(* when its header is sent; the channel is closing once the stopper has    *)
(* started or the client has hung up.                                      *)
InHand == IF tx \in {"poll", "header"} THEN held ELSE <<>>

Channel == INSTANCE DeliveryChannel
             WITH pushed    <- log,
                  pending   <- InHand \o SelectSeq(queue, LAMBDA e : e.type = "MESSAGE"),
                  delivered <- Delivered,
                  closing   <- (st # "idle" \/ sock = "closed")

(* Every step of push, the cleanup passes, the tx thread and the stopper   *)
(* is a step of the abstract channel: critical PDUs and the latest source  *)
(* info are never shed, nothing is reordered or framed twice, and nothing  *)
(* pending is abandoned while the server has not asked to stop and the     *)
(* client is still connected.                                              *)
ChannelSpec == Channel!Spec


(* A hard or soft stop, once begun, always completes: the thread is woken  *)
(* wherever it waits (queue or poll), the join returns and the client is   *)
(* finalized.                                                              *)
StopCompletes == (st # "idle") ~> (st = "stopped")

(* spec.md 4.5 and 8: a hard stop is honoured within one chunk, whatever   *)
(* the peer does ("interruptible even while blocked waiting for the socket *)
(* to become writable").                                                   *)
HardStopCompletes == (st = "cancel_flag") ~> (st = "stopped")

(* spec.md 8: a delivery thread cancelled in the middle of a PDU stops     *)
(* and "never sends a second PDU's header before the cancel completes":    *)
(* once thread_cancelled is set, the only header that may still go out is  *)
(* the one of the PDU the thread already held.                             *)
NoHeaderAfterCancel ==
    [][cancelled /\ inFlight # 0 =>
         \A i \in (Len(wire) + 1)..Len(wire') :
            wire'[i].ev = "hdr" => wire'[i].id = inFlight]_vars

(* spec.md 7(d) and 4.5: only a transport error or a stop ends the         *)
(* delivery thread; a failed compression falls back to sending raw.        *)
ExitOnlyOnStopOrTransportError ==
    tx = "finished" => (st # "idle" \/ sock = "closed")

=============================================================================
