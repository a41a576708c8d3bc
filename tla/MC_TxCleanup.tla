---------------------------- MODULE MC_TxCleanup ----------------------------
(***************************************************************************)
(* Checks the cleanup pass of TxCleanup on every queue of at most MaxLen   *)
(* entries over every kind of PDU, against a reference definition written  *)
(* from the policy comment in tx.c.  The pass is a function of the queue,  *)
(* so the check is a constant formula (PolicyHolds), stated as an          *)
(* invariant by MC_TxThread.                                               *)
(***************************************************************************)
EXTENDS TxCleanup

CONSTANT MaxLen     \* longest queue offered to the pass

\* Entry i of a queue carries buffer id i, so that entries stay distinct.
AsQueue(ks) ==
    [i \in DOMAIN ks |-> IF ks[i] = "cancel" THEN CancelEntry
                                            ELSE MessageEntry(i, ks[i])]

\* Every queue the mq may hand to the cleanup pass, up to MaxLen entries.
Queues == {AsQueue(ks) : ks \in BoundedSeq(Kinds \cup {"cancel"}, MaxLen)}

-----------------------------------------------------------------------------
(* Reference: "we discard all PSD messages and discard source info         *)
(* messages that happen in the front of the message queue, up to the first *)
(* critical message" (tx.c, comment above pre_cleanup); of the discarded   *)
(* source info messages only the latest is still valid, and it goes first. *)
FirstCritical(s) ==
    IF \E i \in DOMAIN s : Critical(s[i])
    THEN CHOOSE i \in DOMAIN s : Critical(s[i]) /\ \A j \in 1..(i - 1) : ~Critical(s[j])
    ELSE Len(s) + 1

RefCleanup(s) ==
    LET c     == FirstCritical(s)
        front == SubSeq(s, 1, c - 1)
        back  == SubSeq(s, c, Len(s))
        sis   == SelectSeq(front, Overridable)
        keepF(e) == ~Discardable(e) /\ ~Overridable(e)
        keepB(e) == ~Discardable(e)
    IN  (IF sis = <<>> THEN <<>> ELSE <<Last(sis)>>)
          \o SelectSeq(front, keepF) \o SelectSeq(back, keepB)

(* The pass of try_destroy/post_cleanup leaves exactly what the policy     *)
(* says: every critical message and CANCEL in its order, every source info *)
(* behind the first critical message, the latest one in front of it at the *)
(* head, and no PSD or inspector spectrum message.  A constant formula:    *)
(* TLC evaluates it once.                                                  *)
PolicyHolds == \A q \in Queues : CleanupPass(q) = RefCleanup(q)
=============================================================================
