---------------------------- MODULE MC_TxThread ----------------------------
(***************************************************************************)
(* Bounds for TxThread.  Three PDUs are enough for a cleanup pass (the     *)
(* watermark is 2) with a source info in front of and behind a critical    *)
(* message.  With two-byte chunks and a compression threshold of 2, the    *)
(* sizes 0, 1 and 3 give an empty PDU, a single partial chunk and a        *)
(* compressed PDU of two chunks, the last one partial.  MC_TxCleanup       *)
(* adds the check of the cleanup pass on every queue of up to MaxLen       *)
(* entries.                                                                *)
(***************************************************************************)
EXTENDS TxThread, MC_TxCleanup

MCMsgKinds == {"source_info", "psd", "other_msg"}

MCSizes == {0, 1, 3}

(* The cleanup pass the mq runs when a write takes the queue past the      *)
(* watermark leaves exactly what the policy comment in tx.c says: it does  *)
(* so on every queue of up to MaxLen entries of every kind (PolicyHolds),  *)
(* and the delivery queue, with the entry being written, never holds more, *)
(* so every pass this run performs is one of those.                        *)
CleanupMatchesPolicy == Len(queue) + 1 <= MaxLen /\ PolicyHolds
=============================================================================
