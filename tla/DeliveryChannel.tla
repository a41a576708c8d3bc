--------------------------- MODULE DeliveryChannel ---------------------------
(***************************************************************************)
(* What the per-client delivery path of the analyzer server promises, with *)
(* no queue, thread or socket in it (spec.md 4.3-4.5): PDUs are accepted   *)
(* in push order into a pending sequence and leave it from the front to    *)
(* the client.  Under backpressure some pending PDUs may be shed, but      *)
(* never a critical one and never the most recent source info, and what    *)
(* is left keeps its order.  Pending PDUs are abandoned only once the      *)
(* channel is closing (a stop was requested or the client went away).      *)
(***************************************************************************)
EXTENDS Sequences, SequencesExt, TxCleanup

VARIABLES
    pushed,     \* every PDU accepted, in order
    pending,    \* PDUs accepted and neither delivered nor dropped
    delivered,  \* PDUs framed to the client, in order
    closing     \* a stop was requested or the transport failed

chanVars == <<pushed, pending, delivered, closing>>

\* Entry i of s may not be shed: it is critical, or it is the last source
\* info in s (later ones revoke earlier ones, so only those may go).
MustKeep(s, i) ==
    \/ Critical(s[i])
    \/ Overridable(s[i]) /\ \A j \in (i + 1)..Len(s) : ~Overridable(s[j])

\* The entries of s at the positions in D, in their order in s.
Keep(s, D) ==
    LET idx == SelectSeq([k \in DOMAIN s |-> k], LAMBDA k : k \in D)
    IN  [k \in DOMAIN idx |-> s[idx[k]]]

\* The sequences a backpressure pass may leave of s.
Sheds(s) ==
    {Keep(s, D) : D \in {D \in SUBSET DOMAIN s :
                            \A i \in DOMAIN s : MustKeep(s, i) => i \in D}}

Init ==
    /\ pushed = <<>> /\ pending = <<>> /\ delivered = <<>>
    /\ closing = FALSE

\* A PDU is accepted; the write may shed what is pending.
Accept ==
    /\ Len(pushed') = Len(pushed) + 1
    /\ IsPrefix(pushed, pushed')
    /\ pending' \in Sheds(Append(pending, Last(pushed')))
    /\ UNCHANGED <<delivered, closing>>

\* A shed without a new PDU (a control message was queued).
Shed ==
    /\ pending' \in Sheds(pending)
    /\ UNCHANGED <<pushed, delivered, closing>>

\* The oldest pending PDU is framed to the client.
Deliver ==
    /\ pending # <<>>
    /\ delivered' = Append(delivered, Head(pending))
    /\ pending' = Tail(pending)
    /\ UNCHANGED <<pushed, closing>>

Close ==
    /\ closing' = TRUE
    /\ UNCHANGED <<pushed, pending, delivered>>

\* Once closing, the PDU in hand or everything pending may be dropped.
Abandon ==
    /\ closing
    /\ pending # <<>>
    /\ pending' \in {Tail(pending), <<>>}
    /\ UNCHANGED <<pushed, delivered, closing>>

Next == Accept \/ Shed \/ Deliver \/ Close \/ Abandon

Spec == Init /\ [][Next]_chanVars
=============================================================================
