----------------------------- MODULE FifoChannel -----------------------------
(***************************************************************************)
(* What a reliable in-order message channel promises its two ends: every   *)
(* message handed in is delivered once, in the order it was handed in, and *)
(* a message handed in is eventually delivered.  ControllerConnection is  *)
(* shown to implement two of these, one per direction of the TCP          *)
(* connection between a datapath node and the Controller.                 *)
(***************************************************************************)
EXTENDS Naturals, Sequences

CONSTANT Msgs

VARIABLES
    sent,       \* messages handed to the channel, in hand-in order
    delivered   \* messages delivered at the other end, in delivery order

chanVars == <<sent, delivered>>

ChanTypeOK ==
    /\ sent \in Seq(Msgs)
    /\ delivered \in Seq(Msgs)

ChanInit ==
    /\ sent = <<>>
    /\ delivered = <<>>

\* One more message is handed in at the sending end.
ChanSend(m) ==
    /\ sent' = Append(sent, m)
    /\ UNCHANGED delivered

\* The oldest n undelivered messages arrive at the receiving end together
\* (one read can carry several).
ChanDeliver ==
    /\ \E n \in 1..(Len(sent) - Len(delivered)) :
           delivered' = SubSeq(sent, 1, Len(delivered) + n)
    /\ UNCHANGED sent

ChanNext == (\E m \in Msgs : ChanSend(m)) \/ ChanDeliver

\* WF_chanVars(ChanDeliver) with its ENABLED written out: ChanDeliver is
\* enabled exactly when something handed in is not yet delivered.
ChanFairness ==
    []<>(Len(delivered) >= Len(sent)) \/ []<><<ChanDeliver>>_chanVars

ChanSafety == ChanInit /\ [][ChanNext]_chanVars

ChanSpec == ChanSafety /\ ChanFairness
=============================================================================
