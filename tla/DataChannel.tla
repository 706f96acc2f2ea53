---------------------------- MODULE DataChannel ----------------------------
(***************************************************************************)
(* What a clock-domain-crossing data link promises its two ends: a         *)
(* one-place channel.  A word is accepted only when the previous one has   *)
(* been delivered, and every delivery is the oldest undelivered word,      *)
(* whole and once.                                                         *)
(***************************************************************************)
EXTENDS Naturals, Sequences

CONSTANT Words          \* the words the link carries

VARIABLES sent,         \* every word accepted from the source, in order
          rcvd          \* every word handed to the destination, in order

chanVars == <<sent, rcvd>>

ChanInit == sent = <<>> /\ rcvd = <<>>

Accept(w) ==
    /\ Len(sent) = Len(rcvd)
    /\ sent' = Append(sent, w)
    /\ UNCHANGED rcvd

Deliver ==
    /\ Len(rcvd) < Len(sent)
    /\ rcvd' = Append(rcvd, sent[Len(rcvd) + 1])
    /\ UNCHANGED sent

ChanNext == (\E w \in Words : Accept(w)) \/ Deliver

ChanSpec == ChanInit /\ [][ChanNext]_chanVars
=============================================================================
