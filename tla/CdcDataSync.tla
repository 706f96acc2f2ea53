---------------------------- MODULE CdcDataSync ----------------------------
(***************************************************************************)
(* cdc_data_sync of rtl/soc/cdc_sync.v: the multi-bit request/acknowledge  *)
(* synchronizer that carries words between two unrelated clocks.  One      *)
(* action is one rising edge of the source clock, of the destination       *)
(* clock, or of both at the same instant; when they coincide, a flop that  *)
(* samples a changing bit may resolve either way and a register that       *)
(* samples a changing bus may hold a mixture of the two words (Torn).      *)
(***************************************************************************)
EXTENDS Naturals, Sequences

CONSTANTS
    Words,          \* the words the source may present on data_src
    ResetWord,      \* the all-zero content of the data registers after reset
    Torn,           \* a word sampled while its bits were changing
    SourceWaits,    \* "never", "ack" or "quiet": see MayRequest
    Clocks,         \* "any", "dst_slower" or "src_slower": see the edges
    ReadyAlways,    \* TRUE where ready_dst is tied to 1, as for the SNN links
    MaxSends        \* bound: how many requests the source makes

ASSUME DataSyncAssumption ==
    /\ ResetWord \notin Words
    /\ Torn \notin Words \cup {ResetWord}
    /\ SourceWaits \in {"never", "ack", "quiet"}
    /\ Clocks \in {"any", "dst_slower", "src_slower"}
    /\ ReadyAlways \in BOOLEAN
    /\ MaxSends \in Nat

VARIABLES
    data_reg_src, req_reg_src,          \* source registers
    ack_ff1, ack_ff2, ack_dst_d,        \* acknowledge, back in the source clock
    req_ff1, req_ff2, req_dst_d,        \* request, in the destination clock
    data_reg_dst, valid_reg_dst,        \* destination registers
    lone,           \* which clocks had an edge alone since the other's last one
    sent, rcvd      \* history: words requested, words shown with valid_dst

srcVars  == <<data_reg_src, req_reg_src, ack_ff1, ack_ff2, ack_dst_d, sent>>
dstVars  == <<req_ff1, req_ff2, req_dst_d, data_reg_dst, valid_reg_dst, rcvd>>
vars     == <<srcVars, dstVars, lone>>

Bit      == {0, 1}
BusWords == Words \cup {ResetWord, Torn}

\* Mutant: the acknowledge is taken as a level, without edge detection.
AckAsLevel == IF ack_ff2 = 1 THEN 1 ELSE 0

ack_src  == IF ack_ff2 = 1 /\ ack_dst_d = 0 THEN 1 ELSE 0

\* Every flop of the handshake is back at 0.
Quiet ==
    /\ req_reg_src = 0 /\ req_ff1 = 0 /\ req_ff2 = 0 /\ req_dst_d = 0
    /\ valid_reg_dst = 0 /\ ack_ff1 = 0 /\ ack_ff2 = 0 /\ ack_dst_d = 0

(***************************************************************************)
(* The circuit never refuses a request.  "never": the source raises        *)
(* req_src in any cycle, as the top level does with core_xcew_valid.       *)
(* "ack": it waits until the previous request was acknowledged.  "quiet":  *)
(* its requests are so far apart that the handshake has died down, as the  *)
(* results of two classifications are.                                     *)
(***************************************************************************)
MayRequest ==
    /\ Len(sent) < MaxSends
    /\ SourceWaits # "never" => req_reg_src = 0
    /\ SourceWaits = "quiet" => Quiet

Init ==
    /\ data_reg_src = ResetWord /\ req_reg_src = 0
    /\ ack_ff1 = 0 /\ ack_ff2 = 0 /\ ack_dst_d = 0
    /\ req_ff1 = 0 /\ req_ff2 = 0 /\ req_dst_d = 0
    /\ data_reg_dst = ResetWord /\ valid_reg_dst = 0
    /\ lone = {}
    /\ sent = <<>> /\ rcvd = <<>>

----------------------------------------------------------------------------
\* Mutant: the source register samples its bus while it changes.
RequestUnsettled(w) ==
    /\ MayRequest
    /\ data_reg_src' = Torn
    /\ req_reg_src' = 1
    /\ sent' = Append(sent, w)

\* Mutant: the acknowledge branch is missing.
NeverWithdrawn == UNCHANGED <<req_reg_src, data_reg_src, sent>>

\* The two branches of the source register block.
Request(w) ==
    /\ MayRequest
    /\ data_reg_src' = w
    /\ req_reg_src' = 1
    /\ sent' = Append(sent, w)

NoRequest ==
    /\ req_reg_src' = IF ack_src = 1 THEN 0 ELSE req_reg_src
    /\ UNCHANGED <<data_reg_src, sent>>

\* A source edge that samples v from valid_reg_dst.
SrcEdge(v) ==
    /\ ack_ff1' = v
    /\ ack_ff2' = ack_ff1
    /\ ack_dst_d' = ack_ff2
    /\ NoRequest \/ \E w \in Words : Request(w)

\* A destination edge that samples r from req_reg_src and d from data_reg_src.
DstEdge(r, d) ==
    /\ req_ff1' = r
    /\ req_ff2' = req_ff1
    /\ req_dst_d' = req_ff2
    /\ \/ /\ req_ff2 = 1 /\ req_dst_d = 0
          /\ data_reg_dst' = d
          /\ valid_reg_dst' = 1
          /\ rcvd' = Append(rcvd, d)
       \/ /\ ~(req_ff2 = 1 /\ req_dst_d = 0)
          /\ \E ready_dst \in (IF ReadyAlways THEN {1} ELSE Bit) :
                valid_reg_dst' = IF ready_dst = 1 THEN 0 ELSE valid_reg_dst
          /\ UNCHANGED <<data_reg_dst, rcvd>>

(***************************************************************************)
(* With Clocks = "dst_slower" a source edge falls strictly between any two *)
(* destination edges (the 250 MHz core feeding the 125 MHz SNN tile), with *)
(* "src_slower" the converse; "any" leaves the two clocks unrelated.       *)
(***************************************************************************)
SrcMayRise == Clocks = "src_slower" => "dst" \in lone
DstMayRise == Clocks = "dst_slower" => "src" \in lone

SrcTick ==
    /\ SrcMayRise
    /\ SrcEdge(valid_reg_dst)
    /\ lone' = {"src"}
    /\ UNCHANGED dstVars

DstTick ==
    /\ DstMayRise
    /\ DstEdge(req_reg_src, data_reg_src)
    /\ lone' = {"dst"}
    /\ UNCHANGED srcVars

\* What a register may hold after sampling a bus that goes from old to new.
Sampled(old, new) == IF old = new THEN {old} ELSE {old, new, Torn}

BothTick ==
    /\ SrcMayRise /\ DstMayRise
    /\ \E v, r \in Bit, d \in BusWords :
          /\ SrcEdge(v)
          /\ DstEdge(r, d)
          /\ v \in {valid_reg_dst, valid_reg_dst'}
          /\ r \in {req_reg_src, req_reg_src'}
          /\ d \in Sampled(data_reg_src, data_reg_src')
    /\ lone' = {}

Next == SrcTick \/ DstTick \/ BothTick

Spec == Init /\ [][Next]_vars

\* Neither clock stops.
FairSpec ==
    Spec /\ WF_vars(SrcTick \/ BothTick) /\ WF_vars(DstTick \/ BothTick)

----------------------------------------------------------------------------
(* Properties *)

TypeOK ==
    /\ data_reg_src \in Words \cup {ResetWord} /\ req_reg_src \in Bit
    /\ ack_ff1 \in Bit /\ ack_ff2 \in Bit /\ ack_dst_d \in Bit
    /\ req_ff1 \in Bit /\ req_ff2 \in Bit /\ req_dst_d \in Bit
    /\ data_reg_dst \in BusWords /\ valid_reg_dst \in Bit
    /\ lone \subseteq {"src", "dst"}
    /\ sent \in Seq(Words) /\ rcvd \in Seq(BusWords)

(***************************************************************************)
(* The four flops of each direction, upstream first, form a delay line.  A *)
(* 1 directly upstream of a 0 is a rising edge still on its way.           *)
(***************************************************************************)
NoRise(a, b, c, d) == a <= b /\ b <= c /\ c <= d
OneRise(a, b, c, d) == ~(a = 1 /\ b = 0 /\ c = 1 /\ d = 0)

\* While a word is outstanding its request stands, its register holds it, at
\* most one request edge travels to the destination and no acknowledge edge
\* travels back; when none is outstanding no request edge travels, and an
\* acknowledge edge travels only while the request still stands.
Handshake ==
    /\ Len(sent) \in {Len(rcvd), Len(rcvd) + 1}
    /\ Len(sent) > Len(rcvd) =>
          /\ req_reg_src = 1
          /\ data_reg_src = sent[Len(rcvd) + 1]
          /\ OneRise(req_reg_src, req_ff1, req_ff2, req_dst_d)
          /\ NoRise(valid_reg_dst, ack_ff1, ack_ff2, ack_dst_d)
    /\ Len(sent) = Len(rcvd) =>
          /\ NoRise(req_reg_src, req_ff1, req_ff2, req_dst_d)
          /\ OneRise(valid_reg_dst, ack_ff1, ack_ff2, ack_dst_d)
          /\ req_reg_src = 0 =>
                NoRise(valid_reg_dst, ack_ff1, ack_ff2, ack_dst_d)

Channel == INSTANCE DataChannel

\* Every word shown with valid_dst is the word the source requested, whole,
\* once and in order, and the source register was not written meanwhile.
ImplementsChannel == Channel!ChanSpec

\* A requested word is shown to the destination and the handshake then dies
\* down, so that the next request is a new rising edge.
LinkRecovers == (Len(rcvd) < Len(sent)) ~> (Quiet /\ Len(rcvd) = Len(sent))
=============================================================================
