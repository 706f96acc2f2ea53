---------------------------- MODULE CdcPulseSync ----------------------------
(***************************************************************************)
(* cdc_pulse_sync of rtl/soc/cdc_sync.v: a pulse in the source clock sets  *)
(* a level, the rising edge of the synchronized level is a pulse in the    *)
(* destination clock, and that pulse, synchronized back, clears the level. *)
(* Clock edges are modelled as in CdcDataSync.                             *)
(***************************************************************************)
EXTENDS Naturals

CONSTANTS
    Source,         \* "spaced" or "held": see PulseInput
    Clocks,         \* "any", "dst_slower" or "src_slower"
    HoldEdges,      \* for a held source: destination edges between a pulse and
                    \* the end of the operation it started
    MaxPulses       \* bound: pulses the source asks for

VARIABLES
    req_level_src, ack_ff1, ack_ff2,        \* source clock
    req_ff1, req_ff2, req_level_dst_d, pulse_dst_reg,   \* destination clock
    holding,    \* the operation that keeps pulse_src high is in progress
    age,        \* destination edges since the last pulse, up to HoldEdges
    lone,       \* which clocks had an edge alone since the other's last one
    asked, given    \* history: pulses requested, pulses produced

srcVars == <<req_level_src, ack_ff1, ack_ff2, holding, asked>>
dstVars == <<req_ff1, req_ff2, req_level_dst_d, pulse_dst_reg, age, given>>
vars    == <<srcVars, dstVars, lone>>

Bit     == {0, 1}

Quiet ==
    /\ req_level_src = 0 /\ req_ff1 = 0 /\ req_ff2 = 0 /\ req_level_dst_d = 0
    /\ pulse_dst_reg = 0 /\ ack_ff1 = 0 /\ ack_ff2 = 0

Init ==
    /\ req_level_src = 0 /\ ack_ff1 = 0 /\ ack_ff2 = 0
    /\ req_ff1 = 0 /\ req_ff2 = 0 /\ req_level_dst_d = 0 /\ pulse_dst_reg = 0
    /\ holding = FALSE
    /\ age = HoldEdges
    /\ lone = {}
    /\ asked = 0 /\ given = 0

----------------------------------------------------------------------------
(***************************************************************************)
(* pulse_src at this source edge.  A "spaced" source raises it for one     *)
(* cycle when the handshake has died down.  A "held" source is the SNN     *)
(* instruction: classify_en is core_xcew_valid, high from the issue of the *)
(* instruction until the tile's result has come back.                      *)
(***************************************************************************)
Begin == /\ asked < MaxPulses
         /\ ~holding
         /\ Source = "spaced" => Quiet
         /\ asked' = asked + 1
         /\ holding' = (Source = "held")

Hold  == holding /\ UNCHANGED <<holding, asked>>

Idle  == /\ holding => given = asked /\ age = HoldEdges
         /\ holding' = FALSE
         /\ UNCHANGED asked

\* Mutant: the falling edge makes the pulse.
DstFlopsFalling(r) ==
    /\ req_ff1' = r
    /\ req_ff2' = req_ff1
    /\ req_level_dst_d' = req_ff2
    /\ pulse_dst_reg' = IF req_ff2 = 0 /\ req_level_dst_d = 1 THEN 1 ELSE 0
    /\ given' = given + pulse_dst_reg'

\* A source edge that samples v from pulse_dst_reg.
SrcEdge(v) ==
    /\ ack_ff1' = v
    /\ ack_ff2' = ack_ff1
    /\ \/ (Begin \/ Hold) /\ req_level_src' = 1
       \/ Idle /\ req_level_src' = IF ack_ff2 = 1 THEN 0 ELSE req_level_src

\* A destination edge that samples r from req_level_src.
DstFlops(r) ==
    /\ req_ff1' = r
    /\ req_ff2' = req_ff1
    /\ req_level_dst_d' = req_ff2
    /\ pulse_dst_reg' = IF req_ff2 = 1 /\ req_level_dst_d = 0 THEN 1 ELSE 0
    /\ given' = given + pulse_dst_reg'

\* The operation the pulse started goes on for HoldEdges edges.
Operate == age' = IF pulse_dst_reg' = 1 THEN 0
                  ELSE IF age < HoldEdges THEN age + 1 ELSE age

DstEdge(r) == DstFlops(r) /\ Operate

SrcMayRise == Clocks = "src_slower" => "dst" \in lone
DstMayRise == Clocks = "dst_slower" => "src" \in lone

SrcTick == SrcMayRise /\ SrcEdge(pulse_dst_reg) /\ lone' = {"src"} /\ UNCHANGED dstVars

DstTick == DstMayRise /\ DstEdge(req_level_src) /\ lone' = {"dst"} /\ UNCHANGED srcVars

BothTick ==
    /\ SrcMayRise /\ DstMayRise
    /\ \E v, r \in Bit :
          /\ SrcEdge(v) /\ DstEdge(r)
          /\ v \in {pulse_dst_reg, pulse_dst_reg'}
          /\ r \in {req_level_src, req_level_src'}
    /\ lone' = {}

Next == SrcTick \/ DstTick \/ BothTick

Spec == Init /\ [][Next]_vars

\* Neither clock stops.
FairSpec ==
    Spec /\ WF_vars(SrcTick \/ BothTick) /\ WF_vars(DstTick \/ BothTick)

----------------------------------------------------------------------------
(* Properties *)

TypeOK ==
    /\ req_level_src \in Bit /\ ack_ff1 \in Bit /\ ack_ff2 \in Bit
    /\ req_ff1 \in Bit /\ req_ff2 \in Bit /\ req_level_dst_d \in Bit
    /\ pulse_dst_reg \in Bit
    /\ holding \in BOOLEAN /\ age \in 0 .. HoldEdges
    /\ lone \subseteq {"src", "dst"}
    /\ asked \in Nat /\ given \in Nat

\* The destination never sees a pulse nobody asked for, nor one pulse twice,
\* and a request still counted as open is a level that still stands.
NoSpuriousPulse ==
    /\ given \in {asked, asked - 1}
    /\ given < asked => req_level_src = 1

\* Every pulse the source asks for is one pulse at the destination, in the end.
EveryPulseArrives == (given < asked) ~> (given = asked)

\* The level falls again, so that the next pulse makes a new rising edge.
LevelFalls == (req_level_src = 1) ~> Quiet
=============================================================================
