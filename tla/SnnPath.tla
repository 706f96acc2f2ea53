-------------------------------- MODULE SnnPath --------------------------------
(***************************************************************************)
(* The core's way to the SNN tile in rtl/xcew_top_v1_1.v: a MISC           *)
(* instruction sends one current through a cdc_data_sync, whose valid_dst  *)
(* is the tile's i_current_valid; the SNN instruction holds classify_en,   *)
(* which crosses through a cdc_pulse_sync, and stalls the core until the   *)
(* tile has answered.  This is CdcDataSync with the rest put beside it:    *)
(* one action is an edge of the core's clock, of the tile's, or of both.   *)
(* In the chip Clocks is "dst_slower" and ReadyAlways TRUE.                *)
(***************************************************************************)
EXTENDS CdcDataSync

CONSTANTS
    NumNeurons,                 \* NUM_NEURONS
    MaxClassifies               \* bound: SNN instructions; MaxSends bounds MISC

VARIABLES
    req_level_src, p_ack_ff1, p_ack_ff2,
    p_req_ff1, p_req_ff2, req_level_dst_d, pulse_dst_reg, asked, given,
    stalled,        \* the SNN instruction is pending in the core
    snn_current_state, load_counter, load_done

pulseSrc == <<req_level_src, p_ack_ff1, p_ack_ff2, asked, stalled>>
pulseDst == <<p_req_ff1, p_req_ff2, req_level_dst_d, pulse_dst_reg, given>>
tile     == <<snn_current_state, load_counter, load_done>>
pathVars == <<vars, pulseSrc, pulseDst, tile>>

\* An integration once begun ends in an answer (ClassificationEnds of SnnTile).
Answered == snn_current_state = "INTEGRATE"

Classify == INSTANCE CdcPulseSync
            WITH Source <- "held",
                 HoldEdges <- 1, age <- IF Answered THEN 1 ELSE 0,
                 MaxPulses <- MaxClassifies, holding <- stalled,
                 ack_ff1 <- p_ack_ff1, ack_ff2 <- p_ack_ff2,
                 req_ff1 <- p_req_ff1, req_ff2 <- p_req_ff2

PathInit ==
    /\ Init
    /\ req_level_src = 0 /\ p_ack_ff1 = 0 /\ p_ack_ff2 = 0
    /\ p_req_ff1 = 0 /\ p_req_ff2 = 0 /\ req_level_dst_d = 0 /\ pulse_dst_reg = 0
    /\ asked = 0 /\ given = 0
    /\ stalled = FALSE
    /\ snn_current_state = "IDLE" /\ load_counter = 0 /\ load_done = FALSE

----------------------------------------------------------------------------
\* Mutant: the core does not wait for the SNN instruction.
CoreEdgeUnstalled(v, p) ==
    /\ SrcEdge(v)
    /\ Classify!SrcEdge(p)

\* A core edge.  Both requests are core_xcew_valid, of different instructions:
\* while the SNN instruction is there no MISC instruction is.
CoreEdge(v, p) ==
    /\ SrcEdge(v)
    /\ Classify!SrcEdge(p)
    /\ stalled' => sent' = sent

\* The tile up to the integration; a current is seen in LOAD only.
TileEdge ==
    /\ snn_current_state' =
         CASE snn_current_state = "IDLE" /\ pulse_dst_reg = 1 -> "LOAD"
           [] snn_current_state = "LOAD" /\ load_done         -> "INTEGRATE"
           [] OTHER                                -> snn_current_state
    /\ load_counter' = IF snn_current_state = "LOAD" /\ load_counter < NumNeurons
                         THEN load_counter + valid_reg_dst
                         ELSE load_counter
    /\ load_done' = (snn_current_state = "LOAD"
                       /\ (load_done \/ load_counter >= NumNeurons - 1))

SnnEdge(r, d, s) == DstEdge(r, d) /\ Classify!DstFlops(s) /\ TileEdge

CoreTick ==
    /\ SrcMayRise
    /\ CoreEdge(valid_reg_dst, pulse_dst_reg)
    /\ lone' = {"src"}
    /\ UNCHANGED <<dstVars, pulseDst, tile>>

SnnTick ==
    /\ DstMayRise
    /\ SnnEdge(req_reg_src, data_reg_src, req_level_src)
    /\ lone' = {"dst"}
    /\ UNCHANGED <<srcVars, pulseSrc>>

\* Each of the four first flops resolves on its own.
CoreAndSnnTick ==
    /\ SrcMayRise /\ DstMayRise
    /\ \E v, p, r, s \in Bit, d \in BusWords :
          /\ CoreEdge(v, p) /\ SnnEdge(r, d, s)
          /\ v \in {valid_reg_dst, valid_reg_dst'}
          /\ p \in {pulse_dst_reg, pulse_dst_reg'}
          /\ r \in {req_reg_src, req_reg_src'}
          /\ s \in {req_level_src, req_level_src'}
          /\ d \in Sampled(data_reg_src, data_reg_src')
    /\ lone' = {}

PathNext == CoreTick \/ SnnTick \/ CoreAndSnnTick

PathSpec == PathInit /\ [][PathNext]_pathVars

\* Neither clock stops.
FairPathSpec ==
    /\ PathSpec
    /\ WF_pathVars(CoreTick \/ CoreAndSnnTick)
    /\ WF_pathVars(SnnTick \/ CoreAndSnnTick)

----------------------------------------------------------------------------
(* Properties; that the handshake of the currents dies down is LinkRecovers *)
(* of CdcDataSync.                                                          *)

\* The tile sees one classify_en for every SNN instruction, however long the
\* instruction holds the line.
ClassifiesOnce == Classify!NoSpuriousPulse

\* Every SNN instruction brings the tile into LOAD.
ClassifyArrives == stalled ~> snn_current_state = "LOAD"

\* A current sent before the SNN instruction never overtakes it: the tile is
\* still in IDLE, and drops it.  With the core stalled nothing else can come,
\* so LOAD is never fed.
LoadIsStarved == snn_current_state = "LOAD" => valid_reg_dst = 0 /\ load_counter = 0

\* The tile is shown the currents in the order and with the values in which
\* the core sent them.
CurrentsCross == \A i \in 1 .. Len(rcvd) : i <= Len(sent) /\ rcvd[i] = sent[i]

\* Neither crossing makes anything up, whichever way the flops that meet a
\* changing level fall.
NothingMadeUp == ClassifiesOnce /\ CurrentsCross

----------------------------------------------------------------------------
\* Deviation.  docs/MICRO_ARCH_SPEC.md:104: the core stalls until the tile is
\* done, and then goes on.
ClassifyAnswered == stalled ~> ~stalled
=============================================================================
