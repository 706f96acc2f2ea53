----------------------------- MODULE RfEncoder -----------------------------
(***************************************************************************)
(* snn_encode_rf_to_ttfs of firmware/snn_temporal.c: one action per turn   *)
(* of its loop.  A sample is the magnitude of an I/Q pair; with an odd     *)
(* sample_count the last pair reads past the input, and any magnitude may  *)
(* come of it.  quiet and deaf are kept for the properties.                *)
(***************************************************************************)
EXTENDS TemporalConfig, Sequences

CONSTANTS
    Magnitudes,         \* of the samples, in tenths
    TimeCodes,          \* an output byte is the sample index modulo this, 256
    Pairs,              \* sample pairs per call
    OutputSizes

ASSUME SamplesAssumption ==
    /\ Magnitudes \subseteq Nat /\ TimeCodes \in Nat \ {0}
    /\ Pairs \in Nat /\ OutputSizes \subseteq Nat

VARIABLES
    running,            \* the loop has begun and not ended
    index,              \* i
    output_size, encoded_output,
    membrane_potential, refractory_timer, window_timer,
    quiet,              \* turns since the last spike, as many as a refractory
                        \* period has when there was none
    deaf                \* strong samples at rest that gave no spike

encoderVars == <<running, index, output_size, encoded_output, membrane_potential,
                 refractory_timer, window_timer, quiet, deaf>>

EncoderInit ==
    /\ running = FALSE
    /\ index = 0 /\ output_size = 0 /\ encoded_output = <<>>
    /\ membrane_potential = 0 /\ refractory_timer = 0 /\ window_timer = 0
    /\ quiet = 0 /\ deaf = 0

BeginEncode(size) ==
    /\ ~running /\ running' = TRUE
    /\ index' = 0 /\ output_size' = size /\ encoded_output' = <<>>
    /\ membrane_potential' = 0 /\ refractory_timer' = 0 /\ window_timer' = 0
    /\ quiet' = ttfs_config.refractory_cycles /\ deaf' = 0
    /\ UNCHANGED configVars

Room == Len(encoded_output) < output_size
More == index < 2 * Pairs /\ Room

Charged(magnitude) == Leaky(membrane_potential) + magnitude

Crosses(magnitude) ==
    /\ refractory_timer = 0
    /\ window_timer < WindowCycles
    /\ Charged(magnitude) >= ttfs_config.threshold

Sooner(timer) == IF timer > 0 THEN timer - 1 ELSE 0

\* Mutant: the window closes after a spike and does not open again.
WindowAtStuck(timer) == IF timer >= WindowCycles THEN timer ELSE timer + 1
\* The window timer at the end of a turn.
WindowAt(timer) == IF timer >= WindowCycles THEN 0 ELSE timer + 1

RestAfter == Sooner(ttfs_config.refractory_cycles)

EncodeTurn(magnitude) ==
    /\ running /\ More
    /\ index' = index + 2
    /\ \/ /\ Crosses(magnitude)
          /\ encoded_output' = Append(encoded_output, index % TimeCodes)
          /\ refractory_timer' = RestAfter
          /\ membrane_potential' = 0
          /\ window_timer' = WindowAt(WindowCycles)
          /\ quiet' = 0
          /\ UNCHANGED deaf
       \/ /\ ~Crosses(magnitude)
          /\ UNCHANGED encoded_output
          /\ refractory_timer' = Sooner(refractory_timer)
          /\ membrane_potential' = IF window_timer >= WindowCycles THEN 0
                                   ELSE IF refractory_timer = 0 THEN Charged(magnitude)
                                   ELSE membrane_potential
          /\ window_timer' = WindowAt(window_timer)
          /\ quiet' = quiet + 1
          /\ deaf' = IF refractory_timer = 0 /\ magnitude >= ttfs_config.threshold
                     THEN deaf + 1 ELSE deaf
    /\ UNCHANGED <<running, output_size>> /\ UNCHANGED configVars

\* The loop is over, and the call returns the number of spikes.
EndEncode ==
    /\ running /\ ~More
    /\ running' = FALSE
    /\ UNCHANGED <<index, output_size, encoded_output, membrane_potential,
                   refractory_timer, window_timer, quiet, deaf>>
    /\ UNCHANGED configVars
=============================================================================
