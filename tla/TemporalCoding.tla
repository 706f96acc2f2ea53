--------------------------- MODULE TemporalCoding ---------------------------
(***************************************************************************)
(* firmware/snn_temporal.c as a program uses it.  The neurons, the encoder *)
(* and the learning rule share only the configuration, so a program uses   *)
(* one of them (the bound Programs).  asked, enabled and policy are        *)
(* history: what the two configuration functions were last given, the      *)
(* window in the units of the register, and whether TTFS was ever set.     *)
(***************************************************************************)
EXTENDS TemporalNeuron, RfEncoder
-----------------------------------------------------------------------------
(* snn_apply_stdp_learning, for one synapse of the arrays it is given.  A  *)
(* change of a weight is at most a hundredth while the spikes are less     *)
(* than Word32/2 cycles apart; from there on their distance is negative as *)
(* an int32_t and the exponential grows without bound.                     *)

CONSTANTS
    Times,              \* spike times in cycles, 0 for no spike
    WeightMax,          \* 127
    Reach               \* a change is lost in a float beyond this distance

ASSUME TimesAssumption ==
    /\ Times \subseteq 0 .. Word32 - 1
    /\ WeightMax \in Nat \ {0} /\ Reach \in Nat

VARIABLES
    weight,             \* an int8_t
    pre, post           \* the times of the last call

stdpVars == <<weight, pre, post>>

Weights == -(WeightMax + 1) .. WeightMax

StdpInit == weight \in Weights /\ pre = 0 /\ post = 0

Apart(s, t) == IF s < t THEN t - s ELSE s - t
Clip(w) == IF w > WeightMax THEN WeightMax ELSE IF w < -WeightMax THEN -WeightMax ELSE w

\* The weight after a hundredth less: the cast to int8_t rounds towards zero.
StepDown(w) == IF w > 0 THEN w - 1 ELSE w
StepUp(w) == IF w < 0 THEN w + 1 ELSE w

\* Mutant: without the boundary checks the cast of a sum that no int8_t can hold
\* is undefined.
ExplodedUnchecked(w, s, t) == Weights
\* The exponential of a distance that is negative as an int32_t.
Exploded(w, s, t) ==
    IF s < t THEN Clip(StepUp(w)) .. WeightMax ELSE -WeightMax .. Clip(StepDown(w))

\* What (int8_t) makes of the clipped sum, for spikes s and t.
Learned(w, s, t) ==
    LET d == Apart(s, t)
    IN IF s = 0 \/ t = 0 THEN {w}
       ELSE IF 2 * d >= Word32 THEN Exploded(w, s, t)
       ELSE IF d > Reach THEN {Clip(w)}
       ELSE {Clip(IF s < t THEN StepUp(w) ELSE StepDown(w))}

ApplyStdpLearning(s, t) ==
    /\ weight' \in Learned(weight, s, t)
    /\ pre' = s /\ post' = t
-----------------------------------------------------------------------------
(* A program.                                                              *)

CONSTANT Programs       \* bound

ASSUME ProgramsAssumption ==
    Programs \subseteq {"neurons", "encoder", "learning", "registers"}

VARIABLES program, asked, enabled, policy

history == <<asked, enabled, policy>>
codingVars == <<program, history, configVars, neuronVars, encoderVars, stdpVars>>

CodingInit ==
    /\ program \in Programs
    /\ asked = 0 /\ enabled = FALSE /\ policy = 0
    /\ ConfigInit /\ NeuronInit /\ EncoderInit /\ StdpInit
    /\ program # "learning" => weight = 0

\* Calls that configure; the encoder runs to its end before the next.
SetWindow(us, cycles) ==
    /\ ~running
    /\ TtfsConfig(us, cycles)
    /\ asked' = us \div 100 /\ enabled' = TRUE /\ UNCHANGED policy
    /\ UNCHANGED <<program, neuronVars, encoderVars, stdpVars>>

SetPolicy(p) ==
    /\ program = "registers"
    /\ ConfigureStdp(p)
    /\ policy' = p /\ UNCHANGED <<asked, enabled>>
    /\ UNCHANGED <<program, neuronVars, encoderVars, stdpVars>>

OpenOrClose ==
    /\ ~running
    /\ InitTemporalCoding \/ DeinitTemporalCoding
    /\ UNCHANGED <<program, history, neuronVars, encoderVars, stdpVars>>

Cycle(n, current) ==
    /\ program = "neurons"
    /\ ProcessTemporalCycle(n, current)
    /\ UNCHANGED <<program, history, encoderVars, stdpVars>>

Encode ==
    /\ program = "encoder"
    /\ \/ \E size \in OutputSizes : BeginEncode(size)
       \/ \E m \in Magnitudes : EncodeTurn(m)
       \/ EndEncode
    /\ UNCHANGED <<program, history, neuronVars, stdpVars>>

Learn(s, t) ==
    /\ program = "learning"
    /\ ApplyStdpLearning(s, t)
    /\ UNCHANGED <<program, history, configVars, neuronVars, encoderVars>>

CodingNext ==
    \/ \E us \in Windows, cycles \in Refractories : SetWindow(us, cycles)
    \/ \E p \in Policies : SetPolicy(p)
    \/ OpenOrClose
    \/ \E n \in Neurons, current \in Currents : Cycle(n, current)
    \/ Encode
    \/ \E s, t \in Times : Learn(s, t)

CodingSpec == CodingInit /\ [][CodingNext]_codingVars
-----------------------------------------------------------------------------
(* Properties.                                                             *)

\* The variables of the code have their types; a timer never passes the
\* refractory period that any call has set.
CodingTypeOK ==
    /\ ttfs_config \in [window_us : Windows \union {0, DefaultWindow},
                        refractory_cycles : Refractories \union {0, DefaultRefractory},
                        threshold : {0, DefaultThreshold}, leak_rate : {0, DefaultLeak}]
    /\ snn_ctrl \subseteq 0 .. 31
    /\ spike_train_buffer \in Blocks \union {NULL} /\ live \subseteq Blocks
    /\ configs \in 0 .. MaxConfigs
    /\ membrane_potentials \in [Neurons -> Int]
    /\ refractory_timers \in [Neurons -> 0 .. MaxSince]
    /\ temporal_windows \in [Neurons -> Nat]
    /\ thresholds \in [Neurons -> {0, DefaultThreshold}]
    /\ since \in [Neurons -> 0 .. MaxSince] /\ gap \in [Neurons -> 0 .. MaxSince]
    /\ lost \in [Neurons -> Nat]
    /\ refractory_timer \in 0 .. MaxSince /\ window_timer \in Nat
    /\ membrane_potential \in Nat /\ quiet \in Nat /\ deaf \in Nat
    /\ index \in 0 .. 2 * Pairs /\ encoded_output \in Seq(0 .. TimeCodes - 1)
    /\ weight \in Weights

\* Between two spikes of a neuron lie as many calls as the refractory period
\* had when the first was given, whatever is configured in between.  Spikes of
\* the encoder are refractory_cycles turns apart, one less than the calls of a
\* neuron: the turn that spikes already counts as rest.
SpikesSpaced ==
    [][/\ \A n \in Neurons : since[n] # 0 /\ since'[n] = 0 => since[n] >= gap[n]
       /\ quiet # 0 /\ quiet' = 0 => quiet + 1 >= ttfs_config.refractory_cycles]_codingVars

\* A strong input to a neuron at rest gives a spike at once, but for at most one
\* after each change of the configuration: a window counter that is past the new
\* window is only noticed, and reset, at the end of a call.
OneLostPerChange == \A n \in Neurons : lost[n] <= configs

\* The threshold that a neuron took over is the configured one.
ThresholdsAgree ==
    \A n \in Neurons : thresholds[n] \in {0, ttfs_config.threshold}

\* The buffer that deinit frees is allocated: nothing is freed twice.
NoDoubleFree == spike_train_buffer # NULL => spike_train_buffer \in live

\* Two functions write register 0x7C5, in any order, and neither undoes what the
\* other has set: TTFS is on once it was configured, the upper bits of the window
\* field are those of the last window, and bits 12 to 15 hold the last policy.
\* (For bit 8, the lowest of the window, see WindowAsConfigured.)
FieldsAsConfigured ==
    /\ 7 \in snn_ctrl <=> enabled
    /\ snn_ctrl \intersect (9 .. 10) = Field(8, 3, asked) \ {8}
    /\ snn_ctrl \intersect (12 .. 15) = Field(12, 4, policy)

\* The encoder is deaf for one turn after each WindowCycles: of the first k turns
\* of a call, those in refractory included, at most k \div (WindowCycles + 1) take
\* a strong sample at rest and give no spike.
EncoderDeaf == running /\ WindowCycles > 0 => deaf * (WindowCycles + 1) <= index \div 2

\* The encoder stores no more than there is room for.
OutputFits == Len(encoded_output) <= output_size

\* A weight moves the way of its rule at every distance of the spikes, those that
\* are negative as an int32_t included: a pre-spike before the post-spike never
\* lowers it, one after never raises it (but -128 to the bound of -127), and while
\* the distance is positive it moves by one at most.
LearnsInDirection ==
    [][/\ pre' < post' => weight' >= weight
       /\ post' < pre' /\ weight >= -WeightMax => weight' <= weight
       /\ 2 * Apart(pre', post') < Word32 => Apart(weight, weight') <= 1]_codingVars

\* Of two values above the threshold the stronger spikes no later, and all of
\* them within the window, if it has a cycle.
StrongerIsEarlier ==
    \A v, w \in ttfs_config.threshold + 1 .. One :
        v <= w /\ WindowCycles > 0 =>
            \A s \in SpikeTimes(v), t \in SpikeTimes(w) : t <= s /\ s < WindowCycles

\* What the configuration functions leave, in any order of their calls: a
\* register, a buffer, thresholds and windows on which the rest of the code can
\* run, and room for what it stores.
ConfigurationSound ==
    /\ CodingTypeOK
    /\ FieldsAsConfigured /\ NoDoubleFree /\ ThresholdsAgree
    /\ StrongerIsEarlier /\ OutputFits
-----------------------------------------------------------------------------
(* Deviations: what the comments say and the code does not do.             *)

\* Violated: "End temporal window after first spike" and "TTFS", time to first
\* spike: a neuron spikes at most once in a window.
OneSpikePerWindow ==
    [][\A n \in Neurons :
        since[n] \notin {0, MaxSince} /\ since'[n] = 0 => since[n] >= WindowCycles]_codingVars

\* Violated: "Clear old window setting": the field is the last window given.  The
\* mask clears bits 9 to 11, so bit 8 stays set for ever after an odd window.
WindowAsConfigured == snn_ctrl \intersect (8 .. 10) = Field(8, 3, asked)

\* Violated: "Pre-spike before post-spike: LTP", "LTP amplitude": a pre-spike close
\* before the post-spike strengthens a weight.  A hundredth more is cast away,
\* so that a positive weight never grows and a weight of 0 never moves.
LtpStrengthens ==
    [][\A s, t \in Times :
        Learn(s, t) /\ s # 0 /\ s < t /\ Apart(s, t) <= Reach /\ weight < WeightMax
            => weight' > weight]_codingVars

=============================================================================
