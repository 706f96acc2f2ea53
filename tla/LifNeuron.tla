------------------------------- MODULE LifNeuron -------------------------------
(***************************************************************************)
(* One neuron of rtl/snn/lif_ttfs_neuron_v1_1.v, as a function from its    *)
(* registers before a clock edge to those after it.  next_state is a       *)
(* register too, so the machine reaches a state two edges after deciding   *)
(* to, and runs the old state once more meanwhile.                         *)
(***************************************************************************)
EXTENDS Naturals

CONSTANTS
    Range,          \* 2^32 in the code: membrane potentials wrap there
    Window,         \* window_cycles, as i_t_window selects it
    Refractory,     \* i_refractory_cycles
    Threshold, Rest,
    Ttfs            \* i_ttfs_enable

ASSUME NeuronAssumption ==
    /\ Range \in Nat \ {0} /\ Window \in Nat \ {0} /\ Refractory \in 0 .. 7
    /\ Threshold \in 1 .. Range - 1 /\ Rest \in 0 .. Threshold - 1
    /\ Ttfs \in BOOLEAN

NeuronStates == {"IDLE", "INTEGRATE", "SPIKE", "REFRACTORY"}

\* cycle_count is only compared with the window, and stops counting there.
Neurons == [current_state : NeuronStates, next_state : NeuronStates,
            v_mem : 0 .. Range - 1, cycle_count : 0 .. Window,
            refractory_count : 0 .. 7, threshold_crossed : BOOLEAN,
            spike_out : BOOLEAN, spike_valid : BOOLEAN]

\* next_state is not reset.
ResetNeurons ==
    {[current_state |-> "IDLE", next_state |-> s, v_mem |-> 0, cycle_count |-> 0,
      refractory_count |-> 0, threshold_crossed |-> FALSE,
      spike_out |-> FALSE, spike_valid |-> FALSE] : s \in NeuronStates}

Charged(n, current) == (n.v_mem + current) % Range

IdleStep(n, valid, current) ==
    [n EXCEPT !.spike_out = FALSE, !.cycle_count = 0, !.threshold_crossed = FALSE,
              !.v_mem = IF valid THEN Charged(n, current) ELSE Rest,
              !.next_state = IF valid THEN "INTEGRATE" ELSE n.next_state]

\* Mutant: threshold_crossed does not keep the threshold from being crossed again.
IntegrateStepTwice(n, valid, current) ==
    LET fires == n.v_mem >= Threshold
        ends  == Ttfs /\ n.cycle_count = Window /\ ~n.threshold_crossed
    IN  [n EXCEPT !.spike_out = fires, !.spike_valid = fires,
                  !.threshold_crossed = @ \/ fires,
                  !.v_mem = IF ends THEN Rest ELSE n.v_mem,
                  !.cycle_count = IF ends THEN 0
                                  ELSE IF @ < Window THEN @ + 1 ELSE @,
                  !.next_state = IF ends THEN "IDLE" ELSE IF fires THEN "SPIKE" ELSE @]

\* The end of the window is decided after the threshold, and overrides it.
IntegrateStep(n, valid, current) ==
    LET fires == n.v_mem >= Threshold /\ ~n.threshold_crossed
        ends  == Ttfs /\ n.cycle_count = Window /\ ~n.threshold_crossed
    IN  [n EXCEPT !.spike_out = fires, !.spike_valid = fires,
                  !.threshold_crossed = @ \/ fires,
                  !.v_mem = IF ends THEN Rest
                            ELSE IF valid THEN Charged(n, current) ELSE @,
                  !.cycle_count = IF ends THEN 0
                                  ELSE IF @ < Window THEN @ + 1 ELSE @,
                  !.next_state = IF ends THEN "IDLE" ELSE IF fires THEN "SPIKE" ELSE @]

SpikeStep(n) ==
    [n EXCEPT !.spike_out = TRUE, !.threshold_crossed = FALSE,
              !.refractory_count = Refractory, !.next_state = "REFRACTORY"]

RefractoryStep(n) ==
    IF n.refractory_count > 0
      THEN [n EXCEPT !.spike_out = FALSE, !.v_mem = Rest, !.refractory_count = @ - 1]
      ELSE [n EXCEPT !.spike_out = FALSE, !.v_mem = Rest, !.cycle_count = 0,
                     !.next_state = "IDLE"]

\* One clock edge.
Step(n, valid, current) ==
    LET m == [n EXCEPT !.spike_valid = FALSE, !.current_state = n.next_state] IN
    CASE n.current_state = "IDLE"       -> IdleStep(m, valid, current)
      [] n.current_state = "INTEGRATE"  -> IntegrateStep(m, valid, current)
      [] n.current_state = "SPIKE"      -> SpikeStep(m)
      [] n.current_state = "REFRACTORY" -> RefractoryStep(m)
=============================================================================
