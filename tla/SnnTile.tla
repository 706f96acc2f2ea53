-------------------------------- MODULE SnnTile --------------------------------
(***************************************************************************)
(* rtl/snn/snn_tile_256.v with its array of neurons: load a current for    *)
(* every neuron, count their spikes for a window, scan for the largest     *)
(* count.  One step is one edge of the tile's clock.  The ports are driven *)
(* as a testbench drives them (tb/snn_tile_256_tb.v): in the chip no       *)
(* current arrives in LOAD, as SnnPath shows.                              *)
(***************************************************************************)
EXTENDS LifNeuron, FiniteSets

CONSTANTS
    NumNeurons,     \* NUM_NEURONS, 256 in the chip
    Currents        \* the currents the host loads

ASSUME TileAssumption ==
    /\ NumNeurons \in Nat \ {0}
    /\ Currents \subseteq 0 .. Range - 1

VARIABLES
    snn_current_state, load_counter, load_done, cycle_counter,
    scan_counter, scan_idx, max_spike_count, winner_neuron, spike_counts,
    input_current_reg, current_valid_reg, neuron,
    o_class, o_conf, o_done,
    since       \* history: cycles since each neuron's last spike, and whether
                \* that spike fell on the end of its window

load == <<load_counter, load_done, input_current_reg, current_valid_reg>>
scan == <<scan_counter, scan_idx, max_spike_count, winner_neuron>>
out  == <<o_class, o_conf, o_done>>
vars == <<snn_current_state, load, cycle_counter, scan, spike_counts, neuron,
          out, since>>

Ids == 0 .. NumNeurons - 1
States == {"IDLE", "LOAD", "INTEGRATE", "SCAN", "DONE_STATE"}

\* Cycles from one spike to the next: two in INTEGRATE, two in SPIKE, the
\* refractory period and its end, two in IDLE, and the crossing itself.
SpikePeriod == Refractory + 8

NoInput == [valid |-> FALSE, idx |-> 0, current |-> 0]
Inputs  == {NoInput} \cup [valid : {TRUE}, idx : Ids, current : Currents]

Init ==
    /\ snn_current_state = "IDLE"
    /\ load_counter = 0 /\ load_done = FALSE /\ cycle_counter = 0
    /\ scan_counter = 0 /\ scan_idx = 0 /\ max_spike_count = 0 /\ winner_neuron = 0
    /\ spike_counts = [n \in Ids |-> 0]
    /\ input_current_reg = [n \in Ids |-> 0]
    /\ current_valid_reg = [n \in Ids |-> FALSE]
    /\ neuron \in [Ids -> ResetNeurons]
    /\ o_class = 0 /\ o_conf = 0 /\ o_done = FALSE
    /\ since = [n \in Ids |-> [cycles |-> SpikePeriod, cut |-> FALSE]]

----------------------------------------------------------------------------
(* The states, one action each.  The neurons step in every cycle.          *)

\* Mutant: the counts of the last classification are kept.
IdleKeepsCounts(classify_en) ==
    /\ snn_current_state = "IDLE"
    /\ snn_current_state' = IF classify_en THEN "LOAD" ELSE "IDLE"
    /\ load_counter' = 0 /\ load_done' = FALSE /\ cycle_counter' = 0
    /\ scan_counter' = 0 /\ scan_idx' = 0 /\ max_spike_count' = 0 /\ winner_neuron' = 0
    /\ current_valid_reg' = [n \in Ids |-> FALSE]
    /\ o_done' = FALSE
    /\ UNCHANGED <<spike_counts, input_current_reg, o_class, o_conf>>

Idle(classify_en) ==
    /\ snn_current_state = "IDLE"
    /\ snn_current_state' = IF classify_en THEN "LOAD" ELSE "IDLE"
    /\ load_counter' = 0 /\ load_done' = FALSE /\ cycle_counter' = 0
    /\ scan_counter' = 0 /\ scan_idx' = 0 /\ max_spike_count' = 0 /\ winner_neuron' = 0
    /\ spike_counts' = [n \in Ids |-> 0]
    /\ current_valid_reg' = [n \in Ids |-> FALSE]
    /\ o_done' = FALSE
    /\ UNCHANGED <<input_current_reg, o_class, o_conf>>

\* load_counter counts stores, whichever neurons they are for, and stops the
\* loading one store early.
Load(in) ==
    /\ snn_current_state = "LOAD"
    /\ snn_current_state' = IF load_done THEN "INTEGRATE" ELSE "LOAD"
    /\ IF in.valid
         THEN /\ input_current_reg' = [input_current_reg EXCEPT ![in.idx] = in.current]
              /\ current_valid_reg' = [current_valid_reg EXCEPT ![in.idx] = TRUE]
              /\ load_counter' = load_counter + 1
         ELSE UNCHANGED <<input_current_reg, current_valid_reg, load_counter>>
    /\ load_done' = (load_done \/ load_counter >= NumNeurons - 1)
    /\ o_done' = FALSE
    /\ UNCHANGED <<cycle_counter, scan, spike_counts, o_class, o_conf>>

Integrate ==
    /\ snn_current_state = "INTEGRATE"
    /\ snn_current_state' = IF cycle_counter >= Window THEN "SCAN" ELSE "INTEGRATE"
    /\ cycle_counter' = cycle_counter + 1
    /\ spike_counts' =
         [n \in Ids |-> spike_counts[n]
            + IF neuron[n].spike_valid /\ neuron[n].spike_out THEN 1 ELSE 0]
    /\ o_done' = FALSE
    /\ UNCHANGED <<load, scan, o_class, o_conf>>

\* Mutant: the scan counter has no extra bit and wraps with the index.
ScanWraps ==
    /\ snn_current_state = "SCAN"
    /\ scan_counter' = (scan_counter + 1) % NumNeurons
    /\ scan_idx' = (scan_idx + 1) % NumNeurons
    /\ o_done' = FALSE
    /\ UNCHANGED <<snn_current_state, max_spike_count, winner_neuron, load,
                   cycle_counter, spike_counts, o_class, o_conf>>

\* Mutant: a later neuron with as many spikes wins.
ScanTakesLast ==
    /\ snn_current_state = "SCAN"
    /\ snn_current_state' = IF scan_counter >= NumNeurons THEN "DONE_STATE" ELSE "SCAN"
    /\ IF scan_counter < NumNeurons
         THEN /\ IF spike_counts[scan_idx] >= max_spike_count
                   THEN /\ max_spike_count' = spike_counts[scan_idx]
                        /\ winner_neuron' = scan_idx
                   ELSE UNCHANGED <<max_spike_count, winner_neuron>>
              /\ scan_idx' = (scan_idx + 1) % NumNeurons
              /\ scan_counter' = scan_counter + 1
         ELSE UNCHANGED scan
    /\ o_done' = FALSE
    /\ UNCHANGED <<load, cycle_counter, spike_counts, o_class, o_conf>>

Scan ==
    /\ snn_current_state = "SCAN"
    /\ snn_current_state' = IF scan_counter >= NumNeurons THEN "DONE_STATE" ELSE "SCAN"
    /\ IF scan_counter < NumNeurons
         THEN /\ IF spike_counts[scan_idx] > max_spike_count
                   THEN /\ max_spike_count' = spike_counts[scan_idx]
                        /\ winner_neuron' = scan_idx
                   ELSE UNCHANGED <<max_spike_count, winner_neuron>>
              /\ scan_idx' = (scan_idx + 1) % NumNeurons
              /\ scan_counter' = scan_counter + 1
         ELSE UNCHANGED scan
    /\ o_done' = FALSE
    /\ UNCHANGED <<load, cycle_counter, spike_counts, o_class, o_conf>>

Done ==
    /\ snn_current_state = "DONE_STATE"
    /\ snn_current_state' = "IDLE"
    /\ o_class' = winner_neuron /\ o_conf' = max_spike_count /\ o_done' = TRUE
    /\ UNCHANGED <<load, cycle_counter, scan, spike_counts>>

\* The whole array, on the inputs the tile's registers hold.
NeuronArray ==
    neuron' = [n \in Ids |-> Step(neuron[n], current_valid_reg[n], input_current_reg[n])]

\* History only.
Observe ==
    since' = [n \in Ids |->
        IF neuron'[n].spike_valid
          THEN [cycles |-> 1, cut |-> neuron'[n].next_state = "IDLE"]
          ELSE [since[n] EXCEPT !.cycles = IF @ < SpikePeriod THEN @ + 1 ELSE @]]

Tick(classify_en, in) ==
    /\ Idle(classify_en) \/ Load(in) \/ Integrate \/ Scan \/ Done
    /\ NeuronArray /\ Observe

Next == \E classify_en \in BOOLEAN, in \in Inputs : Tick(classify_en, in)

Spec == Init /\ [][Next]_vars

\* The tile's clock runs.
FairSpec == Spec /\ WF_vars(Next)

----------------------------------------------------------------------------
(* Properties *)

TypeOK ==
    /\ snn_current_state \in States
    /\ load_counter \in 0 .. NumNeurons + 1 /\ load_done \in BOOLEAN
    /\ cycle_counter \in 0 .. Window + 1
    /\ scan_counter \in 0 .. NumNeurons /\ scan_idx \in Ids
    /\ spike_counts \in [Ids -> 0 .. Window + 1]
    /\ input_current_reg \in [Ids -> Currents \cup {0}]
    /\ current_valid_reg \in [Ids -> BOOLEAN]
    /\ neuron \in [Ids -> Neurons]
    /\ winner_neuron \in Ids /\ max_spike_count \in 0 .. Window + 1
    /\ o_class \in Ids /\ o_conf \in 0 .. Window + 1 /\ o_done \in BOOLEAN

\* The first neuron with the largest count among the first k.
LeadsFirst(k, w, max) ==
    /\ \A n \in 0 .. k - 1 : spike_counts[n] <= max
    /\ max > 0 => w < k /\ spike_counts[w] = max
    /\ \A n \in 0 .. w - 1 : spike_counts[n] < max
    /\ max = 0 => w = 0

\* With o_done come the class and the confidence of this classification: the
\* first of the neurons that spiked most, and how often it did.
WinnerTakesAll == o_done => LeadsFirst(NumNeurons, o_class, o_conf)

\* A neuron has spikes in the count only if its current was loaded for this
\* classification: nothing is left of the one before.
CountsAreCurrent ==
    snn_current_state \in {"INTEGRATE", "SCAN", "DONE_STATE"} =>
        \A n \in Ids : spike_counts[n] > 0 => current_valid_reg[n]

\* What the scan compares: counts of this classification, which fit their
\* registers, under indices that name a neuron.
CountsAreSound == TypeOK /\ CountsAreCurrent

\* Two spikes of a neuron are a whole period apart, although its machine runs
\* every state once too often; but for a spike that falls on the end of its
\* window, which has no refractory period.
SpikesApart ==
    [][\A n \in Ids : neuron'[n].spike_valid /\ ~since[n].cut
         => since[n].cycles >= SpikePeriod]_vars

\* Once every current is there, the classification comes to its end.
ClassificationEnds == (snn_current_state = "INTEGRATE") ~> o_done

----------------------------------------------------------------------------
(* Deviations: what comments and documents promise and the code does not.  *)

\* snn_tile_256.v:183, all neurons loaded: the integration starts after as
\* many stores as there are neurons.
AllLoaded == snn_current_state = "INTEGRATE" => load_counter >= NumNeurons

\* docs/ARCHITECTURE.md:442: one spike per neuron and window, in TTFS mode.
OneSpikePerWindow == Ttfs => \A n \in Ids : spike_counts[n] <= 1

\* docs/ARCHITECTURE.md:438: the refractory period follows every spike.
RefractoryAlways ==
    [][\A n \in Ids : neuron'[n].spike_valid => since[n].cycles >= SpikePeriod]_vars

\* The neurons start at rest, whatever the last classification left.
StartsAtRest ==
    snn_current_state = "LOAD" /\ load_counter = 0 =>
        \A n \in Ids : neuron[n].v_mem = Rest
=============================================================================
