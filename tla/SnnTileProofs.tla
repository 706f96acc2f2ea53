---------------------------- MODULE SnnTileProofs ----------------------------
(***************************************************************************)
(* What the tile answers, for every number of neurons, every window and    *)
(* every neuron: the scan keeps the first of the neurons with the largest  *)
(* count among those it has passed.                                        *)
(***************************************************************************)
EXTENDS SnnTile, Integers, TLAPS

ScanTypes ==
    /\ scan_counter \in 0 .. NumNeurons /\ scan_idx \in Nat
    /\ max_spike_count \in Nat /\ winner_neuron \in Nat
    /\ o_class \in Nat /\ o_conf \in Nat
    /\ spike_counts \in [Ids -> Nat]

\* scan_idx repeats scan_counter in fewer bits.
IndexFollows == scan_counter < NumNeurons => scan_idx = scan_counter

\* The scan starts from the reset that IDLE has made.
ScanReset ==
    snn_current_state \in {"LOAD", "INTEGRATE"} =>
        scan_counter = 0 /\ max_spike_count = 0 /\ winner_neuron = 0

\* The neurons passed so far have been compared.
ScanProgress ==
    snn_current_state \in {"SCAN", "DONE_STATE"} =>
        LeadsFirst(scan_counter, winner_neuron, max_spike_count)

ScanComplete == snn_current_state = "DONE_STATE" => scan_counter = NumNeurons

\* The answer stands for one cycle, in which the counts are still there.
ScanInv ==
    /\ ScanTypes /\ IndexFollows /\ ScanReset /\ ScanProgress /\ ScanComplete
    /\ WinnerTakesAll

\* The index wraps only when the counter has reached the number of neurons.
LEMMA IndexWraps ==
    ASSUME NEW k \in 0 .. NumNeurons - 1, k + 1 < NumNeurons
    PROVE  (k + 1) % NumNeurons = k + 1
BY TileAssumption

\* One comparison: a strictly larger count takes the lead, any other leaves it.
LEMMA OneComparison ==
    ASSUME spike_counts \in [Ids -> Nat],
           NEW k \in 0 .. NumNeurons - 1, NEW w \in Nat, NEW max \in Nat,
           LeadsFirst(k, w, max)
    PROVE  /\ spike_counts[k] > max => LeadsFirst(k + 1, k, spike_counts[k])
           /\ ~(spike_counts[k] > max) => LeadsFirst(k + 1, w, max)
<1>1. /\ k \in Ids /\ k \in Nat /\ NumNeurons \in Nat /\ spike_counts[k] \in Nat
      /\ \A n \in 0 .. k - 1 : n \in Ids /\ spike_counts[n] \in Nat
      /\ 0 .. (k + 1) - 1 = 0 .. k /\ \A n \in 0 .. k : n = k \/ n \in 0 .. k - 1
  BY TileAssumption DEF Ids
<1>2. \A n \in 0 .. k - 1 : spike_counts[n] <= max BY DEF LeadsFirst
<1>3. ASSUME spike_counts[k] > max PROVE LeadsFirst(k + 1, k, spike_counts[k])
  <2>1. \A n \in 0 .. k - 1 : spike_counts[n] < spike_counts[k]
    BY <1>1, <1>2, <1>3
  <2>2. spike_counts[k] > 0 /\ k < k + 1 BY <1>1, <1>3
  <2>3. \A n \in 0 .. k : spike_counts[n] <= spike_counts[k] BY <1>1, <2>1
  <2> QED BY <1>1, <2>1, <2>2, <2>3 DEF LeadsFirst
<1>4. ASSUME ~(spike_counts[k] > max) PROVE LeadsFirst(k + 1, w, max)
  <2>1. \A n \in 0 .. k : spike_counts[n] <= max BY <1>1, <1>2, <1>4
  <2>2. max > 0 => w < k + 1 /\ spike_counts[w] = max BY <1>1 DEF LeadsFirst
  <2> QED BY <1>1, <2>1, <2>2 DEF LeadsFirst
<1> QED BY <1>3, <1>4

\* Nothing has been compared yet.
LEMMA NothingCompared == LeadsFirst(0, 0, 0)
BY DEF LeadsFirst

LEMMA InitScanInv == Init => ScanInv
BY TileAssumption DEF Init, ScanInv, ScanTypes, IndexFollows, ScanReset,
   ScanProgress, ScanComplete, WinnerTakesAll, Ids

\* Every state of the tile keeps the invariant.
LEMMA NextScanInv == ScanInv /\ [Next]_vars => ScanInv'
<1> SUFFICES ASSUME ScanInv, [Next]_vars PROVE ScanInv'
    OBVIOUS
<1> USE TileAssumption DEF ScanInv, ScanTypes
<1>1. ASSUME NEW classify_en \in BOOLEAN, Idle(classify_en) PROVE ScanInv'
  <2>1. ScanTypes' /\ IndexFollows' BY <1>1 DEF Idle, IndexFollows, Ids
  <2>2. snn_current_state' \in {"IDLE", "LOAD"} BY <1>1 DEF Idle
  <2>3. ScanReset' /\ ScanProgress' /\ ScanComplete'
        BY <1>1, <2>2 DEF Idle, ScanReset, ScanProgress, ScanComplete
  <2> QED BY <1>1, <2>1, <2>3 DEF Idle, WinnerTakesAll
<1>2. ASSUME NEW in \in Inputs, Load(in) PROVE ScanInv'
  <2>1. ScanTypes' /\ IndexFollows' BY <1>2 DEF Load, IndexFollows, scan
  <2>2. ScanReset' /\ ScanProgress' /\ ScanComplete'
        BY <1>2 DEF Load, ScanReset, ScanProgress, ScanComplete, scan
  <2> QED BY <1>2, <2>1, <2>2 DEF Load, WinnerTakesAll
<1>3. CASE Integrate
  <2>1. spike_counts' \in [Ids -> Nat] BY <1>3 DEF Integrate
  <2>2. ScanTypes' /\ IndexFollows'
        BY <1>3, <2>1 DEF Integrate, IndexFollows, scan
  <2>3. ScanReset' /\ ScanComplete'
        BY <1>3 DEF Integrate, ScanReset, ScanComplete, scan
  <2>4. LeadsFirst(scan_counter, winner_neuron, max_spike_count)'
    <3>1. scan_counter' = 0 /\ winner_neuron' = 0 /\ max_spike_count' = 0
          BY <1>3 DEF Integrate, ScanReset, scan
    <3> QED BY <3>1 DEF LeadsFirst
  <2> QED BY <1>3, <2>2, <2>3, <2>4 DEF Integrate, WinnerTakesAll, ScanProgress
<1>4. CASE Scan
  <2>1. ~o_done' /\ spike_counts' = spike_counts BY <1>4 DEF Scan
  <2>2. LeadsFirst(scan_counter, winner_neuron, max_spike_count)
        BY <1>4 DEF Scan, ScanProgress
  <2>3. CASE scan_counter < NumNeurons
    <3>1. /\ scan_idx = scan_counter /\ scan_counter \in 0 .. NumNeurons - 1
          /\ scan_counter' = scan_counter + 1
          /\ scan_idx' = (scan_counter + 1) % NumNeurons
          /\ snn_current_state' = "SCAN"
          BY <1>4, <2>3 DEF Scan, IndexFollows
    <3>2. spike_counts[scan_counter] \in Nat BY <3>1 DEF Ids
    <3>3. LeadsFirst(scan_counter, winner_neuron, max_spike_count)'
      <4>1. CASE spike_counts[scan_counter] > max_spike_count
        <5>1. /\ max_spike_count' = spike_counts[scan_counter]
              /\ winner_neuron' = scan_counter
              BY <1>4, <2>3, <3>1, <4>1 DEF Scan
        <5>2. LeadsFirst(scan_counter + 1, scan_counter, spike_counts[scan_counter])
              BY <2>2, <3>1, <4>1, OneComparison
        <5> QED BY <5>1, <5>2, <3>1, <2>1 DEF LeadsFirst
      <4>2. CASE ~(spike_counts[scan_counter] > max_spike_count)
        <5>1. max_spike_count' = max_spike_count /\ winner_neuron' = winner_neuron
              BY <1>4, <2>3, <3>1, <4>2 DEF Scan
        <5>2. LeadsFirst(scan_counter + 1, winner_neuron, max_spike_count)
              BY <2>2, <3>1, <4>2, OneComparison
        <5> QED BY <5>1, <5>2, <3>1, <2>1 DEF LeadsFirst
      <4> QED BY <4>1, <4>2
    <3>4. IndexFollows' BY <3>1, IndexWraps DEF IndexFollows
    <3>5. ScanTypes'
      <4>1. scan_idx' \in Nat BY <3>1
      <4>2. max_spike_count' \in Nat /\ winner_neuron' \in Nat
            BY <1>4, <2>3, <3>1, <3>2 DEF Scan
      <4> QED BY <1>4, <2>1, <3>1, <4>1, <4>2 DEF Scan
    <3> QED BY <2>1, <3>1, <3>3, <3>4, <3>5
            DEF ScanReset, ScanProgress, ScanComplete, WinnerTakesAll
  <2>4. CASE scan_counter = NumNeurons
    <3>1. /\ UNCHANGED <<scan_counter, scan_idx, max_spike_count, winner_neuron>>
          /\ UNCHANGED <<o_class, o_conf, spike_counts>>
          /\ snn_current_state' = "DONE_STATE"
          BY <1>4, <2>4 DEF Scan, scan
    <3> QED BY <2>1, <2>2, <2>4, <3>1
            DEF IndexFollows, ScanReset, ScanProgress, ScanComplete,
                WinnerTakesAll, LeadsFirst
  <2> QED BY <2>3, <2>4
<1>5. CASE Done
  <2>1. /\ UNCHANGED <<scan_counter, scan_idx, max_spike_count, winner_neuron>>
        /\ spike_counts' = spike_counts /\ snn_current_state' = "IDLE"
        /\ o_class' = winner_neuron /\ o_conf' = max_spike_count
        BY <1>5 DEF Done, scan
  <2>2. LeadsFirst(NumNeurons, winner_neuron, max_spike_count)
        BY <1>5 DEF Done, ScanProgress, ScanComplete
  <2> QED BY <2>1, <2>2 DEF IndexFollows, ScanReset, ScanProgress, ScanComplete,
             WinnerTakesAll, LeadsFirst
<1>6. CASE UNCHANGED vars
  BY <1>6 DEF vars, scan, out, IndexFollows, ScanReset, ScanProgress,
     ScanComplete, WinnerTakesAll, LeadsFirst
<1> QED BY <1>1, <1>2, <1>3, <1>4, <1>5, <1>6 DEF Next, Tick

\* The class the tile answers with is the first of the neurons that spiked
\* most, and the confidence is that count, whatever the neurons do.
THEOREM WinnerCorrect == Spec => []WinnerTakesAll
<1>1. ScanInv => WinnerTakesAll BY DEF ScanInv
<1> QED BY <1>1, InitScanInv, NextScanInv, PTL DEF Spec

----------------------------------------------------------------------------
(***************************************************************************)
(* The rhythm of one neuron, n its registers and s its history: which      *)
(* pairs of state and next state it goes through, and how many cycles must *)
(* have passed since its last spike, unless that one was cut short.        *)
(***************************************************************************)
Histories == [cycles : 0 .. SpikePeriod, cut : BOOLEAN]

Later(s, k) == s.cut \/ s.cycles >= k

PacedIdle(n, s) ==
    \/ n.next_state = "IDLE" /\ Later(s, Refractory + 6)
    \/ n.next_state = "INTEGRATE" /\ Later(s, Refractory + 7)
PacedIntegrate(n, s) ==
    \/ n.next_state = "INTEGRATE" /\ ~n.threshold_crossed /\ Later(s, SpikePeriod)
    \/ n.next_state = "SPIKE" /\ n.threshold_crossed /\ Later(s, 1)
    \/ /\ n.next_state = "IDLE" /\ n.v_mem < Threshold
       /\ IF n.threshold_crossed THEN s.cut ELSE Later(s, SpikePeriod)
PacedSpike(n, s) ==
    \/ n.next_state = "SPIKE" /\ Later(s, 2)
    \/ n.next_state = "REFRACTORY" /\ n.refractory_count = Refractory /\ Later(s, 3)
PacedRefractory(n, s) ==
    \/ n.next_state = "REFRACTORY" /\ Later(s, Refractory + 4 - n.refractory_count)
    \/ n.next_state = "IDLE" /\ n.refractory_count = 0 /\ Later(s, Refractory + 5)

Paced(n, s) ==
    /\ n.current_state = "IDLE"       => PacedIdle(n, s)
    /\ n.current_state = "INTEGRATE"  => PacedIntegrate(n, s)
    /\ n.current_state = "SPIKE"      => PacedSpike(n, s)
    /\ n.current_state = "REFRACTORY" => PacedRefractory(n, s)

\* After reset next_state may be anything, but no current is valid.
Fresh(n, s) ==
    n.current_state = "IDLE" /\ ~n.spike_valid /\ s.cycles = SpikePeriod

\* Without a current such a neuron never reaches the threshold, and apart from
\* a spike that is up already gives none.
Settled(n) == n.current_state = "INTEGRATE" => n.v_mem < Threshold \/ n.threshold_crossed
Silent(n) == Settled(n) /\ ~n.spike_valid

NeuronsPaced ==
    /\ input_current_reg \in [Ids -> Currents \cup {0}]
    /\ current_valid_reg \in [Ids -> BOOLEAN]
    /\ neuron \in [Ids -> Neurons] /\ since \in [Ids -> Histories]
    /\ \A n \in Ids : \/ Paced(neuron[n], since[n])
                      \/ ~current_valid_reg[n] /\ Fresh(neuron[n], since[n])

\* A neuron without a current has two cycles of LOAD to become silent.
QuietUnlessLoaded ==
    \A n \in Ids : ~current_valid_reg[n] =>
        /\ snn_current_state = "LOAD" /\ load_done => Settled(neuron[n])
        /\ snn_current_state = "INTEGRATE" => Silent(neuron[n])
        /\ snn_current_state \in {"INTEGRATE", "SCAN", "DONE_STATE"} => spike_counts[n] = 0

\* How far the counters can have come in each state.
CountersBounded ==
    /\ snn_current_state \in States
    /\ load_counter \in 0 .. NumNeurons + 1 /\ load_done \in BOOLEAN
    /\ snn_current_state = "LOAD" =>
          /\ load_counter <= NumNeurons /\ (~load_done => load_counter < NumNeurons)
          /\ cycle_counter = 0 /\ \A n \in Ids : spike_counts[n] = 0
    /\ cycle_counter \in 0 .. Window + 1
    /\ spike_counts \in [Ids -> 0 .. Window + 1]
    /\ snn_current_state = "INTEGRATE" =>
          cycle_counter <= Window /\ \A n \in Ids : spike_counts[n] <= cycle_counter
    /\ scan_idx \in Ids /\ winner_neuron \in Ids /\ o_class \in Ids
    /\ max_spike_count \in 0 .. Window + 1 /\ o_conf \in 0 .. Window + 1
    /\ o_done \in BOOLEAN

TileInv == ScanInv /\ NeuronsPaced /\ QuietUnlessLoaded /\ CountersBounded

\* One edge, field by field.
LEMMA StepFields ==
    ASSUME NEW n \in Neurons, NEW valid \in BOOLEAN, NEW c \in 0 .. Range - 1,
           NEW m, m = Step(n, valid, c)
    PROVE  /\ m \in Neurons /\ m.current_state = n.next_state
           /\ n.current_state = "IDLE" =>
                 /\ ~m.spike_valid /\ ~m.threshold_crossed
                 /\ ~valid => m.v_mem = Rest
                 /\ m.next_state = IF valid THEN "INTEGRATE" ELSE n.next_state
           /\ n.current_state = "INTEGRATE" =>
                 LET fires == n.v_mem >= Threshold /\ ~n.threshold_crossed
                     ends  == Ttfs /\ n.cycle_count = Window /\ ~n.threshold_crossed
                 IN  /\ m.spike_valid <=> fires
                     /\ m.threshold_crossed <=> n.threshold_crossed \/ fires
                     /\ ends => m.v_mem = Rest
                     /\ ~valid => m.v_mem \in {n.v_mem, Rest}
                     /\ m.next_state = IF ends THEN "IDLE"
                                       ELSE IF fires THEN "SPIKE" ELSE n.next_state
           /\ n.current_state = "SPIKE" =>
                 /\ ~m.spike_valid /\ ~m.threshold_crossed
                 /\ m.next_state = "REFRACTORY" /\ m.refractory_count = Refractory
           /\ n.current_state = "REFRACTORY" =>
                 /\ ~m.spike_valid /\ m.v_mem = Rest
                 /\ n.refractory_count > 0 =>
                       /\ m.refractory_count = n.refractory_count - 1
                       /\ m.next_state = n.next_state
                 /\ n.refractory_count = 0 =>
                       m.refractory_count = 0 /\ m.next_state = "IDLE"
<1> DEFINE a == [n EXCEPT !.spike_valid = FALSE, !.current_state = n.next_state]
<1> USE NeuronAssumption
<1>1. /\ a \in Neurons /\ ~a.spike_valid /\ a.current_state = n.next_state
      /\ a.next_state = n.next_state /\ a.v_mem = n.v_mem
      /\ a.cycle_count = n.cycle_count /\ a.refractory_count = n.refractory_count
      /\ a.threshold_crossed = n.threshold_crossed
  BY DEF Neurons, NeuronStates
<1>2. Charged(a, c) \in 0 .. Range - 1 /\ Rest \in 0 .. Range - 1
  BY <1>1 DEF Charged, Neurons
<1> HIDE DEF a
<1>3. CASE n.current_state = "IDLE"
  <2>1. m = IdleStep(a, valid, c) BY <1>3 DEF Step, a
  <2> DEFINE v == IF valid THEN Charged(a, c) ELSE Rest
             x == IF valid THEN "INTEGRATE" ELSE a.next_state
  <2>2. v \in 0 .. Range - 1 /\ x \in NeuronStates
    BY <1>1, <1>2 DEF Neurons, NeuronStates
  <2>3. m = [a EXCEPT !.spike_out = FALSE, !.cycle_count = 0,
                      !.threshold_crossed = FALSE, !.v_mem = v, !.next_state = x]
    BY <2>1 DEF IdleStep
  <2>4. (~valid => v = Rest) /\ x = IF valid THEN "INTEGRATE" ELSE n.next_state
    BY <1>1
  <2> HIDE DEF v, x
  <2>5. m \in Neurons
    <3>1. 0 \in 0 .. Window /\ FALSE \in BOOLEAN OBVIOUS
    <3> QED BY <1>1, <2>2, <2>3, <3>1 DEF Neurons
  <2>6. /\ m.spike_valid = a.spike_valid /\ m.threshold_crossed = FALSE
        /\ m.v_mem = v /\ m.next_state = x /\ m.current_state = a.current_state
    BY <1>1, <2>3 DEF Neurons
  <2> QED BY <1>1, <1>3, <2>4, <2>5, <2>6
<1>4. CASE n.current_state = "INTEGRATE"
  <2>1. m = IntegrateStep(a, valid, c) BY <1>4 DEF Step, a
  <2> DEFINE fires == n.v_mem >= Threshold /\ ~n.threshold_crossed
             ends  == Ttfs /\ n.cycle_count = Window /\ ~n.threshold_crossed
             v == IF ends THEN Rest ELSE IF valid THEN Charged(a, c) ELSE a.v_mem
             k == IF ends THEN 0 ELSE IF a.cycle_count < Window THEN a.cycle_count + 1
                                      ELSE a.cycle_count
             x == IF ends THEN "IDLE" ELSE IF fires THEN "SPIKE" ELSE a.next_state
             b == a.threshold_crossed \/ fires
  <2>2. v \in 0 .. Range - 1 /\ x \in NeuronStates /\ k \in 0 .. Window
    BY <1>1, <1>2 DEF Neurons, NeuronStates
  <2>3. fires \in BOOLEAN /\ b \in BOOLEAN
    BY <1>1 DEF Neurons
  <2>4. m = [a EXCEPT !.spike_out = fires, !.spike_valid = fires,
                      !.threshold_crossed = b, !.v_mem = v, !.cycle_count = k,
                      !.next_state = x]
    BY <1>1, <2>1 DEF IntegrateStep
  <2>5. /\ ends => v = Rest
        /\ ~valid => v \in {n.v_mem, Rest}
        /\ x = IF ends THEN "IDLE" ELSE IF fires THEN "SPIKE" ELSE n.next_state
        /\ b <=> n.threshold_crossed \/ fires
    BY <1>1
  <2> HIDE DEF fires, ends, v, k, x, b
  <2>6. m \in Neurons
    BY <1>1, <2>2, <2>3, <2>4 DEF Neurons
  <2>7. /\ m.spike_valid = fires /\ m.threshold_crossed = b
        /\ m.v_mem = v /\ m.next_state = x /\ m.current_state = a.current_state
    BY <1>1, <2>4 DEF Neurons
  <2>8. /\ m.spike_valid <=> fires
        /\ m.threshold_crossed <=> n.threshold_crossed \/ fires
        /\ ends => m.v_mem = Rest
        /\ ~valid => m.v_mem \in {n.v_mem, Rest}
        /\ m.next_state = IF ends THEN "IDLE" ELSE IF fires THEN "SPIKE" ELSE n.next_state
    BY <2>5, <2>7
  <2> QED BY <1>1, <1>4, <2>6, <2>7, <2>8 DEF fires, ends
<1>5. CASE n.current_state = "SPIKE"
  <2>1. m = SpikeStep(a) BY <1>5 DEF Step, a
  <2>2. m = [a EXCEPT !.spike_out = TRUE, !.threshold_crossed = FALSE,
                      !.refractory_count = Refractory, !.next_state = "REFRACTORY"]
    BY <2>1 DEF SpikeStep
  <2>3. m \in Neurons
    BY <1>1, <1>2, <2>2 DEF Neurons, NeuronStates
  <2> QED BY <1>1, <1>5, <2>2, <2>3 DEF Neurons
<1>6. CASE n.current_state = "REFRACTORY"
  <2>1. m = RefractoryStep(a) BY <1>6 DEF Step, a
  <2>2. CASE n.refractory_count > 0
    <3>1. m = [a EXCEPT !.spike_out = FALSE, !.v_mem = Rest,
                        !.refractory_count = a.refractory_count - 1]
      BY <1>1, <2>1, <2>2 DEF RefractoryStep
    <3>2. a.refractory_count - 1 \in 0 .. 7
      BY <1>1, <2>2 DEF Neurons
    <3>3. m \in Neurons
      BY <1>1, <1>2, <3>1, <3>2 DEF Neurons
    <3>4. /\ m.spike_valid = a.spike_valid /\ m.v_mem = Rest
          /\ m.refractory_count = n.refractory_count - 1
          /\ m.next_state = n.next_state /\ m.current_state = a.current_state
      BY <1>1, <3>1 DEF Neurons
    <3> QED BY <1>1, <1>6, <2>2, <3>3, <3>4
  <2>3. CASE ~(n.refractory_count > 0)
    <3>0. n.refractory_count = 0 BY <2>3 DEF Neurons
    <3>1. m = [a EXCEPT !.spike_out = FALSE, !.v_mem = Rest, !.cycle_count = 0,
                        !.next_state = "IDLE"]
      BY <1>1, <2>1, <2>3 DEF RefractoryStep
    <3>2. 0 \in 0 .. Window /\ "IDLE" \in NeuronStates BY DEF NeuronStates
    <3>3. m \in Neurons
      BY <1>1, <1>2, <3>1, <3>2 DEF Neurons
    <3>4. /\ m.spike_valid = a.spike_valid /\ m.v_mem = Rest
          /\ m.refractory_count = n.refractory_count
          /\ m.next_state = "IDLE" /\ m.current_state = a.current_state
      BY <1>1, <3>1 DEF Neurons
    <3> QED BY <1>1, <1>6, <3>0, <3>3, <3>4
  <2> QED BY <2>2, <2>3
<1> QED BY <1>3, <1>4, <1>5, <1>6 DEF Neurons, NeuronStates

\* The history after an edge, as Observe keeps it.
Observed(s, m) ==
    IF m.spike_valid THEN [cycles |-> 1, cut |-> m.next_state = "IDLE"]
    ELSE [s EXCEPT !.cycles = IF @ < SpikePeriod THEN @ + 1 ELSE @]

LEMMA ObservedFields ==
    ASSUME NEW s \in Histories, NEW m
    PROVE  /\ Observed(s, m) \in Histories
           /\ m.spike_valid =>
                 /\ Observed(s, m).cycles = 1
                 /\ Observed(s, m).cut <=> m.next_state = "IDLE"
           /\ ~m.spike_valid =>
                 /\ Observed(s, m).cut = s.cut
                 /\ Observed(s, m).cycles = IF s.cycles < SpikePeriod THEN s.cycles + 1
                                            ELSE s.cycles
<1> DEFINE k == IF s.cycles < SpikePeriod THEN s.cycles + 1 ELSE s.cycles
<1>1. SpikePeriod \in 8 .. 15 BY NeuronAssumption DEF SpikePeriod
<1>2. s.cycles \in 0 .. SpikePeriod /\ k \in 0 .. SpikePeriod /\ 1 \in 0 .. SpikePeriod
  BY <1>1 DEF Histories
<1>3. CASE m.spike_valid
  <2> DEFINE b == (m.next_state = "IDLE")
  <2>1. Observed(s, m) = [cycles |-> 1, cut |-> b] BY <1>3 DEF Observed
  <2>2. b \in BOOLEAN OBVIOUS
  <2> HIDE DEF b
  <2>3. Observed(s, m) \in Histories BY <1>2, <2>1, <2>2 DEF Histories
  <2>4. Observed(s, m).cycles = 1 /\ Observed(s, m).cut = b BY <2>1
  <2> QED BY <1>3, <2>3, <2>4 DEF b
<1>4. CASE ~m.spike_valid
  <2>1. Observed(s, m) = [s EXCEPT !.cycles = k] BY <1>4 DEF Observed
  <2> HIDE DEF k
  <2>2. Observed(s, m) \in Histories BY <1>2, <2>1 DEF Histories
  <2>3. Observed(s, m).cut = s.cut /\ Observed(s, m).cycles = k BY <2>1 DEF Histories
  <2> QED BY <1>4, <2>2, <2>3 DEF k
<1> QED BY <1>3, <1>4

\* A cycle without a spike brings every later time one cycle nearer.
LEMMA LaterNext ==
    ASSUME NEW s \in Histories, NEW m, ~m.spike_valid
    PROVE  /\ \A k \in Int : k < SpikePeriod /\ Later(s, k) => Later(Observed(s, m), k + 1)
           /\ \A k \in Int : k <= SpikePeriod /\ Later(s, SpikePeriod)
                               => Later(Observed(s, m), k)
           /\ s.cycles = SpikePeriod => Later(s, SpikePeriod)
<1>1. SpikePeriod \in 8 .. 15 BY NeuronAssumption DEF SpikePeriod
<1>2. s.cycles \in 0 .. SpikePeriod BY DEF Histories
<1> DEFINE t == Observed(s, m)
<1>3. t.cut = s.cut BY ObservedFields
<1>4. t.cycles = IF s.cycles < SpikePeriod THEN s.cycles + 1 ELSE s.cycles
  BY ObservedFields
<1> HIDE DEF t
<1>5. \/ s.cycles < SpikePeriod /\ t.cycles = s.cycles + 1
      \/ s.cycles = SpikePeriod /\ t.cycles = SpikePeriod
  BY <1>1, <1>2, <1>4
<1>6. ASSUME NEW k \in Int, k < SpikePeriod, Later(s, k) PROVE Later(t, k + 1)
  <2>1. s.cycles >= k => t.cycles >= k + 1 BY <1>1, <1>2, <1>6, <1>5
  <2> QED BY <1>3, <1>6, <2>1 DEF Later
<1>7. ASSUME NEW k \in Int, k <= SpikePeriod, Later(s, SpikePeriod) PROVE Later(t, k)
  <2>1. s.cycles >= SpikePeriod => t.cycles >= k BY <1>1, <1>2, <1>7, <1>5
  <2> QED BY <1>3, <1>7, <2>1 DEF Later
<1>8. s.cycles = SpikePeriod => Later(s, SpikePeriod)
  BY <1>1 DEF Later
<1> QED BY <1>6, <1>7, <1>8 DEF t

\* What a time implies of the earlier ones.
LEMMA LaterEarlier ==
    ASSUME NEW s \in Histories, NEW k \in Int, NEW j \in Int, j <= k, Later(s, k)
    PROVE  Later(s, j)
<1>1. SpikePeriod \in 8 .. 15 BY NeuronAssumption DEF SpikePeriod
<1>2. s.cycles \in 0 .. SpikePeriod BY DEF Histories
<1>3. s.cycles >= k => s.cycles >= j BY <1>1, <1>2
<1> QED BY <1>3 DEF Later

\* Every edge keeps the rhythm, and no spike comes before its time.
LEMMA PacedStep ==
    ASSUME NEW n \in Neurons, NEW s \in Histories,
           NEW valid \in BOOLEAN, NEW c \in 0 .. Range - 1,
           Paced(n, s) \/ (~valid /\ Fresh(n, s)),
           NEW m, m = Step(n, valid, c)
    PROVE  /\ Paced(m, Observed(s, m))
           /\ m.spike_valid => Later(s, SpikePeriod)
<1> DEFINE t == Observed(s, m)
<1>1. m \in Neurons /\ m.current_state = n.next_state BY StepFields
<1>2. SpikePeriod = Refractory + 8 /\ Refractory \in 0 .. 7 /\ Rest < Threshold
      /\ Threshold \in Nat /\ Rest \in Nat
  BY NeuronAssumption DEF SpikePeriod
<1>3. n.current_state \in NeuronStates /\ n.next_state \in NeuronStates
      /\ n.refractory_count \in 0 .. 7 /\ n.v_mem \in Nat
  BY DEF Neurons
<1>4. CASE n.current_state = "IDLE"
  <2>1. /\ ~m.spike_valid /\ ~m.threshold_crossed
        /\ ~valid => m.v_mem = Rest
        /\ m.next_state = IF valid THEN "INTEGRATE" ELSE n.next_state
    BY <1>4, StepFields
  <2>2. CASE Paced(n, s)
    <3>1. n.next_state = "IDLE" /\ Later(s, Refractory + 6) => Later(t, Refractory + 7)
      BY <1>2, <2>1, LaterNext
    <3>2. n.next_state = "IDLE" /\ Later(s, Refractory + 6) => Later(t, Refractory + 6)
      <4>1. Refractory + 7 \in Int /\ Refractory + 6 \in Int /\ Refractory + 6 <= Refractory + 7
        BY <1>2
      <4>2. t \in Histories BY ObservedFields
      <4> HIDE DEF t
      <4> QED BY <3>1, <4>1, <4>2, LaterEarlier
    <3>3. n.next_state = "INTEGRATE" /\ Later(s, Refractory + 7) => Later(t, SpikePeriod)
      BY <1>2, <2>1, LaterNext
    <3> QED BY <1>1, <1>4, <2>1, <2>2, <3>1, <3>2, <3>3
            DEF Paced, PacedIdle, PacedIntegrate
  <2>3. CASE ~valid /\ Fresh(n, s)
    <3>1. Later(s, SpikePeriod) BY LaterNext, <2>1, <2>3 DEF Fresh
    <3>2. \A k \in Int : k <= SpikePeriod => Later(t, k) BY <2>1, <3>1, LaterNext
    <3>3. m.next_state = n.next_state /\ m.v_mem = Rest BY <2>1, <2>3
    <3>4. /\ Later(t, Refractory + 6) /\ Later(t, Refractory + 7) /\ Later(t, SpikePeriod)
          /\ Later(t, 1) /\ Later(t, 2) /\ Later(t, 3)
      BY <1>2, <3>2
    <3>5. m.refractory_count \in 0 .. 7 BY <1>1 DEF Neurons
    <3>6. Later(t, Refractory + 4 - m.refractory_count)
      <4>1. /\ Refractory + 4 - m.refractory_count \in Int
            /\ Refractory + 4 - m.refractory_count <= SpikePeriod
        BY <1>2, <3>5
      <4> QED BY <3>2, <4>1
    <3> QED BY <1>1, <2>1, <3>3, <3>4, <3>6
            DEF Paced, PacedIdle, PacedIntegrate, PacedSpike, PacedRefractory
  <2> QED BY <2>1, <2>2, <2>3
<1>5. CASE n.current_state = "INTEGRATE"
  <2> DEFINE fires == n.v_mem >= Threshold /\ ~n.threshold_crossed
             ends  == Ttfs /\ n.cycle_count = Window /\ ~n.threshold_crossed
  <2>1. /\ m.spike_valid <=> fires
        /\ m.threshold_crossed <=> n.threshold_crossed \/ fires
        /\ ends => m.v_mem = Rest
        /\ m.next_state = IF ends THEN "IDLE" ELSE IF fires THEN "SPIKE" ELSE n.next_state
    BY <1>5, StepFields
  <2>2. ~Fresh(n, s) BY <1>5 DEF Fresh
  <2>3. PacedIntegrate(n, s) BY <1>5, <2>2 DEF Paced
  <2>4. CASE n.next_state = "INTEGRATE" /\ ~n.threshold_crossed /\ Later(s, SpikePeriod)
    <3>1. CASE fires
      <4>1. t.cycles = 1 /\ (t.cut <=> m.next_state = "IDLE")
        BY <2>1, <3>1, ObservedFields
      <4>2. Later(t, 1) BY <4>1 DEF Later
      <4>3. m.threshold_crossed /\ m.current_state = "INTEGRATE"
        BY <1>1, <2>1, <2>4, <3>1
      <4>4. CASE ends
        <5>1. m.next_state = "IDLE" /\ m.v_mem < Threshold BY <1>2, <2>1, <4>4
        <5> QED BY <2>4, <4>1, <4>3, <5>1 DEF Paced, PacedIntegrate
      <4>5. CASE ~ends
        <5>1. m.next_state = "SPIKE" BY <2>1, <3>1, <4>5
        <5> QED BY <2>4, <4>2, <4>3, <5>1 DEF Paced, PacedIntegrate
      <4> QED BY <4>4, <4>5
    <3>2. CASE ~fires
      <4>1. ~m.spike_valid /\ ~m.threshold_crossed /\ m.current_state = "INTEGRATE"
        BY <1>1, <2>1, <2>4, <3>2
      <4>2. Later(t, SpikePeriod) BY <1>2, <2>4, <4>1, LaterNext
      <4>3. CASE ends
        <5>1. m.next_state = "IDLE" /\ m.v_mem < Threshold BY <1>2, <2>1, <4>3
        <5> QED BY <2>4, <4>1, <4>2, <5>1 DEF Paced, PacedIntegrate
      <4>4. CASE ~ends
        <5>1. m.next_state = "INTEGRATE" BY <2>1, <2>4, <3>2, <4>4
        <5> QED BY <2>4, <4>1, <4>2, <5>1 DEF Paced, PacedIntegrate
      <4> QED BY <4>3, <4>4
    <3> QED BY <3>1, <3>2
  <2>5. CASE n.next_state = "SPIKE" /\ n.threshold_crossed /\ Later(s, 1)
    <3>1. ~m.spike_valid /\ m.next_state = "SPIKE" BY <2>1, <2>5
    <3>2. Later(t, 1 + 1) BY <1>2, <2>5, <3>1, LaterNext
    <3>3. Later(t, 2) BY <3>2
    <3> QED BY <1>1, <2>5, <3>1, <3>3 DEF Paced, PacedSpike
  <2>6. CASE n.next_state = "IDLE" /\ n.v_mem < Threshold
             /\ IF n.threshold_crossed THEN s.cut ELSE Later(s, SpikePeriod)
    <3>1. ~fires BY <1>2, <1>3, <2>6
    <3>2. ~m.spike_valid /\ m.next_state = "IDLE" BY <2>1, <2>6, <3>1
    <3>3. Later(s, SpikePeriod) BY <2>6 DEF Later
    <3>4. Later(t, Refractory + 6) BY <1>2, <3>2, <3>3, LaterNext
    <3> QED BY <1>1, <2>6, <3>2, <3>4 DEF Paced, PacedIdle
  <2> QED BY <2>3, <2>4, <2>5, <2>6 DEF PacedIntegrate
<1>6. CASE n.current_state = "SPIKE"
  <2>1. /\ ~m.spike_valid /\ m.next_state = "REFRACTORY" /\ m.refractory_count = Refractory
    BY <1>6, StepFields
  <2>2. PacedSpike(n, s) BY <1>6 DEF Paced, Fresh
  <2>3. CASE n.next_state = "SPIKE" /\ Later(s, 2)
    <3>1. Later(t, 2 + 1) BY <1>2, <2>1, <2>3, LaterNext
    <3> QED BY <1>1, <2>1, <2>3, <3>1 DEF Paced, PacedSpike
  <2>4. CASE n.next_state = "REFRACTORY" /\ Later(s, 3)
    <3>1. Later(t, 3 + 1) BY <1>2, <2>1, <2>4, LaterNext
    <3>2. Refractory + 4 - m.refractory_count = 3 + 1 BY <1>2, <2>1
    <3> QED BY <1>1, <2>1, <2>4, <3>1, <3>2 DEF Paced, PacedRefractory
  <2> QED BY <2>1, <2>2, <2>3, <2>4 DEF PacedSpike
<1>7. CASE n.current_state = "REFRACTORY"
  <2>1. /\ ~m.spike_valid
        /\ n.refractory_count > 0 =>
              /\ m.refractory_count = n.refractory_count - 1
              /\ m.next_state = n.next_state
        /\ n.refractory_count = 0 =>
              m.refractory_count = 0 /\ m.next_state = "IDLE"
    BY <1>7, StepFields
  <2>2. PacedRefractory(n, s) BY <1>7 DEF Paced, Fresh
  <2>3. CASE n.next_state = "REFRACTORY" /\ Later(s, Refractory + 4 - n.refractory_count)
    <3>1. CASE n.refractory_count > 0
      <4>1. Later(t, Refractory + 4 - m.refractory_count)
        <5> DEFINE k == Refractory + 4 - n.refractory_count
        <5>1. k \in Int /\ k < SpikePeriod /\ Refractory + 4 - m.refractory_count = k + 1
          BY <1>2, <1>3, <2>1, <3>1
        <5>2. Later(t, k + 1) BY <2>1, <2>3, <5>1, LaterNext
        <5> QED BY <5>1, <5>2
      <4> QED BY <1>1, <2>1, <2>3, <3>1, <4>1 DEF Paced, PacedRefractory
    <3>2. CASE n.refractory_count = 0
      <4>1. Later(t, Refractory + 5)
        <5>1. Refractory + 4 - n.refractory_count = Refractory + 4
              /\ Refractory + 4 \in Int /\ Refractory + 4 < SpikePeriod
              /\ (Refractory + 4) + 1 = Refractory + 5
          BY <1>2, <3>2
        <5> QED BY <2>1, <2>3, <5>1, LaterNext
      <4> QED BY <1>1, <2>1, <2>3, <3>2, <4>1 DEF Paced, PacedRefractory
    <3> QED BY <1>3, <3>1, <3>2
  <2>4. CASE n.next_state = "IDLE" /\ n.refractory_count = 0 /\ Later(s, Refractory + 5)
    <3>1. Later(t, Refractory + 6)
      <4>1. Refractory + 5 \in Int /\ Refractory + 5 < SpikePeriod
            /\ (Refractory + 5) + 1 = Refractory + 6
        BY <1>2
      <4> QED BY <2>1, <2>4, <4>1, LaterNext
    <3> QED BY <1>1, <2>1, <2>4, <3>1 DEF Paced, PacedIdle
  <2> QED BY <2>1, <2>2, <2>3, <2>4 DEF PacedRefractory
<1> QED BY <1>3, <1>4, <1>5, <1>6, <1>7 DEF NeuronStates

\* Without a current a neuron settles in one cycle, and a settled one is silent.
LEMMA SettledStep ==
    ASSUME NEW n \in Neurons, NEW s \in Histories, NEW c \in 0 .. Range - 1,
           NEW valid \in BOOLEAN, ~valid, Paced(n, s) \/ Fresh(n, s),
           NEW m, m = Step(n, valid, c)
    PROVE  Settled(m) /\ (Settled(n) => Silent(m))
<1>1. m \in Neurons /\ m.current_state = n.next_state BY StepFields
<1>2. Rest < Threshold /\ Threshold \in Nat /\ Rest \in Nat
  BY NeuronAssumption
<1>3. n.current_state \in NeuronStates /\ n.v_mem \in Nat
  BY DEF Neurons
<1>4. CASE n.current_state = "IDLE"
  <2>1. ~m.spike_valid /\ m.v_mem = Rest BY <1>4, StepFields
  <2> QED BY <1>2, <2>1 DEF Settled, Silent
<1>5. CASE n.current_state = "INTEGRATE"
  <2>1. /\ m.spike_valid <=> n.v_mem >= Threshold /\ ~n.threshold_crossed
        /\ m.threshold_crossed <=> n.threshold_crossed
                                   \/ (n.v_mem >= Threshold /\ ~n.threshold_crossed)
        /\ m.v_mem \in {n.v_mem, Rest}
    BY <1>5, StepFields
  <2> QED BY <1>2, <1>3, <1>5, <2>1 DEF Settled, Silent
<1>6. CASE n.current_state = "SPIKE"
  <2>1. ~m.spike_valid BY <1>6, StepFields
  <2>2. n.next_state # "INTEGRATE" BY <1>6 DEF Paced, PacedSpike, Fresh
  <2> QED BY <1>1, <2>1, <2>2 DEF Settled, Silent
<1>7. CASE n.current_state = "REFRACTORY"
  <2>1. ~m.spike_valid /\ m.v_mem = Rest BY <1>7, StepFields
  <2> QED BY <1>2, <2>1 DEF Settled, Silent
<1> QED BY <1>3, <1>4, <1>5, <1>6, <1>7 DEF NeuronStates

\* One cycle of the array, neuron by neuron.
LEMMA ArrayStep ==
    ASSUME NeuronsPaced, NeuronArray, Observe, NEW n \in Ids
    PROVE  /\ neuron'[n] \in Neurons /\ since'[n] \in Histories
           /\ Paced(neuron'[n], since'[n])
           /\ neuron'[n].spike_valid => Later(since[n], SpikePeriod)
           /\ ~current_valid_reg[n] =>
                 Settled(neuron'[n]) /\ (Settled(neuron[n]) => Silent(neuron'[n]))
<1>1. /\ neuron[n] \in Neurons /\ since[n] \in Histories
      /\ current_valid_reg[n] \in BOOLEAN
      /\ Paced(neuron[n], since[n])
            \/ (~current_valid_reg[n] /\ Fresh(neuron[n], since[n]))
  BY DEF NeuronsPaced
<1>2. input_current_reg[n] \in 0 .. Range - 1
  <2>1. 0 \in 0 .. Range - 1 /\ Currents \subseteq 0 .. Range - 1
    BY NeuronAssumption, TileAssumption
  <2>2. input_current_reg[n] \in Currents \cup {0} BY DEF NeuronsPaced
  <2> QED BY <2>1, <2>2
<1>3. neuron'[n] = Step(neuron[n], current_valid_reg[n], input_current_reg[n])
  BY DEF NeuronArray
<1>4. since'[n] = Observed(since[n], neuron'[n])
  BY DEF Observe, Observed
<1>5. neuron'[n] \in Neurons
  BY <1>1, <1>2, <1>3, StepFields
<1>6. since'[n] \in Histories
  BY <1>1, <1>4, ObservedFields
<1>7. /\ Paced(neuron'[n], since'[n])
      /\ neuron'[n].spike_valid => Later(since[n], SpikePeriod)
  BY <1>1, <1>2, <1>3, <1>4, PacedStep
<1>8. ~current_valid_reg[n] =>
         Settled(neuron'[n]) /\ (Settled(neuron[n]) => Silent(neuron'[n]))
  BY <1>1, <1>2, <1>3, SettledStep
<1> QED BY <1>5, <1>6, <1>7, <1>8

LEMMA InitPaced == Init => NeuronsPaced
<1> SUFFICES ASSUME Init PROVE NeuronsPaced
  OBVIOUS
<1>1. ResetNeurons \subseteq Neurons
  <2>1. 0 \in 0 .. Range - 1 /\ 0 \in 0 .. Window /\ 0 \in 0 .. 7 /\ "IDLE" \in NeuronStates
    BY NeuronAssumption DEF NeuronStates
  <2>2. FALSE \in BOOLEAN OBVIOUS
  <2>3. ASSUME NEW x \in NeuronStates
        PROVE  [current_state |-> "IDLE", next_state |-> x, v_mem |-> 0,
                cycle_count |-> 0, refractory_count |-> 0, threshold_crossed |-> FALSE,
                spike_out |-> FALSE, spike_valid |-> FALSE] \in Neurons
    BY <2>1, <2>2 DEF Neurons
  <2> QED BY <2>3 DEF ResetNeurons
<1>2. \A x \in ResetNeurons : x.current_state = "IDLE" /\ ~x.spike_valid
  BY DEF ResetNeurons
<1>3. [cycles |-> SpikePeriod, cut |-> FALSE] \in Histories
  <2>1. SpikePeriod \in 0 .. SpikePeriod BY NeuronAssumption DEF SpikePeriod
  <2> QED BY <2>1 DEF Histories
<1>4. \A n \in Ids : ~current_valid_reg[n] /\ Fresh(neuron[n], since[n])
  BY <1>2 DEF Init, Fresh
<1>5. neuron \in [Ids -> Neurons] BY <1>1 DEF Init
<1>6. since \in [Ids -> Histories] BY <1>3 DEF Init
<1>7. input_current_reg \in [Ids -> Currents \cup {0}] /\ current_valid_reg \in [Ids -> BOOLEAN]
  BY DEF Init
<1> QED BY <1>4, <1>5, <1>6, <1>7 DEF NeuronsPaced

LEMMA TickPaced ==
    ASSUME NeuronsPaced, NEW e \in BOOLEAN, NEW in \in Inputs, Tick(e, in)
    PROVE  NeuronsPaced'
<1>1. /\ NeuronArray /\ Observe BY DEF Tick
<1>2. /\ neuron' \in [Ids -> Neurons] /\ since' \in [Ids -> Histories]
      /\ \A n \in Ids : Paced(neuron'[n], since'[n])
  <2>1. neuron' = [n \in Ids |-> neuron'[n]] BY <1>1 DEF NeuronArray
  <2>2. since' = [n \in Ids |-> since'[n]] BY <1>1 DEF Observe
  <2> QED BY <1>1, <2>1, <2>2, ArrayStep
<1>3. /\ input_current_reg' \in [Ids -> Currents \cup {0}]
      /\ current_valid_reg' \in [Ids -> BOOLEAN]
  <2>1. CASE Idle(e) BY <2>1 DEF Idle, NeuronsPaced
  <2>2. CASE Load(in)
    <3>1. in.valid => in.idx \in Ids /\ in.current \in Currents
      <4>1. in = NoInput => ~in.valid BY DEF NoInput
      <4> QED BY <4>1 DEF Inputs
    <3>2. CASE in.valid BY <2>2, <3>1, <3>2 DEF Load, NeuronsPaced
    <3>3. CASE ~in.valid BY <2>2, <3>3 DEF Load, NeuronsPaced
    <3> QED BY <3>2, <3>3
  <2>3. CASE Integrate \/ Scan \/ Done
    BY <2>3 DEF Integrate, Scan, Done, load, NeuronsPaced
  <2> QED BY <2>1, <2>2, <2>3 DEF Tick
<1> QED BY <1>2, <1>3 DEF NeuronsPaced

\* A current that is not loaded stays so until the tile is idle again.
LEMMA TickQuiet ==
    ASSUME ScanInv, NeuronsPaced, QuietUnlessLoaded, CountersBounded,
           NEW e \in BOOLEAN, NEW in \in Inputs, Tick(e, in)
    PROVE  QuietUnlessLoaded'
<1> SUFFICES ASSUME NEW n \in Ids, ~current_valid_reg'[n]
             PROVE  /\ snn_current_state' = "LOAD" /\ load_done' => Settled(neuron'[n])
                    /\ snn_current_state' = "INTEGRATE" => Silent(neuron'[n])
                    /\ snn_current_state' \in {"INTEGRATE", "SCAN", "DONE_STATE"}
                          => spike_counts'[n] = 0
  BY DEF QuietUnlessLoaded
<1>1. ~current_valid_reg[n] =>
         Settled(neuron'[n]) /\ (Settled(neuron[n]) => Silent(neuron'[n]))
  BY ArrayStep DEF Tick
<1>2. CASE Idle(e)
  BY <1>2 DEF Idle
<1>3. CASE Load(in)
  <2>1. ~current_valid_reg[n]
    <3>1. CASE in.valid
      BY <1>3, <3>1 DEF Load, NeuronsPaced, Inputs, NoInput
    <3>2. CASE ~in.valid
      BY <1>3, <3>2 DEF Load
    <3> QED BY <3>1, <3>2
  <2>2. snn_current_state = "LOAD" /\ spike_counts' = spike_counts
        /\ snn_current_state' = IF load_done THEN "INTEGRATE" ELSE "LOAD"
    BY <1>3 DEF Load
  <2>3. spike_counts'[n] = 0 BY <2>2 DEF CountersBounded
  <2>4. load_done => Silent(neuron'[n]) BY <1>1, <2>1, <2>2 DEF QuietUnlessLoaded
  <2> QED BY <1>1, <2>1, <2>2, <2>3, <2>4
<1>4. CASE Integrate
  <2>1. ~current_valid_reg[n] /\ snn_current_state = "INTEGRATE"
        /\ snn_current_state' \in {"INTEGRATE", "SCAN"}
    BY <1>4 DEF Integrate, load
  <2>2. Silent(neuron[n]) /\ spike_counts[n] = 0 BY <2>1 DEF QuietUnlessLoaded
  <2>3. spike_counts'[n] = 0 BY <1>4, <2>2 DEF Integrate, Silent
  <2> QED BY <1>1, <2>1, <2>2, <2>3 DEF Silent
<1>5. CASE Scan \/ Done
  <2>1. ~current_valid_reg[n] /\ spike_counts' = spike_counts
        /\ snn_current_state \in {"SCAN", "DONE_STATE"}
        /\ snn_current_state' \in {"SCAN", "DONE_STATE", "IDLE"}
    BY <1>5 DEF Scan, Done, load
  <2> QED BY <2>1 DEF QuietUnlessLoaded
<1> QED BY <1>2, <1>3, <1>4, <1>5 DEF Tick

LEMMA TickBounded ==
    ASSUME ScanInv, CountersBounded, NEW e \in BOOLEAN, NEW in \in Inputs, Tick(e, in)
    PROVE  CountersBounded'
<1> USE DEF CountersBounded, States
<1>0. /\ NumNeurons \in Nat \ {0} /\ 0 \in Ids /\ Window \in Nat \ {0}
      /\ \A k \in Nat : k % NumNeurons \in Ids
  BY TileAssumption, NeuronAssumption DEF Ids
<1>1. CASE Idle(e)
  <2>1. load_done' \in BOOLEAN /\ o_done' \in BOOLEAN BY <1>1 DEF Idle
  <2>2. /\ snn_current_state' \in {"IDLE", "LOAD"} /\ load_counter' = 0
        /\ cycle_counter' = 0 /\ scan_idx' = 0 /\ winner_neuron' = 0
        /\ max_spike_count' = 0 /\ spike_counts' = [n \in Ids |-> 0]
        /\ o_class' = o_class /\ o_conf' = o_conf
    BY <1>1 DEF Idle
  <2>3. 0 \in 0 .. NumNeurons + 1 /\ 0 \in 0 .. Window + 1 /\ 0 < NumNeurons /\ 0 <= Window
    BY <1>0
  <2>4. spike_counts' \in [Ids -> 0 .. Window + 1] /\ \A n \in Ids : spike_counts'[n] = 0
    BY <2>2, <2>3
  <2> QED BY <1>0, <2>1, <2>2, <2>3, <2>4
<1>2. CASE Load(in)
  <2>1. /\ snn_current_state = "LOAD" /\ snn_current_state' \in {"LOAD", "INTEGRATE"}
        /\ snn_current_state' = "LOAD" <=> ~load_done
        /\ UNCHANGED <<cycle_counter, scan, spike_counts, o_class, o_conf>> /\ ~o_done'
    BY <1>2 DEF Load
  <2>2. load_counter' \in {load_counter, load_counter + 1}
    BY <1>2 DEF Load
  <2>3. load_done' = (load_done \/ load_counter >= NumNeurons - 1)
    BY <1>2 DEF Load
  <2>4. load_counter \in 0 .. NumNeurons BY <2>1
  <2>5. load_done' \in BOOLEAN /\ o_done' \in BOOLEAN BY <1>2, <2>3 DEF Load
  <2>6. load_counter' \in 0 .. NumNeurons + 1 BY <1>0, <2>2, <2>4
  <2>7. ASSUME ~load_done
        PROVE  load_counter' <= NumNeurons /\ (~load_done' => load_counter' < NumNeurons)
    <3>1. load_counter < NumNeurons BY <2>1, <2>7
    <3>2. load_counter' <= NumNeurons BY <1>0, <2>2, <2>4, <3>1
    <3>3. ASSUME ~load_done' PROVE load_counter' < NumNeurons
      <4>1. ~(load_counter >= NumNeurons - 1) BY <2>3, <3>3
      <4> QED BY <1>0, <2>2, <2>4, <4>1
    <3> QED BY <3>2, <3>3
  <2>8. cycle_counter' = 0 /\ \A n \in Ids : spike_counts'[n] = 0
    BY <2>1
  <2>9. /\ scan_idx' \in Ids /\ winner_neuron' \in Ids /\ o_class' \in Ids
        /\ max_spike_count' \in 0 .. Window + 1 /\ o_conf' \in 0 .. Window + 1
        /\ cycle_counter' \in 0 .. Window + 1 /\ spike_counts' \in [Ids -> 0 .. Window + 1]
    BY <2>1 DEF scan
  <2>10. cycle_counter' <= Window /\ \A n \in Ids : spike_counts'[n] <= cycle_counter'
    BY <1>0, <2>8
  <2> QED BY <2>1, <2>5, <2>6, <2>7, <2>8, <2>9, <2>10
<1>3. CASE Integrate
  <2>1. /\ snn_current_state = "INTEGRATE"
        /\ snn_current_state' = IF cycle_counter >= Window THEN "SCAN" ELSE "INTEGRATE"
        /\ cycle_counter' = cycle_counter + 1 /\ ~o_done'
        /\ UNCHANGED <<load, scan, o_class, o_conf>>
    BY <1>3 DEF Integrate
  <2>2. cycle_counter \in 0 .. Window BY <2>1, <1>0
  <2>3. ASSUME NEW n \in Ids
        PROVE  spike_counts'[n] \in Nat /\ spike_counts'[n] <= cycle_counter'
    <3>1. spike_counts[n] \in 0 .. Window + 1 /\ spike_counts[n] <= cycle_counter
      BY <2>1
    <3>2. spike_counts'[n] \in {spike_counts[n], spike_counts[n] + 1}
      BY <1>3, <3>1 DEF Integrate
    <3> QED BY <1>0, <2>1, <2>2, <3>1, <3>2
  <2>4. spike_counts' \in [Ids -> 0 .. Window + 1]
    <3>1. spike_counts' = [n \in Ids |-> spike_counts'[n]] BY <1>3 DEF Integrate
    <3>2. \A n \in Ids : spike_counts'[n] \in 0 .. Window + 1
      BY <1>0, <2>1, <2>2, <2>3
    <3> QED BY <3>1, <3>2
  <2>5. cycle_counter' \in 0 .. Window + 1
        /\ (snn_current_state' = "INTEGRATE" => cycle_counter' <= Window)
    BY <1>0, <2>1, <2>2
  <2>6. o_done' \in BOOLEAN /\ load_done' \in BOOLEAN /\ load_counter' \in 0 .. NumNeurons + 1
    BY <1>3 DEF Integrate, load
  <2> QED BY <2>1, <2>3, <2>4, <2>5, <2>6 DEF scan
<1>4. CASE Scan
  <2>1. /\ snn_current_state' \in {"SCAN", "DONE_STATE"}
        /\ UNCHANGED <<load, cycle_counter, spike_counts, o_class, o_conf>>
        /\ scan_idx' = scan_idx \/ scan_idx' = (scan_idx + 1) % NumNeurons
        /\ winner_neuron' \in {winner_neuron, scan_idx}
        /\ max_spike_count' \in {max_spike_count, spike_counts[scan_idx]}
    BY <1>4 DEF Scan, scan
  <2>2. scan_idx' \in Ids
    <3>1. scan_idx + 1 \in Nat BY DEF Ids
    <3> QED BY <1>0, <2>1, <3>1
  <2>3. o_done' \in BOOLEAN BY <1>4 DEF Scan
  <2> QED BY <2>1, <2>2, <2>3 DEF load
<1>5. CASE Done
  BY <1>5 DEF Done, load, scan
<1> QED BY <1>1, <1>2, <1>3, <1>4, <1>5 DEF Tick

LEMMA KeepsTile == TileInv /\ [Next]_vars => TileInv'
<1> SUFFICES ASSUME TileInv, [Next]_vars PROVE TileInv'
  OBVIOUS
<1>1. CASE UNCHANGED vars
  BY <1>1, NextScanInv DEF vars, load, scan, out, TileInv, NeuronsPaced, QuietUnlessLoaded,
                           CountersBounded
<1>2. CASE Next
  BY <1>2, NextScanInv, TickPaced, TickQuiet, TickBounded DEF TileInv, Next
<1> QED BY <1>1, <1>2

LEMMA InitTile == Init => TileInv
<1> SUFFICES ASSUME Init PROVE TileInv
  OBVIOUS
<1>1. ScanInv /\ NeuronsPaced BY InitScanInv, InitPaced
<1>2. QuietUnlessLoaded BY DEF Init, QuietUnlessLoaded
<1>3. CountersBounded
  <2>1. 0 \in Ids /\ 0 \in 0 .. Window + 1 /\ 0 \in 0 .. NumNeurons + 1
    BY TileAssumption, NeuronAssumption DEF Ids
  <2>2. load_done \in BOOLEAN /\ o_done \in BOOLEAN BY DEF Init
  <2> QED BY <2>1, <2>2 DEF Init, CountersBounded, States
<1> QED BY <1>1, <1>2, <1>3 DEF TileInv

\* For every number of neurons, window and setting of the neurons: the counts
\* fit their registers and belong to this classification, whatever the one
\* before left in the neurons and whichever of them the host did not load.
THEOREM CountsCorrect == Spec => []CountsAreSound
<1>1. TileInv => CountsAreSound
  <2> SUFFICES ASSUME TileInv PROVE CountsAreSound
    OBVIOUS
  <2>1. TypeOK
    BY DEF TileInv, ScanInv, ScanTypes, NeuronsPaced, CountersBounded, TypeOK
  <2>2. CountsAreCurrent
    BY DEF TileInv, QuietUnlessLoaded, CountsAreCurrent
  <2> QED BY <2>1, <2>2 DEF CountsAreSound
<1> QED BY <1>1, InitTile, KeepsTile, PTL DEF Spec

\* Two spikes of a neuron are a refractory period and eight cycles apart, but
\* for those that the end of the window cut short.
THEOREM SpikesCorrect == Spec => SpikesApart
<1>1. ASSUME TileInv, [Next]_vars, ~UNCHANGED vars,
             NEW n \in Ids, neuron'[n].spike_valid, ~since[n].cut
      PROVE  since[n].cycles >= SpikePeriod
  <2>1. NeuronArray /\ Observe BY <1>1 DEF Next, Tick
  <2>2. Later(since[n], SpikePeriod) BY <1>1, <2>1, ArrayStep DEF TileInv
  <2> QED BY <1>1, <2>2 DEF Later
<1>2. TileInv /\ [Next]_vars =>
         [\A n \in Ids : neuron'[n].spike_valid /\ ~since[n].cut
                            => since[n].cycles >= SpikePeriod]_vars
  BY <1>1
<1> QED BY <1>2, InitTile, KeepsTile, PTL DEF Spec, SpikesApart
=============================================================================
