--------------------------- MODULE TemporalNeuron ---------------------------
(***************************************************************************)
(* snn_process_temporal_cycle of firmware/snn_temporal.c: the static       *)
(* arrays behind it, one call per action.  since, gap and lost record what *)
(* the properties need of the past and are not in the code.                *)
(***************************************************************************)
EXTENDS TemporalConfig

CONSTANTS
    Neurons,
    Currents,           \* input currents, in tenths
    MaxSince,           \* bound: since stops counting here
    MaxPotential        \* bound: no potential goes further from zero

ASSUME CallsAssumption ==
    /\ Currents \subseteq Int /\ MaxSince \in Nat /\ MaxPotential \in Nat
    /\ \A r \in Refractories \union {DefaultRefractory} : r <= MaxSince

VARIABLES
    membrane_potentials, refractory_timers, temporal_windows, thresholds,
    since,              \* calls since the neuron's last spike
    gap,                \* the refractory period when it spiked
    lost                \* strong inputs to a neuron at rest that gave no spike

neuronVars == <<membrane_potentials, refractory_timers, temporal_windows, thresholds,
                since, gap, lost>>

NeuronInit ==
    /\ membrane_potentials = [n \in Neurons |-> 0]
    /\ refractory_timers = [n \in Neurons |-> 0]
    /\ temporal_windows = [n \in Neurons |-> 0]
    /\ thresholds = [n \in Neurons |-> 0]
    /\ since = [n \in Neurons |-> MaxSince]
    /\ gap = [n \in Neurons |-> 0]
    /\ lost = [n \in Neurons |-> 0]

\* The threshold is taken over by the neuron when its own is still zero.
Threshold(n) == IF thresholds[n] = 0 THEN ttfs_config.threshold ELSE thresholds[n]

Older(k) == IF k < MaxSince THEN k + 1 ELSE k

\* The rest of a refractory period: the neuron is held at rest.
Rest(n) ==
    /\ refractory_timers[n] > 0
    /\ refractory_timers' = [refractory_timers EXCEPT ![n] = @ - 1]
    /\ membrane_potentials' = [membrane_potentials EXCEPT ![n] = 0]
    /\ since' = [since EXCEPT ![n] = Older(@)]
    /\ UNCHANGED <<temporal_windows, gap, lost>>

Potential(n, current) == Leaky(membrane_potentials[n]) + current

Fires(n, current) ==
    /\ temporal_windows[n] < WindowCycles
    /\ Potential(n, current) >= Threshold(n)

\* Mutant: a window lasts one call more, and nothing fires in that one.
NextWindowLate(w) == IF w > WindowCycles THEN 0 ELSE w
\* The window after a call that counted to w.
NextWindow(w) == IF w >= WindowCycles THEN 0 ELSE w

\* Mutant: the call that spikes already counts as rest.
RefractoryLoadedLess == ttfs_config.refractory_cycles - 1
RefractoryLoaded == ttfs_config.refractory_cycles

Spike(n, current) ==
    /\ refractory_timers[n] = 0
    /\ Fires(n, current)
    /\ membrane_potentials' = [membrane_potentials EXCEPT ![n] = 0]
    /\ refractory_timers' = [refractory_timers EXCEPT ![n] = RefractoryLoaded]
    /\ temporal_windows' = [temporal_windows EXCEPT ![n] = NextWindow(WindowCycles + 1)]
    /\ since' = [since EXCEPT ![n] = 0]
    /\ gap' = [gap EXCEPT ![n] = ttfs_config.refractory_cycles]
    /\ UNCHANGED lost

\* An input that alone would make the neuron fire.
Strong(n, current) ==
    WindowCycles > 0 /\ membrane_potentials[n] >= 0 /\ current >= Threshold(n)

Integrate(n, current) ==
    /\ refractory_timers[n] = 0
    /\ ~Fires(n, current)
    /\ Potential(n, current) \in -MaxPotential .. MaxPotential
    /\ membrane_potentials' = [membrane_potentials EXCEPT ![n] = Potential(n, current)]
    /\ temporal_windows' = [temporal_windows EXCEPT ![n] = NextWindow(@ + 1)]
    /\ since' = [since EXCEPT ![n] = Older(@)]
    /\ lost' = [lost EXCEPT ![n] = IF Strong(n, current) THEN @ + 1 ELSE @]
    /\ UNCHANGED <<refractory_timers, gap>>

ProcessTemporalCycle(n, current) ==
    /\ thresholds' = [thresholds EXCEPT ![n] = Threshold(n)]
    /\ Rest(n) \/ Spike(n, current) \/ Integrate(n, current)
    /\ UNCHANGED configVars
=============================================================================
