--------------------------- MODULE TemporalConfig ---------------------------
(***************************************************************************)
(* The statics of firmware/snn_temporal.c that configure the rest of it:   *)
(* ttfs_config, the SNN control register it shares with the STDP setting,  *)
(* and the buffer that is allocated and freed but never used.  A float is  *)
(* a number of tenths; what is less than a tenth is dropped.               *)
(***************************************************************************)
EXTENDS Integers, FiniteSets, BitFields

CONSTANTS
    FreqMHz, Micro,     \* SYSTEM_FREQ_MHZ and 10^6
    Word32,             \* 32-bit numbers wrap here
    Windows,            \* window_us that snn_ttfs_config is given, 0 included
    Refractories,       \* refractory_cycles it is given, 0 included
    Policies,           \* policies that snn_configure_stdp is given
    DefaultWindow, DefaultRefractory, DefaultThreshold, DefaultLeak,
    Blocks, NULL,       \* what malloc may return
    MaxConfigs          \* bound: calls that configure

One == 10

ASSUME ConfigAssumption ==
    /\ FreqMHz \in Nat /\ Micro \in Nat \ {0} /\ Word32 \in Nat \ {0}
    /\ Windows \subseteq Nat /\ Refractories \subseteq Nat /\ Policies \subseteq Nat
    /\ DefaultWindow \in Nat /\ DefaultRefractory \in Nat \ {0}
    /\ DefaultThreshold \in 1 .. One - 1 /\ DefaultLeak \in 0 .. One
    /\ MaxConfigs \in Nat
ASSUME BlocksAssumption == NULL \notin Blocks

VARIABLES
    ttfs_config,        \* [window_us, refractory_cycles, threshold, leak_rate]
    snn_ctrl,           \* bits of CSR 0x7C5 that are set
    spike_train_buffer, \* a block or NULL
    live,               \* blocks allocated and not freed
    configs             \* calls so far, for the bound

configVars == <<ttfs_config, snn_ctrl, spike_train_buffer, live, configs>>

ConfigInit ==
    /\ ttfs_config = [window_us |-> 0, refractory_cycles |-> 0, threshold |-> 0,
                      leak_rate |-> 0]
    /\ snn_ctrl = {}
    /\ spike_train_buffer = NULL
    /\ live = {}
    /\ configs = 0

Counted == configs < MaxConfigs /\ configs' = configs + 1

\* The mask 0xFFFFF1FF clears bits 9 to 11, the window is bits 8 to 10.
WindowWritten(us) == (snn_ctrl \ 9 .. 11) \union {7} \union Field(8, 3, us \div 100)

\* snn_ttfs_config; false and no change if either argument is 0.
TtfsConfig(window_us, refractory_cycles) ==
    /\ Counted
    /\ window_us # 0 /\ refractory_cycles # 0
    /\ ttfs_config' = [ttfs_config EXCEPT !.window_us = window_us,
                                          !.refractory_cycles = refractory_cycles]
    /\ snn_ctrl' = WindowWritten(window_us)
    /\ UNCHANGED <<spike_train_buffer, live>>

\* Mutant: the mask clears the byte above the low one and not the policy alone.
PolicyClearsByte(policy) == (snn_ctrl \ 8 .. 15) \union Field(12, 4, policy)
PolicyWritten(policy) == (snn_ctrl \ 12 .. 15) \union Field(12, 4, policy)

\* snn_configure_stdp
ConfigureStdp(policy) ==
    /\ Counted
    /\ snn_ctrl' = PolicyWritten(policy)
    /\ UNCHANGED <<ttfs_config, spike_train_buffer, live>>

\* snn_init_temporal_coding: malloc gives a block that is not in use or fails.
InitTemporalCoding ==
    /\ Counted
    /\ ttfs_config' = [window_us |-> DefaultWindow, refractory_cycles |-> DefaultRefractory,
                       threshold |-> DefaultThreshold, leak_rate |-> DefaultLeak]
    /\ spike_train_buffer' \in (Blocks \ live) \union {NULL}
    /\ live' = live \union ({spike_train_buffer'} \ {NULL})
    /\ UNCHANGED snn_ctrl

AfterFree == NULL

ConfigAfterFree == ttfs_config

\* snn_deinit_temporal_coding
DeinitTemporalCoding ==
    /\ Counted
    /\ spike_train_buffer # NULL
    /\ live' = live \ {spike_train_buffer}
    /\ spike_train_buffer' = AfterFree
    /\ ttfs_config' = ConfigAfterFree
    /\ UNCHANGED snn_ctrl

Configure ==
    \/ \E w \in Windows, r \in Refractories : TtfsConfig(w, r)
    \/ InitTemporalCoding
    \/ DeinitTemporalCoding
-----------------------------------------------------------------------------
\* The window in cycles; the product is taken in 32 bits.
WindowCycles == ((ttfs_config.window_us * FreqMHz) % Word32) \div Micro

Leaky(potential) == (potential * (One - ttfs_config.leak_rate)) \div One

\* snn_encode_ttfs_continuous, for one value: the spike times it may give.  Above
\* One the time is a negative float, and its conversion to uint32_t is undefined.
SpikeTimes(v) ==
    LET t == (WindowCycles * (One - v)) \div (One - ttfs_config.threshold)
        last == (WindowCycles - 1) % Word32
    IN IF v <= ttfs_config.threshold THEN {0}
       ELSE IF v > One THEN 0 .. last
       ELSE IF t >= WindowCycles THEN {last} ELSE {t}
=============================================================================
