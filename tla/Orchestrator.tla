----------------------------- MODULE Orchestrator -----------------------------
(***************************************************************************)
(* rtl/power/orchestrator.v: one RUN/SLEEP machine per tile.  A tile's     *)
(* outputs tile_sleep, tile_iso_en and tile_ret_en are set and cleared     *)
(* together with its state, so the state stands for the four registers.    *)
(***************************************************************************)
EXTENDS Naturals

CONSTANTS
    Tiles, Core,        \* the tiles, and the one AXI activity cannot wake
    Timeouts,           \* values software gives pwr_ctrl[7:4]
    CounterRange        \* 2^32 in the code: idle counters wrap there

VARIABLES
    current_tile_state, idle_counter,       \* per tile
    idle_timeout                            \* pwr_ctrl_reg[7:4]

WakeWindow == 5     \* the literal of the AXI wake condition

Init ==
    /\ current_tile_state = [t \in Tiles |-> "RUN"]
    /\ idle_counter = [t \in Tiles |-> 0]
    /\ idle_timeout = 0

Running(t) == current_tile_state[t] = "RUN"
Asleep(t)  == current_tile_state[t] = "SLEEP"

\* Mutant: the idle timeout looks at the counter alone.
FallsAsleepBusy(t, in) == Running(t) /\ idle_counter[t] >= idle_timeout

FallsAsleep(t, in) ==
    Running(t) /\ t \notin in.activity /\ idle_counter[t] >= idle_timeout

Wakes(t, in) ==
    /\ Asleep(t)
    /\ \/ t \in in.wake
       \/ in.irq
       \/ t # Core /\ in.axi /\ idle_counter[t] < WakeWindow

\* The counter goes on counting through the sleep.
Clock(in) ==
    /\ current_tile_state' =
          [t \in Tiles |-> IF FallsAsleep(t, in) THEN "SLEEP"
                           ELSE IF Wakes(t, in) THEN "RUN"
                           ELSE current_tile_state[t]]
    /\ idle_counter' =
          [t \in Tiles |-> IF Wakes(t, in) \/ (Running(t) /\ t \in in.activity)
                             THEN 0 ELSE (idle_counter[t] + 1) % CounterRange]
    /\ idle_timeout' = IF in.timeout \in Timeouts THEN in.timeout ELSE idle_timeout

TypeOK ==
    /\ current_tile_state \in [Tiles -> {"RUN", "SLEEP"}]
    /\ idle_counter \in [Tiles -> 0 .. CounterRange - 1]
    /\ idle_timeout \in Timeouts
=============================================================================
