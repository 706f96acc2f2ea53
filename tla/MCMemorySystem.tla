---------------------------- MODULE MCMemorySystem ----------------------------
(* Values for MemorySystem: one address of each memory, and an NVM address *)
(* that its wear pointer moves between two cells.                          *)
EXTENDS MemorySystem

MCAddresses == {"r0", "r1", "s0", "n0", "u0"}
MCRegion == [a \in MCAddresses |-> CASE a \in {"r0", "r1", "u0"} -> "ROM"
                                     [] a = "s0" -> "SRAM" [] a = "n0" -> "NVM"]

\* Bit 12 is set in SRAM addresses only: the NVM's lie over ROM words.
MCRomData == [a \in MCAddresses |-> CASE a \in {"r0", "u0"} -> {3} [] a = "r1" -> {5}
                                      [] a = "s0" -> {} [] a = "n0" -> {6}]

MCIndex == [a \in MCAddresses |-> [w \in {0, 1} |-> IF w = 0 THEN "c" ELSE "d"]]
=============================================================================
