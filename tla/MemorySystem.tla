------------------------------ MODULE MemorySystem ------------------------------
(***************************************************************************)
(* The memories behind the core's load/store port, as                      *)
(* rtl/xcew_top_v1_1.v wires them: master 0 of the interconnect is the     *)
(* core, the others are tied off; slaves answer in the same cycle but for  *)
(* the NVM, whose reads run through a state machine of four cycles.  The   *)
(* core does not wait for any of them.  Words are whole (no byte lanes).   *)
(***************************************************************************)
EXTENDS Secded

CONSTANTS
    Addresses, Region,
    Address0,       \* 0: what an address bus shows that nobody drives
    RomData,        \* [addresses -> words]: s0_rdata, which shows 0 if bit 12 is set
    Unrouted,       \* addresses whose upper half core_mem_rdata answers with 0
    Words,          \* the words software stores, as sets of bit positions
    Cells, Index, WearRange,    \* as in NvmCtrl
    UpsetCells, UpsetPositions      \* where and in which bits a cell may fail

Zero == {}
MaxUpsets == 2      \* bits of one cell that fail between two writes of it

ASSUME MapAssumption ==
    /\ Region \in [Addresses -> {"ROM", "SRAM", "EML", "SNN", "NVM", "DM", "none"}]
    /\ Address0 \in Addresses /\ Region[Address0] = "ROM"
    /\ RomData \in [Addresses -> SUBSET DataPositions]

ASSUME NvmAssumption ==
    /\ Words \subseteq SUBSET DataPositions
    /\ WearRange \in Nat \ {0}
    /\ Index \in [Addresses -> [0 .. WearRange - 1 -> Cells]]
    /\ UpsetCells \subseteq Cells /\ UpsetPositions \subseteq Positions

VARIABLES
    ar_grant_master, sram,
    mem, wear_ptr, read_word, read_valid, o_rd_data, o_busy,
    o_ecc_single_err, o_ecc_double_err,                         \* nvm_ctrl
    s4_rd_state, s4_rvalid, s4_rdata,       \* the NVM read state machine
    running,            \* the core is past its first cycle after reset
    truth, failed,      \* history: the word last written to each NVM cell,
                        \* and the bits of it that failed since
    reading             \* history: the NVM read under way

nvm  == <<mem, wear_ptr, read_word, read_valid, o_rd_data, o_busy,
          o_ecc_single_err, o_ecc_double_err>>
read == <<s4_rd_state, s4_rvalid, s4_rdata, reading>>
vars == <<ar_grant_master, sram, nvm, read, running, truth, failed>>

Bus == INSTANCE AxiInterconnect WITH NoAddress <- Address0
Nvm == INSTANCE NvmCtrl

SramAddresses == {a \in Addresses : Region[a] = "SRAM"}
NvmAddresses  == {a \in Addresses : Region[a] = "NVM"}

LoadOf(a)     == [kind |-> "load", addr |-> a, data |-> Zero]
StoreOf(a, w) == [kind |-> "store", addr |-> a, data |-> w]
NoAccess      == LoadOf(Address0)
NoRead == [word |-> Zero, failed |-> {}, ok |-> FALSE]

\* The SRAM has no reset: its words are whatever they are at power-up.
Init ==
    /\ Bus!Init /\ Nvm!Init
    /\ sram \in [SramAddresses -> Words \cup {Zero}]
    /\ s4_rd_state = "00" /\ s4_rvalid = FALSE /\ s4_rdata = Zero
    /\ running = FALSE
    /\ truth = [c \in Cells |-> Zero] /\ failed = [c \in Cells |-> {}]
    /\ reading = NoRead

\* The core reads whenever it does not store; masters 1 to 4 are tied to 0.
Requests(acc) ==
    [m \in Bus!Masters |->
       IF m = 0
         THEN [awaddr |-> acc.addr, awvalid |-> acc.kind = "store",
               wdata |-> acc.data, wvalid |-> acc.kind = "store",
               araddr |-> acc.addr, arvalid |-> acc.kind # "store"]
         ELSE [awaddr |-> Address0, awvalid |-> FALSE, wdata |-> Zero,
               wvalid |-> FALSE, araddr |-> Address0, arvalid |-> FALSE]]

\* What the slaves' read channels show, by their numbers' order in the bus.
SlaveRdata(s, req) ==
    CASE s = "ROM" -> RomData[Bus!SlaveAr("ROM", req).addr]
      [] s = "SRAM" /\ Bus!SlaveAr("SRAM", req).valid -> sram[Bus!SlaveAr("SRAM", req).addr]
      [] OTHER -> Zero

m0_rdata(req) ==
    IF ar_grant_master = 0 THEN SlaveRdata(Bus!ReadSlave[0], req) ELSE Zero

core_mem_rdata(acc) ==
    IF acc.addr \in Unrouted THEN Zero ELSE m0_rdata(Requests(acc))

\* Mutant: the SRAM takes the write of any address.
SramEdgeUndecoded(req) ==
    sram' = IF req[0].awvalid
              THEN [a \in SramAddresses |-> req[0].wdata] ELSE sram

SramEdge(req) ==
    sram' = IF Bus!SlaveAw("SRAM", req).valid /\ Bus!SlaveWvalid("SRAM", req)
              THEN [sram EXCEPT ![Bus!SlaveAw("SRAM", req).addr] = Bus!SlaveWdata("SRAM", req)]
              ELSE sram

NvmWrites(req) ==
    s4_rd_state = "00" /\ Bus!SlaveAw("NVM", req).valid /\ Bus!SlaveWvalid("NVM", req)
NvmReads(req) == s4_rd_state = "00" /\ Bus!SlaveAr("NVM", req).valid
NvmAddress(req) == IF Bus!SlaveAr("NVM", req).valid THEN Bus!SlaveAr("NVM", req).addr
                   ELSE Bus!SlaveAw("NVM", req).addr

\* The controller has its own gated clock: the accesses of a sleeping NVM tile
\* are lost, its outputs stay.
NvmEdge(req, awake) ==
    LET writes == NvmWrites(req)  cell == Nvm!Cell(NvmAddress(req)) IN
    IF awake
      THEN /\ Nvm!Clock(NvmAddress(req), NvmReads(req), writes, req[0].wdata)
           /\ truth' = IF writes THEN [truth EXCEPT ![cell] = req[0].wdata] ELSE truth
           /\ failed' = IF writes THEN [failed EXCEPT ![cell] = {}] ELSE failed
      ELSE UNCHANGED <<nvm, truth, failed>>

\* History only: what the read should find, and whether the controller was
\* clocked in its first two cycles and free in the first: neither busy with a
\* write nor still holding a read that its clock stopped half-way.
Observe(req, awake) ==
    LET cell == Nvm!Cell(NvmAddress(req)) IN
    reading' =
      CASE NvmReads(req) -> [word |-> truth[cell], failed |-> failed[cell],
                             ok |-> awake /\ ~o_busy /\ ~read_valid]
        [] s4_rd_state = "01" -> [reading EXCEPT !.ok = reading.ok /\ awake]
        [] OTHER -> reading

\* Mutant: the state machine waits for the write response channel as well.
ReadEdgeNoReturn(req) ==
    /\ s4_rd_state' = CASE NvmReads(req)                        -> "01"
                        [] s4_rd_state = "01"                   -> "10"
                        [] s4_rd_state = "10"                   -> "11"
                        [] s4_rd_state = "11" /\ Bus!rready(req) /\ req[0].awvalid -> "00"
                        [] OTHER                                -> s4_rd_state
    /\ s4_rvalid' = (s4_rd_state = "10" \/ (s4_rvalid /\ s4_rd_state' # "00"))
    /\ s4_rdata' = IF s4_rd_state = "10" THEN o_rd_data ELSE s4_rdata

\* The state machine runs on the core's own clock.  A store in state 11 takes
\* rready away: the bus shows rready only while a read is granted.
ReadEdge(req) ==
    /\ s4_rd_state' = CASE NvmReads(req)                        -> "01"
                        [] s4_rd_state = "01"                   -> "10"
                        [] s4_rd_state = "10"                   -> "11"
                        [] s4_rd_state = "11" /\ Bus!rready(req) -> "00"
                        [] OTHER                                -> s4_rd_state
    /\ s4_rvalid' = (s4_rd_state = "10" \/ (s4_rvalid /\ s4_rd_state' # "00"))
    /\ s4_rdata' = IF s4_rd_state = "10" THEN o_rd_data ELSE s4_rdata

\* A cycle in which the core makes access acc.
Cycle(acc, awake) ==
    LET req == Requests(acc) IN
    /\ Bus!Clock(req) /\ SramEdge(req) /\ NvmEdge(req, awake) /\ ReadEdge(req)
    /\ Observe(req, awake)
    /\ running' = TRUE

\* The pipeline is empty in the first cycle after reset.
Idle  == \E awake \in BOOLEAN : Cycle(NoAccess, awake)
Load  == \E a \in Addresses, awake \in BOOLEAN : running /\ Cycle(LoadOf(a), awake)
Store == \E a \in Addresses, w \in Words, awake \in BOOLEAN :
            running /\ Cycle(StoreOf(a, w), awake)

\* A bit of a stored codeword fails.
Upset == \E c \in UpsetCells, p \in UpsetPositions :
    /\ p \notin failed[c] /\ Cardinality(failed[c]) < MaxUpsets
    /\ mem' = [mem EXCEPT ![c] = SymDiff(mem[c], {p})]
    /\ failed' = [failed EXCEPT ![c] = failed[c] \cup {p}]
    /\ UNCHANGED <<ar_grant_master, sram, wear_ptr, read_word, read_valid,
                   o_rd_data, o_busy, o_ecc_single_err, o_ecc_double_err,
                   read, running, truth>>

Next == Idle \/ Load \/ Store \/ Upset

Spec == Init /\ [][Next]_vars

\* The clock runs, and the core cannot store in every cycle for ever: a loop
\* ends in a jump, which leaves two cycles without an instruction.
FairSpec == Spec /\ WF_vars(Idle)

----------------------------------------------------------------------------
(* Properties *)

TypeOK ==
    /\ Nvm!TypeOK
    /\ ar_grant_master \in {0, Bus!NoMaster}
    /\ sram \in [SramAddresses -> Words \cup {Zero}]
    /\ s4_rd_state \in {"00", "01", "10", "11"} /\ s4_rvalid \in BOOLEAN
    /\ s4_rdata \subseteq DataPositions
    /\ truth \in [Cells -> Words \cup {Zero}]

(***************************************************************************)
(* Three machines keep step without a handshake: when s4_rvalid is up, the *)
(* data beside it is the word last written to the cell the read started    *)
(* from, if the controller was clocked and free when it started and at     *)
(* most one bit of the cell had failed.                                    *)
(***************************************************************************)
NvmAnswersTruth ==
    s4_rvalid /\ reading.ok /\ Cardinality(reading.failed) <= 1 =>
       s4_rdata = reading.word

\* With the answer come its error flags: double for two failed bits, single
\* for one, but for the overall parity bit, whose failure is not noticed.
ErrorsAreFlagged ==
    s4_rvalid /\ reading.ok =>
       /\ o_ecc_double_err <=> Cardinality(reading.failed) = 2
       /\ o_ecc_single_err <=> Cardinality(reading.failed) = 1 /\ reading.failed # {0}

\* Every NVM read ends, although a store takes away the rready it waits for.
NvmReadsEnd == [](s4_rd_state # "00" => <>(s4_rd_state = "00"))

\* Memory changes only by the core's store, in the region it addresses.
StoresStayHome ==
    [][/\ sram' # sram =>
             \E a \in SramAddresses, w \in Words, awake \in BOOLEAN :
                Cycle(StoreOf(a, w), awake) /\ sram' = [sram EXCEPT ![a] = w]
       /\ truth' # truth =>
             \E a \in NvmAddresses, w \in Words :
                /\ Cycle(StoreOf(a, w), TRUE)
                /\ truth' = [truth EXCEPT ![Nvm!Cell(a)] = w]]_vars

\* A load of a ROM address returns the word there in the cycle it asks, in
\* whatever cycle the pipeline can hold one.
RomLoads ==
    running => \A a \in Addresses \ Unrouted :
       Region[a] = "ROM" => core_mem_rdata(LoadOf(a)) = RomData[a]

\* What a load may be told: the word that is there, or the flags that it is not.
LoadsAreAnswered == TypeOK /\ RomLoads /\ NvmAnswersTruth /\ ErrorsAreFlagged

----------------------------------------------------------------------------
(* Deviations: what documents promise and the code does not do.            *)

\* README.md:280, 4KB data SRAM: a load returns the word in the SRAM.
SramLoads ==
    running => \A a \in SramAddresses : core_mem_rdata(LoadOf(a)) = sram[a]

\* docs/ARCHITECTURE.md, persistent storage: a store to the NVM is written.
\* One that comes within four cycles of a load from it is not.
StoresReachNvm ==
    [][\A a \in NvmAddresses, w \in Words :
         Cycle(StoreOf(a, w), TRUE) => truth'[Nvm!Cell(a)] = w]_vars

\* After a store the address shows the word: the wear pointer has moved on.
StoredWordsAreFound ==
    [][\A a \in NvmAddresses, w \in Words :
         Cycle(StoreOf(a, w), TRUE) /\ truth' # truth
           => truth'[Index[a][wear_ptr']] = w]_vars

\* A load right behind a store finds the controller busy and is not started;
\* the state machine answers with the data of an earlier read.
BusyReadsWait == s4_rvalid => reading.ok
=============================================================================
