---------------------------- MODULE AxiInterconnect ----------------------------
(***************************************************************************)
(* rtl/soc/axi_lite_interconnect_v1_1.v: the routing of one cycle, from    *)
(* the requests of the five masters to what each slave sees.  req[m] is    *)
(* [awaddr, awvalid, wdata, wvalid, araddr, arvalid].  Ready and bresp     *)
(* lines are left out, since the only master the chip drives ignores them. *)
(***************************************************************************)
EXTENDS Naturals

CONSTANTS
    Region,         \* [addresses -> regions]: the address map
    NoAddress       \* what a slave sees on an address bus no master drives

VARIABLES ar_grant_master       \* the last master granted a read, 5 if none

Masters == 0 .. 4
NoMaster == 5
Regions == {"ROM", "SRAM", "EML", "SNN", "NVM", "DM", "none"}
Slaves  == {"ROM", "SRAM", "EML", "SNN", "NVM"}

Init == ar_grant_master = NoMaster

\* Masters 0 to 2 cannot address the debug module.
Decode(m, addr) == IF Region[addr] = "DM" /\ m < 3 THEN "none" ELSE Region[addr]

First(requesting) ==        \* fixed priority, master 0 first
    IF requesting = {} THEN NoMaster
    ELSE CHOOSE m \in requesting : \A n \in requesting : m <= n

aw_select(req) == First({m \in Masters : req[m].awvalid})
ar_select(req) == First({m \in Masters : req[m].arvalid})

\* The muxes of SNN and NVM have no case for master 4; ROM sees every address.
Reaches(s, m, addr) ==
    /\ m # NoMaster
    /\ s = "ROM" \/ Decode(m, addr) = s
    /\ s \in {"SNN", "NVM"} => m < 4

Undriven == [addr |-> NoAddress, valid |-> FALSE]

SlaveAw(s, req) ==
    LET m == aw_select(req) IN
    IF m # NoMaster /\ Reaches(s, m, req[m].awaddr)
      THEN [addr |-> req[m].awaddr, valid |-> TRUE] ELSE Undriven

SlaveAr(s, req) ==
    LET m == ar_select(req) IN
    IF m # NoMaster /\ Reaches(s, m, req[m].araddr)
      THEN [addr |-> req[m].araddr, valid |-> TRUE] ELSE Undriven

\* w_select is the low three bits of a one-hot aw_select, and is compared with
\* binary numbers: for master 2 (100) the muxes take master 3's data (4), and
\* for masters 3 and 4 (000) nobody's.
WriteSource(s, req) ==
    LET m == aw_select(req)
        aims(n) == s = "ROM" \/ Decode(n, req[n].awaddr) = s
    IN  CASE m \in {0, 1} /\ aims(m)                             -> m
          [] ~(m \in {0, 1} /\ aims(m)) /\ s \in {"SNN", "NVM"}  ->
               IF aims(2) THEN 2 ELSE IF aims(3) THEN 3 ELSE NoMaster
          [] m = 2 /\ s \notin {"SNN", "NVM"} /\ aims(3)         -> 3
          [] OTHER                                               -> NoMaster

SlaveWvalid(s, req) ==
    WriteSource(s, req) # NoMaster /\ req[WriteSource(s, req)].wvalid
SlaveWdata(s, req) == req[WriteSource(s, req)].wdata

\* Every master's rready is tied to 1; master 4 has none.
rready(req) == ar_select(req) \in 0 .. 3

Clock(req) ==
    ar_grant_master' = IF ar_select(req) \in 0 .. 3 THEN ar_select(req)
                       ELSE ar_grant_master

\* Each master gets the read data of one fixed slave, whatever it addressed.
ReadSlave == [m \in 0 .. 3 |-> CASE m = 0 -> "ROM" [] m = 1 -> "SRAM"
                                 [] m = 2 -> "EML" [] m = 3 -> "SNN"]
=============================================================================
