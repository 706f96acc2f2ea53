-------------------------------- MODULE NvmCtrl --------------------------------
(***************************************************************************)
(* rtl/nvm/nvm_ctrl.v.  A data word is the set of Hamming positions of its *)
(* 1 bits, a stored codeword the same with the check bits (positions 1, 2, *)
(* 4, ...) and the overall parity (position 0).                            *)
(***************************************************************************)
EXTENDS Secded

CONSTANTS
    Cells,
    Index,          \* [addresses -> [wear pointers -> Cells]]: index_addr
    WearRange       \* 2^10 in the code: wear_ptr wraps there

VARIABLES
    mem,            \* [Cells -> codewords]: mem_array and ecc_meta
    wear_ptr, read_word, read_valid,
    o_rd_data, o_busy, o_ecc_single_err, o_ecc_double_err

Init ==
    /\ mem = [c \in Cells |-> {}]
    /\ wear_ptr = 0 /\ read_word = {} /\ read_valid = FALSE
    /\ o_rd_data = {} /\ o_busy = FALSE
    /\ o_ecc_single_err = FALSE /\ o_ecc_double_err = FALSE

Cell(addr) == Index[addr][wear_ptr]

Starts(rd_en) == rd_en /\ ~o_busy

\* The capture of a read that comes while the one before it is in the second
\* stage is forgotten: the second stage clears read_valid last.
Read(rd_en, addr) ==
    /\ read_word' = IF Starts(rd_en) THEN mem[Cell(addr)] ELSE read_word
    /\ read_valid' = (~read_valid /\ Starts(rd_en))
    /\ IF read_valid
         THEN /\ o_rd_data' = Corrected(read_word)
              /\ o_ecc_single_err' = SingleErr(read_word)
              /\ o_ecc_double_err' = DoubleErr(read_word)
         ELSE UNCHANGED <<o_rd_data, o_ecc_single_err, o_ecc_double_err>>

\* Mutant: a write leaves the old check bits.
WriteNoCheckBits(wr_en, addr, data) ==
    /\ mem' = IF wr_en THEN [mem EXCEPT ![Cell(addr)] = data] ELSE mem
    /\ wear_ptr' = IF wr_en THEN (wear_ptr + 1) % WearRange ELSE wear_ptr
    /\ o_busy' = wr_en

\* The wear pointer moves the address map; the stored words stay where they are.
Write(wr_en, addr, data) ==
    /\ mem' = IF wr_en THEN [mem EXCEPT ![Cell(addr)] = Codeword(data)] ELSE mem
    /\ wear_ptr' = IF wr_en THEN (wear_ptr + 1) % WearRange ELSE wear_ptr
    /\ o_busy' = wr_en

Clock(addr, rd_en, wr_en, data) == Read(rd_en, addr) /\ Write(wr_en, addr, data)

TypeOK ==
    /\ mem \in [Cells -> SUBSET Positions]
    /\ wear_ptr \in 0 .. WearRange - 1
    /\ read_word \subseteq Positions
    /\ o_rd_data \subseteq DataPositions
    /\ {read_valid, o_busy, o_ecc_single_err, o_ecc_double_err} \subseteq BOOLEAN
=============================================================================
