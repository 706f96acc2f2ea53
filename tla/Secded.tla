--------------------------------- MODULE Secded ---------------------------------
(***************************************************************************)
(* The SECDED code of rtl/nvm/nvm_ctrl.v, over sets of bit positions: a    *)
(* set of positions is the word whose 1 bits they are.                     *)
(***************************************************************************)
EXTENDS Naturals, FiniteSets

CONSTANTS LastPosition      \* 38 in the code: 32 data and 6 check positions

ASSUME CodeAssumption == LastPosition \in 0 .. 63      \* six check bits

Positions      == 0 .. LastPosition     \* 0 is the overall parity
CheckPositions == {1, 2, 4, 8, 16, 32} \cap Positions
DataPositions  == Positions \ ({0} \cup CheckPositions)

SymDiff(S, T) == (S \ T) \cup (T \ S)       \* bitwise exclusive or
Odd(S) == Cardinality(S) % 2 = 1            \* reduction by exclusive or

\* The check bits that cover a position: its own binary digits.
BitsOf(p) == {c \in CheckPositions : (p \div c) % 2 = 1}

CheckBits(d) == {c \in CheckPositions : Odd({p \in d : c \in BitsOf(p)})}

Codeword(d) ==      \* calc_ecc, with the data
    LET c == d \cup CheckBits(d) IN c \cup (IF Odd(c) THEN {0} ELSE {})

Data(w)     == w \cap DataPositions
Syndrome(w) == SymDiff(CheckBits(Data(w)), w \cap CheckPositions)

SingleErr(w) == Syndrome(w) # {} /\ Odd(w)
DoubleErr(w) == Syndrome(w) # {} /\ ~Odd(w)

Corrected(w) ==
    LET s == Syndrome(w) IN
    IF SingleErr(w) THEN SymDiff(Data(w), {p \in DataPositions : BitsOf(p) = s})
    ELSE Data(w)
=============================================================================
