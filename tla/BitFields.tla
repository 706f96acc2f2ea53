----------------------------- MODULE BitFields -----------------------------
(***************************************************************************)
(* Registers as sets of the bits that are set, and their fields.           *)
(***************************************************************************)
EXTENDS Naturals

\* Bits first .. first + width - 1 of a register, holding v.
Field(first, width, v) ==
    { first + b : b \in { k \in 0 .. width - 1 : (v \div 2^k) % 2 = 1 } }

\* What is read there.
FieldValue(first, width, bits) ==
    CHOOSE v \in 0 .. 2^width - 1 :
        Field(first, width, v) = bits \intersect (first .. first + width - 1)
=============================================================================
