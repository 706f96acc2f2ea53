------------------------------ MODULE MCXcewUnits ------------------------------
(* Values for XcewUnits: a and b have the same hash, c another one in the  *)
(* same slot.                                                              *)
EXTENDS XcewUnits

SharedHash == [x \in {"a", "b", "c"} |-> IF x = "c" THEN 2 ELSE 1]
OneSlot    == [h \in {1, 2} |-> 0]
Types      == [x \in {"a", "b", "c"} |-> IF x = "c" THEN 2 ELSE 1]

\* Timeout after the reset value 12, no timeout with 14, and no determinism.
Settings ==
    {[const_time_en |-> FALSE, det_en |-> TRUE, max |-> 3],
     [const_time_en |-> TRUE, det_en |-> TRUE, max |-> 14],
     [const_time_en |-> FALSE, det_en |-> FALSE, max |-> 12]}
=============================================================================
