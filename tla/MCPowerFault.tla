----------------------------- MODULE MCPowerFault -----------------------------
(* Values for PowerFault: two tiles, undriven nets that read 0 or 1.       *)
EXTENDS PowerFault

Pins == {[activity |-> {}, wake |-> {}, detected |-> FALSE],
         [activity |-> {"core"}, wake |-> {}, detected |-> FALSE],
         [activity |-> {"core", "eml"}, wake |-> {"core"}, detected |-> TRUE]}

Errors == {{}, {"exc", "single"}, {"double"}}
=============================================================================
