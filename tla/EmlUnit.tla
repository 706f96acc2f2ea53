------------------------------- MODULE EmlUnit -------------------------------
(***************************************************************************)
(* rtl/eml/eml_unit.v: the EML stages and their memo cache.  A result is   *)
(* represented by the operand pair it was computed from.                   *)
(***************************************************************************)
EXTENDS Naturals

CONSTANTS
    Operands,       \* pairs rs1, rs2
    Hash,           \* [Operands -> tags]: calculate_hash, 8 bits of the pair
    Index,          \* [tags -> slots]: its low 7 bits
    MaxDepth        \* cfg[14:12]

VARIABLES
    current_stage, fetch_operand, result_r, memo_hit_r,
    memo,                       \* [slots -> empty or [tag, data]]
    depth_cnt, exc_depth,
    o_rd, o_valid, o_exc

Slots == {Index[Hash[x]] : x \in Operands}
Tags  == {Hash[x] : x \in Operands}
Empty == [valid |-> FALSE]
Nothing == "nothing"    \* a register no operation has written

Init ==
    /\ current_stage = "IDLE" /\ fetch_operand = Nothing
    /\ result_r = Nothing /\ memo_hit_r = FALSE
    /\ memo = [s \in Slots |-> Empty]
    /\ depth_cnt = 0 /\ exc_depth = FALSE
    /\ o_rd = Nothing /\ o_valid = FALSE /\ o_exc = FALSE

o_ready == current_stage = "IDLE"
Accepts(valid) == valid /\ o_ready

tag    == Hash[fetch_operand]
Cached == memo[Index[tag]]

\* Mutant: an entry is taken for a hit whatever its tag.
HitAnyTag == Cached.valid

Hit == Cached.valid /\ Cached.tag = tag

Depth(valid) ==
    /\ depth_cnt' = IF Accepts(valid) THEN (depth_cnt + 1) % 8
                    ELSE IF current_stage = "WB" THEN 0 ELSE depth_cnt
    /\ exc_depth' = (depth_cnt > MaxDepth + 1)

Advance ==
    [IDLE |-> "FETCH", FETCH |-> "EXP", EXP |-> "LN", LN |-> "SUB",
     SUB |-> "WB", WB |-> "IDLE"]

Fill ==
    memo' = IF memo_hit_r THEN memo
            ELSE [memo EXCEPT ![Index[tag]] =
                     [valid |-> TRUE, tag |-> tag, data |-> result_r]]

\* o_valid stays up until the next operation is accepted.
Clock(valid, operand) ==
    /\ current_stage' = IF o_ready /\ ~Accepts(valid) THEN "IDLE"
                        ELSE Advance[current_stage]
    /\ fetch_operand' = IF Accepts(valid) THEN operand ELSE fetch_operand
    /\ memo_hit_r' = IF current_stage = "FETCH" THEN Hit ELSE memo_hit_r
    /\ result_r' = CASE current_stage = "FETCH" /\ Hit      -> Cached.data
                     [] current_stage = "SUB" /\ ~memo_hit_r -> fetch_operand
                     [] OTHER                                -> result_r
    /\ IF current_stage = "WB" THEN Fill ELSE UNCHANGED memo
    /\ o_rd' = IF current_stage = "WB" THEN result_r ELSE o_rd
    /\ o_valid' = (current_stage = "WB" \/ (o_valid /\ ~Accepts(valid)))
    /\ o_exc' = IF current_stage = "WB" THEN exc_depth ELSE o_exc /\ ~Accepts(valid)
    /\ Depth(valid)

TypeOK ==
    /\ current_stage \in DOMAIN Advance
    /\ {fetch_operand, result_r, o_rd} \subseteq Operands \cup {Nothing}
    /\ memo \in [Slots -> {Empty} \cup [valid : {TRUE}, tag : Tags, data : Operands]]
    /\ depth_cnt \in 0 .. 7
    /\ {memo_hit_r, exc_depth, o_valid, o_exc} \subseteq BOOLEAN
=============================================================================
