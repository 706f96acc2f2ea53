----------------------------- MODULE EmlProfile -----------------------------
(***************************************************************************)
(* The profile table of firmware/eml_optimizer.c.  The table and the bits  *)
(* of the slots in use are two statics that start as zeros; every search   *)
(* by hash looks at all entries, used or not, and takes the first.         *)
(***************************************************************************)
EXTENDS Integers, FiniteSets, FiniteSetsExt

CONSTANTS
    NumSlots,                   \* EML_PROFILE_SIZE, 256 in the code
    Trees, Depths,              \* arguments of eml_precompile
    Hash(_, _),                 \* eml_hash_expr, an 8-bit tag in the code
    Word,                       \* counters wrap here, 2^32 in the code
    RateStep, RateMax, HotRate, \* 5, 100 and 80 in the code
    HotThreshold,               \* EML_HOT_THRESHOLD, 100 in the code
    Cycles,                     \* cycle counts that are recorded
    MaxCalls                    \* bound: calls that change the table

\* There are as many slots as hashes.
ASSUME SlotsAssumption == NumSlots \in Nat \ {0}
ASSUME HashAssumption ==
    \A t \in Trees, d \in Depths : Hash(t, d) \in 0 .. NumSlots - 1
ASSUME NumbersAssumption ==
    /\ Word \in Nat \ {0, 1} /\ RateStep \in Nat /\ RateMax \in Nat \ {0}
    /\ HotRate \in Nat /\ HotThreshold \in Nat /\ Cycles \subseteq Nat /\ MaxCalls \in Nat

VARIABLES
    profile_table,      \* [slot -> entry]
    profile_usage,      \* slots whose bit is set
    profiling_enabled,
    dag_mode,           \* bit 5 of CSR 0x7C0
    calls               \* calls so far, for the bound

vars == <<profile_table, profile_usage, profiling_enabled, dag_mode, calls>>

Slots  == 0 .. NumSlots - 1
Hashes == 0 .. NumSlots - 1

Entry == [hash : Hashes, count : 0 .. Word - 1, avg : Nat, rate : 0 .. RateMax,
          hot : BOOLEAN]
Empty == [hash |-> 0, count |-> 0, avg |-> 0, rate |-> 0, hot |-> FALSE]

Init ==
    /\ profile_table = [s \in Slots |-> Empty]
    /\ profile_usage = {}
    /\ profiling_enabled = TRUE
    /\ dag_mode = FALSE
    /\ calls = 0
-----------------------------------------------------------------------------
(* Searches.                                                               *)

\* The first slot of S: what a loop that ends at a break finds.
First(S) == CHOOSE s \in S : \A r \in S : s <= r

\* Mutant: the search passes over slots that are not in use.
MatchesUsed(h) == { s \in profile_usage : profile_table[s].hash = h }
Matches(h) == { s \in Slots : profile_table[s].hash = h }

Free == Slots \ profile_usage

\* eml_find_cold_slot: slots in use that are not hot and run least.
Cold == { s \in profile_usage : ~profile_table[s].hot }
Coldest == { s \in Cold : /\ profile_table[s].count < Word - 1
                          /\ \A r \in Cold :
                                profile_table[s].count <= profile_table[r].count }

\* Mutant: the first slot, free or not.
SlotForAny == Slots
\* The slots that eml_precompile may give a new expression.
SlotFor == IF Free # {} THEN Free ELSE Coldest
-----------------------------------------------------------------------------
(* eml_precompile.                                                         *)

\* The expression is known, or so it seems: count it.
Found(h) ==
    /\ Matches(h) # {}
    /\ profile_table' = [profile_table EXCEPT ![First(Matches(h))].count = (@ + 1) % Word]
    /\ UNCHANGED <<profile_usage, dag_mode>>

\* A new expression takes a slot, and DAG mode is switched on.
Allocate(h) ==
    /\ Matches(h) = {}
    /\ SlotFor # {}
    /\ profile_table' = [profile_table EXCEPT ![First(SlotFor)] =
                            [Empty EXCEPT !.hash = h, !.count = 1]]
    /\ profile_usage' = profile_usage \union {First(SlotFor)}
    /\ dag_mode' = TRUE

Precompile(tree, depth) ==
    /\ calls < MaxCalls /\ calls' = calls + 1
    /\ Found(Hash(tree, depth)) \/ Allocate(Hash(tree, depth))
    /\ UNCHANGED profiling_enabled
-----------------------------------------------------------------------------
(* eml_profile_record and the switches.                                    *)

\* Mutant: a hit that reaches the cap is not cut down to it.
NewRateUncapped(rate, hit) ==
    CASE hit  -> IF rate > RateMax THEN RateMax ELSE rate + RateStep
      [] ~hit -> IF rate > RateStep THEN rate - RateStep ELSE rate
NewRate(rate, hit) ==
    CASE hit  -> IF rate + RateStep > RateMax THEN RateMax ELSE rate + RateStep
      [] ~hit -> IF rate > RateStep THEN rate - RateStep ELSE rate

Executed(e, cycles, hit) ==
    LET rate == NewRate(e.rate, hit)
    IN [e EXCEPT !.avg = (@ + cycles) \div 2, !.rate = rate,
                 !.hot = @ \/ (e.count > HotThreshold /\ rate > HotRate)]

ProfileRecord(h, cycles, hit) ==
    /\ calls < MaxCalls /\ calls' = calls + 1
    /\ profiling_enabled
    /\ Matches(h) # {}
    /\ profile_table' = [profile_table EXCEPT ![First(Matches(h))] =
                            Executed(@, cycles, hit)]
    /\ UNCHANGED <<profile_usage, profiling_enabled, dag_mode>>

SetProfiling(enable) ==
    /\ profiling_enabled' = enable
    /\ UNCHANGED <<profile_table, profile_usage, dag_mode, calls>>

Next ==
    \/ \E tree \in Trees, depth \in Depths : Precompile(tree, depth)
    \/ \E h \in Hashes, cycles \in Cycles, hit \in BOOLEAN : ProfileRecord(h, cycles, hit)
    \/ \E enable \in BOOLEAN : SetProfiling(enable)

Spec == Init /\ [][Next]_vars
-----------------------------------------------------------------------------
(* Queries.                                                                *)

\* eml_is_hot_path
IsHotPath(h) == Matches(h) # {} /\ profile_table[First(Matches(h))].hot

\* What slot s adds to the totals of eml_get_stats, in counters that wrap.
Hits(s)   == ((profile_table[s].rate * profile_table[s].count) % Word) \div RateMax
Misses(s) == (((RateMax - profile_table[s].rate) * profile_table[s].count) % Word)
                \div RateMax

\* eml_get_stats
Stats ==
    [hit_count  |-> MapThenSumSet(Hits, profile_usage) % Word,
     miss_count |-> MapThenSumSet(Misses, profile_usage) % Word,
     hot_paths  |-> Cardinality({ s \in profile_usage : profile_table[s].hot })]
-----------------------------------------------------------------------------
(* Properties.                                                             *)

\* The variables have their types.
TypeOK ==
    /\ profile_table \in [Slots -> Entry]
    /\ profile_usage \subseteq Slots
    /\ profiling_enabled \in BOOLEAN
    /\ dag_mode \in BOOLEAN
    /\ calls \in 0 .. MaxCalls

\* The table never fills, so eml_find_cold_slot is never called and no profile
\* is ever evicted: a free slot is all zeros and answers for the expression
\* with hash 0, which therefore never takes a slot, and one is left over.
NeverFull == Free # {}

\* No two slots in use belong to one expression, and none to hash 0.
OneSlotPerHash ==
    \A r, s \in profile_usage :
        /\ profile_table[r].hash # 0
        /\ profile_table[r].hash = profile_table[s].hash => r = s

\* What makes the two inductive: a slot that is not in use has no hash.
FreeSlotsAreBlank == \A s \in Free : profile_table[s].hash = 0

\* A path once hot stays hot, whatever is compiled or missed afterwards.
HotForGood ==
    [][\A h \in Hashes \ {0} : IsHotPath(h) => IsHotPath(h)']_vars

Executions(s) == profile_table[s].count

\* The totals of eml_get_stats account for every execution but the fraction
\* each division drops, as long as the products fit a counter.
StatsAccount ==
    LET total == MapThenSumSet(Executions, profile_usage)
    IN (RateMax * total < Word) =>
          /\ Stats.hit_count + Stats.miss_count <= total
          /\ Stats.hit_count + Stats.miss_count >= total - Cardinality(profile_usage)

\* The profiles by identifier: what the entries in use say but for the hash.
Known == { profile_table[s].hash : s \in profile_usage }
SlotOf(h) == CHOOSE s \in profile_usage : profile_table[s].hash = h
View(e) == [count |-> e.count, avg |-> e.avg, rate |-> e.rate, hot |-> e.hot]
Profile == [h \in Known |-> View(profile_table[SlotOf(h)])]

Map == INSTANCE ProfileMap WITH Ids <- Hashes \ {0}, profile <- Profile

\* For every hash but 0 the table is a map from identifiers to profiles.
ImplementsProfile == Map!Spec
-----------------------------------------------------------------------------
(* Deviations: what a caller may expect and the code does not give.        *)

\* Violated: the executions of the expression with hash 0 are counted in a
\* free slot, and lost when that slot is given away.
ZeroKeepsCount ==
    [][\A s \in Free : profile_table[s].count > 0 =>
          \E r \in Slots : /\ profile_table'[r].hash = 0
                           /\ profile_table'[r].count >= profile_table[s].count]_vars
=============================================================================
