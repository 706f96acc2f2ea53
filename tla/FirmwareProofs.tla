--------------------------- MODULE FirmwareProofs ---------------------------
(***************************************************************************)
(* Proofs about the firmware: the profile table of eml_optimizer.c, and    *)
(* after it the temporal coding of snn_temporal.c.                         *)
(***************************************************************************)
EXTENDS EmlProfile, TemporalCoding, FiniteSetTheorems, WellFoundedInduction, TLAPS

\* The inductive invariant: slots in use have different hashes, none of them
\* 0, and the others have hash 0.
TableInv == TypeOK /\ OneSlotPerHash /\ FreeSlotsAreBlank

\* There are more slots than hashes other than 0, so one is always free.
LEMMA SomeSlotIsFree == TableInv => NeverFull
<1> SUFFICES ASSUME TableInv, profile_usage = Slots PROVE FALSE
    BY DEF TableInv, TypeOK, NeverFull, Free
<1> DEFINE H == [s \in Slots |-> profile_table[s].hash]
<1>1. NumSlots \in Nat /\ NumSlots > 0
    BY SlotsAssumption
<1>2. H \in [Slots -> 1 .. NumSlots - 1]
    <2> SUFFICES ASSUME NEW s \in Slots PROVE profile_table[s].hash \in 1 .. NumSlots - 1
        OBVIOUS
    <2>1. profile_table[s].hash \in 0 .. NumSlots - 1
        BY DEF TableInv, TypeOK, Entry, Hashes
    <2>2. profile_table[s].hash # 0
        BY DEF TableInv, OneSlotPerHash
    <2> QED BY <1>1, <2>1, <2>2
<1>3. \A r, s \in Slots : H[r] = H[s] => r = s
    BY DEF TableInv, OneSlotPerHash
<1>4. /\ IsFiniteSet(Slots) /\ Cardinality(Slots) = NumSlots
      /\ IsFiniteSet(1 .. NumSlots - 1) /\ Cardinality(1 .. NumSlots - 1) = NumSlots - 1
    <2>1. /\ IsFiniteSet(0 .. NumSlots - 1)
          /\ Cardinality(0 .. NumSlots - 1) =
                IF 0 > NumSlots - 1 THEN 0 ELSE (NumSlots - 1) - 0 + 1
        BY <1>1, FS_Interval
    <2>2. /\ IsFiniteSet(1 .. NumSlots - 1)
          /\ Cardinality(1 .. NumSlots - 1) =
                IF 1 > NumSlots - 1 THEN 0 ELSE (NumSlots - 1) - 1 + 1
        BY <1>1, FS_Interval
    <2> QED BY <1>1, <2>1, <2>2 DEF Slots
<1>5. Cardinality(1 .. NumSlots - 1) < Cardinality(Slots)
    BY <1>1, <1>4
<1> HIDE DEF H
<1>6. \E r, s \in Slots : r # s /\ H[r] = H[s]
    BY <1>2, <1>4, <1>5, FS_PigeonHole
<1> QED BY <1>3, <1>6
-----------------------------------------------------------------------------
(* The first slot of a set of slots is one of them.                        *)

LEMMA FirstOf == ASSUME NEW S \in SUBSET Slots, S # {} PROVE First(S) \in S
<1>1. PICK s \in S : \A r \in S : s <= r
    <2> DEFINE Below == { 0 .. s : s \in S }
               R     == StrictSubsetOrdering(Slots)
    <2>1. S \subseteq Nat /\ \A s \in S : 0 .. s \subseteq Slots
        BY SlotsAssumption DEF Slots
    <2>2. IsFiniteSet(Slots)
        BY SlotsAssumption, FS_Interval DEF Slots
    <2>3. IsWellFoundedOn(R, FiniteSubsetsOf(Slots))
        BY FS_StrictSubsetOrderingWellFounded
    <2>4. Below \subseteq FiniteSubsetsOf(Slots) /\ Below # {}
        <3>1. \A A \in Below : A \subseteq Slots
            BY <2>1
        <3>2. \A A \in Below : IsFiniteSet(A)
            BY <2>2, <3>1, FS_Subset
        <3> QED BY <3>1, <3>2 DEF FiniteSubsetsOf
    <2>5. PICK B \in Below : \A A \in Below : ~ (<<A, B>> \in R)
        <3> HIDE DEF Below, R
        <3> QED BY <2>3, <2>4, WFMin
    <2>6. PICK s \in S : B = 0 .. s
        BY <2>5
    <2>7. ASSUME NEW r \in S, r < s PROVE FALSE
        <3>1. 0 .. r \in Below /\ 0 .. r \subseteq 0 .. s /\ s \notin 0 .. r /\ s \in 0 .. s
            BY <2>1, <2>7
        <3>2. <<0 .. r, B>> \in R
            BY <2>1, <2>6, <3>1 DEF StrictSubsetOrdering
        <3> QED BY <2>5, <3>1, <3>2
    <2> QED BY <2>1, <2>7
<1> QED BY <1>1 DEF First
-----------------------------------------------------------------------------
(* Slots of expressions.                                                   *)

\* A search by a hash other than 0 finds the one slot in use that has it.
LEMMA OneMatch ==
    ASSUME TableInv, NEW h \in Hashes, h # 0, Matches(h) # {}
    PROVE  /\ First(Matches(h)) \in profile_usage
           /\ profile_table[First(Matches(h))].hash = h
           /\ \A s \in profile_usage : profile_table[s].hash = h => s = First(Matches(h))
<1>1. Matches(h) \in SUBSET Slots
    BY DEF Matches
<1>2. First(Matches(h)) \in Matches(h)
    BY <1>1, FirstOf
<1> QED BY <1>2 DEF Matches, TableInv, TypeOK, OneSlotPerHash, FreeSlotsAreBlank, Free

\* A search by 0 finds a slot that is not in use.
LEMMA ZeroMatch ==
    ASSUME TableInv
    PROVE  Matches(0) # {} /\ First(Matches(0)) \in Free
<1>1. Matches(0) # {}
    BY SomeSlotIsFree DEF Matches, NeverFull, FreeSlotsAreBlank, TableInv, Free
<1>2. First(Matches(0)) \in Matches(0)
    BY <1>1, FirstOf DEF Matches
<1> QED BY <1>1, <1>2 DEF Matches, TableInv, OneSlotPerHash, Free

\* A new expression gets a slot that was not in use.
LEMMA FreeSlotIsTaken ==
    ASSUME TableInv
    PROVE  SlotFor = Free /\ First(SlotFor) \in Free
<1>1. SlotFor = Free /\ Free # {}
    BY SomeSlotIsFree DEF SlotFor, NeverFull
<1> QED BY <1>1, FirstOf DEF Free

LEMMA NewRateType ==
    ASSUME NEW rate \in 0 .. RateMax, NEW hit \in BOOLEAN
    PROVE  NewRate(rate, hit) \in 0 .. RateMax
<1>1. RateMax \in Nat /\ RateStep \in Nat
    BY NumbersAssumption
<1>2. CASE hit
    BY <1>1, <1>2 DEF NewRate
<1>3. CASE ~hit
    BY <1>1, <1>3 DEF NewRate
<1> QED BY <1>2, <1>3

LEMMA ExecutedType ==
    ASSUME NEW e \in Entry, NEW cycles \in Cycles, NEW hit \in BOOLEAN
    PROVE  Executed(e, cycles, hit) \in Entry /\ Executed(e, cycles, hit).hash = e.hash
<1>1. NewRate(e.rate, hit) \in 0 .. RateMax
    BY NewRateType DEF Entry
<1>2. (e.avg + cycles) \div 2 \in Nat
    <2>1. e.avg \in Nat /\ cycles \in Nat
        BY NumbersAssumption DEF Entry
    <2> QED BY <2>1
<1>3. (e.hot \/ (e.count > HotThreshold /\ NewRate(e.rate, hit) > HotRate)) \in BOOLEAN
    BY DEF Entry
<1> QED BY <1>1, <1>2, <1>3 DEF Executed, Entry
-----------------------------------------------------------------------------
(* The invariant.                                                          *)

\* An entry may be blank, or count its first execution.
LEMMA EntryTypes ==
    /\ Empty \in Entry /\ Empty.hash = 0
    /\ \A h \in Hashes : LET e == [Empty EXCEPT !.hash = h, !.count = 1]
                         IN e \in Entry /\ e.hash = h
<1>1. /\ 0 \in Hashes /\ 0 \in 0 .. Word - 1 /\ 1 \in 0 .. Word - 1
      /\ 0 \in Nat /\ 0 \in 0 .. RateMax
    BY SlotsAssumption, NumbersAssumption DEF Hashes
<1> QED BY <1>1 DEF Entry, Empty

LEMMA InitInv == Init => TableInv
<1> SUFFICES ASSUME Init PROVE TableInv
    OBVIOUS
<1>1. profile_table \in [Slots -> Entry]
    BY EntryTypes DEF Init
<1>2. calls \in 0 .. MaxCalls
    BY NumbersAssumption DEF Init
<1>3. \A s \in Slots : profile_table[s].hash = 0
    BY EntryTypes DEF Init
<1> QED BY <1>1, <1>2, <1>3
        DEF Init, TableInv, TypeOK, OneSlotPerHash, FreeSlotsAreBlank, Free

LEMMA StepInv == TableInv /\ [Next]_vars => TableInv'
<1> SUFFICES ASSUME TableInv, [Next]_vars PROVE TableInv'
    OBVIOUS
<1> USE DEF TableInv
<1>1. ASSUME NEW tree \in Trees, NEW depth \in Depths, Precompile(tree, depth)
      PROVE  TableInv'
    <2> DEFINE h == Hash(tree, depth)
    <2>0. h \in Hashes /\ calls' \in 0 .. MaxCalls
        BY <1>1, HashAssumption, NumbersAssumption DEF Precompile, Hashes, TypeOK
    <2>1. CASE Found(h)
        <3> DEFINE s == First(Matches(h))
        <3>1. s \in Slots
            BY <2>1, FirstOf DEF Found, Matches
        <3>2. (profile_table[s].count + 1) % Word \in 0 .. Word - 1
            BY <3>1, NumbersAssumption DEF TypeOK, Entry
        <3>3. profile_table' = [profile_table EXCEPT ![s] =
                  [profile_table[s] EXCEPT !.count = (profile_table[s].count + 1) % Word]]
            BY <2>1 DEF Found
        <3> HIDE DEF s
        <3>4. TypeOK'
            <4>1. profile_table' \in [Slots -> Entry]
                BY <3>1, <3>2, <3>3 DEF TypeOK, Entry
            <4>2. UNCHANGED <<profile_usage, dag_mode, profiling_enabled>>
                BY <1>1, <2>1 DEF Found, Precompile
            <4> QED BY <2>0, <4>1, <4>2 DEF TypeOK
        <3>5. \A r \in Slots : profile_table'[r].hash = profile_table[r].hash
            BY <3>1, <3>3 DEF TypeOK, Entry
        <3> QED BY <2>1, <3>4, <3>5 DEF Found, OneSlotPerHash, FreeSlotsAreBlank, Free, TypeOK
    <2>2. CASE Allocate(h)
        <3> DEFINE s == First(SlotFor)
        <3>1. s \in Free
            BY FreeSlotIsTaken
        <3>2. h # 0
            BY <2>2, ZeroMatch DEF Allocate
        <3>3. \A r \in Slots : profile_table[r].hash # h
            BY <2>2 DEF Allocate, Matches
        <3>4. /\ profile_table' = [profile_table EXCEPT ![s] =
                                     [Empty EXCEPT !.hash = h, !.count = 1]]
              /\ profile_usage' = profile_usage \union {s}
            BY <2>2 DEF Allocate
        <3>5. [Empty EXCEPT !.hash = h, !.count = 1] \in Entry
            BY <2>0, EntryTypes
        <3>6. TypeOK'
            BY <1>1, <2>0, <2>2, <3>1, <3>4, <3>5 DEF TypeOK, Allocate, Precompile, Free
        <3> HIDE DEF s, h
        <3>7. \A r \in Slots : profile_table'[r].hash =
                                  IF r = s THEN h ELSE profile_table[r].hash
            BY <3>1, <3>4 DEF TypeOK, Free, Empty
        <3> QED BY <3>1, <3>2, <3>3, <3>4, <3>6, <3>7
                DEF OneSlotPerHash, FreeSlotsAreBlank, Free, TypeOK
    <2> QED BY <1>1, <2>1, <2>2 DEF Precompile
<1>2. ASSUME NEW h \in Hashes, NEW cycles \in Cycles, NEW hit \in BOOLEAN,
             ProfileRecord(h, cycles, hit)
      PROVE  TableInv'
    <2> DEFINE s == First(Matches(h))
    <2>1. s \in Slots
        BY <1>2, FirstOf DEF ProfileRecord, Matches
    <2>2. profile_table' = [profile_table EXCEPT ![s] =
                              Executed(profile_table[s], cycles, hit)]
        BY <1>2 DEF ProfileRecord
    <2>3. /\ Executed(profile_table[s], cycles, hit) \in Entry
          /\ Executed(profile_table[s], cycles, hit).hash = profile_table[s].hash
        BY <2>1, ExecutedType DEF TypeOK
    <2> HIDE DEF s
    <2>4. TypeOK'
        <3>1. calls' \in 0 .. MaxCalls
            BY <1>2, NumbersAssumption DEF TypeOK, ProfileRecord
        <3>2. profile_table' \in [Slots -> Entry]
            BY <2>1, <2>2, <2>3 DEF TypeOK
        <3> QED BY <1>2, <3>1, <3>2 DEF TypeOK, ProfileRecord
    <2>5. \A r \in Slots : profile_table'[r].hash = profile_table[r].hash
        BY <2>1, <2>2, <2>3 DEF TypeOK
    <2> QED BY <1>2, <2>4, <2>5
            DEF ProfileRecord, OneSlotPerHash, FreeSlotsAreBlank, Free, TypeOK
<1>3. ASSUME NEW enable \in BOOLEAN, SetProfiling(enable) PROVE TableInv'
    BY <1>3 DEF SetProfiling, TypeOK, OneSlotPerHash, FreeSlotsAreBlank, Free
<1>4. CASE UNCHANGED vars
    BY <1>4 DEF vars, TypeOK, OneSlotPerHash, FreeSlotsAreBlank, Free
<1> QED BY <1>1, <1>2, <1>3, <1>4 DEF Next

\* In every reachable state the invariant holds: for every number of slots as
\* large as the number of hashes no two slots belong to one expression.
THEOREM TableCorrect == Spec => [](TypeOK /\ OneSlotPerHash /\ FreeSlotsAreBlank)
<1>1. TableInv => TypeOK /\ OneSlotPerHash /\ FreeSlotsAreBlank
    BY DEF TableInv
<1> QED BY <1>1, InitInv, StepInv, PTL DEF Spec

\* No profile is ever evicted: the table never fills.
THEOREM EvictionUnreachable == Spec => []NeverFull
BY InitInv, StepInv, SomeSlotIsFree, PTL DEF Spec
-----------------------------------------------------------------------------
(* The totals of eml_get_stats.                                            *)

\* The recursion of a sum over a set of slots, with H for what each of them adds.
Pick(s) == CHOOSE x \in s : TRUE
Sums(H, T, g) ==
    [s \in SUBSET T |-> IF s = {} THEN 0 ELSE H[Pick(s)] + g[s \ {Pick(s)}]]

\* Of some subsets of a finite set, one has no other of them below it.
LEMMA SomeIsLeast ==
    ASSUME NEW T, IsFiniteSet(T), NEW Bad \in SUBSET SUBSET T, Bad # {}
    PROVE  \E s \in Bad : \A r \in Bad : r \subseteq s => r = s
<1> DEFINE R == StrictSubsetOrdering(T)
<1>1. IsWellFoundedOn(R, FiniteSubsetsOf(T)) BY FS_StrictSubsetOrderingWellFounded
<1>2. Bad \subseteq FiniteSubsetsOf(T) BY FS_Subset DEF FiniteSubsetsOf
<1> HIDE DEF R
<1>3. PICK s \in Bad : \A r \in Bad : ~(<<r, s>> \in R) BY <1>1, <1>2, WFMin
<1>4. ASSUME NEW r \in Bad, r \subseteq s, r # s PROVE FALSE
  <2>1. <<r, s>> \in R BY <1>4 DEF R, StrictSubsetOrdering
  <2> QED BY <1>3, <2>1
<1> QED BY <1>3, <1>4

LEMMA PickOne == \A s : s # {} => Pick(s) \in s
BY DEF Pick

\* The recursion has one solution on the sets that two solutions are defined on.
LEMMA SumsAgree ==
    ASSUME NEW T, IsFiniteSet(T), NEW V \in SUBSET T, NEW W \in SUBSET T,
           NEW H, NEW g, NEW k, g = Sums(H, V, g), k = Sums(H, W, k)
    PROVE  \A s \in SUBSET (V \intersect W) : g[s] = k[s]
<1> DEFINE Bad == { s \in SUBSET (V \intersect W) : g[s] # k[s] }
<1> SUFFICES ASSUME Bad # {} PROVE FALSE
  OBVIOUS
<1>1. Bad \in SUBSET SUBSET T OBVIOUS
<1> HIDE DEF Bad
<1>2. PICK s \in Bad : \A r \in Bad : r \subseteq s => r = s BY <1>1, SomeIsLeast
<1>3. s \in SUBSET V /\ s \in SUBSET W /\ g[s] # k[s] BY DEF Bad
<1>4. g[s] = (IF s = {} THEN 0 ELSE H[Pick(s)] + g[s \ {Pick(s)}])
  BY <1>3 DEF Sums
<1>5. k[s] = (IF s = {} THEN 0 ELSE H[Pick(s)] + k[s \ {Pick(s)}])
  BY <1>3 DEF Sums
<1>6. s # {} BY <1>3, <1>4, <1>5
<1>7. g[s \ {Pick(s)}] = k[s \ {Pick(s)}]
  <2>1. s \ {Pick(s)} \subseteq s /\ s \ {Pick(s)} # s BY <1>6, PickOne
  <2> QED BY <1>2, <1>3, <2>1 DEF Bad
<1> QED BY <1>3, <1>4, <1>5, <1>7

LEMMA SumsExist == ASSUME NEW T, IsFiniteSet(T), NEW H PROVE \E g : g = Sums(H, T, g)
<1> DEFINE Bad == { U \in SUBSET T : ~ \E g : g = Sums(H, U, g) }
<1> SUFFICES ASSUME Bad # {} PROVE FALSE
  OBVIOUS
<1>1. Bad \in SUBSET SUBSET T OBVIOUS
<1> HIDE DEF Bad
<1>2. PICK U \in Bad : \A r \in Bad : r \subseteq U => r = U BY <1>1, SomeIsLeast
<1>3. U \in SUBSET T /\ ~ \E g : g = Sums(H, U, g) BY DEF Bad
<1> DEFINE G(V) == CHOOSE g : g = Sums(H, V, g)
<1>4. ASSUME NEW V \in SUBSET U, V # U PROVE G(V) = Sums(H, V, G(V))
  <2>1. \E g : g = Sums(H, V, g) BY <1>2, <1>3, <1>4 DEF Bad
  <2> QED BY <2>1
<1> DEFINE new == [s \in SUBSET U |->
                     IF s = {} THEN 0
                     ELSE H[Pick(s)] + G(s \ {Pick(s)})[s \ {Pick(s)}]]
<1> HIDE DEF G
<1>5. ASSUME NEW V \in SUBSET U, V # U PROVE new[V] = G(V)[V]
  <2>1. G(V) = Sums(H, V, G(V)) BY <1>4, <1>5
  <2>2. G(V)[V] = (IF V = {} THEN 0 ELSE H[Pick(V)] + G(V)[V \ {Pick(V)}])
    BY <2>1 DEF Sums
  <2>3. CASE V = {} BY <2>2, <2>3
  <2>4. CASE V # {}
    <3> DEFINE W == V \ {Pick(V)}
    <3>1. W \in SUBSET U /\ W # U /\ W \subseteq V BY <1>5, <2>4, PickOne
    <3>2. G(W) = Sums(H, W, G(W)) BY <1>4, <3>1
    <3>3. V \in SUBSET T /\ W \in SUBSET T /\ W \in SUBSET (V \intersect W)
      BY <1>3, <3>1
    <3> HIDE DEF W
    <3>4. G(V)[W] = G(W)[W] BY <2>1, <3>2, <3>3, SumsAgree
    <3>5. new[V] = H[Pick(V)] + G(W)[W] BY <2>4 DEF W
    <3> QED BY <2>2, <2>4, <3>4, <3>5 DEF W
  <2> QED BY <2>3, <2>4
<1>6. ASSUME NEW s \in SUBSET U, s # {}
      PROVE  s \ {Pick(s)} \in SUBSET U /\ s \ {Pick(s)} # U
  BY <1>6, PickOne
<1>7. new = Sums(H, U, new)
  <2>1. \A s \in SUBSET U :
            s # {} => G(s \ {Pick(s)})[s \ {Pick(s)}] = new[s \ {Pick(s)}]
    <3> HIDE DEF new
    <3> QED BY <1>5, <1>6
  <2>2. new = [s \in SUBSET U |-> IF s = {} THEN 0
                                  ELSE H[Pick(s)] + new[s \ {Pick(s)}]]
    <3> DEFINE f == [s \in SUBSET U |-> IF s = {} THEN 0
                                  ELSE H[Pick(s)] + new[s \ {Pick(s)}]]
    <3>1. ASSUME NEW s \in SUBSET U PROVE new[s] = f[s]
      <4>1. CASE s = {} BY <4>1
      <4>2. CASE s # {}
        <5>1. new[s] = H[Pick(s)] + G(s \ {Pick(s)})[s \ {Pick(s)}] BY <4>2
        <5>2. f[s] = H[Pick(s)] + new[s \ {Pick(s)}] BY <4>2
        <5> QED BY <2>1, <4>2, <5>1, <5>2
      <4> QED BY <4>1, <4>2
    <3> QED BY <3>1
  <2> QED BY <2>2 DEF Sums
<1> QED BY <1>3, <1>7


\* Values that follow the recursion.
Follows(g, U, H) ==
    \A s \in SUBSET U : g[s] = IF s = {} THEN 0 ELSE H[Pick(s)] + g[s \ {Pick(s)}]

\* The three sums over the slots in use follow it.
LEMMA HitsSum ==
    ASSUME profile_usage \subseteq Slots, IsFiniteSet(profile_usage)
    PROVE  \E g : /\ MapThenSumSet(Hits, profile_usage) = g[profile_usage]
                  /\ Follows(g, profile_usage, [s \in Slots |-> Hits(s)])
<1> DEFINE U == profile_usage
           H == [s \in Slots |-> Hits(s)]
           F(g) == [s \in SUBSET U |->
                      IF s = {} THEN 0
                      ELSE LET x == CHOOSE x \in s : TRUE IN Hits(x) + g[s \ {x}]]
           iter == CHOOSE g : g = F(g)
<1>1. MapThenSumSet(Hits, profile_usage) = iter[U]
  BY DEF MapThenSumSet, MapThenFoldSet
<1>2. \A s \in SUBSET U : s # {} => H[Pick(s)] = Hits(Pick(s)) BY PickOne
<1>3. \A g : F(g) = Sums(H, U, g)
  <2> SUFFICES ASSUME NEW g PROVE F(g) = Sums(H, U, g) OBVIOUS
  <2>1. ASSUME NEW s \in SUBSET U PROVE F(g)[s] = Sums(H, U, g)[s]
    <3>1. CASE s = {} BY <3>1 DEF Sums
    <3>2. CASE s # {} BY <1>2, <3>2 DEF Sums, Pick
    <3> QED BY <3>1, <3>2
  <2> QED BY <2>1 DEF Sums
<1>4. PICK g : g = Sums(H, U, g) BY SumsExist
<1> HIDE DEF F
<1>5. iter = F(iter) BY <1>3, <1>4
<1>6. iter = Sums(H, U, iter) BY <1>3, <1>5
<1> HIDE DEF iter, H
<1>7. Follows(iter, U, H) BY <1>6 DEF Sums, Follows
<1> QED BY <1>1, <1>7 DEF H

LEMMA MissesSum ==
    ASSUME profile_usage \subseteq Slots, IsFiniteSet(profile_usage)
    PROVE  \E g : /\ MapThenSumSet(Misses, profile_usage) = g[profile_usage]
                  /\ Follows(g, profile_usage, [s \in Slots |-> Misses(s)])
<1> DEFINE U == profile_usage
           H == [s \in Slots |-> Misses(s)]
           F(g) == [s \in SUBSET U |->
                      IF s = {} THEN 0
                      ELSE LET x == CHOOSE x \in s : TRUE IN Misses(x) + g[s \ {x}]]
           iter == CHOOSE g : g = F(g)
<1>1. MapThenSumSet(Misses, profile_usage) = iter[U]
  BY DEF MapThenSumSet, MapThenFoldSet
<1>2. \A s \in SUBSET U : s # {} => H[Pick(s)] = Misses(Pick(s)) BY PickOne
<1>3. \A g : F(g) = Sums(H, U, g)
  <2> SUFFICES ASSUME NEW g PROVE F(g) = Sums(H, U, g) OBVIOUS
  <2>1. ASSUME NEW s \in SUBSET U PROVE F(g)[s] = Sums(H, U, g)[s]
    <3>1. CASE s = {} BY <3>1 DEF Sums
    <3>2. CASE s # {} BY <1>2, <3>2 DEF Sums, Pick
    <3> QED BY <3>1, <3>2
  <2> QED BY <2>1 DEF Sums
<1>4. PICK g : g = Sums(H, U, g) BY SumsExist
<1> HIDE DEF F
<1>5. iter = F(iter) BY <1>3, <1>4
<1>6. iter = Sums(H, U, iter) BY <1>3, <1>5
<1> HIDE DEF iter, H
<1>7. Follows(iter, U, H) BY <1>6 DEF Sums, Follows
<1> QED BY <1>1, <1>7 DEF H

LEMMA ExecutionsSum ==
    ASSUME profile_usage \subseteq Slots, IsFiniteSet(profile_usage)
    PROVE  \E g : /\ MapThenSumSet(Executions, profile_usage) = g[profile_usage]
                  /\ Follows(g, profile_usage, [s \in Slots |-> Executions(s)])
<1> DEFINE U == profile_usage
           H == [s \in Slots |-> Executions(s)]
           F(g) == [s \in SUBSET U |->
                      IF s = {} THEN 0
                      ELSE LET x == CHOOSE x \in s : TRUE IN Executions(x) + g[s \ {x}]]
           iter == CHOOSE g : g = F(g)
<1>1. MapThenSumSet(Executions, profile_usage) = iter[U]
  BY DEF MapThenSumSet, MapThenFoldSet
<1>2. \A s \in SUBSET U : s # {} => H[Pick(s)] = Executions(Pick(s)) BY PickOne
<1>3. \A g : F(g) = Sums(H, U, g)
  <2> SUFFICES ASSUME NEW g PROVE F(g) = Sums(H, U, g) OBVIOUS
  <2>1. ASSUME NEW s \in SUBSET U PROVE F(g)[s] = Sums(H, U, g)[s]
    <3>1. CASE s = {} BY <3>1 DEF Sums
    <3>2. CASE s # {} BY <1>2, <3>2 DEF Sums, Pick
    <3> QED BY <3>1, <3>2
  <2> QED BY <2>1 DEF Sums
<1>4. PICK g : g = Sums(H, U, g) BY SumsExist
<1> HIDE DEF F
<1>5. iter = F(iter) BY <1>3, <1>4
<1>6. iter = Sums(H, U, iter) BY <1>3, <1>5
<1> HIDE DEF iter, H
<1>7. Follows(iter, U, H) BY <1>6 DEF Sums, Follows
<1> QED BY <1>1, <1>7 DEF H

\* Of a count that is divided in the ratio of a rate to the rest, the two roundings
\* drop one at most.
LEMMA Shares ==
    ASSUME NEW a \in 0 .. RateMax, NEW c \in Nat
    PROVE  /\ (a * c) \div RateMax \in Nat /\ ((RateMax - a) * c) \div RateMax \in Nat
           /\ (a * c) \div RateMax + ((RateMax - a) * c) \div RateMax \in {c - 1, c}
<1> DEFINE b == RateMax - a
           x == a * c
           y == b * c
<1>1. RateMax \in Nat /\ RateMax > 0 /\ a \in Nat /\ b \in Nat /\ a + b = RateMax
  BY NumbersAssumption
<1> HIDE DEF b
<1>2. x \in Nat /\ y \in Nat /\ x + y = RateMax * c
  <2>1. a * c \in Nat /\ b * c \in Nat BY <1>1
  <2>2. a * c + b * c = (a + b) * c BY <1>1
  <2> QED BY <1>1, <2>1, <2>2
<1> HIDE DEF x, y
<1>3. /\ x = RateMax * (x \div RateMax) + (x % RateMax)
      /\ y = RateMax * (y \div RateMax) + (y % RateMax)
      /\ x \div RateMax \in Nat /\ y \div RateMax \in Nat
      /\ x % RateMax \in 0 .. RateMax - 1 /\ y % RateMax \in 0 .. RateMax - 1
  BY <1>1, <1>2
<1> DEFINE p == x \div RateMax
           q == y \div RateMax
<1>4. p \in Nat /\ q \in Nat BY <1>3
<1>5. RateMax * p + RateMax * q <= RateMax * c
      /\ RateMax * c < RateMax * p + RateMax * q + 2 * RateMax
  BY <1>1, <1>2, <1>3
<1> HIDE DEF p, q
<1>6. RateMax * p + RateMax * q = RateMax * (p + q)
      /\ RateMax * (p + q) + 2 * RateMax = RateMax * (p + q + 2)
  BY <1>1, <1>4
<1>7. p + q <= c
  <2> SUFFICES ASSUME p + q > c PROVE FALSE BY <1>4
  <2>1. RateMax * (p + q) >= RateMax * (c + 1) BY <1>1, <1>4
  <2>2. RateMax * (c + 1) = RateMax * c + RateMax BY <1>1
  <2>3. RateMax * c \in Nat BY <1>1
  <2> QED BY <1>1, <1>4, <1>5, <1>6, <2>1, <2>2, <2>3
<1>8. c < p + q + 2
  <2> SUFFICES ASSUME c >= p + q + 2 PROVE FALSE BY <1>4
  <2>1. RateMax * c >= RateMax * (p + q + 2) BY <1>1, <1>4
  <2> QED BY <1>1, <1>4, <1>5, <1>6, <2>1
<1>9. p + q \in {c - 1, c} BY <1>4, <1>7, <1>8
<1> QED BY <1>4, <1>9 DEF p, q, x, y, b

\* What one slot adds to the totals, when its count fits them.
LEMMA SlotAccounts ==
    ASSUME TypeOK, NEW s \in Slots
    PROVE  /\ Executions(s) \in Nat /\ Hits(s) \in Nat /\ Misses(s) \in Nat
           /\ RateMax * Executions(s) < Word =>
                Hits(s) + Misses(s) \in {Executions(s) - 1, Executions(s)}
<1> DEFINE a == profile_table[s].rate
           c == profile_table[s].count
<1>1. a \in 0 .. RateMax /\ c \in Nat
  BY NumbersAssumption DEF TypeOK, Entry
<1>2. RateMax \in Nat /\ RateMax > 0 /\ Word \in Nat /\ Word > 0 BY NumbersAssumption
<1>3. Hits(s) = ((a * c) % Word) \div RateMax
      /\ Misses(s) = (((RateMax - a) * c) % Word) \div RateMax
      /\ Executions(s) = c
  BY DEF Hits, Misses, Executions
<1> HIDE DEF a, c
<1>4. a * c \in Nat /\ (RateMax - a) * c \in Nat /\ RateMax * c \in Nat
      /\ a * c <= RateMax * c /\ (RateMax - a) * c <= RateMax * c
  <2>1. a \in Nat /\ RateMax - a \in Nat /\ a <= RateMax /\ RateMax - a <= RateMax
    BY <1>1, <1>2
  <2>2. \A u, v \in Nat : u <= v => u * c \in Nat /\ u * c <= v * c BY <1>1
  <2> QED BY <1>2, <2>1, <2>2
<1>5. Hits(s) \in Nat /\ Misses(s) \in Nat
  <2>1. \A n \in Nat : n % Word \in Nat BY <1>2
  <2>2. \A n \in Nat : n \div RateMax \in Nat BY <1>2
  <2> QED BY <1>3, <1>4, <2>1, <2>2
<1>6. ASSUME RateMax * c < Word PROVE Hits(s) + Misses(s) \in {c - 1, c}
  <2>1. \A n \in Nat : n < Word => n % Word = n BY <1>2
  <2>2. a * c < Word /\ (RateMax - a) * c < Word BY <1>2, <1>4, <1>6
  <2>3. (a * c) % Word = a * c /\ ((RateMax - a) * c) % Word = (RateMax - a) * c
    BY <1>4, <2>1, <2>2
  <2>4. (a * c) \div RateMax + ((RateMax - a) * c) \div RateMax \in {c - 1, c}
    BY <1>1, Shares
  <2> QED BY <1>3, <2>3, <2>4
<1> QED BY <1>1, <1>3, <1>5, <1>6

\* Slot after slot, the sums keep together.
LEMMA SumsAccount ==
    ASSUME TypeOK, NEW U \in SUBSET Slots, IsFiniteSet(U), NEW h, NEW m, NEW e,
           Follows(h, U, [s \in Slots |-> Hits(s)]),
           Follows(m, U, [s \in Slots |-> Misses(s)]),
           Follows(e, U, [s \in Slots |-> Executions(s)])
    PROVE  /\ h[U] \in Nat /\ m[U] \in Nat /\ e[U] \in Nat
           /\ RateMax * e[U] < Word =>
                h[U] + m[U] <= e[U] /\ h[U] + m[U] >= e[U] - Cardinality(U)
<1> DEFINE Good(s) == /\ h[s] \in Nat /\ m[s] \in Nat /\ e[s] \in Nat
                      /\ RateMax * e[s] < Word =>
                           h[s] + m[s] <= e[s] /\ h[s] + m[s] >= e[s] - Cardinality(s)
           Bad == { s \in SUBSET U : ~Good(s) }
<1> SUFFICES ASSUME Bad # {} PROVE FALSE
  OBVIOUS
<1>1. Bad \in SUBSET SUBSET U OBVIOUS
<1> HIDE DEF Bad
<1>2. PICK s \in Bad : \A r \in Bad : r \subseteq s => r = s BY <1>1, SomeIsLeast
<1>3. s \in SUBSET U /\ ~Good(s) BY DEF Bad
<1>4. IsFiniteSet(s) /\ Cardinality(s) \in Nat BY <1>3, FS_Subset, FS_CardinalityType
<1>5. CASE s = {}
  <2>1. h[s] = 0 /\ m[s] = 0 /\ e[s] = 0 BY <1>3, <1>5 DEF Follows
  <2>2. Cardinality(s) = 0 BY <1>5, FS_EmptySet
  <2> QED BY <1>3, <2>1, <2>2
<1>6. CASE s # {}
  <2> DEFINE x == Pick(s)
             r == s \ {x}
  <2>1. x \in s /\ x \in Slots /\ r \in SUBSET U /\ r # s /\ r \subseteq s
    BY <1>3, <1>6, PickOne
  <2>2. Good(r) BY <1>2, <2>1 DEF Bad
  <2>3. /\ h[s] = Hits(x) + h[r] /\ m[s] = Misses(x) + m[r]
        /\ e[s] = Executions(x) + e[r]
    BY <1>3, <1>6, <2>1 DEF Follows
  <2>4. Cardinality(r) = Cardinality(s) - 1 BY <1>4, <2>1, FS_RemoveElement
  <2>5. /\ Executions(x) \in Nat /\ Hits(x) \in Nat /\ Misses(x) \in Nat
        /\ RateMax * Executions(x) < Word =>
             Hits(x) + Misses(x) \in {Executions(x) - 1, Executions(x)}
    BY <2>1, SlotAccounts
  <2> HIDE DEF x, r
  <2>6. RateMax \in Nat /\ Word \in Nat BY NumbersAssumption
  <2>7. RateMax * e[s] = RateMax * Executions(x) + RateMax * e[r]
        /\ RateMax * Executions(x) \in Nat /\ RateMax * e[r] \in Nat
    BY <2>2, <2>3, <2>5, <2>6
  <2> QED BY <1>3, <1>4, <2>2, <2>3, <2>4, <2>5, <2>6, <2>7
<1> QED BY <1>5, <1>6

\* eml_get_stats accounts for every execution but the fraction each division drops,
\* for every table whose products fit a counter.
LEMMA TableAccounts == TypeOK => StatsAccount
<1> SUFFICES ASSUME TypeOK PROVE StatsAccount
  OBVIOUS
<1> DEFINE U == profile_usage
           total == MapThenSumSet(Executions, profile_usage)
<1>1. U \in SUBSET Slots /\ IsFiniteSet(U)
  <2>1. IsFiniteSet(Slots) BY SlotsAssumption, FS_Interval DEF Slots
  <2> QED BY <2>1, FS_Subset DEF TypeOK
<1>2. PICK h : /\ MapThenSumSet(Hits, profile_usage) = h[U]
               /\ Follows(h, U, [s \in Slots |-> Hits(s)])
  BY <1>1, HitsSum
<1>3. PICK m : /\ MapThenSumSet(Misses, profile_usage) = m[U]
               /\ Follows(m, U, [s \in Slots |-> Misses(s)])
  BY <1>1, MissesSum
<1>4. PICK e : /\ total = e[U] /\ Follows(e, U, [s \in Slots |-> Executions(s)])
  BY <1>1, ExecutionsSum
<1>5. /\ h[U] \in Nat /\ m[U] \in Nat /\ e[U] \in Nat
      /\ RateMax * e[U] < Word =>
           h[U] + m[U] <= e[U] /\ h[U] + m[U] >= e[U] - Cardinality(U)
  BY <1>1, <1>2, <1>3, <1>4, SumsAccount
<1>6. ASSUME RateMax * total < Word
      PROVE  /\ Stats.hit_count = h[U] /\ Stats.miss_count = m[U]
  <2>1. RateMax \in Nat /\ RateMax > 0 /\ Word \in Nat /\ Word > 0 BY NumbersAssumption
  <2>2. e[U] <= RateMax * e[U] BY <1>5, <2>1
  <2>3. RateMax * e[U] < Word BY <1>4, <1>6
  <2>4. h[U] < Word /\ m[U] < Word BY <1>5, <2>1, <2>2, <2>3
  <2>5. h[U] % Word = h[U] /\ m[U] % Word = m[U] BY <1>5, <2>1, <2>4
  <2> QED BY <1>2, <1>3, <2>5 DEF Stats
<1> HIDE DEF total
<1>7. (RateMax * total < Word) =>
          /\ Stats.hit_count + Stats.miss_count <= total
          /\ Stats.hit_count + Stats.miss_count >= total - Cardinality(U)
  BY <1>4, <1>5, <1>6
<1> QED BY <1>7 DEF StatsAccount, total

\* Whatever was compiled and recorded, eml_get_stats accounts for it.
THEOREM StatsCorrect == Spec => []StatsAccount
<1>1. TableInv => StatsAccount BY TableAccounts DEF TableInv
<1> QED BY <1>1, InitInv, StepInv, PTL DEF Spec
-----------------------------------------------------------------------------
(* The table is a map.                                                     *)

\* The slot of an expression is the one in use that has its hash.
LEMMA SlotOfHash ==
    ASSUME TableInv, NEW s \in profile_usage PROVE SlotOf(profile_table[s].hash) = s
BY DEF TableInv, OneSlotPerHash, SlotOf

LEMMA InitMaps == Init => Map!Init
<1> SUFFICES ASSUME Init PROVE Profile = [i \in {} |-> Map!Fresh]
    BY DEF Map!Init
<1>1. Known = {}
    BY DEF Init, Known
<1> QED BY <1>1 DEF Profile

\* A step that leaves hashes and usage alone and changes what slot t says
\* changes the profile of t's expression, or of none when t is not in use.
LEMMA OneEntryChanges ==
    ASSUME TableInv, TableInv', NEW t \in Slots, NEW e, e.hash = profile_table[t].hash,
           profile_table' = [profile_table EXCEPT ![t] = e], UNCHANGED profile_usage
    PROVE  /\ t \in profile_usage =>
                 Profile' = [Profile EXCEPT ![profile_table[t].hash] = View(e)]
           /\ t \notin profile_usage => UNCHANGED Profile
<1>1. \A s \in Slots : profile_table'[s] = IF s = t THEN e ELSE profile_table[s]
    BY DEF TableInv, TypeOK
<1>2. \A s \in Slots : profile_table'[s].hash = profile_table[s].hash
    BY <1>1
<1>3. profile_usage \subseteq Slots
    BY DEF TableInv, TypeOK
<1>4. Known' = Known
    BY <1>2, <1>3 DEF Known
<1>5. \A s \in profile_usage : SlotOf(profile_table[s].hash) = s
    BY SlotOfHash
<1>6. \A h \in Known : /\ SlotOf(h)' = SlotOf(h) /\ SlotOf(h) \in profile_usage
                       /\ profile_table[SlotOf(h)].hash = h
    <2> SUFFICES ASSUME NEW h \in Known
                 PROVE  /\ SlotOf(h)' = SlotOf(h) /\ SlotOf(h) \in profile_usage
                        /\ profile_table[SlotOf(h)].hash = h
        OBVIOUS
    <2>1. PICK s \in profile_usage : profile_table[s].hash = h
        BY DEF Known
    <2>2. \A r \in profile_usage : profile_table[r].hash = h <=> r = s
        BY <2>1 DEF TableInv, OneSlotPerHash
    <2>3. \A r \in profile_usage : profile_table'[r].hash = h <=> r = s
        BY <1>2, <1>3, <2>2
    <2> QED BY <2>1, <2>2, <2>3 DEF SlotOf
<1>7. \A h \in Known : /\ Profile[h] = View(profile_table[SlotOf(h)])
                       /\ Profile'[h] = IF SlotOf(h) = t THEN View(e) ELSE Profile[h]
    BY <1>1, <1>3, <1>4, <1>6 DEF Profile
<1>8. CASE t \in profile_usage
    <2>1. \A h \in Known : SlotOf(h) = t <=> h = profile_table[t].hash
        BY <1>5, <1>6, <1>8
    <2> QED BY <1>4, <1>7, <1>8, <2>1 DEF Profile
<1>9. CASE t \notin profile_usage
    <2>1. \A h \in Known : Profile'[h] = Profile[h]
        BY <1>6, <1>7, <1>9
    <2> QED BY <1>4, <1>9, <2>1 DEF Profile
<1> QED BY <1>8, <1>9
-----------------------------------------------------------------------------
(* Each operation, as the map sees it.                                     *)

\* The entry of a known expression counts one execution more.
LEMMA FoundMaps ==
    ASSUME TableInv, TableInv', NEW h \in Hashes, Found(h)
    PROVE  (h # 0 /\ Map!Compile(h)) \/ UNCHANGED Profile
<1> DEFINE t == First(Matches(h))
           e == [profile_table[t] EXCEPT !.count = (profile_table[t].count + 1) % Word]
<1>1. t \in Slots /\ profile_table[t].hash = h
    BY FirstOf DEF Found, Matches
<1>2. e.hash = profile_table[t].hash /\ profile_table[t] \in Entry
    BY <1>1 DEF TableInv, TypeOK, Entry
<1>3. profile_table' = [profile_table EXCEPT ![t] = e] /\ UNCHANGED profile_usage
    BY DEF Found
<1>4. View(e) = [View(profile_table[t]) EXCEPT
                    !.count = (View(profile_table[t]).count + 1) % Word]
    BY <1>2 DEF View, Entry
<1> HIDE DEF t, e
<1>5. /\ t \in profile_usage => Profile' = [Profile EXCEPT ![h] = View(e)]
      /\ t \notin profile_usage => UNCHANGED Profile
    BY <1>1, <1>2, <1>3, OneEntryChanges
<1>6. CASE t \in profile_usage
    <2>1. h # 0 /\ h \in Known
        BY <1>1, <1>6 DEF TableInv, OneSlotPerHash, Known
    <2>2. Profile[h] = View(profile_table[t]) /\ DOMAIN Profile = Known
        BY <1>1, <1>6, <2>1, SlotOfHash DEF Profile
    <2> QED BY <1>4, <1>5, <1>6, <2>1, <2>2 DEF Map!Compile
<1> QED BY <1>5, <1>6

\* A new expression starts a profile, and no other loses its own.
LEMMA AllocateMaps ==
    ASSUME TableInv, TableInv', NEW h \in Hashes, Allocate(h)
    PROVE  h # 0 /\ Map!Compile(h)
<1> DEFINE t == First(SlotFor)
           e == [Empty EXCEPT !.hash = h, !.count = 1]
<1>1. t \in Free /\ t \in Slots
    BY FreeSlotIsTaken DEF Free
<1>2. h # 0
    BY ZeroMatch DEF Allocate
<1>3. /\ profile_table' = [profile_table EXCEPT ![t] = e]
      /\ profile_usage' = profile_usage \union {t}
    BY DEF Allocate
<1>4. e.hash = h /\ View(e) = Map!Fresh
    BY DEF View, Empty, Map!Fresh
<1> HIDE DEF t, e
<1>5. profile_usage \subseteq Slots /\ t \notin profile_usage
    BY <1>1 DEF TableInv, TypeOK, Free
<1>6. \A s \in Slots : profile_table'[s] = IF s = t THEN e ELSE profile_table[s]
    BY <1>3 DEF TableInv, TypeOK
<1>7. h \notin Known
    BY <1>5 DEF Allocate, Matches, Known
<1>8. Known' = Known \union {h}
    BY <1>1, <1>3, <1>4, <1>5, <1>6 DEF Known
<1>9. \A i \in Known : /\ SlotOf(i)' = SlotOf(i) /\ SlotOf(i) \in profile_usage
    <2> SUFFICES ASSUME NEW i \in Known
                 PROVE  SlotOf(i)' = SlotOf(i) /\ SlotOf(i) \in profile_usage
        OBVIOUS
    <2>1. PICK s \in profile_usage : profile_table[s].hash = i
        BY DEF Known
    <2>2. \A r \in profile_usage : profile_table[r].hash = i <=> r = s
        BY <2>1 DEF TableInv, OneSlotPerHash
    <2>3. i # h
        BY <1>7
    <2>4. \A r \in profile_usage' : profile_table'[r].hash = i <=> r = s
        <3>1. \A r \in profile_usage : r # t /\ profile_table'[r] = profile_table[r]
            BY <1>5, <1>6
        <3>2. profile_table'[t].hash = h /\ s # t
            BY <1>1, <1>4, <1>5, <1>6
        <3> QED BY <1>3, <2>2, <2>3, <3>1, <3>2
    <2> QED BY <1>3, <2>1, <2>2, <2>4 DEF SlotOf
<1>10. SlotOf(h)' = t
    <2>1. \A r \in profile_usage' : profile_table'[r].hash = h <=> r = t
        BY <1>1, <1>3, <1>4, <1>5, <1>6, <1>7 DEF Known
    <2> QED BY <1>3, <2>1 DEF SlotOf
<1>11. /\ \A i \in Known : Profile'[i] = Profile[i]
       /\ Profile'[h] = Map!Fresh
       /\ DOMAIN Profile = Known /\ DOMAIN Profile' = Known'
    BY <1>1, <1>4, <1>5, <1>6, <1>8, <1>9, <1>10 DEF Profile
<1>12. Profile' = [i \in Known \union {h} |-> IF i = h THEN Map!Fresh ELSE Profile[i]]
    BY <1>7, <1>8, <1>11 DEF Profile
<1> QED BY <1>2, <1>7, <1>11, <1>12 DEF Map!Compile

\* Recording an execution changes the profile of its expression alone.
LEMMA RecordMaps ==
    ASSUME TableInv, TableInv', NEW h \in Hashes, NEW cycles \in Cycles,
           NEW hit \in BOOLEAN, ProfileRecord(h, cycles, hit)
    PROVE  (h # 0 /\ Map!Execute(h)) \/ UNCHANGED Profile
<1> DEFINE t == First(Matches(h))
           e == Executed(profile_table[t], cycles, hit)
<1>1. t \in Slots /\ profile_table[t].hash = h
    BY FirstOf DEF ProfileRecord, Matches
<1>2. profile_table[t] \in Entry /\ e.hash = profile_table[t].hash
    BY <1>1, ExecutedType DEF TableInv, TypeOK
<1>3. profile_table' = [profile_table EXCEPT ![t] = e] /\ UNCHANGED profile_usage
    BY DEF ProfileRecord
<1>4. View(e) = Map!Executed(View(profile_table[t]), cycles, hit)
    BY <1>2 DEF View, Entry, Executed, Map!Executed, NewRate, Map!NewRate
<1> HIDE DEF t, e
<1>5. /\ t \in profile_usage => Profile' = [Profile EXCEPT ![h] = View(e)]
      /\ t \notin profile_usage => UNCHANGED Profile
    BY <1>1, <1>2, <1>3, OneEntryChanges
<1>6. CASE t \in profile_usage
    <2>1. h # 0 /\ h \in Known
        BY <1>1, <1>6 DEF TableInv, OneSlotPerHash, Known
    <2>2. Profile[h] = View(profile_table[t]) /\ DOMAIN Profile = Known
        BY <1>1, <1>6, <2>1, SlotOfHash DEF Profile
    <2> QED BY <1>4, <1>5, <1>6, <2>1, <2>2 DEF Map!Execute
<1> QED BY <1>5, <1>6
-----------------------------------------------------------------------------
(* The theorems about steps.                                               *)

LEMMA StepMaps == TableInv /\ TableInv' /\ [Next]_vars => [Map!Next]_Profile
<1> SUFFICES ASSUME TableInv, TableInv', [Next]_vars PROVE Map!Next \/ UNCHANGED Profile
    OBVIOUS
<1>1. ASSUME NEW tree \in Trees, NEW depth \in Depths, Precompile(tree, depth)
      PROVE  Map!Next \/ UNCHANGED Profile
    <2>1. Hash(tree, depth) \in Hashes
        BY HashAssumption DEF Hashes
    <2>2. Found(Hash(tree, depth)) \/ Allocate(Hash(tree, depth))
        BY <1>1 DEF Precompile
    <2> QED BY <2>1, <2>2, FoundMaps, AllocateMaps DEF Map!Next
<1>2. ASSUME NEW h \in Hashes, NEW cycles \in Cycles, NEW hit \in BOOLEAN,
             ProfileRecord(h, cycles, hit)
      PROVE  Map!Next \/ UNCHANGED Profile
    BY <1>2, RecordMaps DEF Map!Next
<1>3. ASSUME UNCHANGED <<profile_table, profile_usage>> PROVE UNCHANGED Profile
    BY <1>3 DEF Profile, Known, SlotOf
<1> QED BY <1>1, <1>2, <1>3 DEF Next, SetProfiling, vars

\* For every hash but 0 the table implements the map: no profile is lost, mixed
\* with another or changed by an operation on another.
THEOREM Implementation == Spec => ImplementsProfile
BY InitInv, StepInv, InitMaps, StepMaps, PTL DEF Spec, ImplementsProfile, Map!Spec

\* eml_is_hot_path answers what the profile says.
HotAgrees ==
    \A h \in Hashes \ {0} : IsHotPath(h) <=> h \in Known /\ Profile[h].hot = TRUE

LEMMA HotMeans == TableInv => HotAgrees
<1> SUFFICES ASSUME TableInv, NEW h \in Hashes \ {0}
             PROVE  IsHotPath(h) <=> h \in Known /\ Profile[h].hot = TRUE
    BY DEF HotAgrees
<1>1. ASSUME Matches(h) # {}
      PROVE  /\ h \in Known /\ Profile[h] = View(profile_table[First(Matches(h))])
             /\ profile_table[First(Matches(h))].hot \in BOOLEAN
    BY <1>1, OneMatch, SlotOfHash DEF Known, Profile, TableInv, TypeOK, Entry
<1>2. h \in Known => Matches(h) # {}
    BY DEF Known, Matches, TableInv, TypeOK
<1> QED BY <1>1, <1>2 DEF IsHotPath, View

ProfileEntry == [count : Nat, avg : Nat, rate : Nat, hot : BOOLEAN]

LEMMA ProfileTypes == TableInv => Profile \in [Known -> ProfileEntry]
<1> SUFFICES ASSUME TableInv, NEW h \in Known
             PROVE  View(profile_table[SlotOf(h)]) \in ProfileEntry
    BY DEF Profile
<1>1. profile_table[SlotOf(h)] \in Entry
    BY SlotOfHash DEF Known, TableInv, TypeOK
<1> QED BY <1>1, NumbersAssumption DEF View, Entry, ProfileEntry

LEMMA MapKeepsHot ==
    ASSUME Profile \in [Known -> ProfileEntry], [Map!Next]_Profile,
           NEW h \in Known, Profile[h].hot = TRUE
    PROVE  h \in DOMAIN Profile' /\ Profile'[h].hot = TRUE
<1>1. ASSUME NEW i \in Hashes \ {0}, Map!Compile(i)
      PROVE  h \in DOMAIN Profile' /\ Profile'[h].hot = TRUE
    BY <1>1 DEF Map!Compile, ProfileEntry
<1>2. ASSUME NEW i \in Hashes \ {0}, Map!Execute(i)
      PROVE  h \in DOMAIN Profile' /\ Profile'[h].hot = TRUE
    <2>1. PICK cycles \in Cycles, hit \in BOOLEAN :
             Profile' = [Profile EXCEPT ![i] = Map!Executed(Profile[i], cycles, hit)]
        BY <1>2 DEF Map!Execute
    <2>2. Profile[h].hot = TRUE => Map!Executed(Profile[h], cycles, hit).hot = TRUE
        BY DEF Map!Executed
    <2> QED BY <2>1, <2>2
<1> QED BY <1>1, <1>2 DEF Map!Next

\* A hot path is hot for good, whatever is compiled, executed or missed later.
THEOREM HotStaysHot == Spec => HotForGood
<1>1. TableInv' => HotAgrees'
    BY HotMeans, PTL
<1>2. TableInv /\ TableInv' /\ [Next]_vars =>
        [\A h \in Hashes \ {0} : IsHotPath(h) => IsHotPath(h)']_vars
    <2> SUFFICES ASSUME TableInv, TableInv', [Next]_vars, NEW h \in Hashes \ {0}, IsHotPath(h)
                 PROVE  IsHotPath(h)'
        OBVIOUS
    <2>1. h \in Known /\ Profile[h].hot = TRUE
        BY HotMeans DEF HotAgrees
    <2>2. h \in DOMAIN Profile' /\ Profile'[h].hot = TRUE
        BY <2>1, StepMaps, ProfileTypes, MapKeepsHot
    <2>3. h \in Known'
        BY <2>2 DEF Profile
    <2> QED BY <1>1, <2>2, <2>3 DEF HotAgrees
<1> QED BY <1>2, InitInv, StepInv, PTL DEF Spec, HotForGood

----------------------------------------------------------------------------
(* Temporal coding.  The types, by the part of the state they are of.      *)

ConfigTypes ==
    /\ ttfs_config \in [window_us : Windows \union {0, DefaultWindow},
                        refractory_cycles : Refractories \union {0, DefaultRefractory},
                        threshold : {0, DefaultThreshold}, leak_rate : {0, DefaultLeak}]
    /\ snn_ctrl \subseteq 0 .. 31
    /\ spike_train_buffer \in Blocks \union {NULL} /\ live \subseteq Blocks
    /\ configs \in 0 .. MaxConfigs

NeuronTypes ==
    /\ membrane_potentials \in [Neurons -> Int]
    /\ refractory_timers \in [Neurons -> 0 .. MaxSince]
    /\ temporal_windows \in [Neurons -> Nat]
    /\ thresholds \in [Neurons -> {0, DefaultThreshold}]
    /\ since \in [Neurons -> 0 .. MaxSince] /\ gap \in [Neurons -> 0 .. MaxSince]
    /\ lost \in [Neurons -> Nat]

EncoderTypes ==
    /\ refractory_timer \in 0 .. MaxSince /\ window_timer \in Nat
    /\ membrane_potential \in Nat /\ quiet \in Nat /\ deaf \in Nat
    /\ index \in 0 .. 2 * Pairs /\ encoded_output \in Seq(0 .. TimeCodes - 1)
    /\ index % 2 = 0 /\ output_size \in Nat

Typed == ConfigTypes /\ NeuronTypes /\ EncoderTypes /\ weight \in Weights

\* What a configuration says in numbers.
LEMMA ConfigNumbers ==
    ASSUME ConfigTypes
    PROVE  /\ ttfs_config.refractory_cycles \in 0 .. MaxSince
           /\ ttfs_config.threshold \in 0 .. One - 1 /\ ttfs_config.leak_rate \in 0 .. One
           /\ WindowCycles \in Nat /\ WindowCycles <= Word32
           /\ MaxSince \in Nat
<1>1. /\ MaxSince \in Nat
      /\ \A r \in Refractories \union {DefaultRefractory} : r \in Nat /\ r <= MaxSince
  BY ConfigAssumption, CallsAssumption
<1>2. ttfs_config.refractory_cycles \in 0 .. MaxSince BY <1>1 DEF ConfigTypes
<1>3. /\ ttfs_config.threshold \in 0 .. One - 1 /\ ttfs_config.leak_rate \in 0 .. One
  BY ConfigAssumption DEF ConfigTypes, One
<1>4. WindowCycles \in Nat /\ WindowCycles <= Word32
  <2> DEFINE product == ttfs_config.window_us * FreqMHz
  <2>1. product \in Nat
    <3>1. FreqMHz \in Nat /\ Windows \union {0, DefaultWindow} \subseteq Nat
      BY ConfigAssumption
    <3>2. ttfs_config.window_us \in Windows \union {0, DefaultWindow} BY DEF ConfigTypes
    <3> QED BY <3>1, <3>2
  <2>2. product % Word32 \in 0 .. Word32 - 1 BY <2>1, ConfigAssumption
  <2> HIDE DEF product
  <2>3. ASSUME NEW n \in Nat, NEW m \in Nat \ {0} PROVE n \div m \in Nat /\ n \div m <= n
    <3>1. n = m * (n \div m) + (n % m) /\ n % m \in 0 .. m - 1 /\ n \div m \in Nat OBVIOUS
    <3>2. m * (n \div m) >= n \div m BY <3>1
    <3> QED BY <3>1, <3>2
  <2> QED BY <2>2, <2>3, ConfigAssumption DEF WindowCycles, product
<1> QED BY <1>1, <1>2, <1>3, <1>4

\* The leak takes a part of a potential and never its sign.
LEMMA LeakyTypes ==
    ASSUME ConfigTypes
    PROVE  /\ \A p \in Int : Leaky(p) \in Int
           /\ \A p \in Nat : Leaky(p) \in Nat
<1>1. One - ttfs_config.leak_rate \in Nat BY ConfigNumbers DEF One
<1>2. ASSUME NEW p \in Int PROVE p * (One - ttfs_config.leak_rate) \in Int BY <1>1
<1>3. ASSUME NEW p \in Nat PROVE p * (One - ttfs_config.leak_rate) \in Nat BY <1>1
<1> HIDE DEF One
<1>4. One \in Nat \ {0} BY DEF One
<1> QED BY <1>2, <1>3, <1>4 DEF Leaky

\* The bits of the two fields that software writes.
LEMMA FieldBits ==
    ASSUME NEW v \in Nat
    PROVE  Field(8, 3, v) \subseteq 8 .. 10 /\ Field(12, 4, v) \subseteq 12 .. 15
BY DEF Field

----------------------------------------------------------------------------
(* Every call leaves the types alone.                                      *)

ConfigCall ==
    \/ \E us \in Windows, cycles \in Refractories : TtfsConfig(us, cycles)
    \/ \E p \in Policies : ConfigureStdp(p)
    \/ InitTemporalCoding
    \/ DeinitTemporalCoding

LEMMA ConfigCallTypes ==
    ASSUME ConfigTypes, ConfigCall
    PROVE  ConfigTypes' /\ configs' = configs + 1
<1>1. configs' = configs + 1 /\ configs' \in 0 .. MaxConfigs
  <2>1. Counted
    BY Zenon DEF ConfigCall, TtfsConfig, ConfigureStdp, InitTemporalCoding,
                 DeinitTemporalCoding
  <2> QED BY <2>1, ConfigAssumption DEF Counted, ConfigTypes
<1>2. ASSUME NEW us \in Windows, NEW cycles \in Refractories, TtfsConfig(us, cycles)
      PROVE  ConfigTypes'
  <2>1. Field(8, 3, us \div 100) \subseteq 0 .. 31
    <3>1. us \div 100 \in Nat BY ConfigAssumption
    <3> QED BY <3>1, FieldBits
  <2>2. snn_ctrl' \subseteq 0 .. 31 BY <1>2, <2>1 DEF TtfsConfig, WindowWritten, ConfigTypes
  <2> QED BY <1>1, <1>2, <2>2 DEF TtfsConfig, ConfigTypes
<1>3. ASSUME NEW p \in Policies, ConfigureStdp(p) PROVE ConfigTypes'
  <2>1. Field(12, 4, p) \subseteq 0 .. 31
    <3>1. p \in Nat BY ConfigAssumption
    <3> QED BY <3>1, FieldBits
  <2>2. snn_ctrl' \subseteq 0 .. 31
    BY <1>3, <2>1 DEF ConfigureStdp, PolicyWritten, ConfigTypes
  <2> QED BY <1>1, <1>3, <2>2 DEF ConfigureStdp, ConfigTypes
<1>4. CASE InitTemporalCoding BY <1>1, <1>4 DEF InitTemporalCoding, ConfigTypes
<1>5. CASE DeinitTemporalCoding
  BY <1>1, <1>5 DEF DeinitTemporalCoding, AfterFree, ConfigAfterFree, ConfigTypes
<1> QED BY <1>1, <1>2, <1>3, <1>4, <1>5 DEF ConfigCall

LEMMA CycleTypes ==
    ASSUME ConfigTypes, NeuronTypes, NEW n \in Neurons, NEW current \in Currents,
           ProcessTemporalCycle(n, current)
    PROVE  NeuronTypes' /\ UNCHANGED configVars
<1>1. MaxSince \in Nat /\ ttfs_config.refractory_cycles \in 0 .. MaxSince
  BY ConfigNumbers
<1>2. thresholds' \in [Neurons -> {0, DefaultThreshold}]
  <2>1. Threshold(n) \in {0, DefaultThreshold} BY DEF Threshold, NeuronTypes, ConfigTypes
  <2> QED BY <2>1 DEF ProcessTemporalCycle, NeuronTypes
<1>3. \A k \in 0 .. MaxSince : Older(k) \in 0 .. MaxSince BY <1>1 DEF Older
<1>4. \A w \in Nat : NextWindow(w) \in Nat BY DEF NextWindow
<1>5. CASE Rest(n)
  <2>1. refractory_timers[n] - 1 \in 0 .. MaxSince BY <1>1, <1>5 DEF Rest, NeuronTypes
  <2> QED BY <1>1, <1>2, <1>3, <1>5, <2>1 DEF Rest, NeuronTypes, ProcessTemporalCycle
<1>6. CASE Spike(n, current)
  <2>1. NextWindow(WindowCycles + 1) \in Nat BY <1>4, ConfigNumbers
  <2>2. 0 \in 0 .. MaxSince BY <1>1
  <2> QED BY <1>1, <1>2, <1>6, <2>1, <2>2
          DEF Spike, RefractoryLoaded, NeuronTypes, ProcessTemporalCycle
<1>7. CASE Integrate(n, current)
  <2>1. Potential(n, current) \in Int
    <3>1. Leaky(membrane_potentials[n]) \in Int BY LeakyTypes DEF NeuronTypes
    <3>2. current \in Int BY CallsAssumption
    <3> QED BY <3>1, <3>2 DEF Potential
  <2>2. NextWindow(temporal_windows[n] + 1) \in Nat BY <1>4 DEF NeuronTypes
  <2> QED BY <1>2, <1>3, <1>7, <2>1, <2>2 DEF Integrate, NeuronTypes, ProcessTemporalCycle
<1> QED BY <1>5, <1>6, <1>7 DEF ProcessTemporalCycle

LEMMA EncodeTypes ==
    ASSUME ConfigTypes, EncoderTypes, Encode
    PROVE  EncoderTypes' /\ UNCHANGED configVars
<1>0. Pairs \in Nat /\ TimeCodes \in Nat \ {0} /\ Magnitudes \subseteq Nat
      /\ OutputSizes \subseteq Nat
  BY SamplesAssumption
<1>1. MaxSince \in Nat /\ ttfs_config.refractory_cycles \in 0 .. MaxSince
      /\ WindowCycles \in Nat
  BY ConfigNumbers
<1>2. ASSUME NEW size \in OutputSizes, BeginEncode(size) PROVE EncoderTypes'
  BY <1>0, <1>1, <1>2 DEF BeginEncode, EncoderTypes
<1>3. ASSUME NEW m \in Magnitudes, EncodeTurn(m) PROVE EncoderTypes'
  <2>1. index' \in 0 .. 2 * Pairs /\ index' % 2 = 0
    BY <1>0, <1>3 DEF EncodeTurn, More, EncoderTypes
  <2>2. output_size' \in Nat BY <1>3 DEF EncodeTurn, EncoderTypes
  <2>3. Charged(m) \in Nat
    <3>1. Leaky(membrane_potential) \in Nat BY LeakyTypes DEF EncoderTypes
    <3> QED BY <1>0, <3>1 DEF Charged
  <2>4. \A w \in Nat : WindowAt(w) \in Nat BY DEF WindowAt
  <2>5. \A k \in 0 .. MaxSince : Sooner(k) \in 0 .. MaxSince BY <1>1 DEF Sooner
  <2>6. CASE Crosses(m)
    <3>1. index % TimeCodes \in 0 .. TimeCodes - 1 BY <1>0 DEF EncoderTypes
    <3>2. /\ encoded_output' = Append(encoded_output, index % TimeCodes)
          /\ refractory_timer' = RestAfter /\ membrane_potential' = 0
          /\ window_timer' = WindowAt(WindowCycles) /\ quiet' = 0 /\ deaf' = deaf
      BY <1>3, <2>6, Zenon DEF EncodeTurn
    <3>3. encoded_output' \in Seq(0 .. TimeCodes - 1)
      BY <3>1, <3>2 DEF EncoderTypes
    <3>4. refractory_timer' \in 0 .. MaxSince BY <1>1, <2>5, <3>2 DEF RestAfter
    <3> QED BY <1>1, <2>1, <2>2, <2>4, <3>2, <3>3, <3>4 DEF EncoderTypes
  <2>7. CASE ~Crosses(m)
    <3>1. /\ encoded_output' = encoded_output
          /\ refractory_timer' = Sooner(refractory_timer)
          /\ membrane_potential' \in {0, Charged(m), membrane_potential}
          /\ window_timer' = WindowAt(window_timer) /\ quiet' = quiet + 1
          /\ deaf' \in {deaf, deaf + 1}
      BY <1>3, <2>7 DEF EncodeTurn
    <3>2. refractory_timer' \in 0 .. MaxSince /\ window_timer' \in Nat
      BY <2>4, <2>5, <3>1 DEF EncoderTypes
    <3>3. membrane_potential' \in Nat /\ quiet' \in Nat /\ deaf' \in Nat
      BY <2>3, <3>1 DEF EncoderTypes
    <3>4. encoded_output' \in Seq(0 .. TimeCodes - 1) BY <3>1 DEF EncoderTypes
    <3> QED BY <2>1, <2>2, <3>2, <3>3, <3>4 DEF EncoderTypes
  <2> QED BY <2>6, <2>7
<1>4. CASE EndEncode BY <1>4 DEF EndEncode, EncoderTypes
<1> QED BY <1>2, <1>3, <1>4 DEF Encode, BeginEncode, EncodeTurn, EndEncode

\* A weight stays a weight and moves the way of the rule.
LEMMA LearnedMoves ==
    ASSUME NEW w \in Weights, NEW s \in Times, NEW t \in Times, NEW v \in Learned(w, s, t)
    PROVE  /\ v \in Weights
           /\ s < t => v >= w
           /\ t < s /\ w >= -WeightMax => v <= w
           /\ 2 * Apart(s, t) < Word32 => Apart(w, v) <= 1
<1>0. WeightMax \in Nat \ {0} /\ s \in Nat /\ t \in Nat /\ Word32 \in Nat /\ w \in Int
      /\ -(WeightMax + 1) <= w /\ w <= WeightMax /\ Reach \in Nat
  BY TimesAssumption, ConfigAssumption DEF Weights
<1>1. Apart(s, t) \in Nat BY <1>0 DEF Apart
<1>2. \A x \in {Clip(w), Clip(StepUp(w)), Clip(StepDown(w))} :
         x \in -WeightMax .. WeightMax /\ Apart(w, x) <= 1
  BY <1>0 DEF Clip, StepUp, StepDown, Apart
<1>3. Clip(w) >= w /\ Clip(StepUp(w)) >= w
  BY <1>0 DEF Clip, StepUp
<1>4. w >= -WeightMax => Clip(w) <= w /\ Clip(StepDown(w)) <= w
  BY <1>0 DEF Clip, StepDown
<1> DEFINE d == Apart(s, t)
<1>5. CASE s = 0 \/ t = 0
  <2>1. v = w BY <1>5 DEF Learned
  <2> QED BY <1>0, <2>1 DEF Apart
<1>6. CASE ~(s = 0 \/ t = 0) /\ 2 * d >= Word32
  <2>1. v \in IF s < t THEN Clip(StepUp(w)) .. WeightMax
                       ELSE -WeightMax .. Clip(StepDown(w))
    BY <1>6 DEF Learned, Exploded
  <2> QED BY <1>0, <1>1, <1>2, <1>3, <1>4, <1>6, <2>1 DEF Weights
<1>7. CASE ~(s = 0 \/ t = 0) /\ ~(2 * d >= Word32)
  <2>1. v = Clip(w) \/ v = Clip(IF s < t THEN StepUp(w) ELSE StepDown(w))
    BY <1>7 DEF Learned
  <2> QED BY <1>0, <1>2, <1>3, <1>4, <2>1 DEF Weights
<1> QED BY <1>5, <1>6, <1>7

----------------------------------------------------------------------------
\* Whose variables a step changes: the configuration's, while no encoding runs, a
\* neuron's, the encoder's or a weight.
StepKind ==
    \/ /\ ConfigCall /\ UNCHANGED <<neuronVars, encoderVars, stdpVars>>
       /\ UNCHANGED ttfs_config \/ ~running
    \/ /\ \E n \in Neurons, current \in Currents : ProcessTemporalCycle(n, current)
       /\ UNCHANGED <<history, encoderVars, stdpVars>>
    \/ Encode
    \/ /\ \E s, t \in Times : ApplyStdpLearning(s, t)
       /\ UNCHANGED <<history, configVars, neuronVars, encoderVars>>
    \/ UNCHANGED <<history, configVars, neuronVars, encoderVars, stdpVars>>

LEMMA Steps == ASSUME [CodingNext]_codingVars PROVE StepKind
<1>1. ASSUME NEW us \in Windows, NEW cycles \in Refractories, SetWindow(us, cycles)
      PROVE  StepKind
  BY <1>1 DEF SetWindow, StepKind, ConfigCall
<1>2. ASSUME NEW p \in Policies, SetPolicy(p) PROVE StepKind
  BY <1>2 DEF SetPolicy, ConfigureStdp, StepKind, ConfigCall
<1>3. CASE OpenOrClose BY <1>3 DEF OpenOrClose, StepKind, ConfigCall
<1>4. ASSUME NEW n \in Neurons, NEW current \in Currents, Cycle(n, current)
      PROVE  StepKind
  BY <1>4 DEF Cycle, StepKind
<1>5. CASE Encode BY <1>5 DEF StepKind
<1>6. ASSUME NEW s \in Times, NEW t \in Times, Learn(s, t) PROVE StepKind
  BY <1>6 DEF Learn, StepKind
<1>7. CASE UNCHANGED codingVars BY <1>7 DEF codingVars, StepKind
<1> QED BY <1>1, <1>2, <1>3, <1>4, <1>5, <1>6, <1>7 DEF CodingNext

LEMMA InitTyped == ASSUME CodingInit PROVE Typed
<1>1. ConfigTypes BY ConfigAssumption DEF CodingInit, ConfigInit, ConfigTypes
<1>2. NeuronTypes BY CallsAssumption DEF CodingInit, NeuronInit, NeuronTypes
<1>3. EncoderTypes
  BY SamplesAssumption, CallsAssumption DEF CodingInit, EncoderInit, EncoderTypes
<1>4. weight \in Weights BY DEF CodingInit, StdpInit
<1> QED BY <1>1, <1>2, <1>3, <1>4 DEF Typed

LEMMA StepTyped == ASSUME Typed, [CodingNext]_codingVars PROVE Typed'
<1> USE DEF Typed
<1>1. ASSUME UNCHANGED configVars PROVE ConfigTypes'
  BY <1>1 DEF configVars, ConfigTypes
<1>2. ASSUME UNCHANGED neuronVars PROVE NeuronTypes'
  BY <1>2 DEF neuronVars, NeuronTypes
<1>3. ASSUME UNCHANGED encoderVars PROVE EncoderTypes'
  BY <1>3 DEF encoderVars, EncoderTypes
<1>4. ASSUME UNCHANGED stdpVars PROVE weight' \in Weights
  BY <1>4 DEF stdpVars, Weights
<1>5. CASE ConfigCall /\ UNCHANGED <<neuronVars, encoderVars, stdpVars>>
  BY <1>2, <1>3, <1>4, <1>5, ConfigCallTypes
<1>6. ASSUME NEW n \in Neurons, NEW current \in Currents,
             ProcessTemporalCycle(n, current), UNCHANGED <<encoderVars, stdpVars>>
      PROVE  Typed'
  BY <1>1, <1>3, <1>4, <1>6, CycleTypes
<1>7. CASE Encode
  <2>1. UNCHANGED neuronVars /\ UNCHANGED stdpVars BY <1>7 DEF Encode
  <2> QED BY <1>1, <1>2, <1>4, <1>7, <2>1, EncodeTypes
<1>8. ASSUME NEW s \in Times, NEW t \in Times, ApplyStdpLearning(s, t),
             UNCHANGED <<configVars, neuronVars, encoderVars>>
      PROVE  Typed'
  <2>1. weight' \in Weights BY <1>8, LearnedMoves DEF ApplyStdpLearning, Weights
  <2> QED BY <1>1, <1>2, <1>3, <1>8, <2>1
<1>9. CASE UNCHANGED <<configVars, neuronVars, encoderVars, stdpVars>>
  BY <1>1, <1>2, <1>3, <1>4, <1>9
<1> QED BY <1>5, <1>6, <1>7, <1>8, <1>9, Steps DEF StepKind

LEMMA CodingTypes == CodingSpec => []Typed
BY InitTyped, StepTyped, PTL DEF CodingSpec

----------------------------------------------------------------------------
(* Learning.                                                               *)

\* A weight moves the way of its rule, whatever the distance of the spikes.
THEOREM LearningCorrect == CodingSpec => LearnsInDirection
<1> DEFINE Directed ==
      /\ pre' < post' => weight' >= weight
      /\ post' < pre' /\ weight >= -WeightMax => weight' <= weight
      /\ 2 * Apart(pre', post') < Word32 => Apart(weight, weight') <= 1
<1>1. ASSUME Typed, [CodingNext]_codingVars PROVE Directed
  <2>1. weight \in Weights /\ weight \in Int
    BY <1>1, TimesAssumption DEF Typed, Weights
  <2>2. ASSUME NEW s \in Times, NEW t \in Times, ApplyStdpLearning(s, t)
        PROVE  Directed
    BY <2>1, <2>2, LearnedMoves DEF ApplyStdpLearning
  <2>3. ASSUME weight' = weight PROVE Directed
    BY <2>1, <2>3 DEF Apart
  <2>4. \/ \E s, t \in Times : ApplyStdpLearning(s, t)
        \/ weight' = weight
    BY <1>1, Steps DEF StepKind, stdpVars, Encode
  <2> QED BY <2>2, <2>3, <2>4
<1>2. Typed /\ [CodingNext]_codingVars => [Directed]_codingVars BY <1>1
<1> HIDE DEF Directed
<1>3. CodingSpec => [][Directed]_codingVars BY <1>2, CodingTypes, PTL DEF CodingSpec
<1> QED BY <1>3 DEF LearnsInDirection, Directed

----------------------------------------------------------------------------
(* Neurons.  The rest that a neuron still has ahead and the calls since    *)
(* its spike make up the period it was given; and a window counter that a  *)
(* configuration has left past the window costs one spike, which that      *)
(* configuration pays for.                                                 *)

Paced == \A n \in Neurons : gap[n] <= since[n] + refractory_timers[n]

Windowed ==
    \A n \in Neurons :
        /\ lost[n] <= configs
        /\ WindowCycles > 0 /\ temporal_windows[n] >= WindowCycles => lost[n] + 1 <= configs

LEMMA CyclePaced ==
    ASSUME ConfigTypes, NeuronTypes, Paced, NEW n \in Neurons, NEW current,
           ProcessTemporalCycle(n, current)
    PROVE  /\ Paced'
           /\ \A k \in Neurons : since[k] # 0 /\ since'[k] = 0 => since[k] >= gap[k]
<1> USE DEF NeuronTypes
<1>1. MaxSince \in Nat /\ ttfs_config.refractory_cycles \in 0 .. MaxSince
  BY ConfigNumbers
<1>2. \A k \in 0 .. MaxSince : /\ Older(k) \in 0 .. MaxSince
                               /\ Older(k) = k + 1 \/ (k = MaxSince /\ Older(k) = k)
                               /\ Older(k) = 0 => k = 0
  <2> SUFFICES ASSUME NEW k \in 0 .. MaxSince
               PROVE  /\ Older(k) \in 0 .. MaxSince
                      /\ Older(k) = k + 1 \/ (k = MaxSince /\ Older(k) = k)
                      /\ Older(k) = 0 => k = 0
    OBVIOUS
  <2>1. CASE k < MaxSince BY <1>1, <2>1 DEF Older
  <2>2. CASE ~(k < MaxSince) BY <1>1, <2>2 DEF Older
  <2> QED BY <2>1, <2>2
<1>3. \A k \in Neurons : /\ since[k] \in 0 .. MaxSince /\ gap[k] \in 0 .. MaxSince
                         /\ refractory_timers[k] \in 0 .. MaxSince
                         /\ gap[k] <= since[k] + refractory_timers[k]
  BY DEF Paced
<1>4. CASE Rest(n)
  <2>1. /\ since' = [since EXCEPT ![n] = Older(since[n])] /\ gap' = gap
        /\ refractory_timers' = [refractory_timers EXCEPT ![n] = refractory_timers[n] - 1]
        /\ refractory_timers[n] > 0
    BY <1>4 DEF Rest
  <2>2. ASSUME NEW k \in Neurons
        PROVE  /\ gap'[k] <= since'[k] + refractory_timers'[k]
               /\ since'[k] = 0 => since[k] = 0
    <3>1. CASE k = n BY <1>1, <1>2, <1>3, <2>1, <3>1
    <3>2. CASE k # n BY <1>3, <2>1, <3>2
    <3> QED BY <3>1, <3>2
  <2> QED BY <2>2 DEF Paced
<1>5. CASE Spike(n, current)
  <2>1. /\ since' = [since EXCEPT ![n] = 0] /\ refractory_timers[n] = 0
        /\ gap' = [gap EXCEPT ![n] = ttfs_config.refractory_cycles]
        /\ refractory_timers' =
              [refractory_timers EXCEPT ![n] = ttfs_config.refractory_cycles]
    BY <1>5 DEF Spike, RefractoryLoaded
  <2>2. ASSUME NEW k \in Neurons
        PROVE  /\ gap'[k] <= since'[k] + refractory_timers'[k]
               /\ since[k] # 0 /\ since'[k] = 0 => since[k] >= gap[k]
    <3>1. CASE k = n BY <1>1, <1>3, <2>1, <3>1
    <3>2. CASE k # n BY <1>3, <2>1, <3>2
    <3> QED BY <3>1, <3>2
  <2> QED BY <2>2 DEF Paced
<1>6. CASE Integrate(n, current)
  <2>1. /\ since' = [since EXCEPT ![n] = Older(since[n])] /\ gap' = gap
        /\ refractory_timers' = refractory_timers /\ refractory_timers[n] = 0
    BY <1>6 DEF Integrate
  <2>2. ASSUME NEW k \in Neurons
        PROVE  /\ gap'[k] <= since'[k] + refractory_timers'[k]
               /\ since'[k] = 0 => since[k] = 0
    <3>1. CASE k = n BY <1>1, <1>2, <1>3, <2>1, <3>1
    <3>2. CASE k # n BY <1>3, <2>1, <3>2
    <3> QED BY <3>1, <3>2
  <2> QED BY <2>2 DEF Paced
<1> QED BY <1>4, <1>5, <1>6 DEF ProcessTemporalCycle

LEMMA CycleWindowed ==
    ASSUME ConfigTypes, NeuronTypes, Windowed, NEW n \in Neurons, NEW current \in Currents,
           ProcessTemporalCycle(n, current)
    PROVE  Windowed'
<1> USE DEF NeuronTypes
<1>1. WindowCycles \in Nat /\ configs \in Nat
  BY ConfigNumbers, ConfigAssumption DEF ConfigTypes
<1>2. WindowCycles' = WindowCycles /\ configs' = configs
  BY DEF ProcessTemporalCycle, configVars, WindowCycles
<1>3. \A w \in Nat : NextWindow(w) \in Nat /\ (WindowCycles > 0 => NextWindow(w) < WindowCycles)
  BY <1>1 DEF NextWindow
<1>4. \A k \in Neurons : /\ lost[k] \in Nat /\ temporal_windows[k] \in Nat /\ lost[k] <= configs
                         /\ WindowCycles > 0 /\ temporal_windows[k] >= WindowCycles
                               => lost[k] + 1 <= configs
  BY DEF Windowed
<1>5. CASE Rest(n) BY <1>2, <1>4, <1>5 DEF Rest, Windowed
<1>6. CASE Spike(n, current)
  <2>1. /\ temporal_windows' = [temporal_windows EXCEPT ![n] = NextWindow(WindowCycles + 1)]
        /\ lost' = lost
    BY <1>6 DEF Spike
  <2>2. ASSUME NEW k \in Neurons
        PROVE  /\ lost'[k] <= configs
               /\ WindowCycles > 0 /\ temporal_windows'[k] >= WindowCycles
                     => lost'[k] + 1 <= configs
    <3>1. CASE k = n
      <4>1. temporal_windows'[k] = NextWindow(WindowCycles + 1) BY <2>1, <3>1
      <4>2. WindowCycles > 0 => temporal_windows'[k] < WindowCycles BY <1>1, <1>3, <4>1
      <4>3. temporal_windows'[k] \in Nat BY <1>1, <1>3, <4>1
      <4> QED BY <1>1, <1>4, <2>1, <4>2, <4>3
    <3>2. CASE k # n BY <1>4, <2>1, <3>2
    <3> QED BY <3>1, <3>2
  <2> QED BY <1>2, <2>2 DEF Windowed
<1>7. CASE Integrate(n, current)
  <2>1. /\ temporal_windows' =
              [temporal_windows EXCEPT ![n] = NextWindow(temporal_windows[n] + 1)]
        /\ lost' = [lost EXCEPT ![n] = IF Strong(n, current) THEN lost[n] + 1 ELSE lost[n]]
        /\ ~Fires(n, current)
    BY <1>7 DEF Integrate
  <2>2. Strong(n, current) => WindowCycles > 0 /\ temporal_windows[n] >= WindowCycles
    <3>1. SUFFICES ASSUME Strong(n, current), temporal_windows[n] < WindowCycles PROVE FALSE
      BY <1>1, <1>4 DEF Strong
    <3>2. Leaky(membrane_potentials[n]) \in Nat
      <4>1. membrane_potentials[n] \in Nat BY <3>1 DEF Strong
      <4> QED BY <4>1, LeakyTypes
    <3>3. current \in Int /\ Threshold(n) \in Int
      BY CallsAssumption, ConfigAssumption, ConfigNumbers DEF Threshold, One
    <3>4. current >= Threshold(n) BY <3>1 DEF Strong
    <3>5. Potential(n, current) >= Threshold(n) BY <3>2, <3>3, <3>4 DEF Potential
    <3> QED BY <2>1, <3>1, <3>5 DEF Fires
  <2>3. ASSUME NEW k \in Neurons
        PROVE  /\ lost'[k] <= configs
               /\ WindowCycles > 0 /\ temporal_windows'[k] >= WindowCycles
                     => lost'[k] + 1 <= configs
    <3>1. CASE k = n
      <4>1. temporal_windows'[k] = NextWindow(temporal_windows[n] + 1) BY <2>1, <3>1
      <4>2. temporal_windows'[k] \in Nat
            /\ (WindowCycles > 0 => temporal_windows'[k] < WindowCycles)
        BY <1>3, <1>4, <4>1
      <4>3. lost'[k] <= configs BY <1>1, <1>4, <2>1, <2>2, <3>1
      <4> QED BY <1>1, <4>2, <4>3
    <3>2. CASE k # n BY <1>4, <2>1, <3>2
    <3> QED BY <3>1, <3>2
  <2> QED BY <1>2, <2>3 DEF Windowed
<1> QED BY <1>5, <1>6, <1>7 DEF ProcessTemporalCycle

LEMMA NeuronsKept ==
    ASSUME Typed, Paced, Windowed, [CodingNext]_codingVars
    PROVE  /\ Paced' /\ Windowed'
           /\ \A k \in Neurons : since[k] # 0 /\ since'[k] = 0 => since[k] >= gap[k]
<1> USE DEF Typed
<1>1. ASSUME UNCHANGED neuronVars
      PROVE  /\ Paced'
             /\ \A k \in Neurons : since[k] # 0 /\ since'[k] = 0 => since[k] >= gap[k]
  BY <1>1 DEF neuronVars, Paced
<1>2. ASSUME UNCHANGED neuronVars, UNCHANGED configVars PROVE Windowed'
  BY <1>2 DEF neuronVars, configVars, Windowed, WindowCycles
<1>3. CASE ConfigCall /\ UNCHANGED <<neuronVars, encoderVars, stdpVars>>
  <2>1. configs' = configs + 1 BY <1>3, ConfigCallTypes
  <2>2. UNCHANGED neuronVars BY <1>3
  <2>3. \A k \in Neurons : lost'[k] = lost[k] /\ lost[k] \in Nat /\ lost[k] <= configs
    BY <2>2 DEF neuronVars, NeuronTypes, Windowed
  <2>4. configs \in Nat BY ConfigAssumption DEF ConfigTypes
  <2> QED BY <1>1, <2>1, <2>2, <2>3, <2>4 DEF Windowed
<1>4. ASSUME NEW n \in Neurons, NEW current \in Currents, ProcessTemporalCycle(n, current)
      PROVE  /\ Paced' /\ Windowed'
             /\ \A k \in Neurons : since[k] # 0 /\ since'[k] = 0 => since[k] >= gap[k]
  BY <1>4, CyclePaced, CycleWindowed
<1>5. CASE Encode
  <2>1. UNCHANGED neuronVars /\ UNCHANGED configVars BY <1>5, EncodeTypes DEF Encode
  <2> QED BY <1>1, <1>2, <2>1
<1>6. CASE UNCHANGED <<configVars, neuronVars, encoderVars>>
  BY <1>1, <1>2, <1>6
<1> QED BY <1>3, <1>4, <1>5, <1>6, Steps DEF StepKind

LEMMA InitNeurons == ASSUME CodingInit PROVE Paced /\ Windowed
<1>1. MaxSince \in Nat BY CallsAssumption
<1>2. Paced BY <1>1 DEF CodingInit, NeuronInit, Paced
<1>3. WindowCycles = 0
  <2>1. ttfs_config.window_us = 0 BY DEF CodingInit, ConfigInit
  <2>2. FreqMHz \in Nat /\ Word32 \in Nat \ {0} /\ Micro \in Nat \ {0} BY ConfigAssumption
  <2>3. 0 * FreqMHz = 0 /\ 0 % Word32 = 0 /\ 0 \div Micro = 0 BY <2>2
  <2> QED BY <2>1, <2>3 DEF WindowCycles
<1>4. Windowed BY <1>3 DEF CodingInit, NeuronInit, ConfigInit, Windowed
<1> QED BY <1>2, <1>4

\* A strong input to a neuron at rest is missed at most once per configuration.
THEOREM LostCorrect == CodingSpec => []OneLostPerChange
<1>1. Windowed => OneLostPerChange BY DEF Windowed, OneLostPerChange
<1> QED BY <1>1, InitNeurons, NeuronsKept, CodingTypes, PTL DEF CodingSpec

----------------------------------------------------------------------------
(* The encoder.  Its window counter goes from 0 to WindowCycles and back,  *)
(* and only in the turn at its end is it deaf.                             *)

Encoding ==
    running =>
        /\ quiet + 1 + refractory_timer >= ttfs_config.refractory_cycles
        /\ window_timer <= WindowCycles
        /\ deaf * (WindowCycles + 1) + window_timer <= index \div 2

LEMMA TurnEncoding ==
    ASSUME ConfigTypes, EncoderTypes, Encoding, NEW m \in Magnitudes, EncodeTurn(m)
    PROVE  /\ Encoding'
           /\ quiet' = 0 => quiet + 1 >= ttfs_config.refractory_cycles
<1> USE DEF EncoderTypes
<1> DEFINE W == WindowCycles
           R == ttfs_config.refractory_cycles
<1>1. W \in Nat /\ R \in Nat /\ MaxSince \in Nat /\ m \in Nat
  BY ConfigNumbers, SamplesAssumption
<1>2. UNCHANGED configVars /\ running /\ index' = index + 2
  BY DEF EncodeTurn
<1>3. WindowCycles' = W /\ ttfs_config'.refractory_cycles = R
  BY <1>2 DEF configVars, WindowCycles
<1>4. /\ quiet + 1 + refractory_timer >= R /\ window_timer <= W
      /\ deaf * (W + 1) + window_timer <= index \div 2
  BY <1>2 DEF Encoding
<1>5. index' \div 2 = (index \div 2) + 1 /\ index \div 2 \in Nat
  BY <1>2, SamplesAssumption
<1>6. deaf * (W + 1) \in Nat /\ (deaf + 1) * (W + 1) = deaf * (W + 1) + W + 1
  BY <1>1
<1> HIDE DEF W, R
<1>7. CASE Crosses(m)
  <2>1. /\ refractory_timer' = RestAfter /\ window_timer' = WindowAt(W)
        /\ quiet' = 0 /\ deaf' = deaf /\ refractory_timer = 0
    BY <1>7, Zenon DEF EncodeTurn, Crosses, W
  <2>2. refractory_timer' = IF R > 0 THEN R - 1 ELSE 0 BY <2>1 DEF RestAfter, Sooner, R
  <2>3. window_timer' = 0 BY <1>1, <2>1 DEF WindowAt, W
  <2>4. quiet' + 1 + refractory_timer' >= R BY <1>1, <2>1, <2>2
  <2>5. deaf' * (W + 1) + window_timer' <= index' \div 2
    BY <1>4, <1>5, <1>6, <2>1, <2>3
  <2>6. quiet + 1 >= R BY <1>4, <2>1
  <2>7. window_timer' <= W BY <1>1, <2>3
  <2> QED BY <1>3, <2>4, <2>5, <2>6, <2>7 DEF Encoding, W, R
<1>8. CASE ~Crosses(m)
  <2>1. /\ refractory_timer' = (IF refractory_timer > 0 THEN refractory_timer - 1 ELSE 0)
        /\ window_timer' = (IF window_timer >= W THEN 0 ELSE window_timer + 1)
        /\ quiet' = quiet + 1
    BY <1>8 DEF EncodeTurn, Sooner, WindowAt, W
  <2>2. quiet' + 1 + refractory_timer' >= R /\ quiet' # 0
    BY <1>1, <1>4, <2>1
  <2>3. window_timer' <= W BY <1>1, <1>4, <2>1
  <2>4. CASE refractory_timer = 0 /\ m >= ttfs_config.threshold
    <3>1. deaf' = deaf + 1 BY <1>8, <2>4 DEF EncodeTurn
    <3>2. window_timer >= W
      <4>1. Leaky(membrane_potential) \in Nat BY LeakyTypes
      <4>2. ttfs_config.threshold \in Int BY ConfigNumbers DEF One
      <4>3. Charged(m) >= ttfs_config.threshold BY <1>1, <2>4, <4>1, <4>2 DEF Charged
      <4> QED BY <1>1, <1>8, <2>4, <4>3 DEF Crosses, W
    <3>3. window_timer = W /\ window_timer' = 0 BY <1>1, <1>4, <2>1, <3>2
    <3>4. deaf' * (W + 1) + window_timer' <= index' \div 2
      BY <1>1, <1>4, <1>5, <1>6, <3>1, <3>3
    <3> QED BY <1>3, <2>2, <2>3, <3>4 DEF Encoding, W, R
  <2>5. CASE ~(refractory_timer = 0 /\ m >= ttfs_config.threshold)
    <3>1. deaf' = deaf BY <1>8, <2>5 DEF EncodeTurn
    <3>2. deaf' * (W + 1) + window_timer' <= index' \div 2
      BY <1>1, <1>4, <1>5, <1>6, <2>1, <3>1
    <3> QED BY <1>3, <2>2, <2>3, <3>2 DEF Encoding, W, R
  <2> QED BY <2>4, <2>5
<1> QED BY <1>7, <1>8 DEF R

LEMMA EncoderKept ==
    ASSUME Typed, Encoding, [CodingNext]_codingVars
    PROVE  /\ Encoding'
           /\ quiet # 0 /\ quiet' = 0 => quiet + 1 >= ttfs_config.refractory_cycles
<1> USE DEF Typed
<1>0. quiet \in Nat /\ ttfs_config.refractory_cycles \in Nat /\ WindowCycles \in Nat
  BY ConfigNumbers DEF EncoderTypes
<1>1. ASSUME UNCHANGED encoderVars, UNCHANGED ttfs_config \/ ~running
      PROVE  /\ Encoding'
             /\ quiet # 0 /\ quiet' = 0 => quiet + 1 >= ttfs_config.refractory_cycles
  <2>1. quiet' = quiet BY <1>1 DEF encoderVars
  <2>2. Encoding' BY <1>1 DEF encoderVars, Encoding, WindowCycles
  <2> QED BY <2>1, <2>2
<1>2. CASE Encode
  <2>1. ASSUME NEW size \in OutputSizes, BeginEncode(size)
        PROVE  /\ Encoding'
               /\ quiet' = 0 => quiet + 1 >= ttfs_config.refractory_cycles
    <3>1. /\ index' = 0 /\ window_timer' = 0 /\ refractory_timer' = 0 /\ deaf' = 0
          /\ quiet' = ttfs_config.refractory_cycles /\ ttfs_config' = ttfs_config
      BY <2>1 DEF BeginEncode, configVars
    <3>2. 0 * (WindowCycles + 1) = 0 /\ 0 \div 2 = 0 BY <1>0
    <3>3. WindowCycles' = WindowCycles BY <3>1 DEF WindowCycles
    <3> QED BY <1>0, <3>1, <3>2, <3>3 DEF Encoding
  <2>2. CASE EndEncode
    <3>1. ~running' /\ quiet' = quiet BY <2>2, Zenon DEF EndEncode
    <3> QED BY <3>1 DEF Encoding
  <2> QED BY <1>2, <2>1, <2>2, TurnEncoding DEF Encode
<1>3. ASSUME ConfigCall, UNCHANGED encoderVars, UNCHANGED ttfs_config \/ ~running
      PROVE  /\ Encoding'
             /\ quiet # 0 /\ quiet' = 0 => quiet + 1 >= ttfs_config.refractory_cycles
  BY <1>1, <1>3
<1>4. ASSUME NEW n, NEW current, ProcessTemporalCycle(n, current), UNCHANGED encoderVars
      PROVE  /\ Encoding'
             /\ quiet # 0 /\ quiet' = 0 => quiet + 1 >= ttfs_config.refractory_cycles
  BY <1>1, <1>4 DEF ProcessTemporalCycle, configVars
<1>5. CASE UNCHANGED <<configVars, encoderVars>>
  BY <1>1, <1>5 DEF configVars
<1> QED BY <1>2, <1>3, <1>4, <1>5, Steps DEF StepKind

LEMMA InitEncoding == ASSUME CodingInit PROVE Encoding
<1>1. running = FALSE BY DEF CodingInit, EncoderInit
<1> QED BY <1>1 DEF Encoding

\* The encoder is deaf for at most one turn of each WindowCycles + 1, of all turns
\* of the call, whatever the samples.
THEOREM DeafCorrect == CodingSpec => []EncoderDeaf
<1>1. ASSUME Typed, Encoding PROVE EncoderDeaf
  <2>1. window_timer \in Nat /\ deaf \in Nat /\ WindowCycles \in Nat /\ index \div 2 \in Nat
    BY <1>1, ConfigNumbers, SamplesAssumption DEF Typed, EncoderTypes
  <2>2. deaf * (WindowCycles + 1) \in Nat BY <2>1
  <2> QED BY <1>1, <2>1, <2>2 DEF Encoding, EncoderDeaf
<1> QED BY <1>1, InitEncoding, EncoderKept, CodingTypes, PTL DEF CodingSpec

\* Spikes keep the refractory period, whatever is configured between them.
THEOREM SpacingCorrect == CodingSpec => SpikesSpaced
<1> DEFINE Spaced ==
      /\ \A n \in Neurons : since[n] # 0 /\ since'[n] = 0 => since[n] >= gap[n]
      /\ quiet # 0 /\ quiet' = 0 => quiet + 1 >= ttfs_config.refractory_cycles
<1>1. Typed /\ Paced /\ Windowed /\ [CodingNext]_codingVars => Paced' /\ Windowed'
  BY NeuronsKept
<1>2. Typed /\ Encoding /\ [CodingNext]_codingVars => Encoding' BY EncoderKept
<1>3. Typed /\ Paced /\ Windowed /\ Encoding /\ [CodingNext]_codingVars
         => [Spaced]_codingVars
  BY NeuronsKept, EncoderKept
<1> HIDE DEF Spaced
<1>4. CodingSpec => [][Spaced]_codingVars
  BY <1>1, <1>2, <1>3, InitNeurons, InitEncoding, CodingTypes, PTL DEF CodingSpec
<1> QED BY <1>4 DEF SpikesSpaced, Spaced

----------------------------------------------------------------------------
(* The configuration.  Each of the two writes keeps the bits of the other  *)
(* and replaces its own, but for bit 8 of the window.                      *)

Fields == asked \in Nat /\ policy \in Nat /\ FieldsAsConfigured

LEMMA FieldsKept ==
    ASSUME Fields, [CodingNext]_codingVars
    PROVE  Fields'
<1>1. ASSUME NEW us \in Windows, NEW cycles \in Refractories, SetWindow(us, cycles)
      PROVE  Fields'
  <2> DEFINE v == us \div 100
             F == Field(8, 3, v)
  <2>1. v \in Nat BY ConfigAssumption
  <2>2. F \subseteq 8 .. 10 BY <2>1, FieldBits
  <2>3. /\ snn_ctrl' = (snn_ctrl \ 9 .. 11) \union {7} \union F
        /\ asked' = v /\ enabled' = TRUE /\ policy' = policy
    BY <1>1 DEF SetWindow, TtfsConfig, WindowWritten
  <2> HIDE DEF v, F
  <2>4. 7 \in snn_ctrl' BY <2>3
  <2>5. snn_ctrl' \intersect (9 .. 10) = F \ {8}
    <3>1. \A b \in 9 .. 10 : b \in snn_ctrl' <=> b \in F BY <2>3
    <3>2. \A b : b \in F \ {8} => b \in 9 .. 10 BY <2>2
    <3>3. \A b \in 9 .. 10 : b # 8 OBVIOUS
    <3> QED BY <3>1, <3>2, <3>3, Zenon
  <2>6. snn_ctrl' \intersect (12 .. 15) = snn_ctrl \intersect (12 .. 15) BY <2>2, <2>3
  <2> QED BY <2>1, <2>3, <2>4, <2>5, <2>6 DEF Fields, FieldsAsConfigured, F
<1>2. ASSUME NEW p \in Policies, SetPolicy(p) PROVE Fields'
  <2> DEFINE F == Field(12, 4, p)
  <2>1. p \in Nat BY ConfigAssumption
  <2>2. F \subseteq 12 .. 15 BY <2>1, FieldBits
  <2>3. /\ snn_ctrl' = (snn_ctrl \ 12 .. 15) \union F
        /\ asked' = asked /\ enabled' = enabled /\ policy' = p
    BY <1>2 DEF SetPolicy, ConfigureStdp, PolicyWritten
  <2> HIDE DEF F
  <2>4. 7 \in snn_ctrl' <=> 7 \in snn_ctrl BY <2>2, <2>3
  <2>5. snn_ctrl' \intersect (9 .. 10) = snn_ctrl \intersect (9 .. 10) BY <2>2, <2>3
  <2>6. snn_ctrl' \intersect (12 .. 15) = F BY <2>2, <2>3
  <2> QED BY <2>1, <2>3, <2>4, <2>5, <2>6 DEF Fields, FieldsAsConfigured, F
<1>3. ASSUME UNCHANGED <<history, snn_ctrl>> PROVE Fields'
  BY <1>3 DEF history, Fields, FieldsAsConfigured
<1>4. CASE OpenOrClose
  BY <1>3, <1>4 DEF OpenOrClose, InitTemporalCoding, DeinitTemporalCoding
<1>5. ASSUME NEW n, NEW current, Cycle(n, current) PROVE Fields'
  BY <1>3, <1>5 DEF Cycle, ProcessTemporalCycle, configVars
<1>6. CASE Encode
  BY <1>3, <1>6 DEF Encode, BeginEncode, EncodeTurn, EndEncode, configVars
<1>7. ASSUME NEW s, NEW u, Learn(s, u) PROVE Fields'
  BY <1>3, <1>7 DEF Learn, configVars
<1>8. CASE UNCHANGED codingVars BY <1>3, <1>8 DEF codingVars, configVars
<1> QED BY <1>1, <1>2, <1>4, <1>5, <1>6, <1>7, <1>8 DEF CodingNext

LEMMA InitFields == ASSUME CodingInit PROVE Fields
<1>1. snn_ctrl = {} /\ asked = 0 /\ policy = 0 /\ enabled = FALSE
  BY DEF CodingInit, ConfigInit
<1>2. \A k \in 0 .. 3 : (0 \div 2^k) % 2 # 1
  <2>1. 2^0 = 1 /\ 2^1 = 2 /\ 2^2 = 4 /\ 2^3 = 8 BY SMT
  <2>2. \A d \in {1, 2, 4, 8} : (0 \div d) % 2 # 1 BY SMT
  <2>3. \A k \in 0 .. 3 : k = 0 \/ k = 1 \/ k = 2 \/ k = 3 OBVIOUS
  <2> QED BY <2>1, <2>2, <2>3, Zenon
<1>3. Field(8, 3, 0) = {} /\ Field(12, 4, 0) = {}
  <2>0. (\A k \in 0 .. 3 - 1 : k \in 0 .. 3) /\ (\A k \in 0 .. 4 - 1 : k \in 0 .. 3) BY SMT
  <2>1. { k \in 0 .. 3 - 1 : (0 \div 2^k) % 2 = 1 } = {} BY <1>2, <2>0, Zenon
  <2>2. { k \in 0 .. 4 - 1 : (0 \div 2^k) % 2 = 1 } = {} BY <1>2, <2>0, Zenon
  <2> QED BY <2>1, <2>2, Zenon DEF Field
<1> QED BY <1>1, <1>3 DEF Fields, FieldsAsConfigured

\* A stronger value never spikes later: the quotient is monotonic, and less than the
\* window.
LEMMA Monotonic ==
    ASSUME NEW a \in Nat, NEW b \in Nat, a <= b, NEW d \in 1 .. 10
    PROVE  a \div d <= b \div d
<1>1. \A k \in {1, 2, 3, 4, 5} : a \div k <= b \div k BY SMTT(60)
<1>2. \A k \in {6, 7, 8, 9, 10} : a \div k <= b \div k BY SMTT(60)
<1> QED BY <1>1, <1>2

LEMMA SpikesEarlier == ASSUME ConfigTypes PROVE StrongerIsEarlier
<1> DEFINE W == WindowCycles
           h == ttfs_config.threshold
<1>1. W \in Nat /\ W <= Word32 /\ h \in 0 .. 9 /\ Word32 \in Nat \ {0}
  BY ConfigNumbers, ConfigAssumption DEF One
<1> DEFINE t(v) == (W * (10 - v)) \div (10 - h)
<1> HIDE DEF W, h
<1>2. ASSUME NEW v \in h + 1 .. 10, W > 0
      PROVE  t(v) \in Nat /\ t(v) < W
  <2> DEFINE x == W * (10 - v)
  <2>1. 10 - v \in Nat /\ 10 - v <= (10 - h) - 1 /\ 10 - h \in 1 .. 10 BY <1>1, <1>2
  <2>2. x \in Nat BY <1>1, <2>1
  <2>3. x <= W * ((10 - h) - 1) BY <1>1, <2>1
  <2>4. W * ((10 - h) - 1) = W * (10 - h) - W BY <1>1, <2>1
  <2>5. x < W * (10 - h) BY <1>1, <1>2, <2>1, <2>2, <2>3, <2>4
  <2> HIDE DEF x
  <2>6. \A d \in 1 .. 10 : x < W * d => x \div d \in Nat /\ x \div d < W
    <3> SUFFICES ASSUME NEW d \in 1 .. 10, x < W * d
                 PROVE  x \div d \in Nat /\ x \div d < W
      OBVIOUS
    <3>1. x = d * (x \div d) + (x % d) /\ x % d \in 0 .. d - 1 /\ x \div d \in Nat
      BY <2>2
    <3>2. d * (x \div d) < d * W BY <1>1, <2>2, <3>1
    <3>3. ASSUME x \div d >= W PROVE FALSE
      <4>1. d * (x \div d) >= d * W BY <1>1, <3>1, <3>3
      <4> QED BY <1>1, <3>1, <3>2, <4>1
    <3> QED BY <1>1, <3>1, <3>3
  <2> QED BY <2>1, <2>5, <2>6 DEF x
<1>3. ASSUME NEW v \in h + 1 .. 10, NEW w \in h + 1 .. 10, v <= w
      PROVE  t(w) <= t(v)
  <2>1. 10 - w \in Nat /\ 10 - v \in Nat /\ 10 - w <= 10 - v /\ 10 - h \in 1 .. 10
    BY <1>1, <1>3
  <2>2. W * (10 - w) \in Nat /\ W * (10 - v) \in Nat /\ W * (10 - w) <= W * (10 - v)
    BY <1>1, <2>1
  <2> QED BY <2>1, <2>2, Monotonic
<1>4. ASSUME NEW v \in h + 1 .. 10, W > 0, NEW s \in SpikeTimes(v)
      PROVE  s = t(v)
  <2>1. ~(v <= ttfs_config.threshold) /\ ~(v > 10) BY <1>1, <1>4 DEF h
  <2>2. ~(t(v) >= W) BY <1>1, <1>2, <1>4
  <2>3. SpikeTimes(v) = {t(v)} BY <2>1, <2>2 DEF SpikeTimes, One, W, h
  <2> QED BY <1>4, <2>3
<1>5. ASSUME NEW v \in h + 1 .. 10, NEW w \in h + 1 .. 10, v <= w, W > 0,
             NEW s \in SpikeTimes(v), NEW u \in SpikeTimes(w)
      PROVE  u <= s /\ s < W
  BY <1>2, <1>3, <1>4, <1>5
<1> QED BY <1>5 DEF StrongerIsEarlier, One, W, h

\* The parts of the state that the configuration shares with the rest.
Shared == NoDoubleFree /\ ThresholdsAgree /\ OutputFits

LEMMA SharedKept == ASSUME Typed, Shared, [CodingNext]_codingVars PROVE Shared'
<1> USE DEF Typed, Shared
<1>1. ASSUME UNCHANGED configVars PROVE NoDoubleFree'
  BY <1>1 DEF configVars, NoDoubleFree
<1>2. ASSUME UNCHANGED neuronVars, UNCHANGED configVars PROVE ThresholdsAgree'
  BY <1>2 DEF neuronVars, configVars, ThresholdsAgree
<1>3. ASSUME UNCHANGED encoderVars PROVE OutputFits'
  BY <1>3 DEF encoderVars, OutputFits
<1>4. CASE ConfigCall /\ UNCHANGED <<neuronVars, encoderVars, stdpVars>>
  <2>1. ASSUME NEW us, NEW cycles, TtfsConfig(us, cycles)
        PROVE  NoDoubleFree' /\ ttfs_config'.threshold = ttfs_config.threshold
    BY <2>1 DEF TtfsConfig, NoDoubleFree, ConfigTypes
  <2>2. ASSUME NEW p, ConfigureStdp(p)
        PROVE  NoDoubleFree' /\ ttfs_config'.threshold = ttfs_config.threshold
    BY <2>2 DEF ConfigureStdp, NoDoubleFree
  <2>3. ASSUME InitTemporalCoding
        PROVE  NoDoubleFree' /\ ttfs_config'.threshold = DefaultThreshold
    <3>1. ttfs_config'.threshold = DefaultThreshold BY <2>3 DEF InitTemporalCoding
    <3>2. live' = live \union ({spike_train_buffer'} \ {NULL})
      BY <2>3 DEF InitTemporalCoding
    <3> QED BY <3>1, <3>2 DEF NoDoubleFree
  <2>4. ASSUME DeinitTemporalCoding
        PROVE  NoDoubleFree' /\ ttfs_config'.threshold = ttfs_config.threshold
    BY <2>4 DEF DeinitTemporalCoding, AfterFree, ConfigAfterFree, NoDoubleFree
  <2>5. /\ NoDoubleFree'
        /\ ttfs_config'.threshold \in {ttfs_config.threshold, DefaultThreshold}
    BY <1>4, <2>1, <2>2, <2>3, <2>4 DEF ConfigCall
  <2>6. ttfs_config.threshold \in {0, DefaultThreshold} BY DEF ConfigTypes
  <2>7. ThresholdsAgree'
    BY <1>4, <2>6, <2>5 DEF ThresholdsAgree, neuronVars
  <2> QED BY <1>3, <1>4, <2>5, <2>7
<1>5. ASSUME NEW n \in Neurons, NEW current \in Currents,
             ProcessTemporalCycle(n, current), UNCHANGED encoderVars
      PROVE  Shared'
  <2>1. UNCHANGED configVars /\ thresholds' = [thresholds EXCEPT ![n] = Threshold(n)]
    BY <1>5 DEF ProcessTemporalCycle
  <2>2. ThresholdsAgree'
    BY <2>1 DEF ThresholdsAgree, Threshold, configVars, NeuronTypes
  <2> QED BY <1>1, <1>3, <1>5, <2>1, <2>2
<1>6. CASE Encode
  <2>1. UNCHANGED configVars /\ UNCHANGED neuronVars BY <1>6, EncodeTypes DEF Encode
  <2>2. ASSUME NEW size \in OutputSizes, BeginEncode(size) PROVE OutputFits'
    <3>1. encoded_output' = <<>> /\ output_size' = size /\ size \in Nat
      BY <2>2, SamplesAssumption DEF BeginEncode
    <3> QED BY <3>1 DEF OutputFits
  <2>3. ASSUME NEW m \in Magnitudes, EncodeTurn(m) PROVE OutputFits'
    <3>1. /\ output_size' = output_size /\ Len(encoded_output) < output_size
          /\ \/ encoded_output' = encoded_output
             \/ encoded_output' = Append(encoded_output, index % TimeCodes)
      BY <2>3 DEF EncodeTurn, More, Room
    <3>2. encoded_output \in Seq(0 .. TimeCodes - 1) /\ output_size \in Nat
      BY DEF EncoderTypes
    <3>3. Len(encoded_output') <= Len(encoded_output) + 1 /\ Len(encoded_output) \in Nat
      BY <3>1, <3>2
    <3> QED BY <3>1, <3>2, <3>3 DEF OutputFits
  <2>4. ASSUME EndEncode PROVE OutputFits' BY <2>4 DEF EndEncode, OutputFits
  <2>5. OutputFits' BY <1>6, <2>2, <2>3, <2>4 DEF Encode
  <2>6. NoDoubleFree' BY <1>1, <2>1
  <2>7. ThresholdsAgree' BY <1>2, <2>1
  <2> QED BY <2>5, <2>6, <2>7
<1>7. CASE UNCHANGED <<configVars, neuronVars, encoderVars>>
  BY <1>1, <1>2, <1>3, <1>7
<1> QED BY <1>4, <1>5, <1>6, <1>7, Steps DEF StepKind

LEMMA InitShared == ASSUME CodingInit PROVE Shared
<1>1. spike_train_buffer = NULL /\ thresholds = [n \in Neurons |-> 0]
      /\ output_size = 0 /\ encoded_output = <<>>
  BY DEF CodingInit, ConfigInit, NeuronInit, EncoderInit
<1> QED BY <1>1 DEF Shared, NoDoubleFree, ThresholdsAgree, OutputFits

\* Whatever is configured, in whatever order and with whatever failing malloc, the
\* rest of the code finds a configuration that it can run on.
THEOREM ConfigurationCorrect == CodingSpec => []ConfigurationSound
<1>1. Typed => CodingTypeOK
  BY DEF Typed, ConfigTypes, NeuronTypes, EncoderTypes, CodingTypeOK
<1>2. Typed => StrongerIsEarlier BY SpikesEarlier DEF Typed
<1>3. Typed /\ Fields /\ Shared => ConfigurationSound
  BY <1>1, <1>2 DEF Fields, Shared, ConfigurationSound
<1> QED BY <1>3, InitFields, FieldsKept, InitShared, SharedKept, CodingTypes, PTL
        DEF CodingSpec
=============================================================================
