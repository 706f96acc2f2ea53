--------------------------- MODULE MemorySystemProofs ---------------------------
(***************************************************************************)
(* Proofs about the NVM's code and about MemorySystem, for every address   *)
(* map, set of words, cells and wear range.  First the code corrects every *)
(* single and detects every double error: a flipped position p adds        *)
(* BitsOf(p) to the syndrome and changes the parity, and no two positions  *)
(* have the same BitsOf.  Then the invariant of the system: each cell      *)
(* holds the codeword of its truth with the failed bits flipped, and the   *)
(* controller and the read state machine, which exchange no handshake,     *)
(* carry the same reading through their stages.                            *)
(***************************************************************************)
EXTENDS MemorySystem, Integers, FiniteSetTheorems, TLAPS

LEMMA ParityStep ==
    ASSUME NEW n \in Int
    PROVE  /\ (n + 1) % 2 = 1 <=> ~(n % 2 = 1)
           /\ (n - 1) % 2 = 1 <=> ~(n % 2 = 1)
OBVIOUS

\* Flipping one bit changes the parity of a word.
LEMMA OddFlips ==
    ASSUME NEW S, IsFiniteSet(S), NEW p
    PROVE  (Odd(SymDiff(S, {p})) <=> ~Odd(S)) /\ IsFiniteSet(SymDiff(S, {p}))
<1>0. Cardinality(S) \in Nat
  BY FS_CardinalityType
<1>1. CASE p \in S
  <2>1. SymDiff(S, {p}) = S \ {p}
    BY <1>1 DEF SymDiff
  <2>2. IsFiniteSet(S \ {p}) /\ Cardinality(S \ {p}) = Cardinality(S) - 1
    BY <1>1, FS_RemoveElement
  <2>3. Odd(S \ {p}) <=> ~Odd(S)
    BY <1>0, <2>2, ParityStep DEF Odd
  <2> QED BY <2>1, <2>2, <2>3
<1>2. CASE p \notin S
  <2>1. SymDiff(S, {p}) = S \cup {p}
    BY <1>2 DEF SymDiff
  <2>2. IsFiniteSet(S \cup {p}) /\ Cardinality(S \cup {p}) = Cardinality(S) + 1
    BY <1>2, FS_AddElement
  <2>3. Odd(S \cup {p}) <=> ~Odd(S)
    BY <1>0, <2>2, ParityStep DEF Odd
  <2> QED BY <2>1, <2>2, <2>3
<1> QED BY <1>1, <1>2

\* A word is a finite set.
LEMMA WordsFinite ==
    ASSUME NEW S \in SUBSET Positions PROVE IsFiniteSet(S)
<1>1. IsFiniteSet(Positions)
  BY CodeAssumption, FS_Interval DEF Positions
<1> QED BY <1>1, FS_Subset

\* No two positions have the same binary digits.
LEMMA DigitsDiffer ==
    ASSUME NEW p \in Positions, NEW q \in Positions, BitsOf(p) = BitsOf(q)
    PROVE  p = q
<1>1. p \in 0 .. 63 /\ q \in 0 .. 63
  BY CodeAssumption DEF Positions
<1>2. ASSUME NEW c \in {1, 2, 4, 8, 16, 32}
      PROVE  (p \div c) % 2 = (q \div c) % 2
  <2>1. CASE c \in Positions
    BY <1>1, <2>1 DEF BitsOf, CheckPositions
  <2>2. CASE c \notin Positions
    BY <1>1, <2>2, CodeAssumption DEF Positions
  <2> QED BY <2>1, <2>2
<1>3. /\ p % 2 = q % 2
      /\ (p \div 2) % 2 = (q \div 2) % 2
      /\ (p \div 4) % 2 = (q \div 4) % 2
      /\ (p \div 8) % 2 = (q \div 8) % 2
      /\ (p \div 16) % 2 = (q \div 16) % 2
      /\ (p \div 32) % 2 = (q \div 32) % 2
  BY <1>1, <1>2
<1> QED BY <1>1, <1>3

\* The digits of a check position are itself; the overall parity has none.
LEMMA CheckDigits ==
    /\ BitsOf(0) = {}
    /\ \A c \in CheckPositions : BitsOf(c) = {c}
<1>1. BitsOf(0) = {}
  BY DEF BitsOf, CheckPositions
<1>2. ASSUME NEW c \in CheckPositions PROVE BitsOf(c) = {c}
  BY CodeAssumption DEF BitsOf, CheckPositions, Positions
<1> QED BY <1>1, <1>2

\* A flipped data bit adds its digits to the check bits.
LEMMA CheckBitsFlip ==
    ASSUME NEW d \in SUBSET Positions, NEW p \in Positions
    PROVE  CheckBits(SymDiff(d, {p})) = SymDiff(CheckBits(d), BitsOf(p))
<1>1. ASSUME NEW c \in CheckPositions
      PROVE  Odd({q \in SymDiff(d, {p}) : c \in BitsOf(q)})
               <=> (Odd({q \in d : c \in BitsOf(q)}) <=> c \notin BitsOf(p))
  <2> DEFINE D == {q \in d : c \in BitsOf(q)}
             E == {q \in SymDiff(d, {p}) : c \in BitsOf(q)}
  <2>1. IsFiniteSet(D)
    BY WordsFinite
  <2>2. CASE c \in BitsOf(p)
    <3>1. E = SymDiff(D, {p})
      BY <2>2 DEF SymDiff
    <3> QED BY <2>1, <2>2, <3>1, OddFlips
  <2>3. CASE c \notin BitsOf(p)
    <3>1. E = D
      BY <2>3 DEF SymDiff
    <3> QED BY <2>3, <3>1
  <2> QED BY <2>2, <2>3
<1>2. BitsOf(p) \subseteq CheckPositions
  BY DEF BitsOf
<1> QED BY <1>1, <1>2 DEF CheckBits, SymDiff

\* Whatever bit flips, its digits are added to the syndrome.
LEMMA SyndromeFlip ==
    ASSUME NEW w \in SUBSET Positions, NEW p \in Positions
    PROVE  Syndrome(SymDiff(w, {p})) = SymDiff(Syndrome(w), BitsOf(p))
<1> DEFINE v == SymDiff(w, {p})
           k == w \cap CheckPositions
<1>0. Data(w) \in SUBSET Positions
  BY DEF Data
<1>1. CASE p \in DataPositions
  <2>1. Data(v) = SymDiff(Data(w), {p}) /\ v \cap CheckPositions = k
    BY <1>1 DEF Data, DataPositions, SymDiff
  <2>2. CheckBits(Data(v)) = SymDiff(CheckBits(Data(w)), BitsOf(p))
    BY <1>0, <2>1, CheckBitsFlip
  <2> QED BY <2>1, <2>2 DEF Syndrome, SymDiff
<1>2. CASE p \in CheckPositions
  <2>1. Data(v) = Data(w) /\ v \cap CheckPositions = SymDiff(k, {p})
    BY <1>2 DEF Data, DataPositions, SymDiff
  <2>2. BitsOf(p) = {p}
    BY <1>2, CheckDigits
  <2> QED BY <2>1, <2>2 DEF Syndrome, SymDiff
<1>3. CASE p = 0
  <2>1. 0 \notin CheckPositions /\ 0 \notin DataPositions
    BY DEF CheckPositions, DataPositions
  <2>2. Data(v) = Data(w) /\ v \cap CheckPositions = k
    BY <1>3, <2>1 DEF Data, SymDiff
  <2>3. BitsOf(p) = {}
    BY <1>3, CheckDigits
  <2> QED BY <2>2, <2>3 DEF Syndrome, SymDiff
<1> QED BY <1>1, <1>2, <1>3 DEF DataPositions

\* A stored word has its data, no syndrome and even parity.
LEMMA CodewordClean ==
    ASSUME NEW d \in SUBSET DataPositions
    PROVE  /\ Codeword(d) \in SUBSET Positions
           /\ Data(Codeword(d)) = d
           /\ Syndrome(Codeword(d)) = {}
           /\ ~Odd(Codeword(d))
<1> DEFINE c == d \cup CheckBits(d)
<1>1. CheckBits(d) \subseteq CheckPositions
  BY DEF CheckBits
<1>2. 0 \notin CheckPositions /\ 0 \notin DataPositions /\ 0 \in Positions
  BY CodeAssumption DEF CheckPositions, DataPositions, Positions
<1>3. /\ DataPositions \cap CheckPositions = {}
      /\ DataPositions \subseteq Positions /\ CheckPositions \subseteq Positions
  BY DEF CheckPositions, DataPositions
<1>4. c \in SUBSET Positions /\ 0 \notin c
  BY <1>1, <1>2, <1>3
<1>5. Codeword(d) \in SUBSET Positions
  BY <1>2, <1>4 DEF Codeword
<1>6. Data(Codeword(d)) = d /\ Codeword(d) \cap CheckPositions = CheckBits(d)
  BY <1>1, <1>2, <1>3 DEF Codeword, Data
<1>7. Syndrome(Codeword(d)) = {}
  BY <1>6 DEF Syndrome, SymDiff
<1>8. ~Odd(Codeword(d))
  <2>1. CASE Odd(c)
    <3>1. Codeword(d) = SymDiff(c, {0})
      BY <1>4, <2>1 DEF Codeword, SymDiff
    <3>2. IsFiniteSet(c) BY <1>4, WordsFinite
    <3>3. ~Odd(SymDiff(c, {0})) BY <2>1, <3>2, OddFlips
    <3> QED BY <3>1, <3>3
  <2>2. CASE ~Odd(c)
    BY <2>2 DEF Codeword
  <2> QED BY <2>1, <2>2
<1> QED BY <1>5, <1>6, <1>7, <1>8

\* One failed bit, wherever it is: the data come back, and no double error is
\* flagged.  A failed overall parity is not noticed.
THEOREM SingleCorrected ==
    ASSUME NEW d \in SUBSET DataPositions, NEW p \in Positions
    PROVE  LET w == SymDiff(Codeword(d), {p}) IN
           /\ Corrected(w) = d
           /\ SingleErr(w) <=> p # 0
           /\ ~DoubleErr(w)
<1> DEFINE w == SymDiff(Codeword(d), {p})
<1>1. Syndrome(w) = BitsOf(p)
  <2>1. Codeword(d) \in SUBSET Positions /\ Syndrome(Codeword(d)) = {}
    BY CodewordClean
  <2>2. Syndrome(w) = SymDiff({}, BitsOf(p))
    BY <2>1, SyndromeFlip
  <2> QED BY <2>2 DEF SymDiff
<1>2. Odd(w)
  BY CodewordClean, WordsFinite, OddFlips
<1>3. BitsOf(p) = {} <=> p = 0
  <2>1. 0 \in Positions
    BY CodeAssumption DEF Positions
  <2> QED BY <2>1, CheckDigits, DigitsDiffer
<1>4. SingleErr(w) <=> p # 0
  BY <1>1, <1>2, <1>3 DEF SingleErr
<1>5. ~DoubleErr(w)
  BY <1>2 DEF DoubleErr
<1>6. Corrected(w) = d
  <2>1. Data(w) = SymDiff(d, {p} \cap DataPositions)
    BY CodewordClean DEF Data, SymDiff
  <2>2. {q \in DataPositions : BitsOf(q) = Syndrome(w)} = {p} \cap DataPositions
    BY <1>1, DigitsDiffer DEF DataPositions
  <2>3. CASE p = 0
    <3>1. {p} \cap DataPositions = {}
      BY <2>3 DEF DataPositions
    <3> QED BY <1>4, <2>1, <2>3, <3>1 DEF Corrected, SymDiff
  <2>4. CASE p # 0
    <3>1. Corrected(w) = SymDiff(Data(w), {p} \cap DataPositions)
      BY <1>4, <2>2, <2>4 DEF Corrected
    <3> QED BY <2>1, <3>1 DEF SymDiff
  <2> QED BY <2>3, <2>4
<1> QED BY <1>4, <1>5, <1>6

\* Two failed bits are flagged as a double error and not miscorrected as one.
THEOREM DoubleDetected ==
    ASSUME NEW d \in SUBSET DataPositions,
           NEW p \in Positions, NEW q \in Positions, p # q
    PROVE  LET w == SymDiff(SymDiff(Codeword(d), {p}), {q}) IN
           DoubleErr(w) /\ ~SingleErr(w)
<1> DEFINE u == SymDiff(Codeword(d), {p})
           w == SymDiff(u, {q})
<1>1. u \in SUBSET Positions
  BY CodewordClean DEF SymDiff
<1>2. Syndrome(u) = BitsOf(p)
  <2>1. Codeword(d) \in SUBSET Positions /\ Syndrome(Codeword(d)) = {}
    BY CodewordClean
  <2>2. Syndrome(u) = SymDiff({}, BitsOf(p))
    BY <2>1, SyndromeFlip
  <2> QED BY <2>2 DEF SymDiff
<1>3. Syndrome(w) = SymDiff(BitsOf(p), BitsOf(q))
  BY <1>1, <1>2, SyndromeFlip
<1>4. Syndrome(w) # {}
  <2>1. BitsOf(p) # BitsOf(q)
    BY DigitsDiffer
  <2> QED BY <1>3, <2>1 DEF SymDiff
<1>5. Odd(u)
  BY CodewordClean, WordsFinite, OddFlips
<1>6. ~Odd(w)
  BY <1>1, <1>5, WordsFinite, OddFlips
<1> QED BY <1>4, <1>6 DEF DoubleErr, SingleErr

----------------------------------------------------------------------------
(* The cells and their readings                                            *)

\* What a read finds: the word's codeword, with the failed bits flipped.
Damaged(r) == SymDiff(Codeword(r.word), r.failed)

\* The code on words with up to two failed bits, as the flags tell of it.
LEMMA ReadBack ==
    ASSUME NEW d \in SUBSET DataPositions, NEW F \in SUBSET Positions,
           Cardinality(F) <= 2
    PROVE  LET w == SymDiff(Codeword(d), F) IN
           /\ Cardinality(F) <= 1 => Corrected(w) = d
           /\ DoubleErr(w) <=> Cardinality(F) = 2
           /\ SingleErr(w) <=> (Cardinality(F) = 1 /\ F # {0})
<1> DEFINE w == SymDiff(Codeword(d), F)
<1>0. IsFiniteSet(F) /\ Cardinality(F) \in Nat
  BY WordsFinite, FS_CardinalityType
<1>1. CASE Cardinality(F) = 0
  <2>1. F = {} BY <1>0, <1>1, FS_EmptySet
  <2>2. w = Codeword(d) BY <2>1 DEF SymDiff
  <2>3. ~SingleErr(w) /\ ~DoubleErr(w)
    BY <2>2, CodewordClean DEF SingleErr, DoubleErr
  <2>4. Corrected(w) = d BY <2>2, <2>3, CodewordClean DEF Corrected
  <2> QED BY <1>1, <2>3, <2>4
<1>2. CASE Cardinality(F) = 1
  <2>1. PICK p : F = {p} BY <1>0, <1>2, FS_Singleton
  <2>2. p \in Positions BY <2>1
  <2>3. Corrected(w) = d /\ (SingleErr(w) <=> p # 0) /\ ~DoubleErr(w)
    BY <2>1, <2>2, SingleCorrected
  <2>4. F # {0} <=> p # 0 BY <2>1
  <2> QED BY <1>2, <2>3, <2>4
<1>3. CASE Cardinality(F) = 2
  <2>1. PICK p \in F : TRUE BY <1>0, <1>3, FS_EmptySet
  <2>2. IsFiniteSet(F \ {p}) /\ Cardinality(F \ {p}) = 1
    BY <1>0, <1>3, <2>1, FS_RemoveElement
  <2>3. PICK q : F \ {p} = {q} BY <2>2, FS_Singleton
  <2>4. p \in Positions /\ q \in Positions /\ p # q /\ F = {p, q} BY <2>1, <2>3
  <2>5. w = SymDiff(SymDiff(Codeword(d), {p}), {q}) BY <2>4 DEF SymDiff
  <2>6. DoubleErr(w) /\ ~SingleErr(w) BY <2>4, <2>5, DoubleDetected
  <2> QED BY <1>3, <2>6
<1> QED BY <1>0, <1>1, <1>2, <1>3

LEMMA CorrectedType ==
    ASSUME NEW w \in SUBSET Positions PROVE Corrected(w) \in SUBSET DataPositions
BY DEF Corrected, Data, SymDiff

LEMMA WordTypes ==
    /\ Words \cup {Zero} \subseteq SUBSET DataPositions
    /\ DataPositions \subseteq Positions
BY NvmAssumption DEF Zero, DataPositions

\* The controller's code is the code of Secded.
LEMMA SameCode ==
    /\ Nvm!Positions = Positions /\ Nvm!DataPositions = DataPositions
    /\ \A d : Nvm!Codeword(d) = Codeword(d)
    /\ \A w : Nvm!Corrected(w) = Corrected(w)
    /\ \A w : (Nvm!SingleErr(w) <=> SingleErr(w)) /\ (Nvm!DoubleErr(w) <=> DoubleErr(w))
<1>1. /\ Nvm!Positions = Positions /\ Nvm!CheckPositions = CheckPositions
      /\ Nvm!DataPositions = DataPositions
  BY DEF Nvm!Positions, Positions, Nvm!CheckPositions, CheckPositions,
         Nvm!DataPositions, DataPositions
<1>2. /\ \A S, T : Nvm!SymDiff(S, T) = SymDiff(S, T)
      /\ \A S : Nvm!Odd(S) <=> Odd(S)
  <2>1. \A S, T : Nvm!SymDiff(S, T) = SymDiff(S, T) BY DEF Nvm!SymDiff, SymDiff
  <2>2. ASSUME NEW S PROVE Nvm!Odd(S) <=> Odd(S)
    BY DEF Nvm!Odd, Odd, Nvm!Cardinality, Cardinality
  <2> QED BY <2>1, <2>2
<1>3. \A p : Nvm!BitsOf(p) = BitsOf(p) BY <1>1 DEF Nvm!BitsOf, BitsOf
<1>4. \A d : Nvm!CheckBits(d) = CheckBits(d)
  BY <1>1, <1>2, <1>3 DEF Nvm!CheckBits, CheckBits
<1>5. \A d : Nvm!Codeword(d) = Codeword(d)
  BY <1>2, <1>4 DEF Nvm!Codeword, Codeword
<1>6. \A w : Nvm!Data(w) = Data(w) BY <1>1 DEF Nvm!Data, Data
<1>7. \A w : Nvm!Syndrome(w) = Syndrome(w)
  BY <1>1, <1>2, <1>4, <1>6 DEF Nvm!Syndrome, Syndrome
<1>8. \A w : (Nvm!SingleErr(w) <=> SingleErr(w)) /\ (Nvm!DoubleErr(w) <=> DoubleErr(w))
  BY <1>2, <1>7 DEF Nvm!SingleErr, SingleErr, Nvm!DoubleErr, DoubleErr
<1>9. \A w : Nvm!Corrected(w) = Corrected(w)
  BY <1>1, <1>2, <1>3, <1>6, <1>7, <1>8 DEF Nvm!Corrected, Corrected
<1> QED BY <1>1, <1>5, <1>8, <1>9

\* Every cell holds the codeword of the word last written to it, with the
\* bits flipped that failed since, at most two.
CellsHold ==
    /\ truth \in [Cells -> Words \cup {Zero}]
    /\ mem \in [Cells -> SUBSET Positions]
    /\ failed \in [Cells -> SUBSET Positions]
    /\ \A c \in Cells : /\ mem[c] = SymDiff(Codeword(truth[c]), failed[c])
                        /\ Cardinality(failed[c]) <= 2

Readings == {r \in [word : Words \cup {Zero}, failed : SUBSET Positions, ok : BOOLEAN] :
                Cardinality(r.failed) <= 2}

\* A reading started with the controller clocked and free is captured when
\* the read state machine is in 01, decoded when it is in 10, and stays in
\* the controller's outputs, beside s4_rdata, while it is in 11.
InStep ==
    /\ s4_rvalid => s4_rd_state = "11"
    /\ reading.ok =>
         /\ s4_rd_state = "01" => read_valid /\ read_word = Damaged(reading)
         /\ s4_rd_state \in {"10", "11"} =>
              /\ ~read_valid
              /\ o_rd_data = Corrected(Damaged(reading))
              /\ o_ecc_single_err <=> SingleErr(Damaged(reading))
              /\ o_ecc_double_err <=> DoubleErr(Damaged(reading))
         /\ s4_rd_state = "11" => s4_rdata = Corrected(Damaged(reading))

\* After the first cycle the bus has granted the core a read, and nobody else
\* is ever granted one.
Granted ==
    /\ ar_grant_master \in {0, Bus!NoMaster}
    /\ running => ar_grant_master = 0

MemoryInv == TypeOK /\ CellsHold /\ reading \in Readings /\ InStep /\ Granted

\* From the invariant to what a load is told.
LEMMA InvAnswers ==
    ASSUME MemoryInv
    PROVE  NvmAnswersTruth /\ ErrorsAreFlagged
<1> SUFFICES ASSUME s4_rvalid, reading.ok
             PROVE  /\ Cardinality(reading.failed) <= 1 => s4_rdata = reading.word
                    /\ o_ecc_double_err <=> Cardinality(reading.failed) = 2
                    /\ o_ecc_single_err <=>
                          (Cardinality(reading.failed) = 1 /\ reading.failed # {0})
  BY DEF NvmAnswersTruth, ErrorsAreFlagged
<1>1. /\ s4_rdata = Corrected(Damaged(reading))
      /\ o_ecc_single_err <=> SingleErr(Damaged(reading))
      /\ o_ecc_double_err <=> DoubleErr(Damaged(reading))
  BY DEF MemoryInv, InStep
<1>2. /\ reading.word \in SUBSET DataPositions /\ reading.failed \in SUBSET Positions
      /\ Cardinality(reading.failed) <= 2
  BY WordTypes DEF MemoryInv, Readings
<1>3. /\ Cardinality(reading.failed) <= 1 => Corrected(Damaged(reading)) = reading.word
      /\ DoubleErr(Damaged(reading)) <=> Cardinality(reading.failed) = 2
      /\ SingleErr(Damaged(reading)) <=>
            (Cardinality(reading.failed) = 1 /\ reading.failed # {0})
  BY <1>2, ReadBack DEF Damaged
<1> QED BY <1>1, <1>3

----------------------------------------------------------------------------
(* What the bus makes of an access                                         *)

Accesses == {LoadOf(a) : a \in Addresses}
            \cup {StoreOf(a, w) : a \in Addresses, w \in Words}

\* Only the core asks, for a write if it stores and for a read if it does not.
LEMMA CoreAsks ==
    ASSUME NEW acc \in Accesses
    PROVE  LET req == Requests(acc) IN
           /\ acc.addr \in Addresses
           /\ req[0].awaddr = acc.addr /\ req[0].araddr = acc.addr
           /\ req[0].wdata = acc.data
           /\ req[0].awvalid <=> acc.kind = "store"
           /\ req[0].wvalid <=> acc.kind = "store"
           /\ req[0].arvalid <=> acc.kind # "store"
           /\ \A m \in 1 .. 4 : ~req[m].awvalid /\ ~req[m].arvalid
           /\ acc.kind = "store" => Bus!aw_select(req) = 0 /\ Bus!ar_select(req) = 5
           /\ acc.kind # "store" => Bus!aw_select(req) = 5 /\ Bus!ar_select(req) = 0
<1> DEFINE req == Requests(acc)
<1>1. acc.addr \in Addresses BY DEF Accesses, LoadOf, StoreOf
<1>2. 0 \in Bus!Masters /\ Bus!Masters = {0} \cup 1 .. 4 BY DEF Bus!Masters
<1>3. /\ req[0].awaddr = acc.addr /\ req[0].araddr = acc.addr
      /\ req[0].wdata = acc.data
      /\ req[0].awvalid <=> acc.kind = "store"
      /\ req[0].wvalid <=> acc.kind = "store"
      /\ req[0].arvalid <=> acc.kind # "store"
  BY <1>2 DEF Requests
<1>4. \A m \in 1 .. 4 : ~req[m].awvalid /\ ~req[m].arvalid
  BY <1>2 DEF Requests
<1>5. Bus!First({0}) = 0 /\ Bus!First({}) = 5
  BY DEF Bus!First, Bus!NoMaster
<1>6. CASE acc.kind = "store"
  <2>1. {m \in Bus!Masters : req[m].awvalid} = {0}
        /\ {m \in Bus!Masters : req[m].arvalid} = {}
    BY <1>2, <1>3, <1>4, <1>6
  <2>2. Bus!aw_select(req) = 0 /\ Bus!ar_select(req) = 5
    BY <1>5, <2>1 DEF Bus!aw_select, Bus!ar_select
  <2> QED BY <1>1, <1>3, <1>4, <1>6, <2>2
<1>7. CASE acc.kind # "store"
  <2>1. {m \in Bus!Masters : req[m].awvalid} = {}
        /\ {m \in Bus!Masters : req[m].arvalid} = {0}
    BY <1>2, <1>3, <1>4, <1>7
  <2>2. Bus!aw_select(req) = 5 /\ Bus!ar_select(req) = 0
    BY <1>5, <2>1 DEF Bus!aw_select, Bus!ar_select
  <2> QED BY <1>1, <1>3, <1>4, <1>7, <2>2
<1> QED BY <1>6, <1>7

\* A load reaches the slave that decodes its address on the read channel, and
\* ROM always; a store reaches its slave on the write channel, with its data.
LEMMA SlavesSee ==
    ASSUME NEW acc \in Accesses
    PROVE  LET req == Requests(acc) IN
           /\ acc.kind # "store" => /\ Bus!SlaveAr("ROM", req).addr = acc.addr
                                    /\ \A s : ~Bus!SlaveAw(s, req).valid
           /\ acc.kind = "store" => /\ ~Bus!SlaveAr("NVM", req).valid
                                    /\ ~Bus!rready(req)
           /\ Bus!SlaveAr("NVM", req).addr \in Addresses
           /\ Bus!SlaveAw("NVM", req).addr \in Addresses
           /\ \A s \in {"SRAM", "NVM"} :
                /\ Bus!SlaveAw(s, req).valid =>
                      /\ acc.kind = "store" /\ Region[acc.addr] = s
                      /\ Bus!SlaveAw(s, req).addr = acc.addr
                /\ Bus!SlaveAw(s, req).valid => Bus!SlaveWdata(s, req) = acc.data
           /\ Bus!Clock(req) => ar_grant_master' = IF acc.kind # "store" THEN 0
                                                   ELSE ar_grant_master
<1> DEFINE req == Requests(acc)
<1>0. Address0 \in Addresses BY MapAssumption
<1>1. CASE acc.kind = "store"
  <2>1. /\ req[0].awaddr = acc.addr /\ req[0].wdata = acc.data
        /\ Bus!aw_select(req) = 0 /\ Bus!ar_select(req) = 5 /\ acc.addr \in Addresses
    BY <1>1, CoreAsks
  <2> HIDE DEF req
  <2>2. \A s : Bus!SlaveAr(s, req) = Bus!Undriven
    BY <2>1 DEF Bus!SlaveAr, Bus!NoMaster
  <2>3. Bus!Undriven.addr = Address0 /\ ~Bus!Undriven.valid BY DEF Bus!Undriven
  <2>4. ~Bus!rready(req) BY <2>1 DEF Bus!rready
  <2>5. Bus!Clock(req) => ar_grant_master' = ar_grant_master
    BY <2>1 DEF Bus!Clock
  <2>6. ASSUME NEW s \in {"SRAM", "NVM"}
        PROVE  /\ Bus!SlaveAw(s, req).addr \in Addresses
               /\ Bus!SlaveAw(s, req).valid =>
                     /\ Region[acc.addr] = s /\ Bus!SlaveAw(s, req).addr = acc.addr
                     /\ Bus!SlaveWdata(s, req) = acc.data
    <3>1. CASE Bus!Decode(0, acc.addr) = s
      <4>1. Bus!SlaveAw(s, req) = [addr |-> acc.addr, valid |-> TRUE]
        <5>1. Bus!Reaches(s, 0, acc.addr)
          <6>1. 0 # Bus!NoMaster /\ 0 < 4 BY DEF Bus!NoMaster
          <6> QED BY <3>1, <6>1 DEF Bus!Reaches
        <5>2. 0 # Bus!NoMaster BY DEF Bus!NoMaster
        <5> QED BY <2>1, <5>1, <5>2, Zenon DEF Bus!SlaveAw
      <4>2. Region[acc.addr] = s
        BY <3>1 DEF Bus!Decode
      <4>3. Bus!WriteSource(s, req) = 0
        <5>1. 0 \in {0, 1} OBVIOUS
        <5>2. 0 # 2 OBVIOUS
        <5> QED BY <2>1, <3>1, <5>1, <5>2, Zenon DEF Bus!WriteSource
      <4>4. Bus!SlaveWdata(s, req) = acc.data
        BY <2>1, <4>3 DEF Bus!SlaveWdata
      <4> QED BY <2>1, <4>1, <4>2, <4>4
    <3>2. CASE Bus!Decode(0, acc.addr) # s
      <4>1. Bus!SlaveAw(s, req) = Bus!Undriven
        BY <2>1, <3>2 DEF Bus!SlaveAw, Bus!Reaches
      <4> QED BY <1>0, <2>3, <4>1
    <3> QED BY <3>1, <3>2
  <2> QED BY <1>0, <1>1, <2>2, <2>3, <2>4, <2>5, <2>6 DEF req
<1>2. CASE acc.kind # "store"
  <2>1. /\ req[0].araddr = acc.addr /\ acc.addr \in Addresses
        /\ Bus!aw_select(req) = 5 /\ Bus!ar_select(req) = 0
    BY <1>2, CoreAsks
  <2> HIDE DEF req
  <2>2. \A s : Bus!SlaveAw(s, req) = Bus!Undriven
    BY <2>1 DEF Bus!SlaveAw, Bus!NoMaster
  <2>3. Bus!Undriven.addr = Address0 /\ ~Bus!Undriven.valid BY DEF Bus!Undriven
  <2>4. Bus!SlaveAr("ROM", req).addr = acc.addr
    BY <2>1 DEF Bus!SlaveAr, Bus!Reaches, Bus!NoMaster
  <2>5. Bus!SlaveAr("NVM", req).addr \in Addresses
    <3>1. Bus!SlaveAr("NVM", req) \in {[addr |-> acc.addr, valid |-> TRUE], Bus!Undriven}
      BY <2>1 DEF Bus!SlaveAr
    <3> QED BY <1>0, <2>1, <2>3, <3>1
  <2>6. Bus!Clock(req) => ar_grant_master' = 0
    BY <2>1 DEF Bus!Clock
  <2> QED BY <1>0, <1>2, <2>2, <2>3, <2>4, <2>5, <2>6 DEF req
<1> QED BY <1>1, <1>2

\* A ROM load: master 0 is shown the ROM's read channel.
LEMMA RomShown ==
    ASSUME Granted, running
    PROVE  RomLoads
<1> SUFFICES ASSUME NEW a \in Addresses \ Unrouted, Region[a] = "ROM"
             PROVE  core_mem_rdata(LoadOf(a)) = RomData[a]
  BY DEF RomLoads
<1> DEFINE req == Requests(LoadOf(a))
<1>1. LoadOf(a) \in Accesses /\ LoadOf(a).addr = a /\ LoadOf(a).kind # "store"
  BY DEF Accesses, LoadOf
<1>2. Bus!SlaveAr("ROM", req).addr = a BY <1>1, SlavesSee
<1>3. SlaveRdata("ROM", req) = RomData[a]
  <2>1. "ROM" # "SRAM" OBVIOUS
  <2> QED BY <1>2, <2>1, Zenon DEF SlaveRdata
<1>4. Bus!ReadSlave[0] = "ROM"
  <2>1. 0 \in 0 .. 3 OBVIOUS
  <2>2. 0 # 1 /\ 0 # 2 /\ 0 # 3 OBVIOUS
  <2> QED BY <2>1, <2>2, Zenon DEF Bus!ReadSlave
<1>5. ar_grant_master = 0 BY DEF Granted
<1>6. m0_rdata(req) = RomData[a] BY <1>3, <1>4, <1>5 DEF m0_rdata
<1> QED BY <1>1, <1>6 DEF core_mem_rdata

----------------------------------------------------------------------------
(* The steps                                                               *)

\* The address the controller is shown is an address, so it names a cell.
LEMMA CellShown ==
    ASSUME NEW acc \in Accesses, wear_ptr \in 0 .. WearRange - 1
    PROVE  LET cell == Nvm!Cell(NvmAddress(Requests(acc))) IN
           /\ cell \in Cells
           /\ NvmWrites(Requests(acc)) =>
                 /\ s4_rd_state = "00" /\ acc.kind = "store"
                 /\ Region[acc.addr] = "NVM" /\ cell = Nvm!Cell(acc.addr)
                 /\ acc.data \in Words
           /\ NvmReads(Requests(acc)) => s4_rd_state = "00" /\ acc.kind # "store"
<1> DEFINE req == Requests(acc)
<1>1. NvmAddress(req) \in Addresses BY SlavesSee DEF NvmAddress
<1>2. Nvm!Cell(NvmAddress(req)) \in Cells
  BY <1>1, NvmAssumption DEF Nvm!Cell
<1>3. ASSUME NvmWrites(req)
      PROVE  /\ s4_rd_state = "00" /\ acc.kind = "store"
             /\ Region[acc.addr] = "NVM" /\ NvmAddress(req) = acc.addr
  BY <1>3, SlavesSee DEF NvmWrites, NvmAddress
<1>4. acc.kind = "store" => acc.data \in Words
  BY DEF Accesses, LoadOf, StoreOf
<1>5. NvmReads(req) => s4_rd_state = "00" /\ acc.kind # "store"
  BY SlavesSee DEF NvmReads
<1> QED BY <1>2, <1>3, <1>4, <1>5

\* A write stores a whole codeword and leaves no failed bit behind.
LEMMA CycleCells ==
    ASSUME CellsHold, NEW acc \in Accesses, NEW awake \in BOOLEAN,
           wear_ptr \in 0 .. WearRange - 1, NvmEdge(Requests(acc), awake)
    PROVE  CellsHold'
<1> DEFINE req == Requests(acc)
           cell == Nvm!Cell(NvmAddress(req))
<1> USE DEF CellsHold
<1>1. CASE ~awake \/ ~NvmWrites(req)
  <2>1. mem' = mem /\ truth' = truth /\ failed' = failed
    BY <1>1 DEF NvmEdge, nvm, Nvm!Clock, Nvm!Write
  <2> QED BY <2>1
<1>2. CASE awake /\ NvmWrites(req)
  <2>1. cell \in Cells /\ acc.data \in Words BY <1>2, CellShown
  <2>2. req[0].wdata = acc.data BY CoreAsks
  <2>3. /\ truth' = [truth EXCEPT ![cell] = acc.data]
        /\ failed' = [failed EXCEPT ![cell] = {}]
        /\ mem' = [mem EXCEPT ![cell] = Codeword(acc.data)]
    <3>1. Nvm!Write(TRUE, NvmAddress(req), acc.data)
          /\ truth' = [truth EXCEPT ![cell] = acc.data]
          /\ failed' = [failed EXCEPT ![cell] = {}]
      BY <1>2, <2>2, Zenon DEF NvmEdge, Nvm!Clock
    <3> QED BY <3>1, SameCode DEF Nvm!Write
  <2>4. Codeword(acc.data) \in SUBSET Positions
    BY <2>1, CodewordClean, WordTypes
  <2>5. SymDiff(Codeword(acc.data), {}) = Codeword(acc.data) BY DEF SymDiff
  <2>6. Cardinality({}) = 0 BY FS_EmptySet
  <2> HIDE DEF cell, req
  <2>7. /\ truth' \in [Cells -> Words \cup {Zero}]
        /\ mem' \in [Cells -> SUBSET Positions]
        /\ failed' \in [Cells -> SUBSET Positions]
    BY <2>1, <2>3, <2>4
  <2>8. ASSUME NEW c \in Cells
        PROVE  mem'[c] = SymDiff(Codeword(truth'[c]), failed'[c]) /\ Cardinality(failed'[c]) <= 2
    <3>1. CASE c = cell BY <2>3, <2>5, <2>6, <3>1
    <3>2. CASE c # cell BY <2>3, <3>2
    <3> QED BY <3>1, <3>2
  <2> QED BY <2>7, <2>8
<1> QED BY <1>1, <1>2

\* A failing bit is one more flipped bit, and not the third.
LEMMA UpsetOneMore ==
    ASSUME CellsHold, Upset
    PROVE  CellsHold'
<1> USE DEF CellsHold
<1>1. PICK c \in UpsetCells, p \in UpsetPositions :
         /\ p \notin failed[c] /\ Cardinality(failed[c]) < MaxUpsets
         /\ mem' = [mem EXCEPT ![c] = SymDiff(mem[c], {p})]
         /\ failed' = [failed EXCEPT ![c] = failed[c] \cup {p}]
         /\ truth' = truth
  BY DEF Upset
<1>2. c \in Cells /\ p \in Positions BY NvmAssumption
<1>3. SymDiff(mem[c], {p}) = SymDiff(Codeword(truth[c]), failed[c] \cup {p})
  BY <1>1, <1>2 DEF SymDiff
<1>4. IsFiniteSet(failed[c]) /\ Cardinality(failed[c]) \in Nat
  BY <1>2, WordsFinite, FS_CardinalityType
<1>5. Cardinality(failed[c] \cup {p}) <= 2
  <2>1. Cardinality(failed[c] \cup {p}) = Cardinality(failed[c]) + 1
    BY <1>1, <1>4, FS_AddElement
  <2>2. Cardinality(failed[c]) < 2 BY <1>1 DEF MaxUpsets
  <2> QED BY <1>4, <2>1, <2>2
<1>6. SymDiff(mem[c], {p}) \in SUBSET Positions BY <1>2 DEF SymDiff
<1>7. /\ mem' \in [Cells -> SUBSET Positions] /\ failed' \in [Cells -> SUBSET Positions]
  BY <1>1, <1>2, <1>6
<1>8. ASSUME NEW b \in Cells
      PROVE  mem'[b] = SymDiff(Codeword(truth'[b]), failed'[b]) /\ Cardinality(failed'[b]) <= 2
  <2>1. CASE b = c BY <1>1, <1>2, <1>3, <1>5, <2>1
  <2>2. CASE b # c BY <1>1, <1>2, <2>2
  <2> QED BY <2>1, <2>2
<1> QED BY <1>1, <1>7, <1>8

ReadStates == {"00", "01", "10", "11"}

\* The moves of the read state machine, one by one.
LEMMA ReadMoves ==
    ASSUME NEW req, ReadEdge(req), s4_rd_state \in ReadStates
    PROVE  /\ NvmReads(req) => s4_rd_state' = "01"
           /\ s4_rd_state = "00" /\ ~NvmReads(req) => s4_rd_state' = "00"
           /\ s4_rd_state = "01" => s4_rd_state' = "10"
           /\ s4_rd_state = "10" => s4_rd_state' = "11"
           /\ s4_rd_state = "11" => s4_rd_state' \in {"11", "00"}
<1>0. /\ "00" # "01" /\ "00" # "10" /\ "00" # "11" /\ "01" # "10"
      /\ "01" # "11" /\ "10" # "11"
  OBVIOUS
<1>1. NvmReads(req) => s4_rd_state = "00" BY Zenon DEF NvmReads
<1>2. CASE NvmReads(req)
  <2>1. s4_rd_state = "00" BY <1>1, <1>2
  <2>2. s4_rd_state' = "01" BY <1>0, <1>2, <2>1, Zenon DEF ReadEdge
  <2> QED BY <1>0, <1>2, <2>1, <2>2, Zenon
<1>3. CASE ~NvmReads(req) /\ s4_rd_state = "00"
  <2>1. s4_rd_state' = "00" BY <1>0, <1>3, Zenon DEF ReadEdge
  <2> QED BY <1>0, <1>3, <2>1, Zenon
<1>4. CASE ~NvmReads(req) /\ s4_rd_state = "01"
  <2>1. s4_rd_state' = "10" BY <1>0, <1>4, Zenon DEF ReadEdge
  <2> QED BY <1>0, <1>4, <2>1, Zenon
<1>5. CASE ~NvmReads(req) /\ s4_rd_state = "10"
  <2>1. s4_rd_state' = "11" BY <1>0, <1>5, Zenon DEF ReadEdge
  <2> QED BY <1>0, <1>5, <2>1, Zenon
<1>6. CASE ~NvmReads(req) /\ s4_rd_state = "11"
  <2>1. CASE Bus!rready(req)
    <3>1. s4_rd_state' = "00" BY <1>0, <1>6, <2>1, Zenon DEF ReadEdge
    <3> QED BY <1>0, <1>6, <3>1, Zenon
  <2>2. CASE ~Bus!rready(req)
    <3>1. s4_rd_state' = "11" BY <1>0, <1>6, <2>2, Zenon DEF ReadEdge
    <3> QED BY <1>0, <1>6, <3>1, Zenon
  <2> QED BY <2>1, <2>2
<1> QED BY <1>2, <1>3, <1>4, <1>5, <1>6 DEF ReadStates

LEMMA ObserveMoves ==
    ASSUME NEW req, NEW awake \in BOOLEAN, Observe(req, awake), s4_rd_state \in ReadStates
    PROVE  LET cell == Nvm!Cell(NvmAddress(req)) IN
           /\ NvmReads(req) =>
                reading' = [word |-> truth[cell], failed |-> failed[cell],
                            ok |-> awake /\ ~o_busy /\ ~read_valid]
           /\ ~NvmReads(req) /\ s4_rd_state = "01" =>
                reading' = [reading EXCEPT !.ok = reading.ok /\ awake]
           /\ ~NvmReads(req) /\ s4_rd_state # "01" => reading' = reading
<1>1. NvmReads(req) => s4_rd_state # "01" BY DEF NvmReads
<1> QED BY <1>1, Zenon DEF Observe

\* One edge of the controller, as the reading under way sees it.
LEMMA CycleReading ==
    ASSUME TypeOK, CellsHold, reading \in Readings, InStep,
           NEW acc \in Accesses, NEW awake \in BOOLEAN,
           NvmEdge(Requests(acc), awake), ReadEdge(Requests(acc)),
           Observe(Requests(acc), awake)
    PROVE  reading' \in Readings /\ InStep'
<1> DEFINE req == Requests(acc)
           cell == Nvm!Cell(NvmAddress(req))
<1>0. /\ s4_rd_state \in ReadStates /\ wear_ptr \in 0 .. WearRange - 1
      /\ cell \in Cells /\ (NvmReads(req) => s4_rd_state = "00")
  <2>1. s4_rd_state \in ReadStates /\ wear_ptr \in 0 .. WearRange - 1
    BY DEF TypeOK, Nvm!TypeOK, ReadStates
  <2> QED BY <2>1, CellShown
<1>1. /\ awake => Nvm!Read(NvmReads(req), NvmAddress(req))
      /\ ~awake => UNCHANGED nvm
  BY DEF NvmEdge, Nvm!Clock
<1>2. /\ s4_rvalid' => (s4_rd_state = "10" \/ (s4_rvalid /\ s4_rd_state' # "00"))
      /\ s4_rdata' = IF s4_rd_state = "10" THEN o_rd_data ELSE s4_rdata
  BY Zenon DEF ReadEdge
<1>3. s4_rvalid => s4_rd_state = "11" BY DEF InStep
<1>4. /\ NvmReads(req) => s4_rd_state' = "01"
      /\ s4_rd_state = "00" /\ ~NvmReads(req) => s4_rd_state' = "00"
      /\ s4_rd_state = "01" => s4_rd_state' = "10"
      /\ s4_rd_state = "10" => s4_rd_state' = "11"
      /\ s4_rd_state = "11" => s4_rd_state' \in {"11", "00"}
  BY <1>0, ReadMoves
<1>5. s4_rvalid' => s4_rd_state' = "11"
  BY <1>0, <1>2, <1>3, <1>4 DEF ReadStates
<1>6. CASE NvmReads(req)
  <2> DEFINE r == [word |-> truth[cell], failed |-> failed[cell],
                   ok |-> awake /\ ~o_busy /\ ~read_valid]
  <2>1. reading' = r BY <1>0, <1>6, ObserveMoves
  <2>2. /\ truth[cell] \in Words \cup {Zero} /\ failed[cell] \in SUBSET Positions
        /\ Cardinality(failed[cell]) <= 2 /\ mem[cell] = Damaged(r)
    BY <1>0 DEF CellsHold, Damaged
  <2>3. (awake /\ ~o_busy /\ ~read_valid) \in BOOLEAN OBVIOUS
  <2>4. r \in Readings BY <2>2, <2>3 DEF Readings
  <2>5. s4_rd_state' = "01" BY <1>4, <1>6
  <2>6. ASSUME r.ok PROVE read_valid' /\ read_word' = Damaged(r)
    <3>1. awake /\ ~o_busy /\ ~read_valid BY <2>6
    <3>2. Nvm!Starts(NvmReads(req)) BY <1>6, <3>1 DEF Nvm!Starts
    <3>3. read_word' = mem[cell] /\ read_valid'
      BY <1>1, <3>1, <3>2 DEF Nvm!Read
    <3> QED BY <2>2, <3>3
  <2>7. reading'.ok => read_valid' /\ read_word' = Damaged(reading')
    BY <2>1, <2>6
  <2>8. reading' \in Readings BY <2>1, <2>4
  <2> HIDE DEF r
  <2>9. s4_rd_state' \notin {"10", "11"} /\ s4_rd_state' # "11" BY <2>5
  <2>10. (Damaged(reading))' = Damaged(reading') BY DEF Damaged
  <2> QED BY <1>5, <2>7, <2>8, <2>9, <2>10, Zenon DEF InStep
<1>7. CASE ~NvmReads(req) /\ s4_rd_state = "00"
  <2>1. reading' = reading BY <1>0, <1>7, ObserveMoves
  <2>2. s4_rd_state' = "00" BY <1>4, <1>7
  <2>3. s4_rd_state' \notin {"01", "10", "11"} BY <2>2
  <2> QED BY <1>5, <2>1, <2>3 DEF InStep
<1>8. CASE s4_rd_state = "01"
  <2> DEFINE r == [reading EXCEPT !.ok = reading.ok /\ awake]
  <2>1. reading' = r BY <1>0, <1>8, ObserveMoves
  <2>2. /\ r.word = reading.word /\ r.failed = reading.failed
        /\ (r.ok <=> reading.ok /\ awake) /\ r \in Readings
    <3>1. (reading.ok /\ awake) \in BOOLEAN OBVIOUS
    <3> QED BY <3>1 DEF Readings
  <2>3. Damaged(r) = Damaged(reading) BY <2>2 DEF Damaged
  <2>4. s4_rd_state' = "10" BY <1>4, <1>8
  <2>5. ASSUME r.ok
        PROVE  /\ ~read_valid' /\ o_rd_data' = Corrected(Damaged(r))
               /\ o_ecc_single_err' <=> SingleErr(Damaged(r))
               /\ o_ecc_double_err' <=> DoubleErr(Damaged(r))
    <3>1. reading.ok /\ awake BY <2>2, <2>5
    <3>2. read_valid /\ read_word = Damaged(r) BY <1>8, <2>3, <3>1 DEF InStep
    <3>3. ~read_valid' BY <1>1, <3>1, <3>2, Zenon DEF Nvm!Read
    <3>4. /\ o_rd_data' = Nvm!Corrected(read_word)
          /\ o_ecc_single_err' = Nvm!SingleErr(read_word)
          /\ o_ecc_double_err' = Nvm!DoubleErr(read_word)
      BY <1>1, <3>1, <3>2, Zenon DEF Nvm!Read
    <3>5. o_rd_data' = Corrected(Damaged(r)) BY <3>2, <3>4, SameCode
    <3>6. o_ecc_single_err' <=> SingleErr(Damaged(r)) BY <3>2, <3>4, SameCode
    <3>7. o_ecc_double_err' <=> DoubleErr(Damaged(r)) BY <3>2, <3>4, SameCode
    <3> QED BY <3>3, <3>5, <3>6, <3>7
  <2> HIDE DEF r
  <2>6. s4_rd_state' # "01" /\ s4_rd_state' # "11" BY <2>4
  <2>7. (Damaged(reading))' = Damaged(r) BY <2>1 DEF Damaged
  <2> QED BY <1>5, <2>1, <2>2, <2>5, <2>6, <2>7, Zenon DEF InStep
<1>9. CASE s4_rd_state \in {"10", "11"}
  <2>1. ~NvmReads(req) BY <1>0, <1>9
  <2>2. reading' = reading BY <1>0, <1>9, <2>1, ObserveMoves
  <2>3. s4_rd_state' \in {"00", "11"} BY <1>4, <1>9
  <2>4. ASSUME reading.ok
        PROVE  /\ ~read_valid'
               /\ UNCHANGED <<o_rd_data, o_ecc_single_err, o_ecc_double_err>>
               /\ s4_rdata' = Corrected(Damaged(reading))
    <3>1. ~read_valid /\ o_rd_data = Corrected(Damaged(reading))
      BY <1>9, <2>4 DEF InStep
    <3>2. s4_rdata' = Corrected(Damaged(reading))
      BY <1>2, <1>9, <2>4, <3>1 DEF InStep
    <3>3. CASE awake
      <4>1. ~Nvm!Starts(NvmReads(req)) BY <2>1 DEF Nvm!Starts
      <4> QED BY <1>1, <3>1, <3>2, <3>3, <4>1 DEF Nvm!Read
    <3>4. CASE ~awake BY <1>1, <3>1, <3>2, <3>4 DEF nvm
    <3> QED BY <3>3, <3>4
  <2>5. (Damaged(reading))' = Damaged(reading) BY <2>2 DEF Damaged
  <2>6. s4_rd_state' # "01" BY <2>3
  <2>7. ASSUME reading.ok
        PROVE  /\ o_rd_data = Corrected(Damaged(reading))
               /\ o_ecc_single_err <=> SingleErr(Damaged(reading))
               /\ o_ecc_double_err <=> DoubleErr(Damaged(reading))
    BY <1>9, <2>7 DEF InStep
  <2>8. ASSUME reading.ok
        PROVE  /\ ~read_valid'
               /\ o_rd_data' = Corrected(Damaged(reading))
               /\ o_ecc_single_err' <=> SingleErr(Damaged(reading))
               /\ o_ecc_double_err' <=> DoubleErr(Damaged(reading))
               /\ s4_rdata' = Corrected(Damaged(reading))
    BY <2>4, <2>7, <2>8
  <2>9. reading' \in Readings /\ (reading'.ok <=> reading.ok) BY <2>2
  <2> QED BY <1>5, <2>5, <2>6, <2>8, <2>9, Zenon DEF InStep
<1> QED BY <1>0, <1>6, <1>7, <1>8, <1>9 DEF ReadStates

\* The registers keep their types in a cycle.
LEMMA CycleTypes ==
    ASSUME TypeOK, CellsHold, NEW acc \in Accesses, NEW awake \in BOOLEAN,
           Cycle(acc, awake)
    PROVE  TypeOK'
<1> DEFINE req == Requests(acc)
           cell == Nvm!Cell(NvmAddress(req))
<1> USE DEF TypeOK
<1>1. /\ Bus!Clock(req) /\ SramEdge(req) /\ NvmEdge(req, awake) /\ ReadEdge(req)
  BY DEF Cycle
<1>2. /\ cell \in Cells /\ wear_ptr \in 0 .. WearRange - 1
  BY CellShown DEF Nvm!TypeOK
<1>3. CellsHold' BY <1>1, <1>2, CycleCells
<1>4. /\ mem' \in [Cells -> SUBSET Positions] /\ truth' \in [Cells -> Words \cup {Zero}]
  BY <1>3 DEF CellsHold
<1>5. ar_grant_master' \in {0, Bus!NoMaster}
  BY <1>1, SlavesSee
<1>6. s4_rd_state' \in {"00", "01", "10", "11"}
  BY <1>1, ReadMoves DEF ReadStates
<1>7. s4_rvalid' \in BOOLEAN BY <1>1, Zenon DEF ReadEdge
<1>8. s4_rdata' \subseteq DataPositions
  <2>1. s4_rdata' \in {o_rd_data, s4_rdata} BY <1>1, Zenon DEF ReadEdge
  <2> QED BY <2>1, SameCode DEF Nvm!TypeOK
<1>9. sram' \in [SramAddresses -> Words \cup {Zero}]
  <2>1. CASE Bus!SlaveAw("SRAM", req).valid
    <3>1. /\ acc.kind = "store" /\ Bus!SlaveAw("SRAM", req).addr = acc.addr
          /\ Bus!SlaveWdata("SRAM", req) = acc.data
      BY <2>1, SlavesSee
    <3>2. acc.data \in Words BY <3>1 DEF Accesses, LoadOf, StoreOf
    <3>3. sram' = sram \/ sram' = [sram EXCEPT ![acc.addr] = acc.data]
      BY <1>1, <3>1 DEF SramEdge
    <3> QED BY <3>2, <3>3
  <2>2. CASE ~Bus!SlaveAw("SRAM", req).valid BY <1>1, <2>2 DEF SramEdge
  <2> QED BY <2>1, <2>2
<1>10. Nvm!TypeOK'
  <2> USE DEF Nvm!TypeOK
  <2>1. CASE ~awake BY <1>1, <2>1 DEF NvmEdge, nvm
  <2>2. CASE awake
    <3>1. Nvm!Clock(NvmAddress(req), NvmReads(req), NvmWrites(req), req[0].wdata)
      BY <1>1, <2>2, Zenon DEF NvmEdge
    <3>2. wear_ptr' \in 0 .. WearRange - 1
      <4>1. wear_ptr' \in {wear_ptr, (wear_ptr + 1) % WearRange}
        BY <3>1 DEF Nvm!Clock, Nvm!Write
      <4>2. (wear_ptr + 1) % WearRange \in 0 .. WearRange - 1
        BY <1>2, NvmAssumption
      <4> QED BY <1>2, <4>1, <4>2
    <3>3. read_word' \in SUBSET Positions
      <4>1. read_word' \in {read_word, mem[cell]}
        BY <3>1 DEF Nvm!Clock, Nvm!Read
      <4> QED BY <1>2, <4>1, SameCode DEF CellsHold
    <3>4. o_rd_data' \in SUBSET DataPositions
      <4>1. o_rd_data' \in {o_rd_data, Nvm!Corrected(read_word)}
        BY <3>1 DEF Nvm!Clock, Nvm!Read
      <4>2. Corrected(read_word) \in SUBSET DataPositions
        BY SameCode, CorrectedType
      <4> QED BY <4>1, <4>2, SameCode
    <3>5. read_valid' \in BOOLEAN /\ o_busy' \in BOOLEAN
      <4>1. NvmWrites(req) \in BOOLEAN BY Zenon DEF NvmWrites
      <4>2. o_busy' = NvmWrites(req) BY <3>1, Zenon DEF Nvm!Clock, Nvm!Write
      <4>3. read_valid' \in BOOLEAN BY <3>1, Zenon DEF Nvm!Clock, Nvm!Read
      <4> QED BY <4>1, <4>2, <4>3
    <3>6. o_ecc_single_err' \in BOOLEAN /\ o_ecc_double_err' \in BOOLEAN
      <4>1. CASE read_valid
        BY <3>1, <4>1, Zenon DEF Nvm!Clock, Nvm!Read, Nvm!SingleErr, Nvm!DoubleErr
      <4>2. CASE ~read_valid
        <5>1. o_ecc_single_err' = o_ecc_single_err /\ o_ecc_double_err' = o_ecc_double_err
          BY <3>1, <4>2 DEF Nvm!Clock, Nvm!Read
        <5> QED BY <5>1
      <4> QED BY <4>1, <4>2
    <3>7. {read_valid', o_busy', o_ecc_single_err', o_ecc_double_err'} \subseteq BOOLEAN
      BY <3>5, <3>6, Zenon
    <3> QED BY <1>4, <3>2, <3>3, <3>4, <3>7, SameCode
  <2> QED BY <2>1, <2>2
<1> QED BY <1>4, <1>5, <1>6, <1>7, <1>8, <1>9, <1>10

LEMMA CycleKeeps ==
    ASSUME MemoryInv, NEW acc \in Accesses, NEW awake \in BOOLEAN, Cycle(acc, awake),
           running \/ acc.kind # "store"
    PROVE  MemoryInv'
<1> DEFINE req == Requests(acc)
<1> USE DEF MemoryInv
<1>1. /\ Bus!Clock(req) /\ NvmEdge(req, awake) /\ ReadEdge(req) /\ Observe(req, awake)
  BY DEF Cycle
<1>2. TypeOK' BY CycleTypes
<1>3. CellsHold' BY <1>1, CycleCells DEF TypeOK, Nvm!TypeOK
<1>4. reading' \in Readings /\ InStep' BY <1>1, CycleReading
<1>5. Granted'
  <2>1. ar_grant_master' = IF acc.kind # "store" THEN 0 ELSE ar_grant_master
    BY <1>1, SlavesSee
  <2> QED BY <2>1 DEF Granted
<1> QED BY <1>2, <1>3, <1>4, <1>5

LEMMA InitHolds ==
    ASSUME Init PROVE MemoryInv
<1> USE DEF Init, Bus!Init, Nvm!Init
<1>1. Codeword({}) = {}
  <2>1. ~Odd({})
    <3>1. Cardinality({}) = 0 BY FS_EmptySet
    <3> QED BY <3>1 DEF Odd
  <2>2. \A c \in CheckPositions : {p \in {} : c \in BitsOf(p)} = {} OBVIOUS
  <2>3. CheckBits({}) = {} BY <2>1, <2>2 DEF CheckBits
  <2> QED BY <2>1, <2>3 DEF Codeword
<1>2. TypeOK
  <2>1. wear_ptr \in 0 .. WearRange - 1 BY NvmAssumption
  <2>2. {read_valid, o_busy, o_ecc_single_err, o_ecc_double_err} \subseteq BOOLEAN
    BY Zenon
  <2>3. Nvm!TypeOK BY <2>1, <2>2 DEF Nvm!TypeOK
  <2>4. s4_rvalid \in BOOLEAN BY Zenon
  <2>5. /\ ar_grant_master \in {0, Bus!NoMaster}
        /\ s4_rd_state \in {"00", "01", "10", "11"} /\ s4_rdata \subseteq DataPositions
        /\ truth \in [Cells -> Words \cup {Zero}]
    BY DEF Zero
  <2> QED BY <2>3, <2>4, <2>5 DEF TypeOK
<1>3. CellsHold
  <2>1. Cardinality({}) = 0 BY FS_EmptySet
  <2>2. SymDiff(Codeword(Zero), {}) = {} BY <1>1 DEF SymDiff, Zero
  <2> QED BY <2>1, <2>2 DEF CellsHold
<1>4. reading \in Readings /\ InStep
  <2>1. Cardinality({}) = 0 /\ FALSE \in BOOLEAN BY FS_EmptySet
  <2>2. NoRead \in [word : Words \cup {Zero}, failed : SUBSET Positions, ok : BOOLEAN]
    BY <2>1 DEF NoRead
  <2>3. NoRead.failed = {} /\ ~NoRead.ok BY DEF NoRead
  <2>4. reading \in Readings BY <2>1, <2>2, <2>3 DEF Readings
  <2> QED BY <2>3, <2>4 DEF InStep
<1>5. Granted BY DEF Granted
<1> QED BY <1>2, <1>3, <1>4, <1>5 DEF MemoryInv

LEMMA NextKeeps ==
    ASSUME MemoryInv, [Next]_vars PROVE MemoryInv'
<1>1. ASSUME NEW awake \in BOOLEAN, Cycle(NoAccess, awake) PROVE MemoryInv'
  <2>1. NoAccess \in Accesses /\ NoAccess.kind # "store"
    BY MapAssumption DEF NoAccess, Accesses, LoadOf
  <2> QED BY <1>1, <2>1, CycleKeeps
<1>2. ASSUME NEW a \in Addresses, NEW awake \in BOOLEAN, running, Cycle(LoadOf(a), awake)
      PROVE  MemoryInv'
  <2>1. LoadOf(a) \in Accesses BY DEF Accesses
  <2> QED BY <1>2, <2>1, CycleKeeps
<1>3. ASSUME NEW a \in Addresses, NEW w \in Words, NEW awake \in BOOLEAN, running,
             Cycle(StoreOf(a, w), awake)
      PROVE  MemoryInv'
  <2>1. StoreOf(a, w) \in Accesses BY DEF Accesses
  <2> QED BY <1>3, <2>1, CycleKeeps
<1>4. CASE Upset
  <2>1. CellsHold' BY <1>4, UpsetOneMore DEF MemoryInv
  <2>2. /\ UNCHANGED <<ar_grant_master, sram, wear_ptr, read_word, read_valid,
                       o_rd_data, o_busy, o_ecc_single_err, o_ecc_double_err,
                       read, running, truth>>
    BY <1>4 DEF Upset
  <2>3. /\ reading' = reading /\ s4_rd_state' = s4_rd_state /\ s4_rvalid' = s4_rvalid
        /\ s4_rdata' = s4_rdata
    BY <2>2 DEF read
  <2>4. TypeOK'
    <3>1. mem' \in [Cells -> SUBSET Positions] BY <2>1 DEF CellsHold
    <3> QED BY <2>2, <2>3, <3>1, SameCode DEF MemoryInv, TypeOK, Nvm!TypeOK
  <2>5. InStep' BY <2>2, <2>3 DEF MemoryInv, InStep, Damaged
  <2>6. Granted' BY <2>2 DEF MemoryInv, Granted
  <2> QED BY <2>1, <2>3, <2>4, <2>5, <2>6 DEF MemoryInv
<1>5. CASE UNCHANGED vars
  BY <1>5 DEF vars, nvm, read, MemoryInv, TypeOK, Nvm!TypeOK, CellsHold, InStep,
              Damaged, Granted
<1> QED BY <1>1, <1>2, <1>3, <1>4, <1>5 DEF Next, Idle, Load, Store

LEMMA MemoryInvariant == Spec => []MemoryInv
BY InitHolds, NextKeeps, PTL DEF Spec

\* Of every address map, set of words and wear range: what a load from ROM and
\* a read of the NVM return, and the error flags beside it.
THEOREM LoadsCorrect == Spec => []LoadsAreAnswered
<1>1. ASSUME MemoryInv PROVE LoadsAreAnswered
  <2>1. RomLoads
    <3>1. CASE running BY <1>1, <3>1, RomShown DEF MemoryInv
    <3>2. CASE ~running BY <3>2 DEF RomLoads
    <3> QED BY <3>1, <3>2
  <2> QED BY <1>1, <2>1, InvAnswers DEF MemoryInv, LoadsAreAnswered
<1> QED BY <1>1, MemoryInvariant, PTL

\* The memory an access changes: none unless it is a store, and then one word
\* of the region it addresses.
LEMMA CycleStores ==
    ASSUME NEW acc \in Accesses, NEW awake \in BOOLEAN, Cycle(acc, awake)
    PROVE  /\ sram' # sram =>
                 /\ acc.kind = "store" /\ Region[acc.addr] = "SRAM"
                 /\ sram' = [sram EXCEPT ![acc.addr] = acc.data]
           /\ truth' # truth =>
                 /\ awake /\ acc.kind = "store" /\ Region[acc.addr] = "NVM"
                 /\ truth' = [truth EXCEPT ![Nvm!Cell(acc.addr)] = acc.data]
<1> DEFINE req == Requests(acc)
<1>1. SramEdge(req) /\ NvmEdge(req, awake) BY DEF Cycle
<1>2. ASSUME sram' # sram
      PROVE  /\ acc.kind = "store" /\ Region[acc.addr] = "SRAM"
             /\ sram' = [sram EXCEPT ![acc.addr] = acc.data]
  <2>1. /\ Bus!SlaveAw("SRAM", req).valid
        /\ sram' = [sram EXCEPT ![Bus!SlaveAw("SRAM", req).addr] = Bus!SlaveWdata("SRAM", req)]
    BY <1>1, <1>2 DEF SramEdge
  <2> QED BY <2>1, SlavesSee
<1>3. ASSUME truth' # truth
      PROVE  /\ awake /\ acc.kind = "store" /\ Region[acc.addr] = "NVM"
             /\ truth' = [truth EXCEPT ![Nvm!Cell(acc.addr)] = acc.data]
  <2>1. /\ awake /\ NvmWrites(req)
        /\ truth' = [truth EXCEPT ![Nvm!Cell(NvmAddress(req))] = req[0].wdata]
    BY <1>1, <1>3 DEF NvmEdge
  <2>2. /\ acc.kind = "store" /\ Region[acc.addr] = "NVM"
        /\ NvmAddress(req) = acc.addr /\ req[0].wdata = acc.data
    BY <2>1, SlavesSee, CoreAsks DEF NvmWrites, NvmAddress
  <2> QED BY <2>1, <2>2
<1> QED BY <1>2, <1>3

\* For every program of loads and stores: the SRAM and the NVM change only by
\* a store of the core to an address of theirs, and only at that word.
THEOREM StoresCorrect == Spec => StoresStayHome
<1> DEFINE Home ==
      /\ sram' # sram =>
           \E a \in SramAddresses, w \in Words, awake \in BOOLEAN :
              Cycle(StoreOf(a, w), awake) /\ sram' = [sram EXCEPT ![a] = w]
      /\ truth' # truth =>
           \E a \in NvmAddresses, w \in Words :
              /\ Cycle(StoreOf(a, w), TRUE)
              /\ truth' = [truth EXCEPT ![Nvm!Cell(a)] = w]
<1>1. ASSUME NEW a \in Addresses, NEW awake \in BOOLEAN, Cycle(LoadOf(a), awake)
      PROVE  Home
  <2>1. LoadOf(a) \in Accesses /\ LoadOf(a).kind # "store"
    BY DEF Accesses, LoadOf
  <2>2. sram' = sram /\ truth' = truth BY <1>1, <2>1, CycleStores
  <2> QED BY <2>2
<1>2. ASSUME NEW a \in Addresses, NEW w \in Words, NEW awake \in BOOLEAN,
             Cycle(StoreOf(a, w), awake)
      PROVE  Home
  <2>1. /\ StoreOf(a, w) \in Accesses /\ StoreOf(a, w).addr = a
        /\ StoreOf(a, w).data = w
    BY DEF Accesses, StoreOf
  <2>2. ASSUME sram' # sram
        PROVE  a \in SramAddresses /\ sram' = [sram EXCEPT ![a] = w]
    BY <1>2, <2>1, <2>2, CycleStores DEF SramAddresses
  <2>3. ASSUME truth' # truth
        PROVE  /\ a \in NvmAddresses /\ Cycle(StoreOf(a, w), TRUE)
               /\ truth' = [truth EXCEPT ![Nvm!Cell(a)] = w]
    <3>1. awake BY <1>2, <2>1, <2>3, CycleStores
    <3>2. awake = TRUE BY <3>1
    <3> QED BY <1>2, <2>1, <2>3, <3>2, CycleStores DEF NvmAddresses
  <2> QED BY <1>2, <2>2, <2>3
<1>3. ASSUME [Next]_vars PROVE Home
  <2>1. CASE Idle
    <3>1. Address0 \in Addresses BY MapAssumption
    <3> QED BY <1>1, <2>1, <3>1 DEF Idle, NoAccess
  <2>2. CASE Load BY <1>1, <2>2 DEF Load
  <2>3. CASE Store BY <1>2, <2>3 DEF Store
  <2>4. CASE Upset BY <2>4 DEF Upset
  <2>5. CASE UNCHANGED vars BY <2>5 DEF vars
  <2> QED BY <1>3, <2>1, <2>2, <2>3, <2>4, <2>5 DEF Next
<1>4. [Next]_vars => [Home]_vars BY <1>3
<1> QED BY <1>4, PTL DEF Spec, StoresStayHome
=============================================================================
