--------------------------- MODULE ProgramProofs ---------------------------
(***************************************************************************)
(* What programs are built with: what the walk of the LLVM pass keeps, for *)
(* every function it is given, and what becomes of the faults that come    *)
(* while a program runs, for every program of XcewPrograms.                *)
(***************************************************************************)
EXTENDS OptPass, XcewPrograms, TLAPS

\* All that is erased lies before the walk.
ErasedBefore == \A p \in erased : Before(p, Here)

\* An EML instruction the walk has passed and kept is the recorded one of its
\* node, or was gone past behind an erased one.
Accounted ==
    \A p \in Places :
        Before(p, Here) /\ IsEML(Instr(p)) /\ p \notin erased =>
            \/ BehindErased(p)
            \/ Node(Instr(p)) \in DOMAIN cse_map /\ cse_map[Node(Instr(p))] = p

\* The end is at the end of the last block.
DoneAtEnd == done => block = Len(MF) /\ at > Len(MF[block])

IInv ==
    /\ TypeOK
    /\ RecordedStay
    /\ ErasedBefore
    /\ OnlyRepeatsErased
    /\ Accounted
    /\ DoneAtEnd
    /\ ChangedTells
-----------------------------------------------------------------------------
\* Layout order is a strict order, and the walk only moves forward in it.
LEMMA BeforeIsStrict ==
    ASSUME NEW p \in Int \X Int, NEW q \in Int \X Int, NEW r \in Int \X Int
    PROVE  /\ ~Before(p, p)
           /\ Before(p, q) /\ Before(q, r) => Before(p, r)
BY SMT DEF Before

\* Places are pairs of numbers: a block and an index in it.
LEMMA PlacesArePairs ==
    ASSUME TypeOK
    PROVE  /\ Places \subseteq Int \X Int
           /\ \A p \in Places : /\ p = <<p[1], p[2]>>
                                /\ p[1] \in 1 .. Len(MF)
                                /\ p[2] \in 1 .. Len(MF[p[1]])
           /\ \A b \in 1 .. Len(MF) : Len(MF[b]) \in Nat
           /\ \A b \in 1 .. Len(MF), k \in Nat : k \in 1 .. Len(MF[b]) => <<b, k>> \in Places
           /\ Here \in Int \X Int
           /\ block \in Int /\ at \in Int /\ Len(MF) \in Nat
<1>1. \A b \in 1 .. Len(MF) : Len(MF[b]) \in Nat
  BY DEF TypeOK
<1>2. Len(MF) \in Nat
  BY DEF TypeOK
<1>3. Places \subseteq Int \X Int
  BY <1>1, <1>2 DEF Places
<1>4. \A p \in Places : p = <<p[1], p[2]>> /\ p[1] \in 1 .. Len(MF) /\ p[2] \in 1 .. Len(MF[p[1]])
  BY <1>1, <1>2 DEF Places
<1>5. \A b \in 1 .. Len(MF), k \in Nat : k \in 1 .. Len(MF[b]) => <<b, k>> \in Places
  BY <1>1, <1>2 DEF Places
<1>6. block \in Int /\ at \in Int
  BY <1>1, <1>2 DEF TypeOK
<1> QED
  BY <1>1, <1>2, <1>3, <1>4, <1>5, <1>6 DEF Here

\* Inside a block the walk is at a place of the function.
LEMMA HereIsPlace ==
    ASSUME TypeOK, InBlock
    PROVE  Here \in Places
<1>1. block \in 1 .. Len(MF) /\ at \in Nat /\ at \in 1 .. Len(MF[block])
  BY PlacesArePairs DEF TypeOK, InBlock
<1> QED
  BY <1>1, PlacesArePairs DEF Here

\* One instruction further, one place more lies before the walk; two further, two.
LEMMA Passed ==
    ASSUME TypeOK, InBlock, NEW q \in Places
    PROVE  /\ Before(q, <<block, at + 1>>) <=> Before(q, Here) \/ q = Here
           /\ Before(q, <<block, at + 2>>) =>
                  Before(q, Here) \/ q = Here \/ <<q[1], q[2] - 1>> = Here
           /\ Before(Here, <<block, at + 1>>) /\ Before(Here, <<block, at + 2>>)
<1>1. q = <<q[1], q[2]>> /\ q[1] \in Int /\ q[2] \in Int /\ block \in Int /\ at \in Int
  BY PlacesArePairs
<1> QED
  BY <1>1, SMT DEF Before, Here

\* Every place of the blocks so far lies before the walk at the end of a block.
LEMMA BlockPassed ==
    ASSUME TypeOK, at > Len(MF[block]), NEW q \in Places
    PROVE  /\ Before(q, <<block + 1, 1>>) => Before(q, Here)
           /\ block = Len(MF) => Before(q, Here)
           /\ Before(q, Here) => Before(q, <<block + 1, 1>>)
<1>1. /\ q[1] \in 1 .. Len(MF) /\ q[2] \in 1 .. Len(MF[q[1]])
      /\ block \in Int /\ at \in Int /\ Len(MF) \in Nat /\ q[1] \in Int /\ q[2] \in Int
      /\ Len(MF[q[1]]) \in Nat
  BY PlacesArePairs
<1>2. q[1] = block => q[2] < at
  BY <1>1
<1> QED
  BY <1>1, <1>2, SMT DEF Before, Here
-----------------------------------------------------------------------------
\* A function starts with nothing passed.
LEMMA InvariantInit == Init => IInv
<1> SUFFICES ASSUME Init PROVE IInv
  OBVIOUS
<1>1. MF \in Seq(Seq(Instructions)) /\ Len(MF) > 0
  BY FunctionsAssumption DEF Init
<1>2. Len(MF) \in Nat /\ Len(MF[1]) \in Nat
  BY <1>1
<1>3. DOMAIN cse_map = {} /\ erased = {} /\ Changed = FALSE /\ done = FALSE
  BY DEF Init
<1>4. TypeOK
  <2>1. block \in 1 .. Len(MF) /\ at \in 1 .. Len(MF[block]) + 1
    BY <1>1, <1>2 DEF Init
  <2> QED
    BY <1>1, <1>3, <2>1 DEF TypeOK
<1>5. \A p \in Places : ~Before(p, Here)
  <2> SUFFICES ASSUME NEW p \in Places PROVE ~Before(p, Here)
    OBVIOUS
  <2>1. p[1] \in 1 .. Len(MF) /\ p[2] \in 1 .. Len(MF[p[1]]) /\ Len(MF[p[1]]) \in Nat
    BY <1>4, PlacesArePairs
  <2>2. Here = <<1, 1>>
    BY DEF Init, Here
  <2> QED
    BY <1>2, <2>1, <2>2 DEF Before
<1> QED
  BY <1>3, <1>4, <1>5
  DEF IInv, RecordedStay, ErasedBefore, OnlyRepeatsErased, Accounted, DoneAtEnd, ChangedTells

\* The function itself is never changed.
LEMMA FunctionKept ==
    ASSUME MF' = MF
    PROVE  Places' = Places /\ \A p : Instr(p)' = Instr(p)
BY DEF Places, Instr

\* An instruction that is passed is neither recorded nor erased.
LEMMA PassKeeps == IInv /\ Pass => IInv'
<1> SUFFICES ASSUME IInv, Pass PROVE IInv'
  OBVIOUS
<1> USE DEF IInv
<1>0. /\ Here \in Places /\ Here' = <<block, at + 1>> /\ MF' = MF
      /\ cse_map' = cse_map /\ erased' = erased /\ ~done /\ ~done'
  BY HereIsPlace DEF Pass, Here, InBlock
<1>1. \A q \in Places : Before(q, Here') <=> Before(q, Here) \/ q = Here
  BY <1>0, Passed DEF Pass
<1>2. TypeOK'
  <2>1. at + 1 \in 1 .. Len(MF[block]) + 1
    BY PlacesArePairs DEF TypeOK, Pass, InBlock
  <2> QED
    BY <1>0, <2>1, FunctionKept DEF TypeOK, Pass
<1>3. RecordedStay'
  BY <1>0, <1>1, FunctionKept DEF RecordedStay, TypeOK, Pass
<1>4. ErasedBefore'
  BY <1>0, <1>1 DEF ErasedBefore, TypeOK
<1>5. OnlyRepeatsErased'
  BY <1>0, FunctionKept DEF OnlyRepeatsErased, Repeats, Kept
<1>6. Accounted'
  BY <1>0, <1>1, FunctionKept DEF Accounted, BehindErased, Pass
<1>7. DoneAtEnd' /\ ChangedTells'
  BY <1>0 DEF DoneAtEnd, ChangedTells, Pass
<1> QED
  BY <1>2, <1>3, <1>4, <1>5, <1>6, <1>7

\* A new node is recorded at a place that was not erased.
LEMMA RecordKeeps == IInv /\ Record => IInv'
<1> SUFFICES ASSUME IInv, Record PROVE IInv'
  OBVIOUS
<1> USE DEF IInv
<1>0. /\ Here \in Places /\ Here' = <<block, at + 1>> /\ MF' = MF
      /\ erased' = erased /\ ~done /\ ~done' /\ Changed' = Changed
  BY HereIsPlace DEF Record, Here, InBlock
<1>1. /\ \A q \in Places : Before(q, Here') <=> Before(q, Here) \/ q = Here
      /\ Before(Here, Here')
  BY <1>0, Passed DEF Record
<1>2. Here \notin erased
  BY <1>0, PlacesArePairs, BeforeIsStrict DEF ErasedBefore
<1> DEFINE node == Node(Instr(Here))
<1>3. /\ node \notin DOMAIN cse_map
      /\ DOMAIN cse_map' = DOMAIN cse_map \union {node}
      /\ cse_map'[node] = Here
      /\ \A n \in DOMAIN cse_map : cse_map'[n] = cse_map[n]
      /\ IsEML(Instr(Here))
  BY DEF Record
<1>4. TypeOK'
  <2>1. at + 1 \in 1 .. Len(MF[block]) + 1
    BY PlacesArePairs DEF TypeOK, Record, InBlock
  <2>2. \A n \in DOMAIN cse_map' : cse_map'[n] \in Places
    BY <1>0, <1>3 DEF TypeOK
  <2> QED
    BY <1>0, <2>1, <2>2, FunctionKept DEF TypeOK, Record
<1>5. RecordedStay'
  BY <1>0, <1>1, <1>2, <1>3, FunctionKept DEF RecordedStay, TypeOK, Node, IsEML
<1>6. ErasedBefore'
  BY <1>0, <1>1 DEF ErasedBefore, TypeOK
<1>7. OnlyRepeatsErased'
  BY <1>0, FunctionKept DEF OnlyRepeatsErased, Repeats, Kept
<1>8. Accounted'
  BY <1>0, <1>1, <1>3, FunctionKept DEF Accounted, BehindErased, Node, IsEML
<1>9. DoneAtEnd' /\ ChangedTells'
  BY <1>0 DEF DoneAtEnd, ChangedTells
<1> QED
  BY <1>4, <1>5, <1>6, <1>7, <1>8, <1>9

\* An erased instruction repeats the recorded one of its node, which stays.
LEMMA EraseKeeps == IInv /\ Erase => IInv'
<1> SUFFICES ASSUME IInv, Erase PROVE IInv'
  OBVIOUS
<1> USE DEF IInv
<1>0. /\ Here \in Places /\ MF' = MF /\ cse_map' = cse_map
      /\ erased' = erased \union {Here} /\ ~done /\ ~done' /\ InBlock
      /\ Changed' = (Changed \/ ~AtEnd) /\ IsEML(Instr(Here))
  BY HereIsPlace DEF Erase, InBlock
<1>1. /\ \A q \in Places : Before(q, Here) => Before(q, Here')
      /\ Before(Here, Here')
      /\ \A q \in Places : Before(q, Here') =>
            Before(q, Here) \/ q = Here \/ <<q[1], q[2] - 1>> = Here
  <2>1. Here' = <<block, at + 1>> \/ Here' = <<block, at + 2>>
    BY DEF Erase, AfterErase, Here
  <2>2. Here \in Int \X Int /\ Here' \in Int \X Int /\ Places \subseteq Int \X Int
    BY <2>1, PlacesArePairs
  <2>3. Before(Here, Here')
    BY <1>0, <2>1, Passed
  <2> QED
    BY <1>0, <2>1, <2>2, <2>3, Passed, BeforeIsStrict
<1> DEFINE node == Node(Instr(Here))
       first == cse_map[node]
<1>2. /\ node \in DOMAIN cse_map /\ first \in Places
      /\ Node(Instr(first)) = node /\ IsEML(Instr(first))
      /\ first \notin erased /\ Before(first, Here)
  BY DEF Erase, RecordedStay, TypeOK
<1>3. ~Before(Here, Here)
  BY <1>0, PlacesArePairs, BeforeIsStrict
<1>4. TypeOK'
  <2>1. at \in Nat /\ Len(MF[block]) \in Nat /\ at >= 1 /\ at <= Len(MF[block])
    BY <1>0, PlacesArePairs DEF TypeOK, InBlock
  <2>2. at' = IF at = Len(MF[block]) THEN at + 1 ELSE at + 2
    BY <1>0 DEF Erase, AfterErase, AtEnd
  <2>3. at' \in 1 .. Len(MF[block]) + 1
    BY <2>1, <2>2
  <2> QED
    BY <1>0, <2>3, FunctionKept DEF TypeOK, Erase
<1>5. RecordedStay'
  BY <1>0, <1>1, <1>3, FunctionKept DEF RecordedStay, TypeOK, Node, IsEML
<1>6. ErasedBefore'
  BY <1>0, <1>1 DEF ErasedBefore, TypeOK
<1>7. OnlyRepeatsErased'
  <2>1. Same(Instr(first), Instr(Here)) /\ first # Here
    BY <1>2, <1>3 DEF Node, Same
  <2>2. \A p \in erased : \A q \in Kept : Before(q, p) => q # Here
    <3> SUFFICES ASSUME NEW p \in erased, Before(Here, p) PROVE FALSE
      OBVIOUS
    <3>1. Before(p, Here)
      BY DEF ErasedBefore
    <3> QED
      BY <1>0, <1>3, <3>1, PlacesArePairs, BeforeIsStrict DEF TypeOK
  <2>3. Kept' = Kept \ {Here}
    BY <1>0, FunctionKept DEF Kept
  <2>4. ASSUME NEW p \in erased' PROVE IsEML(Instr(p)) /\ Repeats(p)'
    <3>1. CASE p = Here
      <4>1. first \in Kept'
        BY <1>2, <2>1, <2>3 DEF Kept
      <4> QED
        BY <1>0, <1>2, <2>1, <3>1, <4>1, FunctionKept DEF Repeats, Same
    <3>2. CASE p \in erased
      <4>1. IsEML(Instr(p)) /\ Repeats(p)
        BY <3>2 DEF OnlyRepeatsErased
      <4>2. PICK q \in Kept : Before(q, p) /\ Same(Instr(q), Instr(p))
        BY <4>1 DEF Repeats
      <4>3. q \in Kept'
        BY <2>2, <2>3, <3>2, <4>2
      <4> QED
        BY <1>0, <4>1, <4>2, <4>3, FunctionKept DEF Repeats, Same
    <3> QED
      BY <1>0, <3>1, <3>2
  <2> QED
    BY <1>0, <2>4, FunctionKept DEF OnlyRepeatsErased, IsEML
<1>8. Accounted'
  BY <1>0, <1>1, FunctionKept DEF Accounted, BehindErased, Node, IsEML
<1>9. DoneAtEnd'
  BY <1>0 DEF DoneAtEnd
<1>10. ChangedTells'
  <2>1. CASE Changed'
    BY <1>0, <2>1 DEF ChangedTells
  <2>2. CASE ~Changed'
    <3>1. ~Changed /\ at = Len(MF[block])
      BY <1>0, <2>2 DEF AtEnd
    <3> QED
      BY <1>0, <2>2, <3>1 DEF ChangedTells, Here
  <2> QED
    BY <2>1, <2>2
<1> QED
  BY <1>4, <1>5, <1>6, <1>7, <1>8, <1>9, <1>10

\* At the end of a block only the walk moves.
LEMMA NextBlockKeeps == IInv /\ NextBlock => IInv'
<1> SUFFICES ASSUME IInv, NextBlock PROVE IInv'
  OBVIOUS
<1> USE DEF IInv
<1>0. /\ MF' = MF /\ cse_map' = cse_map /\ erased' = erased /\ Changed' = Changed
      /\ at > Len(MF[block]) /\ ~done
  BY DEF NextBlock, MetInFunction, ChangedInFunction
<1>1. \/ block < Len(MF) /\ Here' = <<block + 1, 1>> /\ block' = block + 1 /\ at' = 1 /\ ~done'
      \/ ~(block < Len(MF)) /\ Here' = Here /\ block' = block /\ at' = at /\ done'
  BY <1>0 DEF NextBlock, Here
<1>2. \A q \in Places : Before(q, Here') <=> Before(q, Here)
  BY <1>0, <1>1, BlockPassed
<1>3. TypeOK'
  <2>1. CASE block < Len(MF) /\ block' = block + 1 /\ at' = 1
    <3>1. block + 1 \in 1 .. Len(MF)
      BY <2>1, PlacesArePairs DEF TypeOK
    <3>2. 1 \in 1 .. Len(MF[block + 1]) + 1
      BY <3>1, PlacesArePairs
    <3> QED
      BY <1>0, <2>1, <3>1, <3>2, FunctionKept DEF TypeOK, NextBlock
  <2>2. CASE block' = block /\ at' = at
    BY <1>0, <2>2, FunctionKept DEF TypeOK, NextBlock
  <2> QED
    BY <1>1, <2>1, <2>2
<1>4. RecordedStay'
  BY <1>0, <1>2, FunctionKept DEF RecordedStay, TypeOK, Node, IsEML
<1>5. ErasedBefore'
  BY <1>0, <1>2 DEF ErasedBefore, TypeOK
<1>6. OnlyRepeatsErased'
  BY <1>0, FunctionKept DEF OnlyRepeatsErased, Repeats, Kept, Same, IsEML
<1>7. Accounted'
  BY <1>0, <1>2, FunctionKept DEF Accounted, BehindErased, Node, IsEML
<1>8. DoneAtEnd'
  <2>1. done' => block = Len(MF)
    BY <1>1, PlacesArePairs DEF TypeOK
  <2> QED
    BY <1>0, <1>1, <2>1 DEF DoneAtEnd
<1>9. ChangedTells'
  BY <1>0 DEF ChangedTells
<1> QED
  BY <1>3, <1>4, <1>5, <1>6, <1>7, <1>8, <1>9

\* The invariant holds on every step of the pass.
LEMMA InvariantNext == IInv /\ [Next]_vars => IInv'
<1> SUFFICES ASSUME IInv, [Next]_vars PROVE IInv'
  OBVIOUS
<1>1. CASE UNCHANGED vars
  <2>1. /\ MF' = MF /\ Here' = Here /\ block' = block /\ at' = at /\ cse_map' = cse_map
        /\ erased' = erased /\ Changed' = Changed /\ done' = done
    BY <1>1 DEF vars, Here
  <2>2. Places' = Places /\ \A p : Instr(p)' = Instr(p)
    BY <2>1, FunctionKept
  <2>3. TypeOK'
    BY <2>1, <2>2 DEF IInv, TypeOK
  <2>4. RecordedStay' /\ ErasedBefore'
    BY <2>1, <2>2 DEF IInv, RecordedStay, ErasedBefore, Node, IsEML
  <2>5. OnlyRepeatsErased'
    BY <2>1, <2>2 DEF IInv, OnlyRepeatsErased, Repeats, Kept, Same, IsEML
  <2>6. Accounted'
    BY <2>1, <2>2 DEF IInv, Accounted, BehindErased, Node, IsEML
  <2>7. DoneAtEnd' /\ ChangedTells'
    BY <2>1 DEF IInv, DoneAtEnd, ChangedTells
  <2> QED
    BY <2>3, <2>4, <2>5, <2>6, <2>7 DEF IInv
<1> QED
  BY <1>1, PassKeeps, RecordKeeps, EraseKeeps, NextBlockKeeps DEF Next

LEMMA Invariant == Spec => []IInv
BY InvariantInit, InvariantNext, PTL DEF Spec
-----------------------------------------------------------------------------
\* The pass erases only EML instructions, each of them behind one that it takes for
\* equal and that stays, and its places and flags keep their types.
THEOREM OnlyRepeats == Spec => [](TypeOK /\ OnlyRepeatsErased)
<1>1. IInv => TypeOK /\ OnlyRepeatsErased
  BY DEF IInv
<1> QED
  BY <1>1, Invariant, PTL

\* Of two EML instructions taken for equal that both stay in the end, one is right behind an
\* erased one: what the increment after the erase goes past is all that is missed.
THEOREM Leftovers == Spec => []LeftoversFollowErased
<1>1. IInv => LeftoversFollowErased
  <2> SUFFICES ASSUME IInv, done, NEW p \in Kept, NEW q \in Kept,
                      Before(q, p), Same(Instr(q), Instr(p)), IsEML(Instr(p))
               PROVE  BehindErased(p) \/ BehindErased(q)
    BY DEF LeftoversFollowErased
  <2>1. TypeOK /\ p \in Places /\ q \in Places /\ p \notin erased /\ q \notin erased
    BY DEF IInv, Kept
  <2>2. Before(p, Here) /\ Before(q, Here)
    BY <2>1, BlockPassed DEF IInv, DoneAtEnd
  <2>3. IsEML(Instr(q)) /\ Node(Instr(q)) = Node(Instr(p)) /\ p # q
    BY <2>1, PlacesArePairs, BeforeIsStrict DEF Same, IsEML, Node
  <2> QED
    BY <2>1, <2>2, <2>3 DEF IInv, Accounted
<1> QED
  BY <1>1, Invariant, PTL

\* If the pass reports no change, whatever it erased ended a block.
THEOREM SilentOnlyAtEnds == Spec => []ChangedTells
<1>1. IInv => ChangedTells
  BY DEF IInv
<1> QED
  BY <1>1, Invariant, PTL
-----------------------------------------------------------------------------
(* The programs on libxcew.                                                *)

\* Calls as C programs make them: only xcew_pwr_set_bias has a signed argument.
FunctionNames ==
    Controls \union
    { "eml_init", "eml_compute", "eml_close", "snn_init", "snn_load_weights",
      "snn_classify", "snn_enable_stdp", "snn_close", "nvm_read", "nvm_write",
      "nvm_get_stats", "policy_set_deterministic", "policy_update", "pwr_tile_sleep",
      "pwr_tile_wake", "pwr_set_bias", "fault_get_status", "fault_clear" }

Calls ==
    { c \in [fn : FunctionNames, arg : Int, checked : BOOLEAN, iffault : BOOLEAN] :
        c.fn = "pwr_set_bias" \/ c.arg \in Nat }

LEMMA CallsAreCalls ==
    \A f \in FunctionNames, a \in Int :
        f = "pwr_set_bias" \/ a \in Nat =>
            C(f, a) \in Calls /\ Checked(f, a) \in Calls /\ IfFault(f, a) \in Calls
BY DEF C, Checked, IfFault, Calls

\* A sequence that is repeated stays a sequence of the same elements.
LEMMA TimesTyped ==
    ASSUME NEW S, NEW n \in Nat, NEW calls \in Seq(S), Len(calls) > 0
    PROVE  Times(n, calls) \in Seq(S)
<1> DEFINE len == Len(calls)
<1>1. len \in Nat \ {0} /\ \A k \in 1 .. len : calls[k] \in S
  OBVIOUS
<1> HIDE DEF len
<1>2. n * len \in Nat
  BY <1>1
<1>3. ASSUME NEW k \in 1 .. n * len PROVE ((k - 1) % len) + 1 \in 1 .. len
  <2>1. k - 1 \in Nat BY <1>2
  <2>2. (k - 1) % len \in 0 .. len - 1 BY <1>1, <2>1
  <2> QED BY <1>1, <2>2
<1>4. [k \in 1 .. n * len |-> calls[((k - 1) % len) + 1]] \in Seq(S)
  BY <1>1, <1>2, <1>3
<1> QED
  BY <1>4 DEF Times, len

LEMMA ProgramsTyped == Examples \union {<< >>} \subseteq Seq(Calls)
<1> USE CallsAreCalls, ProgramsAssumption DEF FunctionNames, Controls
<1>1. HelloEml \in Seq(Calls) BY DEF HelloEml
<1>2. IrqDriven \in Seq(Calls)
  <2> DEFINE body == << C("eml_init", 0), C("eml_compute", 0), C("eml_close", 0),
                        C("test_count", 0), C("reset_count", 0),
                        C("fault_get_status", 0), IfFault("fault_clear", 0) >>
  <2>1. body \in Seq(Calls) /\ Len(body) > 0 OBVIOUS
  <2>2. << C("enable", 0) >> \in Seq(Calls) /\ << C("disable", 0) >> \in Seq(Calls)
    OBVIOUS
  <2> HIDE DEF body
  <2>3. Times(Iterations, body) \in Seq(Calls) BY <2>1, TimesTyped
  <2>4. << C("enable", 0) >> \o Times(Iterations, body) \o << C("disable", 0) >>
          \in Seq(Calls)
    BY <2>2, <2>3
  <2> QED BY <2>4 DEF IrqDriven, body
<1>3. FaultDemo \in Seq(Calls) BY DEF FaultDemo
<1>4. MultiSubsystem \in Seq(Calls)
  <2> DEFINE body  == << C("eml_compute", 0) >>
             first == << C("pwr_tile_wake", 0), C("pwr_tile_wake", 1),
                         C("pwr_tile_wake", 2), C("eml_init", 0) >>
             last  == << C("eml_close", 0), C("snn_init", 4), C("snn_load_weights", 4),
                         C("snn_classify", 0), C("snn_close", 0), C("nvm_write", 1),
                         C("pwr_tile_sleep", 0), C("pwr_tile_sleep", 2) >>
  <2>1. body \in Seq(Calls) /\ Len(body) > 0 OBVIOUS
  <2>2. first \in Seq(Calls) /\ last \in Seq(Calls) OBVIOUS
  <2> HIDE DEF body, first, last
  <2>3. Times(4, body) \in Seq(Calls) BY <2>1, TimesTyped
  <2>4. first \o Times(4, body) \o last \in Seq(Calls) BY <2>2, <2>3
  <2> QED BY <2>4 DEF MultiSubsystem, body, first, last
<1>5. NvmPersist \in Seq(Calls) BY DEF NvmPersist
<1>6. PowerMgmt \in Seq(Calls)
  <2> DEFINE first == << C("pwr_tile_sleep", 0), C("pwr_tile_sleep", 1),
                         C("pwr_tile_sleep", 2), C("pwr_set_bias", -2) >>
             body  == << C("pwr_tile_wake", 0), C("eml_init", 0), C("eml_compute", 0),
                         C("eml_close", 0), C("pwr_tile_sleep", 0) >>
             last  == << C("pwr_set_bias", 0), C("pwr_tile_wake", 0),
                         C("pwr_tile_wake", 1), C("pwr_tile_wake", 2) >>
  <2>1. body \in Seq(Calls) /\ Len(body) > 0 OBVIOUS
  <2>2. first \in Seq(Calls) /\ last \in Seq(Calls) OBVIOUS
  <2> HIDE DEF body, first, last
  <2>3. Times(Duty, body) \in Seq(Calls) BY <2>1, TimesTyped
  <2>4. first \o Times(Duty, body) \o last \in Seq(Calls) BY <2>2, <2>3
  <2> QED BY <2>4 DEF PowerMgmt, body, first, last
<1>7. SnnClassify \in Seq(Calls) BY DEF SnnClassify
<1>8. << >> \in Seq(Calls) OBVIOUS
<1> QED
  BY <1>1, <1>2, <1>3, <1>4, <1>5, <1>6, <1>7, <1>8 DEF Examples

LEMMA FreeCallsTyped == FreeCalls \subseteq Calls
BY CallsAreCalls DEF FreeCalls, FunctionNames, Controls

\* The bits of a field lie in it.
LEMMA FieldBounds ==
    ASSUME NEW first \in Nat, NEW width \in Nat, NEW v
    PROVE  Field(first, width, v) \subseteq first .. first + width - 1
BY DEF Field
-----------------------------------------------------------------------------
\* The types that a step relies on, those of the call in progress among them.
CallTyped ==
    /\ ProgramTypeOK
    /\ program \in Seq(Calls) /\ pc \in Nat /\ pc > 0
    /\ fn \in FunctionNames \union {"none"} /\ step \in Nat
    /\ arg \in Int /\ (fn \in {"none", "pwr_set_bias"} \/ arg \in Nat)
    /\ At("pwr_tile_sleep", 2) \/ At("pwr_tile_wake", 2) => arg \in 0 .. 3
    /\ tmp \subseteq 0 .. 31

\* Interrupts still to be counted: one the handler has not counted yet, a timeout, and
\* a latched fault, which in the handler is the one it runs for or is cleared with it.
ToCount ==
    (IF trap = "read" THEN 1 ELSE 0) + (IF pulse THEN 1 ELSE 0)
        + (IF trap = "none" /\ fault_latch THEN 1 ELSE 0)
InterruptsCounted == irq_count + ToCount <= faults + timeouts

\* The code of a latched fault is there to be read, and only a fault leaves a code.
CodesHaveCauses ==
    /\ fault_latch => fault_code # 0
    /\ fault_code # 0 => faults > 0

\* hello_eml from its compute on: without a later fault it goes on only with a code
\* of 0, and what it reads then is 0.
HelloGoesOn ==
    program = HelloEml =>
        /\ pc \in 1 .. 6
        /\ fn = "none" \/ <<pc, fn>> \in
               { <<2, "eml_init">>, <<3, "eml_compute">>, <<4, "fault_get_status">>,
                 <<5, "fault_clear">>, <<6, "eml_close">> }
        /\ pc < 4 => status = 0
        /\ pc = 3 /\ fn = "none" /\ ~late => rc = FAULT \/ fault_code = 0
        /\ pc \in {4, 5} /\ ~late => status = 0 /\ fault_code = 0
        /\ fn = "fault_clear" => status # 0

\* What a step is: a call, an access of the library, or a step of the program or the
\* hardware that leaves the library and its registers alone.
Calling ==
    /\ \E c \in Calls : Call(c.fn, c.arg)
    /\ UNCHANGED csrs /\ UNCHANGED <<trap, trap_status, irq_count, tested, timeouts, late>>

Accessing ==
    /\ LibraryStep
    /\ UNCHANGED <<pc, trap, trap_status, irq_count, tested>>
    /\ late' = (late /\ ~At("eml_compute", 2))
    /\ timeouts' = IF At("policy_update", 1) /\ pulse' THEN timeouts + 1 ELSE timeouts

Apart ==
    /\ UNCHANGED library /\ UNCHANGED <<pwr_ctrl, snn_ctrl, pol_sec>>

LEMMA ProgramSteps ==
    ASSUME CallTyped, [ProgramNext]_programVars
    PROVE  /\ program' = program /\ pc' \in Nat /\ pc' > 0
           /\ Calling \/ Accessing \/ Apart
<1> USE DEF CallTyped
<1>1. CASE Advance
  <2>1. Len(program) \in Nat /\ pc \in 1 .. Len(program) /\ program[pc] \in Calls
    BY <1>1 DEF Advance, Free, Ended
  <2>2. CASE GivesUp BY <1>1, <2>1, <2>2 DEF Advance, Apart, csrs
  <2>3. CASE ~GivesUp /\ program[pc].iffault /\ status = 0
    BY <1>1, <2>3 DEF Advance, Apart, csrs
  <2>4. CASE ~GivesUp /\ ~(program[pc].iffault /\ status = 0)
    BY <1>1, <2>1, <2>4 DEF Advance, Calling
  <2> QED BY <2>2, <2>3, <2>4
<1>2. CASE AdvanceFree
  <2>1. PICK c \in FreeCalls : Call(c.fn, c.arg) BY <1>2 DEF AdvanceFree
  <2>2. c \in Calls BY FreeCallsTyped
  <2> QED BY <1>2, <2>1, <2>2 DEF AdvanceFree, Calling
<1>3. CASE Control BY <1>3 DEF Control, Apart
<1>4. CASE InCall BY <1>4 DEF InCall, Accessing
<1>5. CASE Trap \/ TrapRead \/ TrapClear
  BY <1>5 DEF Trap, TrapRead, TrapClear, Apart, csrs
<1>6. CASE Hardware BY <1>6 DEF Hardware, RaiseFault, Sleep, FallAsleep, Apart, control
<1>7. CASE UNCHANGED programVars BY <1>7 DEF programVars, csrs, control, Apart
<1> QED BY <1>1, <1>2, <1>3, <1>4, <1>5, <1>6, <1>7 DEF ProgramNext, Software

LEMMA PwrReadBits == PwrRead \subseteq 0 .. 31
<1>1. { b - 3 : b \in pwr_ctrl \intersect 4 .. 15 } \subseteq 0 .. 31 OBVIOUS
<1>2. (IF 8 \in pwr_ctrl THEN {0} ELSE {}) \subseteq 0 .. 31 OBVIOUS
<1> QED BY <1>1, <1>2 DEF PwrRead

LEMMA SnnControlBits == \A policy : SnnControl(policy) \subseteq 0 .. 31
<1> TAKE policy
<1>1. Field(0, 8, snn'.neuron_count % 256) \subseteq 0 .. 31 BY DEF Field
<1>2. Field(8, 1, snn'.ttfs_enabled) \subseteq 0 .. 31 BY DEF Field
<1>3. Field(12, 3, policy) \subseteq 0 .. 31 BY DEF Field
<1> QED BY <1>1, <1>2, <1>3 DEF SnnControl

\* What the accesses of the library write, one register or result after the other.
LEMMA LibraryTyped ==
    ASSUME CallTyped, LibraryStep
    PROVE  /\ fn' \in FunctionNames \union {"none"} /\ step' \in Nat
           /\ arg' = arg /\ (fn' # "none" => fn' = fn)
           /\ tmp' \subseteq 0 .. 31
           /\ pwr_ctrl' \subseteq 0 .. 31 /\ snn_ctrl' \subseteq 0 .. 31
           /\ pol_sec' \subseteq 0 .. 31
           /\ fault_code' = fault_code /\ mie' = mie /\ faults' = faults
           /\ status' \in {status, fault_code}
           /\ rc' \in {OK, INVALID, ECC, FAULT}
           /\ snn' \in [neuron_count : 0 .. 256, ttfs_enabled : {0, 1}]
<1> USE DEF CallTyped, ProgramTypeOK, csrs, Return
<1>1. CASE Refuse BY <1>1 DEF Refuse
<1>2. CASE EmlClose \/ LoadWeights \/ NvmWrite \/ NvmGetStats
  <2>1. CASE EmlClose BY <2>1 DEF EmlClose, LeavesNoTrace
  <2>2. CASE LoadWeights BY <2>2 DEF LoadWeights, LeavesNoTrace
  <2>3. CASE NvmWrite BY <2>3 DEF NvmWrite, LeavesNoTrace
  <2>4. CASE NvmGetStats BY <2>4 DEF NvmGetStats, LeavesNoTrace
  <2> QED BY <1>2, <2>1, <2>2, <2>3, <2>4
<1>3. CASE EmlInit \/ SetBias \/ GetStatus
  <2>1. CASE EmlInit BY <2>1 DEF EmlInit
  <2>2. CASE SetBias BY <2>2 DEF SetBias
  <2>3. CASE GetStatus BY <2>3 DEF GetStatus
  <2> QED BY <1>3, <2>1, <2>2, <2>3
<1>4. CASE Before7CC BY <1>4 DEF Before7CC, Continue
<1>5. CASE EmlCompute BY <1>5 DEF EmlCompute
<1>6. CASE NvmRead BY <1>6 DEF NvmRead
<1>7. SnnControl(0) \subseteq 0 .. 31 /\ SnnControl(arg) \subseteq 0 .. 31
  BY SnnControlBits
<1>8. CASE SnnInit
  <2>1. arg \in 1 .. 256 BY <1>8 DEF SnnInit, SnnCall, Invalid, CountRefused
  <2> QED BY <1>7, <1>8, <2>1 DEF SnnInit, SnnCall
<1>9. CASE EnableStdp BY <1>7, <1>9 DEF EnableStdp, SnnCall
<1>10. CASE SnnClose
  <2>1. [snn EXCEPT !.neuron_count = 0] \in [neuron_count : 0 .. 256, ttfs_enabled : {0, 1}]
    OBVIOUS
  <2> QED BY <1>10, <2>1 DEF SnnClose, SnnCall
<1>11. CASE SetDeterministic
  <2>1. \A n : Field(16, 16, n) \subseteq 16 .. 31
    <3>1. 16 \in Nat /\ 16 + 16 - 1 = 31 OBVIOUS
    <3> QED BY <3>1, FieldBounds
  <2>2. LimitWritten(arg) \subseteq 0 .. 31 BY <2>1 DEF LimitWritten
  <2> QED BY <1>11, <2>2 DEF SetDeterministic
<1>12. CASE PolicyUpdate BY <1>12 DEF PolicyUpdate
<1>13. CASE PwrReads BY <1>13, PwrReadBits DEF PwrReads, Continue
<1>14. CASE PwrWrites
  <2>1. arg \in 0 .. 31 BY <1>14 DEF PwrWrites
  <2> QED BY <1>14, <2>1 DEF PwrWrites
<1>15. CASE FaultClear BY <1>15 DEF FaultClear, FaultStatusWrite
<1> QED
  BY <1>1, <1>2, <1>3, <1>4, <1>5, <1>6, <1>8, <1>9, <1>10, <1>11, <1>12, <1>13, <1>14,
     <1>15 DEF LibraryStep

LEMMA FlagsTyped ==
    ASSUME CallTyped, [ProgramNext]_programVars
    PROVE  /\ fault_latch' \in BOOLEAN /\ pulse' \in BOOLEAN /\ mie_global' \in BOOLEAN
           /\ active' \in BOOLEAN /\ awake' \in BOOLEAN
           /\ late' \in BOOLEAN
<1>1. /\ fault_latch \in BOOLEAN /\ pulse \in BOOLEAN /\ mie_global \in BOOLEAN
      /\ active \in BOOLEAN /\ awake \in BOOLEAN
      /\ late \in BOOLEAN
  BY Zenon DEF CallTyped, ProgramTypeOK
<1>3. ASSUME UNCHANGED <<fault_latch, pulse, mie_global, active, awake>> PROVE
             fault_latch' \in BOOLEAN /\ pulse' \in BOOLEAN /\ mie_global' \in BOOLEAN
             /\ active' \in BOOLEAN /\ awake' \in BOOLEAN
  BY <1>1, <1>3
<1>4. ASSUME LibraryStep
      PROVE  /\ fault_latch' \in BOOLEAN /\ pulse' \in BOOLEAN
             /\ mie_global' = mie_global /\ active' = active /\ awake' = awake
  <2>1. CASE FaultClear
    <3>1. fault_latch' \in BOOLEAN
      BY <1>1, <2>1, Zenon DEF FaultClear, FaultStatusWrite
    <3> QED BY <1>1, <2>1, <3>1 DEF FaultClear
  <2>2. CASE PolicyUpdate BY <1>1, <2>2 DEF PolicyUpdate
  <2>3. CASE ~FaultClear /\ ~PolicyUpdate
    <3>1. UNCHANGED <<fault_latch, pulse, mie_global, active, awake>>
      BY <1>4, <2>3
         DEF LibraryStep, Refuse, EmlInit, Before7CC, EmlCompute, EmlClose, SnnInit,
             LoadWeights, EnableStdp, SnnClose, NvmRead, NvmWrite, NvmGetStats,
             SetDeterministic, PwrReads, PwrWrites, SetBias, GetStatus, LeavesNoTrace,
             SnnCall, csrs
    <3> QED BY <1>1, <3>1
  <2> QED BY <2>1, <2>2, <2>3
<1>5. CASE Advance \/ AdvanceFree
  <2>1. UNCHANGED <<fault_latch, pulse, mie_global, active, awake, late>>
    BY <1>5 DEF Advance, AdvanceFree, csrs
  <2> QED BY <1>1, <2>1
<1>6. CASE Control
  <2>1. mie_global' \in {mie_global, TRUE, FALSE}
        /\ UNCHANGED <<fault_latch, pulse, active, awake, late>>
    BY <1>6 DEF Control
  <2> QED BY <1>1, <2>1
<1>7. CASE InCall
  <2>1. late' \in BOOLEAN BY <1>7, Zenon DEF InCall
  <2> QED BY <1>1, <1>4, <1>7, <2>1 DEF InCall
<1>8. CASE Trap \/ TrapRead \/ TrapClear
  <2>1. CASE Trap BY <1>1, <2>1 DEF Trap
  <2>2. CASE TrapRead BY <1>1, <2>2 DEF TrapRead, csrs
  <2>3. CASE TrapClear
    <3>1. fault_latch' \in BOOLEAN
      BY <1>1, <2>3, Zenon DEF TrapClear, FaultStatusWrite
    <3> QED BY <1>1, <2>3, <3>1 DEF TrapClear
  <2> QED BY <1>8, <2>1, <2>2, <2>3
<1>9. CASE Hardware
  BY <1>1, <1>9 DEF Hardware, RaiseFault, Sleep, FallAsleep, control
<1>10. CASE UNCHANGED programVars BY <1>1, <1>10 DEF programVars, csrs, control
<1> QED
  BY <1>5, <1>6, <1>7, <1>8, <1>9, <1>10 DEF ProgramNext, Software

\* The registers that only main, the handler and the hardware write.
LEMMA ApartTyped ==
    ASSUME CallTyped, [ProgramNext]_programVars
    PROVE  /\ fault_code' \in {fault_code} \union FaultCodes
           /\ mie' \subseteq {3, 11} /\ faults' \in 0 .. MaxFaults
           /\ trap' \in {"none", "read", "clear"} /\ irq_count' \in Nat /\ tested' \in Nat
           /\ timeouts' \in Nat
<1>0. CASE InCall
  <2>1. Accessing BY <1>0 DEF InCall, Accessing
  <2>2. timeouts' \in {timeouts, timeouts + 1} BY <2>1, Zenon DEF Accessing
  <2>3. LibraryStep /\ UNCHANGED <<trap, irq_count, tested>> BY <2>1 DEF Accessing
  <2>4. fault_code' = fault_code /\ mie' = mie /\ faults' = faults BY <2>3, LibraryTyped
  <2> QED BY <2>2, <2>3, <2>4 DEF CallTyped, ProgramTypeOK
<1> USE DEF CallTyped, ProgramTypeOK
<1>1. CASE Advance \/ AdvanceFree BY <1>1 DEF Advance, AdvanceFree, csrs
<1>2. CASE Control
  <2>1. UNCHANGED <<fault_code, faults, trap, timeouts>> BY <1>2 DEF Control
  <2>2. irq_count' \in {0, irq_count} /\ tested' \in {irq_count, tested}
    BY <1>2 DEF Control
  <2>3. mie' \in {mie, mie \union {3}} BY <1>2 DEF Control, EnabledBit
  <2> QED BY <2>1, <2>2, <2>3
<1>4. CASE Trap BY <1>4 DEF Trap
<1>5. CASE TrapRead
  <2>1. (irq_count + 1) % CountWord \in Nat BY ProgramsAssumption
  <2> QED BY <1>5, <2>1 DEF TrapRead, csrs
<1>6. CASE TrapClear BY <1>6 DEF TrapClear, FaultStatusWrite
<1>7. CASE Hardware
  <2>1. trap' = trap /\ irq_count' = irq_count /\ tested' = tested /\ mie' = mie
        /\ timeouts' = timeouts
    BY <1>7 DEF Hardware, RaiseFault, Sleep, FallAsleep, control
  <2>2. CASE RaiseFault
    <3>1. faults' \in 0 .. MaxFaults /\ fault_code' \in FaultCodes
      BY <2>2, FaultsAssumption DEF RaiseFault
    <3> QED BY <2>1, <3>1
  <2>3. CASE FallAsleep BY <2>1, <2>3 DEF FallAsleep
  <2> QED BY <1>7, <2>2, <2>3 DEF Hardware, Sleep
<1>8. CASE UNCHANGED programVars BY <1>8 DEF programVars, csrs, control
<1> QED
  BY <1>1, <1>2, <1>0, <1>4, <1>5, <1>6, <1>7, <1>8 DEF ProgramNext, Software

LEMMA CallTypedKept == ASSUME CallTyped, [ProgramNext]_programVars PROVE CallTyped'
<1> USE DEF CallTyped
<1>1. /\ program' \in Seq(Calls) /\ pc' \in Nat /\ pc' > 0
  BY ProgramSteps
<1>2. fault_code' \in FaultCodes \union {0} BY ApartTyped DEF ProgramTypeOK
<1>3. /\ fn' \in FunctionNames \union {"none"} /\ step' \in Nat
      /\ arg' \in Int /\ (fn' \in {"none", "pwr_set_bias"} \/ arg' \in Nat)
      /\ tmp' \subseteq 0 .. 31
  <2>1. CASE Calling BY <2>1 DEF Calling, Call, Calls
  <2>2. CASE Accessing BY <2>2, LibraryTyped DEF Accessing
  <2>3. CASE Apart BY <2>3 DEF Apart, library
  <2> QED BY <2>1, <2>2, <2>3, ProgramSteps
<1>4. (At("pwr_tile_sleep", 2) \/ At("pwr_tile_wake", 2) => arg \in 0 .. 3)'
  <2>1. CASE Calling BY <2>1 DEF Calling, Call, At
  <2>2. CASE Accessing
    <3>1. CASE PwrReads
      <4>1. arg \in 0 .. 3 BY <3>1 DEF PwrReads, At, Invalid
      <4> QED BY <3>1, <4>1 DEF PwrReads, Continue
    <3>2. CASE Before7CC BY <3>2 DEF Before7CC, Continue, At
    <3>3. CASE ~PwrReads /\ ~Before7CC
      <4>1. fn' = "none"
        BY <2>2, <3>3
           DEF Accessing, LibraryStep, Refuse, EmlInit, EmlCompute, EmlClose, SnnInit,
               LoadWeights, EnableStdp, SnnClose, NvmRead, NvmWrite, NvmGetStats,
               SetDeterministic, PolicyUpdate, PwrWrites, SetBias, GetStatus,
               FaultClear, LeavesNoTrace, SnnCall, Return
      <4> QED BY <4>1 DEF At
    <3> QED BY <3>1, <3>2, <3>3
  <2>3. CASE Apart BY <2>3 DEF Apart, library, At
  <2> QED BY <2>1, <2>2, <2>3, ProgramSteps
<1>5. /\ pwr_ctrl' \subseteq 0 .. 31 /\ snn_ctrl' \subseteq 0 .. 31
      /\ pol_sec' \subseteq 0 .. 31
      /\ status' \in FaultCodes \union {0}
      /\ rc' \in {OK, INVALID, ECC, FAULT}
      /\ snn' \in [neuron_count : 0 .. 256, ttfs_enabled : {0, 1}]
  <2>1. CASE Calling BY <2>1 DEF Calling, Call, csrs, ProgramTypeOK
  <2>2. CASE Accessing BY <2>2, LibraryTyped DEF Accessing, ProgramTypeOK
  <2>3. CASE Apart BY <2>3 DEF Apart, library, ProgramTypeOK
  <2> QED BY <2>1, <2>2, <2>3, ProgramSteps
<1>6. {fault_latch, pulse, mie_global, active, awake, late}' \subseteq BOOLEAN
  BY FlagsTyped, Zenon
<1>7. ProgramTypeOK'
  BY <1>2, <1>5, <1>6, ApartTyped DEF ProgramTypeOK
<1> QED BY <1>1, <1>3, <1>4, <1>7

LEMMA InitCallTyped == ProgramInit => CallTyped
<1> SUFFICES ASSUME ProgramInit PROVE CallTyped OBVIOUS
<1> USE DEF ProgramInit, CsrInit, LibraryInit
<1>1. program \in Seq(Calls) BY ProgramsTyped
<1>2. {fault_latch, pulse, mie_global, active, awake, late} \subseteq BOOLEAN
  <2>1. /\ fault_latch \in BOOLEAN /\ pulse \in BOOLEAN /\ mie_global \in BOOLEAN
        /\ active \in BOOLEAN /\ awake \in BOOLEAN /\ late \in BOOLEAN
    OBVIOUS
  <2> QED BY <2>1, Zenon
<1>3. ProgramTypeOK
  BY <1>2, FaultsAssumption DEF ProgramTypeOK, OK, FAULT, ECC, INVALID
<1> QED BY <1>1, <1>3 DEF CallTyped, At
-----------------------------------------------------------------------------
\* An access of the library lowers the latch or leaves it, and only a timed-out policy
\* update raises the other interrupt.
LEMMA AccessCounted ==
    ASSUME CallTyped, InterruptsCounted, Accessing PROVE InterruptsCounted'
<1>1. /\ irq_count \in Nat /\ faults \in Nat /\ timeouts \in Nat
      /\ trap' = trap /\ irq_count' = irq_count /\ faults' = faults
      /\ timeouts' = IF At("policy_update", 1) /\ pulse' THEN timeouts + 1 ELSE timeouts
  BY LibraryTyped, FaultsAssumption DEF Accessing, CallTyped, ProgramTypeOK
<1>2. LibraryStep BY DEF Accessing
<1>3. CASE FaultClear
  <2>1. pulse' = pulse /\ timeouts' = timeouts BY <1>1, <1>3 DEF FaultClear, At
  <2>2. fault_latch' => fault_latch BY <1>3, Zenon DEF FaultClear, FaultStatusWrite
  <2> QED BY <1>1, <2>1, <2>2 DEF InterruptsCounted, ToCount
<1>4. CASE PolicyUpdate
  <2>1. fault_latch' = fault_latch /\ At("policy_update", 1) BY <1>4 DEF PolicyUpdate
  <2>2. timeouts' = IF pulse' THEN timeouts + 1 ELSE timeouts BY <1>1, <2>1
  <2> QED BY <1>1, <2>1, <2>2 DEF InterruptsCounted, ToCount
<1>5. CASE ~FaultClear /\ ~PolicyUpdate
  <2>1. UNCHANGED <<fault_latch, pulse>>
    BY <1>2, <1>5
       DEF LibraryStep, Refuse, EmlInit, Before7CC, EmlCompute, EmlClose, SnnInit,
           LoadWeights, EnableStdp, SnnClose, NvmRead, NvmWrite, NvmGetStats,
           SetDeterministic, PwrReads, PwrWrites, SetBias, GetStatus, LeavesNoTrace,
           SnnCall, csrs
  <2>2. timeouts' >= timeouts BY <1>1
  <2> QED BY <1>1, <2>1, <2>2 DEF InterruptsCounted, ToCount
<1> QED BY <1>3, <1>4, <1>5

LEMMA InterruptsKept ==
    ASSUME CallTyped, InterruptsCounted, [ProgramNext]_programVars
    PROVE  InterruptsCounted'
<1>1. irq_count \in Nat /\ faults \in Nat /\ timeouts \in Nat
  BY FaultsAssumption DEF CallTyped, ProgramTypeOK
<1>4. CASE InCall
  <2>1. Accessing BY <1>4 DEF InCall, Accessing
  <2> QED BY <2>1, AccessCounted
<1> USE DEF InterruptsCounted, ToCount
<1>2. CASE Advance \/ AdvanceFree \/ UNCHANGED programVars
  <2>1. UNCHANGED <<irq_count, trap, pulse, fault_latch, faults, timeouts>>
    BY <1>2 DEF Advance, AdvanceFree, programVars, csrs, control
  <2> QED BY <2>1
<1>3. CASE Control
  <2>1. /\ irq_count' \in {0, irq_count}
        /\ UNCHANGED <<trap, pulse, fault_latch, faults, timeouts>>
    BY <1>3 DEF Control
  <2>2. irq_count' + ToCount <= faults + timeouts
    <3>1. irq_count' = irq_count \/ irq_count' = 0 BY <2>1
    <3>2. ToCount \in Nat OBVIOUS
    <3>3. irq_count + ToCount <= faults + timeouts OBVIOUS
    <3> HIDE DEF ToCount, InterruptsCounted
    <3> QED BY <1>1, <3>1, <3>2, <3>3
  <2>3. ToCount' = ToCount BY <2>1
  <2>4. faults' = faults /\ timeouts' = timeouts BY <2>1
  <2> QED BY <2>2, <2>3, <2>4, Zenon
<1>5. CASE Trap
  <2>1. /\ trap = "none" /\ trap' = "read" /\ pulse' = FALSE /\ fault_latch' = fault_latch
        /\ UNCHANGED <<irq_count, faults, timeouts>> /\ (fault_latch \/ pulse)
    BY <1>5 DEF Trap, ExternalInterrupt
  <2> QED BY <1>1, <2>1
<1>6. CASE TrapRead
  <2>1. (irq_count + 1) % CountWord <= irq_count + 1 BY <1>1, ProgramsAssumption
  <2>2. (irq_count + 1) % CountWord \in Nat BY <1>1, ProgramsAssumption
  <2>3. /\ trap = "read" /\ trap' = "clear" /\ irq_count' = (irq_count + 1) % CountWord
        /\ UNCHANGED <<pulse, fault_latch, faults, timeouts>>
    BY <1>6 DEF TrapRead, csrs
  <2> QED BY <1>1, <2>1, <2>2, <2>3
<1>7. CASE TrapClear
  <2>1. 31 \in ClearValue(trap_status) BY DEF ClearValue
  <2>2. ~fault_latch' BY <1>7, <2>1, Zenon DEF TrapClear, FaultStatusWrite
  <2>3. trap = "clear" /\ trap' = "none" /\ UNCHANGED <<irq_count, pulse, faults, timeouts>>
    BY <1>7 DEF TrapClear
  <2> QED BY <1>1, <2>2, <2>3
<1>8. CASE Hardware
  <2>1. UNCHANGED <<irq_count, trap, pulse, timeouts>>
    BY <1>8 DEF Hardware, RaiseFault, Sleep, FallAsleep, control
  <2>2. faults' = faults + 1 \/ UNCHANGED <<faults, fault_latch>>
    BY <1>8 DEF Hardware, RaiseFault, Sleep, FallAsleep
  <2> QED BY <1>1, <2>1, <2>2
<1> QED
  BY <1>2, <1>3, <1>4, <1>5, <1>6, <1>7, <1>8 DEF ProgramNext, Software

\* The code is changed by a new fault, which late records, and by nothing else.
LEMMA CodeKept ==
    ASSUME CallTyped, [ProgramNext]_programVars
    PROVE  \/ fault_code' = fault_code
           \/ fault_code' \in FaultCodes /\ late' = TRUE /\ UNCHANGED library /\ pc' = pc
<1>1. CASE Accessing BY <1>1, LibraryTyped DEF Accessing
<1>2. CASE ~Accessing
  BY <1>2
     DEF ProgramNext, Software, Hardware, Advance, AdvanceFree, Control, InCall, Accessing,
         Trap, TrapRead, TrapClear, FaultStatusWrite, RaiseFault,
         Sleep, FallAsleep, csrs, programVars
<1> QED BY <1>1, <1>2

LEMMA CodesKept ==
    ASSUME CallTyped, CodesHaveCauses, [ProgramNext]_programVars PROVE CodesHaveCauses'
<1>1. fault_code \in FaultCodes \union {0} /\ faults \in Nat /\ 0 \notin FaultCodes
  BY FaultsAssumption DEF CallTyped, ProgramTypeOK
<1>2. CASE RaiseFault
  BY <1>1, <1>2 DEF RaiseFault, CodesHaveCauses
<1>3. CASE ~RaiseFault
  <2>1. CASE Accessing
    <3>1. fault_code' = fault_code /\ faults' = faults
      BY <2>1, LibraryTyped DEF Accessing
    <3>2. CASE FaultClear
      <4>1. fault_latch' => fault_latch BY <3>2, Zenon DEF FaultClear, FaultStatusWrite
      <4> QED BY <3>1, <4>1 DEF CodesHaveCauses
    <3>3. CASE ~FaultClear
      <4>1. fault_latch' = fault_latch
        BY <2>1, <3>3
           DEF Accessing, LibraryStep, Refuse, EmlInit, Before7CC, EmlCompute, EmlClose,
               SnnInit, LoadWeights, EnableStdp, SnnClose, NvmRead, NvmWrite,
               NvmGetStats, SetDeterministic, PolicyUpdate, PwrReads, PwrWrites,
               SetBias, GetStatus, LeavesNoTrace, SnnCall, csrs
      <4> QED BY <3>1, <4>1 DEF CodesHaveCauses
    <3> QED BY <3>2, <3>3
  <2>2. CASE TrapClear
    <3>1. fault_latch' => fault_latch BY <2>2, Zenon DEF TrapClear, FaultStatusWrite
    <3>2. fault_code' = fault_code /\ faults' = faults
      BY <2>2 DEF TrapClear, FaultStatusWrite
    <3> QED BY <3>1, <3>2 DEF CodesHaveCauses
  <2>3. CASE ~Accessing /\ ~TrapClear
    <3>1. UNCHANGED <<fault_latch, fault_code, faults>>
      BY <1>3, <2>3
         DEF ProgramNext, Software, Hardware, Advance, AdvanceFree, Control, InCall,
             Accessing, Trap, TrapRead, Sleep, FallAsleep, csrs, programVars
    <3> QED BY <3>1 DEF CodesHaveCauses
  <2> QED BY <2>1, <2>2, <2>3
<1> QED BY <1>2, <1>3

\* A call ends in an access, and the two that report failures look at the code.
LEMMA Reports ==
    ASSUME CallTyped, CodesHaveCauses, [ProgramNext]_programVars
    PROVE  /\ At("eml_compute", 2) /\ fn' = "none" /\ fault_latch => rc' = FAULT
           /\ fn # "none" /\ fn' = "none" /\ rc' \in {FAULT, ECC} => faults > 0
<1>1. CASE fn' = fn
  BY <1>1 DEF At
<1>2. CASE Calling
  BY <1>2 DEF Calling, Call, At
<1>3. CASE Apart
  BY <1>1, <1>3 DEF Apart, library
<1>4. CASE Accessing /\ EmlCompute
  <2>1. rc' = IF Faulty THEN FAULT ELSE OK
    BY <1>4 DEF EmlCompute, Return
  <2> QED BY <2>1 DEF Faulty, CodesHaveCauses, OK, FAULT, ECC
<1>5. CASE Accessing /\ NvmRead
  <2>1. fn = "nvm_read" /\ rc' = IF DoubleError THEN ECC ELSE OK
    BY <1>5 DEF NvmRead, Return, At
  <2>2. DoubleError => fault_code # 0
    <3>1. \A v : 2 \in Field(0, 4, v) => (v \div 2^2) % 2 = 1
      <4> SUFFICES ASSUME NEW v, 2 \in Field(0, 4, v) PROVE (v \div 2^2) % 2 = 1
        OBVIOUS
      <4>1. PICK k \in 0 .. 4 - 1 : (v \div 2^k) % 2 = 1 /\ 2 = 0 + k BY DEF Field
      <4>2. k = 2 BY <4>1
      <4> QED BY <4>1, <4>2
    <3>2. 2^2 = 4 /\ (0 \div 4) % 2 = 0 OBVIOUS
    <3> QED BY <3>1, <3>2 DEF DoubleError
  <2> QED BY <2>1, <2>2 DEF At, CodesHaveCauses, OK, FAULT, ECC
<1>6. CASE Accessing /\ ~EmlCompute /\ ~NvmRead
  <2>1. fn' = fn \/ rc' \in {OK, INVALID}
    BY <1>6
       DEF Accessing, LibraryStep, Refuse, EmlInit, Before7CC, EmlClose, SnnInit,
           LoadWeights, EnableStdp, SnnClose, NvmWrite, NvmGetStats, SetDeterministic,
           PolicyUpdate, PwrReads, PwrWrites, SetBias, GetStatus, FaultClear,
           LeavesNoTrace, SnnCall, Return, Continue
  <2>2. At("eml_compute", 2) => fn' = fn
    BY <1>6
       DEF Accessing, LibraryStep, Refuse, EmlInit, Before7CC, EmlClose, SnnInit,
           LoadWeights, EnableStdp, SnnClose, NvmWrite, NvmGetStats, SetDeterministic,
           PolicyUpdate, PwrReads, PwrWrites, SetBias, GetStatus, FaultClear,
           LeavesNoTrace, SnnCall, At, Invalid
  <2> QED BY <1>1, <2>1, <2>2 DEF OK, INVALID, FAULT, ECC
<1> QED BY <1>2, <1>3, <1>4, <1>5, <1>6, ProgramSteps

LEMMA HelloKept ==
    ASSUME CallTyped, HelloGoesOn, [ProgramNext]_programVars PROVE HelloGoesOn'
<1> SUFFICES ASSUME program = HelloEml, program' = HelloEml PROVE HelloGoesOn'
  BY ProgramSteps DEF HelloGoesOn
<1>1. /\ Len(HelloEml) = 5 /\ HelloEml # << >>
      /\ HelloEml[1] = Checked("eml_init", 0) /\ HelloEml[2] = Checked("eml_compute", 0)
      /\ HelloEml[3] = C("fault_get_status", 0) /\ HelloEml[4] = IfFault("fault_clear", 0)
      /\ HelloEml[5] = C("eml_close", 0)
  BY DEF HelloEml
<1>2. /\ Checked("eml_init", 0).fn = "eml_init" /\ Checked("eml_init", 0).checked
      /\ ~Checked("eml_init", 0).iffault
      /\ Checked("eml_compute", 0).fn = "eml_compute" /\ Checked("eml_compute", 0).checked
      /\ ~Checked("eml_compute", 0).iffault
      /\ C("fault_get_status", 0).fn = "fault_get_status"
      /\ ~C("fault_get_status", 0).iffault
      /\ IfFault("fault_clear", 0).fn = "fault_clear" /\ IfFault("fault_clear", 0).iffault
      /\ C("eml_close", 0).fn = "eml_close" /\ ~C("eml_close", 0).iffault
  BY DEF C, Checked, IfFault
<1> DEFINE Placed == /\ pc \in 1 .. 6
                     /\ fn = "none" \/ <<pc, fn>> \in
                            { <<2, "eml_init">>, <<3, "eml_compute">>,
                              <<4, "fault_get_status">>, <<5, "fault_clear">>,
                              <<6, "eml_close">> }
<1>3. Placed BY DEF HelloGoesOn
<1>4. CASE Advance
  <2>1. pc \in 1 .. 5 /\ fn = "none" BY <1>1, <1>3, <1>4 DEF Advance, Free, Ended
  <2>2. late' = late /\ fault_code' = fault_code BY <1>4 DEF Advance, csrs
  <2>3. CASE GivesUp
    <3>1. pc' = 6 /\ fn' = "none" BY <1>1, <1>4, <2>1, <2>3 DEF Advance, library
    <3> QED BY <3>1 DEF HelloGoesOn
  <2>4. CASE ~GivesUp /\ program[pc].iffault /\ status = 0
    <3>1. pc = 4 BY <1>1, <1>2, <2>1, <2>4
    <3>2. pc' = 5 /\ UNCHANGED library BY <1>4, <2>4, <3>1 DEF Advance
    <3> QED BY <2>1, <2>2, <3>1, <3>2 DEF HelloGoesOn, library
  <2>5. CASE ~GivesUp /\ ~(program[pc].iffault /\ status = 0)
    <3>1. pc' = pc + 1 /\ Call(program[pc].fn, program[pc].arg)
      BY <1>4, <2>5 DEF Advance
    <3>2. fn' = program[pc].fn /\ rc' = rc /\ status' = status BY <3>1 DEF Call
    <3>3. CASE pc = 1 BY <1>1, <1>2, <2>2, <3>1, <3>2, <3>3 DEF HelloGoesOn
    <3>4. CASE pc = 2 BY <1>1, <1>2, <2>2, <3>1, <3>2, <3>4 DEF HelloGoesOn
    <3>5. CASE pc = 3
      <4>1. rc = OK BY <1>1, <1>2, <2>5, <3>5 DEF GivesUp
      <4>2. ~late => fault_code = 0 BY <2>1, <3>5, <4>1 DEF HelloGoesOn, OK, FAULT
      <4>3. status = 0 BY <3>5 DEF HelloGoesOn
      <4> QED BY <1>1, <1>2, <2>2, <3>1, <3>2, <3>5, <4>2, <4>3 DEF HelloGoesOn
    <3>6. CASE pc = 4
      <4>1. status # 0 BY <1>1, <1>2, <2>5, <3>6
      <4>2. ~late => status = 0 /\ fault_code = 0 BY <3>6 DEF HelloGoesOn
      <4> QED BY <1>1, <1>2, <2>2, <3>1, <3>2, <3>6, <4>1, <4>2 DEF HelloGoesOn
    <3>7. CASE pc = 5 BY <1>1, <1>2, <2>2, <3>1, <3>2, <3>7 DEF HelloGoesOn
    <3> QED BY <2>1, <3>3, <3>4, <3>5, <3>6, <3>7
  <2> QED BY <2>3, <2>4, <2>5
<1>5. CASE AdvanceFree \/ Control
  <2>1. CASE AdvanceFree BY <1>1, <2>1 DEF AdvanceFree, Free
  <2>2. CASE Control
    <3>1. pc \in 1 .. 5 BY <1>1, <1>3, <2>2 DEF Control, Free, Ended
    <3>2. program[pc].fn \in Controls BY <2>2 DEF Control, Controls
    <3> QED BY <1>1, <1>2, <3>1, <3>2 DEF Controls
  <2> QED BY <1>5, <2>1, <2>2
<1>6. CASE InCall
  <2>1. LibraryStep /\ pc' = pc /\ late' = (late /\ ~At("eml_compute", 2))
    BY <1>6 DEF InCall
  <2>2. fault_code' = fault_code /\ (fn' # "none" => fn' = fn)
        /\ status' \in {status, fault_code}
    BY <2>1, LibraryTyped
  <2>3. CASE EmlCompute
    <3>1. /\ fn = "eml_compute" /\ fn' = "none" /\ status' = status
          /\ fault_code # 0 => rc' = FAULT
      BY <2>3 DEF EmlCompute, Faulty, Return, At
    <3>2. pc = 3 BY <1>3, <3>1
    <3> QED BY <2>1, <2>2, <3>1, <3>2 DEF HelloGoesOn
  <2>4. CASE GetStatus
    <3>1. /\ fn = "fault_get_status" /\ fn' = "none" /\ status' = fault_code
      BY <2>4 DEF GetStatus, Return, At
    <3>2. pc = 4 BY <1>3, <3>1
    <3>3. ~At("eml_compute", 2) BY <3>1 DEF At
    <3>4. ~late' => ~late BY <2>1, <3>3, Zenon
    <3> QED BY <2>1, <2>2, <3>1, <3>2, <3>4 DEF HelloGoesOn
  <2>5. CASE ~EmlCompute /\ ~GetStatus
    <3>1. status' = status
      BY <2>1, <2>5
         DEF LibraryStep, Refuse, EmlInit, Before7CC, EmlClose, SnnInit, LoadWeights,
             EnableStdp, SnnClose, NvmRead, NvmWrite, NvmGetStats, SetDeterministic,
             PolicyUpdate, PwrReads, PwrWrites, SetBias, FaultClear, LeavesNoTrace,
             SnnCall
    <3>2. fn = "eml_compute" => fn' = "eml_compute" /\ ~At("eml_compute", 2)
      BY <2>1, <2>5
         DEF LibraryStep, Refuse, EmlInit, Before7CC, EmlClose, SnnInit, LoadWeights,
             EnableStdp, SnnClose, NvmRead, NvmWrite, NvmGetStats, SetDeterministic,
             PolicyUpdate, PwrReads, PwrWrites, SetBias, FaultClear, LeavesNoTrace,
             SnnCall, At, Continue, Invalid
    <3>3. fn # "none"
      BY <2>1, <2>5
         DEF LibraryStep, Refuse, EmlInit, Before7CC, EmlClose, SnnInit, LoadWeights,
             EnableStdp, SnnClose, NvmRead, NvmWrite, NvmGetStats, SetDeterministic,
             PolicyUpdate, PwrReads, PwrWrites, SetBias, FaultClear, LeavesNoTrace,
             SnnCall, At, Invalid
    <3>4. ~At("eml_compute", 2) BY <3>2 DEF At
    <3>5. ~late' => ~late BY <2>1, <3>4, Zenon
    <3> QED BY <1>3, <2>1, <2>2, <3>1, <3>2, <3>3, <3>5 DEF HelloGoesOn
  <2> QED BY <2>3, <2>4, <2>5
<1>7. CASE Trap \/ TrapRead \/ TrapClear \/ Hardware \/ UNCHANGED programVars
  <2>1. fault_code' = fault_code \/ late' = TRUE BY CodeKept
  <2>2. UNCHANGED library /\ pc' = pc /\ (late' = late \/ late' = TRUE)
    BY <1>7 DEF Trap, TrapRead, TrapClear, Hardware, RaiseFault, Sleep, FallAsleep, control,
                programVars
  <2>3. ~late' => ~late BY <2>2, Zenon
  <2> QED BY <2>1, <2>2, <2>3 DEF HelloGoesOn, library
<1> QED BY <1>4, <1>5, <1>6, <1>7 DEF ProgramNext, Software

ProgramInv == CallTyped /\ InterruptsCounted /\ CodesHaveCauses /\ HelloGoesOn

LEMMA ProgramInvariant == ProgramSpec => []ProgramInv
<1>1. ProgramInit => ProgramInv
  <2> SUFFICES ASSUME ProgramInit PROVE ProgramInv OBVIOUS
  <2>1. CallTyped BY InitCallTyped
  <2>2. /\ fn = "none" /\ status = 0 /\ pc = 1 /\ trap = "none" /\ irq_count = 0
        /\ pulse = FALSE /\ fault_latch = FALSE /\ fault_code = 0 /\ faults = 0
        /\ timeouts = 0
    BY DEF ProgramInit, CsrInit, LibraryInit
  <2>3. InterruptsCounted /\ CodesHaveCauses
    BY <2>2 DEF InterruptsCounted, ToCount, CodesHaveCauses
  <2>4. HelloGoesOn BY <2>2 DEF HelloGoesOn
  <2> QED BY <2>1, <2>3, <2>4 DEF ProgramInv
<1>2. ProgramInv /\ [ProgramNext]_programVars => ProgramInv'
  BY CallTypedKept, InterruptsKept, CodesKept, HelloKept DEF ProgramInv
<1> QED BY <1>1, <1>2, PTL DEF ProgramSpec

\* Whatever a program on libxcew calls, with faults between any two accesses: the
\* handler runs once for each fault or timeout at most, and hello_eml clears only what
\* came after its compute had read the status.
THEOREM FaultsCorrect == ProgramSpec => []FaultsHandledOnce
<1>1. ProgramInv => FaultsHandledOnce
  <2> SUFFICES ASSUME ProgramInv PROVE FaultsHandledOnce OBVIOUS
  <2>1. ProgramTypeOK BY DEF ProgramInv, CallTyped
  <2>2. InterruptsHaveCauses
    <3>1. irq_count \in Nat /\ faults \in Nat /\ timeouts \in Nat
      BY FaultsAssumption DEF ProgramInv, CallTyped, ProgramTypeOK
    <3> QED BY <3>1 DEF ProgramInv, InterruptsCounted, ToCount, InterruptsHaveCauses
  <2>3. HelloClearsLateOnly
    <3>1. program = HelloEml /\ fn = "fault_clear" => pc = 5 /\ status # 0
      BY DEF ProgramInv, HelloGoesOn
    <3> QED BY <3>1 DEF ProgramInv, HelloGoesOn, HelloClearsLateOnly
  <2> QED BY <2>1, <2>2, <2>3 DEF FaultsHandledOnce
<1> QED BY <1>1, ProgramInvariant, PTL

\* A compute that reads the status before a fault was cleared reports it, and no call
\* reports a failure when there was no fault.
THEOREM ReportsCorrect == ProgramSpec => FailuresReported
<1>1. ProgramInv /\ [ProgramNext]_programVars =>
          [/\ At("eml_compute", 2) /\ fn' = "none" /\ fault_latch => rc' = FAULT
           /\ fn # "none" /\ fn' = "none" /\ rc' \in {FAULT, ECC} => faults > 0]_programVars
  BY Reports DEF ProgramInv
<1> QED BY <1>1, ProgramInvariant, PTL DEF ProgramSpec, FailuresReported
=============================================================================
