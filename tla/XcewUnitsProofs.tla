--------------------------- MODULE XcewUnitsProofs ---------------------------
(***************************************************************************)
(* Proofs about the EML unit inside XcewUnits, for every set of operands,  *)
(* every hash and every size of the memo cache.                            *)
(***************************************************************************)
EXTENDS XcewUnits, TLAPS

Same(x) == x \in accepted /\ Hash[x] = Hash[fetch_operand]

(***************************************************************************)
(* MemoSound alone is not inductive: an entry is filled at WB from         *)
(* result_r, which came either from a hit in FETCH or from the operand     *)
(* itself in SUB.  So the invariant follows result_r through the stages.   *)
(***************************************************************************)
EmlInvariant ==
    /\ current_stage \in {"IDLE", "FETCH", "EXP", "LN", "SUB", "WB"}
    /\ accepted \subseteq Operands
    /\ current_stage # "IDLE" => fetch_operand \in accepted
    /\ current_stage \in {"EXP", "LN", "SUB"} /\ memo_hit_r => Same(result_r)
    /\ current_stage = "WB" => Same(result_r)
    /\ memo = [s \in Eml!Slots |-> memo[s]]
    /\ MemoSound

LEMMA InitEml == Init => EmlInvariant
BY DEF Init, Eml!Init, EmlInvariant, MemoSound, Eml!Empty

LEMMA StepEml ==
    ASSUME EmlInvariant, operand \in Operands,
           Eml!Clock(xcew_pending, operand),
           accepted' = IF Eml!Accepts(xcew_pending)
                         THEN accepted \cup {operand} ELSE accepted
    PROVE  EmlInvariant'
<1> USE DEF Eml!Clock, Eml!Advance, Eml!o_ready, Eml!Accepts
<1>1. CASE current_stage = "IDLE" /\ ~xcew_pending
  BY <1>1 DEF EmlInvariant, MemoSound, Eml!Slots
<1>2. CASE current_stage = "IDLE" /\ xcew_pending
  BY <1>2 DEF EmlInvariant, MemoSound, Eml!Slots
<1>3. CASE current_stage = "FETCH"
  <2>1. /\ current_stage' = "EXP" /\ accepted' = accepted
        /\ fetch_operand' = fetch_operand /\ memo' = memo
        /\ memo_hit_r' = Eml!Hit
    BY <1>3
  <2>2. ASSUME Eml!Hit PROVE Same(result_r)'
    <3>1. result_r' = Eml!Cached.data BY <1>3, <2>2
    <3>2. Index[Eml!tag] \in Eml!Slots
      BY <1>3 DEF EmlInvariant, Eml!Slots, Eml!tag
    <3> QED BY <2>1, <2>2, <3>1, <3>2 DEF EmlInvariant, MemoSound, Same,
               Eml!Hit, Eml!Cached, Eml!tag
  <2> QED BY <1>3, <2>1, <2>2 DEF EmlInvariant, MemoSound
<1>4. CASE current_stage = "EXP"
  BY <1>4 DEF EmlInvariant, MemoSound, Same
<1>5. CASE current_stage = "LN"
  BY <1>5 DEF EmlInvariant, MemoSound, Same
<1>6. CASE current_stage = "SUB"
  BY <1>6 DEF EmlInvariant, MemoSound, Same
<1>7. CASE current_stage = "WB"
  <2>1. /\ current_stage' = "IDLE" /\ accepted' = accepted
        /\ fetch_operand' = fetch_operand
    BY <1>7
  <2>2. memo' = [s \in Eml!Slots |-> memo'[s]] /\ MemoSound'
    <3>1. CASE memo_hit_r
      BY <1>7, <2>1, <3>1 DEF Eml!Fill, EmlInvariant, MemoSound
    <3>2. CASE ~memo_hit_r
      <4>1. memo' = [memo EXCEPT ![Index[Eml!tag]] =
                        [valid |-> TRUE, tag |-> Eml!tag, data |-> result_r]]
        BY <1>7, <3>2 DEF Eml!Fill
      <4>2. Same(result_r) BY <1>7 DEF EmlInvariant
      <4>3. memo' = [s \in Eml!Slots |-> memo'[s]]
        BY <4>1 DEF EmlInvariant
      <4>4. ASSUME NEW s \in Eml!Slots, memo'[s].valid
            PROVE  /\ memo'[s].data \in accepted
                   /\ Hash[memo'[s].data] = memo'[s].tag
                   /\ Index[memo'[s].tag] = s
        BY <4>1, <4>2, <4>4 DEF EmlInvariant, MemoSound, Same, Eml!tag
      <4> QED BY <2>1, <4>3, <4>4 DEF MemoSound
    <3> QED BY <3>1, <3>2
  <2> QED BY <2>1, <2>2 DEF EmlInvariant
<1> QED BY <1>1, <1>2, <1>3, <1>4, <1>5, <1>6, <1>7 DEF EmlInvariant

\* Any operand on the core's bus is one of Operands.
LEMMA Stepping ==
    ASSUME operand \in Operands, [Next]_vars
    PROVE  /\ operand' \in Operands
           /\ \/ UNCHANGED vars
              \/ /\ Eml!Clock(xcew_pending, operand)
                 /\ accepted' = IF Eml!Accepts(xcew_pending)
                                  THEN accepted \cup {operand} ELSE accepted
<1>1. ASSUME NEW issue, NEW op, NEW x \in Operands, Tick(issue, op, x)
      PROVE  /\ operand' \in Operands
             /\ Eml!Clock(xcew_pending, operand)
             /\ accepted' = IF Eml!Accepts(xcew_pending)
                              THEN accepted \cup {operand} ELSE accepted
  BY <1>1 DEF Tick, CoreClock
<1>2. CASE Issue BY <1>1, <1>2 DEF Issue
<1>3. CASE Cycle BY <1>1, <1>3 DEF Cycle
<1>4. CASE UNCHANGED vars BY <1>4 DEF vars, core
<1> QED BY <1>2, <1>3, <1>4 DEF Next

LEMMA KeepsEml ==
    EmlInvariant /\ operand \in Operands /\ [Next]_vars
       => EmlInvariant' /\ operand' \in Operands
<1> SUFFICES ASSUME EmlInvariant, operand \in Operands, [Next]_vars
             PROVE  EmlInvariant' /\ operand' \in Operands
  OBVIOUS
<1>1. CASE UNCHANGED vars
  BY <1>1 DEF vars, eml, core, EmlInvariant, MemoSound, Same
<1>2. CASE Eml!Clock(xcew_pending, operand)
           /\ accepted' = IF Eml!Accepts(xcew_pending)
                            THEN accepted \cup {operand} ELSE accepted
  BY <1>2, StepEml, Stepping
<1> QED BY <1>1, <1>2, Stepping

(***************************************************************************)
(* Whatever the core asks for and whenever, the cache entries and the      *)
(* results written back belong to operations the unit ran, with the right  *)
(* hash.                                                                   *)
(***************************************************************************)
THEOREM EmlCorrect == Spec => [](MemoSound /\ ResultUpToHash)
<1> DEFINE Inv == EmlInvariant /\ operand \in Operands
<1>1. Init => Inv
  BY InitEml DEF Init
<1>2. Inv /\ [Next]_vars => Inv'
  BY KeepsEml
<1>3. Inv => MemoSound /\ ResultUpToHash
  BY DEF EmlInvariant, ResultUpToHash, Same
<1> QED BY <1>1, <1>2, <1>3, PTL DEF Spec

\* At most one operation is under way, and none in IDLE.
DepthInvariant ==
    /\ current_stage \in {"IDLE", "FETCH", "EXP", "LN", "SUB", "WB"}
    /\ depth_cnt \in {0, 1}
    /\ current_stage = "IDLE" => depth_cnt = 0
    /\ ~exc_depth /\ ~o_exc

LEMMA InitDepth == Init => DepthInvariant
BY DEF Init, Eml!Init, DepthInvariant

LEMMA KeepsDepth == DepthInvariant /\ [Next]_vars => DepthInvariant'
<1> SUFFICES ASSUME DepthInvariant, [Next]_vars PROVE DepthInvariant'
  OBVIOUS
<1>1. ASSUME Eml!Clock(xcew_pending, operand) PROVE DepthInvariant'
  <2> USE DEF Eml!Clock, Eml!Advance, Eml!o_ready, Eml!Accepts, DepthInvariant
  <2>1. ~o_exc' BY <1>1
  <2>2. ~exc_depth'
    <3>1. ~(depth_cnt > MaxDepth + 1) BY UnitsAssumption
    <3>2. exc_depth' = (depth_cnt > MaxDepth + 1) BY <1>1 DEF Eml!Depth
    <3> QED BY <3>1, <3>2
  <2>3. /\ current_stage' \in {"IDLE", "FETCH", "EXP", "LN", "SUB", "WB"}
        /\ current_stage' = "IDLE" =>
              \/ current_stage = "WB"
              \/ current_stage = "IDLE" /\ ~xcew_pending
    BY <1>1
  <2>4. depth_cnt' \in {0, 1} /\ (current_stage' = "IDLE" => depth_cnt' = 0)
    BY <1>1, <2>3 DEF Eml!Depth
  <2> QED BY <2>1, <2>2, <2>3, <2>4
<1>2. CASE UNCHANGED vars
  BY <1>2 DEF vars, eml, DepthInvariant
<1> QED BY <1>1, <1>2 DEF Next, Issue, Cycle, Tick

\* The depth counter is at most 1 and 0 in IDLE, so for every MAX_DEPTH the
\* EML unit never raises its exception.
THEOREM DepthCorrect == Spec => []NoDepthException
<1>1. DepthInvariant => NoDepthException
  BY DEF DepthInvariant, NoDepthException
<1> QED BY InitDepth, KeepsDepth, <1>1, PTL DEF Spec

----------------------------------------------------------------------------
(***************************************************************************)
(* The policy unit and its handshake with the core.  Its done signal lasts *)
(* longer than the stall it ends: in TIMEOUT and DONE the core may already *)
(* have another request out, so what the result register holds and whom    *)
(* the unit works for have to be followed state by state.                  *)
(***************************************************************************)
Asking == xcew_pending /\ xcew_opcode = "policy"

\* The states that work on a request, whose operand is the one on the bus.
AtWork ==
    /\ Asking /\ ~policy_done
    /\ internal_policy_data = operand

PolicyOwned ==
    mode.det_en =>
       /\ pol_state \in {"START_EXEC", "EXECUTE", "FINALIZE"} => AtWork
       /\ pol_state = "EXECUTE" => temp_result \subseteq {operand}
       /\ pol_state = "FINALIZE" => temp_result = {operand}
       /\ pol_state = "DONE" =>
             \/ policy_result = Pol!DeadBeef
             \/ Asking /\ policy_result = {operand}
       /\ pol_state = "TIMEOUT" /\ policy_done => policy_result = Pol!DeadBeef

\* Only a deterministic policy times out; the core leaves its stall between
\* the second and the third of the three cycles.
TimeoutSeen ==
    /\ timeout_irq => pol_state = "TIMEOUT"
    /\ pol_state # "TIMEOUT" => timeout_wait_cnt = 0
    /\ pol_state = "TIMEOUT" =>
          /\ mode.det_en
          /\ timeout_wait_cnt = 0 => Asking /\ ~policy_done
          /\ timeout_wait_cnt = 1 => Asking /\ policy_done
          /\ timeout_wait_cnt = 2 => ~xcew_pending /\ policy_done

PolicyTypes ==
    /\ pol_state \in {"IDLE", "START_EXEC", "EXECUTE", "FINALIZE", "TIMEOUT", "DONE"}
    /\ cycle_counter \in 0 .. 21
    /\ pol_state = "EXECUTE" => cycle_counter \in 0 .. 20
    /\ timeout_wait_cnt \in 0 .. 2
    /\ policy_done \in BOOLEAN /\ timeout_irq \in BOOLEAN
    /\ policy_done => pol_state \in {"TIMEOUT", "DONE"}

CoreTypes ==
    /\ xcew_opcode \in {"none", "eml", "policy", "misc"} /\ operand \in Operands
    /\ mode \in Modes
    /\ xcew_pending \in BOOLEAN /\ masked \in BOOLEAN

PolicyInvariant ==
    CoreTypes /\ PolicyTypes /\ PolicyOwned /\ TimeoutSeen /\ PolicyAnswerIsOwn

LEMMA InitPolicy == Init => PolicyInvariant
<1> SUFFICES ASSUME Init PROVE PolicyInvariant
  OBVIOUS
<1>1. CoreTypes BY DEF Init, CoreTypes
<1>2. PolicyTypes
  <2>1. ~policy_done /\ policy_done \in BOOLEAN /\ timeout_irq \in BOOLEAN
    BY DEF Init, Pol!Init
  <2> QED BY <2>1 DEF Init, Pol!Init, PolicyTypes
<1>3. PolicyOwned BY DEF Init, Pol!Init, PolicyOwned
<1>4. TimeoutSeen BY DEF Init, Pol!Init, TimeoutSeen
<1>5. PolicyAnswerIsOwn BY DEF Init, PolicyAnswerIsOwn
<1> QED BY <1>1, <1>2, <1>3, <1>4, <1>5 DEF PolicyInvariant

\* What one cycle of the handshake does, seen from the policy unit.
LEMMA CoreStep ==
    ASSUME CoreTypes, NEW issue \in BOOLEAN, NEW x \in Operands,
           NEW op \in {"none", "eml", "policy", "misc"}, Tick(issue, op, x)
    PROVE  /\ CoreTypes' /\ mode' = mode
           /\ Asking /\ ~policy_done => Asking' /\ operand' = operand
           /\ Asking /\ policy_done => ~xcew_pending'
           /\ ~xcew_pending => answer' = NoAnswer
           /\ answer' # NoAnswer /\ xcew_opcode' = "policy" =>
                 Asking /\ policy_done /\ answer' = <<policy_result>> /\ operand' = operand
<1>1. mode' = mode /\ xcew_opcode' \in {"none", "eml", "policy", "misc"}
      /\ operand' \in Operands
  BY DEF Tick, CoreClock, CoreTypes
<1>2. xcew_pending' \in BOOLEAN /\ masked' \in BOOLEAN
  BY DEF Tick, CoreClock, CoreTypes
<1>3. Asking => (core_xcew_done <=> policy_done)
  BY DEF Asking, core_xcew_done
<1>4. Asking /\ ~policy_done => Asking' /\ operand' = operand
  BY <1>3 DEF Asking, Tick, CoreClock, CoreTypes
<1>5. Asking /\ policy_done => ~xcew_pending'
  BY <1>3 DEF Asking, Tick, CoreClock, CoreTypes
<1>6. ~xcew_pending => answer' = NoAnswer
  BY DEF Tick, CoreClock, Completes
<1>7. ASSUME answer' # NoAnswer, xcew_opcode' = "policy"
      PROVE  Asking /\ policy_done /\ answer' = <<policy_result>> /\ operand' = operand
  <2>1. xcew_pending /\ core_xcew_done /\ answer' = core_xcew_resp
    BY <1>7 DEF Tick, CoreClock, Completes
  <2>2. xcew_opcode = "policy" /\ operand' = operand
    BY <1>7, <2>1 DEF Tick, CoreClock
  <2> QED BY <1>3, <2>1, <2>2 DEF Asking, core_xcew_resp
<1> QED BY <1>1, <1>2, <1>4, <1>5, <1>6, <1>7 DEF CoreTypes

LEMMA StepPolicy ==
    ASSUME PolicyInvariant, NEW issue \in BOOLEAN, NEW x \in Operands,
           NEW op \in {"none", "eml", "policy", "misc"}, Tick(issue, op, x)
    PROVE  PolicyInvariant'
<1> DEFINE det == mode.det_en
           max == mode.max
<1>1. /\ CoreTypes' /\ mode' = mode
      /\ Asking /\ ~policy_done => Asking' /\ operand' = operand
      /\ Asking /\ policy_done => ~xcew_pending'
      /\ ~xcew_pending => answer' = NoAnswer
      /\ answer' # NoAnswer /\ xcew_opcode' = "policy" =>
            Asking /\ policy_done /\ answer' = <<policy_result>> /\ operand' = operand
  BY CoreStep DEF PolicyInvariant
<1>2. Pol!Clock(Asking, operand, det, max)
  BY DEF Tick, Asking
<1>3. det \in BOOLEAN /\ max \in 0 .. 15
  <2>1. mode \in Modes BY DEF PolicyInvariant, CoreTypes
  <2>2. mode \in [const_time_en : BOOLEAN, det_en : BOOLEAN, max : 0 .. 15]
    BY <2>1, UnitsAssumption
  <2> QED BY <2>2
<1>4. PolicyAnswerIsOwn'
  BY <1>1 DEF PolicyInvariant, PolicyOwned, PolicyTypes, PolicyAnswerIsOwn, NoAnswer, Asking
<1> HIDE DEF det, max
<1>5. PolicyTypes'
  <2>1. CASE Pol!Idle(Asking, operand, det)
    <3>1. /\ policy_done' \in BOOLEAN /\ timeout_irq' \in BOOLEAN
          /\ ~policy_done'
      BY <2>1 DEF Pol!Idle, PolicyInvariant, PolicyTypes
    <3>2. /\ pol_state' \in {"IDLE", "START_EXEC", "EXECUTE"}
          /\ cycle_counter' \in 0 .. 21 /\ timeout_wait_cnt' \in 0 .. 2
          /\ pol_state' = "EXECUTE" => cycle_counter' \in 0 .. 20
      BY <2>1 DEF Pol!Idle, PolicyInvariant, PolicyTypes
    <3> QED BY <3>1, <3>2 DEF PolicyTypes
  <2>2. CASE Pol!StartExec(operand, max)
    <3>1. /\ policy_done' \in BOOLEAN /\ timeout_irq' \in BOOLEAN
          /\ policy_done' => pol_state' \in {"TIMEOUT", "DONE"}
      BY <2>2 DEF Pol!StartExec, PolicyInvariant, PolicyTypes
    <3>2. /\ pol_state' = "EXECUTE" /\ cycle_counter' = 1
          /\ timeout_wait_cnt' \in 0 .. 2
      BY <2>2 DEF Pol!StartExec, PolicyInvariant, PolicyTypes
    <3> QED BY <3>1, <3>2 DEF PolicyTypes
  <2>3. CASE Pol!Execute(det, max)
    <3> DEFINE late == det /\ cycle_counter >= max
    <3>1. /\ pol_state = "EXECUTE" /\ policy_done' \in BOOLEAN
          /\ policy_done' => pol_state' \in {"TIMEOUT", "DONE"}
      BY <2>3 DEF Pol!Execute, PolicyInvariant, PolicyTypes
    <3>2. timeout_irq' \in BOOLEAN /\ timeout_wait_cnt' \in 0 .. 2
      BY <2>3 DEF Pol!Execute, PolicyInvariant, PolicyTypes
    <3>3. cycle_counter \in 0 .. 20 /\ cycle_counter' \in 0 .. 21
      BY <2>3, <3>1 DEF Pol!Execute, PolicyInvariant, PolicyTypes
    <3>4. /\ pol_state' \in {"IDLE", "START_EXEC", "EXECUTE", "FINALIZE", "TIMEOUT", "DONE"}
          /\ pol_state' = "EXECUTE" => cycle_counter' \in 0 .. 20
      BY <1>3, <2>3, <3>3 DEF Pol!Execute
    <3> QED BY <3>1, <3>2, <3>3, <3>4 DEF PolicyTypes
  <2>4. CASE Pol!Finalize
    BY <2>4 DEF Pol!Finalize, PolicyInvariant, PolicyTypes
  <2>5. CASE Pol!Timeout
    BY <2>5 DEF Pol!Timeout, PolicyInvariant, PolicyTypes
  <2>6. CASE Pol!Done
    BY <2>6 DEF Pol!Done, PolicyInvariant, PolicyTypes
  <2> QED BY <1>2, <2>1, <2>2, <2>3, <2>4, <2>5, <2>6 DEF Pol!Clock
<1>6. PolicyOwned'
  <2> SUFFICES ASSUME det
               PROVE  PolicyOwned'
    BY <1>1 DEF PolicyOwned, det
  <2> USE DEF PolicyInvariant, PolicyTypes, PolicyOwned, AtWork
  <2>0. det = mode.det_en /\ mode' = mode BY <1>1 DEF det
  <2>1. CASE Pol!Idle(Asking, operand, det)
    BY <1>1, <2>0, <2>1 DEF Pol!Idle
  <2>2. CASE Pol!StartExec(operand, max)
    BY <1>1, <2>0, <2>2 DEF Pol!StartExec
  <2>3. CASE Pol!Execute(det, max)
    BY <1>1, <2>0, <2>3 DEF Pol!Execute
  <2>4. CASE Pol!Finalize
    BY <1>1, <2>0, <2>4 DEF Pol!Finalize
  <2>5. CASE Pol!Timeout
    BY <1>1, <2>0, <2>5 DEF Pol!Timeout
  <2>6. CASE Pol!Done
    BY <1>1, <2>0, <2>6 DEF Pol!Done
  <2> QED BY <1>2, <2>1, <2>2, <2>3, <2>4, <2>5, <2>6 DEF Pol!Clock
<1>7. TimeoutSeen'
  <2> USE DEF PolicyInvariant, PolicyTypes, TimeoutSeen
  <2>0. det = mode.det_en /\ mode' = mode BY <1>1 DEF det
  <2>1. CASE Pol!Idle(Asking, operand, det)
    BY <1>1, <2>0, <2>1 DEF Pol!Idle
  <2>2. CASE Pol!StartExec(operand, max)
    BY <1>1, <2>0, <2>2 DEF Pol!StartExec
  <2>3. CASE Pol!Execute(det, max)
    BY <1>1, <2>0, <2>3 DEF Pol!Execute, PolicyOwned, AtWork
  <2>4. CASE Pol!Finalize
    BY <1>1, <2>0, <2>4 DEF Pol!Finalize
  <2>5. CASE Pol!Timeout
    <3>1. pol_state = "TIMEOUT" /\ mode'.det_en /\ policy_done'
      BY <1>1, <2>5 DEF Pol!Timeout
    <3>2. CASE timeout_wait_cnt = 2
      <4>1. timeout_wait_cnt >= 2 BY <3>2
      <4>2. timeout_irq' = ~(timeout_wait_cnt >= 2) BY <2>5 DEF Pol!Timeout
      <4>3. ~timeout_irq' BY <4>1, <4>2
      <4>4. pol_state' = "DONE" /\ timeout_wait_cnt' = 0
        BY <2>5, <4>1 DEF Pol!Timeout
      <4> QED BY <4>3, <4>4
    <3>3. CASE timeout_wait_cnt = 1
      BY <1>1, <2>5, <3>1, <3>3 DEF Pol!Timeout
    <3>4. CASE timeout_wait_cnt = 0
      BY <1>1, <2>5, <3>1, <3>4 DEF Pol!Timeout
    <3> QED BY <3>2, <3>3, <3>4
  <2>6. CASE Pol!Done
    BY <1>1, <2>0, <2>6 DEF Pol!Done
  <2> QED BY <1>2, <2>1, <2>2, <2>3, <2>4, <2>5, <2>6 DEF Pol!Clock
<1> QED BY <1>1, <1>4, <1>5, <1>6, <1>7 DEF PolicyInvariant

LEMMA KeepsPolicy == PolicyInvariant /\ [Next]_vars => PolicyInvariant'
<1> SUFFICES ASSUME PolicyInvariant, [Next]_vars PROVE PolicyInvariant'
  OBVIOUS
<1>1. CASE UNCHANGED vars
  BY <1>1 DEF vars, policy, core, PolicyInvariant, CoreTypes, PolicyTypes,
              PolicyOwned, AtWork, Asking, TimeoutSeen, PolicyAnswerIsOwn
<1>2. CASE Issue
  BY <1>2, StepPolicy DEF Issue
<1>3. CASE Cycle
  BY <1>3, StepPolicy DEF Cycle, PolicyInvariant, CoreTypes
<1> QED BY <1>1, <1>2, <1>3 DEF Next

\* In every mode and whatever the limits, the end of the timeout's pulse finds
\* the core out of the stall: policy_determinism.v holds the pulse for three
\* cycles and its done signal ends the stall after two of them.
THEOREM TimeoutCorrect == Spec => TimeoutOutlivesStall
<1>1. Init => PolicyInvariant BY InitPolicy
<1>2. PolicyInvariant /\ [Next]_vars => PolicyInvariant' BY KeepsPolicy
<1>3. ASSUME PolicyInvariant, NEW issue, NEW op, NEW x, Tick(issue, op, x),
             timeout_irq, ~timeout_irq'
      PROVE  ~(masked /\ xcew_pending)
  <2>1. pol_state = "TIMEOUT" BY <1>3 DEF PolicyInvariant, TimeoutSeen
  <2>2. Pol!Timeout
    BY <1>3, <2>1 DEF Tick, Pol!Clock, Pol!Idle, Pol!StartExec, Pol!Execute,
                      Pol!Finalize, Pol!Done
  <2>3. timeout_irq' = ~(timeout_wait_cnt >= 2) BY <2>2 DEF Pol!Timeout
  <2>4. timeout_wait_cnt >= 2 BY <1>3, <2>3
  <2>5. timeout_wait_cnt = 2 BY <1>3, <2>4 DEF PolicyInvariant, PolicyTypes
  <2> QED BY <1>3, <2>1, <2>5 DEF PolicyInvariant, TimeoutSeen
<1>4. PolicyInvariant /\ [Next]_vars =>
         [timeout_irq /\ ~timeout_irq' => ~(masked /\ xcew_pending)]_vars
  BY <1>3 DEF Next, Issue, Cycle
<1> QED BY <1>1, <1>2, <1>4, PTL DEF Spec, TimeoutOutlivesStall

----------------------------------------------------------------------------
(***************************************************************************)
(* The types of the EML registers lean on EmlInvariant: only there is it   *)
(* known that the cache is filled in a stage that holds an operation.      *)
(***************************************************************************)
PathTypes ==
    /\ Eml!TypeOK
    /\ ct_state \in {"IDLE", "EXECUTE", "PAD", "FINALIZE", "STALL_BRANCH"}
    /\ ct_valid \in BOOLEAN

LEMMA InitPaths == Init => PathTypes
<1> SUFFICES ASSUME Init PROVE PathTypes
  OBVIOUS
<1>1. {memo_hit_r, exc_depth, o_valid, o_exc} \subseteq BOOLEAN /\ ct_valid \in BOOLEAN
  BY DEF Init, Eml!Init, Ct!Init
<1>2. memo \in [Eml!Slots -> {Eml!Empty}
                   \cup [valid : {TRUE}, tag : Eml!Tags, data : Operands]]
  BY DEF Init, Eml!Init
<1>3. depth_cnt \in 0 .. 7 /\ ct_state = "IDLE"
      /\ {fetch_operand, result_r, o_rd} \subseteq Operands \cup {Eml!Nothing}
  BY DEF Init, Eml!Init, Ct!Init
<1>4. current_stage \in DOMAIN Eml!Advance
  BY DEF Init, Eml!Init, Eml!Advance
<1>5. Eml!TypeOK BY <1>1, <1>2, <1>3, <1>4 DEF Eml!TypeOK
<1> QED BY <1>1, <1>3, <1>5 DEF PathTypes

LEMMA StepPaths ==
    ASSUME EmlInvariant, DepthInvariant, DepthInvariant', PathTypes,
           operand \in Operands, xcew_pending \in BOOLEAN,
           Eml!Clock(xcew_pending, operand), Ct!Clock(xcew_pending, operand)
    PROVE  PathTypes'
<1> USE DEF EmlInvariant, PathTypes, Eml!TypeOK
<1>1. ct_state' \in {"IDLE", "EXECUTE", "PAD", "FINALIZE", "STALL_BRANCH"}
  BY DEF Ct!Clock
<1>2. ct_valid' \in BOOLEAN
  BY DEF Ct!Clock, Ct!Valid
<1>3. current_stage' \in DOMAIN Eml!Advance
  BY DEF DepthInvariant, Eml!Advance
<1>4. fetch_operand' \in Operands \cup {Eml!Nothing}
  BY DEF Eml!Clock
<1>5. current_stage # "IDLE" =>
         /\ fetch_operand \in Operands
         /\ Eml!tag \in Eml!Tags /\ Index[Eml!tag] \in Eml!Slots
  BY DEF Eml!tag, Eml!Tags, Eml!Slots
<1>6. result_r' \in Operands \cup {Eml!Nothing}
  <2>1. CASE current_stage = "FETCH" /\ Eml!Hit
    <3>1. Eml!Cached.valid /\ Eml!Cached \in {Eml!Empty}
             \cup [valid : {TRUE}, tag : Eml!Tags, data : Operands]
      BY <1>5, <2>1 DEF Eml!Hit, Eml!Cached
    <3>2. Eml!Cached.data \in Operands
      <4>1. Eml!Cached # Eml!Empty
        <5>1. Eml!Empty.valid = FALSE BY DEF Eml!Empty
        <5> QED BY <3>1, <5>1
      <4>2. Eml!Cached \in [valid : {TRUE}, tag : Eml!Tags, data : Operands]
        BY <3>1, <4>1
      <4> QED BY <4>2
    <3>3. result_r' = Eml!Cached.data
      BY <2>1 DEF Eml!Clock
    <3> QED BY <3>2, <3>3
  <2>2. CASE current_stage = "SUB" /\ ~memo_hit_r
    <3>1. result_r' = fetch_operand
      BY <2>2 DEF Eml!Clock
    <3> QED BY <3>1
  <2>3. CASE ~(current_stage = "FETCH" /\ Eml!Hit) /\ ~(current_stage = "SUB" /\ ~memo_hit_r)
    <3>1. result_r' = result_r
      BY <2>3 DEF Eml!Clock
    <3> QED BY <3>1
  <2> QED BY <2>1, <2>2, <2>3
<1>7. o_rd' \in Operands \cup {Eml!Nothing}
  BY DEF Eml!Clock
<1>8. memo' \in [Eml!Slots -> {Eml!Empty}
                    \cup [valid : {TRUE}, tag : Eml!Tags, data : Operands]]
  <2>1. CASE current_stage = "WB" /\ ~memo_hit_r
    <3>1. memo' = [memo EXCEPT ![Index[Eml!tag]] =
                      [valid |-> TRUE, tag |-> Eml!tag, data |-> result_r]]
      BY <2>1 DEF Eml!Clock, Eml!Fill
    <3>2. [valid |-> TRUE, tag |-> Eml!tag, data |-> result_r]
             \in [valid : {TRUE}, tag : Eml!Tags, data : Operands]
      BY <1>5, <2>1 DEF Same
    <3> QED BY <3>1, <3>2
  <2>2. CASE ~(current_stage = "WB" /\ ~memo_hit_r)
    <3>1. memo' = memo BY <2>2 DEF Eml!Clock, Eml!Fill
    <3> QED BY <3>1
  <2> QED BY <2>1, <2>2
<1>9. depth_cnt' \in 0 .. 7
  BY DEF DepthInvariant
<1>10. memo_hit_r' \in BOOLEAN
  BY DEF Eml!Clock, Eml!Hit
<1>11. exc_depth' \in BOOLEAN /\ o_valid' \in BOOLEAN /\ o_exc' \in BOOLEAN
  <2>1. exc_depth \in BOOLEAN OBVIOUS
  <2>2. exc_depth' \in BOOLEAN BY DEF Eml!Clock, Eml!Depth
  <2>3. o_valid' \in BOOLEAN BY DEF Eml!Clock
  <2>4. o_exc' \in BOOLEAN BY <2>1 DEF Eml!Clock
  <2> QED BY <2>2, <2>3, <2>4
<1> QED BY <1>1, <1>2, <1>3, <1>4, <1>6, <1>7, <1>8, <1>9, <1>10, <1>11

\* Everything together.
UnitsInvariant ==
    EmlInvariant /\ DepthInvariant /\ PolicyInvariant /\ PathTypes

(***************************************************************************)
(* For every set of operands, hash, cache size and CSR setting, and        *)
(* whatever the core issues: the registers have their types, the cache     *)
(* belongs to operations that ran, a deterministic policy answers the      *)
(* request that is out, and the depth exception never comes.               *)
(***************************************************************************)
THEOREM UnitsCorrect == Spec => []UnitsApart
<1>1. Init => UnitsInvariant
  BY InitEml, InitDepth, InitPolicy, InitPaths DEF UnitsInvariant
<1>2. UnitsInvariant /\ [Next]_vars => UnitsInvariant'
  <2> SUFFICES ASSUME UnitsInvariant, [Next]_vars PROVE UnitsInvariant'
    OBVIOUS
  <2>1. EmlInvariant' /\ DepthInvariant' /\ PolicyInvariant'
    BY KeepsEml, KeepsDepth, KeepsPolicy DEF UnitsInvariant, PolicyInvariant, CoreTypes
  <2>2. PathTypes'
    <3>1. CASE UNCHANGED vars
      BY <3>1 DEF vars, eml, ct, UnitsInvariant, PathTypes, Eml!TypeOK
    <3>2. ASSUME NEW issue, NEW op, NEW x, Tick(issue, op, x) PROVE PathTypes'
      BY <2>1, <3>2, StepPaths DEF UnitsInvariant, PolicyInvariant, CoreTypes, Tick
    <3> QED BY <3>1, <3>2 DEF Next, Issue, Cycle
  <2> QED BY <2>1, <2>2 DEF UnitsInvariant
<1>3. UnitsInvariant => UnitsApart
  <2> SUFFICES ASSUME UnitsInvariant PROVE UnitsApart
    OBVIOUS
  <2>1. {xcew_pending, ct_valid, policy_done, timeout_irq, masked} \subseteq BOOLEAN
    BY DEF UnitsInvariant, PathTypes, PolicyInvariant, PolicyTypes, CoreTypes
  <2>2. TypeOK
    BY <2>1 DEF UnitsInvariant, PathTypes, PolicyInvariant, PolicyTypes,
                CoreTypes, EmlInvariant, TypeOK
  <2> QED BY <2>2 DEF UnitsInvariant, UnitsApart, EmlInvariant, PolicyInvariant,
                      DepthInvariant, NoDepthException
<1> QED BY <1>1, <1>2, <1>3, PTL DEF Spec
=============================================================================
