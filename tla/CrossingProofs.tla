---------------------------- MODULE CrossingProofs ----------------------------
(***************************************************************************)
(* Proofs about the clock domain crossings.  Of cdc_data_sync, for every   *)
(* set of words, every relation between the two clocks and every readiness *)
(* of the destination: a source that waits for the acknowledge before it   *)
(* requests again sees it as a one-place channel.  The argument is the     *)
(* delay-line invariant Handshake: a request edge and an acknowledge edge  *)
(* are never on their way at the same time.  Then of SnnPath, where a data *)
(* and a pulse synchronizer run side by side: in which order their edges   *)
(* reach the tile, whichever way the first flops fall.                     *)
(***************************************************************************)
EXTENDS SnnPath, TLAPS

\* Nothing a clock edge does takes a register out of its type, whatever the
\* source does: the mixture of two words is confined to data_reg_dst.
THEOREM TypeCorrect == Spec => []TypeOK
<1> USE DataSyncAssumption DEF TypeOK, Bit, BusWords
<1>1. Init => TypeOK
  BY DEF Init
<1>2. TypeOK /\ [Next]_vars => TypeOK'
  <2> SUFFICES ASSUME TypeOK, [Next]_vars
               PROVE  TypeOK'
    OBVIOUS
  <2>1. ASSUME NEW v \in Bit, SrcEdge(v)
        PROVE  /\ data_reg_src' \in Words \cup {ResetWord}
               /\ req_reg_src' \in Bit
               /\ ack_ff1' \in Bit /\ ack_ff2' \in Bit /\ ack_dst_d' \in Bit
               /\ sent' \in Seq(Words)
    <3>1. CASE NoRequest
      BY <2>1, <3>1 DEF SrcEdge, NoRequest
    <3>2. ASSUME NEW w \in Words, Request(w)
          PROVE  /\ data_reg_src' = w /\ req_reg_src' = 1
                 /\ sent' \in Seq(Words)
      BY <3>2 DEF Request
    <3> QED
      BY <2>1, <3>1, <3>2 DEF SrcEdge
  <2>2. ASSUME NEW r \in Bit, NEW d \in BusWords, DstEdge(r, d)
        PROVE  /\ req_ff1' \in Bit /\ req_ff2' \in Bit /\ req_dst_d' \in Bit
               /\ data_reg_dst' \in BusWords /\ valid_reg_dst' \in Bit
               /\ rcvd' \in Seq(BusWords)
    BY <2>2 DEF DstEdge
  <2>3. CASE SrcTick
    BY <2>1, <2>3 DEF SrcTick, dstVars
  <2>4. CASE DstTick
    BY <2>2, <2>4 DEF DstTick, srcVars
  <2>5. CASE BothTick
    <3>1. PICK v \in Bit, r \in Bit, d \in BusWords : SrcEdge(v) /\ DstEdge(r, d)
      BY <2>5 DEF BothTick
    <3>2. lone' = {}
      BY <2>5 DEF BothTick
    <3> QED
      BY <2>1, <2>2, <3>1, <3>2
  <2>6. CASE UNCHANGED vars
    BY <2>6 DEF vars, srcVars, dstVars
  <2> QED
    BY <2>3, <2>4, <2>5, <2>6 DEF Next
<1> QED
  BY <1>1, <1>2, PTL DEF Spec

----------------------------------------------------------------------------
\* The history lengthens by one word per request and per delivery.
LEMMA AppendOne ==
    ASSUME NEW S, NEW s \in Seq(S), NEW e
    PROVE  /\ Len(Append(s, e)) = Len(s) + 1
           /\ Append(s, e)[Len(s) + 1] = e
           /\ \A i \in 1 .. Len(s) : Append(s, e)[i] = s[i]
  OBVIOUS

\* What a request finds: no word outstanding.
LEMMA RequestWhenClear ==
    ASSUME SourceWaits # "never", TypeOK, Handshake, NEW w \in Words, Request(w)
    PROVE  /\ req_reg_src = 0 /\ req_reg_src' = 1 /\ data_reg_src' = w
           /\ Len(sent) = Len(rcvd)
           /\ Len(sent') = Len(sent) + 1
           /\ sent'[Len(sent) + 1] = w
           /\ NoRise(req_reg_src, req_ff1, req_ff2, req_dst_d)
           /\ NoRise(valid_reg_dst, ack_ff1, ack_ff2, ack_dst_d)
<1>1. req_reg_src = 0 /\ req_reg_src' = 1 /\ data_reg_src' = w
  BY DEF Request, MayRequest
<1>2. sent' = Append(sent, w) /\ sent \in Seq(Words)
  BY DEF Request, TypeOK
<1>3. Len(sent') = Len(sent) + 1 /\ sent'[Len(sent) + 1] = w
  BY <1>2, AppendOne
<1>4. Len(sent) = Len(rcvd) /\ Len(sent) \in Nat /\ Len(rcvd) \in Nat
  BY <1>1, <1>2 DEF Handshake, TypeOK
<1> QED
  BY <1>1, <1>3, <1>4 DEF Handshake

\* What a delivery finds: the outstanding word, alone on its way.
LEMMA DeliverOutstanding ==
    ASSUME TypeOK, Handshake, NEW r, NEW d, DstEdge(r, d),
           req_ff2 = 1, req_dst_d = 0
    PROVE  /\ Len(sent) = Len(rcvd) + 1
           /\ rcvd' = Append(rcvd, d) /\ Len(rcvd') = Len(rcvd) + 1
           /\ data_reg_src = sent[Len(rcvd) + 1]
           /\ req_reg_src = 1 /\ req_ff1 = 1
           /\ valid_reg_dst' = 1
           /\ NoRise(valid_reg_dst, ack_ff1, ack_ff2, ack_dst_d)
<1>1. rcvd' = Append(rcvd, d) /\ valid_reg_dst' = 1 /\ rcvd \in Seq(BusWords)
  BY DEF DstEdge, TypeOK
<1>2. Len(rcvd') = Len(rcvd) + 1
  BY <1>1, AppendOne
<1>3. Len(sent) # Len(rcvd)
  BY DEF Handshake, NoRise
<1>4. Len(sent) = Len(rcvd) + 1 /\ Len(sent) > Len(rcvd)
  BY <1>1, <1>3 DEF Handshake
<1>5. req_reg_src = 1 /\ req_ff1 = 1
  BY <1>4 DEF Handshake, OneRise, TypeOK, Bit
<1> QED
  BY <1>1, <1>2, <1>4, <1>5 DEF Handshake

\* No request is made and none is withdrawn while a word is outstanding.
LEMMA NoRequestKeeps ==
    ASSUME TypeOK, Handshake, NoRequest
    PROVE  /\ sent' = sent /\ data_reg_src' = data_reg_src
           /\ req_reg_src' \in {0, req_reg_src}
           /\ Len(sent) > Len(rcvd) => req_reg_src' = 1
           /\ req_reg_src' = 0 =>
                 req_reg_src = 0 \/ (ack_ff2 = 1 /\ ack_dst_d = 0)
  BY DEF NoRequest, ack_src, Handshake, NoRise, TypeOK, Bit

LEMMA HandshakeInductive ==
    ASSUME SourceWaits # "never", TypeOK, TypeOK', Handshake, [Next]_vars
    PROVE  Handshake'
<1> USE DEF Bit
<1>0. Len(sent) \in Nat /\ Len(rcvd) \in Nat
  BY DEF TypeOK
<1>1. ASSUME SrcTick
      PROVE  Handshake'
  <2>1. /\ ack_ff1' = valid_reg_dst /\ ack_ff2' = ack_ff1 /\ ack_dst_d' = ack_ff2
        /\ UNCHANGED dstVars
    BY <1>1 DEF SrcTick, SrcEdge
  <2>2. CASE NoRequest
    BY <1>0, <2>1, <2>2, NoRequestKeeps
       DEF Handshake, NoRise, OneRise, TypeOK, dstVars
  <2>3. ASSUME NEW w \in Words, Request(w)
        PROVE  Handshake'
    BY <1>0, <2>1, <2>3, RequestWhenClear
       DEF Handshake, NoRise, OneRise, TypeOK, dstVars
  <2> QED
    BY <1>1, <2>2, <2>3 DEF SrcTick, SrcEdge
<1>2. ASSUME DstTick
      PROVE  Handshake'
  <2>1. /\ req_ff1' = req_reg_src /\ req_ff2' = req_ff1 /\ req_dst_d' = req_ff2
        /\ DstEdge(req_reg_src, data_reg_src)
        /\ UNCHANGED srcVars
    BY <1>2 DEF DstTick, DstEdge
  <2>2. CASE req_ff2 = 1 /\ req_dst_d = 0
    BY <1>0, <2>1, <2>2, DeliverOutstanding
       DEF Handshake, NoRise, OneRise, TypeOK, srcVars
  <2>3. CASE ~(req_ff2 = 1 /\ req_dst_d = 0)
    <3>1. rcvd' = rcvd /\ valid_reg_dst' \in {0, valid_reg_dst}
      BY <2>1, <2>3 DEF DstEdge, TypeOK
    <3> QED
      BY <1>0, <2>1, <2>3, <3>1 DEF Handshake, NoRise, OneRise, TypeOK, srcVars
  <2> QED
    BY <2>2, <2>3
<1>3. ASSUME BothTick
      PROVE  Handshake'
  <2>1. PICK v \in Bit, r \in Bit, d \in BusWords :
            /\ SrcEdge(v) /\ DstEdge(r, d)
            /\ v \in {valid_reg_dst, valid_reg_dst'}
            /\ r \in {req_reg_src, req_reg_src'}
    BY <1>3 DEF BothTick
  <2>2. /\ req_ff1' = r /\ req_ff2' = req_ff1 /\ req_dst_d' = req_ff2
        /\ ack_ff1' = v /\ ack_ff2' = ack_ff1 /\ ack_dst_d' = ack_ff2
    BY <2>1 DEF DstEdge, SrcEdge
  <2>3. CASE req_ff2 = 1 /\ req_dst_d = 0
    <3>1. NoRequest
      BY <1>0, <2>1, <2>3, DeliverOutstanding, RequestWhenClear DEF SrcEdge
    <3> QED
      BY <1>0, <2>1, <2>2, <2>3, <3>1, DeliverOutstanding, NoRequestKeeps
         DEF Handshake, NoRise, OneRise, TypeOK
  <2>4. CASE ~(req_ff2 = 1 /\ req_dst_d = 0)
    <3>1. rcvd' = rcvd /\ valid_reg_dst' \in {0, valid_reg_dst}
      BY <2>1, <2>4 DEF DstEdge, TypeOK
    <3>2. CASE NoRequest
      BY <1>0, <2>1, <2>2, <2>4, <3>1, <3>2, NoRequestKeeps
         DEF Handshake, NoRise, OneRise, TypeOK
    <3>3. ASSUME NEW w \in Words, Request(w)
          PROVE  Handshake'
      BY <1>0, <2>1, <2>2, <2>4, <3>1, <3>3, RequestWhenClear
         DEF Handshake, NoRise, OneRise, TypeOK
    <3> QED
      BY <2>1, <3>2, <3>3 DEF SrcEdge
  <2> QED
    BY <2>3, <2>4
<1>4. CASE UNCHANGED vars
  BY <1>4 DEF vars, srcVars, dstVars, Handshake, NoRise, OneRise
<1> QED
  BY <1>1, <1>2, <1>3, <1>4 DEF Next

LEMMA InitHandshake ==
    ASSUME Init
    PROVE  Handshake
<1>1. Len(sent) = 0 /\ Len(rcvd) = 0
  BY DEF Init
<1> QED
  BY <1>1 DEF Init, Handshake, NoRise, OneRise

\* The delay-line argument: with a source that waits for the acknowledge, the
\* two edges of the handshake never chase each other, on any pair of clocks.
THEOREM HandshakeInvariant ==
    ASSUME SourceWaits # "never"
    PROVE  Spec => []Handshake
<1>1. Init => Handshake
  BY InitHandshake
<1>2. TypeOK /\ TypeOK' /\ Handshake /\ [Next]_vars => Handshake'
  BY HandshakeInductive
<1> QED
  BY <1>1, <1>2, TypeCorrect, PTL DEF Spec

----------------------------------------------------------------------------
\* Every word shown with valid_dst is the requested one, whole, once and in
\* order: cdc_data_sync implements the one-place channel of DataChannel.
THEOREM Implementation ==
    ASSUME SourceWaits # "never"
    PROVE  Spec => ImplementsChannel
<1>1. Init => Channel!ChanInit
  BY DEF Init, Channel!ChanInit
<1>2. TypeOK /\ Handshake /\ [Next]_vars => [Channel!ChanNext]_(Channel!chanVars)
  <2> SUFFICES ASSUME TypeOK, Handshake, [Next]_vars
               PROVE  [Channel!ChanNext]_(Channel!chanVars)
    OBVIOUS
  <2> USE DEF Channel!chanVars, Channel!ChanNext, Channel!Accept, Channel!Deliver
  <2>1. ASSUME NEW w \in Words, Request(w), rcvd' = rcvd
        PROVE  Channel!ChanNext
    BY <2>1, RequestWhenClear DEF Request
  <2>2. ASSUME NEW r, NEW d, DstEdge(r, d), req_ff2 = 1, req_dst_d = 0,
               NoRequest, d \in Sampled(data_reg_src, data_reg_src')
        PROVE  Channel!ChanNext
    <3>1. /\ rcvd' = Append(rcvd, d) /\ Len(sent) = Len(rcvd) + 1
          /\ data_reg_src = sent[Len(rcvd) + 1] /\ Len(rcvd) \in Nat
      BY <2>2, DeliverOutstanding DEF TypeOK
    <3>2. sent' = sent /\ d = data_reg_src
      BY <2>2 DEF NoRequest, Sampled
    <3> QED
      BY <3>1, <3>2
  <2>3. ASSUME NEW r, NEW d, DstEdge(r, d), ~(req_ff2 = 1 /\ req_dst_d = 0)
        PROVE  rcvd' = rcvd
    BY <2>3 DEF DstEdge
  <2>4. CASE SrcTick
    <3>1. rcvd' = rcvd
      BY <2>4 DEF SrcTick, dstVars
    <3>2. CASE NoRequest
      BY <3>1, <3>2 DEF NoRequest
    <3> QED
      BY <2>1, <2>4, <3>1, <3>2 DEF SrcTick, SrcEdge
  <2>5. CASE DstTick
    <3>1. /\ DstEdge(req_reg_src, data_reg_src)
          /\ sent' = sent /\ data_reg_src' = data_reg_src
      BY <2>5 DEF DstTick, srcVars
    <3>2. CASE req_ff2 = 1 /\ req_dst_d = 0
      <4>1. /\ rcvd' = Append(rcvd, data_reg_src) /\ Len(sent) = Len(rcvd) + 1
            /\ data_reg_src = sent[Len(rcvd) + 1] /\ Len(rcvd) \in Nat
        BY <3>1, <3>2, DeliverOutstanding DEF TypeOK, DstEdge
      <4> QED
        BY <3>1, <4>1
    <3> QED
      BY <2>3, <3>1, <3>2
  <2>6. CASE BothTick
    <3>1. PICK v \in Bit, r \in Bit, d \in BusWords :
            /\ SrcEdge(v) /\ DstEdge(r, d)
            /\ d \in Sampled(data_reg_src, data_reg_src')
      BY <2>6 DEF BothTick
    <3>2. CASE req_ff2 = 1 /\ req_dst_d = 0
      <4>1. NoRequest
        <5>1. Len(sent) = Len(rcvd) + 1 /\ Len(rcvd) \in Nat
          BY <3>1, <3>2, DeliverOutstanding DEF TypeOK
        <5>2. \A w \in Words : ~Request(w)
          BY <5>1, RequestWhenClear
        <5> QED
          BY <3>1, <5>2 DEF SrcEdge
      <4> QED
        BY <2>2, <3>1, <3>2, <4>1
    <3>3. CASE ~(req_ff2 = 1 /\ req_dst_d = 0)
      <4>1. rcvd' = rcvd
        BY <2>3, <3>1, <3>3
      <4>2. CASE NoRequest
        BY <4>1, <4>2 DEF NoRequest
      <4> QED
        BY <2>1, <3>1, <4>1, <4>2 DEF SrcEdge
    <3> QED
      BY <3>2, <3>3
  <2>7. CASE UNCHANGED vars
    BY <2>7 DEF vars, srcVars, dstVars
  <2> QED
    BY <2>4, <2>5, <2>6, <2>7 DEF Next
<1> QED
  BY <1>1, <1>2, TypeCorrect, HandshakeInvariant, PTL
     DEF Spec, ImplementsChannel, Channel!ChanSpec

----------------------------------------------------------------------------
(* SnnPath.                                                                *)

\* Nothing the classify link and the tile do disturbs the link of the currents.
LEMMA PathIsLink == PathSpec => Spec
<1>1. PathInit => Init BY DEF PathInit
<1>2. [PathNext]_pathVars => [Next]_vars
  <2>1. CoreTick => SrcTick BY DEF CoreTick, SrcTick, CoreEdge
  <2>2. SnnTick => DstTick BY DEF SnnTick, DstTick, SnnEdge
  <2>3. CoreAndSnnTick => BothTick BY DEF CoreAndSnnTick, BothTick, CoreEdge, SnnEdge
  <2>4. UNCHANGED pathVars => UNCHANGED vars BY DEF pathVars
  <2> QED BY <2>1, <2>2, <2>3, <2>4 DEF PathNext, Next
<1> QED BY <1>1, <1>2, PTL DEF PathSpec, Spec

LEMMA ChannelCrosses ==
    ASSUME TypeOK, CurrentsCross, [Channel!ChanNext]_(Channel!chanVars)
    PROVE  CurrentsCross'
<1>0. /\ sent \in Seq(Words) /\ rcvd \in Seq(BusWords)
      /\ Len(sent) \in Nat /\ Len(rcvd) \in Nat
  BY DEF TypeOK
<1>1. ASSUME NEW w \in Words, Channel!Accept(w) PROVE CurrentsCross'
  <2>1. sent' = Append(sent, w) /\ rcvd' = rcvd BY <1>1 DEF Channel!Accept
  <2>2. Len(sent') = Len(sent) + 1 /\ \A i \in 1 .. Len(sent) : sent'[i] = sent[i]
    BY <1>0, <2>1, AppendOne
  <2> QED BY <1>0, <2>1, <2>2 DEF CurrentsCross
<1>2. CASE Channel!Deliver
  <2>1. /\ Len(rcvd) < Len(sent) /\ sent' = sent
        /\ rcvd' = Append(rcvd, sent[Len(rcvd) + 1])
    BY <1>2 DEF Channel!Deliver
  <2>2. /\ Len(rcvd') = Len(rcvd) + 1 /\ rcvd'[Len(rcvd) + 1] = sent[Len(rcvd) + 1]
        /\ \A i \in 1 .. Len(rcvd) : rcvd'[i] = rcvd[i]
    BY <1>0, <2>1, AppendOne
  <2> QED BY <1>0, <2>1, <2>2 DEF CurrentsCross
<1>3. CASE UNCHANGED Channel!chanVars BY <1>3 DEF Channel!chanVars, CurrentsCross
<1> QED BY <1>1, <1>2, <1>3 DEF Channel!ChanNext

(***************************************************************************)
(* The pulse synchronizer: while a request is counted as open its level    *)
(* stands and at most one rising edge is on its way, and when none is open *)
(* there is no rising edge.                                                *)
(***************************************************************************)
PulseTypes ==
    /\ req_level_src \in Bit /\ p_req_ff1 \in Bit /\ p_req_ff2 \in Bit
    /\ req_level_dst_d \in Bit /\ pulse_dst_reg \in Bit
    /\ asked \in Nat /\ given \in Nat

OnePulse ==
    /\ given = asked \/ given + 1 = asked
    /\ stalled => req_level_src = 1
    /\ given < asked =>
          /\ stalled
          /\ OneRise(req_level_src, p_req_ff1, p_req_ff2, req_level_dst_d)
    /\ given = asked => NoRise(req_level_src, p_req_ff1, p_req_ff2, req_level_dst_d)

(***************************************************************************)
(* The race of the two synchronizers up to the tile's LOAD: a rising edge  *)
(* of a current's request is never behind the one of classify_en, though   *)
(* it may be beside it.                                                    *)
(***************************************************************************)
Behind ==
    /\ p_req_ff1 = 1 => req_reg_src <= req_ff1
    /\ p_req_ff2 = 1 => req_ff1 <= req_ff2
    /\ req_level_dst_d = 1 => req_ff2 <= req_dst_d

InOrder ==
    /\ snn_current_state \in {"IDLE", "LOAD", "INTEGRATE"}
    /\ snn_current_state = "IDLE" =>
          /\ load_counter = 0
          /\ asked = 0 => /\ ~stalled /\ req_level_src = 0 /\ p_req_ff1 = 0
                          /\ p_req_ff2 = 0 /\ req_level_dst_d = 0 /\ pulse_dst_reg = 0
          /\ asked # 0 => /\ stalled /\ req_level_src = 1
                          /\ p_req_ff2 <= p_req_ff1 /\ req_level_dst_d <= p_req_ff2
                          /\ req_level_dst_d = pulse_dst_reg
                          /\ Behind
    /\ snn_current_state = "LOAD" =>
          /\ stalled /\ load_counter = 0 /\ valid_reg_dst = 0
          /\ NoRise(req_reg_src, req_ff1, req_ff2, req_dst_d)

\* What the core's side of the classify link does at one of its edges.
LEMMA CoreMoves ==
    ASSUME PulseTypes, TypeOK, NEW v, NEW p, CoreEdge(v, p)
    PROVE  /\ \/ ~stalled /\ stalled' /\ asked' = asked + 1 /\ req_level_src' = 1
              \/ stalled /\ stalled' /\ asked' = asked /\ req_level_src' = 1
              \/ /\ stalled => given = asked /\ Answered
                 /\ ~stalled' /\ asked' = asked /\ req_level_src' \in {0, req_level_src}
           /\ stalled' => req_reg_src' \in {0, req_reg_src}
<1>1. ASSUME Classify!Begin PROVE ~stalled /\ stalled' /\ asked' = asked + 1
  <2>1. ~stalled /\ asked' = asked + 1 BY <1>1 DEF Classify!Begin
  <2>2. stalled' = ("held" = "held") BY <1>1, Zenon DEF Classify!Begin
  <2> QED BY <2>1, <2>2
<1>2. ASSUME Classify!Hold PROVE stalled /\ stalled' /\ asked' = asked
  BY <1>2 DEF Classify!Hold
<1>3. ASSUME Classify!Idle,
             req_level_src' = IF p_ack_ff2 = 1 THEN 0 ELSE req_level_src
      PROVE  /\ stalled => given = asked /\ Answered
             /\ ~stalled' /\ asked' = asked /\ req_level_src' \in {0, req_level_src}
  <2>1. stalled => given = asked /\ Answered BY <1>3 DEF Classify!Idle
  <2>2. ~stalled' /\ asked' = asked BY <1>3, Zenon DEF Classify!Idle
  <2> QED BY <1>3, <2>1, <2>2
<1>4. ASSUME stalled' PROVE req_reg_src' \in {0, req_reg_src}
  <2>1. sent' = sent /\ SrcEdge(v) BY <1>4 DEF CoreEdge
  <2>2. \A w \in Words : ~Request(w)
    <3>1. \A w \in Words : Len(Append(sent, w)) = Len(sent) + 1
      BY AppendOne DEF TypeOK
    <3>2. Len(sent) \in Nat BY DEF TypeOK
    <3> QED BY <2>1, <3>1, <3>2 DEF Request
  <2>3. NoRequest BY <2>1, <2>2 DEF SrcEdge
  <2> QED BY <2>3 DEF NoRequest
<1>5. \/ (Classify!Begin \/ Classify!Hold) /\ req_level_src' = 1
      \/ Classify!Idle /\ req_level_src' = IF p_ack_ff2 = 1 THEN 0 ELSE req_level_src
  BY DEF CoreEdge, Classify!SrcEdge
<1> QED BY <1>1, <1>2, <1>3, <1>4, <1>5

\* And the tile's side of both links, with the tile, at one of its.
LEMMA SnnMoves ==
    ASSUME NEW r, NEW d, NEW s, SnnEdge(r, d, s)
    PROVE  /\ p_req_ff1' = s /\ p_req_ff2' = p_req_ff1 /\ req_level_dst_d' = p_req_ff2
           /\ pulse_dst_reg' = IF p_req_ff2 = 1 /\ req_level_dst_d = 0 THEN 1 ELSE 0
           /\ given' = given + pulse_dst_reg'
           /\ req_ff1' = r /\ req_ff2' = req_ff1 /\ req_dst_d' = req_ff2
           /\ ReadyAlways /\ ~(req_ff2 = 1 /\ req_dst_d = 0) => valid_reg_dst' = 0
           /\ snn_current_state = "IDLE" =>
                 snn_current_state' = (IF pulse_dst_reg = 1 THEN "LOAD" ELSE "IDLE")
           /\ snn_current_state = "LOAD" => snn_current_state' \in {"LOAD", "INTEGRATE"}
           /\ snn_current_state = "INTEGRATE" => snn_current_state' = "INTEGRATE"
           /\ load_counter' \in {load_counter,
                  IF snn_current_state = "LOAD" THEN load_counter + valid_reg_dst
                  ELSE load_counter}
<1>1. "IDLE" # "LOAD" /\ "INTEGRATE" # "LOAD" /\ "IDLE" # "INTEGRATE" OBVIOUS
<1>2. /\ p_req_ff1' = s /\ p_req_ff2' = p_req_ff1 /\ req_level_dst_d' = p_req_ff2
      /\ pulse_dst_reg' = IF p_req_ff2 = 1 /\ req_level_dst_d = 0 THEN 1 ELSE 0
      /\ given' = given + pulse_dst_reg'
  BY DEF SnnEdge, Classify!DstFlops
<1>3. /\ req_ff1' = r /\ req_ff2' = req_ff1 /\ req_dst_d' = req_ff2
      /\ ReadyAlways /\ ~(req_ff2 = 1 /\ req_dst_d = 0) => valid_reg_dst' = 0
  BY DEF SnnEdge, DstEdge
<1>4. ASSUME snn_current_state = "IDLE"
      PROVE  snn_current_state' = IF pulse_dst_reg = 1 THEN "LOAD" ELSE "IDLE"
  <2>1. CASE pulse_dst_reg = 1
    <3>1. snn_current_state' = "LOAD" BY <1>1, <1>4, <2>1, Zenon DEF SnnEdge, TileEdge
    <3> QED BY <2>1, <3>1
  <2>2. CASE pulse_dst_reg # 1
    <3>1. snn_current_state' = "IDLE" BY <1>1, <1>4, <2>2, Zenon DEF SnnEdge, TileEdge
    <3> QED BY <2>2, <3>1
  <2> QED BY <2>1, <2>2
<1>5. ASSUME snn_current_state = "LOAD"
      PROVE  snn_current_state' \in {"LOAD", "INTEGRATE"}
  <2>1. CASE load_done
    <3>1. snn_current_state' = "INTEGRATE" BY <1>1, <1>5, <2>1, Zenon DEF SnnEdge, TileEdge
    <3> QED BY <3>1
  <2>2. CASE ~load_done
    <3>1. snn_current_state' = "LOAD" BY <1>1, <1>5, <2>2, Zenon DEF SnnEdge, TileEdge
    <3> QED BY <3>1
  <2> QED BY <2>1, <2>2
<1>6. ASSUME snn_current_state = "INTEGRATE" PROVE snn_current_state' = "INTEGRATE"
  BY <1>1, <1>6, Zenon DEF SnnEdge, TileEdge
<1>7. load_counter' = IF snn_current_state = "LOAD" /\ load_counter < NumNeurons
                       THEN load_counter + valid_reg_dst ELSE load_counter
  BY DEF SnnEdge, TileEdge
<1> QED BY <1>2, <1>3, <1>4, <1>5, <1>6, <1>7

LEMMA PathTypes ==
    ASSUME PulseTypes, TypeOK, [PathNext]_pathVars
    PROVE  PulseTypes'
<1> USE DEF PulseTypes, Bit
<1>1. ASSUME NEW v, NEW p, CoreEdge(v, p)
      PROVE  req_level_src' \in Bit /\ asked' \in Nat
  BY <1>1, CoreMoves
<1>2. ASSUME NEW r, NEW d, NEW s \in Bit, SnnEdge(r, d, s)
      PROVE  /\ p_req_ff1' \in Bit /\ p_req_ff2' \in Bit /\ req_level_dst_d' \in Bit
             /\ pulse_dst_reg' \in Bit /\ given' \in Nat
  BY <1>2, SnnMoves
<1>3. CASE CoreTick BY <1>1, <1>3 DEF CoreTick, pulseDst
<1>4. CASE SnnTick BY <1>2, <1>4 DEF SnnTick, pulseSrc
<1>5. CASE CoreAndSnnTick BY <1>1, <1>2, <1>5 DEF CoreAndSnnTick
<1>6. CASE UNCHANGED pathVars BY <1>6 DEF pathVars, pulseSrc, pulseDst
<1> QED BY <1>3, <1>4, <1>5, <1>6 DEF PathNext

(***************************************************************************)
(* What a step leaves of the source's side, for each of the two: a core    *)
(* edge and an edge of the tile alone look the same to the delay lines.    *)
(***************************************************************************)
PulseGoesOn ==
    /\ stalled' => req_level_src' = 1
    /\ \/ given = asked /\ asked' = asked + 1 /\ stalled' /\ req_level_src' = 1
       \/ asked' = asked /\ stalled' /\ req_level_src' = 1 /\ req_level_src = 1
       \/ given = asked /\ asked' = asked /\ req_level_src' \in {0, req_level_src}

OrderGoesOn ==
    /\ stalled' => req_reg_src' \in {0, req_reg_src}
    /\ snn_current_state = "LOAD" => stalled'
    /\ snn_current_state = "IDLE" /\ asked # 0 =>
          stalled' /\ asked' = asked /\ req_level_src' = 1
    /\ snn_current_state = "IDLE" /\ asked = 0 =>
          \/ stalled' /\ asked' = 1 /\ req_level_src' = 1
          \/ ~stalled' /\ asked' = 0 /\ req_level_src' = 0

LEMMA CoreGoesOn ==
    ASSUME PulseTypes, TypeOK, OnePulse, InOrder, NEW v, NEW p, CoreEdge(v, p)
    PROVE  OrderGoesOn
<1> USE DEF PulseTypes, Bit
<1>1. /\ \/ ~stalled /\ stalled' /\ asked' = asked + 1 /\ req_level_src' = 1
         \/ stalled /\ stalled' /\ asked' = asked /\ req_level_src' = 1
         \/ /\ stalled => given = asked /\ Answered
            /\ ~stalled' /\ asked' = asked /\ req_level_src' \in {0, req_level_src}
      /\ stalled' => req_reg_src' \in {0, req_reg_src}
  BY CoreMoves
<1>2. CASE snn_current_state = "LOAD"
  <2>1. stalled /\ ~Answered BY <1>2 DEF InOrder, Answered
  <2> QED BY <1>1, <1>2, <2>1 DEF OrderGoesOn
<1>3. CASE snn_current_state = "IDLE" /\ asked # 0
  <2>1. stalled /\ ~Answered BY <1>3 DEF InOrder, Answered
  <2> QED BY <1>1, <1>3, <2>1 DEF OrderGoesOn
<1>4. CASE snn_current_state = "IDLE" /\ asked = 0
  <2>1. ~stalled /\ req_level_src = 0 BY <1>4 DEF InOrder
  <2> QED BY <1>1, <1>4, <2>1 DEF OrderGoesOn
<1>5. CASE snn_current_state \notin {"IDLE", "LOAD"}
  BY <1>1, <1>5 DEF OrderGoesOn
<1> QED BY <1>2, <1>3, <1>4, <1>5

LEMMA CorePulse ==
    ASSUME PulseTypes, TypeOK, OnePulse, NEW v, NEW p, CoreEdge(v, p)
    PROVE  PulseGoesOn
<1>1. \/ ~stalled /\ stalled' /\ asked' = asked + 1 /\ req_level_src' = 1
      \/ stalled /\ stalled' /\ asked' = asked /\ req_level_src' = 1
      \/ /\ stalled => given = asked /\ Answered
         /\ ~stalled' /\ asked' = asked /\ req_level_src' \in {0, req_level_src}
  BY CoreMoves
<1>2. ~stalled => given = asked BY DEF OnePulse, PulseTypes
<1>3. stalled => req_level_src = 1 BY DEF OnePulse
<1> QED BY <1>1, <1>2, <1>3 DEF PulseGoesOn

\* The tile's own edges leave the source's side as it is.
LEMMA SourceStays ==
    ASSUME UNCHANGED <<srcVars, pulseSrc>>
    PROVE  /\ PulseTypes /\ OnePulse => PulseGoesOn
           /\ InOrder => OrderGoesOn
<1>1. /\ req_level_src' = req_level_src /\ asked' = asked /\ stalled' = stalled
      /\ req_reg_src' = req_reg_src
  BY DEF srcVars, pulseSrc
<1>2. ASSUME PulseTypes, OnePulse PROVE PulseGoesOn
  <2>1. given # asked => stalled BY <1>2 DEF OnePulse, PulseTypes
  <2>2. stalled => req_level_src = 1 BY <1>2 DEF OnePulse
  <2> QED BY <1>1, <2>1, <2>2 DEF PulseGoesOn
<1>3. ASSUME InOrder PROVE OrderGoesOn BY <1>1, <1>3 DEF OrderGoesOn, InOrder
<1> QED BY <1>2, <1>3

----------------------------------------------------------------------------
LEMMA OnePulseInductive ==
    ASSUME PulseTypes, PulseTypes', TypeOK, OnePulse, [PathNext]_pathVars
    PROVE  OnePulse'
<1> USE DEF PulseTypes, Bit, OnePulse, OneRise, NoRise, PulseGoesOn
<1>1. ASSUME PulseGoesOn, UNCHANGED pulseDst PROVE OnePulse'
  BY <1>1 DEF pulseDst
<1>2. ASSUME PulseGoesOn, NEW r, NEW d, NEW s \in {req_level_src, req_level_src'},
             SnnEdge(r, d, s)
      PROVE  OnePulse'
  <2>1. /\ p_req_ff1' = s /\ p_req_ff2' = p_req_ff1 /\ req_level_dst_d' = p_req_ff2
        /\ pulse_dst_reg' = IF p_req_ff2 = 1 /\ req_level_dst_d = 0 THEN 1 ELSE 0
        /\ given' = given + pulse_dst_reg'
    BY <1>2, SnnMoves
  <2>2. CASE p_req_ff2 = 1 /\ req_level_dst_d = 0
    <3>1. given # asked BY <2>2
    <3>2. given + 1 = asked /\ given' = asked BY <2>1, <2>2, <3>1
    <3>3. asked' = asked /\ stalled' /\ req_level_src' = 1 /\ req_level_src = 1
      BY <1>2, <3>1
    <3>4. p_req_ff1 = 1 BY <2>2, <3>2, <3>3
    <3> QED BY <1>2, <2>1, <2>2, <3>2, <3>3, <3>4
  <2>3. CASE ~(p_req_ff2 = 1 /\ req_level_dst_d = 0)
    <3>1. given' = given BY <2>1, <2>3
    <3>2. CASE given = asked /\ asked' = asked + 1 /\ stalled' /\ req_level_src' = 1
      BY <1>2, <2>1, <2>3, <3>1, <3>2
    <3>3. CASE asked' = asked /\ stalled' /\ req_level_src' = 1 /\ req_level_src = 1
      BY <1>2, <2>1, <2>3, <3>1, <3>3
    <3>4. CASE given = asked /\ asked' = asked /\ req_level_src' \in {0, req_level_src}
      BY <1>2, <2>1, <2>3, <3>1, <3>4
    <3> QED BY <1>2, <3>2, <3>3, <3>4
  <2> QED BY <2>2, <2>3
<1>3. CASE CoreTick
  <2>1. CoreEdge(valid_reg_dst, pulse_dst_reg) /\ UNCHANGED pulseDst
    BY <1>3 DEF CoreTick
  <2> QED BY <1>1, <2>1, CorePulse
<1>4. CASE SnnTick
  <2>1. /\ SnnEdge(req_reg_src, data_reg_src, req_level_src)
        /\ UNCHANGED <<srcVars, pulseSrc>>
    BY <1>4 DEF SnnTick
  <2> QED BY <1>2, <2>1, SourceStays
<1>5. CASE CoreAndSnnTick
  <2>1. PICK v \in Bit, p \in Bit, r \in Bit, s \in Bit, d \in BusWords :
           /\ CoreEdge(v, p) /\ SnnEdge(r, d, s)
           /\ s \in {req_level_src, req_level_src'}
    BY <1>5 DEF CoreAndSnnTick
  <2> QED BY <1>2, <2>1, CorePulse
<1>6. CASE UNCHANGED pathVars BY <1>6 DEF pathVars, pulseSrc, pulseDst
<1> QED BY <1>3, <1>4, <1>5, <1>6 DEF PathNext

LEMMA InOrderInductive ==
    ASSUME PulseTypes, PulseTypes', TypeOK, TypeOK', OnePulse, InOrder, ReadyAlways,
           [PathNext]_pathVars
    PROVE  InOrder'
<1> USE DEF PulseTypes, TypeOK, Bit, NoRise
<1>1. ASSUME OrderGoesOn, UNCHANGED <<dstVars, pulseDst, tile>>
      PROVE  InOrder'
  <2>1. /\ UNCHANGED <<snn_current_state, load_counter, valid_reg_dst>>
        /\ UNCHANGED <<req_ff1, req_ff2, req_dst_d, p_req_ff1, p_req_ff2>>
        /\ UNCHANGED <<req_level_dst_d, pulse_dst_reg>>
    BY <1>1 DEF dstVars, pulseDst, tile
  <2>2. CASE snn_current_state = "INTEGRATE" BY <2>1, <2>2 DEF InOrder
  <2>3. CASE snn_current_state = "LOAD" BY <1>1, <2>1, <2>3 DEF InOrder, OrderGoesOn
  <2>4. CASE snn_current_state = "IDLE" /\ asked # 0
    BY <1>1, <2>1, <2>4 DEF InOrder, OrderGoesOn, Behind
  <2>5. CASE snn_current_state = "IDLE" /\ asked = 0
    BY <1>1, <2>1, <2>5 DEF InOrder, OrderGoesOn, Behind
  <2> QED BY <2>2, <2>3, <2>4, <2>5 DEF InOrder
<1>2. ASSUME OrderGoesOn, NEW r \in {req_reg_src, req_reg_src'}, NEW d,
             NEW s \in {req_level_src, req_level_src'}, SnnEdge(r, d, s)
      PROVE  InOrder'
  <2>1. /\ p_req_ff1' = s /\ p_req_ff2' = p_req_ff1 /\ req_level_dst_d' = p_req_ff2
        /\ pulse_dst_reg' = IF p_req_ff2 = 1 /\ req_level_dst_d = 0 THEN 1 ELSE 0
        /\ req_ff1' = r /\ req_ff2' = req_ff1 /\ req_dst_d' = req_ff2
        /\ ~(req_ff2 = 1 /\ req_dst_d = 0) => valid_reg_dst' = 0
        /\ load_counter' \in {load_counter,
               IF snn_current_state = "LOAD" THEN load_counter + valid_reg_dst
               ELSE load_counter}
    BY <1>2, SnnMoves
  <2>2. /\ snn_current_state = "IDLE" =>
               snn_current_state' = (IF pulse_dst_reg = 1 THEN "LOAD" ELSE "IDLE")
        /\ snn_current_state = "LOAD" => snn_current_state' \in {"LOAD", "INTEGRATE"}
        /\ snn_current_state = "INTEGRATE" => snn_current_state' = "INTEGRATE"
    BY <1>2, SnnMoves
  <2>3. CASE snn_current_state = "INTEGRATE" BY <2>2, <2>3 DEF InOrder
  <2>4. CASE snn_current_state = "LOAD"
    <3>1. /\ stalled /\ load_counter = 0 /\ valid_reg_dst = 0
          /\ req_reg_src <= req_ff1 /\ req_ff1 <= req_ff2 /\ req_ff2 <= req_dst_d
      BY <2>4 DEF InOrder
    <3>2. stalled' /\ req_reg_src' \in {0, req_reg_src} BY <1>2, <2>4 DEF OrderGoesOn
    <3>3. load_counter' = 0 BY <2>1, <3>1
    <3>4. valid_reg_dst' = 0 BY <2>1, <3>1
    <3>5. NoRise(req_reg_src', req_ff1', req_ff2', req_dst_d')
      BY <1>2, <2>1, <3>1, <3>2
    <3> QED BY <2>2, <2>4, <3>2, <3>3, <3>4, <3>5 DEF InOrder
  <2>5. CASE snn_current_state = "IDLE" /\ asked = 0
    <3>1. /\ load_counter = 0 /\ req_level_src = 0 /\ p_req_ff1 = 0
          /\ p_req_ff2 = 0 /\ req_level_dst_d = 0 /\ pulse_dst_reg = 0
      BY <2>5 DEF InOrder
    <3>2. /\ snn_current_state' = "IDLE" /\ load_counter' = 0 /\ p_req_ff2' = 0
          /\ req_level_dst_d' = 0 /\ pulse_dst_reg' = 0
      BY <2>1, <2>2, <2>5, <3>1
    <3>3. CASE stalled' /\ asked' = 1 /\ req_level_src' = 1
      <4>1. req_reg_src' <= req_ff1' BY <1>2, <2>1, <3>3 DEF OrderGoesOn
      <4>2. Behind' BY <3>2, <4>1 DEF Behind
      <4> QED BY <3>2, <3>3, <4>2 DEF InOrder
    <3>4. CASE ~stalled' /\ asked' = 0 /\ req_level_src' = 0
      <4>1. p_req_ff1' = 0 BY <1>2, <2>1, <3>1, <3>4
      <4> QED BY <3>2, <3>4, <4>1 DEF InOrder
    <3> QED BY <1>2, <2>5, <3>3, <3>4 DEF OrderGoesOn
  <2>6. CASE snn_current_state = "IDLE" /\ asked # 0
    <3>1. /\ load_counter = 0 /\ req_level_src = 1
          /\ p_req_ff2 <= p_req_ff1 /\ req_level_dst_d <= p_req_ff2
          /\ req_level_dst_d = pulse_dst_reg
          /\ p_req_ff1 = 1 => req_reg_src <= req_ff1
          /\ p_req_ff2 = 1 => req_ff1 <= req_ff2
          /\ req_level_dst_d = 1 => req_ff2 <= req_dst_d
      BY <2>6 DEF InOrder, Behind
    <3>2. /\ stalled' /\ asked' = asked /\ req_level_src' = 1
          /\ req_reg_src' \in {0, req_reg_src}
      BY <1>2, <2>6 DEF OrderGoesOn
    <3>3. /\ load_counter' = 0 /\ p_req_ff1' = 1
          /\ req_reg_src' <= req_ff1' /\ req_ff1' <= req_reg_src
      BY <1>2, <2>1, <2>6, <3>1, <3>2
    <3>4. CASE pulse_dst_reg = 1
      <4>1. snn_current_state' = "LOAD" BY <2>2, <2>6, <3>4
      <4>2. valid_reg_dst' = 0 BY <2>1, <3>1, <3>4
      <4>3. NoRise(req_reg_src', req_ff1', req_ff2', req_dst_d')
        BY <2>1, <3>1, <3>3, <3>4
      <4> QED BY <3>2, <3>3, <4>1, <4>2, <4>3 DEF InOrder
    <3>5. CASE pulse_dst_reg # 1
      <4>1. snn_current_state' = "IDLE" BY <2>2, <2>6, <3>5
      <4>2. /\ p_req_ff2' <= p_req_ff1' /\ req_level_dst_d' <= p_req_ff2'
            /\ req_level_dst_d' = pulse_dst_reg'
        BY <2>1, <3>1, <3>3, <3>5
      <4>3. Behind' BY <2>1, <3>1, <3>3 DEF Behind
      <4> QED BY <2>6, <3>2, <3>3, <4>1, <4>2, <4>3 DEF InOrder
    <3> QED BY <3>4, <3>5
  <2> QED BY <2>3, <2>4, <2>5, <2>6 DEF InOrder
<1>3. CASE CoreTick
  <2>1. /\ CoreEdge(valid_reg_dst, pulse_dst_reg)
        /\ UNCHANGED <<dstVars, pulseDst, tile>>
    BY <1>3 DEF CoreTick
  <2> QED BY <1>1, <2>1, CoreGoesOn
<1>4. CASE SnnTick
  <2>1. /\ SnnEdge(req_reg_src, data_reg_src, req_level_src)
        /\ UNCHANGED <<srcVars, pulseSrc>>
    BY <1>4 DEF SnnTick
  <2> QED BY <1>2, <2>1, SourceStays
<1>5. CASE CoreAndSnnTick
  <2>1. PICK v \in Bit, p \in Bit, r \in Bit, s \in Bit, d \in BusWords :
           /\ CoreEdge(v, p) /\ SnnEdge(r, d, s)
           /\ r \in {req_reg_src, req_reg_src'}
           /\ s \in {req_level_src, req_level_src'}
    BY <1>5 DEF CoreAndSnnTick
  <2> QED BY <1>2, <2>1, CoreGoesOn
<1>6. CASE UNCHANGED pathVars
  BY <1>6 DEF pathVars, pulseSrc, pulseDst, tile, vars, srcVars, dstVars, InOrder, Behind
<1> QED BY <1>3, <1>4, <1>5, <1>6 DEF PathNext

LEMMA InitInOrder ==
    ASSUME PathInit
    PROVE  PulseTypes /\ OnePulse /\ InOrder
BY DEF PathInit, PulseTypes, Bit, OnePulse, OneRise, NoRise, InOrder

\* The classify link counts one request at a time, whatever the tile does.
LEMMA PulseInvariant == PathSpec => [](TypeOK /\ PulseTypes /\ OnePulse)
<1>1. PathInit => PulseTypes /\ OnePulse BY InitInOrder
<1>2. TypeOK /\ PulseTypes /\ [PathNext]_pathVars => PulseTypes' BY PathTypes
<1>3. TypeOK /\ PulseTypes /\ PulseTypes' /\ OnePulse /\ [PathNext]_pathVars => OnePulse'
  BY OnePulseInductive
<1> QED BY <1>1, <1>2, <1>3, PathIsLink, TypeCorrect, PTL DEF PathSpec

----------------------------------------------------------------------------
\* No current reaches the tile after the SNN instruction, wherever the four
\* first flops fall: its request is never behind classify_en, and the tile
\* enters LOAD only when that has gone through.  ReadyAlways is the tie of
\* ready_dst to 1 at the two SNN links of xcew_top_v1_1.v.
THEOREM StarvedCorrect ==
    ASSUME ReadyAlways
    PROVE  PathSpec => []LoadIsStarved
<1>1. PathInit => InOrder BY InitInOrder
<1>2. /\ TypeOK /\ TypeOK' /\ PulseTypes /\ PulseTypes' /\ OnePulse /\ InOrder
      /\ [PathNext]_pathVars
      => InOrder'
  BY InOrderInductive
<1>3. InOrder => LoadIsStarved BY DEF InOrder, LoadIsStarved
<1> QED BY <1>1, <1>2, <1>3, PulseInvariant, PTL DEF PathSpec

\* Neither synchronizer hands the tile anything the core has not sent: one
\* classify_en per SNN instruction, and the currents whole and in order.  A
\* source that never waits does lose currents (SourceWaits).
THEOREM CrossingsCorrect ==
    ASSUME SourceWaits # "never"
    PROVE  PathSpec => []NothingMadeUp
<1>1. PulseTypes /\ OnePulse => ClassifiesOnce
  BY DEF PulseTypes, OnePulse, ClassifiesOnce, Classify!NoSpuriousPulse
<1>2. PathInit => CurrentsCross
  <2>1. ASSUME PathInit PROVE rcvd = <<>> BY <2>1 DEF PathInit, Init
  <2> QED BY <2>1 DEF CurrentsCross
<1>3. TypeOK /\ CurrentsCross /\ [Channel!ChanNext]_(Channel!chanVars) => CurrentsCross'
  BY ChannelCrosses
<1>4. PathSpec => ImplementsChannel BY PathIsLink, Implementation, PTL
<1>5. ClassifiesOnce /\ CurrentsCross => NothingMadeUp BY DEF NothingMadeUp
<1> QED BY <1>1, <1>2, <1>3, <1>4, <1>5, PulseInvariant, PTL
     DEF PathSpec, ImplementsChannel, Channel!ChanSpec
=============================================================================
