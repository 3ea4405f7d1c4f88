----------------------------- MODULE PeerProofs -----------------------------
(***************************************************************************)
(* The decoder keeps its promises against any sender of frames, for all    *)
(* templates, frames, lengths and bounds.                                  *)
(***************************************************************************)
EXTENDS ProtocolPeer, RequestProofs

-----------------------------------------------------------------------------
(***************************************************************************)
(* The reference reading, one frame further.                               *)
(***************************************************************************)
Defines(f, t) == f.type \in {"TEMPLATE_DEFINE", "TEMPLATE_INLINE"} /\ f.tid = t

\* The epoch of the next frame: a reset begins one.
LEMMA ResetNext ==
    ASSUME NEW n \in Nat
    PROVE  /\ LastReset(n) \in 0..n
           /\ LastReset(n + 1) = IF frames[n + 1].type = "EPOCH_RESET" THEN n + 1
                                 ELSE LastReset(n)
<1> DEFINE R(k) == {0} \cup {i \in 1..k : frames[i].type = "EPOCH_RESET"}
<1>1. R(n) \subseteq 0..n /\ R(n) # {}
  OBVIOUS
<1>2. LastReset(n) \in R(n) /\ \A y \in R(n) : y <= LastReset(n)
  BY <1>1, MaxOf DEF LastReset
<1>3. CASE frames[n + 1].type = "EPOCH_RESET"
  <2>1. n + 1 \in R(n + 1) /\ \A y \in R(n + 1) : y \in Int /\ y <= n + 1
    BY <1>3
  <2>2. Max(R(n + 1)) = n + 1
    BY <2>1, MaxIs
  <2> QED
    BY <1>1, <1>2, <1>3, <2>2 DEF LastReset
<1>4. CASE frames[n + 1].type # "EPOCH_RESET"
  <2>1. R(n + 1) = R(n)
    BY <1>4
  <2> QED
    BY <1>1, <1>2, <1>4, <2>1 DEF LastReset
<1> QED
  BY <1>3, <1>4

\* The definitions that the next frame leaves.
LEMMA DefinitionsNext ==
    ASSUME NEW n \in Nat, NEW t
    PROVE  /\ Definitions(t, n) \subseteq 1..n
           /\ Definitions(t, n + 1) =
                 IF frames[n + 1].type = "EPOCH_RESET" THEN {}
                 ELSE Definitions(t, n)
                      \cup (IF Defines(frames[n + 1], t) THEN {n + 1} ELSE {})
<1>1. /\ LastReset(n) \in 0..n
      /\ LastReset(n + 1) = IF frames[n + 1].type = "EPOCH_RESET" THEN n + 1
                            ELSE LastReset(n)
  BY ResetNext
<1>2. Definitions(t, n) \subseteq 1..n
  BY <1>1 DEF Definitions
<1>3. CASE frames[n + 1].type = "EPOCH_RESET"
  <2>1. LastReset(n + 1) + 1 .. n + 1 = {}
    BY <1>1, <1>3
  <2> QED
    BY <1>2, <1>3, <2>1 DEF Definitions
<1>4. CASE frames[n + 1].type # "EPOCH_RESET"
  <2> DEFINE a == LastReset(n)
  <2>1. LastReset(n + 1) = a /\ a \in 0..n
    BY <1>1, <1>4
  <2> HIDE DEF a
  <2>2. a + 1 .. n + 1 = (a + 1 .. n) \cup {n + 1}
    BY <2>1
  <2>3. Definitions(t, n + 1) = {i \in (a + 1 .. n) \cup {n + 1} : Defines(frames[i], t)}
    BY <2>1, <2>2 DEF Definitions, Defines
  <2>4. Definitions(t, n) = {i \in a + 1 .. n : Defines(frames[i], t)}
    BY DEF Definitions, Defines, a
  <2> QED
    BY <1>2, <1>4, <2>3, <2>4
<1> QED
  BY <1>3, <1>4

\* The pattern that an id stands for after n frames.
Current(t, n) ==
    LET D == Definitions(t, n)
    IN  IF D = {} THEN NoPat ELSE frames[Max(D)].pat

\* The definition that counts after one frame more.
LEMMA CurrentNext ==
    ASSUME NEW n \in Nat, NEW t
    PROVE  Current(t, n + 1) = IF frames[n + 1].type = "EPOCH_RESET" THEN NoPat
                               ELSE IF Defines(frames[n + 1], t) THEN frames[n + 1].pat
                               ELSE Current(t, n)
<1> DEFINE D == Definitions(t, n)
           E == Definitions(t, n + 1)
<1>1. /\ D \subseteq 1..n
      /\ E = IF frames[n + 1].type = "EPOCH_RESET" THEN {}
             ELSE D \cup (IF Defines(frames[n + 1], t) THEN {n + 1} ELSE {})
  BY DefinitionsNext
<1>2. /\ Current(t, n) = IF D = {} THEN NoPat ELSE frames[Max(D)].pat
      /\ Current(t, n + 1) = IF E = {} THEN NoPat ELSE frames[Max(E)].pat
  BY DEF Current
<1> HIDE DEF D, E
<1>3. CASE frames[n + 1].type = "EPOCH_RESET"
  BY <1>1, <1>2, <1>3
<1>4. CASE frames[n + 1].type # "EPOCH_RESET" /\ Defines(frames[n + 1], t)
  <2>0. E = D \cup {n + 1}
    BY <1>1, <1>4
  <2>1. n + 1 \in E /\ \A y \in E : y \in Int /\ y <= n + 1
    <3>1. \A y \in D : y \in Int /\ y <= n + 1
      BY <1>1
    <3> QED
      BY <2>0, <3>1
  <2>2. Max(E) = n + 1
    BY <2>1, MaxIs
  <2>3. Current(t, n + 1) = frames[Max(E)].pat
    BY <1>2, <2>1
  <2> QED
    BY <1>4, <2>2, <2>3
<1>5. CASE frames[n + 1].type # "EPOCH_RESET" /\ ~Defines(frames[n + 1], t)
  <2>1. E = D
    BY <1>1, <1>5
  <2> QED
    BY <1>2, <1>5, <2>1
<1> QED
  BY <1>3, <1>4, <1>5

-----------------------------------------------------------------------------
\* MeaningBetween is what the function holds at its end.
BetweenIs ==
    \A m, n \in Nat : m <= n =>
        \E g : /\ Glued(m, n, [i \in m + 1..n |-> Meaning(i)], g)
               /\ MeaningBetween(m, n) = g[n]

\* By the recursion that defines it.
LEMMA BetweenHolds == BetweenIs
<1> SUFFICES ASSUME NEW m \in Nat, NEW n \in Nat, m <= n
             PROVE  \E g : /\ Glued(m, n, [i \in m + 1..n |-> Meaning(i)], g)
                           /\ MeaningBetween(m, n) = g[n]
  BY DEF BetweenIs
<1> DEFINE c == [i \in m + 1..n |-> Meaning(i)]
           P(g) == g = [i \in m..n |-> IF i = m THEN <<>> ELSE g[i - 1] \o Meaning(i)]
           up == CHOOSE g : P(g)
<1>1. \A i \in m..n : i # m => i \in m + 1..n
  OBVIOUS
<1>2. \A i \in m..n : i # m => c[i] = Meaning(i)
  BY <1>1
<1>3. MeaningBetween(m, n) = up[n]
  BY DEF MeaningBetween
<1> HIDE DEF c
<1>4. n - m \in Nat /\ m + (n - m) = n
  OBVIOUS
<1>5. PICK g : Glued(m, n, c, g)
  BY <1>4, GluedExists
<1>6. P(g)
  BY <1>2, <1>5 DEF Glued
<1>7. P(up)
  BY <1>6
<1> HIDE DEF up
<1>8. Glued(m, n, c, up)
  BY <1>2, <1>7 DEF Glued
<1> QED
  BY <1>3, <1>8 DEF c

\* The same of the next state.
LEMMA BetweenHoldsNext == BetweenIs'
BY BetweenHolds, PTL

\* One frame more.
LEMMA BetweenNext ==
    ASSUME NEW m \in Nat, NEW n \in Nat
    PROVE  /\ MeaningBetween(n, n) = <<>>
           /\ m <= n => MeaningBetween(m, n + 1) = MeaningBetween(m, n) \o Meaning(n + 1)
<1> DEFINE c(k) == [i \in m + 1..k |-> Meaning(i)]
<1>1. MeaningBetween(n, n) = <<>>
  <2>1. PICK g : /\ Glued(n, n, [i \in n + 1..n |-> Meaning(i)], g)
                 /\ MeaningBetween(n, n) = g[n]
    BY BetweenHolds DEF BetweenIs
  <2>2. n \in n..n
    OBVIOUS
  <2> QED
    BY <2>1, <2>2 DEF Glued
<1>2. ASSUME m <= n
      PROVE  MeaningBetween(m, n + 1) = MeaningBetween(m, n) \o Meaning(n + 1)
  <2>1. PICK g : Glued(m, n, c(n), g) /\ MeaningBetween(m, n) = g[n]
    BY <1>2, BetweenHolds DEF BetweenIs
  <2>2. n + 1 \in Nat /\ m <= n + 1
    BY <1>2
  <2>3. PICK h : Glued(m, n + 1, c(n + 1), h) /\ MeaningBetween(m, n + 1) = h[n + 1]
    BY <2>2, BetweenHolds DEF BetweenIs
  <2>4. \A i \in m + 1..n : c(n + 1)[i] = c(n)[i]
    BY <2>2
  <2>5. h[n] = g[n]
    <3> DEFINE a == c(n)
               b == c(n + 1)
    <3>1. Glued(m, n, a, g) /\ Glued(m, n + 1, b, h) /\ \A i \in m + 1..n : b[i] = a[i]
      BY <2>1, <2>3, <2>4
    <3>2. m \in Nat /\ n \in Nat /\ n + 1 \in Nat /\ m <= n /\ n <= n + 1
      BY <1>2
    <3> HIDE DEF a, b
    <3>3. Longer(m, n, n + 1, a, b, g, h)
      BY <3>1, <3>2 DEF Longer
    <3> QED
      BY <3>3, GluedSame
  <2>6. n + 1 \in m..n + 1 /\ n + 1 # m /\ (n + 1) - 1 = n /\ n + 1 \in m + 1..n + 1
    BY <1>2
  <2>7. h[n + 1] = h[n] \o c(n + 1)[n + 1]
    BY <2>3, <2>6 DEF Glued
  <2>8. c(n + 1)[n + 1] = Meaning(n + 1)
    BY <2>6
  <2> QED
    BY <2>1, <2>3, <2>5, <2>7, <2>8
<1> QED
  BY <1>1, <1>2

\* Frame i is no reference without a definition.
RefDefined(i) ==
    frames[i].type = "TEMPLATE_REF" => Definitions(frames[i].tid, i) # {}

\* What the frames that were read mean does not change when others follow.
LEMMA ReadingStays ==
    ASSUME NEW n \in Nat, \A i \in 1..n : frames'[i] = frames[i]
    PROVE  /\ \A k \in 0..n : (LastReset(k))' = LastReset(k)
           /\ \A t : \A k \in 0..n : (Definitions(t, k))' = Definitions(t, k)
           /\ \A t : (Current(t, n))' = Current(t, n)
           /\ \A i \in 1..n : RefDefined(i) => (Meaning(i))' = Meaning(i)
           /\ (\A i \in 1..n : RefDefined(i))
              => (MeaningBetween(LastReset(n), n))' = MeaningBetween(LastReset(n), n)
<1>1. ASSUME NEW k \in 0..n PROVE (LastReset(k))' = LastReset(k)
  <2>1. {i \in 1..k : frames'[i].type = "EPOCH_RESET"}
           = {i \in 1..k : frames[i].type = "EPOCH_RESET"}
    OBVIOUS
  <2> QED
    BY <2>1 DEF LastReset
<1>2. ASSUME NEW k \in 0..n, NEW t PROVE (Definitions(t, k))' = Definitions(t, k)
  <2>1. k \in Nat /\ LastReset(k) \in 0..k
    BY ResetNext
  <2>2. \A i \in LastReset(k) + 1 .. k : frames'[i] = frames[i]
    BY <2>1
  <2> QED
    BY <1>1, <2>2 DEF Definitions
<1>3. ASSUME NEW t PROVE (Current(t, n))' = Current(t, n)
  <2> DEFINE D == Definitions(t, n)
  <2>1. (Definitions(t, n))' = D
    BY <1>2
  <2>2. D # {} => Max(D) \in 1..n
    <3>1. D \subseteq 1..n
      BY DefinitionsNext
    <3> HIDE DEF D
    <3>2. D \subseteq 0..n
      BY <3>1
    <3>3. D # {} => Max(D) \in D
      BY <3>2, MaxOf
    <3> QED
      BY <3>1, <3>3
  <2> HIDE DEF D
  <2>3. (Current(t, n))' = IF D = {} THEN NoPat ELSE frames'[Max(D)].pat
    BY <2>1 DEF Current
  <2>4. Current(t, n) = IF D = {} THEN NoPat ELSE frames[Max(D)].pat
    BY DEF Current, D
  <2> QED
    BY <2>2, <2>3, <2>4
<1>4. ASSUME NEW i \in 1..n, RefDefined(i)
      PROVE  (Meaning(i))' = Meaning(i)
  <2> DEFINE f == frames[i]
             D == Definitions(f.tid, i)
  <2>1. frames'[i] = f /\ i \in 0..n /\ i \in Nat
    OBVIOUS
  <2>2. \A t : (Definitions(t, i))' = Definitions(t, i)
    BY <1>2, <2>1
  <2>3. CASE f.type = "TEMPLATE_REF"
    <3>1. D # {} /\ D \subseteq 1..i
      BY <1>4, <2>1, <2>3, DefinitionsNext DEF RefDefined
    <3> HIDE DEF D
    <3>2. D \subseteq 0..i
      BY <2>1, <3>1
    <3>3. Max(D) \in 1..n
      <4>1. Max(D) \in D
        BY <2>1, <3>1, <3>2, MaxOf
      <4>2. D \subseteq 1..n
        BY <3>1
      <4> QED
        BY <4>1, <4>2
    <3> USE DEF D
    <3>4. (Meaning(i))' = Piece([pat |-> frames'[Max(D)].pat, lane |-> f.lane])
      BY <2>1, <2>2, <2>3 DEF Meaning
    <3>5. Meaning(i) = Piece([pat |-> frames[Max(D)].pat, lane |-> f.lane])
      BY <2>3 DEF Meaning
    <3> QED
      BY <3>3, <3>4, <3>5
  <2>4. CASE f.type # "TEMPLATE_REF"
    BY <2>1, <2>4 DEF Meaning
  <2> QED
    BY <2>3, <2>4
<1>5. ASSUME \A i \in 1..n : RefDefined(i)
      PROVE  (MeaningBetween(LastReset(n), n))' = MeaningBetween(LastReset(n), n)
  <2>1. PICK m \in Nat : m <= n /\ m = LastReset(n) /\ (LastReset(n))' = m
    BY <1>1, ResetNext
  <2> DEFINE c == [i \in m + 1..n |-> Meaning(i)]
             d == [i \in m + 1..n |-> (Meaning(i))']
  <2>2. \A i \in m + 1..n : i \in 1..n
    BY <2>1
  <2>3. c = d
    BY <1>4, <1>5, <2>2
  <2>4. PICK g : Glued(m, n, c, g) /\ MeaningBetween(m, n) = g[n]
    BY <2>1, BetweenHolds DEF BetweenIs
  <2>5. PICK h : Glued(m, n, d, h) /\ (MeaningBetween(m, n))' = h[n]
    BY <2>1, BetweenHoldsNext DEF BetweenIs
  <2>6. m \in Nat /\ n \in Nat /\ m <= n /\ n <= n /\ \A i \in m + 1..n : d[i] = c[i]
    BY <2>1, <2>3
  <2> HIDE DEF c, d
  <2>7. h[n] = g[n]
    <3>1. Longer(m, n, n, c, d, g, h)
      BY <2>4, <2>5, <2>6 DEF Longer
    <3> QED
      BY <3>1, GluedSame
  <2>8. (MeaningBetween(LastReset(n), n))' = (MeaningBetween(m, n))'
    BY <2>1
  <2> QED
    BY <2>1, <2>4, <2>5, <2>7, <2>8
<1> QED
  BY <1>1, <1>2, <1>3, <1>4, <1>5

-----------------------------------------------------------------------------
(***************************************************************************)
(* The types.                                                              *)
(***************************************************************************)
PeerTypes == WireTypeOK /\ DecoderTypeOK /\ CutInv

\* What a step does to the stream: the sender adds a frame or ends it and the
\* decoder stands still, or the decoder takes a frame, or stops at the end.
LEMMA PeerSteps ==
    ASSUME PeerTypes, [PeerNext]_peerVars
    PROVE  \/ /\ UNCHANGED <<rd, decVars>>
              /\ \A i \in 1..rd : frames'[i] = frames[i]
           \/ /\ UNCHANGED <<frames, rd, decTemplates, epoch, gatherVars, sink>>
              /\ decStatus = "run" /\ decStatus' \in {"eof", "failed"}
           \/ /\ OnRawData \/ OnTemplateInline \/ OnTemplateDefine
                 \/ OnTemplateRef \/ OnEpochReset
              /\ decStatus = "run" /\ rd' = rd + 1 /\ frames' = frames
<1>1. CASE Send
  <2>1. PICK f \in PeerFrames : frames' = Append(frames, f)
    BY <1>1 DEF Send
  <2>2. f \in Frame /\ frames \in Seq(Frame) /\ rd = Len(frames)
    BY <1>1, PeerAssumption DEF Send, PeerTypes, WireTypeOK
  <2>3. \A i \in 1..Len(frames) : frames'[i] = frames[i]
    BY <2>1, <2>2
  <2> QED
    BY <1>1, <2>2, <2>3 DEF Send
<1>2. CASE PeerEnds
  BY <1>2 DEF PeerEnds, Sever
<1>3. CASE UNCHANGED peerVars
  BY <1>3 DEF peerVars, wireVars
<1>4. CASE OnStreamEnd
  BY <1>4 DEF OnStreamEnd, wireVars
<1>5. CASE OnRawData \/ OnTemplateInline \/ OnTemplateDefine
           \/ OnTemplateRef \/ OnEpochReset
  <2>1. \E type : Receive(type)
    BY <1>5 DEF OnRawData, OnTemplateInline, OnTemplateDefine, OnTemplateRef, OnEpochReset
  <2> QED
    BY <1>5, <2>1 DEF Receive
<1> QED
  BY <1>1, <1>2, <1>3, <1>4, <1>5 DEF PeerNext, DecoderNext

\* The types hold at the start.
LEMMA PeerTypesInit == PeerInit => PeerTypes
<1> SUFFICES ASSUME PeerInit PROVE PeerTypes
  OBVIOUS
<1>1. WireTypeOK /\ CutInv
  BY EmptySeq DEF PeerInit, WireInit, WireTypeOK, CutInv, CutTails, Severed
<1>2. DecoderTypeOK
  BY EmptySeq DEF PeerInit, DecoderInit, DecoderTypeOK, NoTemplates
<1> QED
  BY <1>1, <1>2 DEF PeerTypes

\* Every step of the sender and the decoder keeps the types.
LEMMA PeerTypesStep ==
    ASSUME PeerTypes, [PeerNext]_peerVars
    PROVE  PeerTypes'
<1>0. WireTypeOK /\ DecoderTypeOK /\ CutInv
  BY DEF PeerTypes
<1>1. CASE Send
  <2>1. PICK f \in PeerFrames : frames' = Append(frames, f)
    BY <1>1 DEF Send
  <2>2. f \in Frame
    BY PeerAssumption
  <2>3. frames' \in Seq(Frame) /\ Len(frames') = Len(frames) + 1 /\ Len(frames) \in Nat
    BY <1>0, <2>1, <2>2 DEF WireTypeOK
  <2>4. WireTypeOK'
    BY <1>0, <1>1, <2>3 DEF Send, WireTypeOK
  <2>5. DecoderTypeOK'
    BY <1>0, <1>1 DEF Send, DecoderTypeOK, decVars, gatherVars
  <2>6. CutInv'
    BY <1>1 DEF Send, CutInv, Severed
  <2> QED
    BY <2>4, <2>5, <2>6 DEF PeerTypes
<1>2. CASE PeerEnds
  <2>1. PICK k \in rd..Len(frames), t \in CutTails : cut' = [at |-> k, tail |-> t]
    BY <1>2 DEF PeerEnds, Sever
  <2>2. /\ rd \in Nat /\ Len(frames) \in Nat
        /\ UNCHANGED <<frames, rd, truth, ends, mark, decVars>>
    BY <1>0, <1>2 DEF PeerEnds, Sever, WireTypeOK
  <2>3. k \in Nat
    BY <2>2
  <2>4. WireTypeOK'
    BY <1>0, <2>1, <2>2, <2>3 DEF WireTypeOK
  <2>5. DecoderTypeOK'
    BY <1>0, <2>2 DEF DecoderTypeOK, decVars, gatherVars
  <2>6. CutInv'
    BY <2>1, <2>2 DEF CutInv, Severed
  <2> QED
    BY <2>4, <2>5, <2>6 DEF PeerTypes
<1>3. CASE UNCHANGED peerVars
  BY <1>0, <1>3
  DEF peerVars, wireVars, decVars, gatherVars, PeerTypes, WireTypeOK, DecoderTypeOK,
      CutInv, Severed
<1>4. CASE DecoderNext
  <2>1. WireTypeOK' /\ DecoderTypeOK'
    BY <1>0, <1>4, DecoderNextType
  <2>2. CASE OnStreamEnd
    BY <1>0, <2>1, <2>2 DEF OnStreamEnd, wireVars, CutInv, Severed, PeerTypes
  <2>3. ASSUME NEW type, Receive(type) PROVE CutInv'
    <3>1. /\ rd \in Nat /\ rd' = rd + 1 /\ cut' = cut /\ frames' = frames
          /\ Severed => rd < cut.at /\ cut.at \in Nat
      BY <1>0, <2>3 DEF Receive, Readable, WireTypeOK
    <3> QED
      BY <1>0, <3>1 DEF CutInv, Severed
  <2>4. CASE ~OnStreamEnd
    <3>1. \E type : Receive(type)
      BY <1>4, <2>4
      DEF DecoderNext, OnRawData, OnTemplateInline, OnTemplateDefine, OnTemplateRef,
          OnEpochReset
    <3> QED
      BY <2>1, <2>3, <3>1 DEF PeerTypes
  <2> QED
    BY <2>2, <2>4
<1> QED
  BY <1>1, <1>2, <1>3, <1>4 DEF PeerNext

\* What the decoder holds is well-formed whatever frames it is sent: the counts
\* of the request being gathered never go below their range, and a dictionary
\* entry is a pattern or absent.
THEOREM PeerTypeCorrect == PeerSpec => []DecoderTypeOK
<1>1. PeerTypes /\ [PeerNext]_peerVars => PeerTypes'
  BY PeerTypesStep
<1>2. PeerTypes => DecoderTypeOK
  BY DEF PeerTypes
<1> QED
  BY <1>1, <1>2, PeerTypesInit, PTL DEF PeerSpec

-----------------------------------------------------------------------------
(***************************************************************************)
(* The request that is being gathered.                                     *)
(***************************************************************************)
\* The Content-Length of a header of n bytes at the beginning of t.
Given(t, n) == parseContentLengthFromHeaderString(SubSeq(t, 1, n))

\* q is not complete, and was not, and done, len and have say how far it is.
Gathered(q, done, len, have) ==
    /\ \A k \in 1..Len(q) : ~Complete(SubSeq(q, 1, k))
    /\ done <=> HeaderLen(TextOf(q)) > 0
    /\ done => /\ len = Given(TextOf(q), HeaderLen(TextOf(q)))
               /\ have = Len(TextOf(q)) - HeaderLen(TextOf(q))
               /\ len >= 0 /\ have < len

GatheredInv == Gathered(req, headerDone, contentLen, bodyHave)

\* q is complete, and was not before its last segment came.
CompleteFirst(q) ==
    /\ Complete(q)
    /\ \A k \in 1..Len(q) - 1 : ~Complete(SubSeq(q, 1, k))

\* The header of q ends without a usable Content-Length.
Refused(q) ==
    HeaderLen(TextOf(q)) > 0 /\ Given(TextOf(q), HeaderLen(TextOf(q))) < 0

\* Nothing is gathered.
LEMMA GatheredNone == \A len, have : Gathered(<<>>, FALSE, len, have)
<1>1. HeaderLen(<<>>) = 0
  <2>1. <<>> \in Text /\ Len(<<>>) = 0
    BY EmptySeq DEF Text
  <2>2. HeaderLen(<<>>) \in 0..0
    BY <2>1, HeaderLenIs
  <2> QED
    BY <2>2
<1>2. \A k \in 1..Len(<<>>) : FALSE
  OBVIOUS
<1> QED
  BY <1>1, <1>2, TextEmpty DEF Gathered

\* Another segment leaves the prefixes as they were.
LEMMA AppendPrefixes ==
    ASSUME NEW q \in Seq(Seg), NEW s \in Seg
    PROVE  /\ Append(q, s) \in Seq(Seg) /\ Len(Append(q, s)) = Len(q) + 1
           /\ Append(q, s)[Len(q) + 1] = s
           /\ \A i \in 1..Len(q) : Append(q, s)[i] = q[i]
           /\ \A g \in 0..Len(q) : SubSeq(Append(q, s), 1, g) = SubSeq(q, 1, g)
           /\ SubSeq(Append(q, s), 1, Len(q) + 1) = Append(q, s)
<1> DEFINE a == Append(q, s)
<1>1. /\ a \in Seq(Seg) /\ Len(a) = Len(q) + 1 /\ a[Len(q) + 1] = s
      /\ \A i \in 1..Len(q) : a[i] = q[i]
      /\ Len(q) \in Nat
  BY AppendProperties
<1> HIDE DEF a
<1>2. ASSUME NEW g \in 0..Len(q) PROVE SubSeq(a, 1, g) = SubSeq(q, 1, g)
  <2>1. SubSeq(a, 1, g) = [i \in 1..g |-> a[i]] /\ SubSeq(q, 1, g) = [i \in 1..g |-> q[i]]
    BY <1>1, <1>2
  <2>2. \A i \in 1..g : a[i] = q[i]
    BY <1>1
  <2> QED
    BY <2>1, <2>2
<1>3. SubSeq(a, 1, Len(q) + 1) = a
  BY <1>1
<1> QED
  BY <1>1, <1>2, <1>3 DEF a

\* What the decoder makes of its counts when a segment of text x follows q, of
\* text T: they are those of the text t of both.
LEMMA CountsNext ==
    ASSUME DecoderTypeOK, GatheredInv, NEW x \in Text,
           NEW t, t = TextOf(req) \o x
    PROVE  /\ HeaderLen(t) \in Nat /\ Len(t) - HeaderLen(t) \in Nat
           /\ headerDone => HeaderLen(t) > 0
           /\ HeaderLen(t) > 0 => /\ LengthOf(t, HeaderLen(t)) = Given(t, HeaderLen(t))
                                  /\ BodyHave(t, HeaderLen(t)) = Len(t) - HeaderLen(t)
<1> DEFINE T == TextOf(req)
<1>1. T \in Text
  BY TextType DEF DecoderTypeOK
<1>2. headerDone => HeaderLen(T) > 0 /\ contentLen = Given(T, HeaderLen(T))
  BY DEF GatheredInv, Gathered
<1>3. t = T \o x
  OBVIOUS
<1> HIDE DEF T
<1>4. t \in Text
  BY <1>1, <1>3, TextParts
<1>5. HeaderLen(t) \in 0..Len(t) /\ Len(t) \in Nat
  <2>1. Len(t) \in Nat
    BY <1>4 DEF Text
  <2> QED
    BY <1>4, <2>1, HeaderLenIs
<1>6. headerDone => /\ HeaderLen(t) = HeaderLen(T)
                    /\ SubSeq(t, 1, HeaderLen(t)) = SubSeq(T, 1, HeaderLen(T))
  BY <1>1, <1>2, <1>3, HeaderStays
<1>7. HeaderLen(t) > 0 => LengthOf(t, HeaderLen(t)) = Given(t, HeaderLen(t))
  <2>1. CASE headerDone
    BY <1>2, <1>6, <2>1 DEF LengthOf, Given
  <2>2. CASE ~headerDone
    BY <2>2 DEF LengthOf, Given
  <2> QED
    BY <2>1, <2>2
<1>8. HeaderLen(t) > 0 => BodyHave(t, HeaderLen(t)) = Len(t) - HeaderLen(t)
  BY DEF BodyHave
<1> QED
  BY <1>2, <1>5, <1>6, <1>7, <1>8

\* feed and flushReqIfComplete: the request stays incomplete, or it is complete
\* now and delivered, or the decoder stops; a violation is only reported for a
\* header that ends without a length.
LEMMA FeedGathers ==
    ASSUME DecoderTypeOK, GatheredInv, NEW s \in Seg, FeedAndFlush(s)
    PROVE  LET q == Append(req, s)
           IN  /\ GatheredInv'
               /\ \/ UNCHANGED <<gatherVars, sink, decStatus>> /\ SegLen(s) = 0
                  \/ /\ UNCHANGED <<gatherVars, sink>> /\ decStatus' = "violation"
                     /\ SegLen(s) > 0 /\ Refused(q)
                  \/ /\ sink' = sink \o q /\ req' = <<>> /\ decStatus' = decStatus
                     /\ SegLen(s) > 0 /\ CompleteFirst(q)
                  \/ decStatus' = "sinkfail"
                  \/ /\ req' = q /\ UNCHANGED <<sink, decStatus>>
                     /\ SegLen(s) > 0
<1> DEFINE q == Append(req, s)
           t == TextOf(q)
           end == HeaderLen(t)
           len == LengthOf(t, end)
           have == BodyHave(t, end)
<1>1. req \in Seq(Seg) /\ headerDone \in BOOLEAN
  BY DEF DecoderTypeOK
<1>2. /\ Len(q) = Len(req) + 1 /\ Len(req) \in Nat
      /\ \A k \in 0..Len(req) : SubSeq(q, 1, k) = SubSeq(req, 1, k)
      /\ SubSeq(q, 1, Len(req) + 1) = q
  BY <1>1, AppendPrefixes
<1>3. \A k \in 1..Len(req) : ~Complete(SubSeq(q, 1, k))
  <2>1. \A k \in 1..Len(req) : k \in 0..Len(req) /\ ~Complete(SubSeq(req, 1, k))
    BY DEF GatheredInv, Gathered
  <2> HIDE DEF q
  <2> QED
    BY <1>2, <2>1
<1>4. /\ end \in Nat /\ Len(t) - end \in Nat
      /\ headerDone => end > 0
      /\ end > 0 => len = Given(t, end) /\ have = Len(t) - end
  <2>1. SegText(s) \in Text /\ t = TextOf(req) \o SegText(s)
    BY <1>1, SegTextType, TextNext
  <2> HIDE DEF t
  <2> QED
    BY <2>1, CountsNext
<1>5. Complete(q) <=> end > 0 /\ Given(t, end) >= 0 /\ Len(t) - end >= Given(t, end)
  BY DEF Complete, Given
<1>6. Refused(q) <=> end > 0 /\ Given(t, end) < 0
  BY DEF Refused
<1>7. end > 0 => len \in Nat \cup {-1}
  <2>1. t \in Text
    <3>1. q \in Seq(Seg)
      BY <1>1
    <3> HIDE DEF q
    <3> QED
      BY <3>1, TextType
  <2> HIDE DEF t
  <2>2. SubSeq(t, 1, end) \in Text
    BY <1>4, <2>1 DEF Text
  <2>3. Given(t, end) \in Nat \cup {-1}
    BY <2>2, ParseIs DEF Given
  <2> QED
    BY <1>4, <2>3
<1>8. UNCHANGED gatherVars => GatheredInv'
  BY DEF gatherVars, GatheredInv
<1>9. \/ SegLen(s) = 0 /\ UNCHANGED <<gatherVars, sink, decStatus>>
      \/ SegLen(s) > 0 /\ Gather(q, t, end, len)
  BY FeedIs
<1>10. Gather(q, t, end, len) =>
         \/ end > 0 /\ len < 0 /\ Stop("violation")
         \/ end > 0 /\ ~(len < 0) /\ have >= len /\ Flush(q)
         \/ /\ ~(end > 0) \/ (~(len < 0) /\ ~(have >= len))
            /\ req' = q /\ headerDone' = (headerDone \/ end > 0)
            /\ contentLen' = len /\ bodyHave' = have
            /\ UNCHANGED <<sink, decStatus>>
  <2>1. (headerDone \/ end > 0) <=> end > 0
    BY <1>4
  <2>2. end > 0 => ~(end = 0)
    OBVIOUS
  <2> HIDE DEF q, t, end, len
  <2> QED
    BY <2>1, <2>2, Zenon DEF Gather, Enough
<1> HIDE DEF q, t, end, len, have
<1>11. CASE SegLen(s) = 0 /\ UNCHANGED <<gatherVars, sink, decStatus>>
  BY <1>8, <1>11
<1>12. CASE SegLen(s) > 0 /\ end > 0 /\ len < 0 /\ Stop("violation")
  <2>1. Refused(q)
    BY <1>4, <1>6, <1>12
  <2> QED
    BY <1>8, <1>12, <2>1 DEF Stop, q
<1>13. CASE SegLen(s) > 0 /\ end > 0 /\ ~(len < 0) /\ have >= len /\ Flush(q)
  <2>1. CompleteFirst(q)
    <3>1. Complete(q)
      BY <1>4, <1>5, <1>7, <1>13
    <3> QED
      BY <1>2, <1>3, <3>1 DEF CompleteFirst
  <2>2. CASE sink' = sink \o q /\ resetReq /\ UNCHANGED decStatus
    <3>1. req' = <<>> /\ headerDone' = FALSE
      BY <2>2 DEF resetReq
    <3>2. GatheredInv'
      BY <3>1, GatheredNone DEF GatheredInv
    <3> QED
      BY <1>13, <2>1, <2>2, <3>1, <3>2 DEF q
  <2>3. CASE decStatus' = "sinkfail" /\ UNCHANGED gatherVars
    BY <1>8, <2>3
  <2> QED
    BY <1>13, <2>2, <2>3 DEF Flush
<1>14. CASE /\ SegLen(s) > 0
            /\ ~(end > 0) \/ (~(len < 0) /\ ~(have >= len))
            /\ req' = q /\ headerDone' = (headerDone \/ end > 0)
            /\ contentLen' = len /\ bodyHave' = have
            /\ UNCHANGED <<sink, decStatus>>
  <2>1. ~Complete(q)
    <3>1. CASE ~(end > 0)
      BY <1>5, <3>1
    <3>2. CASE end > 0 /\ ~(have >= len)
      BY <1>4, <1>5, <3>2
    <3> QED
      BY <1>14, <3>1, <3>2
  <2>2. \A k \in 1..Len(q) : ~Complete(SubSeq(q, 1, k))
    <3>1. \A k \in 1..Len(q) : k \in 1..Len(req) \/ k = Len(req) + 1
      BY <1>2
    <3>2. ~Complete(SubSeq(q, 1, Len(req) + 1))
      BY <1>2, <2>1
    <3> QED
      BY <1>3, <3>1, <3>2, Zenon
  <2>3. headerDone' <=> end > 0
    BY <1>4, <1>14
  <2>4. end > 0 => /\ contentLen' = Given(t, end) /\ bodyHave' = Len(t) - end
                   /\ contentLen' >= 0 /\ bodyHave' < contentLen'
    BY <1>4, <1>7, <1>14
  <2>5. Gathered(q, headerDone', contentLen', bodyHave')
    BY <2>2, <2>3, <2>4 DEF Gathered, t, end
  <2>6. GatheredInv'
    BY <1>14, <2>5 DEF GatheredInv
  <2> QED
    BY <1>14, <2>6 DEF q
<1> QED
  BY <1>9, <1>10, <1>11, <1>12, <1>13, <1>14

\* The handlers of the frames, as far as the request that is gathered goes.
LEMMA HandlersGather ==
    ASSUME PeerTypes, GatheredInv,
           OnRawData \/ OnTemplateInline \/ OnTemplateDefine \/ OnTemplateRef \/ OnEpochReset
    PROVE  /\ GatheredInv'
           /\ (sink' # sink /\ decStatus' = "run") =>
                 \E q \in Seq(Seg) : sink' = sink \o q /\ CompleteFirst(q)
<1> DEFINE f == frames[rd + 1]
<1>0. WireTypeOK /\ DecoderTypeOK /\ CutInv
  BY DEF PeerTypes
<1>1. ASSUME NEW s \in Seg, FeedAndFlush(s)
      PROVE  /\ GatheredInv'
             /\ (sink' # sink /\ decStatus' = "run") =>
                   \E q \in Seq(Seg) : sink' = sink \o q /\ CompleteFirst(q)
  <2> DEFINE q == Append(req, s)
  <2>1. q \in Seq(Seg)
    BY <1>0 DEF DecoderTypeOK
  <2> HIDE DEF q
  <2>2. /\ GatheredInv'
        /\ sink' = sink \/ decStatus' = "sinkfail" \/ (sink' = sink \o q /\ CompleteFirst(q))
    BY <1>0, <1>1, FeedGathers DEF q
  <2> QED
    BY <2>1, <2>2
<1>2. UNCHANGED gatherVars => GatheredInv'
  BY DEF gatherVars, GatheredInv
<1>3. CASE OnRawData
  <2>1. f \in Frame /\ f.type = "RAW_DATA"
    BY <1>0, <1>3, ReceiveType DEF OnRawData
  <2>2. f.seg \in Seg
    BY <2>1 DEF Frame
  <2> QED
    BY <1>1, <1>3, <2>2 DEF OnRawData
<1>4. CASE OnTemplateInline
  <2>1. f \in Frame /\ f.type = "TEMPLATE_INLINE"
    BY <1>0, <1>4, ReceiveType DEF OnTemplateInline
  <2>2. [pat |-> f.pat, lane |-> f.lane] \in Seg
    BY <2>1 DEF Frame, Seg
  <2> QED
    BY <1>1, <1>4, <2>2 DEF OnTemplateInline
<1>5. CASE OnTemplateDefine
  BY <1>2, <1>5 DEF OnTemplateDefine
<1>6. CASE OnTemplateRef
  <2>1. f \in Frame /\ f.type = "TEMPLATE_REF"
    BY <1>0, <1>6, ReceiveType DEF OnTemplateRef
  <2>2. f.tid \in Ids /\ f.lane \in Lanes
    BY <2>1 DEF Frame
  <2>3. [pat |-> decTemplates[f.tid], lane |-> f.lane] \in Seg
    BY <1>0, <2>2 DEF DecoderTypeOK, Seg
  <2>4. CASE Stop("violation")
    BY <1>2, <2>4 DEF Stop
  <2>5. CASE FeedAndFlush([pat |-> decTemplates[f.tid], lane |-> f.lane])
    BY <1>1, <2>3, <2>5
  <2> QED
    BY <1>6, <2>4, <2>5 DEF OnTemplateRef
<1>7. CASE OnEpochReset
  <2>1. req' = <<>> /\ headerDone' = FALSE /\ sink' = sink
    BY <1>7 DEF OnEpochReset, resetReq
  <2> QED
    BY <2>1, GatheredNone DEF GatheredInv
<1> QED
  BY <1>3, <1>4, <1>5, <1>6, <1>7

\* Every step keeps the counts in agreement with what is gathered.
LEMMA GatheredInvStep ==
    ASSUME PeerTypes, GatheredInv, [PeerNext]_peerVars
    PROVE  GatheredInv'
<1>1. CASE UNCHANGED gatherVars
  BY <1>1 DEF gatherVars, GatheredInv
<1> QED
  BY <1>1, PeerSteps, HandlersGather DEF decVars

\* What the destination is given in one step is one complete request: its bytes
\* hold a header, the first usable Content-Length among the lines of that header,
\* and as many bytes behind it (flushReqIfComplete), and they did not before the
\* last piece came, whatever the sender does: wherever the frames cut the lines,
\* the end of the header and the body.
THEOREM DeliversComplete == PeerSpec => DeliversAtCompletion
<1>1. PeerInit => GatheredInv
  BY GatheredNone DEF PeerInit, DecoderInit, GatheredInv
<1>2. PeerTypes /\ GatheredInv /\ [PeerNext]_peerVars => PeerTypes' /\ GatheredInv'
  BY PeerTypesStep, GatheredInvStep
<1> DEFINE Delivers ==
        (sink' # sink /\ decStatus' = "run") =>
          LET out == SubSeq(sink', Len(sink) + 1, Len(sink'))
          IN  /\ Complete(out)
              /\ \A k \in 1..Len(out) - 1 : ~Complete(SubSeq(out, 1, k))
<1>3. PeerTypes /\ GatheredInv /\ [PeerNext]_peerVars => [Delivers]_peerVars
  <2> SUFFICES ASSUME PeerTypes, GatheredInv, [PeerNext]_peerVars,
                      sink' # sink, decStatus' = "run"
               PROVE  Delivers
    OBVIOUS
  <2>1. PICK q \in Seq(Seg) : sink' = sink \o q /\ CompleteFirst(q)
    BY PeerSteps, HandlersGather DEF decVars
  <2>2. sink \in Seq(Seg)
    BY DEF PeerTypes, DecoderTypeOK
  <2>3. SubSeq(sink', Len(sink) + 1, Len(sink')) = q
    BY <2>1, <2>2
  <2> QED
    BY <2>1, <2>3 DEF CompleteFirst
<1> QED
  BY <1>1, <1>2, <1>3, PeerTypesInit, PTL DEF PeerSpec, DeliversAtCompletion

-----------------------------------------------------------------------------
(***************************************************************************)
(* The dictionary and the references.                                      *)
(***************************************************************************)
\* A running decoder holds, under each id, what the id stands for.
EpochInv == decStatus = "run" => \A t \in Ids : decTemplates[t] = Current(t, rd)

PeerInv == PeerTypes /\ GatheredInv /\ EpochInv /\ UnknownRefStops

\* A definition on the stream is one of a pattern.
LEMMA CurrentType ==
    ASSUME WireTypeOK, NEW n \in 0..Len(frames), NEW t
    PROVE  Current(t, n) = NoPat <=> Definitions(t, n) = {}
<1> DEFINE D == Definitions(t, n)
<1>0. Len(frames) \in Nat /\ frames \in Seq(Frame) /\ n \in Nat /\ n <= Len(frames)
  BY DEF WireTypeOK
<1>1. n \in Nat /\ D \subseteq 1..n
  BY <1>0, DefinitionsNext
<1>2. \A i \in D : frames[i].type \in {"TEMPLATE_DEFINE", "TEMPLATE_INLINE"}
  BY DEF Definitions
<1>3. Current(t, n) = IF D = {} THEN NoPat ELSE frames[Max(D)].pat
  BY DEF Current
<1> HIDE DEF D
<1>4. ASSUME D # {} PROVE frames[Max(D)].pat # NoPat
  <2>1. D \subseteq 0..n
    BY <1>1
  <2>2. Max(D) \in D
    BY <1>1, <1>4, <2>1, MaxOf
  <2>3. \A i \in D : i \in 1..Len(frames)
    BY <1>0, <1>1
  <2>4. frames[Max(D)] \in Frame
    BY <1>0, <2>2, <2>3
  <2>5. frames[Max(D)].type \in {"TEMPLATE_DEFINE", "TEMPLATE_INLINE"}
    BY <1>2, <2>2
  <2>6. frames[Max(D)].pat \in Patterns
    BY <2>4, <2>5 DEF Frame
  <2> QED
    BY <2>6, PatternsAssumption
<1> QED
  BY <1>3, <1>4 DEF D

\* The reading moves with the reader.
LEMMA ReaderMoves ==
    ASSUME NEW n, rd' = n, frames' = frames
    PROVE  /\ \A t : (Current(t, rd))' = Current(t, n)
           /\ \A t, k : (Definitions(t, k))' = Definitions(t, k)
           /\ \A k : (Meaning(k))' = Meaning(k)
BY DEF Current, Definitions, LastReset, Meaning

\* The handlers do to the dictionary what the frames say.
LEMMA EpochInvHandled ==
    ASSUME PeerTypes, EpochInv, decStatus = "run", rd' = rd + 1, frames' = frames,
           OnRawData \/ OnTemplateInline \/ OnTemplateDefine \/ OnTemplateRef \/ OnEpochReset
    PROVE  EpochInv'
<1> SUFFICES ASSUME decStatus' = "run", NEW t \in Ids
             PROVE  decTemplates'[t] = (Current(t, rd))'
  BY DEF EpochInv
<1> DEFINE f == frames[rd + 1]
<1>0. /\ WireTypeOK /\ CutInv /\ rd \in Nat
      /\ decTemplates \in [Ids -> Patterns \cup {NoPat}]
  BY DEF PeerTypes, WireTypeOK, DecoderTypeOK
<1>1. PICK n \in Nat : n = rd
  BY <1>0
<1>2. (Current(t, rd))' = Current(t, n + 1)
  BY <1>1, ReaderMoves
<1>3. /\ decTemplates[t] = Current(t, n)
      /\ Current(t, n + 1) = IF f.type = "EPOCH_RESET" THEN NoPat
                             ELSE IF Defines(f, t) THEN f.pat
                             ELSE Current(t, n)
  <2>1. decTemplates[t] = Current(t, n)
    BY <1>1 DEF EpochInv
  <2>2. f = frames[n + 1]
    BY <1>1
  <2> HIDE DEF f
  <2> QED
    BY <2>1, <2>2, CurrentNext
<1> HIDE DEF f
<1>4. CASE OnRawData \/ OnTemplateRef
  <2>1. f.type \in {"RAW_DATA", "TEMPLATE_REF"} /\ decTemplates' = decTemplates
    BY <1>4 DEF OnRawData, OnTemplateRef, Receive, f
  <2> QED
    BY <1>2, <1>3, <2>1 DEF Defines
<1>5. CASE OnTemplateInline \/ OnTemplateDefine
  <2>1. /\ f.type \in {"TEMPLATE_INLINE", "TEMPLATE_DEFINE"}
        /\ decTemplates' = [decTemplates EXCEPT ![f.tid] = f.pat]
    BY <1>5 DEF OnTemplateInline, OnTemplateDefine, Receive, f
  <2>2. decTemplates'[t] = IF t = f.tid THEN f.pat ELSE decTemplates[t]
    BY <1>0, <2>1
  <2>3. Defines(f, t) <=> t = f.tid
    BY <2>1 DEF Defines
  <2>4. f.type # "EPOCH_RESET"
    BY <2>1
  <2> QED
    BY <1>2, <1>3, <2>2, <2>3, <2>4
<1>6. CASE OnEpochReset
  <2>1. f.type = "EPOCH_RESET" /\ decTemplates' = NoTemplates
    BY <1>6 DEF OnEpochReset, Receive, f
  <2> QED
    BY <1>2, <1>3, <2>1 DEF NoTemplates
<1> QED
  BY <1>4, <1>5, <1>6

\* A reference means what the dictionary makes of it.
LEMMA RefMeaning ==
    ASSUME PeerTypes, EpochInv, OnTemplateRef
    PROVE  LET f == frames[rd + 1]
               p == decTemplates[f.tid]
               s == [pat |-> p, lane |-> f.lane]
           IN  /\ f.type = "TEMPLATE_REF" /\ s \in Seg
               /\ p = NoPat <=> Definitions(f.tid, rd + 1) = {}
               /\ p # NoPat => FeedAndFlush(s) /\ Meaning(rd + 1) = Piece(s)
<1> DEFINE f == frames[rd + 1]
           p == decTemplates[f.tid]
           s == [pat |-> p, lane |-> f.lane]
           D == Definitions(f.tid, rd + 1)
<1>0. WireTypeOK /\ DecoderTypeOK /\ CutInv /\ decStatus = "run" /\ rd \in Nat
  BY DEF PeerTypes, OnTemplateRef, Receive, WireTypeOK
<1>1. f \in Frame /\ f.type = "TEMPLATE_REF"
  BY <1>0, ReceiveType DEF OnTemplateRef
<1>2. f.tid \in Ids /\ f.lane \in Lanes
  BY <1>1 DEF Frame
<1>3. p \in Patterns \cup {NoPat}
  BY <1>0, <1>2 DEF DecoderTypeOK
<1>4. s \in Seg
  BY <1>2, <1>3 DEF Seg
<1>5. p = Current(f.tid, rd) /\ Current(f.tid, rd + 1) = Current(f.tid, rd)
      /\ D = Definitions(f.tid, rd)
  <2>1. f.type # "EPOCH_RESET" /\ ~Defines(f, f.tid)
    BY <1>1 DEF Defines
  <2>2. Current(f.tid, rd + 1) = IF f.type = "EPOCH_RESET" THEN NoPat
                                 ELSE IF Defines(f, f.tid) THEN f.pat
                                 ELSE Current(f.tid, rd)
    BY <1>0, CurrentNext
  <2>3. D = IF f.type = "EPOCH_RESET" THEN {}
            ELSE Definitions(f.tid, rd)
                 \cup (IF Defines(f, f.tid) THEN {rd + 1} ELSE {})
    BY <1>0, DefinitionsNext
  <2>4. p = Current(f.tid, rd)
    BY <1>0, <1>2 DEF EpochInv
  <2> HIDE DEF f, D
  <2> QED
    BY <2>1, <2>2, <2>3, <2>4
<1>6. p = NoPat <=> D = {}
  <2>1. rd \in 0..Len(frames)
    BY <1>0 DEF WireTypeOK
  <2>2. Current(f.tid, rd) = NoPat <=> Definitions(f.tid, rd) = {}
    BY <1>0, <2>1, CurrentType
  <2> QED
    BY <1>5, <2>2
<1>7. ASSUME p # NoPat PROVE FeedAndFlush(s) /\ Meaning(rd + 1) = Piece(s)
  <2>1. FeedAndFlush(s)
    BY <1>7 DEF OnTemplateRef
  <2>2. Current(f.tid, rd + 1) = IF D = {} THEN NoPat ELSE frames[Max(D)].pat
    BY DEF Current
  <2>3. p = frames[Max(D)].pat
    BY <1>5, <1>6, <1>7, <2>2
  <2>4. Meaning(rd + 1) = Piece([pat |-> frames[Max(D)].pat, lane |-> f.lane])
    BY <1>1 DEF Meaning
  <2> QED
    BY <2>1, <2>3, <2>4
<1> QED
  BY <1>1, <1>4, <1>6, <1>7

\* A handler that meets a reference reports a violation if its id has no
\* definition, and if it has, only where a header ends without a length.
LEMMA RefHandled ==
    ASSUME PeerTypes, GatheredInv, EpochInv, OnTemplateRef
    PROVE  IF Definitions(frames[rd + 1].tid, rd + 1) = {} THEN decStatus' = "violation"
           ELSE decStatus' = "violation" => Refused(req' \o Meaning(rd + 1))
<1> DEFINE f == frames[rd + 1]
           p == decTemplates[f.tid]
           s == [pat |-> p, lane |-> f.lane]
<1>0. DecoderTypeOK /\ decStatus = "run"
  BY DEF PeerTypes, OnTemplateRef, Receive
<1>1. /\ s \in Seg
      /\ p = NoPat <=> Definitions(f.tid, rd + 1) = {}
      /\ p # NoPat => FeedAndFlush(s) /\ Meaning(rd + 1) = Piece(s)
  BY RefMeaning
<1>2. CASE p = NoPat
  <2>1. decStatus' = "violation"
    BY <1>2 DEF OnTemplateRef, Stop
  <2> QED
    BY <1>1, <1>2, <2>1
<1>3. CASE p # NoPat
  <2> HIDE DEF s
  <2> SUFFICES ASSUME decStatus' = "violation"
               PROVE  Refused(req' \o Meaning(rd + 1))
    BY <1>1, <1>3
  <2>1. UNCHANGED gatherVars /\ SegLen(s) > 0 /\ Refused(Append(req, s))
    BY <1>0, <1>1, <1>3, FeedGathers
  <2>2. Meaning(rd + 1) = <<s>>
    BY <1>1, <1>3, <2>1 DEF Piece
  <2>3. req' = req /\ req \in Seq(Seg) /\ Append(req, s) = req \o <<s>>
    BY <1>0, <1>1, <2>1, AppendIsConcat DEF gatherVars, DecoderTypeOK
  <2> QED
    BY <2>1, <2>2, <2>3
<1> QED
  BY <1>2, <1>3

\* The references that a running decoder has passed all had a definition.
LEMMA RefsDefined ==
    ASSUME UnknownRefStops, decStatus # "violation"
    PROVE  \A i \in 1..rd : RefDefined(i)
BY DEF UnknownRefStops, RefDefined

\* A handler stops at an unknown reference, and at another one only where a
\* header ends without a length.
LEMMA UnknownRefHandled ==
    ASSUME PeerInv, decStatus = "run", rd' = rd + 1, frames' = frames,
           OnRawData \/ OnTemplateInline \/ OnTemplateDefine \/ OnTemplateRef \/ OnEpochReset
    PROVE  UnknownRefStops'
<1>0. /\ PeerTypes /\ GatheredInv /\ EpochInv /\ UnknownRefStops /\ rd \in Nat
  BY DEF PeerInv, PeerTypes, WireTypeOK
<1> SUFFICES ASSUME NEW k \in 1..rd + 1, frames[k].type = "TEMPLATE_REF"
             PROVE  LET stopped == k = rd + 1 /\ decStatus' = "violation"
                    IN  IF Definitions(frames[k].tid, k) = {} THEN stopped
                        ELSE stopped => Refused(req' \o Meaning(k))
  <2>1. \A t, i : (Definitions(t, i))' = Definitions(t, i)
    BY ReaderMoves
  <2>2. \A i : (EndsWithoutLength(i))' <=> Refused(req' \o Meaning(i))
    <3>1. \A i : (Meaning(i))' = Meaning(i)
      BY ReaderMoves
    <3> QED
      BY <3>1 DEF EndsWithoutLength, Refused, Given
  <2> QED
    BY <1>0, <2>1, <2>2 DEF UnknownRefStops
<1>1. CASE k # rd + 1
  <2>1. k \in 1..rd
    BY <1>0, <1>1
  <2> QED
    BY <1>0, <1>1, <2>1, RefsDefined DEF RefDefined
<1>2. CASE k = rd + 1
  <2>1. OnTemplateRef
    BY <1>2 DEF OnRawData, OnTemplateInline, OnTemplateDefine, OnEpochReset, Receive
  <2> QED
    BY <1>0, <1>2, <2>1, RefHandled
<1> QED
  BY <1>1, <1>2

\* The steps that take no frame.
LEMMA QuietKeeps ==
    ASSUME PeerInv, UNCHANGED <<rd, decVars>>, \A i \in 1..rd : frames'[i] = frames[i]
    PROVE  EpochInv' /\ UnknownRefStops'
<1>0. EpochInv /\ UnknownRefStops /\ rd \in Nat
  BY DEF PeerInv, PeerTypes, WireTypeOK
<1>1. PICK n \in Nat : n = rd
  BY <1>0
<1>2. rd' = n /\ decStatus' = decStatus /\ decTemplates' = decTemplates
  BY <1>1 DEF decVars
<1>3. \A i \in 1..n : frames'[i] = frames[i]
  BY <1>1
<1>4. /\ \A t : \A k \in 0..n : (Definitions(t, k))' = Definitions(t, k)
      /\ \A t : (Current(t, n))' = Current(t, n)
  BY <1>3, ReadingStays
<1>5. EpochInv'
  <2>1. \A t : (Current(t, rd))' = Current(t, n)
    BY <1>2, <1>4
  <2> QED
    BY <1>0, <1>1, <1>2, <2>1 DEF EpochInv
<1>6. UnknownRefStops'
  <2> SUFFICES ASSUME NEW k \in 1..n, frames'[k].type = "TEMPLATE_REF"
               PROVE  IF (Definitions(frames[k].tid, k))' = {}
                      THEN k = n /\ decStatus' = "violation"
                      ELSE (k = n /\ decStatus' = "violation") => (EndsWithoutLength(k))'
    BY <1>2 DEF UnknownRefStops
  <2>1. frames'[k] = frames[k] /\ k \in 0..n /\ k \in 1..rd
    BY <1>1, <1>3
  <2>2. (Definitions(frames[k].tid, k))' = Definitions(frames[k].tid, k)
    BY <1>4, <2>1
  <2>3. CASE Definitions(frames[k].tid, k) = {}
    BY <1>0, <1>1, <1>2, <2>1, <2>2, <2>3 DEF UnknownRefStops
  <2>4. CASE Definitions(frames[k].tid, k) # {}
    <3>1. (Meaning(k))' = Meaning(k)
      BY <1>3, <2>4, ReadingStays DEF RefDefined
    <3>2. (EndsWithoutLength(k))' <=> EndsWithoutLength(k)
      BY <1>2, <3>1 DEF EndsWithoutLength, decVars, gatherVars
    <3> QED
      BY <1>0, <1>1, <1>2, <2>1, <2>2, <2>4, <3>2 DEF UnknownRefStops
  <2> QED
    BY <2>3, <2>4
<1> QED
  BY <1>5, <1>6

\* The invariant holds at the start.
LEMMA PeerInvInit == PeerInit => PeerInv
<1> SUFFICES ASSUME PeerInit PROVE PeerInv
  OBVIOUS
<1>1. PeerTypes
  BY PeerTypesInit
<1>2. rd = 0 /\ frames = <<>> /\ req = <<>> /\ headerDone = FALSE /\ decTemplates = NoTemplates
  BY DEF PeerInit, WireInit, DecoderInit
<1>3. GatheredInv
  BY <1>2, GatheredNone DEF GatheredInv
<1>4. EpochInv
  <2>1. \A t : Definitions(t, 0) = {}
    <3>1. \A t : Definitions(t, 0) \subseteq 1..0
      BY DefinitionsNext
    <3> QED
      BY <3>1
  <2>2. \A t : Current(t, 0) = NoPat
    BY <2>1 DEF Current
  <2> QED
    BY <1>2, <2>2 DEF EpochInv, NoTemplates
<1>5. UnknownRefStops
  BY <1>2 DEF UnknownRefStops
<1> QED
  BY <1>1, <1>3, <1>4, <1>5 DEF PeerInv

\* Every step of the sender and the decoder keeps the invariant.
LEMMA PeerInvStep ==
    ASSUME PeerInv, [PeerNext]_peerVars
    PROVE  PeerInv'
<1>0. PeerTypes /\ GatheredInv /\ EpochInv /\ UnknownRefStops
  BY DEF PeerInv
<1>1. PeerTypes' /\ GatheredInv'
  BY <1>0, PeerTypesStep, GatheredInvStep
<1>2. CASE UNCHANGED <<rd, decVars>> /\ \A i \in 1..rd : frames'[i] = frames[i]
  BY <1>1, <1>2, QuietKeeps DEF PeerInv
<1>3. CASE /\ UNCHANGED <<frames, rd, decTemplates, epoch, gatherVars, sink>>
           /\ decStatus = "run" /\ decStatus' \in {"eof", "failed"}
  <2>1. EpochInv'
    BY <1>3 DEF EpochInv
  <2>2. \A t, k : (Definitions(t, k))' = Definitions(t, k)
    BY <1>3, ReaderMoves
  <2>3. UnknownRefStops'
    BY <1>0, <1>3, <2>2, RefsDefined DEF UnknownRefStops, RefDefined
  <2> QED
    BY <1>1, <2>1, <2>3 DEF PeerInv
<1>4. CASE /\ OnRawData \/ OnTemplateInline \/ OnTemplateDefine
              \/ OnTemplateRef \/ OnEpochReset
           /\ decStatus = "run" /\ rd' = rd + 1 /\ frames' = frames
  BY <1>0, <1>1, <1>4, EpochInvHandled, UnknownRefHandled DEF PeerInv
<1> QED
  BY <1>0, <1>2, <1>3, <1>4, PeerSteps

\* The decoder reports an unknown reference ("template ref before define/inline"
\* in decode_v1.go), whatever frames it is sent, and another one only where what
\* it stands for ends a header without a length: an id is known exactly if it was
\* defined since the last EPOCH_RESET.
THEOREM UnknownRefsStop == PeerSpec => []UnknownRefStops
<1>1. PeerInv /\ [PeerNext]_peerVars => PeerInv'
  BY PeerInvStep
<1>2. PeerInv => UnknownRefStops
  BY DEF PeerInv
<1> QED
  BY <1>1, <1>2, PeerInvInit, PTL DEF PeerSpec

-----------------------------------------------------------------------------
(***************************************************************************)
(* What the decoder has taken, compared with what the frames mean.         *)
(***************************************************************************)
\* What a handler adds to the request is what its frame means.
LEMMA HandlersRead ==
    ASSUME PeerInv, decStatus' = "run",
           OnRawData \/ OnTemplateInline \/ OnTemplateDefine \/ OnTemplateRef \/ OnEpochReset
    PROVE  \/ frames[rd + 1].type = "EPOCH_RESET" /\ req' = <<>> /\ sink' = sink
           \/ /\ frames[rd + 1].type # "EPOCH_RESET" /\ Meaning(rd + 1) = <<>>
              /\ UNCHANGED <<req, sink>>
           \/ /\ frames[rd + 1].type # "EPOCH_RESET"
              /\ \E s \in Seg :
                    /\ Meaning(rd + 1) = <<s>>
                    /\ \/ req' = Append(req, s) /\ sink' = sink
                       \/ req' = <<>> /\ sink' = sink \o Append(req, s)
<1> DEFINE f == frames[rd + 1]
<1>0. /\ WireTypeOK /\ DecoderTypeOK /\ CutInv /\ GatheredInv /\ EpochInv
      /\ PeerTypes /\ rd \in Nat
  BY DEF PeerInv, PeerTypes, WireTypeOK
<1>1. ASSUME NEW s \in Seg, FeedAndFlush(s), f.type # "EPOCH_RESET",
             Meaning(rd + 1) = Piece(s)
      PROVE  \/ /\ f.type # "EPOCH_RESET" /\ Meaning(rd + 1) = <<>>
                /\ UNCHANGED <<req, sink>>
             \/ /\ f.type # "EPOCH_RESET"
                /\ \E x \in Seg :
                      /\ Meaning(rd + 1) = <<x>>
                      /\ \/ req' = Append(req, x) /\ sink' = sink
                         \/ req' = <<>> /\ sink' = sink \o Append(req, x)
  <2>1. SegLen(s) \in Nat
    BY SegLenType
  <2>2. \/ UNCHANGED <<gatherVars, sink, decStatus>> /\ SegLen(s) = 0
        \/ /\ sink' = sink \o Append(req, s) /\ req' = <<>> /\ SegLen(s) > 0
        \/ req' = Append(req, s) /\ sink' = sink /\ SegLen(s) > 0
    BY <1>0, <1>1, FeedGathers
  <2>3. CASE SegLen(s) = 0
    <3>1. Meaning(rd + 1) = <<>>
      BY <1>1, <2>3 DEF Piece
    <3>2. UNCHANGED <<req, sink>>
      BY <2>2, <2>3 DEF gatherVars
    <3> QED
      BY <1>1, <3>1, <3>2
  <2>4. CASE SegLen(s) # 0
    <3>1. Meaning(rd + 1) = <<s>>
      BY <1>1, <2>4 DEF Piece
    <3>2. \/ req' = Append(req, s) /\ sink' = sink
          \/ req' = <<>> /\ sink' = sink \o Append(req, s)
      BY <2>2, <2>4
    <3> QED
      BY <1>1, <3>1, <3>2, Zenon
  <2> QED
    BY <2>3, <2>4
<1>2. CASE OnRawData
  <2>1. f \in Frame /\ f.type = "RAW_DATA" /\ FeedAndFlush(f.seg)
    BY <1>0, <1>2, ReceiveType DEF OnRawData
  <2>2. f.seg \in Seg
    BY <2>1 DEF Frame
  <2>3. Meaning(rd + 1) = Piece(f.seg)
    BY <2>1 DEF Meaning
  <2> QED
    BY <1>1, <2>1, <2>2, <2>3
<1>3. CASE OnTemplateInline
  <2> DEFINE s == [pat |-> f.pat, lane |-> f.lane]
  <2>1. f \in Frame /\ f.type = "TEMPLATE_INLINE" /\ FeedAndFlush(s)
    BY <1>0, <1>3, ReceiveType DEF OnTemplateInline
  <2>2. f.pat \in Patterns /\ f.lane \in Lanes
    BY <2>1 DEF Frame
  <2>3. s \in Seg
    BY <2>2 DEF Seg
  <2>4. Meaning(rd + 1) = Piece(s)
    BY <2>1 DEF Meaning
  <2> HIDE DEF s
  <2> QED
    BY <1>1, <2>1, <2>3, <2>4
<1>4. CASE OnTemplateDefine
  <2>1. f.type = "TEMPLATE_DEFINE" /\ UNCHANGED <<req, sink>>
    BY <1>4 DEF OnTemplateDefine, Receive, gatherVars
  <2>2. Meaning(rd + 1) = <<>>
    BY <2>1 DEF Meaning
  <2> QED
    BY <2>1, <2>2
<1>5. CASE OnTemplateRef
  <2> DEFINE p == decTemplates[f.tid]
             s == [pat |-> p, lane |-> f.lane]
  <2>1. p # NoPat
    BY <1>5 DEF OnTemplateRef, Stop
  <2>2. /\ f.type = "TEMPLATE_REF" /\ s \in Seg /\ FeedAndFlush(s)
        /\ Meaning(rd + 1) = Piece(s)
    BY <1>0, <1>5, <2>1, RefMeaning
  <2> HIDE DEF s, p
  <2> QED
    BY <1>1, <2>2
<1>6. CASE OnEpochReset
  BY <1>6 DEF OnEpochReset, Receive, resetReq
<1> QED
  BY <1>2, <1>3, <1>4, <1>5, <1>6

\* m is the end of w.
EndOf(m, w) ==
    /\ m \in Seq(Seg) /\ w \in Seq(Seg) /\ Len(m) <= Len(w)
    /\ \A i \in 1..Len(m) : m[i] = w[Len(w) - Len(m) + i]

\* r is gathered and k was delivered, and what comes last of them is m.
Taken(m, r, k) ==
    r \in Seq(Seg) /\ k \in Seq(Seg) /\ Len(r) <= Len(m) /\ EndOf(m, k \o r)

\* One segment more on both.
LEMMA EndOfNext ==
    ASSUME NEW m, NEW w, EndOf(m, w), NEW s \in Seg
    PROVE  EndOf(m \o <<s>>, Append(w, s))
<1>1. m \in Seq(Seg) /\ w \in Seq(Seg) /\ Len(m) \in Nat /\ Len(w) \in Nat /\ Len(m) <= Len(w)
  BY DEF EndOf
<1> DEFINE m2 == m \o <<s>>
           w2 == Append(w, s)
<1>2. /\ w2 \in Seq(Seg) /\ Len(w2) = Len(w) + 1 /\ w2[Len(w) + 1] = s
      /\ \A i \in 1..Len(w) : w2[i] = w[i]
  BY <1>1, AppendPrefixes
<1>3. m2 = Append(m, s)
  BY <1>1
<1>4. /\ m2 \in Seq(Seg) /\ Len(m2) = Len(m) + 1 /\ m2[Len(m) + 1] = s
      /\ \A i \in 1..Len(m) : m2[i] = m[i]
  BY <1>1, <1>3, AppendPrefixes
<1> HIDE DEF m2, w2
<1>5. ASSUME NEW i \in 1..Len(m) + 1
      PROVE  m2[i] = w2[(Len(w) + 1) - (Len(m) + 1) + i]
  <2>1. CASE i = Len(m) + 1
    <3>1. (Len(w) + 1) - (Len(m) + 1) + i = Len(w) + 1
      BY <1>1, <2>1
    <3> QED
      BY <1>2, <1>4, <2>1, <3>1
  <2>2. CASE i # Len(m) + 1
    <3>1. /\ i \in 1..Len(m)
          /\ (Len(w) + 1) - (Len(m) + 1) + i = Len(w) - Len(m) + i
          /\ Len(w) - Len(m) + i \in 1..Len(w)
      BY <1>1, <2>2
    <3>2. m[i] = w[Len(w) - Len(m) + i]
      BY <3>1 DEF EndOf
    <3> QED
      BY <1>2, <1>4, <3>1, <3>2
  <2> QED
    BY <2>1, <2>2
<1>6. \A i \in 1..Len(m2) : m2[i] = w2[Len(w2) - Len(m2) + i]
  BY <1>2, <1>4, <1>5
<1>7. Len(m2) <= Len(w2)
  BY <1>1, <1>2, <1>4
<1>8. EndOf(m2, w2)
  BY <1>2, <1>4, <1>6, <1>7 DEF EndOf
<1> QED
  BY <1>8 DEF m2, w2

\* Another segment is gathered, or completes the request, which is delivered.
LEMMA TakenNext ==
    ASSUME NEW m, NEW r, NEW k, Taken(m, r, k), NEW s \in Seg
    PROVE  /\ Taken(m \o <<s>>, Append(r, s), k)
           /\ Taken(m \o <<s>>, <<>>, k \o Append(r, s))
<1>1. /\ m \in Seq(Seg) /\ r \in Seq(Seg) /\ k \in Seq(Seg) /\ k \o r \in Seq(Seg)
      /\ Len(r) <= Len(m) /\ Len(r) \in Nat /\ Len(m) \in Nat
  BY DEF Taken, EndOf
<1>2. EndOf(m \o <<s>>, Append(k \o r, s))
  BY EndOfNext DEF Taken
<1> DEFINE q == Append(r, s)
<1>3. q \in Seq(Seg) /\ Len(q) = Len(r) + 1
  BY <1>1
<1>4. Append(k \o r, s) = k \o q
  <2>1. Append(k \o r, s) = (k \o r) \o <<s>> /\ q = r \o <<s>> /\ <<s>> \in Seq(Seg)
    BY <1>1, AppendIsConcat
  <2>2. (k \o r) \o <<s>> = k \o (r \o <<s>>)
    BY <1>1, <2>1, ConcatAssociative
  <2> QED
    BY <2>1, <2>2
<1> HIDE DEF q
<1>5. k \o q \in Seq(Seg) /\ (k \o q) \o <<>> = k \o q
  BY <1>1, <1>3
<1>6. Len(m \o <<s>>) = Len(m) + 1
  BY <1>1
<1>7. <<>> \in Seq(Seg) /\ Len(<<>>) = 0
  OBVIOUS
<1> DEFINE m2 == m \o <<s>>
           w == k \o q
           z == <<>>
<1>8. /\ EndOf(m2, w) /\ w \in Seq(Seg) /\ w \o z = w /\ Len(m2) = Len(m) + 1
      /\ z \in Seq(Seg) /\ Len(z) = 0
  BY <1>2, <1>4, <1>5, <1>6, <1>7
<1> HIDE DEF m2, z
<1>9. Taken(m2, q, k)
  BY <1>1, <1>3, <1>8 DEF Taken
<1> HIDE DEF w
<1>10. Taken(m2, z, w)
  BY <1>1, <1>8 DEF Taken
<1> QED
  BY <1>9, <1>10 DEF m2, z, w, q

\* A reset leaves what was delivered and nothing else.
LEMMA TakenNothing ==
    ASSUME NEW k \in Seq(Seg)
    PROVE  Taken(<<>>, <<>>, k)
<1> DEFINE z == <<>>
<1>1. z \in Seq(Seg) /\ Len(z) = 0 /\ k \o z = k /\ Len(k) \in Nat
  OBVIOUS
<1> HIDE DEF z
<1>2. EndOf(z, k)
  BY <1>1 DEF EndOf
<1>3. Taken(z, z, k)
  BY <1>1, <1>2 DEF Taken
<1> QED
  BY <1>3 DEF z

\* What the frames since the last reset mean was taken.
ReadInv == decStatus = "run" => Taken(MeaningBetween(LastReset(rd), rd), req, sink)

\* Every step keeps what was taken in agreement with the reading.
LEMMA ReadInvStep ==
    ASSUME PeerInv, ReadInv, [PeerNext]_peerVars
    PROVE  ReadInv'
<1>0. /\ PeerTypes /\ UnknownRefStops /\ rd \in Nat
      /\ sink \in Seq(Seg)
  BY DEF PeerInv, PeerTypes, WireTypeOK, DecoderTypeOK
<1> SUFFICES ASSUME decStatus' = "run"
             PROVE  Taken((MeaningBetween(LastReset(rd), rd))', req', sink')
  BY DEF ReadInv
<1>1. PICK n \in Nat : n = rd
  BY <1>0
<1>2. CASE UNCHANGED <<rd, decVars>> /\ \A i \in 1..rd : frames'[i] = frames[i]
  <2>1. decStatus = "run" /\ req' = req /\ sink' = sink /\ rd' = n
    BY <1>1, <1>2 DEF decVars, gatherVars
  <2>2. \A i \in 1..n : RefDefined(i)
    BY <1>0, <1>1, <2>1, RefsDefined
  <2>3. (MeaningBetween(LastReset(n), n))' = MeaningBetween(LastReset(n), n)
    BY <1>1, <1>2, <2>2, ReadingStays
  <2>4. (MeaningBetween(LastReset(rd), rd))' = (MeaningBetween(LastReset(n), n))'
    BY <2>1
  <2> QED
    BY <1>1, <2>1, <2>3, <2>4 DEF ReadInv
<1>3. CASE /\ OnRawData \/ OnTemplateInline \/ OnTemplateDefine
              \/ OnTemplateRef \/ OnEpochReset
           /\ decStatus = "run" /\ rd' = rd + 1 /\ frames' = frames
  <2> DEFINE f == frames[n + 1]
             a == LastReset(n)
             m == MeaningBetween(a, n)
             m2 == MeaningBetween(LastReset(n + 1), n + 1)
  <2>1. (MeaningBetween(LastReset(rd), rd))' = m2
    BY <1>1, <1>3 DEF MeaningBetween, Meaning, Definitions, LastReset
  <2>2. Taken(m, req, sink)
    BY <1>1, <1>3 DEF ReadInv
  <2>3. a \in Nat /\ a <= n /\ LastReset(n + 1) = IF f.type = "EPOCH_RESET" THEN n + 1 ELSE a
    BY ResetNext
  <2>4. m2 = IF f.type = "EPOCH_RESET" THEN <<>> ELSE m \o Meaning(n + 1)
    <3>1. CASE f.type = "EPOCH_RESET"
      <4>1. n + 1 \in Nat /\ LastReset(n + 1) = n + 1
        BY <2>3, <3>1
      <4>2. MeaningBetween(n + 1, n + 1) = <<>>
        BY <4>1, BetweenNext
      <4> QED
        BY <3>1, <4>1, <4>2
    <3>2. CASE f.type # "EPOCH_RESET"
      <4>1. LastReset(n + 1) = a
        BY <2>3, <3>2
      <4>2. MeaningBetween(a, n + 1) = MeaningBetween(a, n) \o Meaning(n + 1)
        BY <2>3, BetweenNext
      <4> QED
        BY <3>2, <4>1, <4>2
    <3> QED
      BY <3>1, <3>2
  <2> HIDE DEF m, m2, f
  <2>5. m \in Seq(Seg)
    BY <2>2 DEF Taken, EndOf
  <2>6. \/ f.type = "EPOCH_RESET" /\ req' = <<>> /\ sink' = sink
        \/ /\ f.type # "EPOCH_RESET" /\ Meaning(n + 1) = <<>>
           /\ UNCHANGED <<req, sink>>
        \/ /\ f.type # "EPOCH_RESET"
           /\ \E s \in Seg :
                 /\ Meaning(n + 1) = <<s>>
                 /\ \/ req' = Append(req, s) /\ sink' = sink
                    \/ req' = <<>> /\ sink' = sink \o Append(req, s)
    BY <1>1, <1>3, HandlersRead DEF f
  <2>7. CASE f.type = "EPOCH_RESET" /\ req' = <<>> /\ sink' = sink
    BY <1>0, <2>1, <2>4, <2>7, TakenNothing
  <2>8. CASE f.type # "EPOCH_RESET" /\ Meaning(n + 1) = <<>> /\ UNCHANGED <<req, sink>>
    <3>1. m2 = m
      BY <2>4, <2>5, <2>8
    <3> QED
      BY <2>1, <2>2, <2>8, <3>1
  <2>9. ASSUME f.type # "EPOCH_RESET", NEW s \in Seg, Meaning(n + 1) = <<s>>,
               \/ req' = Append(req, s) /\ sink' = sink
               \/ req' = <<>> /\ sink' = sink \o Append(req, s)
        PROVE  Taken(m2, req', sink')
    <3>1. m2 = m \o <<s>>
      BY <2>4, <2>9
    <3>2. /\ Taken(m \o <<s>>, Append(req, s), sink)
          /\ Taken(m \o <<s>>, <<>>, sink \o Append(req, s))
      BY <2>2, TakenNext
    <3> QED
      BY <2>9, <3>1, <3>2
  <2> QED
    BY <2>1, <2>6, <2>7, <2>8, <2>9
<1> QED
  BY <1>0, <1>2, <1>3, PeerSteps

\* What was taken, read as LatestDefinition reads it.
LEMMA TakenReads ==
    ASSUME NEW m, NEW r, NEW k, Taken(m, r, k)
    PROVE  /\ Len(m) - Len(r) \in 0..Len(k)
           /\ k \o r = SubSeq(k, 1, Len(k) - (Len(m) - Len(r))) \o m
<1> DEFINE w == k \o r
           c == Len(k) - (Len(m) - Len(r))
           u == SubSeq(k, 1, c)
           v == u \o m
<1>1. /\ m \in Seq(Seg) /\ r \in Seq(Seg) /\ k \in Seq(Seg) /\ w \in Seq(Seg)
      /\ Len(r) <= Len(m) /\ Len(m) <= Len(w)
      /\ Len(r) \in Nat /\ Len(m) \in Nat /\ Len(k) \in Nat
  BY DEF Taken, EndOf
<1>2. \A i \in 1..Len(m) : m[i] = w[Len(w) - Len(m) + i]
  BY DEF Taken, EndOf
<1>3. /\ Len(w) = Len(k) + Len(r)
      /\ \A i \in 1..Len(k) : w[i] = k[i]
  BY <1>1
<1>4. c \in 0..Len(k) /\ Len(w) - Len(m) = c /\ Len(m) - Len(r) \in 0..Len(k)
  BY <1>1, <1>3
<1> HIDE DEF c
<1>5. u \in Seq(Seg) /\ Len(u) = c /\ \A i \in 1..c : u[i] = k[i]
  BY <1>1, <1>4, SubSeqProperties
<1> HIDE DEF u
<1>6. /\ v \in Seq(Seg) /\ Len(v) = c + Len(m)
      /\ \A i \in 1..c : v[i] = u[i]
      /\ \A i \in 1..Len(m) : v[c + i] = m[i]
  <2>1. /\ v \in Seq(Seg) /\ Len(v) = c + Len(m)
        /\ \A i \in 1..c + Len(m) : v[i] = IF i <= c THEN u[i] ELSE m[i - c]
    BY <1>1, <1>5, ConcatProperties
  <2> HIDE DEF v
  <2>2. ASSUME NEW i \in 1..Len(m)
        PROVE  v[c + i] = m[i]
    <3>1. c + i \in 1..c + Len(m) /\ ~(c + i <= c) /\ (c + i) - c = i
      BY <1>1, <1>4
    <3> QED
      BY <2>1, <3>1
  <2>3. ASSUME NEW i \in 1..c
        PROVE  v[i] = u[i]
    <3>1. i \in 1..c + Len(m) /\ i <= c
      BY <1>1, <1>4
    <3> QED
      BY <2>1, <3>1
  <2> QED
    BY <2>1, <2>2, <2>3
<1> HIDE DEF v, w
<1>7. ASSUME NEW i \in 1..Len(w)
      PROVE  w[i] = v[i]
  <2>1. CASE i <= c
    <3>1. i \in 1..c /\ i \in 1..Len(k)
      BY <1>1, <1>4, <2>1
    <3> QED
      BY <1>3, <1>5, <1>6, <3>1
  <2>2. CASE ~(i <= c)
    <3> DEFINE j == i - c
    <3>1. j \in 1..Len(m) /\ c + j = i
      BY <1>1, <1>3, <1>4, <2>2
    <3> HIDE DEF j
    <3> QED
      BY <1>2, <1>4, <1>6, <3>1
  <2> QED
    BY <2>1, <2>2
<1>8. w = v
  BY <1>1, <1>3, <1>4, <1>6, <1>7, SeqEqual
<1> QED
  BY <1>4, <1>8 DEF w, v, u, c

\* Nothing was read and nothing taken at the start.
LEMMA ReadInvInit == PeerInit => ReadInv
<1> SUFFICES ASSUME PeerInit
             PROVE  ReadInv
  OBVIOUS
<1>1. rd = 0 /\ req = <<>> /\ sink = <<>>
  BY DEF PeerInit, WireInit, DecoderInit
<1>2. LastReset(0) = 0
  <2>1. {0} \cup {i \in 1..0 : frames[i].type = "EPOCH_RESET"} = {0}
    OBVIOUS
  <2>2. Max({0}) = 0
    BY MaxIs
  <2> QED
    BY <2>1, <2>2 DEF LastReset
<1>3. MeaningBetween(0, 0) = <<>>
  BY BetweenNext
<1>4. Taken(<<>>, <<>>, <<>>)
  <2>1. <<>> \in Seq(Seg)
    OBVIOUS
  <2> QED
    BY <2>1, TakenNothing
<1> QED
  BY <1>1, <1>2, <1>3, <1>4 DEF ReadInv

(***************************************************************************)
(* What the decoder delivered last and is gathering is what the frames     *)
(* since the last reset mean, each reference read with the latest          *)
(* definition of its id (decode_v1.go).                                    *)
(***************************************************************************)
THEOREM LatestDefinitionCounts == PeerSpec => []LatestDefinition
<1>1. PeerInit => PeerInv /\ ReadInv
  BY PeerInvInit, ReadInvInit
<1>2. PeerInv /\ ReadInv /\ [PeerNext]_peerVars => PeerInv' /\ ReadInv'
  BY PeerInvStep, ReadInvStep
<1>3. ReadInv => LatestDefinition
  <2> SUFFICES ASSUME Taken(MeaningBetween(LastReset(rd), rd), req, sink)
               PROVE  LET m == MeaningBetween(LastReset(rd), rd)
                          out == Len(m) - Len(req)
                      IN  /\ out \in 0..Len(sink)
                          /\ sink \o req = SubSeq(sink, 1, Len(sink) - out) \o m
    BY DEF ReadInv, LatestDefinition
  <2> QED
    BY TakenReads
<1> QED
  BY <1>1, <1>2, <1>3, PTL DEF PeerSpec
=============================================================================
