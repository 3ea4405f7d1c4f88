--------------------------- MODULE RequestProofs ---------------------------
(***************************************************************************)
(* Proofs about whole requests and their cost: what encoding adds to the   *)
(* traffic, that the decoder finds the end of every request, and that a    *)
(* pair of nodes is a pipe for requests.                                   *)
(***************************************************************************)
EXTENDS DuplexProofs

-----------------------------------------------------------------------------
(***************************************************************************)
(* What encoding costs (encode_v1.go, "REF if profitable").                *)
(***************************************************************************)
TruthLens == [i \in DOMAIN truth |-> SegLen(truth[i])]

DefineLen(f) == IF f.type = "TEMPLATE_DEFINE" THEN DefinePayloadLen(f.pat) ELSE 0

DefineSum(fs) == SumFunctionOnSet([j \in DOMAIN fs |-> DefineLen(fs[j])], DOMAIN fs)

\* DefineBytes is DefineSum of the stream.
LEMMA DefineBytesIs == DefineBytes = DefineSum(frames)
BY DEF DefineBytes, SumFunction, DefineSum, DefineLen

LEMMA SentBytesIs == SentBytes = SumFunctionOnSet(TruthLens, 1..Sent)
BY DEF SentBytes, TruthLens, Sent

\* The segments of truth have lengths that can be added up.
LEMMA TruthCounts ==
    ASSUME truth \in Seq(Seg)
    PROVE  /\ Counts(TruthLens, 1..Len(truth))
           /\ \A i \in 1..Len(truth) : TruthLens[i] = SegLen(truth[i])
<1>1. DOMAIN truth = 1..Len(truth)
  OBVIOUS
<1>2. \A i \in 1..Len(truth) : truth[i] \in Seg
  OBVIOUS
<1> QED
  BY <1>1, <1>2, SegLenType DEF TruthLens, Counts

LEMMA DefineLenType ==
    ASSUME NEW f \in Frame
    PROVE  DefineLen(f) \in Nat
<1>1. CASE f.type = "TEMPLATE_DEFINE"
  <2>1. f.pat \in Patterns
    BY <1>1 DEF Frame
  <2>2. PatLen[f.pat] \in Nat
    BY <2>1, PartLenType
  <2> QED
    BY <1>1, <2>2 DEF DefineLen, DefinePayloadLen
<1>2. CASE f.type # "TEMPLATE_DEFINE"
  BY <1>2 DEF DefineLen
<1> QED
  BY <1>1, <1>2

\* A frame more on the stream.
LEMMA DefineSumNext ==
    ASSUME NEW fs \in Seq(Frame), NEW f \in Frame
    PROVE  /\ DefineSum(Append(fs, f)) = DefineSum(fs) + DefineLen(f)
           /\ DefineSum(fs) \in Nat
<1> DEFINE gs == Append(fs, f)
           F == [j \in DOMAIN fs |-> DefineLen(fs[j])]
           G == [j \in DOMAIN gs |-> DefineLen(gs[j])]
           n == Len(fs)
           S == 1..n
<1>1. /\ gs \in Seq(Frame) /\ Len(gs) = n + 1 /\ n \in Nat
      /\ \A j \in 1..n : gs[j] = fs[j]
      /\ gs[n + 1] = f
  BY AppendProperties
<1>2. DOMAIN fs = S /\ DOMAIN gs = 1..n + 1
  BY <1>1
<1> HIDE DEF gs
<1>3. S \cup {n + 1} = 1..n + 1 /\ n + 1 \notin S
  BY <1>1
<1>4. IsFiniteSet(S)
  BY <1>1, FS_Interval
<1>5. Counts(F, S)
  <2>1. \A j \in S : fs[j] \in Frame
    OBVIOUS
  <2> QED
    BY <1>2, <2>1, DefineLenType DEF Counts
<1>6. \A j \in S : F[j] = G[j]
  BY <1>1, <1>2, <1>3
<1>7. G[n + 1] = DefineLen(f) /\ DefineLen(f) \in Nat
  BY <1>1, <1>2, DefineLenType
<1>8. Counts(G, S)
  BY <1>5, <1>6 DEF Counts
<1> HIDE DEF F, G, S
<1>9. SumFunctionOnSet(F, S) = SumFunctionOnSet(G, S) /\ SumFunctionOnSet(F, S) \in Nat
  BY <1>4, <1>5, <1>6, SumSame, SumType
<1>10. SumFunctionOnSet(G, S \cup {n + 1}) = SumFunctionOnSet(G, S) + G[n + 1]
  BY <1>3, <1>4, <1>7, <1>8, SumAdd
<1>11. DefineSum(fs) = SumFunctionOnSet(F, S)
  BY <1>2 DEF DefineSum, F
<1>12. DefineSum(gs) = SumFunctionOnSet(G, S \cup {n + 1})
  BY <1>2, <1>3 DEF DefineSum, G
<1> QED
  BY <1>7, <1>9, <1>10, <1>11, <1>12 DEF gs

\* One segment more on the stream, or a longer truth behind it.
LEMMA SentBytesNext ==
    ASSUME truth \in Seq(Seg), truth' = truth, NEW n \in Nat, n + 1 <= Len(truth),
           Sent = n, Sent' = n + 1
    PROVE  SentBytes' = SentBytes + SegLen(truth[n + 1]) /\ SentBytes \in Nat
<1>1. Counts(TruthLens, 1..Len(truth)) /\ TruthLens[n + 1] = SegLen(truth[n + 1])
  BY TruthCounts
<1>2. Counts(TruthLens, 1..n + 1)
  BY <1>1 DEF Counts
<1>3. TruthLens' = TruthLens
  BY DEF TruthLens, SegLen
<1>4. SentBytes = SumFunctionOnSet(TruthLens, 1..n)
  BY SentBytesIs
<1>5. SentBytes' = SumFunctionOnSet(TruthLens', 1..Sent')
  BY DEF SentBytes, TruthLens, Sent
<1>6. /\ SumFunctionOnSet(TruthLens, 1..n + 1) =
            SumFunctionOnSet(TruthLens, 1..n) + TruthLens[n + 1]
      /\ SumFunctionOnSet(TruthLens, 1..n) \in Nat
  BY <1>2, SumNext
<1> HIDE DEF TruthLens
<1> QED
  BY <1>1, <1>3, <1>4, <1>5, <1>6

LEMMA SentBytesSame ==
    ASSUME truth \in Seq(Seg), truth' \in Seq(Seg), NEW n \in Nat, n <= Len(truth),
           n <= Len(truth'), Sent = n, Sent' = n,
           \A i \in 1..Len(truth) : truth'[i] = truth[i]
    PROVE  SentBytes' = SentBytes
<1> DEFINE T == TruthLens
           U == TruthLens'
           S == 1..n
<1>1. Counts(T, 1..Len(truth)) /\ \A i \in 1..Len(truth) : T[i] = SegLen(truth[i])
  BY TruthCounts
<1>2. \A i \in 1..Len(truth') : U[i] = SegLen(truth'[i])
  BY DEF TruthLens, SegLen
<1>3. IsFiniteSet(S)
  BY FS_Interval
<1>4. Counts(T, S) /\ \A i \in S : T[i] = U[i]
  BY <1>1, <1>2 DEF Counts
<1>5. SentBytes = SumFunctionOnSet(T, S)
  BY SentBytesIs
<1>6. SentBytes' = SumFunctionOnSet(U, S)
  BY DEF SentBytes, TruthLens, Sent
<1> HIDE DEF T, U, S
<1>7. SumFunctionOnSet(T, S) = SumFunctionOnSet(U, S)
  BY <1>3, <1>4, SumSame
<1> QED
  BY <1>5, <1>6, <1>7

\* A reference is sent only if it is shorter than what it stands for.
LEMMA RefOrRawShort ==
    ASSUME NEW s \in Seg, Candidate(s)
    PROVE  /\ RefOrRawLen(s) \in Nat /\ RefOrRawLen(s) <= SegLen(s) /\ SegLen(s) \in Nat
           /\ RefOrRaw(s) \in Frame /\ RefOrRaw(s).type \in DataTypes
<1>1. SegLen(s) \in Nat /\ s.pat \in Patterns /\ s.lane \in Lanes
  BY SegLenType DEF Candidate, Seg
<1>2. TemplateID[s.pat] \in Ids /\ RefPayloadLen(s.lane) \in Nat
  BY <1>1, PatternsAssumption, PartLenType DEF RefPayloadLen
<1>3. RefOrRawLen(s) \in Nat /\ RefOrRawLen(s) <= SegLen(s)
  BY <1>1, <1>2 DEF RefOrRawLen, RefPays
<1>4. RefOrRaw(s) \in Frame
  BY <1>1, <1>2, FrameTypes DEF RefOrRaw
<1>5. RefOrRaw(s).type \in DataTypes
  BY DEF RefOrRaw, RawData, TemplateRef, DataTypes
<1> QED
  BY <1>1, <1>3, <1>4, <1>5

\* The account of one call of writeFrameCount.
LEMMA WriteCost ==
    ASSUME NEW announce, NEW sizeAnnounce, NEW data, NEW sizeData,
           writeFrameCount(announce, sizeAnnounce, data, sizeData)
    PROVE  \/ /\ More(announce, data)
              /\ wireOut' = wireOut + sizeAnnounce + HeaderSizeBytes + sizeData
              /\ encStatus' = encStatus
           \/ encStatus' = "failed"
BY Zenon DEF writeFrameCount, More

\* What a segment costs: a frame header and no more than its own length, and a
\* definition when it is the first of its template.
LEMMA EmitCost ==
    ASSUME EncoderTypeOK, Emit, encStatus' # "failed"
    PROVE  \E data \in Frame :
              /\ data.type \in DataTypes
              /\ encStatus' = encStatus
              /\ \/ /\ More(<<>>, data)
                    /\ wireOut' <= wireOut + HeaderSizeBytes + SegLen(Next1)
                 \/ \E def \in Frame :
                      /\ def.type = "TEMPLATE_DEFINE"
                      /\ More(<<def>>, data)
                      /\ wireOut' <= wireOut + 2 * HeaderSizeBytes
                                       + DefineLen(def) + SegLen(Next1)
<1>0. todo # <<>> /\ wireOut \in Nat /\ HeaderSizeBytes \in Nat
  BY EmitCases DEF EncoderTypeOK, HeaderSizeBytes
<1>1. Next1 \in Seg /\ SegLen(Next1) \in Nat /\ RawData(Next1) \in Frame
  BY <1>0, NextType, SegLenType, FrameTypes
<1>2. CASE writeRaw(Next1)
  <2>1. /\ More(<<>>, RawData(Next1)) /\ encStatus' = encStatus
        /\ wireOut' = wireOut + 0 + HeaderSizeBytes + SegLen(Next1)
    BY <1>2, WriteCost DEF writeRaw
  <2>2. RawData(Next1).type \in DataTypes
    BY DEF RawData, DataTypes
  <2>3. wireOut' <= wireOut + HeaderSizeBytes + SegLen(Next1)
    BY <1>0, <1>1, <2>1
  <2> QED
    BY <1>1, <2>1, <2>2, <2>3
<1>3. CASE EmitDefined
  <2>1. Candidate(Next1) /\ writeFrameCount(<<>>, 0, RefOrRaw(Next1), RefOrRawLen(Next1))
    BY <1>3 DEF EmitDefined, Next1
  <2>2. /\ More(<<>>, RefOrRaw(Next1)) /\ encStatus' = encStatus
        /\ wireOut' = wireOut + 0 + HeaderSizeBytes + RefOrRawLen(Next1)
    BY <2>1, WriteCost
  <2>3. /\ RefOrRawLen(Next1) \in Nat /\ RefOrRawLen(Next1) <= SegLen(Next1)
        /\ RefOrRaw(Next1) \in Frame /\ RefOrRaw(Next1).type \in DataTypes
    BY <1>1, <2>1, RefOrRawShort
  <2>4. wireOut' <= wireOut + HeaderSizeBytes + SegLen(Next1)
    BY <1>0, <1>1, <2>2, <2>3
  <2> QED
    BY <2>2, <2>3, <2>4
<1>4. CASE EmitDefine
  <2> DEFINE def == TemplateDefine(NextId, Next1.pat)
  <2>1. /\ Candidate(Next1)
        /\ writeFrameCount(<<def>>, HeaderSizeBytes + DefinePayloadLen(Next1.pat),
                           RefOrRaw(Next1), RefOrRawLen(Next1))
    BY <1>4 DEF EmitDefine, Next1, NextId
  <2>2. /\ More(<<def>>, RefOrRaw(Next1)) /\ encStatus' = encStatus
        /\ wireOut' = wireOut + (HeaderSizeBytes + DefinePayloadLen(Next1.pat))
                        + HeaderSizeBytes + RefOrRawLen(Next1)
    BY <2>1, WriteCost
  <2>3. /\ RefOrRawLen(Next1) \in Nat /\ RefOrRawLen(Next1) <= SegLen(Next1)
        /\ RefOrRaw(Next1) \in Frame /\ RefOrRaw(Next1).type \in DataTypes
    BY <1>1, <2>1, RefOrRawShort
  <2>4. Next1.pat \in Patterns /\ NextId \in Ids
    BY <1>0, <1>1, <2>1, NextType DEF Candidate, Seg
  <2>5. def \in Frame /\ def.type = "TEMPLATE_DEFINE" /\ def.pat = Next1.pat
    BY <2>4, FrameTypes DEF TemplateDefine
  <2>6. DefineLen(def) = DefinePayloadLen(Next1.pat) /\ DefineLen(def) \in Nat
    BY <2>5, DefineLenType DEF DefineLen
  <2> HIDE DEF def
  <2>7. wireOut' <= wireOut + 2 * HeaderSizeBytes + DefineLen(def) + SegLen(Next1)
    BY <1>0, <1>1, <2>2, <2>3, <2>6
  <2> QED
    BY <2>2, <2>3, <2>5, <2>7
<1> QED
  BY <1>2, <1>3, <1>4 DEF Emit, EmitPlain, EmitUnpromoted, Next1

\* Sending keeps the bound: the new frame, or the two new frames, are paid for
\* by the segment they carry, their headers and the definition.
LEMMA EmitCostBound ==
    ASSUME StreamInv, CostBound, Emit
    PROVE  CostBound'
<1>0. TypeOK /\ MarkInv /\ TodoInv /\ EncoderTypeOK /\ todo # <<>>
  BY EmitCases DEF StreamInv, TypeOK
<1>1. SUFFICES ASSUME encStatus' # "failed" PROVE CostBound'
  BY DEF CostBound
<1>2. PICK data \in Frame :
              /\ data.type \in DataTypes
              /\ encStatus' = encStatus
              /\ \/ /\ More(<<>>, data)
                    /\ wireOut' <= wireOut + HeaderSizeBytes + SegLen(Next1)
                 \/ \E def \in Frame :
                      /\ def.type = "TEMPLATE_DEFINE"
                      /\ More(<<def>>, data)
                      /\ wireOut' <= wireOut + 2 * HeaderSizeBytes
                                       + DefineLen(def) + SegLen(Next1)
  BY <1>0, <1>1, EmitCost
<1>3. /\ Sent \in Nat /\ Sent + 1 \in 1..Len(truth) /\ Len(truth) \in Nat
      /\ truth[Sent + 1] = Next1 /\ Next1 \in Seg /\ SegLen(Next1) \in Nat
  BY <1>0, SentType, NextType, SegLenType
<1>4. /\ frames \in Seq(Frame) /\ truth \in Seq(Seg) /\ wireOut \in Nat
      /\ Len(frames) \in Nat /\ HeaderSizeBytes \in Nat /\ HeaderSizeBytes = 8
  BY <1>0 DEF TypeOK, WireTypeOK, EncoderTypeOK, HeaderSizeBytes
<1>5. wireOut <= SentBytes + DefineBytes + HeaderSizeBytes * Len(frames) /\ wireOut' \in Nat
  BY <1>0, <1>1, <1>2, EmitCounterType DEF CostBound, TypeOK
<1>6. ASSUME truth' = truth, Sent' = Sent + 1
      PROVE  SentBytes' = SentBytes + SegLen(Next1) /\ SentBytes \in Nat
  BY <1>3, <1>4, <1>6, SentBytesNext
<1>7. DefineLen(data) = 0
  BY <1>2 DEF DefineLen, DataTypes
<1>8. DefineBytes = DefineSum(frames) /\ DefineBytes' = DefineSum(frames')
  BY DefineBytesIs DEF DefineBytes, SumFunction, DefineSum, DefineLen
<1>9. CASE /\ More(<<>>, data)
           /\ wireOut' <= wireOut + HeaderSizeBytes + SegLen(Next1)
  <2>1. /\ Len(frames') = Len(frames) + 1
        /\ mark'[Len(frames) + 1] = Sent + 1
    BY <1>0, <1>2, <1>9, OneMore
  <2>2. Sent' = Sent + 1 /\ truth' = truth
    <3>1. Len(frames') # 0 /\ truth' = truth
      BY <1>4, <1>9, <2>1 DEF More
    <3> QED
      BY <2>1, <3>1 DEF Sent, Carried
  <2>3. frames' = Append(frames, data)
    <3>1. frames \o <<>> = frames
      BY <1>4, ConcatEmptySeq
    <3> QED
      BY <1>9, <3>1 DEF More
  <2>4. DefineBytes' = DefineBytes + 0 /\ DefineBytes \in Nat
    BY <1>4, <1>7, <1>8, <2>3, DefineSumNext
  <2>5. SentBytes' = SentBytes + SegLen(Next1) /\ SentBytes \in Nat
    BY <1>6, <2>2
  <2>6. wireOut' <= SentBytes' + DefineBytes' + HeaderSizeBytes * Len(frames')
    <3>1. wireOut' <= wireOut + 8 + SegLen(Next1)
      BY <1>9 DEF HeaderSizeBytes
    <3>2. wireOut <= SentBytes + DefineBytes + 8 * Len(frames)
      BY <1>5 DEF HeaderSizeBytes
    <3>3. /\ wireOut \in Nat /\ wireOut' \in Nat /\ SegLen(Next1) \in Nat
          /\ Len(frames) \in Nat /\ Len(frames') = Len(frames) + 1
      BY <1>3, <1>4, <1>5, <2>1
    <3>4. \A w, v, b, d, n, x \in Nat :
             (v <= w + 8 + x /\ w <= b + d + 8 * n) => v <= (b + x) + (d + 0) + 8 * (n + 1)
      OBVIOUS
    <3>5. wireOut' <= (SentBytes + SegLen(Next1)) + (DefineBytes + 0) + 8 * (Len(frames) + 1)
      BY ONLY <2>4, <2>5, <3>1, <3>2, <3>3, <3>4
    <3> QED
      BY <2>4, <2>5, <3>3, <3>5 DEF HeaderSizeBytes
  <2> QED
    BY <2>6 DEF CostBound, HeaderSizeBytes
<1>10. ASSUME NEW def \in Frame, def.type = "TEMPLATE_DEFINE", More(<<def>>, data),
              wireOut' <= wireOut + 2 * HeaderSizeBytes + DefineLen(def) + SegLen(Next1)
       PROVE  CostBound'
  <2>1. /\ Len(frames') = Len(frames) + 2
        /\ mark'[Len(frames) + 2] = Sent + 1
    BY <1>0, <1>2, <1>10, TwoMore
  <2>2. Sent' = Sent + 1 /\ truth' = truth
    <3>1. Len(frames') # 0 /\ truth' = truth
      BY <1>4, <1>10, <2>1 DEF More
    <3> QED
      BY <2>1, <3>1 DEF Sent, Carried
  <2>3. frames' = Append(Append(frames, def), data) /\ Append(frames, def) \in Seq(Frame)
    BY <1>4, <1>10, AppendIsConcat, AppendProperties DEF More
  <2>4. /\ DefineSum(Append(frames, def)) = DefineSum(frames) + DefineLen(def)
        /\ DefineSum(frames) \in Nat /\ DefineLen(def) \in Nat
    BY <1>4, DefineSumNext, DefineLenType
  <2>5. DefineSum(Append(Append(frames, def), data)) = DefineSum(Append(frames, def)) + DefineLen(data)
    BY <2>3, DefineSumNext
  <2>6. DefineBytes' = DefineBytes + DefineLen(def) /\ DefineBytes \in Nat
    BY <1>7, <1>8, <2>3, <2>4, <2>5
  <2>7. SentBytes' = SentBytes + SegLen(Next1) /\ SentBytes \in Nat
    BY <1>6, <2>2
  <2>8. wireOut' <= SentBytes' + DefineBytes' + HeaderSizeBytes * Len(frames')
    <3>1. wireOut' <= wireOut + 16 + DefineLen(def) + SegLen(Next1)
      BY <1>10 DEF HeaderSizeBytes
    <3>2. wireOut <= SentBytes + DefineBytes + 8 * Len(frames)
      BY <1>5 DEF HeaderSizeBytes
    <3>3. /\ wireOut \in Nat /\ wireOut' \in Nat /\ SegLen(Next1) \in Nat
          /\ DefineLen(def) \in Nat /\ Len(frames) \in Nat /\ Len(frames') = Len(frames) + 2
      BY <1>3, <1>4, <1>5, <2>1, <2>4
    <3>4. wireOut' <= SentBytes' + DefineBytes' + 8 * Len(frames')
      <4>1. \A w, v, s, d, n, x, y \in Nat :
               (v <= w + 16 + y + x /\ w <= s + d + 8 * n) =>
                   v <= (s + x) + (d + y) + 8 * (n + 2)
        OBVIOUS
      <4>2. wireOut' <= (SentBytes + SegLen(Next1)) + (DefineBytes + DefineLen(def))
                          + 8 * (Len(frames) + 2)
        BY ONLY <2>6, <2>7, <3>1, <3>2, <3>3, <4>1
      <4> QED
        BY <2>6, <2>7, <3>3, <4>2
    <3> QED
      BY <3>4 DEF HeaderSizeBytes
  <2> QED
    BY <2>8 DEF CostBound, HeaderSizeBytes
<1> QED
  BY <1>2, <1>9, <1>10

\* What else happens leaves the account of the encoder as it is, and truth only
\* grows at its end.
LEMMA CostBoundStep ==
    ASSUME StreamInv, CostBound, [Next]_vars
    PROVE  CostBound'
<1>0. StreamInv'
  BY StreamInvStep
<1>1. /\ truth \in Seq(Seg) /\ truth' \in Seq(Seg) /\ Len(frames) \in Nat
      /\ Sent \in Nat /\ Sent <= Len(truth) /\ Len(truth) \in Nat /\ Len(truth') \in Nat
  <2>1. truth \in Seq(Seg) /\ truth' \in Seq(Seg) /\ Len(frames) \in Nat
    BY <1>0 DEF StreamInv, TypeOK, WireTypeOK
  <2>2. Sent \in Nat /\ Sent + Len(todo) = Len(truth) /\ Len(todo) \in Nat
    BY SentType DEF StreamInv, TypeOK, EncoderTypeOK, TodoInv
  <2> QED
    BY <2>1, <2>2
<1>2. ASSUME UNCHANGED <<frames, mark, wireOut>>, encStatus' # "failed" => encStatus # "failed",
             Len(truth') >= Len(truth), \A i \in 1..Len(truth) : truth'[i] = truth[i]
      PROVE  CostBound'
  <2>1. Sent' = Sent
    BY <1>2 DEF Sent, Carried
  <2>2. SentBytes' = SentBytes
    BY <1>1, <1>2, <2>1, SentBytesSame
  <2>3. DefineBytes' = DefineBytes
    BY <1>2 DEF DefineBytes, SumFunction
  <2> QED
    BY <1>2, <2>2, <2>3 DEF CostBound, HeaderSizeBytes
<1>3. CASE EncoderStep
  <2>1. Len(truth') >= Len(truth) /\ \A i \in 1..Len(truth) : truth'[i] = truth[i]
    BY <1>3, EncoderPrefix
  <2>2. CASE \E r \in Requests : Accept(r)
    BY <1>2, <2>1, <2>2 DEF Accept
  <2>3. CASE SourceEnd
    BY <1>2, <2>1, <2>3 DEF SourceEnd, wireVars
  <2>4. CASE Emit
    BY <2>4, EmitCostBound
  <2> QED
    BY <1>3, <2>2, <2>3, <2>4 DEF EncoderStep, EncoderNext
<1>4. CASE DecoderStep
  <2>1. UNCHANGED <<frames, mark, truth, wireOut, encStatus>>
    BY <1>4, DecoderCut DEF StreamInv, DecoderStep, encVars
  <2> QED
    BY <1>1, <1>2, <2>1
<1>5. CASE Break \/ DecoderHangUp
  BY <1>1, <1>2, <1>5 DEF Break, Sever, DecoderHangUp, encVars
<1>6. CASE UNCHANGED vars
  BY <1>1, <1>2, <1>6 DEF vars, wireVars, encVars
<1> QED
  BY <1>3, <1>4, <1>5, <1>6 DEF Next

LEMMA CostBoundInit == Init => CostBound
<1>1. SUFFICES ASSUME Init PROVE CostBound
  OBVIOUS
<1>2. frames = <<>> /\ wireOut = 0 /\ truth = <<>>
  BY <1>1 DEF Init, LaneInit, WireInit, EncoderInit
<1>3. Sent = 0 /\ 1..0 = {} /\ DOMAIN frames = {} /\ Len(frames) = 0
  BY <1>2 DEF Sent, Carried
<1>4. SentBytes = 0
  BY <1>3, SentBytesIs, SumEmpty
<1>5. DefineBytes = 0
  BY <1>3, DefineBytesIs, SumEmpty DEF DefineSum
<1> QED
  BY <1>2, <1>3, <1>4, <1>5 DEF CostBound, HeaderSizeBytes

\* As long as no write has failed, the traffic is no longer than the segments
\* sent, the definitions and one header per frame, whatever the patterns and
\* the requests: a reference never costs more than the span it replaces.
THEOREM CostKept == Spec => []CostBound
BY StreamInvInit, StreamInvStep, CostBoundInit, CostBoundStep, PTL DEF Spec

-----------------------------------------------------------------------------
(***************************************************************************)
(* The text of a header, line by line (decode_v1.go, feed and              *)
(* parseContentLengthFromHeaderString).                                    *)
(***************************************************************************)
\* Where a text holds a CRLF, up to the seam and behind it.
LEMMA CrlfParts ==
    ASSUME NEW t \in Text, NEW l \in Text
    PROVE  /\ \A i \in Int : i <= Len(t) => (CrlfAt(t \o l, i) <=> CrlfAt(t, i))
           /\ \A i \in Int : i >= Len(t) + 2 => (CrlfAt(t \o l, i) <=> CrlfAt(l, i - Len(t)))
<1> DEFINE u == t \o l
           n == Len(t)
           m == Len(l)
<1>1. /\ n \in Nat /\ m \in Nat /\ Len(u) = n + m
      /\ \A i \in 1..n : u[i] = t[i]
      /\ \A i \in 1..m : u[n + i] = l[i]
  BY TextParts
<1> HIDE DEF u, n, m
<1>2. ASSUME NEW i \in Int, i <= n PROVE CrlfAt(u, i) <=> CrlfAt(t, i)
  <2>1. i \in 2..Len(u) <=> i \in 2..n
    BY <1>1, <1>2
  <2>2. i \in 2..n => i \in 1..n /\ i - 1 \in 1..n
    BY <1>1
  <2> QED
    BY <1>1, <2>1, <2>2 DEF CrlfAt, n
<1>3. ASSUME NEW i \in Int, i >= n + 2 PROVE CrlfAt(u, i) <=> CrlfAt(l, i - n)
  <2>1. PICK k \in Int : k = i - n
    BY <1>1
  <2>2. i = n + k /\ i - 1 = n + (k - 1) /\ k >= 2
    BY <1>1, <1>3, <2>1
  <2>3. i \in 2..Len(u) <=> k \in 2..m
    BY <1>1, <2>2
  <2>4. k \in 2..m => k \in 1..m /\ k - 1 \in 1..m
    BY <1>1
  <2>5. k \in 2..m => u[i] = l[k] /\ u[i - 1] = l[k - 1]
    BY <1>1, <2>2, <2>4
  <2>6. CrlfAt(u, i) <=> CrlfAt(l, k)
    BY <2>3, <2>5 DEF CrlfAt, m
  <2> QED
    BY <2>1, <2>6
<1> QED
  BY <1>2, <1>3 DEF u, n

\* A CR is no LF: two CRLF do not overlap.
LEMMA CrlfApart == \A t : \A i \in Int : CrlfAt(t, i) => ~CrlfAt(t, i + 1) /\ ~CrlfAt(t, i - 1)
<1>1. Crlf[1] # Crlf[2]
  BY DEF Crlf
<1>2. \A i \in Int : (i + 1) - 1 = i
  OBVIOUS
<1> QED
  BY <1>1, <1>2 DEF CrlfAt

\* The text is empty, or its last line is complete.
Whole(t) == t = <<>> \/ CrlfAt(t, Len(t))

\* One CRLF, at the end.
IsLine(l) == /\ l \in Text /\ Len(l) >= 2 /\ CrlfAt(l, Len(l))
             /\ \A i \in 1..Len(l) - 1 : ~CrlfAt(l, i)

\* One line more is one CRLF more.
LEMMA LineCrlf ==
    ASSUME NEW t \in Text, Whole(t), NEW l, IsLine(l)
    PROVE  \A i \in Int : CrlfAt(t \o l, i) <=> CrlfAt(t, i) \/ i = Len(t) + Len(l)
<1> DEFINE u == t \o l
           n == Len(t)
           m == Len(l)
<1>1. l \in Text /\ m >= 2 /\ CrlfAt(l, m) /\ \A i \in 1..m - 1 : ~CrlfAt(l, i)
  BY DEF IsLine
<1>2. n \in Nat /\ m \in Nat /\ Len(u) = n + m
  BY <1>1, TextParts
<1>3. SUFFICES ASSUME NEW i \in Int PROVE CrlfAt(u, i) <=> CrlfAt(t, i) \/ i = n + m
  OBVIOUS
<1>4. /\ i <= n => (CrlfAt(u, i) <=> CrlfAt(t, i))
      /\ i >= n + 2 => (CrlfAt(u, i) <=> CrlfAt(l, i - n))
  BY <1>1, CrlfParts
<1>5. CrlfAt(t, i) => i \in 2..n
  BY DEF CrlfAt, n
<1>50. CrlfAt(l, i - n) => i - n \in 2..m
  BY DEF CrlfAt, m
<1> HIDE DEF u, m, n
<1>6. CASE i <= n
  BY <1>1, <1>2, <1>4, <1>6
<1>7. CASE i >= n + 2
  <2>1. PICK k \in Int : k = i - n
    BY <1>2
  <2>2. CrlfAt(u, i) <=> CrlfAt(l, k)
    BY <1>4, <1>7, <2>1
  <2>3. CrlfAt(l, k) <=> k = m
    <3>1. k \in 2..m /\ k # m => k \in 1..m - 1
      BY <1>2
    <3> QED
      BY <1>1, <1>50, <2>1, <3>1
  <2>4. k = m <=> i = n + m
    BY <1>2, <2>1
  <2>5. ~(i \in 2..n)
    BY <1>2, <1>7
  <2> QED
    BY <1>5, <2>2, <2>3, <2>4, <2>5
<1>8. CASE i = n + 1
  <2>1. ~CrlfAt(u, i)
    <3>1. CASE n = 0
      BY <1>2, <1>8, <3>1 DEF CrlfAt
    <3>2. CASE n # 0
      <4>1. CrlfAt(t, n)
        BY <1>2, <3>2 DEF Whole, n
      <4>2. CrlfAt(u, n)
        BY <1>1, <1>2, <4>1, CrlfParts DEF u, n
      <4> QED
        BY <1>2, <1>8, <4>2, CrlfApart
    <3> QED
      BY <3>1, <3>2
  <2>2. ~(i \in 2..n) /\ i # n + m
    BY <1>1, <1>2, <1>8
  <2> QED
    BY <1>5, <2>1, <2>2
<1>9. i <= n \/ i >= n + 2 \/ i = n + 1
  BY <1>2
<1> QED
  BY <1>6, <1>7, <1>8, <1>9

LEMMA LineWhole ==
    ASSUME NEW t \in Text, Whole(t), NEW l, IsLine(l)
    PROVE  /\ Whole(t \o l) /\ t \o l \in Text /\ Len(t \o l) = Len(t) + Len(l)
           /\ Len(t) \in Nat /\ Len(l) \in Nat /\ Len(l) >= 2
<1>1. l \in Text /\ Len(l) >= 2
  BY DEF IsLine
<1>2. t \o l \in Text /\ Len(t \o l) = Len(t) + Len(l) /\ Len(t) \in Nat /\ Len(l) \in Nat
  BY <1>1, TextParts
<1>3. CrlfAt(t \o l, Len(t) + Len(l))
  BY <1>2, LineCrlf
<1> QED
  BY <1>1, <1>2, <1>3 DEF Whole

\* The bytes that follow do not change where the header ended, nor what it is.
LEMMA HeaderStays ==
    ASSUME NEW t \in Text, NEW l \in Text, HeaderLen(t) > 0
    PROVE  /\ HeaderLen(t \o l) = HeaderLen(t)
           /\ SubSeq(t \o l, 1, HeaderLen(t)) = SubSeq(t, 1, HeaderLen(t))
<1> DEFINE u == t \o l
           e == HeaderLen(t)
           f == HeaderLen(u)
<1>1. /\ u \in Text /\ Len(t) \in Nat /\ Len(l) \in Nat
      /\ Len(u) = Len(t) + Len(l)
      /\ \A i \in 1..Len(t) : u[i] = t[i]
  BY TextParts
<1>2. e \in 1..Len(t) /\ HeaderEndsAt(t, e)
      /\ \A i \in Int : HeaderEndsAt(t, i) => e <= i
  BY <1>1, HeaderLenIs
<1>3. f \in 0..Len(u) /\ (f > 0 => HeaderEndsAt(u, f))
      /\ \A i \in Int : HeaderEndsAt(u, i) => f > 0 /\ f <= i
  BY <1>1, HeaderLenIs
<1>4. \A i \in Int : i <= Len(t) => (HeaderEndsAt(u, i) <=> HeaderEndsAt(t, i))
  <2>1. ASSUME NEW i \in Int, i <= Len(t) PROVE HeaderEndsAt(u, i) <=> HeaderEndsAt(t, i)
    <3>1. i - 2 \in Int /\ i - 2 <= Len(t)
      BY <1>1, <2>1
    <3> QED
      BY <2>1, <3>1, CrlfParts DEF HeaderEndsAt
  <2> QED
    BY <2>1
<1> HIDE DEF u, e, f
<1>5. f > 0 /\ f <= e
  BY <1>1, <1>2, <1>3, <1>4
<1>6. f = e
  <2>1. f \in Int /\ f <= Len(t)
    BY <1>1, <1>2, <1>3, <1>5
  <2> QED
    BY <1>2, <1>3, <1>4, <1>5, <2>1
<1>7. SubSeq(u, 1, e) = SubSeq(t, 1, e)
  BY <1>1, <1>2 DEF Text
<1> QED
  BY <1>6, <1>7 DEF u, e, f

\* A line that is not blank does not end the header; the blank one does.
LEMMA LineEndsHeader ==
    ASSUME NEW t \in Text, Whole(t), HeaderLen(t) = 0, NEW l, IsLine(l)
    PROVE  /\ Len(l) > 2 => HeaderLen(t \o l) = 0
           /\ (Len(l) = 2 /\ t # <<>>) => HeaderLen(t \o l) = Len(t) + 2
<1> DEFINE u == t \o l
           n == Len(t)
           m == Len(l)
           f == HeaderLen(u)
<1>1. u \in Text /\ Len(u) = n + m /\ n \in Nat /\ m \in Nat /\ m >= 2
  BY LineWhole
<1>2. \A i \in Int : CrlfAt(u, i) <=> CrlfAt(t, i) \/ i = n + m
  BY LineCrlf
<1>3. \A i \in Int : ~HeaderEndsAt(t, i)
  BY HeaderLenIs
<1>4. /\ f \in 0..Len(u)
      /\ f > 0 => HeaderEndsAt(u, f)
      /\ \A i \in Int : HeaderEndsAt(u, i) => f > 0 /\ f <= i
  BY <1>1, HeaderLenIs
<1>5. \A i \in Int : CrlfAt(t, i) => i \in 2..n
  BY DEF CrlfAt
<1>6. t # <<>> => CrlfAt(t, n)
  BY DEF Whole
<1> HIDE DEF u, n, m, f
<1>7. ASSUME NEW i \in Int, HeaderEndsAt(u, i) PROVE i = n + m /\ m = 2
  <2>0. i - 2 \in Int
    OBVIOUS
  <2>1. (CrlfAt(t, i) \/ i = n + m) /\ (CrlfAt(t, i - 2) \/ i - 2 = n + m)
    BY <1>2, <1>7, <2>0 DEF HeaderEndsAt
  <2>2. ~(CrlfAt(t, i) /\ CrlfAt(t, i - 2))
    BY <1>3 DEF HeaderEndsAt
  <2>3. CASE CrlfAt(t, i)
    <3>1. i - 2 = n + m /\ i \in 2..n
      BY <1>5, <2>1, <2>2, <2>3
    <3> QED
      BY <1>1, <3>1
  <2>4. CASE i = n + m
    <3>1. CrlfAt(t, i - 2)
      BY <1>1, <2>1, <2>4
    <3>2. i - 2 \in 2..n
      BY <1>5, <2>0, <3>1
    <3> QED
      BY <1>1, <2>4, <3>2
  <2> QED
    BY <2>1, <2>3, <2>4
<1>8. ASSUME m > 2 PROVE f = 0
  <2>1. ~(f > 0)
    BY <1>1, <1>4, <1>7, <1>8
  <2> QED
    BY <1>1, <1>4, <2>1
<1>9. ASSUME m = 2, t # <<>> PROVE f = n + 2
  <2>1. CrlfAt(u, n + 2) /\ CrlfAt(u, n)
    BY <1>1, <1>2, <1>6, <1>9
  <2>2. (n + 2) - 2 = n /\ n + 2 \in Int
    BY <1>1
  <2>3. HeaderEndsAt(u, n + 2)
    BY <2>1, <2>2 DEF HeaderEndsAt
  <2>4. f > 0 /\ f \in Int
    BY <1>1, <1>4, <2>2, <2>3
  <2> QED
    BY <1>4, <1>7, <1>9, <2>4
<1> QED
  BY <1>8, <1>9 DEF u, n, m, f

\* A part of a text, character by character.
LEMMA PieceIs ==
    ASSUME NEW t \in Text, NEW i \in Int, NEW k \in Int, i >= 1, k <= Len(t)
    PROVE  SubSeq(t, i, k) = [j \in 1..(k - i + 1) |-> t[j + i - 1]]
BY DEF Text

\* So is what a text begins with.
LEMMA TextPrefix ==
    ASSUME NEW t \in Text, NEW k \in Nat, k <= Len(t)
    PROVE  SubSeq(t, 1, k) = [j \in 1..k |-> t[j]]
<1>1. SubSeq(t, 1, k) = [j \in 1..(k - 1 + 1) |-> t[j + 1 - 1]]
  BY PieceIs
<1>2. k - 1 + 1 = k /\ \A j \in 1..k : j + 1 - 1 = j
  OBVIOUS
<1> QED
  BY <1>1, <1>2

\* All of a text.
LEMMA TextAll == \A t \in Text : SubSeq(t, 1, Len(t)) = t
BY DEF Text

\* The lines that were there stay what they were; the new one is its content.
LEMMA LinesNext ==
    ASSUME NEW t \in Text, Whole(t), NEW l, IsLine(l)
    PROVE  /\ LineStarts(t \o l) = LineStarts(t) \cup {Len(t) + 1}
           /\ LineStarts(t) \subseteq 1..Len(t)
           /\ LineAt(t \o l, Len(t) + 1) = Content(l)
           /\ \A i \in LineStarts(t) : LineAt(t \o l, i) = LineAt(t, i)
<1> DEFINE u == t \o l
           n == Len(t)
           m == Len(l)
<1>1. u \in Text /\ Len(u) = n + m /\ n \in Nat /\ m \in Nat /\ m >= 2 /\ l \in Text
  BY LineWhole DEF IsLine
<1>2. \A i \in Int : CrlfAt(u, i) <=> CrlfAt(t, i) \/ i = n + m
  BY LineCrlf
<1>3. \A i \in Int : CrlfAt(t, i) => i \in 2..n
  BY DEF CrlfAt
<1>4. n > 0 => CrlfAt(t, n)
  BY DEF Whole
<1>5. /\ \A i \in 1..n : u[i] = t[i]
      /\ \A i \in 1..m : u[n + i] = l[i]
  BY <1>1, TextParts
<1>6. LineStarts(t) = {i \in 1..n : i = 1 \/ CrlfAt(t, i - 1)}
      /\ LineStarts(u) = {i \in 1..n + m : i = 1 \/ CrlfAt(u, i - 1)}
  BY <1>1 DEF LineStarts
<1>7. \A x \in {t, u} : \A i \in Int : LineEnds(x, i) = {j \in i - 1..Len(x) : j = Len(x) \/ CrlfAt(x, j + 2)}
  BY DEF LineEnds
<1>8. \A x, i : LineAt(x, i) = SubSeq(x, i, Min(LineEnds(x, i)))
  BY DEF LineAt
<1>9. Content(l) = SubSeq(l, 1, m - 2)
  BY DEF Content
<1>10. Len(t) = n
  OBVIOUS
<1> HIDE DEF u, n, m
<1>11. LineStarts(u) = LineStarts(t) \cup {n + 1}
  <2>1. ASSUME NEW i \in LineStarts(u) PROVE i \in LineStarts(t) \cup {n + 1}
    <3>1. i \in 1..n + m /\ i - 1 \in Int /\ (i = 1 \/ CrlfAt(t, i - 1) \/ i - 1 = n + m)
      BY <1>2, <1>6, <2>1
    <3>2. i = 1 \/ CrlfAt(t, i - 1)
      BY <1>1, <3>1
    <3>3. i <= n + 1
      BY <1>1, <1>3, <3>1, <3>2
    <3> QED
      BY <1>1, <1>6, <3>1, <3>2, <3>3
  <2>2. ASSUME NEW i \in LineStarts(t) PROVE i \in LineStarts(u)
    <3>1. i \in 1..n /\ (i = 1 \/ CrlfAt(t, i - 1)) /\ i - 1 \in Int
      BY <1>6, <2>2
    <3>2. i \in 1..n + m
      BY <1>1, <3>1
    <3> QED
      BY <1>2, <1>6, <3>1, <3>2
  <2>3. n + 1 \in LineStarts(u)
    <3>1. n + 1 \in 1..n + m /\ (n + 1) - 1 = n
      BY <1>1
    <3>2. n + 1 = 1 \/ CrlfAt(u, n)
      BY <1>1, <1>2, <1>4
    <3> QED
      BY <1>6, <3>1, <3>2
  <2> QED
    BY <2>1, <2>2, <2>3
<1>12. LineAt(u, n + 1) = Content(l)
  <2> DEFINE E == LineEnds(u, n + 1)
             e == n + (m - 2)
  <2>1. E = {j \in (n + 1) - 1..n + m : j = n + m \/ CrlfAt(u, j + 2)}
    BY <1>1, <1>7
  <2>2. e \in E
    <3>1. e \in (n + 1) - 1..n + m /\ e + 2 = n + m /\ e + 2 \in Int
      BY <1>1
    <3> QED
      BY <1>2, <2>1, <3>1
  <2>3. ASSUME NEW j \in E PROVE j \in Int /\ e <= j
    <3>1. j \in n..n + m /\ (j = n + m \/ CrlfAt(t, j + 2) \/ j + 2 = n + m)
      BY <1>1, <1>2, <2>1, <2>3
    <3>2. ~CrlfAt(t, j + 2)
      BY <1>1, <1>3, <3>1
    <3> QED
      BY <1>1, <3>1, <3>2
  <2>4. Min(E) = e
    <3> HIDE DEF E, e
    <3> QED
      BY <2>2, <2>3, MinIs
  <2>5. SubSeq(u, n + 1, n + (m - 2)) = SubSeq(l, 1, m - 2)
    <3>1. PICK k \in Nat : k = m - 2
      BY <1>1
    <3>2. k <= m /\ \A i \in 1..k : u[n + i] = l[i]
      BY <1>1, <1>5, <3>1
    <3>3. SubSeq(u, n + 1, n + k) = [i \in 1..k |-> u[n + i]]
      <4>1. (n + 1) - 1 = n /\ n + k <= Len(u) /\ n + 1 \in Int /\ n + k \in Int /\ n + 1 >= 1
        BY <1>1, <3>2
      <4>2. SubSeq(u, n + 1, n + k) = [i \in 1..((n + k) - (n + 1) + 1) |-> u[i + (n + 1) - 1]]
        BY <1>1, <4>1, PieceIs
      <4>3. (n + k) - (n + 1) + 1 = k
        BY <1>1
      <4>4. [i \in 1..k |-> u[i + (n + 1) - 1]] = [i \in 1..k |-> u[n + i]]
        <5>1. \A i \in 1..k : i + (n + 1) - 1 = n + i
          BY <1>1
        <5> QED
          BY <5>1
      <4> QED
        BY <4>2, <4>3, <4>4
    <3>4. SubSeq(l, 1, k) = [i \in 1..k |-> l[i]]
      BY <1>1, <3>2, TextPrefix DEF m
    <3> QED
      BY <3>1, <3>2, <3>3, <3>4
  <2> QED
    BY <1>8, <1>9, <2>4, <2>5
<1>13. ASSUME NEW i \in LineStarts(t) PROVE LineAt(u, i) = LineAt(t, i)
  <2> DEFINE E == LineEnds(t, i)
             F == LineEnds(u, i)
             e == Min(E)
  <2>1. i \in 1..n /\ (i = 1 \/ CrlfAt(t, i - 1))
    BY <1>6, <1>13
  <2>2. CrlfAt(t, n) /\ i < n /\ n >= 2
    <3>1. CrlfAt(t, n) /\ n \in 2..n
      BY <1>1, <1>3, <1>4, <2>1
    <3>2. ~CrlfAt(t, n - 1)
      BY <1>1, <3>1, CrlfApart
    <3>3. i # n
      BY <2>1, <3>1, <3>2
    <3> QED
      BY <1>1, <2>1, <3>1, <3>3
  <2>3. /\ E = {j \in i - 1..n : j = n \/ CrlfAt(t, j + 2)}
        /\ F = {j \in i - 1..n + m : j = n + m \/ CrlfAt(u, j + 2)}
    BY <1>1, <1>7, <1>10, <2>1
  <2>4. n - 2 \in E
    <3>1. n - 2 \in i - 1..n /\ (n - 2) + 2 = n
      BY <1>1, <2>1, <2>2
    <3> QED
      BY <2>2, <2>3, <3>1
  <2>5. E \subseteq Nat
    BY <1>1, <2>1, <2>3
  <2>6. e \in E /\ \A j \in E : e <= j
    <3> HIDE DEF E
    <3> QED
      BY <2>4, <2>5, MinOf
  <2>7. PICK k \in Nat : k = e /\ k <= n - 2 /\ k \in i - 1..n /\ CrlfAt(t, k + 2)
    <3>1. e \in Nat /\ e <= n - 2
      BY <2>4, <2>5, <2>6
    <3>2. e \in i - 1..n /\ (e = n \/ CrlfAt(t, e + 2))
      BY <2>3, <2>6
    <3>3. e # n
      BY <1>1, <3>1
    <3> HIDE DEF e
    <3> QED
      BY <3>1, <3>2, <3>3
  <2>8. k \in F
    <3>1. k \in i - 1..n + m /\ k + 2 \in Int
      BY <1>1, <2>7
    <3> QED
      BY <1>2, <2>3, <2>7, <3>1
  <2>9. ASSUME NEW j \in F PROVE j \in Int /\ k <= j
    <3>1. j \in i - 1..n + m /\ j + 2 \in Int /\ (j = n + m \/ CrlfAt(t, j + 2) \/ j + 2 = n + m)
      BY <1>1, <1>2, <2>1, <2>3, <2>9
    <3>2. CASE CrlfAt(t, j + 2)
      <4>1. j \in i - 1..n
        BY <1>1, <1>3, <2>1, <3>1, <3>2
      <4>2. j \in E
        BY <2>3, <3>2, <4>1
      <4> QED
        BY <2>6, <2>7, <3>1, <4>2
    <3>3. CASE ~CrlfAt(t, j + 2)
      BY <1>1, <2>1, <2>7, <3>1, <3>3
    <3> QED
      BY <3>2, <3>3
  <2>10. Min(F) = k
    <3> HIDE DEF F
    <3> QED
      BY <2>8, <2>9, MinIs
  <2>11. SubSeq(u, i, k) = SubSeq(t, i, k)
    <3>1. /\ SubSeq(u, i, k) = [j \in 1..(k - i + 1) |-> u[j + i - 1]]
          /\ SubSeq(t, i, k) = [j \in 1..(k - i + 1) |-> t[j + i - 1]]
      <4>1. k <= Len(t) /\ k <= Len(u) /\ i >= 1 /\ i \in Int
        BY <1>1, <1>10, <2>1, <2>7
      <4> QED
        BY <1>1, <4>1, PieceIs
    <3>2. \A j \in 1..(k - i + 1) : j + i - 1 \in 1..n
      BY <1>1, <2>1, <2>7
    <3>3. \A j \in 1..(k - i + 1) : u[j + i - 1] = t[j + i - 1]
      BY <1>5, <3>2
    <3> QED
      BY <3>1, <3>3
  <2> QED
    BY <1>8, <2>7, <2>10, <2>11
<1>14. LineStarts(t) \subseteq 1..n
  BY <1>6
<1> QED
  BY <1>11, <1>12, <1>13, <1>14 DEF u, n

\* An empty line gives none.
LEMMA EmptyLineLength == LineLength(<<>>) = -1
<1>1. LengthName \in Seq(Char) /\ Len(LengthName) > 0
  BY LengthAssumption
<1>2. Len(<<>>) = 0
  OBVIOUS
<1>3. ~IsPrefix(LengthName, <<>>)
  BY <1>1, <1>2 DEF IsPrefix
<1> QED
  BY <1>3 DEF LineLength

\* One line more matters only if the lines before it give no length.
LEMMA ParseNext ==
    ASSUME NEW t \in Text, Whole(t), NEW l, IsLine(l)
    PROVE  parseContentLengthFromHeaderString(t \o l)
               = IF parseContentLengthFromHeaderString(t) >= 0
                 THEN parseContentLengthFromHeaderString(t)
                 ELSE LineLength(Content(l))
<1> DEFINE u == t \o l
           n == Len(t)
           A == LengthLines(t)
           B == LengthLines(u)
           len == LineLength(Content(l))
           pt == parseContentLengthFromHeaderString(t)
           pu == parseContentLengthFromHeaderString(u)
<1>1. u \in Text /\ n \in Nat
  BY LineWhole
<1>2. /\ LineStarts(u) = LineStarts(t) \cup {n + 1}
      /\ LineStarts(t) \subseteq 1..n
      /\ LineAt(u, n + 1) = Content(l)
      /\ \A i \in LineStarts(t) : LineAt(u, i) = LineAt(t, i)
  BY LinesNext
<1>3. /\ pt \in Nat \cup {-1}
      /\ A = {i \in LineStarts(t) : LineLength(LineAt(t, i)) >= 0}
      /\ A = {} => pt = -1
      /\ A # {} => /\ Min(A) \in A /\ \A i \in A : Min(A) <= i
                   /\ pt = LineLength(LineAt(t, Min(A)))
                   /\ pt >= 0
  BY ParseIs
<1>4. /\ pu \in Nat \cup {-1}
      /\ B = {i \in LineStarts(u) : LineLength(LineAt(u, i)) >= 0}
      /\ B = {} => pu = -1
      /\ B # {} => /\ Min(B) \in B /\ \A i \in B : Min(B) <= i
                   /\ pu = LineLength(LineAt(u, Min(B)))
                   /\ pu >= 0
  BY <1>1, ParseIs
<1>5. len \in Nat \cup {-1}
  BY LineLengthType
<1> HIDE DEF u, n, A, B, pt, pu, len
<1>6. B = A \cup IF len >= 0 THEN {n + 1} ELSE {}
  BY <1>2, <1>3, <1>4 DEF len
<1>7. CASE A # {}
  <2>0. A \subseteq LineStarts(t) /\ A \subseteq 1..n /\ Min(A) \in A /\ Min(A) \in B
    BY <1>2, <1>3, <1>6, <1>7
  <2>1. Min(A) \in 1..n /\ Min(A) \in LineStarts(t) /\ B # {}
    BY <2>0
  <2>2. A \subseteq 1..n /\ Min(B) \in A \cup {n + 1} /\ \A i \in B : Min(B) <= i
    BY <1>4, <1>6, <2>0, <2>1
  <2>3. Min(B) <= Min(A) /\ Min(A) \in B
    BY <1>3, <1>6, <1>7, <2>2
  <2>4. Min(B) \in A
    BY <1>1, <2>1, <2>2, <2>3
  <2>5. Min(A) <= Min(B)
    BY <1>3, <1>7, <2>4
  <2>6. Min(A) \in Int /\ Min(B) \in Int
    <3>1. A \subseteq Int
      BY <1>1, <2>0
    <3> QED
      BY <2>0, <2>4, <3>1
  <2>7. Min(B) = Min(A)
    BY <2>3, <2>5, <2>6
  <2>8. LineAt(u, Min(B)) = LineAt(t, Min(A))
    BY <1>2, <2>1, <2>7
  <2> QED
    BY <1>3, <1>4, <1>7, <2>1, <2>8 DEF pt, pu, u
<1>8. CASE A = {} /\ len >= 0
  <2>1. B = {n + 1}
    BY <1>6, <1>8
  <2>2. Min(B) = n + 1 /\ pu = LineLength(LineAt(u, Min(B)))
    BY <1>4, <2>1
  <2>3. pu = len
    BY <1>2, <2>2 DEF len
  <2>4. ~(pt >= 0)
    BY <1>3, <1>8
  <2> QED
    BY <2>3, <2>4 DEF pt, pu, u, len
<1>9. CASE A = {} /\ ~(len >= 0)
  <2>1. B = {}
    BY <1>6, <1>9
  <2>2. pu = -1 /\ pt = -1 /\ len = -1
    BY <1>3, <1>4, <1>5, <1>9, <2>1
  <2> QED
    BY <2>2 DEF pt, pu, u, len
<1> QED
  BY <1>7, <1>8, <1>9

\* A segment that is a header line, and the blank line, as lines.
LEMMA HeaderLineIs ==
    ASSUME NEW s \in Seg
    PROVE  /\ IsHeaderLine(SegText(s)) => IsLine(SegText(s)) /\ Len(SegText(s)) > 2
           /\ s = Blank => /\ SegText(s) = Crlf
                           /\ IsLine(SegText(s)) /\ Len(SegText(s)) = 2
                           /\ Content(SegText(s)) = <<>>
<1>1. SegText(s) \in Text
  BY SegTextType
<1>2. ASSUME IsHeaderLine(SegText(s)) PROVE IsLine(SegText(s)) /\ Len(SegText(s)) > 2
  <2>1. Len(SegText(s)) \in Nat
    BY <1>1 DEF Text
  <2> QED
    BY <1>1, <1>2, <2>1 DEF IsHeaderLine, IsLine
<1>3. ASSUME s = Blank
      PROVE  /\ SegText(s) = Crlf
             /\ IsLine(SegText(s)) /\ Len(SegText(s)) = 2
             /\ Content(SegText(s)) = <<>>
  <2>1. SegText(s) = Crlf
    BY <1>3, LanesAssumption DEF Blank, SegText
  <2>2. Len(Crlf) = 2 /\ CrlfAt(Crlf, 2)
    BY DEF Crlf, CrlfAt
  <2>3. \A i \in 1..2 - 1 : ~CrlfAt(Crlf, i)
    BY DEF CrlfAt
  <2>4. Content(Crlf) = <<>>
    BY <2>2 DEF Content, Crlf
  <2> QED
    BY <1>1, <2>1, <2>2, <2>3, <2>4 DEF IsLine
<1> QED
  BY <1>2, <1>3

\* The n-th header line.
LEMMA LinesGrow ==
    ASSUME NEW t \in Text, NEW n \in Nat, NEW k \in Nat, n < k, NEW len \in Nat,
           Lines(t, n, k, len), NEW s \in Seg, IsHeaderLine(SegText(s)),
           IF n + 1 < k THEN LengthGiven(s) < 0 ELSE LengthGiven(s) = len
    PROVE  Lines(t \o SegText(s), n + 1, k, len)
<1> DEFINE l == SegText(s)
<1>1. IsLine(l) /\ Len(l) > 2 /\ Whole(t) /\ HeaderLen(t) = 0
  BY HeaderLineIs DEF Lines, Whole
<1>2. HeaderLen(t \o l) = 0 /\ Whole(t \o l) /\ Len(t \o l) = Len(t) + Len(l) /\ Len(t) \in Nat
  BY <1>1, LineEndsHeader, LineWhole
<1>3. CrlfAt(t \o l, Len(t \o l))
  <2>1. Len(<<>>) = 0
    OBVIOUS
  <2>2. t \o l # <<>>
    BY <1>1, <1>2, <2>1
  <2> QED
    BY <1>2, <2>2 DEF Whole
<1>4. parseContentLengthFromHeaderString(t) = -1
  BY DEF Lines
<1>5. parseContentLengthFromHeaderString(t \o l) = LengthGiven(s)
  BY <1>1, <1>4, ParseNext DEF LengthGiven
<1>6. LengthGiven(s) \in Nat \cup {-1}
  BY LineLengthType DEF LengthGiven
<1>7. LengthGiven(s) = IF n + 1 < k THEN -1 ELSE len
  BY <1>6
<1> QED
  BY <1>2, <1>3, <1>5, <1>7 DEF Lines

\* The blank line behind the last of them ends the header.
LEMMA LinesEnd ==
    ASSUME NEW t \in Text, NEW k \in Nat, 0 < k, NEW len \in Nat, Lines(t, k, k, len)
    PROVE  /\ HeaderLen(t \o SegText(Blank)) = Len(t \o SegText(Blank))
           /\ HeaderLen(t \o SegText(Blank)) > 0
           /\ parseContentLengthFromHeaderString(t \o SegText(Blank)) = len
<1> DEFINE l == SegText(Blank)
<1>1. Blank \in Seg
  BY LanesAssumption, PatternsAssumption DEF Blank, Seg
<1>2. IsLine(l) /\ Len(l) = 2 /\ Content(l) = <<>>
  BY <1>1, HeaderLineIs
<1>3. CrlfAt(t, Len(t)) /\ HeaderLen(t) = 0 /\ parseContentLengthFromHeaderString(t) = len
  BY DEF Lines
<1>4. Whole(t) /\ t # <<>>
  <2>1. Len(<<>>) = 0
    OBVIOUS
  <2> QED
    BY <1>3, <2>1 DEF Whole, CrlfAt
<1>5. HeaderLen(t \o l) = Len(t) + 2 /\ Len(t \o l) = Len(t) + 2 /\ Len(t) \in Nat
  BY <1>2, <1>3, <1>4, LineEndsHeader, LineWhole
<1>6. parseContentLengthFromHeaderString(t \o l) = len
  BY <1>2, <1>3, <1>4, ParseNext
<1> QED
  BY <1>5, <1>6

-----------------------------------------------------------------------------
(***************************************************************************)
(* What the header of a request looks like when it leaves the encoder.     *)
(***************************************************************************)
HeaderLine == {s \in Seg : IsHeaderLine(SegText(s))}

\* The first n turns of the loop of normalizeHTTPHeaders; g[i] is what it has
\* kept after line i.
Turns(head, n, g) ==
    g = [i \in 1..n |->
            IF i = 1 THEN <<head[1]>>
            ELSE IF Framing(head[i])
            THEN g[i - 1]
            ELSE Append(g[i - 1], head[i])]

\* The loop can be run to any line.
LEMMA TurnsExist == \A head : \A n \in Nat : \E g : Turns(head, n, g)
<1> SUFFICES ASSUME NEW head PROVE \A n \in Nat : \E g : Turns(head, n, g)
  OBVIOUS
<1> DEFINE G == {n \in Nat : \E g : Turns(head, n, g)}
<1>1. 0 \in G
  <2>1. 1..0 = {}
    OBVIOUS
  <2>2. Turns(head, 0, <<>>)
    BY <2>1 DEF Turns
  <2> QED
    BY <2>2
<1>2. ASSUME NEW n \in Nat, n \in G PROVE n + 1 \in G
  <2>1. PICK g : Turns(head, n, g)
    BY <1>2
  <2> DEFINE last == IF n + 1 = 1 THEN <<head[1]>>
                     ELSE IF Framing(head[n + 1])
                     THEN g[n]
                     ELSE Append(g[n], head[n + 1])
             h == [i \in 1..n + 1 |-> IF i = n + 1 THEN last ELSE g[i]]
             Turn(f, i) == IF i = 1 THEN <<head[1]>>
                           ELSE IF Framing(head[i])
                           THEN f[i - 1]
                           ELSE Append(f[i - 1], head[i])
  <2>2. ASSUME NEW i \in 1..n + 1 PROVE h[i] = Turn(h, i)
    <3>1. CASE i = n + 1
      <4>1. h[i] = last
        BY <3>1
      <4>2. i # 1 => i - 1 = n /\ i - 1 \in 1..n + 1 /\ h[i - 1] = g[n]
        BY <3>1
      <4> QED
        BY <3>1, <4>1, <4>2
    <3>2. CASE i # n + 1
      <4>1. i \in 1..n /\ h[i] = g[i]
        BY <3>2
      <4>2. g[i] = Turn(g, i)
        BY <2>1, <4>1 DEF Turns
      <4>3. i # 1 => i - 1 \in 1..n + 1 /\ i - 1 # n + 1 /\ h[i - 1] = g[i - 1]
        BY <4>1
      <4> HIDE DEF h
      <4> QED
        BY <4>1, <4>2, <4>3
    <3> QED
      BY <3>1, <3>2
  <2>3. h = [i \in 1..n + 1 |-> h[i]]
    OBVIOUS
  <2> HIDE DEF h
  <2>4. [i \in 1..n + 1 |-> h[i]] = [i \in 1..n + 1 |-> Turn(h, i)]
    BY <2>2
  <2>5. Turns(head, n + 1, h)
    BY <2>3, <2>4 DEF Turns
  <2> QED
    BY <2>5
<1> HIDE DEF G
<1>3. \A n \in Nat : n \in G
  BY <1>1, <1>2, NatSetInduction
<1> QED
  BY <1>3 DEF G

\* The request line and lines that do not frame the body.
Stripped(head) ==
    {q \in Seq(HeaderLine) :
        /\ Len(q) >= 1
        /\ q[1] = head[1]
        /\ \A i \in 2..Len(q) : LengthGiven(q[i]) < 0}

\* A line that is not dropped gives no length: it does not begin with the name.
LEMMA NoLengthLeft == \A s \in HeaderLine : ~Framing(s) => LengthGiven(s) < 0
<1> SUFFICES ASSUME NEW s \in HeaderLine, ~(LengthGiven(s) < 0) PROVE Framing(s)
  OBVIOUS
<1> DEFINE l == SegText(s)
           n == Len(LengthName)
<1>1. l \in Text /\ Len(l) \in Nat /\ Len(l) > 2
  BY SegTextType DEF HeaderLine, IsHeaderLine, Text
<1>2. n \in Nat
  BY LengthAssumption
<1>3. IsPrefix(LengthName, Content(l))
  BY DEF LengthGiven, LineLength
<1>4. n <= Len(Content(l)) /\ SubSeq(LengthName, 1, n) = SubSeq(Content(l), 1, n)
  BY <1>3 DEF IsPrefix
<1> HIDE DEF l, n
<1>5. /\ Content(l) = SubSeq(l, 1, Len(l) - 2) /\ Content(l) \in Text
      /\ Len(Content(l)) = Len(l) - 2
      /\ \A i \in 1..Len(l) - 2 : Content(l)[i] = l[i]
  BY <1>1 DEF Content, Text
<1>6. n <= Len(l)
  BY <1>1, <1>2, <1>4, <1>5
<1>7. SubSeq(Content(l), 1, n) = SubSeq(l, 1, n)
  <2>1. /\ SubSeq(Content(l), 1, n) = [i \in 1..n |-> Content(l)[i]]
        /\ SubSeq(l, 1, n) = [i \in 1..n |-> l[i]]
    BY <1>1, <1>2, <1>4, <1>5, <1>6, TextPrefix
  <2>2. \A i \in 1..n : Content(l)[i] = l[i]
    BY <1>1, <1>2, <1>4, <1>5
  <2> QED
    BY <2>1, <2>2
<1>8. IsPrefix(LengthName, l)
  BY <1>4, <1>6, <1>7 DEF IsPrefix, n
<1> QED
  BY <1>8 DEF Framing, l

\* The client's Content-Length lines are gone from what the loop keeps.
LEMMA KeptIsStripped ==
    ASSUME NEW head \in Seq(HeaderLine), head # <<>>
    PROVE  KeptLines(head) \in Stripped(head)
<1> DEFINE N == Len(head)
           out == CHOOSE g : Turns(head, N, g)
           G == {n \in Nat : n + 1 <= N => out[n + 1] \in Stripped(head)}
<1>1. N \in Nat /\ N >= 1
  OBVIOUS
<1>2. Turns(head, N, out)
  BY <1>1, TurnsExist
<1>3. KeptLines(head) = out[N]
  BY DEF KeptLines, Turns
<1> HIDE DEF out
<1>4. 0 \in G
  <2>1. out[1] = <<head[1]>>
    BY <1>1, <1>2 DEF Turns
  <2>2. head[1] \in HeaderLine
    BY <1>1
  <2>3. <<head[1]>> \in Stripped(head)
    BY <2>2 DEF Stripped
  <2> QED
    BY <2>1, <2>3
<1>5. ASSUME NEW n \in Nat, n \in G PROVE n + 1 \in G
  <2>1. SUFFICES ASSUME (n + 1) + 1 <= N PROVE out[(n + 1) + 1] \in Stripped(head)
    OBVIOUS
  <2> DEFINE i == (n + 1) + 1
             q == out[n + 1]
             x == head[i]
  <2>2. i \in 1..N /\ i # 1 /\ i - 1 = n + 1
    BY <2>1
  <2>3. out[i] = IF Framing(x) THEN q ELSE Append(q, x)
    BY <1>2, <2>2 DEF Turns
  <2>4. q \in Stripped(head) /\ x \in HeaderLine
    BY <1>5, <2>1, <2>2
  <2> HIDE DEF i, q, x
  <2>5. q \in Seq(HeaderLine) /\ Len(q) \in Nat /\ Len(q) >= 1 /\ q[1] = head[1]
    BY <2>4 DEF Stripped
  <2>6. ASSUME LengthGiven(x) < 0 PROVE Append(q, x) \in Stripped(head)
    <3>1. /\ Append(q, x) \in Seq(HeaderLine)
          /\ Len(Append(q, x)) = Len(q) + 1
          /\ \A j \in 1..Len(q) : Append(q, x)[j] = q[j]
          /\ Append(q, x)[Len(q) + 1] = x
      BY <2>4, <2>5, AppendProperties
    <3>2. ASSUME NEW j \in 2..Len(q) + 1 PROVE LengthGiven(Append(q, x)[j]) < 0
      <4>1. CASE j = Len(q) + 1
        BY <2>6, <3>1, <4>1
      <4>2. CASE j # Len(q) + 1
        <5>1. j \in 2..Len(q) /\ j \in 1..Len(q)
          BY <2>5, <4>2
        <5>2. LengthGiven(q[j]) < 0
          BY <2>4, <5>1 DEF Stripped
        <5> QED
          BY <3>1, <5>1, <5>2
      <4> QED
        BY <4>1, <4>2
    <3>3. Len(q) + 1 >= 1 /\ 1 \in 1..Len(q)
      BY <2>5
    <3>4. Append(q, x)[1] = head[1]
      BY <2>5, <3>1, <3>3
    <3> QED
      BY <3>1, <3>2, <3>3, <3>4 DEF Stripped
  <2>7. out[i] \in Stripped(head)
    BY <2>3, <2>4, <2>6, NoLengthLeft
  <2> QED
    BY <2>7 DEF i
<1> HIDE DEF G
<1>6. \A n \in Nat : n \in G
  BY <1>4, <1>5, NatSetInduction
<1>7. N - 1 \in Nat /\ (N - 1) + 1 = N
  BY <1>1
<1>8. N - 1 \in G
  BY <1>6, <1>7
<1>9. out[(N - 1) + 1] \in Stripped(head)
  BY <1>1, <1>7, <1>8 DEF G
<1> QED
  BY <1>3, <1>7, <1>9

\* The normalised header: what was kept, one Content-Length and the blank line.
LEMMA HeaderLayout ==
    ASSUME NEW r \in Requests
    PROVE  LET hdr == normalizeHTTPHeaders(r)
               h == Len(hdr)
           IN  /\ hdr \in Seq(Seg)
               /\ h \in Nat /\ h >= 3
               /\ hdr[h] = Blank
               /\ \A i \in 1..h - 1 : IsHeaderLine(SegText(hdr[i]))
               /\ LengthGiven(hdr[h - 1]) = BodyLen(r)
               /\ \A i \in 1..h - 2 : LengthGiven(hdr[i]) < 0
<1> DEFINE hdr == normalizeHTTPHeaders(r)
           kept == KeptLines(r.head)
           cl == LengthLine(BodyLen(r))
           two == <<cl, Blank>>
           k == Len(kept)
<1>1. /\ r.head \in Seq(HeaderLine) /\ r.head # <<>>
      /\ LengthGiven(r.head[1]) < 0
      /\ BodyLen(r) \in DOMAIN Itoa
  BY RequestsAssumption DEF HeaderLine, LengthGiven
<1>2. kept \in Stripped(r.head)
  BY <1>1, KeptIsStripped
<1>3. /\ kept \in Seq(HeaderLine) /\ k \in Nat /\ k >= 1 /\ kept[1] = r.head[1]
      /\ \A i \in 2..k : LengthGiven(kept[i]) < 0
  BY <1>2 DEF Stripped
<1>4. cl \in Seg /\ LengthGiven(cl) = BodyLen(r) /\ IsHeaderLine(SegText(cl))
  BY <1>1, PatternsAssumption, LanesAssumption DEF Seg, LengthLine, LengthGiven
<1> HIDE DEF cl, kept, k
<1>6. two \in Seq(Seg) /\ Len(two) = 2 /\ two[1] = cl /\ two[2] = Blank
  BY <1>4, BlankType
<1>7. kept \in Seq(Seg) /\ \A i \in 1..k : kept[i] \in HeaderLine
  BY <1>3 DEF k, HeaderLine
<1>8. hdr = kept \o two
  BY DEF normalizeHTTPHeaders, kept, cl
<1> HIDE DEF two
<1>9. /\ Len(kept \o two) = k + 2
      /\ \A i \in 1..k : (kept \o two)[i] = kept[i]
      /\ \A i \in 1..2 : (kept \o two)[k + i] = two[i]
      /\ kept \o two \in Seq(Seg)
  <2>1. /\ Len(kept \o two) = Len(kept) + Len(two)
        /\ \A i \in 1..Len(kept) : (kept \o two)[i] = kept[i]
        /\ \A i \in 1..Len(two) : (kept \o two)[Len(kept) + i] = two[i]
    <3>1. kept \in Seq(Seg) /\ two \in Seq(Seg)
      BY <1>6, <1>7
    <3> QED
      BY ONLY <3>1, ConcatParts
  <2>2. kept \o two \in Seq(Seg)
    BY <1>6, <1>7, ConcatProperties
  <2> QED
    BY <1>6, <2>1, <2>2 DEF k
<1>10. /\ Len(hdr) = k + 2 /\ hdr \in Seq(Seg) /\ hdr[k + 1] = cl /\ hdr[k + 2] = Blank
       /\ \A i \in 1..k : hdr[i] = kept[i]
  <2>1. 1 \in 1..2 /\ 2 \in 1..2
    OBVIOUS
  <2> QED
    BY <1>6, <1>8, <1>9, <2>1
<1> HIDE DEF hdr
<1>11. ASSUME NEW i \in 1..k + 1 PROVE IsHeaderLine(SegText(hdr[i]))
  <2>1. CASE i = k + 1
    BY <1>4, <1>10, <2>1
  <2>2. CASE i # k + 1
    <3>1. i \in 1..k
      BY <1>3, <2>2
    <3> QED
      BY <1>7, <1>10, <3>1 DEF HeaderLine
  <2> QED
    BY <2>1, <2>2
<1>12. ASSUME NEW i \in 1..k PROVE LengthGiven(hdr[i]) < 0
  <2>1. CASE i = 1
    BY <1>1, <1>3, <1>10, <2>1
  <2>2. CASE i # 1
    <3>1. i \in 2..k /\ hdr[i] = kept[i]
      BY <1>3, <1>10, <2>2
    <3> QED
      BY <1>3, <3>1
  <2> QED
    BY <2>1, <2>2
<1>13. (k + 2) - 1 = k + 1 /\ (k + 2) - 2 = k /\ k + 2 >= 3 /\ k + 2 \in Nat
  BY <1>3
<1> QED
  BY <1>4, <1>10, <1>11, <1>12, <1>13 DEF hdr

\* A body is a sequence of segments.
LEMMA BodyType == \A r \in Requests : BodySegs(r) \in Seq(Seg) /\ Len(BodySegs(r)) \in Nat
<1>1. \A r \in Requests : BodySegs(r) \in Seq(Seg)
  BY RequestsAssumption, Zenon
<1> QED
  BY <1>1

\* What Accept lays out: the header, then the body.
LEMMA Layout ==
    ASSUME NEW r \in Requests
    PROVE  \E h \in Nat :
              /\ h >= 3 /\ Len(Items(r)) = h + Len(BodySegs(r))
              /\ Items(r)[h].seg = Blank
              /\ \A i \in 1..h - 1 : IsHeaderLine(SegText(Items(r)[i].seg))
              /\ LengthGiven(Items(r)[h - 1].seg) = BodyLen(r)
              /\ \A i \in 1..h - 2 : LengthGiven(Items(r)[i].seg) < 0
              /\ \A j \in 1..Len(BodySegs(r)) : Items(r)[h + j].seg = BodySegs(r)[j]
<1> DEFINE hdr == normalizeHTTPHeaders(r)
           h == Len(hdr)
           b == BodySegs(r)
           n == Len(b)
           top == [i \in 1..h |-> [seg |-> hdr[i], charge |-> SegLen(hdr[i])]]
           rest == [i \in 1..n |-> [seg |-> b[i], charge |-> BodyCharges(r)[i]]]
           S == {top[i] : i \in 1..h} \cup {rest[i] : i \in 1..n}
<1>1. /\ hdr \in Seq(Seg) /\ h \in Nat /\ h >= 3 /\ hdr[h] = Blank
      /\ \A i \in 1..h - 1 : IsHeaderLine(SegText(hdr[i]))
      /\ LengthGiven(hdr[h - 1]) = BodyLen(r)
      /\ \A i \in 1..h - 2 : LengthGiven(hdr[i]) < 0
  BY HeaderLayout
<1>2. b \in Seq(Seg) /\ n \in Nat
  BY BodyType
<1>3. DOMAIN hdr = 1..h /\ DOMAIN b = 1..n
  BY <1>1, <1>2
<1>4. Items(r) = top \o rest
  BY <1>3 DEF Items, encodeHeaderLines, encodeBodyAsLines
<1> HIDE DEF hdr, h, b, n
<1>5. /\ top \in Seq(S) /\ Len(top) = h /\ \A i \in 1..h : top[i].seg = hdr[i]
      /\ rest \in Seq(S) /\ Len(rest) = n /\ \A i \in 1..n : rest[i].seg = b[i]
  <2>1. /\ DOMAIN top = 1..h /\ DOMAIN rest = 1..n
        /\ \A i \in 1..h : top[i].seg = hdr[i]
        /\ \A i \in 1..n : rest[i].seg = b[i]
    OBVIOUS
  <2>2. top = [i \in 1..h |-> top[i]] /\ rest = [i \in 1..n |-> rest[i]]
    OBVIOUS
  <2>3. /\ \A i \in 1..h : top[i] \in S
        /\ \A i \in 1..n : rest[i] \in S
    OBVIOUS
  <2> HIDE DEF top, rest, S
  <2>4. [i \in 1..h |-> top[i]] \in Seq(S) /\ [i \in 1..n |-> rest[i]] \in Seq(S)
    BY <1>1, <1>2, <2>3
  <2>5. Len(top) = h /\ Len(rest) = n
    BY <1>1, <1>2, <2>1, <2>2, <2>4
  <2> QED
    BY <2>1, <2>2, <2>4, <2>5
<1> HIDE DEF top, rest, S
<1>6. /\ Len(top \o rest) = h + n
      /\ \A i \in 1..h : (top \o rest)[i] = top[i]
      /\ \A i \in 1..n : (top \o rest)[h + i] = rest[i]
  <2>1. /\ Len(top \o rest) = Len(top) + Len(rest)
        /\ \A i \in 1..Len(top) : (top \o rest)[i] = top[i]
        /\ \A i \in 1..Len(rest) : (top \o rest)[Len(top) + i] = rest[i]
    <3>1. top \in Seq(S) /\ rest \in Seq(S)
      BY <1>5
    <3> QED
      BY ONLY <3>1, ConcatParts
  <2> QED
    BY <1>5, <2>1
<1>7. /\ Len(Items(r)) = h + n
      /\ \A i \in 1..h : Items(r)[i].seg = hdr[i]
      /\ \A i \in 1..n : Items(r)[h + i].seg = b[i]
  <2>1. /\ \A i \in 1..h : (top \o rest)[i].seg = hdr[i]
        /\ \A i \in 1..n : (top \o rest)[h + i].seg = b[i]
    BY ONLY <1>5, <1>6, Zenon
  <2> QED
    BY ONLY <1>4, <1>6, <2>1, Zenon
<1>8. h \in 1..h /\ h - 1 \in 1..h
  BY <1>1
<1>9. /\ \A i \in 1..h - 1 : i \in 1..h
      /\ \A i \in 1..h - 2 : i \in 1..h
  BY <1>1
<1>10. /\ Items(r)[h].seg = Blank
       /\ LengthGiven(Items(r)[h - 1].seg) = BodyLen(r)
  BY <1>1, <1>7, <1>8
<1>11. /\ \A i \in 1..h - 1 : IsHeaderLine(SegText(Items(r)[i].seg))
       /\ \A i \in 1..h - 2 : LengthGiven(Items(r)[i].seg) < 0
  BY <1>1, <1>7, <1>9
<1>12. h \in Nat /\ h >= 3
  BY <1>1
<1>13. /\ Len(Items(r)) = h + Len(BodySegs(r))
       /\ \A j \in 1..Len(BodySegs(r)) : Items(r)[h + j].seg = BodySegs(r)[j]
  BY <1>7 DEF b, n
<1> QED
  BY <1>10, <1>11, <1>12, <1>13

-----------------------------------------------------------------------------
(***************************************************************************)
(* Requests in truth.                                                      *)
(***************************************************************************)
Lens(t) == [n \in DOMAIN t |-> SegLen(t[n])]

\* The segments of a sequence have lengths that can be added up.
LEMMA LensCount ==
    ASSUME NEW t \in Seq(Seg)
    PROVE  /\ Counts(Lens(t), 1..Len(t))
           /\ \A i \in 1..Len(t) : Lens(t)[i] = SegLen(t[i])
<1>1. DOMAIN t = 1..Len(t)
  OBVIOUS
<1>2. \A i \in 1..Len(t) : t[i] \in Seg
  OBVIOUS
<1> QED
  BY <1>1, <1>2, SegLenType DEF Lens, Counts

\* The bytes of a part do not depend on what follows it.
LEMMA BytesSame ==
    ASSUME NEW t \in Seq(Seg), NEW u \in Seq(Seg), Len(t) <= Len(u),
           \A i \in 1..Len(t) : u[i] = t[i],
           NEW i \in Nat, NEW j \in Nat, j <= Len(t)
    PROVE  BytesBetween(u, i, j) = BytesBetween(t, i, j)
<1> DEFINE S == i + 1..j
<1>1. IsFiniteSet(S)
  BY FS_Interval
<1>2. \A x \in S : x \in 1..Len(t) /\ x \in 1..Len(u)
  OBVIOUS
<1>3. Counts(Lens(t), S) /\ \A x \in S : Lens(t)[x] = Lens(u)[x]
  BY <1>2, LensCount DEF Counts
<1> HIDE DEF S
<1>4. SumFunctionOnSet(Lens(t), S) = SumFunctionOnSet(Lens(u), S)
  BY <1>1, <1>3, SumSame
<1> QED
  BY <1>4 DEF BytesBetween, Lens, S

\* A part that is shorter by some segments is shorter by some bytes, because no
\* segment is empty.
LEMMA BytesLess ==
    ASSUME NEW t \in Seq(Seg), \A i \in 1..Len(t) : SegLen(t[i]) > 0,
           NEW h \in Nat, NEW p \in Nat, NEW e \in Nat, h <= p, p < e, e <= Len(t)
    PROVE  /\ BytesBetween(t, h, p) < BytesBetween(t, h, e)
           /\ BytesBetween(t, h, p) \in Nat /\ BytesBetween(t, h, e) \in Nat
<1> DEFINE f == Lens(t)
           S == h + 1..e
           T == h + 1..p
<1>1. IsFiniteSet(S) /\ IsFiniteSet(S \ T)
  <2>1. IsFiniteSet(S)
    BY FS_Interval
  <2>2. (S \ T) \subseteq S
    OBVIOUS
  <2> HIDE DEF S, T
  <2> QED
    BY <2>1, <2>2, FS_Subset
<1>2. /\ T \in SUBSET S /\ e \in S \ T /\ {e} \in SUBSET (S \ T)
      /\ \A x \in S : x \in 1..Len(t)
  OBVIOUS
<1>3. Counts(f, S) /\ f[e] > 0 /\ f[e] \in Nat
  BY <1>2, LensCount DEF Counts
<1>4. Counts(f, S \ T)
  BY <1>3 DEF Counts
<1> HIDE DEF f, S, T
<1>5. /\ SumFunctionOnSet(f, S) = SumFunctionOnSet(f, T) + SumFunctionOnSet(f, S \ T)
      /\ SumFunctionOnSet(f, T) \in Nat
      /\ SumFunctionOnSet(f, S \ T) \in Nat
  BY <1>1, <1>2, <1>3, SumWithout
<1>6. /\ SumFunctionOnSet(f, S \ T) = SumFunctionOnSet(f, {e}) + SumFunctionOnSet(f, (S \ T) \ {e})
      /\ SumFunctionOnSet(f, (S \ T) \ {e}) \in Nat
  <2> DEFINE U == S \ T
             V == {e}
  <2>1. IsFiniteSet(U) /\ Counts(f, U) /\ V \in SUBSET U
    BY <1>1, <1>2, <1>4
  <2> HIDE DEF U, V
  <2>2. \A X : \A Y \in SUBSET X : IsFiniteSet(X) /\ Counts(f, X) =>
            /\ SumFunctionOnSet(f, X) = SumFunctionOnSet(f, Y) + SumFunctionOnSet(f, X \ Y)
            /\ SumFunctionOnSet(f, X \ Y) \in Nat
    BY SumWithout
  <2>3. /\ SumFunctionOnSet(f, U) = SumFunctionOnSet(f, V) + SumFunctionOnSet(f, U \ V)
        /\ SumFunctionOnSet(f, U \ V) \in Nat
    BY ONLY <2>1, <2>2, Zenon
  <2> QED
    BY <2>3 DEF U, V
<1>7. SumFunctionOnSet(f, {e}) = f[e]
  <2>1. IsFiniteSet({}) /\ Counts(f, {}) /\ e \notin {} /\ {} \cup {e} = {e}
    BY FS_EmptySet DEF Counts
  <2>2. SumFunctionOnSet(f, {} \cup {e}) = SumFunctionOnSet(f, {}) + f[e]
    BY <1>3, <2>1, SumAdd
  <2> QED
    BY <1>3, <2>1, <2>2, SumEmpty
<1>8. /\ BytesBetween(t, h, p) = SumFunctionOnSet(f, T)
      /\ BytesBetween(t, h, e) = SumFunctionOnSet(f, S)
  BY DEF BytesBetween, f, S, T, Lens
<1> QED
  BY <1>3, <1>5, <1>6, <1>7, <1>8

\* One segment more.
LEMMA BytesNext ==
    ASSUME NEW t \in Seq(Seg), NEW h \in Nat, NEW p \in Nat, h <= p, p + 1 <= Len(t)
    PROVE  BytesBetween(t, h, p + 1) = BytesBetween(t, h, p) + SegLen(t[p + 1])
<1>1. \A x \in h + 1..p + 1 : x \in 1..Len(t)
  OBVIOUS
<1>2. Counts(Lens(t), h + 1..p + 1) /\ Lens(t)[p + 1] = SegLen(t[p + 1])
  BY <1>1, LensCount DEF Counts
<1>3. h + 1 \in Int /\ p \in Int /\ h + 1 <= p + 1
  OBVIOUS
<1>4. SumFunctionOnSet(Lens(t), h + 1..p + 1) = SumFunctionOnSet(Lens(t), h + 1..p) + Lens(t)[p + 1]
  BY <1>2, <1>3, SumNext
<1> QED
  BY <1>2, <1>4 DEF BytesBetween, Lens

LEMMA BytesNone == ASSUME NEW t, NEW h \in Nat PROVE BytesBetween(t, h, h) = 0
BY SumNone DEF BytesBetween

\* A request stays where it is when truth grows.
LEMMA RequestStays ==
    ASSUME NEW t \in Seq(Seg), NEW u \in Seq(Seg), Len(t) <= Len(u),
           \A i \in 1..Len(t) : u[i] = t[i],
           NEW a \in Nat, NEW h \in Nat, NEW e \in Nat, e <= Len(t), RequestAt(t, a, h, e)
    PROVE  RequestAt(u, a, h, e)
<1>1. a + 2 <= h /\ h <= e /\ Len(t) \in Nat
  BY DEF RequestAt
<1>2. h \in 1..Len(t) /\ h - 1 \in 1..Len(t)
  BY <1>1
<1>3. \A i \in a + 1..h - 1 : i \in 1..Len(t)
  BY <1>1
<1>4. \A i \in a + 1..h - 2 : i \in 1..Len(t)
  BY <1>1
<1>5. BytesBetween(u, h, e) = BytesBetween(t, h, e)
  BY BytesSame
<1> QED
  BY <1>1, <1>2, <1>3, <1>4, <1>5 DEF RequestAt

\* The length that normalizeHTTPHeaders announces.
LEMMA BodyLenIs ==
    ASSUME NEW r \in Requests
    PROVE  BodyLen(r) = SumFunctionOnSet(Lens(BodySegs(r)), 1..Len(BodySegs(r)))
<1> DEFINE b == BodySegs(r)
<1>1. b \in Seq(Seg)
  BY BodyType
<1>2. BodyLen(r) = SumFunction(Lens(b))
  BY DEF BodyLen, BytesIn, Lens
<1> HIDE DEF b
<1>3. DOMAIN Lens(b) = 1..Len(b)
  BY <1>1 DEF Lens
<1> QED
  BY <1>2, <1>3 DEF SumFunction, b

\* What Accept lays out is a request after everything that was accepted before.
LEMMA NewRequest ==
    ASSUME NEW r \in Requests, NEW t \in Seq(Seg), NEW u \in Seq(Seg),
           Len(u) = Len(t) + Len(Items(r)),
           \A i \in 1..Len(Items(r)) : u[Len(t) + i] = Items(r)[i].seg
    PROVE  \E h \in 1..Len(u) : RequestAt(u, Len(t), h, Len(u))
<1> DEFINE it == Items(r)
           b == BodySegs(r)
           a == Len(t)
           n == Len(b)
<1>1. PICK k \in Nat :
         /\ k >= 3 /\ Len(it) = k + n
         /\ it[k].seg = Blank
         /\ \A i \in 1..k - 1 : IsHeaderLine(SegText(it[i].seg))
         /\ LengthGiven(it[k - 1].seg) = BodyLen(r)
         /\ \A i \in 1..k - 2 : LengthGiven(it[i].seg) < 0
         /\ \A j \in 1..n : it[k + j].seg = b[j]
  BY Layout
<1>2. b \in Seq(Seg) /\ a \in Nat /\ n \in Nat
  BY BodyType
<1>3. \A i \in 1..k + n : u[a + i] = it[i].seg
  BY <1>1
<1>4. Len(u) = a + (k + n)
  BY <1>1
<1>5. BodyLen(r) = SumFunctionOnSet(Lens(b), 1..n)
  BY BodyLenIs
<1> HIDE DEF it, b, a, n
<1>6. PICK h \in Nat : h = a + k
  BY <1>2
<1>60. k \in Nat /\ k >= 3 /\ a \in Nat /\ n \in Nat /\ h \in Nat /\ h = a + k
  BY <1>1, <1>2, <1>6
<1>61. Len(u) = h + n
  <2>1. a + (k + n) = h + n
    BY ONLY <1>60
  <2> QED
    BY <1>4, <2>1
<1>7. u[h] = Blank /\ u[h - 1] = it[k - 1].seg
  <2>1. k \in 1..k + n /\ k - 1 \in 1..k + n /\ a + (k - 1) = h - 1
    BY ONLY <1>60
  <2> QED
    BY <1>1, <1>3, <1>6, <2>1
<1>8. ASSUME NEW i \in a + 1..h - 1
      PROVE  IsHeaderLine(SegText(u[i])) /\ (i <= h - 2 => LengthGiven(u[i]) < 0)
  <2>1. PICK m \in Int : m = i - a
    BY <1>2
  <2>2. /\ m \in 1..k - 1 /\ m \in 1..k + n /\ a + m = i
        /\ i <= h - 2 => m \in 1..k - 2
    <3>1. i \in a + 1..h - 1 /\ m \in Int /\ m = i - a
      BY <2>1
    <3> QED
      BY ONLY <1>60, <3>1
  <2> QED
    BY <1>1, <1>3, <2>2
<1>9. BytesBetween(u, h, Len(u)) = BodyLen(r)
  <2>1. Counts(Lens(b), 1..n)
    BY <1>2, LensCount DEF n
  <2>2. ASSUME NEW j \in 1..n PROVE Lens(u)[h + j] = Lens(b)[j]
    <3>0. j \in 1..n
      OBVIOUS
    <3>1. k + j \in 1..k + n /\ a + (k + j) = h + j /\ h + j \in 1..h + n
      BY ONLY <1>60, <3>0
    <3>2. u[h + j] = b[j]
      BY <1>1, <1>3, <3>1
    <3>3. Lens(u)[h + j] = SegLen(u[h + j])
      BY <1>61, <3>1, LensCount
    <3>4. Lens(b)[j] = SegLen(b[j])
      BY <1>2, LensCount DEF n
    <3> QED
      BY <3>2, <3>3, <3>4
  <2>3. SumFunctionOnSet(Lens(u), h + 1..h + n) = SumFunctionOnSet(Lens(b), 1..n)
    <3> DEFINE f == Lens(u)
               g == Lens(b)
    <3>1. /\ h \in Nat /\ n \in Nat /\ Counts(g, 1..n)
          /\ \A i \in 1..n : f[h + i] = g[i]
      BY <1>2, <2>1, <2>2
    <3> HIDE DEF f, g
    <3>2. \A a0 \in Nat : \A n0 \in Nat :
            (Counts(g, 1..n0) /\ (\A i \in 1..n0 : f[a0 + i] = g[i])) =>
               SumFunctionOnSet(f, a0 + 1..a0 + n0) = SumFunctionOnSet(g, 1..n0)
      BY SumShift
    <3>3. SumFunctionOnSet(f, h + 1..h + n) = SumFunctionOnSet(g, 1..n)
      BY ONLY <3>1, <3>2, Zenon
    <3> QED
      BY <3>3 DEF f, g
  <2> QED
    BY <1>5, <1>61, <2>3 DEF BytesBetween, Lens
<1>10. /\ a + 2 <= h /\ h <= Len(u) /\ h \in 1..Len(u)
       /\ \A i \in a + 1..h - 2 : i \in a + 1..h - 1 /\ i <= h - 2
  BY ONLY <1>60, <1>61
<1>11. RequestAt(u, a, h, Len(u))
  BY <1>1, <1>7, <1>8, <1>9, <1>10 DEF RequestAt
<1> QED
  BY <1>10, <1>11 DEF a

\* Accept puts the segments of the request behind those of the earlier ones.
LEMMA AcceptTruth ==
    ASSUME truth \in Seq(Seg), NEW r \in Requests, Accept(r)
    PROVE  /\ truth' \in Seq(Seg) /\ Len(truth') = Len(truth) + Len(Items(r))
           /\ Len(Items(r)) > 0
           /\ \A i \in 1..Len(truth) : truth'[i] = truth[i]
           /\ \A i \in 1..Len(Items(r)) : truth'[Len(truth) + i] = Items(r)[i].seg
           /\ ends' = Append(ends, Len(truth'))
<1> DEFINE it == Items(r)
           segs == [i \in DOMAIN it |-> it[i].seg]
<1>1. it \in Seq(Item) /\ segs \in Seq(Seg) /\ Len(segs) = Len(it)
  BY ItemsType
<1>2. truth' = truth \o segs /\ ends' = Append(ends, Len(truth) + Len(it))
  BY DEF Accept
<1>3. \A i \in 1..Len(it) : segs[i] = it[i].seg
  BY <1>1
<1>4. Len(it) > 0
  <2>1. PICK h \in Nat : h >= 3 /\ Len(it) = h + Len(BodySegs(r))
    BY Layout
  <2>2. Len(BodySegs(r)) \in Nat
    BY RequestsAssumption
  <2> QED
    BY <2>1, <2>2
<1> HIDE DEF it, segs
<1>5. \A t \in Seq(Seg) : \A u \in Seq(Seg) :
         /\ t \o u \in Seq(Seg)
         /\ Len(t \o u) = Len(t) + Len(u)
         /\ \A i \in 1..Len(t) : (t \o u)[i] = t[i]
         /\ \A i \in 1..Len(u) : (t \o u)[Len(t) + i] = u[i]
  BY ConcatParts, ConcatProperties
<1>6. /\ truth \o segs \in Seq(Seg)
      /\ Len(truth \o segs) = Len(truth) + Len(segs)
      /\ \A i \in 1..Len(truth) : (truth \o segs)[i] = truth[i]
      /\ \A i \in 1..Len(segs) : (truth \o segs)[Len(truth) + i] = segs[i]
  <2>1. truth \in Seq(Seg) /\ segs \in Seq(Seg)
    BY <1>1
  <2> QED
    BY ONLY <1>5, <2>1, Zenon
<1> QED
  BY <1>1, <1>2, <1>3, <1>4, <1>6 DEF it

\* One request more.
LEMMA LaidNext ==
    ASSUME NEW t \in Seq(Seg), NEW u \in Seq(Seg), Len(t) < Len(u),
           \A i \in 1..Len(t) : u[i] = t[i],
           NEW es \in Seq(Nat), Laid(t, es),
           \E h \in 1..Len(u) : RequestAt(u, Len(t), h, Len(u))
    PROVE  Laid(u, Append(es, Len(u)))
<1> DEFINE n == Len(es)
           fs == Append(es, Len(u))
<1>1. /\ n \in Nat /\ Len(t) \in Nat /\ Len(u) \in Nat
      /\ fs \in Seq(Nat) /\ Len(fs) = n + 1
      /\ \A k \in 1..n : fs[k] = es[k] /\ es[k] \in Nat
      /\ fs[n + 1] = Len(u)
  BY AppendProperties
<1> HIDE DEF n, fs
<1>2. /\ \A k \in 1..n : \E h \in 1..es[k] : RequestAt(t, Start(es, k), h, es[k])
      /\ \A i, j \in 1..n : i < j => es[i] < es[j]
      /\ Len(t) = Start(es, n + 1)
  BY DEF Laid, n
<1>3. \A k \in 1..n : es[k] <= Len(t)
  <2>1. SUFFICES ASSUME NEW k \in 1..n PROVE es[k] <= Len(t)
    OBVIOUS
  <2>2. n \in 1..n /\ n + 1 # 1 /\ (n + 1) - 1 = n
    BY <1>1
  <2>3. Len(t) = es[n]
    BY <1>2, <2>2 DEF Start
  <2>4. k = n \/ k < n
    BY <1>1
  <2>5. es[k] \in Nat /\ es[n] \in Nat
    BY <1>1, <2>2
  <2>6. k < n => es[k] < es[n]
    BY <1>2, <2>2
  <2> QED
    BY <2>3, <2>4, <2>5, <2>6
<1>4. \A k \in 1..n + 1 : Start(fs, k) = Start(es, k) /\ Start(es, k) \in Nat
  <2>1. SUFFICES ASSUME NEW k \in 1..n + 1, k # 1
                 PROVE  fs[k - 1] = es[k - 1] /\ es[k - 1] \in Nat
    BY DEF Start
  <2>2. k - 1 \in 1..n
    BY <1>1, <2>1
  <2> QED
    BY <1>1, <2>2
<1>5. ASSUME NEW k \in 1..n + 1
      PROVE  \E h \in 1..fs[k] : RequestAt(u, Start(fs, k), h, fs[k])
  <2>1. CASE k = n + 1
    BY <1>1, <1>2, <1>4, <2>1
  <2>2. CASE k # n + 1
    <3>1. k \in 1..n
      BY <1>1, <2>2
    <3>2. PICK h \in 1..es[k] : RequestAt(t, Start(es, k), h, es[k])
      BY <1>2, <3>1
    <3>3. PICK a \in Nat : a = Start(es, k)
      BY <1>4
    <3>4. PICK e \in Nat : e = es[k] /\ e <= Len(t)
      BY <1>1, <1>3, <3>1
    <3>5. h \in Nat /\ RequestAt(t, a, h, e) /\ Len(t) <= Len(u)
      BY <1>1, <3>2, <3>3, <3>4
    <3>6. RequestAt(u, a, h, e)
      BY <3>5, <3>4, RequestStays
    <3> QED
      BY <1>1, <1>4, <3>1, <3>2, <3>3, <3>4, <3>6
  <2> QED
    BY <2>1, <2>2
<1>6. ASSUME NEW i \in 1..n + 1, NEW j \in 1..n + 1, i < j PROVE fs[i] < fs[j]
  <2>1. i \in 1..n
    BY <1>1, <1>6
  <2>2. CASE j = n + 1
    <3>1. fs[i] = es[i] /\ es[i] \in Nat /\ es[i] <= Len(t)
      BY <1>1, <1>3, <2>1
    <3>2. fs[j] = Len(u)
      BY <1>1, <2>2
    <3> QED
      BY <1>1, <3>1, <3>2
  <2>3. CASE j # n + 1
    <3>1. j \in 1..n
      BY <1>1, <2>3
    <3> QED
      BY <1>1, <1>2, <1>6, <2>1, <3>1
  <2> QED
    BY <2>2, <2>3
<1>7. Len(u) = Start(fs, Len(fs) + 1)
  <2>1. (n + 1) + 1 # 1 /\ ((n + 1) + 1) - 1 = n + 1
    BY <1>1
  <2> QED
    BY <1>1, <2>1 DEF Start
<1>8. Laid(u, fs)
  BY <1>1, <1>5, <1>6, <1>7 DEF Laid
<1> QED
  BY <1>8 DEF fs

LEMMA EndsInvInit == Init => EndsInv
BY DEF Init, LaneInit, WireInit, EndsInv, Laid, Start

\* Only Accept touches what was accepted.
LEMMA OnlyAccepts ==
    ASSUME [Next]_vars
    PROVE  (truth' = truth /\ ends' = ends) \/ \E r \in Requests : Accept(r)
<1>1. CASE EncoderStep
  <2>1. CASE Emit
    BY <2>1 DEF Emit, EmitPlain, EmitUnpromoted, EmitDefine, EmitDefined, writeRaw,
                writeFrameCount
  <2> QED
    BY <1>1, <2>1 DEF EncoderStep, EncoderNext, SourceEnd, wireVars
<1>2. CASE DecoderStep
  BY <1>2 DEF DecoderStep, DecoderNext, OnRawData, OnTemplateInline, OnTemplateDefine,
              OnTemplateRef, OnEpochReset, OnStreamEnd, Receive, wireVars
<1> QED
  BY <1>1, <1>2 DEF Next, Break, Sever, DecoderHangUp, vars, wireVars

\* The requests keep lying in truth one after the other.
LEMMA EndsInvStep ==
    ASSUME TypeOK, EndsInv,
           (truth' = truth /\ ends' = ends) \/ \E r \in Requests : Accept(r)
    PROVE  EndsInv'
<1>1. CASE truth' = truth /\ ends' = ends
  BY <1>1 DEF EndsInv
<1>2. ASSUME NEW r \in Requests, Accept(r) PROVE EndsInv'
  <2>1. truth \in Seq(Seg) /\ ends \in Seq(Nat) /\ Len(truth) \in Nat
    BY DEF TypeOK, WireTypeOK
  <2>2. /\ truth' \in Seq(Seg) /\ Len(truth') = Len(truth) + Len(Items(r))
        /\ Len(Items(r)) > 0
        /\ \A i \in 1..Len(truth) : truth'[i] = truth[i]
        /\ \A i \in 1..Len(Items(r)) : truth'[Len(truth) + i] = Items(r)[i].seg
        /\ ends' = Append(ends, Len(truth'))
    BY <1>2, <2>1, AcceptTruth
  <2>3. PICK t \in Seq(Seg) : t = truth
    BY <2>1
  <2>4. PICK u \in Seq(Seg) : u = truth'
    BY <2>2
  <2>5. \E h \in 1..Len(u) : RequestAt(u, Len(t), h, Len(u))
    BY <2>2, <2>3, <2>4, NewRequest
  <2>6. PICK es \in Seq(Nat) : es = ends
    BY <2>1
  <2>7. Len(t) < Len(u) /\ \A i \in 1..Len(t) : u[i] = t[i]
    <3>1. Len(Items(r)) \in Nat
      BY RequestsAssumption
    <3> QED
      BY <2>1, <2>2, <2>3, <2>4, <3>1
  <2>8. Laid(t, es)
    BY <2>3, <2>6 DEF EndsInv
  <2>9. Laid(u, Append(es, Len(u)))
    BY <2>5, <2>7, <2>8, LaidNext
  <2> QED
    BY <2>2, <2>4, <2>6, <2>9 DEF EndsInv
<1> QED
  BY <1>1, <1>2

-----------------------------------------------------------------------------
(***************************************************************************)
(* The decoder finds the end of a request (feed, flushReqIfComplete).      *)
(***************************************************************************)
\* The bytes of a request's body.
LEMMA BytesType ==
    ASSUME NEW t \in Seq(Seg), \A i \in 1..Len(t) : SegLen(t[i]) > 0,
           NEW h \in Nat, NEW e \in Nat, h <= e, e <= Len(t)
    PROVE  BytesBetween(t, h, e) \in Nat
<1>1. CASE h = e
  BY <1>1, BytesNone
<1>2. CASE h < e
  <2>1. h <= h
    OBVIOUS
  <2> QED
    BY <1>2, <2>1, BytesLess
<1> QED
  BY <1>1, <1>2

\* What is gathered is kept: the header has not ended, or bytes are missing.
LEMMA GatherKeeps ==
    ASSUME NEW q, NEW t, NEW end, NEW len, Gather(q, t, end, len),
           \/ ~(headerDone \/ end > 0)
           \/ ~(end = 0) /\ ~(len < 0) /\ ~(BodyHave(t, end) >= len)
    PROVE  /\ req' = q /\ headerDone' = (headerDone \/ end > 0)
           /\ contentLen' = len /\ bodyHave' = BodyHave(t, end)
           /\ sink' = sink /\ decStatus' = decStatus
BY Zenon DEF Gather, Enough

\* What is gathered is complete.
LEMMA GatherFlushes ==
    ASSUME NEW q, NEW t, NEW end, NEW len, Gather(q, t, end, len),
           headerDone \/ end > 0, ~(end = 0), ~(len < 0), BodyHave(t, end) >= len
    PROVE  Flush(q)
BY Zenon DEF Gather, Enough

\* What the decoder holds of a request with k header lines and a body of B
\* bytes, of which it has C.
Held(q, done, len, have, k, B, C) ==
    /\ ~done => Lines(TextOf(q), Len(q), k, B) /\ len = -1 /\ have = 0
    /\ done => /\ HeaderLen(TextOf(q)) > 0
               /\ have = Len(TextOf(q)) - HeaderLen(TextOf(q))
               /\ len = B /\ have = C

LEMMA GatheringIs ==
    ASSUME NEW a, NEW h, NEW e
    PROVE  Gathering(a, h, e) <=>
              /\ RequestAt(truth, a, h, e)
              /\ a + Len(req) < e
              /\ headerDone <=> h <= a + Len(req)
              /\ Held(req, headerDone, contentLen, bodyHave, h - 1 - a,
                      BytesBetween(truth, h, e), BytesBetween(truth, h, a + Len(req)))
BY DEF Gathering, Held

\* A segment of a request, at position p, is gathered.
Gathers(s, a, p, h, e) ==
    /\ p < e /\ req' = Append(req, s) /\ Len(req') = Len(req) + 1
    /\ sink' = sink /\ decStatus' = decStatus
    /\ headerDone' <=> h <= p
    /\ Held(req', headerDone', contentLen', bodyHave', h - 1 - a,
            BytesBetween(truth, h, e), BytesBetween(truth, h, p))

\* Inside the request after position a, up to e, the decoder gets the segment s
\* at position p, which is the next one.
FeedsInside(a, h, e, p, s) ==
    /\ a \in Nat /\ h \in Nat /\ e \in Nat /\ e <= Len(truth)
    /\ Gathering(a, h, e)
    /\ \A i \in 1..Len(req) : req[i] = truth[a + i]
    /\ p \in Nat /\ p = a + (Len(req) + 1)
    /\ s \in Seg /\ s = truth[p]
    /\ FeedAndFlush(s)

\* It is gathered; the last segment flushes the request.
LEMMA FeedCases ==
    ASSUME DecoderTypeOK, truth \in Seq(Seg), \A i \in 1..Len(truth) : SegLen(truth[i]) > 0,
           NEW a, NEW h, NEW e, NEW p, NEW s, FeedsInside(a, h, e, p, s)
    PROVE  Gathers(s, a, p, h, e) \/ (p = e /\ Flush(Append(req, s)))
<1> DEFINE n == Len(req)
           q == Append(req, s)
           T == TextOf(req)
           x == SegText(s)
           t == TextOf(q)
           end == HeaderLen(t)
           len == LengthOf(t, end)
           have == BodyHave(t, end)
           k == h - 1 - a
           B == BytesBetween(truth, h, e)
           C == BytesBetween(truth, h, p)
<1>0. /\ a \in Nat /\ h \in Nat /\ e \in Nat /\ e <= Len(truth)
      /\ Gathering(a, h, e)
      /\ p \in Nat /\ p = a + (Len(req) + 1)
      /\ s \in Seg /\ s = truth[p]
      /\ FeedAndFlush(s)
  BY DEF FeedsInside
<1>1. /\ req \in Seq(Seg) /\ n \in Nat /\ Len(truth) \in Nat /\ headerDone \in BOOLEAN
      /\ contentLen \in Nat \cup {-1} /\ bodyHave \in Nat
  BY DEF DecoderTypeOK
<1>2. q \in Seq(Seg) /\ Len(q) = n + 1
  BY <1>0, <1>1, AppendProperties
<1>3. /\ RequestAt(truth, a, h, e) /\ a + n < e
      /\ headerDone <=> h <= a + n
      /\ ~headerDone => Lines(T, n, k, B) /\ contentLen = -1 /\ bodyHave = 0
      /\ headerDone => /\ HeaderLen(T) > 0 /\ bodyHave = Len(T) - HeaderLen(T)
                       /\ contentLen = B /\ bodyHave = BytesBetween(truth, h, a + n)
  BY <1>0 DEF Gathering
<1>4. /\ a + 2 <= h /\ h <= e
      /\ \A i \in a + 1..h - 1 : IsHeaderLine(SegText(truth[i]))
      /\ truth[h] = Blank
      /\ \A i \in a + 1..h - 2 : LengthGiven(truth[i]) < 0
      /\ LengthGiven(truth[h - 1]) = B
  BY <1>3 DEF RequestAt
<1>5. /\ p = (a + n) + 1 /\ p <= e /\ p \in 1..Len(truth) /\ p = a + (n + 1)
      /\ a + n \in Nat
  BY <1>0, <1>1, <1>3
<1>6. SegLen(s) > 0 /\ SegLen(s) \in Nat /\ SegLen(s) # 0
  BY <1>0, <1>5, SegLenType
<1>7. Gather(q, t, end, len)
  BY <1>0, <1>6, FeedIs
<1>8. T \in Text /\ x \in Text /\ Len(x) = SegLen(s) /\ t = T \o x /\ t \in Text
  BY <1>0, <1>1, <1>2, TextType, SegTextType, TextNext
<1>9. Len(t) = Len(T) + Len(x) /\ Len(T) \in Nat /\ Len(x) \in Nat
  BY <1>8, TextParts
<1>10. end \in Nat
  BY <1>8, <1>9, HeaderLenIs
<1>11. B \in Nat
  BY <1>0, <1>4, BytesType
<1>12. CASE headerDone
  <2>1. end = HeaderLen(T) /\ end > 0
    BY <1>3, <1>8, <1>12, HeaderStays
  <2>2. len = B
    BY <1>3, <1>12 DEF LengthOf
  <2>3. have = C
    <3>1. have = bodyHave + SegLen(s)
      <4>1. have = Len(t) - end
        BY <2>1 DEF BodyHave
      <4> HIDE DEF have, end, t, T, x
      <4> QED
        BY <1>1, <1>3, <1>6, <1>8, <1>9, <1>10, <1>12, <2>1, <4>1
    <3>2. C = BytesBetween(truth, h, a + n) + SegLen(truth[p])
      <4>1. h <= a + n /\ (a + n) + 1 <= Len(truth)
        BY <1>3, <1>5, <1>12
      <4> QED
        BY <1>0, <1>5, <4>1, BytesNext
    <3> QED
      BY <1>0, <1>3, <1>12, <3>1, <3>2
  <2>4. h <= p
    BY <1>0, <1>3, <1>5, <1>12
  <2>5. ~(end = 0) /\ ~(len < 0)
    <3> HIDE DEF len, end, B
    <3> QED
      BY <1>11, <2>1, <2>2
  <2>6. CASE p = e
    <3>1. have >= len
      <4>1. have = B /\ len = B
        BY <2>2, <2>3, <2>6
      <4> HIDE DEF have, len, B
      <4> QED
        BY <1>11, <4>1
    <3> HIDE DEF q, t, end, len
    <3> QED
      BY <1>7, <1>12, <2>5, <2>6, <3>1, GatherFlushes DEF q
  <2>7. CASE p # e
    <3>1. p < e
      BY <1>0, <1>5, <2>7
    <3>2. C < B /\ C \in Nat
      BY <1>0, <2>4, <3>1, BytesLess
    <3>3. ~(have >= len)
      <4> HIDE DEF have, len, B, C
      <4> QED
        BY <1>11, <2>2, <2>3, <3>2
    <3>4. /\ req' = q /\ headerDone' = TRUE /\ contentLen' = len /\ bodyHave' = have
          /\ sink' = sink /\ decStatus' = decStatus
      <4> HIDE DEF q, t, end, len
      <4> QED
        BY <1>7, <1>12, <2>5, <3>3, GatherKeeps
    <3>5. Held(q, TRUE, len, have, k, B, C)
      <4>1. have = Len(t) - end
        BY <2>1 DEF BodyHave
      <4> HIDE DEF have, len, B, C
      <4> QED
        BY <2>1, <2>2, <2>3, <4>1 DEF Held
    <3> HIDE DEF q, have, len
    <3> QED
      BY <1>2, <2>4, <3>1, <3>4, <3>5 DEF Gathers, q
  <2> QED
    BY <2>6, <2>7
<1>13. CASE ~headerDone
  <2>1. p <= h /\ k \in Nat /\ n <= k /\ k > 0
    BY <1>0, <1>1, <1>3, <1>4, <1>5, <1>13
  <2>2. Lines(T, n, k, B)
    BY <1>3, <1>13
  <2>3. CASE p # h
    <3>1. n < k /\ p \in a + 1..h - 1
      BY <1>0, <1>1, <1>5, <2>1, <2>3
    <3>2. IF n + 1 < k THEN LengthGiven(s) < 0 ELSE LengthGiven(s) = B
      <4>1. CASE n + 1 < k
        <5>1. p \in a + 1..h - 2
          BY <1>0, <1>1, <1>5, <2>1, <4>1
        <5> QED
          BY <1>0, <1>4, <4>1, <5>1
      <4>2. CASE ~(n + 1 < k)
        <5>1. p = h - 1
          BY <1>0, <1>1, <1>5, <2>1, <3>1, <4>2
        <5> QED
          BY <1>0, <1>4, <4>2, <5>1
      <4> QED
        BY <4>1, <4>2
    <3>3. IsHeaderLine(x)
      BY <1>0, <1>4, <3>1
    <3>4. Lines(t, n + 1, k, B)
      <4> HIDE DEF T, x, t, n, k, B
      <4> QED
        BY <1>0, <1>1, <1>8, <1>11, <2>1, <2>2, <3>1, <3>2, <3>3, LinesGrow DEF x
    <3>5. end = 0 /\ ~(headerDone \/ end > 0)
      BY <1>13, <3>4 DEF Lines
    <3>6. len = -1 /\ have = 0
      BY <1>13, <3>5 DEF LengthOf, BodyHave
    <3>7. /\ req' = q /\ headerDone' = FALSE /\ contentLen' = -1 /\ bodyHave' = 0
          /\ sink' = sink /\ decStatus' = decStatus
      <4>1. /\ req' = q /\ headerDone' = (headerDone \/ end > 0) /\ contentLen' = len
            /\ bodyHave' = have /\ sink' = sink /\ decStatus' = decStatus
        <5> HIDE DEF q, t, end, len
        <5> QED
          BY <1>7, <3>5, GatherKeeps
      <4> HIDE DEF q, end, len, have
      <4> QED
        BY <3>5, <3>6, <4>1
    <3>8. Held(q, FALSE, -1, 0, k, B, C)
      BY <1>2, <3>4 DEF Held
    <3>9. p < e /\ ~(h <= p)
      BY <1>0, <1>4, <1>5, <2>1, <2>3
    <3> HIDE DEF q
    <3> QED
      BY <1>2, <3>7, <3>8, <3>9 DEF Gathers, q
  <2>4. CASE p = h
    <3>1. n = k /\ s = Blank
      BY <1>0, <1>1, <1>4, <1>5, <2>4
    <3>2. end = Len(t) /\ end > 0 /\ parseContentLengthFromHeaderString(t) = B
      <4>1. t = T \o SegText(Blank) /\ Lines(T, k, k, B)
        BY <1>8, <2>2, <3>1
      <4> HIDE DEF T, t, k, B
      <4> QED
        BY <1>8, <1>11, <2>1, <4>1, LinesEnd
    <3>3. SubSeq(t, 1, end) = t
      <4>1. SubSeq(t, 1, end) = SubSeq(t, 1, Len(t))
        BY <3>2
      <4> HIDE DEF t, end
      <4> QED
        BY <1>8, <4>1, TextAll
    <3>4. len = B /\ have = 0
      <4>1. len = parseContentLengthFromHeaderString(SubSeq(t, 1, end))
        BY <1>13, <3>2 DEF LengthOf
      <4>2. have = Len(t) - end
        BY <3>2 DEF BodyHave
      <4>3. len = B
        <5> HIDE DEF t, len, end, B
        <5> QED
          BY <3>2, <3>3, <4>1
      <4> HIDE DEF t, len, end, have, B
      <4> QED
        BY <1>9, <1>10, <3>2, <4>2, <4>3
    <3>5. C = 0
      BY <1>0, <2>4, BytesNone
    <3>6. ~(end = 0) /\ ~(len < 0) /\ (headerDone \/ end > 0)
      <4> HIDE DEF len, end, B
      <4> QED
        BY <1>11, <3>2, <3>4
    <3>7. CASE p = e
      <4>1. B = 0
        BY <2>4, <3>5, <3>7
      <4>2. have >= len
        <5> HIDE DEF have, len, B
        <5> QED
          BY <3>4, <4>1
      <4> HIDE DEF q, t, end, len
      <4> QED
        BY <1>7, <3>6, <3>7, <4>2, GatherFlushes DEF q
    <3>8. CASE p # e
      <4>1. p < e /\ h <= p
        BY <1>0, <1>5, <2>4, <3>8
      <4>2. 0 < B
        BY <1>0, <2>4, <3>5, <4>1, BytesLess
      <4>3. ~(have >= len)
        <5> HIDE DEF have, len, B
        <5> QED
          BY <1>11, <3>4, <4>2
      <4>4. /\ req' = q /\ headerDone' = TRUE /\ contentLen' = len /\ bodyHave' = have
            /\ sink' = sink /\ decStatus' = decStatus
        <5>1. /\ req' = q /\ headerDone' = (headerDone \/ end > 0) /\ contentLen' = len
              /\ bodyHave' = have /\ sink' = sink /\ decStatus' = decStatus
          <6> HIDE DEF q, t, end, len
          <6> QED
            BY <1>7, <3>6, <4>3, GatherKeeps
        <5> HIDE DEF q, t, end, len
        <5> QED
          BY <3>6, <5>1
      <4>5. Held(q, TRUE, len, have, k, B, C)
        <5>1. have = Len(t) - end
          BY <3>2 DEF BodyHave
        <5> HIDE DEF have, len, B, C
        <5> QED
          BY <3>2, <3>4, <3>5, <5>1 DEF Held
      <4> HIDE DEF q, have, len
      <4> QED
        BY <1>2, <4>1, <4>4, <4>5 DEF Gathers, q
    <3> QED
      BY <3>7, <3>8
  <2> QED
    BY <2>3, <2>4
<1> QED
  BY <1>12, <1>13

-----------------------------------------------------------------------------
(***************************************************************************)
(* What a step does to the requests, with the opposite lane or without it. *)
(***************************************************************************)
Quiet == UNCHANGED <<truth, ends, sink, gatherVars, decStatus>>

Stops == /\ UNCHANGED <<truth, ends, sink>>
         /\ decStatus = "run" /\ decStatus' # "run"

Feeds == LET p == Len(sink) + (Len(req) + 1)
         IN  /\ UNCHANGED <<truth, ends>>
             /\ decStatus = "run" /\ p <= Len(truth)
             /\ FeedAndFlush(truth[p])

RequestStep == \/ \E r \in Requests : Accept(r) /\ UNCHANGED decVars
               \/ Quiet \/ Stops \/ Feeds

\* The decoder feeds on the segment of truth that comes next.
LEMMA FeedsNext ==
    ASSUME CollisionFree, StreamInv, KeyedById(decTemplates), SinkInv,
           NEW type, type # "TEMPLATE_DEFINE", Receive(type),
           FeedAndFlush(truth[Carried(rd) + 1])
    PROVE  Feeds
<1>1. /\ Carried(rd) \in Nat /\ Carried(rd) + 1 <= Len(truth)
  BY Expansion
<1>2. decStatus = "run" /\ truth' = truth /\ ends' = ends
  BY DEF Receive
<1>3. Len(sink) + Len(req) = Carried(rd) /\ Len(sink) \in Nat /\ Len(req) \in Nat
  BY <1>2 DEF SinkInv, StreamInv, TypeOK, DecoderTypeOK
<1>4. Len(sink) + (Len(req) + 1) = Carried(rd) + 1
  BY <1>3
<1> QED
  BY <1>1, <1>2, <1>4 DEF Feeds

LEMMA LaneRequests ==
    ASSUME CollisionFree, StreamInv, KeyedById(decTemplates), SinkInv, [Next]_vars
    PROVE  RequestStep
<1> DEFINE f == frames[rd + 1]
           c == Carried(rd)
<1>1. CASE EncoderStep
  <2>1. CASE truth' = truth /\ ends' = ends
    BY <1>1, <2>1 DEF EncoderStep, decVars, RequestStep, Quiet
  <2> QED
    BY <1>1, <2>1, OnlyAccepts DEF EncoderStep, RequestStep
<1>2. CASE Break \/ DecoderHangUp \/ UNCHANGED vars
  BY <1>2 DEF Break, Sever, DecoderHangUp, vars, wireVars, decVars, RequestStep, Quiet
<1>3. CASE DecoderStep
  <2>1. CASE OnRawData
    <3>1. Receive("RAW_DATA") /\ FeedAndFlush(f.seg)
      BY <2>1 DEF OnRawData
    <3>2. f.seg = truth[c + 1]
      BY <3>1, Expansion
    <3> QED
      BY <3>1, <3>2, FeedsNext DEF RequestStep
  <2>2. CASE OnTemplateRef
    <3>1. Receive("TEMPLATE_REF")
      BY <2>2 DEF OnTemplateRef
    <3>2. CASE Stop("violation")
      BY <3>1, <3>2 DEF Stop, Receive, RequestStep, Stops
    <3>3. CASE /\ decTemplates[f.tid] # NoPat
               /\ FeedAndFlush([pat |-> decTemplates[f.tid], lane |-> f.lane])
      <4>1. [pat |-> decTemplates[f.tid], lane |-> f.lane] = truth[c + 1]
        BY <3>1, <3>3, Expansion
      <4> QED
        BY <3>1, <3>3, <4>1, FeedsNext DEF RequestStep
    <3> QED
      BY <2>2, <3>2, <3>3 DEF OnTemplateRef
  <2>3. CASE OnTemplateDefine
    BY <2>3 DEF OnTemplateDefine, Receive, RequestStep, Quiet, Stops
  <2>4. CASE OnTemplateInline \/ OnEpochReset
    BY <2>4, FrameKinds DEF OnTemplateInline, OnEpochReset
  <2>5. CASE OnStreamEnd
    BY <2>5 DEF OnStreamEnd, wireVars, RequestStep, Stops
  <2> QED
    BY <1>3, <2>1, <2>2, <2>3, <2>4, <2>5 DEF DecoderStep, DecoderNext
<1> QED
  BY <1>1, <1>2, <1>3 DEF Next

LEMMA OppositeRequests ==
    ASSUME Opposite
    PROVE  RequestStep
<1>1. ASSUME NEW p \in OppositePats,
             OppositeDefines(p) \/ LookupMisses(p) \/ StoreLost(p) \/ DecoderDies(p)
      PROVE  Quiet \/ Stops
  <2>1. CASE OppositeDefines(p)
    BY <2>1 DEF OppositeDefines, wireVars, Quiet
  <2>2. CASE LookupMisses(p)
    BY <2>2 DEF LookupMisses, Receive, Stop, Stops
  <2>3. CASE StoreLost(p)
    BY <2>3 DEF StoreLost, Receive, Quiet
  <2>4. CASE DecoderDies(p)
    BY <2>4 DEF DecoderDies, Undefined, Stops
  <2> QED
    BY <1>1, <2>1, <2>2, <2>3, <2>4
<1>2. CASE OppositeLearns \/ EncoderDies
  BY <1>2 DEF OppositeLearns, EncoderDies, Sever, wireVars, decVars, Quiet, RequestStep
<1> QED
  BY <1>1, <1>2 DEF Opposite, RequestStep

\* Where a request starts.
LEMMA StartType ==
    ASSUME NEW es \in Seq(Nat), NEW k \in 1..Len(es) + 1
    PROVE  Start(es, k) \in Nat
<1>1. CASE k = 1
  BY <1>1 DEF Start
<1>2. CASE k # 1
  <2>1. k - 1 \in 1..Len(es)
    BY <1>2
  <2> QED
    BY <1>2, <2>1 DEF Start
<1> QED
  BY <1>1, <1>2

\* Every request ends within truth.
LEMMA EndsWithin ==
    ASSUME truth \in Seq(Seg), ends \in Seq(Nat), EndsInv, NEW k \in 1..Len(ends)
    PROVE  ends[k] <= Len(truth)
<1> DEFINE n == Len(ends)
<1>1. n \in Nat /\ n \in 1..n /\ n + 1 # 1 /\ (n + 1) - 1 = n
  OBVIOUS
<1>2. Len(truth) = ends[n]
  BY <1>1 DEF EndsInv, Laid, Start
<1>3. k = n \/ k < n
  <2>1. k \in 1..n
    OBVIOUS
  <2> HIDE DEF n
  <2> QED
    BY <1>1, <2>1
<1>4. ends[k] \in Nat /\ ends[n] \in Nat
  BY <1>1
<1>5. \A i, j \in 1..n : i < j => ends[i] < ends[j]
  BY DEF EndsInv, Laid
<1>6. k < n => ends[k] < ends[n]
  BY <1>1, <1>5
<1> QED
  BY <1>2, <1>3, <1>4, <1>6

\* The decoder is inside the k-th request.
LEMMA GatherHere ==
    ASSUME NEW k \in 1..Len(ends'), NEW h \in 1..ends'[k], NEW a, NEW e,
           a = Start(ends', k), e = ends'[k], Len(sink') = a,
           RequestAt(truth', a, h, e), a + Len(req') < e,
           headerDone' <=> h <= a + Len(req'),
           Held(req', headerDone', contentLen', bodyHave', h - 1 - a,
                BytesBetween(truth', h, e), BytesBetween(truth', h, a + Len(req')))
    PROVE  GatherInv'
BY DEF GatherInv, Gathering, Held

\* Nothing is the first 0 lines of any header.
LEMMA NoLines ==
    ASSUME NEW k, 0 < k, NEW len
    PROVE  Lines(TextOf(<<>>), 0, k, len) /\ Len(<<>>) = 0
<1>1. <<>> \in Text /\ Len(<<>>) = 0
  BY EmptySeq DEF Text
<1>2. HeaderLen(<<>>) = 0
  BY <1>1, HeaderLenIs
<1>3. parseContentLengthFromHeaderString(<<>>) = -1
  <2>1. LineStarts(<<>>) = {}
    BY <1>1 DEF LineStarts
  <2> QED
    BY <1>1, <2>1, ParseIs
<1> QED
  BY <1>1, <1>2, <1>3, TextEmpty DEF Lines

\* The decoder is between two requests.
LEMMA GatherRest ==
    ASSUME ends' \in Seq(Nat), EndsInv', AtRest', NEW k \in 1..Len(ends') + 1,
           Len(sink') = Start(ends', k)
    PROVE  GatherInv'
<1>1. CASE k = Len(ends') + 1
  BY <1>1 DEF EndsInv, Laid, GatherInv
<1>2. CASE k # Len(ends') + 1
  <2>1. k \in 1..Len(ends') /\ ends'[k] \in Nat
    BY <1>2
  <2>2. PICK h \in 1..ends'[k] : RequestAt(truth', Start(ends', k), h, ends'[k])
    BY <2>1 DEF EndsInv, Laid
  <2>3. PICK a \in Nat : a = Start(ends', k)
    BY StartType
  <2>4. PICK e \in Nat : e = ends'[k]
    BY <2>1
  <2>5. RequestAt(truth', a, h, e)
    BY <2>2, <2>3, <2>4
  <2>6. a + 2 <= h /\ h <= e
    BY <2>5 DEF RequestAt
  <2>7. Len(req') = 0 /\ ~headerDone' /\ contentLen' = -1 /\ bodyHave' = 0
    BY DEF AtRest
  <2>8. a + Len(req') < e /\ ~(h <= a + Len(req'))
    BY <2>4, <2>6, <2>7
  <2>9. Held(req', headerDone', contentLen', bodyHave', h - 1 - a,
             BytesBetween(truth', h, e), BytesBetween(truth', h, a + Len(req')))
    <3>1. 0 < h - 1 - a
      BY <2>6
    <3>2. req' = <<>>
      BY DEF AtRest
    <3> QED
      BY <2>7, <3>1, <3>2, NoLines DEF Held
  <2> QED
    BY <2>1, <2>3, <2>4, <2>5, <2>7, <2>8, <2>9, GatherHere
<1> QED
  BY <1>1, <1>2

\* A request that is accepted does not disturb the one that is gathered.
LEMMA GatherAccept ==
    ASSUME TypeOK, TypeOK', EndsInv, EndsInv', GatherInv,
           NEW r \in Requests, Accept(r), UNCHANGED decVars
    PROVE  GatherInv'
<1>1. /\ truth \in Seq(Seg) /\ ends \in Seq(Nat) /\ ends' \in Seq(Nat) /\ Len(req) \in Nat
      /\ Len(ends) \in Nat
  <2>1. ends' \in Seq(Nat)
    BY DEF TypeOK, WireTypeOK
  <2>2. truth \in Seq(Seg) /\ ends \in Seq(Nat) /\ req \in Seq(Seg)
    BY DEF TypeOK, WireTypeOK, DecoderTypeOK
  <2> QED
    BY <2>1, <2>2
<1>2. /\ truth' \in Seq(Seg) /\ Len(truth') = Len(truth) + Len(Items(r))
      /\ \A i \in 1..Len(truth) : truth'[i] = truth[i]
      /\ ends' = Append(ends, Len(truth'))
  BY <1>1, AcceptTruth
<1>3. UNCHANGED <<req, headerDone, contentLen, bodyHave, sink, decStatus>>
  BY DEF decVars, gatherVars
<1>4. /\ Len(ends') = Len(ends) + 1 /\ \A k \in 1..Len(ends) : ends'[k] = ends[k]
      /\ ends'[Len(ends) + 1] = Len(truth')
  <2>1. Len(truth') \in Nat
    BY <1>2
  <2> QED
    BY <1>1, <1>2, <2>1, AppendProperties
<1>5. \A k \in 1..Len(ends) + 1 : Start(ends', k) = Start(ends, k)
  <2>1. SUFFICES ASSUME NEW k \in 1..Len(ends) + 1, k # 1 PROVE ends'[k - 1] = ends[k - 1]
    BY DEF Start
  <2>2. k - 1 \in 1..Len(ends)
    BY <1>1, <2>1
  <2> QED
    BY <1>4, <2>2
<1>6. CASE decStatus # "run"
  BY <1>3, <1>6 DEF GatherInv
<1>7. CASE AtRest /\ Len(sink) = Len(truth)
  <2>1. AtRest' /\ Len(sink') = Len(truth)
    BY <1>3, <1>7 DEF AtRest
  <2>2. Len(truth) = Start(ends, Len(ends) + 1)
    BY DEF EndsInv, Laid
  <2>3. PICK k \in 1..Len(ends') + 1 : k = Len(ends) + 1
    BY <1>1, <1>4
  <2>4. Len(sink') = Start(ends', k)
    BY <1>1, <1>5, <2>1, <2>2, <2>3
  <2> QED
    BY <1>1, <2>1, <2>4, GatherRest
<1>8. ASSUME NEW k \in 1..Len(ends), NEW h \in 1..ends[k],
             Len(sink) = Start(ends, k), Gathering(Start(ends, k), h, ends[k])
      PROVE  GatherInv'
  <2>1. PICK a \in Nat : a = Start(ends, k)
    <3>1. k \in 1..Len(ends) + 1
      BY <1>1
    <3> QED
      BY <1>1, <3>1, StartType
  <2>2. PICK e \in Nat : e = ends[k]
    BY <1>1
  <2>3. /\ RequestAt(truth, a, h, e) /\ a + Len(req) < e
        /\ headerDone <=> h <= a + Len(req)
        /\ Held(req, headerDone, contentLen, bodyHave, h - 1 - a,
                BytesBetween(truth, h, e), BytesBetween(truth, h, a + Len(req)))
    BY <1>8, <2>1, <2>2, GatheringIs
  <2>4. h \in Nat /\ e <= Len(truth) /\ Len(truth) <= Len(truth')
    <3>1. e <= Len(truth)
      BY <1>1, <2>2, EndsWithin
    <3>2. Len(Items(r)) \in Nat /\ Len(truth) \in Nat
      BY <1>1, RequestsAssumption
    <3> QED
      BY <1>1, <1>2, <3>1, <3>2
  <2>5. PICK m \in Nat : m = a + Len(req)
    BY <1>1
  <2>6. m < e
    BY <2>3, <2>5
  <2>7. RequestAt(truth', a, h, e)
    BY <1>1, <1>2, <2>3, <2>4, RequestStays
  <2>8. BytesBetween(truth', h, e) = BytesBetween(truth, h, e)
    BY <1>1, <1>2, <2>4, BytesSame
  <2>9. BytesBetween(truth', h, m) = BytesBetween(truth, h, m)
    <3>1. m <= Len(truth)
      BY <1>1, <2>4, <2>6
    <3> QED
      BY <1>1, <1>2, <2>4, <3>1, BytesSame
  <2>10. /\ k \in 1..Len(ends') /\ h \in 1..ends'[k] /\ a = Start(ends', k) /\ e = ends'[k]
         /\ Len(sink') = a /\ Len(req') = Len(req)
    <3>1. k \in 1..Len(ends) + 1 /\ k \in 1..Len(ends')
      BY <1>1, <1>4
    <3>2. ends'[k] = ends[k] /\ Start(ends', k) = Start(ends, k)
      BY <1>4, <1>5, <3>1
    <3> QED
      BY <1>3, <1>8, <2>1, <2>2, <3>1, <3>2
  <2>11. /\ headerDone' <=> h <= a + Len(req')
         /\ Held(req', headerDone', contentLen', bodyHave', h - 1 - a,
                 BytesBetween(truth', h, e), BytesBetween(truth', h, a + Len(req')))
         /\ a + Len(req') < e
    BY <1>3, <2>3, <2>5, <2>8, <2>9, <2>10
  <2> QED
    BY <2>7, <2>10, <2>11, GatherHere
<1> QED
  BY <1>6, <1>7, <1>8 DEF GatherInv

\* The decoder goes on gathering, or delivers the request whole, or fails while
\* it writes it; it never finds fault with it.
LEMMA FeedOutcome ==
    ASSUME StreamInv, SinkInv, EndsInv, GatherInv, Feeds
    PROVE  /\ GatherInv'
           /\ \/ decStatus' = "run" /\ sink' = sink
              \/ /\ decStatus' = "run"
                 /\ \E k \in 1..Len(ends) : Len(sink) = Start(ends, k) /\ Len(sink') = ends[k]
              \/ /\ decStatus' = "sinkfail"
                 /\ \E k \in 1..Len(ends) :
                       Len(sink) = Start(ends, k) /\ Len(sink') \in Len(sink)..ends[k] - 1
<1>1. /\ DecoderTypeOK /\ truth \in Seq(Seg) /\ ends \in Seq(Nat)
      /\ sink \in Seq(Seg) /\ req \in Seq(Seg)
      /\ Len(sink) \in Nat /\ Len(req) \in Nat /\ Len(truth) \in Nat /\ Len(ends) \in Nat
      /\ \A i \in 1..Len(truth) : SegLen(truth[i]) > 0
  BY DEF StreamInv, TodoInv, TypeOK, WireTypeOK, DecoderTypeOK
<1>2. PICK p \in Nat : p = Len(sink) + (Len(req) + 1)
  BY <1>1
<1>3. /\ truth' = truth /\ ends' = ends /\ decStatus = "run" /\ p <= Len(truth)
      /\ FeedAndFlush(truth[p])
  BY <1>2 DEF Feeds
<1>4. \A i \in 1..Len(req) : req[i] = truth[Len(sink) + i]
  BY <1>3 DEF SinkInv
<1>50. PICK k \in 1..Len(ends) : \E h \in 1..ends[k] :
         Len(sink) = Start(ends, k) /\ Gathering(Start(ends, k), h, ends[k])
  <2>1. ~(AtRest /\ Len(sink) = Len(truth))
    <3>1. p >= Len(sink) + 1
      BY <1>1, <1>2
    <3> QED
      BY <1>1, <1>3, <3>1
  <2> QED
    BY <1>3, <2>1 DEF GatherInv
<1>5. PICK h \in 1..ends[k] :
         Len(sink) = Start(ends, k) /\ Gathering(Start(ends, k), h, ends[k])
  BY <1>50
<1>6. PICK a \in Nat : a = Start(ends, k) /\ a = Len(sink)
  BY <1>1, <1>5
<1>7. PICK e \in Nat : e = ends[k]
  BY <1>1
<1>8. PICK s \in Seg : s = truth[p]
  <2>1. p \in 1..Len(truth)
    BY <1>1, <1>2, <1>3
  <2> QED
    BY <1>1, <2>1
<1>9. h \in Nat /\ e <= Len(truth)
  <2>1. e <= Len(truth)
    BY <1>1, <1>7, EndsWithin
  <2> QED
    BY <1>7, <2>1
<1>10. Gathers(s, a, p, h, e) \/ (p = e /\ Flush(Append(req, s)))
  <2>1. /\ Gathering(a, h, e) /\ FeedAndFlush(s) /\ p = a + (Len(req) + 1)
        /\ \A i \in 1..Len(req) : req[i] = truth[a + i]
    BY <1>2, <1>3, <1>4, <1>5, <1>6, <1>7, <1>8
  <2>2. FeedsInside(a, h, e, p, s)
    BY <1>2, <1>8, <1>9, <2>1 DEF FeedsInside
  <2> QED
    BY <1>1, <2>2, FeedCases
<1>11. CASE Gathers(s, a, p, h, e)
  <2>1. a + Len(req') = p /\ Len(sink') = a /\ p < e /\ decStatus' = "run" /\ sink' = sink
    BY <1>2, <1>3, <1>6, <1>11 DEF Gathers
  <2>2. /\ headerDone' <=> h <= p
        /\ Held(req', headerDone', contentLen', bodyHave', h - 1 - a,
                BytesBetween(truth, h, e), BytesBetween(truth, h, p))
    BY <1>11 DEF Gathers
  <2>3. RequestAt(truth, a, h, e)
    BY <1>5, <1>6, <1>7 DEF Gathering
  <2>4. /\ k \in 1..Len(ends') /\ h \in 1..ends'[k] /\ a = Start(ends', k) /\ e = ends'[k]
        /\ Len(sink') = a /\ RequestAt(truth', a, h, e) /\ a + Len(req') < e
    BY <1>3, <1>5, <1>6, <1>7, <2>1, <2>3
  <2>5. /\ headerDone' <=> h <= a + Len(req')
        /\ Held(req', headerDone', contentLen', bodyHave', h - 1 - a,
                BytesBetween(truth', h, e), BytesBetween(truth', h, a + Len(req')))
    BY <1>3, <2>1, <2>2
  <2>6. GatherInv'
    BY <2>4, <2>5, GatherHere
  <2> QED
    BY <2>1, <2>6
<1>12. CASE p = e /\ Flush(Append(req, s))
  <2> DEFINE q == Append(req, s)
  <2>1. q \in Seq(Seg) /\ Len(q) = Len(req) + 1 /\ a + Len(q) = e
    BY <1>1, <1>2, <1>6, <1>8, <1>12, AppendProperties
  <2> HIDE DEF q
  <2>2. CASE sink' = sink \o q /\ resetReq /\ UNCHANGED decStatus
    <3>1. Len(sink') = e
      <4>1. Len(sink \o q) = Len(sink) + Len(q)
        <5>1. sink \in Seq(Seg) /\ q \in Seq(Seg)
          BY <1>1, <2>1
        <5> QED
          BY ONLY <5>1
      <4> QED
        BY <1>6, <2>1, <2>2, <4>1
    <3>2. AtRest'
      BY <2>2 DEF resetReq, AtRest
    <3>3. PICK j \in 1..Len(ends) + 1 : j = k + 1
      BY <1>1, <1>5
    <3>4. Len(sink') = Start(ends', j)
      <4>1. j # 1 /\ j - 1 = k
        BY <1>5, <3>3
      <4> QED
        BY <1>3, <1>7, <3>1, <4>1 DEF Start
    <3>5. EndsInv' /\ ends' \in Seq(Nat) /\ j \in 1..Len(ends') + 1
      BY <1>1, <1>3 DEF EndsInv
    <3>6. GatherInv'
      BY <3>2, <3>4, <3>5, GatherRest
    <3> QED
      BY <1>3, <1>5, <1>7, <2>2, <3>1, <3>6
  <2>3. CASE decStatus' = "sinkfail" /\ \E n \in 0..(Len(q) - 1) : sink' = sink \o SubSeq(q, 1, n)
    <3>1. PICK n \in 0..(Len(q) - 1) : sink' = sink \o SubSeq(q, 1, n)
      BY <2>3
    <3>2. SubSeq(q, 1, n) \in Seq(Seg) /\ Len(SubSeq(q, 1, n)) = n
      BY <1>1, <2>1
    <3>3. Len(sink') = Len(sink) + n
      <4>1. PICK x \in Seq(Seg) : x = SubSeq(q, 1, n) /\ Len(x) = n
        BY <3>2
      <4>2. sink \in Seq(Seg) /\ x \in Seq(Seg)
        BY <1>1
      <4>3. Len(sink \o x) = Len(sink) + Len(x)
        BY ONLY <4>2
      <4> QED
        BY <3>1, <4>1, <4>3
    <3>4. Len(sink') \in Len(sink)..ends[k] - 1
      <4>1. /\ Len(sink) = a /\ Len(sink') = a + n /\ ends[k] = e
        BY <1>6, <1>7, <3>3
      <4>2. PICK m \in Nat : m = Len(q)
        BY <2>1
      <4>3. a \in Nat /\ e \in Nat /\ m \in Nat /\ n \in 0..m - 1 /\ a + m = e
        BY <2>1, <4>2
      <4>4. a + n \in a..e - 1
        BY ONLY <4>3
      <4> QED
        BY <4>1, <4>4
    <3>5. GatherInv'
      BY <2>3 DEF GatherInv
    <3> QED
      BY <1>5, <2>3, <3>4, <3>5
  <2> QED
    BY <1>12, <2>2, <2>3 DEF Flush, q
<1> QED
  BY <1>10, <1>11, <1>12

\* Every step keeps the requests in place, the decoder inside the right one,
\* and only whole requests at the destination.
LEMMA RequestInvStep ==
    ASSUME StreamInv, StreamInv', SinkInv, EndsInv, GatherInv, WholeRequests, RequestStep
    PROVE  EndsInv' /\ GatherInv' /\ WholeRequests'
<1>1. /\ TypeOK /\ TypeOK' /\ truth \in Seq(Seg) /\ ends \in Seq(Nat)
      /\ DOMAIN ends = 1..Len(ends)
  BY DEF StreamInv, TypeOK, WireTypeOK
<1>2. ASSUME NEW r \in Requests, Accept(r), UNCHANGED decVars
      PROVE  EndsInv' /\ GatherInv' /\ WholeRequests'
  <2>1. EndsInv'
    BY <1>1, <1>2, EndsInvStep
  <2>2. GatherInv'
    BY <1>1, <1>2, <2>1, GatherAccept
  <2>3. ends' = Append(ends, Len(truth')) /\ sink' = sink /\ decStatus' = decStatus
    BY <1>1, <1>2, AcceptTruth DEF decVars
  <2>4. \A k \in DOMAIN ends : k \in DOMAIN ends' /\ ends'[k] = ends[k]
    BY <1>1, <2>3 DEF TypeOK, WireTypeOK
  <2>5. WholeRequests'
    BY <2>3, <2>4 DEF WholeRequests
  <2> QED
    BY <2>1, <2>2, <2>5
<1>3. CASE Quiet
  <2>1. truth' = truth /\ ends' = ends /\ sink' = sink /\ decStatus' = decStatus
    BY <1>3 DEF Quiet
  <2>2. req' = req /\ headerDone' = headerDone /\ contentLen' = contentLen /\ bodyHave' = bodyHave
    BY <1>3 DEF Quiet, gatherVars
  <2>3. EndsInv' /\ WholeRequests'
    BY <2>1 DEF EndsInv, WholeRequests
  <2>4. GatherInv'
    BY <2>1, <2>2 DEF GatherInv, AtRest, Gathering
  <2> QED
    BY <2>3, <2>4
<1>4. CASE Stops
  BY <1>4 DEF Stops, EndsInv, GatherInv, WholeRequests
<1>5. CASE Feeds
  <2>1. truth' = truth /\ ends' = ends /\ decStatus = "run"
    BY <1>5 DEF Feeds
  <2>2. EndsInv'
    BY <2>1 DEF EndsInv
  <2>3. /\ GatherInv'
        /\ \/ decStatus' = "run" /\ sink' = sink
           \/ \E k \in 1..Len(ends) : Len(sink') = ends[k]
           \/ decStatus' = "sinkfail"
    BY <1>5, FeedOutcome
  <2>4. WholeRequests'
    BY <1>1, <2>1, <2>3 DEF WholeRequests
  <2> QED
    BY <2>2, <2>3, <2>4
<1> QED
  BY <1>2, <1>3, <1>4, <1>5 DEF RequestStep

-----------------------------------------------------------------------------
(***************************************************************************)
(* A pipe for whole requests.                                              *)
(***************************************************************************)
LEMMA PrefixIs ==
    ASSUME NEW t \in Seq(Seg), NEW s \in Seq(Seg), Len(s) <= Len(t),
           \A i \in 1..Len(s) : s[i] = t[i]
    PROVE  s = SubSeq(t, 1, Len(s))
<1>1. /\ SubSeq(t, 1, Len(s)) \in Seq(Seg) /\ Len(SubSeq(t, 1, Len(s))) = Len(s)
      /\ \A i \in 1..Len(s) : SubSeq(t, 1, Len(s))[i] = t[i]
  OBVIOUS
<1> QED
  BY <1>1, SeqEqual

\* Where a request ends, seen from where one starts.
LEMMA EndsBeyond ==
    ASSUME NEW es \in Seq(Nat), \A i, j \in 1..Len(es) : i < j => es[i] < es[j],
           NEW k \in 1..Len(es), NEW j \in 1..Len(es), Start(es, k) < es[j]
    PROVE  es[k] <= es[j]
<1>1. es[k] \in Nat /\ es[j] \in Nat
  OBVIOUS
<1>2. CASE j < k
  <2>1. PICK m \in 1..Len(es) : m = k - 1 /\ k # 1
    BY <1>2
  <2>2. Start(es, k) = es[m] /\ es[m] \in Nat
    BY <2>1 DEF Start
  <2>3. j = m \/ j < m
    BY <1>2, <2>1
  <2>4. es[j] <= es[m]
    BY <1>1, <2>2, <2>3
  <2> QED
    BY <1>1, <2>2, <2>4
<1>3. CASE j = k
  BY <1>1, <1>3
<1>4. CASE k < j
  BY <1>1, <1>4
<1> QED
  BY <1>2, <1>3, <1>4

\* Every step is a step of the pipe, or none at all.
LEMMA PipeStep ==
    ASSUME StreamInv, TypeOK', SinkInv, ByteExact, ByteExact', EndsInv, GatherInv, RequestStep
    PROVE  [Pipe!Next]_(Pipe!pipeVars)
<1>0. sink' \in Seq(Seg)
  BY DEF TypeOK, DecoderTypeOK
<1>1. /\ truth \in Seq(Seg) /\ ends \in Seq(Nat) /\ sink \in Seq(Seg) /\ sink' \in Seq(Seg)
      /\ DOMAIN ends = 1..Len(ends) /\ Len(sink) \in Nat /\ Len(sink') \in Nat
      /\ Len(truth) \in Nat
  <2>1. truth \in Seq(Seg) /\ ends \in Seq(Nat) /\ sink \in Seq(Seg)
    BY DEF StreamInv, TypeOK, WireTypeOK, DecoderTypeOK
  <2> QED
    BY <1>0, <2>1
<1>2. /\ Len(sink) <= Len(truth) /\ Len(sink') <= Len(truth')
      /\ \A i \in 1..Len(sink') : sink'[i] = truth'[i]
  BY DEF ByteExact
<1>3. ASSUME truth' = truth PROVE sink' = SubSeq(truth, 1, Len(sink'))
  BY <1>1, <1>2, <1>3, PrefixIs
<1>4. ASSUME NEW r \in Requests, Accept(r), UNCHANGED decVars
      PROVE  Pipe!Accept
  <2>1. /\ truth' \in Seq(Seg) /\ Len(truth') = Len(truth) + Len(Items(r))
        /\ Len(Items(r)) > 0
        /\ \A i \in 1..Len(truth) : truth'[i] = truth[i]
        /\ ends' = Append(ends, Len(truth'))
    BY <1>1, <1>4, AcceptTruth
  <2>2. Len(Items(r)) \in Nat
    BY RequestsAssumption
  <2>3. Len(truth') > Len(truth) /\ Len(truth') \in Nat
    BY <1>1, <2>1, <2>2
  <2>4. SubSeq(truth', 1, Len(truth)) = truth
    BY <1>1, <2>1, <2>3, PrefixIs
  <2>5. \A i \in Len(truth) + 1..Len(truth') : truth'[i] \in Seg
    BY <1>1, <2>1, <2>3
  <2>6. sink' = sink /\ decStatus' = decStatus
    BY <1>4 DEF decVars
  <2> QED
    BY <2>1, <2>3, <2>4, <2>5, <2>6 DEF Pipe!Accept
<1>5. CASE Quiet
  BY <1>5 DEF Quiet, Pipe!pipeVars
<1>6. CASE Stops
  <2>1. /\ truth' = truth /\ ends' = ends /\ sink' = sink
        /\ decStatus = "run" /\ decStatus' # "run"
    BY <1>6 DEF Stops
  <2>2. PICK n \in Len(sink)..Len(truth) : n = Len(sink)
    BY <1>1, <1>2
  <2>3. sink' = SubSeq(truth, 1, n)
    BY <1>3, <2>1, <2>2
  <2>4. \A k \in DOMAIN ends : Len(sink) < ends[k] => n < ends[k]
    BY <2>2
  <2>5. Pipe!Break
    BY <2>1, <2>3, <2>4 DEF Pipe!Break
  <2> QED
    BY <2>5 DEF Pipe!Next
<1>7. CASE Feeds
  <2>1. truth' = truth /\ ends' = ends /\ decStatus = "run"
    BY <1>7 DEF Feeds
  <2>2. sink' = SubSeq(truth, 1, Len(sink'))
    BY <1>3, <2>1
  <2>3. CASE decStatus' = "run" /\ sink' = sink
    BY <2>1, <2>3 DEF Pipe!pipeVars
  <2>4. ASSUME NEW k \in 1..Len(ends), decStatus' = "run",
               Len(sink) = Start(ends, k), Len(sink') = ends[k]
        PROVE  Pipe!Deliver
    <3>1. /\ k \in DOMAIN ends /\ Len(sink) = (IF k = 1 THEN 0 ELSE ends[k - 1])
          /\ sink' = SubSeq(truth, 1, ends[k])
      BY <1>1, <2>2, <2>4 DEF Start
    <3> QED
      BY <2>1, <2>4, <3>1 DEF Pipe!Deliver
  <2>5. ASSUME NEW k \in 1..Len(ends), decStatus' = "sinkfail",
               Len(sink) = Start(ends, k), Len(sink') \in Len(sink)..ends[k] - 1
        PROVE  Pipe!Break
    <3>1. PICK n \in Len(sink)..Len(truth) : n = Len(sink')
      BY <1>1, <1>2, <2>1, <2>5
    <3>2. ASSUME NEW j \in DOMAIN ends, Len(sink) < ends[j] PROVE n < ends[j]
      <4>1. ends[k] <= ends[j]
        BY <1>1, <2>5, <3>2, EndsBeyond DEF EndsInv, Laid
      <4>2. ends[k] \in Nat /\ ends[j] \in Nat
        BY <1>1
      <4> QED
        BY <1>1, <2>5, <3>1, <4>1, <4>2
    <3>3. sink' = SubSeq(truth, 1, n)
      BY <2>2, <3>1
    <3> QED
      BY <2>1, <2>5, <3>2, <3>3 DEF Pipe!Break
  <2> QED
    BY <1>7, <2>3, <2>4, <2>5, FeedOutcome DEF Pipe!Next
<1> QED
  BY <1>4, <1>5, <1>6, <1>7 DEF RequestStep, Pipe!Next

-----------------------------------------------------------------------------
(***************************************************************************)
(* The decoder accepts what the encoder says.                              *)
(***************************************************************************)
\* A segment whose definition would be sent has one that can be read.
Readies(s) == (s.pat # NoPat /\ DefineFits(s)) => Encodable(s.pat)

LEMMA EncodableIs ==
    EncodableInv <=> /\ \A i \in 1..Len(todo) : Readies(todo[i].seg)
                     /\ \A j \in 1..Len(frames) : IsDefine(j) => Encodable(frames[j].pat)
BY DEF EncodableInv, Readies

\* A step that leaves the stream and the work list alone.
LEMMA EncodableSame ==
    ASSUME EncodableInv, todo' = todo, frames' = frames
    PROVE  EncodableInv'
BY DEF EncodableInv, IsDefine

\* The encoder sends a segment.
LEMMA EncodableEmit ==
    ASSUME StreamInv, EncodableInv, Emit
    PROVE  EncodableInv'
<1>1. /\ TypeOK /\ MarkInv /\ TodoInv /\ EncoderTypeOK /\ Len(frames) \in Nat
      /\ todo \in Seq(Item) /\ Len(todo) \in Nat
  BY DEF StreamInv, TypeOK, WireTypeOK, EncoderTypeOK
<1>2. todo # <<>>
  BY <1>1, EmitCases
<1>3. /\ Next1 = todo[1].seg /\ 1 \in 1..Len(todo)
      /\ Len(Tail(todo)) = Len(todo) - 1
      /\ \A i \in 1..Len(Tail(todo)) : Tail(todo)[i] = todo[i + 1]
      /\ Next1.pat \in Patterns => NextId \in Ids
  BY <1>1, <1>2, NextType
<1>4. Readies(Next1)
  BY <1>3, EncodableIs
<1>5. \A i \in 1..Len(Tail(todo)) : Readies(Tail(todo)[i].seg)
  <2>1. SUFFICES ASSUME NEW i \in 1..Len(Tail(todo)) PROVE Readies(Tail(todo)[i].seg)
    OBVIOUS
  <2>2. i + 1 \in 1..Len(todo) /\ Tail(todo)[i] = todo[i + 1]
    BY <1>1, <1>3
  <2> QED
    BY <2>2, EncodableIs
<1>6. ASSUME todo' = Tail(todo), NEW n \in Nat, Len(frames') = Len(frames) + n,
             \A j \in 1..Len(frames) : frames'[j] = frames[j],
             \A j \in Len(frames) + 1..Len(frames) + n :
                frames'[j].type = "TEMPLATE_DEFINE" => Encodable(frames'[j].pat)
      PROVE  EncodableInv'
  <2>1. \A i \in 1..Len(todo') : Readies(todo'[i].seg)
    BY <1>5, <1>6
  <2>2. ASSUME NEW j \in 1..Len(frames'), frames'[j].type = "TEMPLATE_DEFINE"
        PROVE  Encodable(frames'[j].pat)
    <3>1. CASE j \in 1..Len(frames)
      BY <1>6, <2>2, <3>1, EncodableIs DEF IsDefine
    <3>2. CASE j \notin 1..Len(frames)
      <4>1. j \in Len(frames) + 1..Len(frames) + n
        BY <1>1, <1>6, <3>2
      <4> QED
        BY <1>6, <2>2, <4>1
    <3> QED
      BY <3>1, <3>2
  <2> QED
    BY <2>1, <2>2 DEF EncodableInv, Readies, IsDefine
<1>7. CASE Fails
  BY <1>7, EncodableSame DEF Fails, NoMore
<1>8. ASSUME NEW data, More(<<>>, data),
             \/ data = RawData(Next1)
             \/ data = TemplateRef(NextId, Next1.lane) /\ Next1.pat \in Patterns
      PROVE  EncodableInv'
  <2>1. data \in Frame /\ data.type \in DataTypes /\ data.type # "TEMPLATE_DEFINE"
    BY <1>1, <1>2, <1>8, NewFrame DEF DataTypes
  <2>2. /\ Len(frames') = Len(frames) + 1
        /\ \A j \in 1..Len(frames) : frames'[j] = frames[j]
        /\ frames'[Len(frames) + 1] = data
    BY <1>1, <1>2, <1>8, <2>1, OneMore
  <2>3. \A j \in Len(frames) + 1..Len(frames) + 1 : frames'[j].type # "TEMPLATE_DEFINE"
    <3>1. \A j \in Len(frames) + 1..Len(frames) + 1 : j = Len(frames) + 1
      BY <1>1
    <3> QED
      BY <2>1, <2>2, <3>1
  <2>4. todo' = Tail(todo)
    BY <1>8 DEF More
  <2> QED
    BY <1>6, <2>2, <2>3, <2>4
<1>9. ASSUME NEW data, SendsDefine(data),
             data = RawData(Next1) \/ data = TemplateRef(NextId, Next1.lane)
      PROVE  EncodableInv'
  <2> DEFINE def == TemplateDefine(NextId, Next1.pat)
  <2>1. Next1.pat \in Patterns /\ DefineFits(Next1) /\ More(<<def>>, data)
    BY <1>9 DEF SendsDefine
  <2>2. data \in Frame /\ data.type \in DataTypes /\ data.type # "TEMPLATE_DEFINE"
    BY <1>1, <1>2, <1>9, <2>1, NewFrame DEF DataTypes
  <2>3. def \in Frame /\ def.type = "TEMPLATE_DEFINE" /\ def.pat = Next1.pat
    BY <1>3, <2>1, FrameTypes DEF TemplateDefine
  <2> HIDE DEF def
  <2>4. /\ Len(frames') = Len(frames) + 2
        /\ \A j \in 1..Len(frames) : frames'[j] = frames[j]
        /\ frames'[Len(frames) + 1] = def
        /\ frames'[Len(frames) + 2] = data
    BY <1>1, <1>2, <2>1, <2>2, <2>3, TwoMore
  <2>5. Encodable(def.pat)
    <3>1. Next1.pat # NoPat
      BY <2>1, PatternsAssumption
    <3> QED
      BY <1>4, <2>1, <2>3, <3>1 DEF Readies
  <2>6. \A j \in Len(frames) + 1..Len(frames) + 2 :
           frames'[j].type = "TEMPLATE_DEFINE" => Encodable(frames'[j].pat)
    <3>1. \A j \in Len(frames) + 1..Len(frames) + 2 :
             j = Len(frames) + 1 \/ j = Len(frames) + 2
      BY <1>1
    <3> QED
      BY <2>2, <2>4, <2>5, <3>1
  <2>7. todo' = Tail(todo)
    BY <2>1 DEF More
  <2> QED
    BY <1>6, <2>4, <2>6, <2>7
<1> QED
  BY <1>1, <1>7, <1>8, <1>9, EmitCases DEF SendsRaw, SendsRef

LEMMA EncodableInvInit == Init => EncodableInv
BY DEF Init, LaneInit, WireInit, EncoderInit, EncodableInv

LEMMA EncodableInvStep ==
    ASSUME DefinitionsFit, StreamInv, EncodableInv, [Next]_vars
    PROVE  EncodableInv'
<1>1. ASSUME NEW r \in Requests, Accept(r) PROVE EncodableInv'
  <2>1. todo' = Items(r) /\ frames' = frames
    BY <1>1 DEF Accept
  <2>2. \A i \in 1..Len(Items(r)) : Readies(Items(r)[i].seg)
    BY DEF DefinitionsFit, Readies
  <2> QED
    BY <2>1, <2>2 DEF EncodableInv, Readies, IsDefine
<1>2. CASE EncoderStep
  <2>1. CASE SourceEnd
    BY <2>1, EncodableSame DEF SourceEnd, wireVars
  <2> QED
    BY <1>1, <1>2, <2>1, EncodableEmit DEF EncoderStep, EncoderNext
<1>3. CASE DecoderStep
  BY <1>3, EncodableSame DEF DecoderStep, DecoderNext, OnRawData, OnTemplateInline,
        OnTemplateDefine, OnTemplateRef, OnEpochReset, OnStreamEnd, Receive, wireVars, encVars
<1>4. CASE Break \/ DecoderHangUp \/ UNCHANGED vars
  BY <1>4, EncodableSame DEF Break, Sever, DecoderHangUp, vars, wireVars, encVars
<1> QED
  BY <1>2, <1>3, <1>4 DEF Next

\* A step of the decoder reports no violation.
LEMMA NoViolationStep ==
    ASSUME CollisionFree, StreamInv, KeyedById(decTemplates), SinkInv, RefsResolve,
           EndsInv, GatherInv, EncodableInv, NoViolation, [Next]_vars
    PROVE  NoViolation'
<1> DEFINE f == frames[rd + 1]
           c == Carried(rd)
<1>1. CASE EncoderStep \/ Break \/ DecoderHangUp \/ UNCHANGED vars
  BY <1>1 DEF EncoderStep, Break, DecoderHangUp, vars, decVars, NoViolation
<1>2. ASSUME NEW type, type # "TEMPLATE_DEFINE", Receive(type), FeedAndFlush(truth[c + 1])
      PROVE  NoViolation'
  <2>1. Feeds
    BY <1>2, FeedsNext
  <2> QED
    BY <2>1, FeedOutcome DEF NoViolation
<1>3. CASE OnRawData
  <2>1. Receive("RAW_DATA") /\ FeedAndFlush(f.seg)
    BY <1>3 DEF OnRawData
  <2>2. f.seg = truth[c + 1]
    BY <2>1, Expansion
  <2> QED
    BY <1>2, <2>1, <2>2
<1>4. CASE OnTemplateRef
  <2>1. Receive("TEMPLATE_REF") /\ decStatus = "run" /\ Readable /\ f.type = "TEMPLATE_REF"
    BY <1>4 DEF OnTemplateRef, Receive
  <2>2. decTemplates[f.tid] # NoPat
    BY <2>1 DEF RefsResolve
  <2>3. FeedAndFlush([pat |-> decTemplates[f.tid], lane |-> f.lane])
    BY <1>4, <2>2 DEF OnTemplateRef
  <2>4. [pat |-> decTemplates[f.tid], lane |-> f.lane] = truth[c + 1]
    BY <2>1, <2>2, Expansion
  <2> QED
    BY <1>2, <2>1, <2>3, <2>4
<1>5. CASE OnTemplateDefine
  <2>1. Receive("TEMPLATE_DEFINE")
    BY <1>5 DEF OnTemplateDefine
  <2>2. rd + 1 \in 1..Len(frames) /\ IsDefine(rd + 1)
    BY <2>1, FrameKinds DEF IsDefine
  <2>3. Encodable(f.pat)
    BY <2>2, EncodableIs
  <2>4. decStatus' = decStatus
    BY <1>5, <2>3 DEF OnTemplateDefine
  <2> QED
    BY <2>4 DEF NoViolation
<1>6. CASE OnTemplateInline \/ OnEpochReset
  BY <1>6, FrameKinds DEF OnTemplateInline, OnEpochReset
<1>7. CASE OnStreamEnd
  BY <1>7 DEF OnStreamEnd, NoViolation
<1> QED
  BY <1>1, <1>3, <1>4, <1>5, <1>6, <1>7 DEF Next, DecoderStep, DecoderNext

-----------------------------------------------------------------------------
(***************************************************************************)
(* The theorems.                                                           *)
(***************************************************************************)
\* Where the requests lie, where the decoder is, and what was delivered.
WholeInv == EndsInv /\ GatherInv /\ WholeRequests

LEMMA WholeInvInit == Init => WholeInv
<1> SUFFICES ASSUME Init PROVE WholeInv
  OBVIOUS
<1>1. /\ truth = <<>> /\ sink = <<>> /\ req = <<>> /\ headerDone = FALSE
      /\ contentLen = -1 /\ bodyHave = 0
  BY DEF Init, LaneInit, WireInit, DecoderInit
<1>2. GatherInv
  BY <1>1 DEF GatherInv, AtRest
<1>3. WholeRequests
  BY <1>1 DEF WholeRequests
<1> QED
  BY <1>2, <1>3, EndsInvInit DEF WholeInv

\* The invariant holds throughout, when no two patterns share a template id.
THEOREM WholeInvariance ==
    ASSUME CollisionFree
    PROVE  Spec => []WholeInv
<1>1. IInv /\ IInv' /\ WholeInv /\ [Next]_vars => WholeInv'
  <2> SUFFICES ASSUME IInv, IInv', WholeInv, [Next]_vars PROVE WholeInv'
    OBVIOUS
  <2>1. StreamInv /\ StreamInv' /\ KeyedById(decTemplates) /\ SinkInv
    BY DEF IInv, TemplatesInv
  <2>2. RequestStep
    BY <2>1, LaneRequests
  <2> QED
    BY <2>1, <2>2, RequestInvStep DEF WholeInv
<1> QED
  BY <1>1, WholeInvInit, Invariance, PTL DEF Spec

\* flushReqIfComplete: when no two patterns share a template id, the
\* destination never sees a piece of a request, unless its own connection
\* failed while the request was being written; whatever the lengths of headers
\* and bodies, and however the stream is cut.
THEOREM WholeDelivered ==
    ASSUME CollisionFree
    PROVE  Spec => []WholeRequests
<1>1. WholeInv => WholeRequests
  BY DEF WholeInv
<1> QED
  BY <1>1, WholeInvariance, PTL

\* The decoder accepts everything the encoder says: when no two patterns share
\* a template id, and every definition that fits a frame has constants that fit
\* their length fields, none of the protocol violations of decode_v1.go is ever
\* reported.
THEOREM NothingRefused ==
    ASSUME CollisionFree, DefinitionsFit
    PROVE  Spec => []NoViolation
<1> DEFINE I == EncodableInv /\ NoViolation
<1>1. Init => I
  <2>1. Init => NoViolation
    BY DEF Init, LaneInit, DecoderInit, NoViolation
  <2> QED
    BY <2>1, EncodableInvInit
<1>2. IInv /\ RefsResolve /\ WholeInv /\ I /\ [Next]_vars => I'
  <2> SUFFICES ASSUME IInv, RefsResolve, WholeInv, I, [Next]_vars PROVE I'
    OBVIOUS
  <2>1. StreamInv /\ KeyedById(decTemplates) /\ SinkInv
    BY DEF IInv, TemplatesInv
  <2>2. EncodableInv'
    BY <2>1, EncodableInvStep
  <2>3. NoViolation'
    BY <2>1, NoViolationStep DEF WholeInv
  <2> QED
    BY <2>2, <2>3
<1> QED
  BY <1>1, <1>2, Invariance, ReferencesResolve, WholeInvariance, PTL DEF Spec

LEMMA PipeInit == Init => Pipe!Init
BY DEF Init, LaneInit, WireInit, DecoderInit, Pipe!Init

\* A pair of nodes implements a pipe for whole requests (RequestPipe), as far
\* as safety goes: every step of the lane accepts a request, delivers the next
\* one whole, breaks the pipe, or changes nothing that the pipe shows.
THEOREM LaneIsPipe ==
    ASSUME CollisionFree
    PROVE  Spec => PipeSafety
<1>1. IInv /\ IInv' /\ WholeInv /\ ByteExact /\ ByteExact' /\ [Next]_vars
         => [Pipe!Next]_(Pipe!pipeVars)
  <2> SUFFICES ASSUME IInv, IInv', WholeInv, ByteExact, ByteExact', [Next]_vars
               PROVE  [Pipe!Next]_(Pipe!pipeVars)
    OBVIOUS
  <2>1. StreamInv /\ TypeOK' /\ KeyedById(decTemplates) /\ SinkInv
    BY DEF IInv, TemplatesInv, StreamInv
  <2>2. RequestStep
    BY <2>1, LaneRequests
  <2> QED
    BY <2>1, <2>2, PipeStep DEF WholeInv
<1> QED
  BY <1>1, PipeInit, Invariance, WholeInvariance, Reconstruction, PTL DEF Spec, PipeSafety

\* Every step of the lane or of the opposite one, seen by the requests.
LEMMA DuplexRequests ==
    ASSUME CollisionFree, DuplexInv, [DuplexNext]_duplexVars
    PROVE  RequestStep
<1>1. StreamInv /\ KeyedById(decTemplates) /\ SinkInv
  BY DEF DuplexInv
<1>2. CASE LaneStep \/ UNCHANGED duplexVars
  BY <1>1, <1>2, LaneRequests DEF LaneStep, duplexVars
<1>3. CASE Opposite
  BY <1>3, OppositeRequests
<1> QED
  BY <1>2, <1>3 DEF DuplexNext

LEMMA DuplexWholeInvariance ==
    ASSUME CollisionFree
    PROVE  DuplexSpec => []WholeInv
<1>1. DuplexInv /\ DuplexInv' /\ WholeInv /\ [DuplexNext]_duplexVars => WholeInv'
  <2> SUFFICES ASSUME DuplexInv, DuplexInv', WholeInv, [DuplexNext]_duplexVars PROVE WholeInv'
    OBVIOUS
  <2>1. StreamInv /\ StreamInv' /\ SinkInv
    BY DEF DuplexInv
  <2>2. RequestStep
    BY DuplexRequests
  <2> QED
    BY <2>1, <2>2, RequestInvStep DEF WholeInv
<1>2. DuplexInit => WholeInv
  BY WholeInvInit DEF DuplexInit
<1> QED
  BY <1>1, <1>2, DuplexInvariance, PTL DEF DuplexSpec

\* The dictionary that both lanes of a node write without a lock (machine.go,
\* rc := *cc) may end a connection, and never makes the destination see a piece
\* of a request.
THEOREM DuplexWholeDelivered ==
    ASSUME CollisionFree
    PROVE  DuplexSpec => []WholeRequests
<1>1. WholeInv => WholeRequests
  BY DEF WholeInv
<1> QED
  BY <1>1, DuplexWholeInvariance, PTL

\* Together with the opposite lane, and its races in the dictionary, the pair of
\* nodes still implements the pipe: a race can only break it.
THEOREM DuplexIsPipe ==
    ASSUME CollisionFree
    PROVE  DuplexSpec => PipeSafety
<1>1. /\ DuplexInv /\ DuplexInv' /\ WholeInv /\ ByteExact /\ ByteExact'
      /\ [DuplexNext]_duplexVars
      => [Pipe!Next]_(Pipe!pipeVars)
  <2> SUFFICES ASSUME DuplexInv, DuplexInv', WholeInv, ByteExact, ByteExact',
                      [DuplexNext]_duplexVars
               PROVE  [Pipe!Next]_(Pipe!pipeVars)
    OBVIOUS
  <2>1. StreamInv /\ TypeOK' /\ SinkInv
    BY DEF DuplexInv, StreamInv
  <2>2. RequestStep
    BY DuplexRequests
  <2> QED
    BY <2>1, <2>2, PipeStep DEF WholeInv
<1>2. DuplexInit => Pipe!Init
  BY PipeInit DEF DuplexInit
<1> QED
  BY <1>1, <1>2, DuplexInvariance, DuplexWholeInvariance, DuplexReconstruction, PTL
     DEF DuplexSpec, PipeSafety
=============================================================================
