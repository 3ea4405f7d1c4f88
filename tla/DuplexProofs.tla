---------------------------- MODULE DuplexProofs ----------------------------
(***************************************************************************)
(* Proofs about Duplex.  Whatever the opposite lane stores in the two      *)
(* dictionaries, and whatever the race on them does, an id only ever leads *)
(* to a pattern of that id; DuplexInv, which says so, is inductive.        *)
(***************************************************************************)
EXTENDS Duplex, LaneProofs

\* Storing a pattern under its own id keeps a dictionary keyed by id.
LEMMA StoreKeyed ==
    ASSUME NEW d \in [Ids -> Patterns \cup {NoPat}], KeyedById(d),
           NEW p \in Patterns, NEW t \in Ids, t = TemplateID[p]
    PROVE  /\ [d EXCEPT ![t] = p] \in [Ids -> Patterns \cup {NoPat}]
           /\ KeyedById([d EXCEPT ![t] = p])
BY DEF KeyedById

\* A pattern of the opposite lane has an id (OppositeAssumption).
LEMMA OppositeType ==
    ASSUME NEW p \in OppositePats
    PROVE  p \in Patterns /\ TemplateID[p] \in Ids
BY OppositeAssumption, PatternsAssumption

\* The next frame, when it is a definition, is of the pattern of its id.
LEMMA DefineFrame ==
    ASSUME StreamInv, Receive("TEMPLATE_DEFINE")
    PROVE  LET f == frames[rd + 1]
           IN  f.pat \in Patterns /\ f.tid \in Ids /\ f.tid = TemplateID[f.pat]
<1> DEFINE f == frames[rd + 1]
<1>1. rd + 1 \in 1..Len(frames) /\ f \in Frame /\ f.type = "TEMPLATE_DEFINE"
  BY FrameKinds
<1>2. f.tid \in Ids /\ f.pat \in Patterns
  BY <1>1 DEF Frame
<1>3. TemplateID[f.pat] = f.tid
  BY <1>1 DEF StreamInv, FrameInv, IsDefine
<1> QED
  BY <1>2, <1>3

\* The lane's own steps keep both dictionaries keyed by id: writeRaw and
\* TEMPLATE_REF leave them alone, a definition goes under its own id.
LEMMA LaneKeyed ==
    ASSUME StreamInv, KeyedById(decTemplates), KeyedById(encTemplates), [Next]_vars
    PROVE  KeyedById(decTemplates)' /\ KeyedById(encTemplates)'
<1>0. /\ decTemplates \in [Ids -> Patterns \cup {NoPat}]
      /\ encTemplates \in [Ids -> Patterns \cup {NoPat}]
  BY DEF StreamInv, TypeOK, DecoderTypeOK, EncoderTypeOK
<1>1. CASE UNCHANGED <<decTemplates, encTemplates>>
  BY <1>1 DEF KeyedById
<1>2. CASE EncoderStep
  <2>1. decTemplates' = decTemplates
    BY <1>2 DEF EncoderStep, decVars
  <2>2. CASE encTemplates' = encTemplates
    BY <1>1, <2>1, <2>2
  <2>3. CASE EmitDefine /\ ~Severed
    <3>1. /\ Sending /\ Candidate(Next1)
          /\ encTemplates' = [encTemplates EXCEPT ![NextId] = Next1.pat]
      BY <2>3 DEF EmitDefine, Next1, NextId
    <3>2. Next1 \in Seg /\ (Next1.pat \in Patterns => NextId \in Ids)
      BY <3>1, NextType DEF Sending, StreamInv, TypeOK
    <3>3. Next1.pat \in Patterns
      BY <3>1, <3>2 DEF Candidate, Seg
    <3>4. NextId \in Ids /\ NextId = TemplateID[Next1.pat]
      BY <3>2, <3>3 DEF NextId
    <3>5. KeyedById([encTemplates EXCEPT ![NextId] = Next1.pat])
      BY <1>0, <3>3, <3>4, StoreKeyed
    <3> QED
      BY <2>1, <3>1, <3>5 DEF KeyedById
  <2> QED
    BY <1>2, <2>2, <2>3 DEF EncoderStep, EncoderNext, Accept, SourceEnd, Emit,
                            EmitPlain, EmitUnpromoted, EmitDefine, EmitDefined
<1>3. CASE DecoderStep
  <2>1. encTemplates' = encTemplates
    BY <1>3 DEF DecoderStep, encVars
  <2>2. CASE decTemplates' = decTemplates
    BY <1>1, <2>1, <2>2
  <2>3. CASE OnTemplateDefine
    <3> DEFINE f == frames[rd + 1]
    <3>1. f.pat \in Patterns /\ f.tid \in Ids /\ f.tid = TemplateID[f.pat]
      BY <2>3, DefineFrame DEF OnTemplateDefine
    <3>2. KeyedById([decTemplates EXCEPT ![f.tid] = f.pat])
      BY <1>0, <3>1, StoreKeyed
    <3> QED
      BY <1>1, <2>1, <2>3, <3>2 DEF OnTemplateDefine, KeyedById
  <2>4. ~OnTemplateInline /\ ~OnEpochReset
    BY FrameKinds DEF OnTemplateInline, OnEpochReset
  <2> QED
    BY <1>3, <2>2, <2>3, <2>4 DEF DecoderStep, DecoderNext, OnRawData, OnTemplateRef,
                                  OnStreamEnd
<1> QED
  BY <1>1, <1>2, <1>3 DEF Next, Break, DecoderHangUp, vars, encVars, decVars

\* A step of the lane preserves DuplexInv.
LEMMA LaneStepInv ==
    ASSUME DuplexInv, [Next]_vars, UNCHANGED <<oppDefs, oppRd>>
    PROVE  DuplexInv'
<1>1. StreamInv'
  BY StreamInvStep DEF DuplexInv
<1>2. KeyedById(decTemplates)' /\ KeyedById(encTemplates)'
  BY LaneKeyed DEF DuplexInv
<1>3. CollisionFree => SinkInv'
  BY SinkInvStep DEF DuplexInv
<1>4. OppositeTypeOK'
  BY DEF DuplexInv, OppositeTypeOK
<1>5. CollisionFree' <=> CollisionFree
  BY DEF CollisionFree
<1> QED
  BY <1>1, <1>2, <1>3, <1>4, <1>5 DEF DuplexInv

\* The opposite encoder's record of what it defined stays a record.
LEMMA WriteOppositeType ==
    ASSUME OppositeTypeOK, NEW p \in OppositePats, WriteOpposite(p)
    PROVE  OppositeTypeOK'
BY DEF OppositeTypeOK, WriteOpposite

\* A step that only moves the reader and changes the decoder's dictionary and
\* status keeps the stream.
LEMMA DecoderSideStream ==
    ASSUME StreamInv, NEW type, Receive(type), UNCHANGED <<encVars, epoch, gatherVars, sink>>,
           decTemplates' \in [Ids -> Patterns \cup {NoPat}],
           decStatus' \in {"run", "violation"}
    PROVE  StreamInv'
<1>1. WireTypeOK'
  BY ReceiveType DEF StreamInv, TypeOK
<1>2. EncoderTypeOK'
  BY DEF StreamInv, TypeOK, EncoderTypeOK, encVars
<1>3. DecoderTypeOK'
  BY DEF StreamInv, TypeOK, DecoderTypeOK, gatherVars
<1>4. UNCHANGED <<frames, mark, truth, todo, defined>> /\ cut' = cut /\ rd' = rd + 1
  BY DEF Receive, encVars
<1>5. CutInv'
  <2>1. Readable /\ rd \in Nat /\ cut.at \in Nat
    BY DEF StreamInv, TypeOK, WireTypeOK, Receive
  <2> QED
    BY <1>4, <2>1 DEF StreamInv, CutInv, Severed, Readable
<1> QED
  BY <1>1, <1>2, <1>3, <1>4, <1>5, QuietInv DEF StreamInv, TypeOK

\* OppositeDefines: the opposite encoder stores a template, between two steps
\* of the decoder.
LEMMA OppositeDefinesInv ==
    ASSUME DuplexInv, NEW p \in OppositePats, OppositeDefines(p)
    PROVE  DuplexInv'
<1>0. /\ StreamInv /\ OppositeTypeOK /\ KeyedById(decTemplates) /\ KeyedById(encTemplates)
      /\ decTemplates \in [Ids -> Patterns \cup {NoPat}]
  BY DEF DuplexInv, StreamInv, TypeOK, DecoderTypeOK
<1>1. /\ decTemplates' = [decTemplates EXCEPT ![TemplateID[p]] = p]
      /\ UNCHANGED <<wireVars, encVars, epoch, gatherVars, sink, decStatus>>
      /\ WriteOpposite(p)
  BY DEF OppositeDefines
<1>2. decTemplates' \in [Ids -> Patterns \cup {NoPat}] /\ KeyedById(decTemplates')
  BY <1>0, <1>1, OppositeType, StoreKeyed
<1>3. StreamInv'
  <2>1. WireTypeOK' /\ EncoderTypeOK' /\ DecoderTypeOK'
    BY <1>0, <1>1, <1>2 DEF StreamInv, TypeOK, WireTypeOK, EncoderTypeOK, DecoderTypeOK,
                           wireVars, encVars, gatherVars
  <2>2. UNCHANGED <<frames, mark, truth, todo, defined, rd, cut>>
    BY <1>1 DEF wireVars, encVars
  <2> QED
    BY <1>0, <2>1, <2>2, QuietInv DEF StreamInv, TypeOK, CutInv, Severed
<1>4. CollisionFree => SinkInv'
  BY <1>1 DEF DuplexInv, SinkInv, Carried, wireVars, gatherVars
<1>5. KeyedById(decTemplates)' /\ KeyedById(encTemplates)'
  BY <1>0, <1>1, <1>2 DEF KeyedById, encVars
<1>6. CollisionFree' <=> CollisionFree
  BY DEF CollisionFree
<1> QED
  BY <1>0, <1>1, <1>3, <1>4, <1>5, <1>6, WriteOppositeType DEF DuplexInv

\* LookupMisses and StoreLost: the store meets the decoder in the map, and the
\* decoder sees no template or one of the two stores is lost.
LEMMA RaceInv ==
    ASSUME DuplexInv, NEW p \in OppositePats, LookupMisses(p) \/ StoreLost(p)
    PROVE  DuplexInv'
<1> DEFINE f == frames[rd + 1]
           Dict == [Ids -> Patterns \cup {NoPat}]
<1>0. /\ StreamInv /\ OppositeTypeOK /\ KeyedById(decTemplates) /\ KeyedById(encTemplates)
      /\ decTemplates \in Dict
  BY DEF DuplexInv, StreamInv, TypeOK, DecoderTypeOK
<1>1. /\ WriteOpposite(p) /\ decStatus = "run"
      /\ UNCHANGED <<encVars, epoch, gatherVars, sink>>
  BY DEF LookupMisses, StoreLost, Stop, Undefined
<1>2. /\ [decTemplates EXCEPT ![TemplateID[p]] = p] \in Dict
      /\ KeyedById([decTemplates EXCEPT ![TemplateID[p]] = p])
  BY <1>0, OppositeType, StoreKeyed
<1>3. CASE LookupMisses(p)
  <2>1. /\ Receive("TEMPLATE_REF") /\ decStatus' = "violation"
        /\ decTemplates' = [decTemplates EXCEPT ![TemplateID[p]] = p]
    BY <1>3 DEF LookupMisses, Stop
  <2>2. decTemplates' \in Dict /\ KeyedById(decTemplates')
    BY <1>2, <2>1
  <2>3. StreamInv'
    BY <1>0, <1>1, <2>1, <2>2, DecoderSideStream
  <2>4. CollisionFree => SinkInv'
    BY <1>0, <1>1, <2>1, SinkAfterStop DEF DuplexInv
  <2>5. KeyedById(decTemplates)' /\ KeyedById(encTemplates)'
    BY <1>0, <1>1, <2>2 DEF KeyedById, encVars
  <2>6. CollisionFree' <=> CollisionFree
    BY DEF CollisionFree
  <2> QED
    BY <1>0, <1>1, <2>3, <2>4, <2>5, <2>6, WriteOppositeType DEF DuplexInv
<1>4. CASE StoreLost(p)
  <2>1. /\ Receive("TEMPLATE_DEFINE") /\ decStatus' = decStatus
        /\ \/ decTemplates' = [decTemplates EXCEPT ![f.tid] = f.pat]
           \/ decTemplates' = [decTemplates EXCEPT ![TemplateID[p]] = p]
    BY <1>4 DEF StoreLost
  <2>2. /\ [decTemplates EXCEPT ![f.tid] = f.pat] \in Dict
        /\ KeyedById([decTemplates EXCEPT ![f.tid] = f.pat])
    BY <1>0, <2>1, DefineFrame, StoreKeyed
  <2>3. decTemplates' \in Dict /\ KeyedById(decTemplates')
    BY <1>2, <2>1, <2>2
  <2>4. StreamInv'
    BY <1>0, <1>1, <2>1, <2>3, DecoderSideStream
  <2>5. CollisionFree => SinkInv'
    BY <1>0, <1>1, <2>1, SinkAfterDefine DEF DuplexInv
  <2>6. KeyedById(decTemplates)' /\ KeyedById(encTemplates)'
    BY <1>0, <1>1, <2>3 DEF KeyedById, encVars
  <2>7. CollisionFree' <=> CollisionFree
    BY DEF CollisionFree
  <2> QED
    BY <1>0, <1>1, <2>4, <2>5, <2>6, <2>7, WriteOppositeType DEF DuplexInv
<1> QED
  BY <1>3, <1>4

\* DecoderDies: the runtime notices the race at the decoding node.
LEMMA DecoderDiesInv ==
    ASSUME DuplexInv, NEW p \in OppositePats, DecoderDies(p)
    PROVE  DuplexInv'
<1>0. /\ StreamInv /\ OppositeTypeOK
      /\ rd \in Nat /\ Len(frames) \in Nat /\ rd <= Len(frames)
  BY DEF DuplexInv, StreamInv, TypeOK, WireTypeOK
<1>1. /\ cut' = [at |-> rd, tail |-> "error"] /\ decStatus' = "failed"
      /\ UNCHANGED <<frames, rd, truth, ends, mark, encVars, decTemplates, epoch,
                     gatherVars, sink, oppDefs, oppRd>>
  BY DEF DecoderDies
<1>2. cut' \in [at : Nat, tail : CutTails] /\ cut'.at = rd
  BY <1>0, <1>1 DEF CutTails
<1>3. WireTypeOK' /\ EncoderTypeOK' /\ DecoderTypeOK'
  BY <1>0, <1>1, <1>2 DEF StreamInv, TypeOK, WireTypeOK, EncoderTypeOK, DecoderTypeOK,
                         encVars, gatherVars
<1>4. CutInv'
  BY <1>0, <1>1, <1>2 DEF CutInv
<1>5. StreamInv'
  BY <1>0, <1>1, <1>3, <1>4, QuietInv DEF StreamInv, TypeOK, encVars
<1>6. CollisionFree => SinkInv'
  BY <1>1 DEF DuplexInv, SinkInv, Carried
<1>7. KeyedById(decTemplates)' /\ KeyedById(encTemplates)' /\ OppositeTypeOK'
  BY <1>1 DEF DuplexInv, KeyedById, OppositeTypeOK, encVars
<1>8. CollisionFree' <=> CollisionFree
  BY DEF CollisionFree
<1> QED
  BY <1>5, <1>6, <1>7, <1>8 DEF DuplexInv

\* OppositeLearns and EncoderDies: the opposite decoder stores a template in
\* the dictionary of the encoding node.
LEMMA EncodingNodeInv ==
    ASSUME DuplexInv, OppositeLearns \/ EncoderDies
    PROVE  DuplexInv'
<1>0. /\ StreamInv /\ OppositeTypeOK /\ KeyedById(encTemplates)
      /\ encTemplates \in [Ids -> Patterns \cup {NoPat}]
      /\ rd \in Nat /\ Len(frames) \in Nat /\ rd <= Len(frames)
  BY DEF DuplexInv, StreamInv, TypeOK, WireTypeOK, EncoderTypeOK
<1>1. /\ UNCHANGED <<frames, rd, truth, ends, mark, decVars, hits, defined, todo,
                     rawIn, wireOut, oppDefs>>
      /\ encStatus' \in {encStatus, "failed"}
      /\ OppositeTypeOK'
  <2>1. CASE OppositeLearns
    BY <1>0, <2>1 DEF OppositeLearns, Unread, OppositeTypeOK, wireVars
  <2>2. CASE EncoderDies
    BY <1>0, <2>2 DEF EncoderDies, Sever, OppositeTypeOK
  <2> QED
    BY <2>1, <2>2
<1>2. encTemplates' \in [Ids -> Patterns \cup {NoPat}] /\ KeyedById(encTemplates')
  <2>1. CASE OppositeLearns
    <3> DEFINE p == oppDefs[oppRd + 1]
    <3>1. p \in OppositePats
      BY <1>0, <2>1 DEF OppositeLearns, Unread, OppositeTypeOK
    <3>2. encTemplates' = [encTemplates EXCEPT ![TemplateID[p]] = p]
      BY <2>1 DEF OppositeLearns
    <3> HIDE DEF p
    <3> QED
      BY <1>0, <3>1, <3>2, OppositeType, StoreKeyed
  <2>2. CASE EncoderDies
    BY <1>0, <2>2 DEF EncoderDies, KeyedById
  <2> QED
    BY <2>1, <2>2
<1>3. cut' \in [at : Nat, tail : CutTails] /\ CutInv'
  <2>1. CASE cut' = cut
    BY <1>0, <1>1, <2>1 DEF StreamInv, CutInv, Severed, TypeOK, WireTypeOK
  <2>2. CASE Sever(TRUE)
    <3>1. PICK k \in rd..Len(frames), t \in CutTails : cut' = [at |-> k, tail |-> t]
      BY <2>2 DEF Sever
    <3>2. cut' \in [at : Nat, tail : CutTails] /\ cut'.at = k
      BY <1>0, <3>1
    <3> QED
      BY <1>0, <1>1, <3>1, <3>2 DEF CutInv
  <2> QED
    BY <2>1, <2>2 DEF OppositeLearns, EncoderDies, wireVars
<1>4. WireTypeOK' /\ EncoderTypeOK' /\ DecoderTypeOK'
  BY <1>0, <1>1, <1>2, <1>3 DEF StreamInv, TypeOK, WireTypeOK, EncoderTypeOK,
                                DecoderTypeOK, decVars, gatherVars
<1>5. StreamInv'
  BY <1>0, <1>1, <1>3, <1>4, QuietInv DEF StreamInv, TypeOK
<1>6. CollisionFree => SinkInv'
  BY <1>1 DEF DuplexInv, SinkInv, Carried, decVars, gatherVars
<1>7. KeyedById(decTemplates)' /\ KeyedById(encTemplates)'
  BY <1>1, <1>2 DEF DuplexInv, KeyedById, decVars
<1>8. CollisionFree' <=> CollisionFree
  BY DEF CollisionFree
<1> QED
  BY <1>1, <1>5, <1>6, <1>7, <1>8 DEF DuplexInv

\* The two lanes share their dictionaries without a lock, and still an id
\* leads to a pattern of that id at both nodes, the stream and the encoder's
\* record of it agree, and the decoder holds what was sent: DuplexInv holds
\* throughout, for all patterns of the opposite lane.
THEOREM DuplexInvariance == DuplexSpec => []DuplexInv
<1>1. DuplexInit => DuplexInv
  <2> SUFFICES ASSUME DuplexInit PROVE DuplexInv
    OBVIOUS
  <2>1. StreamInv /\ SinkInv
    BY StreamInvInit, SinkInvInit DEF DuplexInit
  <2>2. OppositeTypeOK
    BY DEF DuplexInit, OppositeTypeOK
  <2>3. KeyedById(decTemplates) /\ KeyedById(encTemplates)
    BY DEF DuplexInit, Init, NoTemplates, KeyedById
  <2> QED
    BY <2>1, <2>2, <2>3 DEF DuplexInv
<1>2. DuplexInv /\ [DuplexNext]_duplexVars => DuplexInv'
  <2> SUFFICES ASSUME DuplexInv, [DuplexNext]_duplexVars PROVE DuplexInv'
    OBVIOUS
  <2>1. CASE LaneStep \/ UNCHANGED duplexVars
    BY <2>1, LaneStepInv DEF LaneStep, duplexVars
  <2>2. ASSUME NEW p \in OppositePats,
               OppositeDefines(p) \/ LookupMisses(p) \/ StoreLost(p) \/ DecoderDies(p)
        PROVE  DuplexInv'
    BY <2>2, OppositeDefinesInv, RaceInv, DecoderDiesInv
  <2>3. CASE OppositeLearns \/ EncoderDies
    BY <2>3, EncodingNodeInv
  <2> QED
    BY <2>1, <2>2, <2>3 DEF DuplexNext, Opposite
<1> QED
  BY <1>1, <1>2, PTL DEF DuplexSpec

\* "Packet out must reconstruct packet in" (encode_v1.go, locked rule 1) in
\* spite of the dictionary that both lanes of a node write (machine.go,
\* rc := *cc): when no two patterns, of requests or responses, share an id,
\* the destination only ever holds a prefix of the requests.
THEOREM DuplexReconstruction ==
    ASSUME CollisionFree
    PROVE  DuplexSpec => []ByteExact
<1>1. DuplexInv => ByteExact
  <2> SUFFICES ASSUME DuplexInv PROVE ByteExact
    OBVIOUS
  <2>1. StreamInv /\ SinkInv
    BY DEF DuplexInv
  <2> QED
    BY <2>1, PrefixDelivered
<1> QED
  BY <1>1, DuplexInvariance, PTL
=============================================================================
