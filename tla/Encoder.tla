------------------------------ MODULE Encoder ------------------------------
(***************************************************************************)
(* The encoding side of a stream: internal/state/encode_v1.go.  It reads   *)
(* one HTTP request at a time, rewrites its header, cuts header and body   *)
(* into segments and sends each of them as RAW_DATA or, once its pattern   *)
(* has been seen often enough, as TEMPLATE_DEFINE and TEMPLATE_REF.        *)
(*                                                                         *)
(* A request comes from the HTTP adapter as [head |-> the request line and *)
(* the header lines, body |-> the body's lines]; a body line is            *)
(* [segs |-> its segments, nl |-> whether it ends in a newline].           *)
(***************************************************************************)
EXTENDS Wire

CONSTANTS
    Requests,    \* the requests a client may send
    CodingName,  \* the text "transfer-encoding:"
    MaxRequests  \* bound: requests per connection

VARIABLES
    encTemplates,  \* d.Templates of the encoding node (never read by it)
    hits,          \* spanStats[tid].Hits
    defined,       \* spanStats[tid].Defined
    todo,          \* what is left to send of the current request
    rawIn,         \* stats.rawIn
    wireOut,       \* stats.wireOut
    encStatus      \* running, or how runEncodeTemplateV1 returned

encVars == <<encTemplates, hits, defined, todo, rawIn, wireOut, encStatus>>

promoteAfterHits == 3

\* A segment to send, with what stats.rawIn.Add counts just before it.
Item == [seg : Seg, charge : Nat]

BytesIn(segs) == SumFunction([i \in DOMAIN segs |-> SegLen(segs[i])])

\* The body, line after line, as encodeBodyAsLines cuts it.
BodySegs(r) == FlattenSeq([k \in DOMAIN r.body |-> r.body[k].segs])

BodyLen(r) == BytesIn(BodySegs(r))

\* The framing headers of the client.
Framing(s) == IsPrefix(CodingName, SegText(s)) \/ IsPrefix(LengthName, SegText(s))

\* The loop over the lines of a header: the request line stays; the framing
\* headers are dropped, wherever they stand.
KeptLines(head) ==
    LET out[i \in 1..Len(head)] ==
            IF i = 1 THEN <<head[1]>>
            ELSE IF Framing(head[i])
            THEN out[i - 1]
            ELSE Append(out[i - 1], head[i])
    IN  out[Len(head)]

\* Mutant: Transfer-Encoding is removed, no Content-Length is added.
normalizeWithoutLength(r) ==
    SelectSeq(r.head, LAMBDA h : ~IsPrefix(CodingName, SegText(h))) \o << Blank >>

\* One Content-Length for the dechunked body is added at the end.
normalizeHTTPHeaders(r) == KeptLines(r.head) \o << LengthLine(BodyLen(r)), Blank >>

encodeHeaderLines(r) ==
    LET hdr == normalizeHTTPHeaders(r)
    IN  [i \in DOMAIN hdr |-> [seg |-> hdr[i], charge |-> SegLen(hdr[i])]]

\* rawIn grows by the length of the whole body ...
BodyCharge(r, k) == IF k = 1 THEN BodyLen(r) ELSE 0

\* ... and then again by the length of every line that ends in a newline.
LineCharge(line) == IF line.nl THEN BytesIn(line.segs) ELSE 0

BodyCharges(r) ==
    FlattenSeq([k \in DOMAIN r.body |->
        [i \in DOMAIN r.body[k].segs |->
            IF i = 1 THEN BodyCharge(r, k) + LineCharge(r.body[k]) ELSE 0]])

encodeBodyAsLines(r) ==
    [i \in DOMAIN BodySegs(r) |->
        [seg |-> BodySegs(r)[i], charge |-> BodyCharges(r)[i]]]

Items(r) == encodeHeaderLines(r) \o encodeBodyAsLines(r)

\* What ReadHTTPRequestBody hands over: a request line, which is no
\* Content-Length, and header lines up to the first blank one.
ASSUME RequestsAssumption ==
    /\ CodingName \in Text
    /\ MaxRequests \in Nat
    /\ \A r \in Requests :
          /\ r.head \in Seq({s \in Seg : IsHeaderLine(SegText(s))})
          /\ r.head # <<>>
          /\ LineLength(Content(SegText(r.head[1]))) < 0
          /\ BodySegs(r) \in Seq(Seg)
          /\ BodyLen(r) \in DOMAIN Itoa
          /\ Items(r) \in Seq(Item)
          /\ \A i \in DOMAIN Items(r) :
                SegLen(Items(r)[i].seg) \in 1..MaxFramePayloadBytes

EncoderTypeOK ==
    /\ encTemplates \in [Ids -> Patterns \cup {NoPat}]
    /\ hits \in [Ids -> Nat]
    /\ defined \in [Ids -> BOOLEAN]
    /\ todo \in Seq(Item)
    /\ rawIn \in Nat
    /\ wireOut \in Nat
    /\ encStatus \in {"run", "eof", "failed"}

\* The encoder's own state; encTemplates is the dictionary of the node, which
\* Run creates before either lane starts.
EncoderInit ==
    /\ hits = [t \in Ids |-> 0]
    /\ defined = [t \in Ids |-> FALSE]
    /\ todo = <<>>
    /\ rawIn = 0
    /\ wireOut = 0
    /\ encStatus = "run"

-----------------------------------------------------------------------------
\* The loop reads one complete request and lays out what it will send.
Accept(r) ==
    /\ encStatus = "run"
    /\ todo = <<>>
    /\ Len(ends) < MaxRequests
    /\ todo' = Items(r)
    /\ truth' = truth \o [i \in DOMAIN Items(r) |-> Items(r)[i].seg]
    /\ ends' = Append(ends, Len(truth) + Len(Items(r)))
    /\ UNCHANGED <<frames, rd, cut, mark,
                   encTemplates, hits, defined, rawIn, wireOut, encStatus>>

\* The client closes its end, between two requests or inside one (nothing of
\* that one was sent), or sends what the HTTP adapter rejects.
SourceEnd ==
    /\ encStatus = "run"
    /\ todo = <<>>
    /\ encStatus' \in {"eof", "failed"}
    /\ UNCHANGED <<wireVars, encTemplates, hits, defined, todo, rawIn, wireOut>>

\* writeFrameCount: account for the frame, then write it; a failed write ends
\* the encoder.  data is the frame that carries the segment, announce the
\* TEMPLATE_DEFINE written before it, if any.
writeFrameCount(announce, sizeAnnounce, data, sizeData) ==
    /\ rawIn' = rawIn + Head(todo).charge
    /\ \/ /\ ~Severed
          /\ Len(frames) + Len(announce) + 1 - rd <= WireCap
          /\ frames' = Append(frames \o announce, data)
          /\ mark' = Append(mark \o [i \in DOMAIN announce |-> Carried(Len(mark))],
                            Carried(Len(mark)) + 1)
          /\ wireOut' = wireOut + sizeAnnounce + HeaderSizeBytes + sizeData
          /\ todo' = Tail(todo)
          /\ UNCHANGED encStatus
       \/ /\ Severed
          /\ wireOut' = wireOut + IF announce = <<>>
                                  THEN HeaderSizeBytes + sizeData
                                  ELSE sizeAnnounce
          /\ encStatus' = "failed"
          /\ UNCHANGED <<frames, mark, todo>>
    /\ UNCHANGED <<rd, cut, truth, ends>>

writeRaw(s) == writeFrameCount(<<>>, 0, RawData(s), SegLen(s))

Sending == encStatus = "run" /\ todo # <<>>

\* A line without structure, or a span whose constants are no longer than its
\* lane: RAW, and no hit is counted.
Candidate(s) == s.pat # NoPat /\ PatLen[s.pat] > LaneLen[s.lane]

EmitPlain ==
    /\ Sending
    /\ ~Candidate(Head(todo).seg)
    /\ writeRaw(Head(todo).seg)
    /\ UNCHANGED <<encTemplates, hits, defined>>

\* emitWithDelayedPromotionDefineRef for a candidate: count the hit first.
Hit(s) == hits' = [hits EXCEPT ![TemplateID[s.pat]] = @ + 1]

Promoted(s) == hits[TemplateID[s.pat]] + 1 >= promoteAfterHits

DefineFits(s) == DefinePayloadLen(s.pat) <= MaxFramePayloadBytes

\* Mutant: the reference is used without comparing it with the raw span.
RefAlways(s) == RefPayloadLen(s.lane) <= MaxFramePayloadBytes

RefPays(s) == /\ RefPayloadLen(s.lane) <= MaxFramePayloadBytes
              /\ RefPayloadLen(s.lane) < SegLen(s)

\* Mutant: Defined is set before it is known that the definition fits.
EmitUnpromotedMarks ==
    /\ Sending
    /\ LET s == Head(todo).seg
           t == TemplateID[s.pat]
       IN  /\ Candidate(s)
           /\ \/ ~Promoted(s)
              \/ ~defined[t] /\ ~DefineFits(s)
           /\ Hit(s)
           /\ writeRaw(s)
           /\ defined' = [defined EXCEPT ![t] = @ \/ Promoted(s)]
    /\ UNCHANGED encTemplates

EmitUnpromoted ==
    /\ Sending
    /\ LET s == Head(todo).seg
       IN  /\ Candidate(s)
           /\ \/ ~Promoted(s)
              \/ ~defined[TemplateID[s.pat]] /\ ~DefineFits(s)
           /\ Hit(s)
           /\ writeRaw(s)
    /\ UNCHANGED <<encTemplates, defined>>

\* The data frame of a promoted span.
RefOrRaw(s) == IF RefPays(s) THEN TemplateRef(TemplateID[s.pat], s.lane)
                             ELSE RawData(s)
RefOrRawLen(s) == IF RefPays(s) THEN RefPayloadLen(s.lane) ELSE SegLen(s)

\* Mutant: the data frame is written before the definition.
EmitDefineLast ==
    /\ Sending
    /\ LET s == Head(todo).seg
           t == TemplateID[s.pat]
       IN  /\ Candidate(s)
           /\ Promoted(s)
           /\ ~defined[t]
           /\ DefineFits(s)
           /\ Hit(s)
           /\ writeFrameCount(<<RefOrRaw(s)>>, HeaderSizeBytes + RefOrRawLen(s),
                              TemplateDefine(t, s.pat), DefinePayloadLen(s.pat))
           /\ encTemplates' = [encTemplates EXCEPT ![t] = s.pat]
           /\ defined' = [defined EXCEPT ![t] = TRUE]

\* Mutant: Defined is never set.
EmitDefineForgets ==
    /\ Sending
    /\ LET s == Head(todo).seg
           t == TemplateID[s.pat]
       IN  /\ Candidate(s)
           /\ Promoted(s)
           /\ ~defined[t]
           /\ DefineFits(s)
           /\ Hit(s)
           /\ writeFrameCount(<<TemplateDefine(t, s.pat)>>,
                              HeaderSizeBytes + DefinePayloadLen(s.pat),
                              RefOrRaw(s), RefOrRawLen(s))
           /\ encTemplates' = [encTemplates EXCEPT ![t] = s.pat]
    /\ UNCHANGED defined

EmitDefine ==
    /\ Sending
    /\ LET s == Head(todo).seg
           t == TemplateID[s.pat]
       IN  /\ Candidate(s)
           /\ Promoted(s)
           /\ ~defined[t]
           /\ DefineFits(s)
           /\ Hit(s)
           /\ writeFrameCount(<<TemplateDefine(t, s.pat)>>,
                              HeaderSizeBytes + DefinePayloadLen(s.pat),
                              RefOrRaw(s), RefOrRawLen(s))
           /\ encTemplates' = IF Severed THEN encTemplates
                              ELSE [encTemplates EXCEPT ![t] = s.pat]
           /\ defined' = IF Severed THEN defined
                         ELSE [defined EXCEPT ![t] = TRUE]

EmitDefined ==
    /\ Sending
    /\ LET s == Head(todo).seg
       IN  /\ Candidate(s)
           /\ Promoted(s)
           /\ defined[TemplateID[s.pat]]
           /\ Hit(s)
           /\ writeFrameCount(<<>>, 0, RefOrRaw(s), RefOrRawLen(s))
    /\ UNCHANGED <<encTemplates, defined>>

Emit == EmitPlain \/ EmitUnpromoted \/ EmitDefine \/ EmitDefined

EncoderNext == (\E r \in Requests : Accept(r)) \/ SourceEnd \/ Emit
=============================================================================
