------------------------------- MODULE LaneInv -------------------------------
(***************************************************************************)
(* The inductive invariant behind ByteExact, RefsResolve and DefineOnce.   *)
(* Its parts say how the frames on the stream, what is left to send, and   *)
(* what the decoder holds all line up with truth.                          *)
(***************************************************************************)
EXTENDS Lane

Sent == Carried(Len(frames))

IsDefine(j) == frames[j].type = "TEMPLATE_DEFINE"

\* Every frame but a definition carries one segment of truth, in order, and
\* what is left to send is the rest of truth.
MarkInv ==
    /\ Len(mark) = Len(frames)
    /\ \A j \in 1..Len(frames) :
          /\ frames[j].type \in {"RAW_DATA", "TEMPLATE_DEFINE", "TEMPLATE_REF"}
          /\ mark[j] = Carried(j - 1) + IF IsDefine(j) THEN 0 ELSE 1
          /\ mark[j] <= Sent

TodoInv ==
    /\ Sent + Len(todo) = Len(truth)
    /\ \A i \in 1..Len(todo) : todo[i].seg = truth[Sent + i]
    /\ \A i \in 1..Len(truth) : SegLen(truth[i]) > 0

\* A frame says what the segment it carries is.  Of a reference only the id
\* and the lane: the pattern is the decoder's to find.
FrameInv ==
    \A j \in 1..Len(frames) :
        /\ frames[j].type = "RAW_DATA" => frames[j].seg = truth[mark[j]]
        /\ frames[j].type = "TEMPLATE_REF" =>
              /\ truth[mark[j]].pat \in Patterns
              /\ TemplateID[truth[mark[j]].pat] = frames[j].tid
              /\ truth[mark[j]].lane = frames[j].lane
        /\ IsDefine(j) => TemplateID[frames[j].pat] = frames[j].tid

\* The encoder's record of what it has defined agrees with the stream, and a
\* reference comes after its definition.
DefinedInv ==
    /\ \A t \in Ids :
          defined[t] <=> \E j \in 1..Len(frames) : IsDefine(j) /\ frames[j].tid = t
    /\ \A j \in 1..Len(frames) : frames[j].type = "TEMPLATE_REF" =>
          \E i \in 1..(j - 1) : IsDefine(i) /\ frames[i].tid = frames[j].tid

\* A dictionary holds under an id only a pattern of that id.
KeyedById(templates) ==
    \A t \in Ids : templates[t] # NoPat => TemplateID[templates[t]] = t

\* The decoder knows every template it has read a definition of.
TemplatesInv ==
    /\ KeyedById(decTemplates)
    /\ decStatus = "run" =>
          \A i \in 1..rd : IsDefine(i) => decTemplates[frames[i].tid] # NoPat

\* What was delivered and what is being gathered is what was read.
SinkInv ==
    /\ Len(sink) <= Carried(rd)
    /\ \A i \in 1..Len(sink) : sink[i] = truth[i]
    /\ decStatus = "run" =>
          /\ Len(sink) + Len(req) = Carried(rd)
          /\ \A i \in 1..Len(req) : req[i] = truth[Len(sink) + i]

CutInv == Severed => rd <= cut.at /\ cut.at <= Len(frames)

StreamInv == TypeOK /\ MarkInv /\ TodoInv /\ FrameInv /\ DefinedInv /\ CutInv

\* SinkInv needs distinct template ids.
IInv == StreamInv /\ TemplatesInv /\ (CollisionFree => SinkInv)

-----------------------------------------------------------------------------
(***************************************************************************)
(* The invariant behind WholeRequests, NoViolation and PipeSpec: where the *)
(* requests lie in truth, and that the decoder's counts follow them.       *)
(***************************************************************************)
\* The usable Content-Length that a line of a header gives, or -1.
LengthGiven(s) == LineLength(Content(SegText(s)))

Start(es, k) == IF k = 1 THEN 0 ELSE es[k - 1]

\* The bytes of t after position i, up to position j.
BytesBetween(t, i, j) ==
    SumFunctionOnSet([n \in DOMAIN t |-> SegLen(t[n])], i + 1..j)

\* A request lies in t after position a, up to e: header lines, of which the
\* last gives the only usable Content-Length, the blank line at h, and as many
\* bytes as that length says.
RequestAt(t, a, h, e) ==
    /\ a + 2 <= h /\ h <= e
    /\ \A i \in a + 1..h - 1 : IsHeaderLine(SegText(t[i]))
    /\ t[h] = Blank
    /\ \A i \in a + 1..h - 2 : LengthGiven(t[i]) < 0
    /\ LengthGiven(t[h - 1]) = BytesBetween(t, h, e)

\* The requests that end at es lie in t one after the other.
Laid(t, es) ==
    /\ \A k \in 1..Len(es) : \E h \in 1..es[k] : RequestAt(t, Start(es, k), h, es[k])
    /\ \A i, j \in 1..Len(es) : i < j => es[i] < es[j]
    /\ Len(t) = Start(es, Len(es) + 1)

EndsInv == Laid(truth, ends)

\* Nothing is gathered.
AtRest == req = <<>> /\ ~headerDone /\ contentLen = -1 /\ bodyHave = 0

\* The text t is the first n lines of a header of k lines, without the blank
\* one; the last line gives the length len.
Lines(t, n, k, len) ==
    /\ HeaderLen(t) = 0
    /\ IF n = 0 THEN t = <<>> ELSE CrlfAt(t, Len(t))
    /\ parseContentLengthFromHeaderString(t) = IF n < k THEN -1 ELSE len

\* The request after position a, up to e, is being gathered.
Gathering(a, h, e) ==
    /\ RequestAt(truth, a, h, e)
    /\ a + Len(req) < e
    /\ headerDone <=> h <= a + Len(req)
    /\ ~headerDone => /\ Lines(TextOf(req), Len(req), h - 1 - a, BytesBetween(truth, h, e))
                      /\ contentLen = -1 /\ bodyHave = 0
    /\ headerDone => /\ HeaderLen(TextOf(req)) > 0
                     /\ bodyHave = Len(TextOf(req)) - HeaderLen(TextOf(req))
                     /\ contentLen = BytesBetween(truth, h, e)
                     /\ bodyHave = BytesBetween(truth, h, a + Len(req))

\* The decoder is inside the first request that it has not delivered, or waits
\* for the next one.
GatherInv ==
    decStatus = "run" =>
        \/ AtRest /\ Len(sink) = Len(truth)
        \/ \E k \in 1..Len(ends) : \E h \in 1..ends[k] :
              Len(sink) = Start(ends, k) /\ Gathering(Start(ends, k), h, ends[k])

RequestInv == EndsInv /\ GatherInv

\* A definition that is sent can be read: its constants fit their length fields.
EncodableInv ==
    /\ \A i \in 1..Len(todo) :
          LET s == todo[i].seg
          IN  (s.pat # NoPat /\ DefineFits(s)) => Encodable(s.pat)
    /\ \A j \in 1..Len(frames) : IsDefine(j) => Encodable(frames[j].pat)

\* The same of the requests that a client may send.
DefinitionsFit ==
    \A r \in Requests : \A i \in 1..Len(Items(r)) :
        LET s == Items(r)[i].seg
        IN  (s.pat # NoPat /\ DefineFits(s)) => Encodable(s.pat)
=============================================================================
