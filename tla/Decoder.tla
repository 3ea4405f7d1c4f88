------------------------------ MODULE Decoder ------------------------------
(***************************************************************************)
(* The decoding side of a stream: internal/state/decode_v1.go.  It takes   *)
(* one frame at a time, expands it with the templates it has been given,   *)
(* gathers a whole request and only then writes it to the destination.     *)
(***************************************************************************)
EXTENDS Wire

VARIABLES
    decTemplates,  \* d.Templates of the decoding node
    epoch,         \* cc.Epoch
    req,           \* the request being gathered
    headerDone,
    contentLen,
    bodyHave,
    sink,          \* what the destination has received
    decStatus      \* running, or how runDecodeTemplateV1 returned

gatherVars == <<req, headerDone, contentLen, bodyHave>>
decVars == <<decTemplates, epoch, gatherVars, sink, decStatus>>

NoTemplates == [t \in Ids |-> NoPat]

DecoderTypeOK ==
    /\ decTemplates \in [Ids -> Patterns \cup {NoPat}]
    /\ epoch \in Nat
    /\ req \in Seq(Seg)
    /\ headerDone \in BOOLEAN
    /\ contentLen \in Nat \cup {-1}
    /\ bodyHave \in Nat
    /\ sink \in Seq(Seg)
    /\ decStatus \in {"run", "eof", "failed", "violation", "sinkfail"}

\* The decoder's own state; decTemplates is the dictionary of the node, which
\* Run creates before either lane starts.
DecoderInit ==
    /\ epoch = 0
    /\ req = <<>>
    /\ headerDone = FALSE
    /\ contentLen = -1
    /\ bodyHave = 0
    /\ sink = <<>>
    /\ decStatus = "run"

-----------------------------------------------------------------------------
\* Mutant: bodyHave gets the "unknown" value of contentLen.
resetReqSentinel ==
    /\ req' = <<>>
    /\ headerDone' = FALSE
    /\ contentLen' = -1
    /\ bodyHave' = -1

\* Mutant: the buffer itself is not emptied.
resetReqKeepsBytes ==
    /\ headerDone' = FALSE
    /\ contentLen' = -1
    /\ bodyHave' = 0
    /\ UNCHANGED req

resetReq ==
    /\ req' = <<>>
    /\ headerDone' = FALSE
    /\ contentLen' = -1
    /\ bodyHave' = 0

Stop(status) ==
    /\ decStatus' = status
    /\ UNCHANGED <<gatherVars, sink>>

\* Mutant: the error of Destination.Write is ignored.
FlushIgnoresError(q) ==
    /\ \E n \in 0..Len(q) : sink' = sink \o SubSeq(q, 1, n)
    /\ resetReq
    /\ UNCHANGED decStatus

\* The whole request is written; or the destination takes a part of it and
\* then fails.
Flush(q) ==
    \/ /\ sink' = sink \o q
       /\ resetReq
       /\ UNCHANGED decStatus
    \/ /\ \E n \in 0..(Len(q) - 1) : sink' = sink \o SubSeq(q, 1, n)
       /\ decStatus' = "sinkfail"
       /\ UNCHANGED gatherVars

\* Mutant: the bytes of the header are counted as well.
BodyHaveFromStart(t, end) == Len(t)

\* Mutant: what comes in one frame with the end of the header is not counted.
BodyHaveLater(t, end) == IF headerDone THEN Len(t) - end ELSE 0

\* The bytes behind the header, those in the frame that ends it included.
BodyHave(t, end) == IF end > 0 THEN Len(t) - end ELSE 0

\* Mutant: one byte too many is awaited.
EnoughLate(have, len) == have > len

Enough(have, len) == have >= len

\* What feed makes of contentLen: the header is parsed once, when it ends.
LengthOf(t, end) ==
    IF headerDone THEN contentLen
    ELSE IF end > 0 THEN parseContentLengthFromHeaderString(SubSeq(t, 1, end))
    ELSE -1

\* feed and flushReqIfComplete when all that is gathered is q, of text t, whose
\* header ends at end, if it does, and says that len bytes follow.
Gather(q, t, end, len) ==
    LET ended == headerDone \/ end > 0
        refused == ended /\ (end = 0 \/ len < 0)
        complete == ended /\ Enough(BodyHave(t, end), len)
    IN  \/ /\ refused
           /\ Stop("violation")
        \/ /\ ~refused /\ complete
           /\ Flush(q)
        \/ /\ ~refused /\ ~complete
           /\ req' = q
           /\ headerDone' = ended
           /\ contentLen' = len
           /\ bodyHave' = BodyHave(t, end)
           /\ UNCHANGED <<sink, decStatus>>

\* feed(s), then flushReqIfComplete().
FeedAndFlush(s) ==
    \/ /\ SegLen(s) = 0
       /\ UNCHANGED <<gatherVars, sink, decStatus>>
    \/ /\ SegLen(s) > 0
       /\ \E t \in {TextOf(Append(req, s))} :
          \E end \in {HeaderLen(t)} :
          \E len \in {LengthOf(t, end)} : Gather(Append(req, s), t, end, len)

-----------------------------------------------------------------------------
\* ReadFrame delivers the next frame.
Receive(type) ==
    /\ decStatus = "run"
    /\ Readable
    /\ frames[rd + 1].type = type
    /\ rd' = rd + 1
    /\ UNCHANGED <<frames, cut, truth, ends, mark>>

OnRawData ==
    /\ Receive("RAW_DATA")
    /\ FeedAndFlush(frames[rd + 1].seg)
    /\ UNCHANGED <<decTemplates, epoch>>

OnTemplateInline ==
    /\ Receive("TEMPLATE_INLINE")
    /\ LET f == frames[rd + 1]
       IN  /\ decTemplates' = [decTemplates EXCEPT ![f.tid] = f.pat]
           /\ FeedAndFlush([pat |-> f.pat, lane |-> f.lane])
    /\ UNCHANGED epoch

\* Mutant: an id that is known keeps its first definition.
OnTemplateDefineOnce ==
    /\ Receive("TEMPLATE_DEFINE")
    /\ LET f == frames[rd + 1]
       IN  decTemplates' = IF decTemplates[f.tid] # NoPat THEN decTemplates
                           ELSE [decTemplates EXCEPT ![f.tid] = f.pat]
    /\ UNCHANGED <<gatherVars, sink, decStatus, epoch>>

OnTemplateDefine ==
    /\ Receive("TEMPLATE_DEFINE")
    /\ LET f == frames[rd + 1]
       IN  \/ /\ Encodable(f.pat)
              /\ decTemplates' = [decTemplates EXCEPT ![f.tid] = f.pat]
              /\ UNCHANGED decStatus
           \/ /\ ~Encodable(f.pat)
              /\ decStatus' = "violation"
              /\ UNCHANGED decTemplates
    /\ UNCHANGED <<gatherVars, sink, epoch>>

OnTemplateRef ==
    /\ Receive("TEMPLATE_REF")
    /\ LET f == frames[rd + 1]
           p == decTemplates[f.tid]
       IN  \/ p = NoPat /\ Stop("violation")
           \/ p # NoPat /\ FeedAndFlush([pat |-> p, lane |-> f.lane])
    /\ UNCHANGED <<decTemplates, epoch>>

\* Mutant: the templates of the old epoch stay.
OnEpochResetKeeps ==
    /\ Receive("EPOCH_RESET")
    /\ epoch' = frames[rd + 1].epoch
    /\ resetReq
    /\ UNCHANGED <<decTemplates, sink, decStatus>>

OnEpochReset ==
    /\ Receive("EPOCH_RESET")
    /\ epoch' = frames[rd + 1].epoch
    /\ decTemplates' = NoTemplates
    /\ resetReq
    /\ UNCHANGED <<sink, decStatus>>

\* ReadFrame meets the end of the stream.  A stream that ends between a
\* frame's header and its payload gives io.EOF as well, so the decoder
\* returns without an error.
OnStreamEnd ==
    /\ decStatus = "run"
    /\ Severed
    /\ rd = cut.at
    /\ decStatus' = IF cut.tail = "error" THEN "failed" ELSE "eof"
    /\ UNCHANGED <<wireVars, decTemplates, epoch, gatherVars, sink>>

DecoderNext ==
    \/ OnRawData
    \/ OnTemplateInline
    \/ OnTemplateDefine
    \/ OnTemplateRef
    \/ OnEpochReset
    \/ OnStreamEnd
=============================================================================
