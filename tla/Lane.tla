-------------------------------- MODULE Lane --------------------------------
(***************************************************************************)
(* One direction of an ENZO connection: an encoding node, the TCP stream,  *)
(* a decoding node and the destination behind it (the forward lane that    *)
(* internal/state/machine.go starts on each node).                         *)
(***************************************************************************)
EXTENDS Encoder, Decoder

vars == <<wireVars, encVars, decVars>>

LaneInit ==
    /\ WireInit
    /\ EncoderInit
    /\ DecoderInit

Init ==
    /\ LaneInit
    /\ encTemplates = NoTemplates
    /\ decTemplates = NoTemplates

EncoderStep == EncoderNext /\ UNCHANGED decVars
DecoderStep == DecoderNext /\ UNCHANGED encVars

\* The network, or a node, fails.
Break == Sever(todo # <<>>) /\ UNCHANGED <<encVars, decVars>>

\* Mutant: the listener leaves the connection open.
DecoderHangUpNever == FALSE /\ UNCHANGED vars

\* When the decoder has returned, Run returns and the listener closes the
\* connection it read from: the encoder's next write fails.
DecoderHangUp ==
    /\ decStatus # "run"
    /\ ~Severed
    /\ cut' = [at |-> rd, tail |-> "error"]
    /\ UNCHANGED <<frames, rd, truth, ends, mark, encVars, decVars>>

Next == EncoderStep \/ DecoderStep \/ Break \/ DecoderHangUp

\* A step in which Destination.Write returns, from the last of the bytes or
\* with an error.  It has no deadline: a server that stops reading blocks it,
\* and the decoder with it, for as long as it likes.
Writes == sink' # sink \/ decStatus' = "sinkfail"

\* A goroutine that can run does run.  Nothing makes a client send, and nothing
\* makes the server behind the decoder read.
Fairness ==
    /\ WF_vars(Emit /\ UNCHANGED decVars)
    /\ WF_vars(DecoderStep /\ ~Writes)
    /\ WF_vars(DecoderHangUp)

Spec == Init /\ [][Next]_vars
FairSpec == Spec /\ Fairness

\* What the environment would have to do for a request to get through: no
\* write to the destination blocks for ever.
DestinationTakes == WF_vars(DecoderStep /\ Writes)

-----------------------------------------------------------------------------
(***************************************************************************)
(* Properties.                                                             *)
(***************************************************************************)
TypeOK == WireTypeOK /\ EncoderTypeOK /\ DecoderTypeOK

\* What the destination receives is a prefix of what the encoder undertook
\* to send: "Packet out must reconstruct packet in" (encode_v1.go, locked
\* rule 1), at every moment and however the stream breaks.
ByteExact ==
    /\ Len(sink) <= Len(truth)
    /\ \A i \in 1..Len(sink) : sink[i] = truth[i]

\* Two patterns never share a template id.  templateIDFor is a 16-bit hash,
\* so nothing in the code ensures it.
CollisionFree ==
    \A p, q \in Patterns : TemplateID[p] = TemplateID[q] => p = q

\* The destination never sees a piece of a request, unless its own connection
\* failed while the request was being written (flushReqIfComplete).
WholeRequests ==
    decStatus # "sinkfail" =>
        Len(sink) = 0 \/ \E k \in DOMAIN ends : Len(sink) = ends[k]

\* When a TEMPLATE_REF is the next frame to decode, its template is in the
\* decoder's dictionary (the error "template ref before define/inline" of
\* decode_v1.go is unreachable), although encoder and decoder never talk
\* back to each other.
RefsResolve ==
    (decStatus = "run" /\ Readable) =>
        LET f == frames[rd + 1]
        IN  f.type = "TEMPLATE_REF" => decTemplates[f.tid] # NoPat

\* The decoder accepts everything the encoder says: none of its protocol
\* violations is ever reported.
NoViolation == decStatus # "violation"

\* A template is announced once per connection (locked rule 4: "DEFINE
\* (once)").
DefineOnce ==
    \A i, j \in DOMAIN frames :
        /\ frames[i].type = "TEMPLATE_DEFINE"
        /\ frames[j].type = "TEMPLATE_DEFINE"
        /\ frames[i].tid = frames[j].tid
        => i = j

\* The bytes of the segments that the frames on the stream carry, and those of
\* the definitions among them.
SentBytes ==
    SumFunctionOnSet([i \in DOMAIN truth |-> SegLen(truth[i])],
                     1..Carried(Len(frames)))

DefineBytes ==
    SumFunction([j \in DOMAIN frames |->
                    IF frames[j].type = "TEMPLATE_DEFINE"
                    THEN DefinePayloadLen(frames[j].pat) ELSE 0])

\* "REF if profitable (else RAW)": beyond a header per frame and the
\* definitions, encoding never makes the traffic longer.
CostBound ==
    encStatus # "failed" =>
        wireOut <= SentBytes + DefineBytes + HeaderSizeBytes * Len(frames)

\* With a destination that takes what it is given, a request that is being
\* sent does not stay half sent: it is sent to the end, or the encoder finds
\* out that the stream is broken.
NeverWedged ==
    DestinationTakes => ((todo # <<>>) ~> (todo = <<>> \/ encStatus = "failed"))

\* The pair of nodes is a pipe for whole requests, which delivers them if the
\* destination takes what it is given.
Pipe == INSTANCE RequestPipe WITH Unit <- Seg, broken <- decStatus # "run"

PipeSpec ==
    /\ Pipe!Init
    /\ [][Pipe!Next]_(Pipe!pipeVars)
    /\ DestinationTakes => Pipe!Live

\* Its part without fairness.
PipeSafety == Pipe!Init /\ [][Pipe!Next]_(Pipe!pipeVars)

(***************************************************************************)
(* What the repository's texts say and the code does not do.               *)
(***************************************************************************)
\* stats.go: raw_in counts the logical input bytes.
RawInHonest == todo = <<>> => rawIn = BytesIn(truth)
=============================================================================
