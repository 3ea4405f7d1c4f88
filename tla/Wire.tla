------------------------------- MODULE Wire -------------------------------
(***************************************************************************)
(* What the two ends of an ENZO stream share: the data a request is cut    *)
(* into, the frames it travels in (internal/protocol) and the TCP          *)
(* connection that carries them.                                           *)
(*                                                                         *)
(* Data is kept as SEGMENTS.  A segment is either a span                   *)
(* constA.lane.constB, written [pat |-> p, lane |-> l] where the pattern p *)
(* stands for the pair (constA, constB), or a literal without structure,   *)
(* written [pat |-> NoPat, lane |-> l].  The two ends pass segments on     *)
(* whole; where the decoder looks into the bytes, it looks into the text   *)
(* that the segments make up one after the other.                          *)
(***************************************************************************)
EXTENDS HeaderText

CONSTANTS
    Patterns,       \* the (constA, constB) pairs that occur in the traffic
    ConstA,         \* their texts
    ConstB,
    Lanes,          \* lane values and literals
    LaneText,       \* their texts
    Ids,            \* template ids, uint16 in the code
    TemplateID,     \* templateIDFor: a hash, any function from patterns to ids
    ContentLength,  \* the pattern "Content-Length: " ... CRLF
    BlankLine,      \* the literal CRLF that ends a header
    Itoa,           \* strconv.Itoa on the body lengths that occur
    NoPat,          \* no pattern: a literal, or an absent dictionary entry
    MaxFramePayloadBytes,
    MaxUint16,      \* the largest length a template's length field can hold
    WireCap         \* bound: frames in flight before a writer blocks

Text == Seq(Char)

Seg == [pat : Patterns \cup {NoPat}, lane : Lanes]

SegText(s) ==
    IF s.pat = NoPat THEN LaneText[s.lane]
    ELSE ConstA[s.pat] \o LaneText[s.lane] \o ConstB[s.pat]

\* The text of a sequence of segments.
TextOf(q) == FlattenSeq([i \in DOMAIN q |-> SegText(q[i])])

PatLen == [p \in Patterns |-> Len(ConstA[p]) + Len(ConstB[p])]
LaneLen == [l \in Lanes |-> Len(LaneText[l])]

SegLen(s) ==
    LaneLen[s.lane] + (IF s.pat = NoPat THEN 0 ELSE PatLen[s.pat])

Blank == [pat |-> NoPat, lane |-> BlankLine]

\* The line that normalizeHTTPHeaders adds for a body of n bytes.
LengthLine(n) == [pat |-> ContentLength, lane |-> Itoa[n]]

ASSUME PatternsAssumption ==
    /\ NoPat \notin Patterns
    /\ ContentLength \in Patterns
    /\ ConstA \in [Patterns -> Text]
    /\ ConstB \in [Patterns -> Text]
    /\ TemplateID \in [Patterns -> Ids]

ASSUME LanesAssumption ==
    /\ LaneText \in [Lanes -> Text]
    /\ BlankLine \in Lanes
    /\ LaneText[BlankLine] = Crlf
    /\ \A n \in DOMAIN Itoa :
          /\ Itoa[n] \in Lanes
          /\ IsHeaderLine(SegText(LengthLine(n)))
          /\ LineLength(Content(SegText(LengthLine(n)))) = n

ASSUME WireAssumption ==
    /\ MaxFramePayloadBytes \in Nat
    /\ MaxUint16 \in Nat
    /\ WireCap \in Nat \ {0, 1}

(***************************************************************************)
(* Frames.  A payload is kept as what it means; PayloadLen is the length   *)
(* the builders of protocol/template.go and frameio.go give it.            *)
(***************************************************************************)
RawData(s)           == [type |-> "RAW_DATA", seg |-> s]
TemplateDefine(t, p) == [type |-> "TEMPLATE_DEFINE", tid |-> t, pat |-> p]
TemplateRef(t, l)    == [type |-> "TEMPLATE_REF", tid |-> t, lane |-> l]
TemplateInline(t, p, l) ==
    [type |-> "TEMPLATE_INLINE", tid |-> t, pat |-> p, lane |-> l]
EpochReset(e)        == [type |-> "EPOCH_RESET", epoch |-> e]

Frame ==
         [type : {"RAW_DATA"}, seg : Seg]
    \cup [type : {"TEMPLATE_DEFINE"}, tid : Ids, pat : Patterns]
    \cup [type : {"TEMPLATE_REF"}, tid : Ids, lane : Lanes]
    \cup [type : {"TEMPLATE_INLINE"}, tid : Ids, pat : Patterns, lane : Lanes]
    \cup [type : {"EPOCH_RESET"}, epoch : Nat]

HeaderSizeBytes == 8
DefinePayloadLen(p) == 12 + PatLen[p]
RefPayloadLen(l) == 5 + LaneLen[l]

\* The length of constA is written as uint16(len(constA)).  Above that range
\* the reader takes fewer bytes of constA than there are, and the next part of
\* the definition, a length or a tag, from what is left of constA.  That this
\* is text, and that ParseTemplateDefinePayload then fails, is an assumption:
\* a constA with the right control bytes at the right place would be read as
\* another, shorter definition.
Encodable(p) == Len(ConstA[p]) <= MaxUint16

(***************************************************************************)
(* The connection.  frames is everything the writer has put on the stream, *)
(* rd how many of them the reader has taken.  When the connection breaks,  *)
(* cut says after how many frames, and how the stream ends there: at a     *)
(* frame boundary, between a frame's header and its payload (they are two  *)
(* writes), or with an error (inside either of them, or a reset).          *)
(*                                                                         *)
(* truth, ends and mark are history variables: the segments the reader is  *)
(* meant to reconstruct, the positions in truth where a request ends, and  *)
(* for each frame how much of truth has been sent once it is written.      *)
(***************************************************************************)
VARIABLES frames, rd, cut, truth, ends, mark

wireVars == <<frames, rd, cut, truth, ends, mark>>

CutTails == {"none", "boundary", "header", "error"}

WireTypeOK ==
    /\ frames \in Seq(Frame)
    /\ rd \in Nat
    /\ rd <= Len(frames)
    /\ cut \in [at : Nat, tail : CutTails]
    /\ truth \in Seq(Seg)
    /\ ends \in Seq(Nat)
    /\ mark \in Seq(Nat)

WireInit ==
    /\ frames = <<>>
    /\ rd = 0
    /\ cut = [at |-> 0, tail |-> "none"]
    /\ truth = <<>>
    /\ ends = <<>>
    /\ mark = <<>>

Severed == cut.tail # "none"

\* How much of truth the first n frames carry.
Carried(n) == IF n = 0 THEN 0 ELSE mark[n]

\* The frames the reader can still take.
Readable == IF Severed THEN rd < cut.at ELSE rd < Len(frames)

\* The connection breaks after some frame the reader has not taken yet.  A
\* partial frame can follow unless every byte written so far was delivered
\* and the writer is between two frames.
Sever(writing) ==
    /\ ~Severed
    /\ \E k \in rd..Len(frames), t \in CutTails \ {"none"} :
          /\ t = "boundary" \/ k < Len(frames) \/ writing
          /\ cut' = [at |-> k, tail |-> t]
    /\ UNCHANGED <<frames, rd, truth, ends, mark>>
=============================================================================
