# TLA+ models of ENZO

ENZO is a TCP proxy that shortens HTTP line-protocol traffic (InfluxDB writes).
Two nodes stand between a client and a server: the first encodes, the second
decodes. Every connection is independent. This directory holds TLA+ models of
the parts that decide what reaches the server, TLC configurations that check
them on small instances, and TLAPS proofs of the most important safety
properties for every value of the constants.

Paths below are relative to the repository; `encode_v1.go` and the like are in
`internal/state/`.

## 1. Inventory

| Component | State | Operations | Interacts with |
|---|---|---|---|
| Encoder (`encode_v1.go`, `encode_helpers.go`) | per template id: hits, Defined; counters rawIn, wireOut; node dictionary | read a request, normalise its header, send each line or field as RAW_DATA, TEMPLATE_DEFINE + data, or TEMPLATE_REF | HTTP adapter (input), frame protocol (output), learner and raw window (observers) |
| Decoder (`decode_v1.go`, `dict.go`) | node dictionary, epoch, the request being gathered and its counts | one handler per frame type, flush of a complete request | frame protocol (input), destination (output), raw window |
| Frame protocol (`internal/protocol`) | none | build, write, read, validate and parse frames | both of the above |
| Connection (`machine.go`, `connctx`) | mode, two goroutines and a ticker, the context | start forward and reverse lane, end of Run | encoder, decoder, listener |
| Reverse fast path (`machine.go:79-111`) | bytes seen | copy until 256 bytes, then switch to a reverse ENZO lane | the other node, which counts for itself |
| Listener (`internal/accept`, `cmd/enzo`) | one goroutine per connection | accept, classify by first byte, dial, run, close | connection |
| HTTP adapter (`internal/httpio`) | buffered reader | read one request, dechunk | encoder |
| Raw window (`internal/memory/rawwindow.go`) | ring buffer, head, size | Append, Snapshot | observer of both lanes |
| Guarded LRU dictionary (`internal/memory/dictionary.go`) | entries, key index, used bytes, ids, sequence numbers | AddCandidate, GetByID, GetByKey, Delete, Clear | not wired in yet |
| Learner (`internal/dictionary/aggregate.go`, `partition.go`, `worth.go`, `evict_candidate.go`) | statistics per pattern | ObservePacket, eviction under pressure | fed by the encoder, read by nobody |
| Score dictionary and span extraction (`internal/dictionary/insert.go`, `evict.go`, `extract.go`) | entries, used bytes | TryInsert, EnsureCapacity, ExtractSpans | not wired in yet |
| Statistics (`stats.go`) | counters | add, print | encoder |

What is hard here: encoder and decoder keep *two* copies of the agreement on
templates and never confirm anything to each other, so every property of the
decoder's copy rests on the order of the frames; request boundaries are not
marked on the wire but recomputed by counting bytes; the stream can break
between any two frames or inside one, and one of these breaks looks like a
clean end; the stream has a finite capacity, so a writer depends on a reader
that may have given up, or that waits for a server which has stopped reading;
the two directions of a node share one dictionary, from
two goroutines and without a lock; the two nodes decide for themselves when the
reverse direction switches from copying to encoding; and `Run` returns before
its reverse goroutine does.
`PROJECT.json` lists these hazards at the lines where they bite, each with the
properties that cover it.

What makes the components correct:

* encoder and decoder together: the destination receives the accepted
  requests, unchanged, in order, whole; no reference is unknown; definitions
  are sent once; the traffic is no longer than the raw data plus headers and
  definitions; a request does not stay half sent as long as the destination
  takes what it is given;
* decoder alone, against any sender: the latest definition of the epoch
  counts, it stops at unknown references, it delivers a request with the frame
  that completes it, wherever frames cut the text;
* connection: the first bytes of a response pass directly and at once, nothing
  leaks when the neighbours leave, the directions do not disturb each other,
  both nodes leave the fast path at the same byte;
* HTTP adapter: successive calls stay in step with the request boundaries,
  whatever the bodies contain and wherever the stream ends;
* raw window: Snapshot is the last Cap bytes;
* dictionaries and learner: the budget holds, the protected half is safe, a
  rejected insertion changes nothing.

## 2. Modules

    HeaderText      where a header ends, and what Content-Length it gives
    Wire            data, frames, the TCP stream (extends HeaderText)
     |-- Encoder    runEncodeTemplateV1
     |-- Decoder    runDecodeTemplateV1
          |-- Lane             Encoder + stream + Decoder: one direction
          |    |-- LaneInv     the inductive invariant
          |         |-- LaneProofs  theorems and proofs
          |         |-- MCLane      instances for TLC
          |         |-- Duplex      a lane beside the opposite one, on shared
          |              |-- MCDuplex      dictionaries
          |              |-- DuplexProofs  (with LaneProofs)
          |                   |-- RequestProofs  whole requests, cost, RequestPipe
          |-- ProtocolPeer     Decoder against an arbitrary sender
               |-- MCProtocolPeer
               |-- PeerProofs  (with RequestProofs)
    RequestPipe     what a pair of nodes promises (Lane and Duplex implement it)
    Connection      listener, Run and its goroutines on both nodes, the fast path
     |-- ConnectionProofs
    HttpMessages    requests as they lie in a text: a grammar
     |-- HttpAdapter     ReadHTTPRequestBody, called over and over
          |-- MCHttp
          |-- HttpProofs
    RawWindow, GuardedLRU, Learner, ScoreDictionary    the bounded stores
     |-- MCStores
     |-- StoreProofs
    FiniteSums      lemmas on sums over finite sets, and on gluing sequences

The encoder is modelled three times, each time as far as the question needs:
`HttpAdapter` is what it reads, character by character; `Encoder` takes the
complete requests that come out of it; `Connection` only counts requests, and
looks at who reads, writes and closes what.

**Data.** Bytes are abstracted to *segments*. A segment is a span
`constA lane constB`, written `[pat, lane]` where the pattern stands for the
pair of constants, or a literal without structure. Every pattern and every lane
has a text (`ConstA`, `ConstB`, `LaneText`), a sequence of characters, one per
byte; a character stands for a byte up to case, because the code folds case
wherever it compares texts. Equal segments are equal bytes. The two ends pass
segments on whole, and most actions look at nothing but their lengths. The
decoder looks inside: it searches the bytes it has gathered for the end of the
header and for a Content-Length, and so does the model, in the concatenated
texts (`TextOf`), with the operators of `HeaderText`: a header ends with the
first CRLF CRLF wherever it lies, its lines are what `strings.Split` makes of
it, and a line gives a length only if the name stands at its beginning. `Itoa`
and `Atoi` are the conversions of the numbers. `TemplateID` is an arbitrary
function from patterns to ids, as a 16-bit hash is one; no theorem assumes that
it is injective unless it says so. A definition whose constA does not fit its
length field (`Encodable`) is taken to be one that does not parse: the reader
finds text where a length should stand. A constant with the right control bytes
at the right place would parse as another definition; constants are pieces of
line protocol, and this is left out.

**Stream.** `frames` is everything written, `rd` how much of it was read; a
writer blocks when `WireCap` frames are unread. A break picks a position after
`rd`, and one of three ends: at a frame boundary; between a frame's header and
its payload, which `ReadFrame` reports as `io.EOF` like the first; or an error.
`truth`, `ends` and `mark` are history variables. `truth` is also the byte
stream that the encoder's raw window observes, `sink` the one that the
decoder's observes.

**Encoder.** `Accept` is one turn of the loop up to the first write: read,
normalise, lay out (`Items`). Each `Emit...` action is the sending of one segment:
`EmitPlain` (no structure, or `len(constA)+len(constB) <= len(lane)`),
`EmitUnpromoted` (hit 1 or 2, or the definition does not fit), `EmitDefine`
(definition and data frame; a break can fall between them), `EmitDefined`.
`writeFrameCount` is the only way to the stream; it adds to `wireOut` before it
writes, as the code does. `Item.charge` is what `stats.rawIn.Add` is given
before a segment. How a body line is cut into spans
(`encodeInfluxLineKV`) is an input of the model.

**Decoder.** One action per `case` of the loop. `FeedAndFlush` is `feed`
followed by `flushReqIfComplete`: it can store the segment, complete and write
the request, fail in the middle of writing it (`sinkfail`), or stop on a header
without a usable Content-Length. `Gather` says which: the header ends where the
gathered text has its first CRLF CRLF, its length is parsed once, and the bytes
that came behind it in the same frame count as body.

**Lane.** `Writes` are the steps of the decoder in which `Destination.Write`
returns. `DecoderHangUp` is the listener's deferred `c.Close()`, reached
because `Run` returns when its forward lane does. Nobody closes the encoder's
destination when the client leaves, so no such action exists on that side.

**RequestPipe** is the abstract specification: `Accept` a request, `Deliver`
the next one whole, or `Break`, possibly inside one delivery.

**ProtocolPeer** replaces the encoder by any sender of well-formed frames, and
so reaches the handlers of TEMPLATE_INLINE and EPOCH_RESET, redefinitions and
every protocol violation. Frames may cut the text anywhere: in the name of the
length, in the CRLF CRLF, behind a part of the body; and a template may itself
end a header. Two properties compare the decoder with a reference reading of
the stream (`Meaning`) computed from the frames alone, one with a reference
reading of the bytes (`Complete`), which keeps no flag and no count.

**RawWindow** is `Append` on `buf`, `head` and `size`, for any capacity above 0
(`NewRawWindow` panics otherwise). `seen` is a history variable, everything that
was appended. Each window belongs to one goroutine, so `Append` is one step.

**Duplex** adds to a lane what the opposite one does to the two dictionaries:
`rc := *cc` (`machine.go:114`) copies a pointer, so the encoder of the responses
stores its templates in the map in which the decoder of the requests looks up
its own, and on the other node the decoder of the responses stores in the map of
the encoder of the requests. Of the opposite lane only its definitions are
kept; the encoder never reads its map, so nothing else of it can matter. Two
goroutines in a Go map at once are undefined; the model has the outcomes that
the runtime's implementation can produce for a map of pointers: the fatal error
"concurrent map writes", which ends the process (`DecoderDies`, `EncoderDies`),
a lookup that misses (`LookupMisses`), a store that is lost (`StoreLost`), or no
harm. A lookup never returns the pointer of another key: keys are compared
before the value is used, and both are words.

**Connection** has one action per step of a goroutine: `Classify` and `Refuse`
(listener and dial), `ForwardRequest` and `ForwardEnds`, `Pass` (a turn of the
fast path; the read returns any part of what has arrived), `ReverseLoop` (the
`select` at the head of both loops), `EncodeResponse`, `RefuseResponse`,
`DecodeFrame` and `BadMagic` (the reverse lane), `CancelRun` and `ReturnRun` (the
end of `Run` and the deferred close). `Collect` is the finalizer of package
`net`, the only thing that ever closes a destination. A response is a sequence
of *units*, runs of bytes that are no shorter than a frame header, so that a
decoder that reads one where it expects a header reports bad magic. `Starts`
gives the units with which a response begins. There the HTTP adapter takes the
response as a whole (a status line has three words, as a request line has);
anywhere else the reverse encoder reads from the middle of a body, and takes
whatever looks like a request to it, or refuses. A frame passed through the
reverse lane counts as the server's bytes: the change of framing headers is
the subject of `Lane`.

**HttpAdapter** reads a text of characters, one action per loop turn or
`ReadFull`: request line, header line, blank line, sized body, chunk size, chunk
with its CRLF, trailer line. The characters are those that the code tells
apart, and a body may contain all of them. `limit` is how much of the text
arrives before the connection ends.

**HttpMessages** is the reference against which the properties compare: a request
is a sequence of *pieces* (request line, field, blank line, sized body, size
line, chunk, last size line, trailer line, final blank line), and `Follows` says
which piece may come behind the ones before it, and where it ends, looking only
at the text and the limits. It has no position, no phase and no stored header: that
the adapter's state is equivalent to it is what has to be shown. A stream is a
text together with its requests and a rest that is no request (`IsStream`). The
assumption that all streams are of this form excludes no text and leaves no
choice; both are theorems (section 4). The meaning of a single line (`ParseInt`,
`ChunkSize`, `Content`) is shared by the two modules.

**GuardedLRU**, **Learner** and **ScoreDictionary** have one action per method. A
sort becomes the set of orders it may leave: `sort.Slice` is not stable and its
input comes from the iteration over a map, so ties are broken in every way
(`EvictableHalves`, `OldHalves`, `Lowest`). In `GuardedLRU` there are no ties,
because sequence numbers are unique (part of `IndexInv`). `evictFor` and
`EnsureCapacity` share their loop, `Evict`. The learner is called by the encoder
once per request that has spans; the other two have no caller in v1, so any
sequence of calls is allowed. The sums of sizes stay below 2^32, as they do in
the code for connections of less than 4 GB of patterns.

Definitions whose comment says *Mutant* are plausible bugs. They are not used by
any specification: put in place of the definition that follows them, each makes
a property fail, which shows that the property depends on that code.

## 3. Runs

| Run | Checks | Result |
|---|---|---|
| `lane` (MCLane.cfg) | TypeOK, IInv, ByteExact, WholeRequests, RefsResolve, NoViolation, DefineOnce, CostBound; NeverWedged, PipeSpec | hold, about 41 000 states |
| `duplex` (MCDuplex.cfg) | DuplexInv, ByteExact; PipeSpec | hold, about 104 000 states |
| `peer` (MCProtocolPeer.cfg) | DecoderTypeOK, LatestDefinition, UnknownRefStops, DeliversAtCompletion | hold, about 887 000 states |
| `reverse` (MCConnection.cfg) | ConnTypeOK, FirstBytesDirect, InStepIsSafe; FirstBytesArrive, BothEndsRelease | hold, about 127 000 states |
| `http` (MCHttp.cfg) | HttpTypeOK, InStep, AllOrNothing, BodyBounded; Finishes | hold, about 34 000 states |
| `stores` (MCStores.cfg) | WindowTypeOK, SnapshotIsTail; LRUTypeOK, WithinCap, IndexInv, GuardedEviction, RejectedForCause; LearnerTypeOK, HitsHonest, LossUnderPressure; ScoreTypeOK, HardCap, YoungHalfKept | hold, about 41 000 states |
| `lane_collision` | ByteExact with two patterns of one id | violated |
| `lane_wide` | NoViolation with a constant too long for its length field | violated |
| `lane_raw_in` | RawInHonest | violated |
| `duplex_collision` | ByteExact with an id that both directions use | violated |
| `reverse_switch` | ReverseExact | violated |
| `reverse_stuck` | ViolationTerminates | violated |

What the passing runs show beyond the table:

* A lane is only as live as the server behind it. The decoder writes without a
  deadline (`decode_v1.go:65`): while the server does not read, the decoder does
  not read the stream, which fills, and the encoder stays in the middle of a
  request. `NeverWedged` and the liveness of `PipeSpec` therefore hold on the
  condition `DestinationTakes`, that no such write blocks for ever; nothing in
  the code ensures it (a hazard in `PROJECT.json`).
* Races on the shared dictionary cost connections, or the process, but no byte
  of a request, as long as ids are distinct (`duplex`).
* A response is garbled only if the encoding node's last read of the fast path
  also held frames, and the reverse decoder fails only if the nodes switched at
  different bytes (`InStepIsSafe`); with the same switching byte the reverse
  direction is as safe as the forward one.
* A node gives up everything once *both* neighbours have closed
  (`BothEndsRelease`). One is not enough: when the client leaves and the server
  neither sends nor closes, the reverse goroutine waits in `Read` for ever, since
  `Run` neither waits for it nor closes the destination.
* The guard against an underflow of the byte counts (`dictionary.go:130`,
  `insert.go:79`, `evict.go:49`) is never needed. An id that is inserted again
  into the score dictionary leaves its old bytes in `UsedBytes`; the cap still
  holds for what is there.

The violated runs are disagreements between the code and the repository's
own texts; `findings` in `PROJECT.json` quotes both sides.

* *Template ids.* `templateIDFor` keeps 16 bits, and hits, Defined and the
  decoder's entry are kept per id. The second pattern with an id is sent as a
  reference to the first one's definition, and the server receives the wrong
  constants. Nothing detects it.
* *Long constants.* `BuildTemplateDefinePayload` limits the payload to 16 MB,
  but writes `uint16(len(constA))`. After the third hit of a span with a
  constant of 65536 bytes or more the decoder ends the connection.
* *raw_in* counts bodies twice, so the reported savings are too good.
* *One dictionary for two directions.* The documents say that each direction has
  its own. A template of the responses replaces one of the requests that has
  the same id.
* *The switch.* The nodes do not agree on the byte at which the reverse
  direction changes from copying to frames; TCP decides.
* *The silent end of the reverse lane.* Its error reaches nobody before the
  forward lane ends.

Smaller disagreements that the models show and no run is spent on: a payload
costs a frame header per header line and per field, where `ARCHITECTURE.md:158`
says at most one (`CostBound` is what does hold); an EPOCH_RESET may go back to a
lower epoch, where `PROTOCOL.md:122` says monotonically increasing, and drops
the request being gathered without an error; the learner's budget can stay
exceeded while packets keep bringing more candidates than the one they cost
(`LossUnderPressure` is what does hold).

**Bounds.**

* `lane`: three requests of three kinds (chunked with four lines, last line
  unterminated and a lane as long as its pattern, no body) reach every branch of
  the encoder's economics: Content-Length is hit once per request and is promoted
  with the third, `cpu` and `sh` are promoted within the requests, `sh` never
  pays as a reference, the definition of `big` never fits. `WireCap` 3 lets a
  definition, its reference and one more frame be in flight, so that a break
  can fall before, between and after them; 2 is the least with which a
  definition can be sent, and is what makes the encoder block. Texts are
  short, and their lengths have the same order relations as the real ones (24
  for the 16 MB frame, 9 for 65535).
* `duplex`: two requests of two or three equal lines, so that the template is
  defined and used in the first and again in the second; the opposite lane
  defines one pattern that the requests use too (Content-Length, the same id)
  and one of its own, at any time.
* `peer`: five frames out of twelve spell a request with a definition that was
  replaced, or a reset between two definitions. The name of the length comes
  whole or split over two frames, at the beginning of a line or with an `x`
  before it; the header ends with a frame of its own, or inside a template that
  ends the line before it too and begins the body; one definition is too wide
  for its length field, one frame is empty.
* `reverse`: the threshold is two units and the server sends three, so a node
  can reach it exactly, in one read or two, and overshoot it by one; the other
  node can do otherwise. In the passing run only the first unit begins a
  response, so the reverse encoder starts in the middle of one and may make
  anything of it: all that `Starts = {0, 2}` of the violated runs allows, and
  more. One request suffices, because the forward lane matters here only
  through its end.
* `http`: 112 pairs of requests (four encodings, bodies of up to three
  characters that include CRLF and a final chunk, two second requests) and
  eleven malformed texts behind a good request, each cut off at every
  position. `MCHttp` puts them together from pieces and says where each ends; TLC
  evaluates `HttpAssumption` on them, so the grammar reads each text as it was
  put together, and no further. Header, body, size-line and trailer limits are met and exceeded.
* `stores`: a ring of four bytes and chunks of up to six meet every relation
  between chunk, free end and capacity, and eleven bytes are more than two
  rounds. Six uses of the LRU dictionary, with sizes 0, 1, 3 and 7 under a cap
  of 6, make room with one victim or two, reject for the cap and for the
  protected half, and bring a key back under a new id; keys are
  interchangeable, hence the symmetry. Four packets of the learner evict,
  bring an evicted candidate back and exceed the budget by more than one
  candidate. The score dictionary needs no bound: its state is finite. The
  stores never call each other, so each behaviour exercises one of them; that
  keeps the sum of their state spaces instead of the product.

**Deadlock** is not checked: a connection may be idle for ever, or ended, a
stream has been read, a store stops at its bound.

**Fairness.** Of a lane: weak fairness of the encoder's writes, of the steps of
the decoder's loop that do not write, and of the listener's close: goroutines
that can run do run, and `defer c.Close()` follows the return of `Run`. There is
none for requests, for the end of the client's stream or for breaks, and none
for the return of `Destination.Write`, which is the server's doing. A write that
is blocked because the stream is full is not enabled, so the encoder's fairness
asks nothing of it. What the server has to do is a hypothesis of the properties
that need it (`DestinationTakes`). `Duplex` takes the same fairness and none for
the opposite lane. Of a connection: weak
fairness of each goroutine of each node by itself (a goroutine that waits in
`Read` is not enabled), and of the garbage collector for a socket that nothing
refers to; none for the client, the server and the network. There a write to a
neighbour is part of the step that makes it, and is taken to return, with an
error if the neighbour is gone. Of the HTTP
adapter: it goes on, since its stream has ended or every byte of it is there.

## 4. Proofs

`LaneProofs` proves, for all patterns, ids, requests, lengths and capacities
that satisfy the named assumptions of `Wire` and `Encoder`:

| Theorem | Statement |
|---|---|
| `TypeCorrect` | `Spec => []TypeOK` |
| `Invariance` | `Spec => []IInv` |
| `ReferencesResolve` | `Spec => []RefsResolve`, with colliding ids as well |
| `DefinedOnce` | `Spec => []DefineOnce` |
| `Reconstruction` | `CollisionFree` implies `Spec => []ByteExact` |

`lane_collision` shows that the hypothesis of `Reconstruction` is needed.

None of these is inductive alone. `ByteExact` speaks of what was delivered; why
the next delivery is right depends on the request being gathered, which depends
on the frames on their way, which depend on what the encoder had left to send.
`IInv` ties these together: `MarkInv` (each data frame carries the next segment
of truth), `TodoInv` (what is left to send is the rest of truth), `FrameInv`
(a frame says what its segment is, a reference only its id and lane),
`DefinedInv` (Defined agrees with the definitions on the stream, and each
reference has one before it), `TemplatesInv` (the decoder knows every
definition it has read, and an entry's pattern has the entry's id), `SinkInv`
(delivered and gathered data together are what was read). Only `SinkInv` needs
`CollisionFree`: an entry has the right id, and only injectivity makes it the
right pattern.

The proofs go action by action: lemmas on the type of each step, on a step of
`writeFrameCount` (`StreamInv`), on reading a frame (`TemplatesInv`,
`SinkInv`), and one temporal step per theorem.

The assumptions: the constants have the types that their use needs; the line
that `normalizeHTTPHeaders` adds for a body is a header line and gives the
body's length; no segment of a request is empty and each fits in a frame (a body
is at most 16 MB by `ReadHTTPRequestBody`, which is the frame limit; header lines
are at most 64 KB); a header is a request line and header lines, each with one
CRLF, at its end, and none of them blank, since `ReadHTTPRequestBody` stops at the
first blank one. The request line
is no usable Content-Length: the adapter asks only for three words, so
`Content-Length:  5` would do, and the decoder, which looks at every line, would
take 5 for the length. No client sends that, and the assumption says so.
`RequestProofs` is the only place that needs it.

`StoreProofs` proves of the raw window, for every capacity and every set of
chunks:

| Theorem | Statement |
|---|---|
| `WindowTypeCorrect` | `WindowSpec => []WindowTypeOK` |
| `SlidingWindow` | `WindowSpec => []SnapshotIsTail` |

The inductive invariant is `RingInv`: below `head` lie the latest bytes, from
`head` on, once the ring is full, those of the round before; `size` is the
number of bytes seen up to the capacity, and `head` equals it until then.
`KeptIsTail` says that what is copied is the end of what was seen, `CopyCases`
splits the copy by whether it wraps, `RingWraps` and `RingFits` prove the two
cases about constants, and `InvGivesTail` reads the snapshot off the invariant.

`DuplexProofs` proves, from the same assumptions and for any opposite lane:

| Theorem | Statement |
|---|---|
| `DuplexInvariance` | `DuplexSpec => []DuplexInv` |
| `DuplexReconstruction` | `CollisionFree` implies `DuplexSpec => []ByteExact` |

`DuplexInv` is what remains of `IInv` when the opposite lane writes into the
dictionaries: `StreamInv` and `SinkInv` stay, and an entry still has its own id;
that every definition read is in the dictionary does not, since a store may be
lost, and with it `RefsResolve` is lost as well. `SinkInv` survives because it
needs of an entry only that its pattern has its id (`KeyedById`): whoever wrote
it, with distinct ids it is the pattern that the reference means. The lemmas of
`LaneProofs` on `StreamInv` and `SinkInv` cover the steps of the lane; the steps
of the opposite lane change only the dictionaries (`OppositeDefinesInv`,
`RaceInv`).

`RequestProofs` proves, from the same assumptions:

| Theorem | Statement |
|---|---|
| `CostKept` | `Spec => []CostBound`, with colliding ids as well |
| `WholeDelivered` | `CollisionFree` implies `Spec => []WholeRequests` |
| `NothingRefused` | `CollisionFree` and `DefinitionsFit` imply `Spec => []NoViolation` |
| `LaneIsPipe` | `CollisionFree` implies `Spec => PipeSafety` |
| `DuplexWholeDelivered` | `CollisionFree` implies `DuplexSpec => []WholeRequests` |
| `DuplexIsPipe` | `CollisionFree` implies `DuplexSpec => PipeSafety` |

`PipeSafety` is `PipeSpec` without its fairness. `DefinitionsFit` says that the
constants of a definition that can be sent fit their 16-bit length fields;
`lane_wide` is what happens without it.

The wire does not mark where a request ends; the decoder finds out by reading the
header, as text, and counting bytes. Two invariants on top of `IInv` say that it
finds the right place. `EndsInv`: the accepted requests lie in `truth` one after the other,
each with one blank line that ends its header, no usable Content-Length before
the line above it, and in that line the number of bytes up to the end. `GatherInv`: a
running decoder is inside the first request that it has not delivered, its flag
`headerDone` says whether the blank line was read, and `contentLen` and `bodyHave`
are the bytes of the body and those of it read so far; or it is at rest and
everything was delivered. The run `lane` covers both through `WholeRequests` and
`PipeSpec`; TLC also checked them (`RequestInv`), `EncodableInv` and
`DefinitionsFit`, on that instance.

The argument has five parts. What a text of header lines says, whatever segments
it comes in: it grows by one line when a line is appended and by no other, it
ends with the blank line and not before (`LinesGrow`, `LinesEnd`, which rest on
`HeaderStays`: a CRLF CRLF found stays where it is), and its Content-Length is the
first that one of its lines gives (`ParseNext`). What a request looks like when it leaves the encoder
(`HeaderLayout`, `Layout`): the loop of `normalizeHTTPHeaders` is a recursive
function, which is shown to keep exactly the lines that are no framing headers, by
induction over the set of good lines. Sums of bytes (`BytesSame`, `BytesLess`,
`BytesNext`): a request that has not been read to its end lacks at least one byte,
because no segment is empty, so the decoder cannot flush early, and the last
segment makes it flush at once. A step of the decoder (`FeedCases`): what
`FeedAndFlush` does with the next segment, by where it lies in the request. And the
kinds of step (`RequestStep`): an `Accept`, a step that feeds nothing, one that
stops the decoder, one that feeds the next segment; every step of a lane
(`LaneRequests`) and of a duplex lane (`DuplexRequests`) is one of these, so that
the invariants and the refinement are proved once for both.

`CostBound` is inductive together with `StreamInv`: each `Emit...` action adds at
least as much to the right side as to `wireOut` (`EmitCost`), where a reference is
never longer than the segment it stands for (`RefOrRawShort`).

`PeerProofs` proves, for any sender of well-formed frames and from the
assumptions of `Wire` and `ProtocolPeer` alone:

| Theorem | Statement |
|---|---|
| `PeerTypeCorrect` | `PeerSpec => []DecoderTypeOK` |
| `UnknownRefsStop` | `PeerSpec => []UnknownRefStops` |
| `LatestDefinitionCounts` | `PeerSpec => []LatestDefinition` |
| `DeliversComplete` | `PeerSpec => DeliversAtCompletion` |

The module also extends `RequestProofs`, for its lemmas; what those assume of
requests plays no part in a theorem about `PeerSpec`. Three invariants carry the
argument. `EpochInv`: the dictionary of a running decoder holds, for each id, the
pattern of its latest definition since the last reset, and nothing for an id that
has none (`Current`). `GatheredInv`: what is gathered is no complete request yet
(`Complete` looks at the bytes alone), and neither is a part of it; and
`headerDone`, `contentLen` and `bodyHave` are what these bytes say, wherever frames
have cut them (`CountsNext`): the header that was found first stays the header
(`HeaderStays`), so the length that was parsed once stays the length.
`ReadInv`: what was delivered last, followed by what is gathered, ends with what
the frames since the last reset mean. Each is compared with the reference reading
*one frame further*: a reset begins an empty epoch (`ResetNext`), a definition
becomes the latest of its id (`DefinitionsNext`, `CurrentNext`), and
`MeaningBetween`, a recursive function, grows by the meaning of one frame
(`BetweenNext`), which rests on the function's existence for every length and its
independence of the length (`GluedExists`, `GluedSame` of `FiniteSums`). `HandlersRead` and
`HandlersGather` say what each handler does with the frame; a frame that is
appended later changes no earlier reading (`ReadingStays`), because every
reference already read has a definition before it. `UnknownRefStops` has one
exception to "only at unknown references": a known one whose expansion ends a
header that gives no length, at which the decoder stops as it does for any frame
that does so (`EndsWithoutLength`). TLC checked these
invariants on the instance of `peer` first.

`HttpProofs` proves, for all streams, every place where they may end and every
value of the limits:

| Theorem | Statement |
|---|---|
| `HttpTypeCorrect` | `HttpSpec => []HttpTypeOK` |
| `BodiesBounded` | `HttpSpec => []BodyBounded` |
| `InStepAlways` | `HttpSpec => []InStep` |
| `AllOrNothingAlways` | `HttpSpec => []AllOrNothing` |
| `EveryTextIsRead` | every sequence of strings is the text of a stream |
| `OneReading` | two streams with one text have the same requests and the same rest |

`HttpInv` adds `SizeInv` to the two: a size is accepted only if it keeps to the
limit together with the body so far, and stays so until its bytes are read.
`LineType` says that a line is read from what has arrived, and
`ParseIntType` that `ParseInt`, a recursive function over the digits, is a number.
Numbers are not bounded here, so the theorem is about sizes far below 2^63; at
the edge the sum in `readChunkedBody` can overflow (a hazard in `PROJECT.json`).

`InStep` speaks of the moments between two calls only. What is inductive,
`AlignInv`, says where the reader stands at every moment: behind some first
pieces of the request that is due (or of the rest), holding what these pieces say,
namely the position, the phase, the header fields, the body so far and the size
that is expected (`Holds`), and, once it has stopped, that no piece which has
arrived follows (`StopsAt`). The argument has four parts:

* *One piece more.* Appending a piece changes the fields, the chosen coding and
  length and the body in the way the actions change `hdr` and `body`
  (`ChunkedAdded`, `LengthAdded`, `BodyAdded`). `BodyOf` is a recursive function;
  `BodyIsGlued` and the lemmas of `FiniteSums` say that it exists and grows by
  the data of the last piece.
* *At most one piece follows* (`FollowsOnce`): lines end at their first line
  feed, and the pieces before determine the rest. So a piece that the reader
  finds is the next piece of the stream (`NextPiece`).
* *Every action* either takes the next piece, or completes the request, or stops
  where none that has arrived follows (`RequestLineAligned` to `TrailerAligned`,
  one lemma for each action, collected in `HttpStepAligned`). A line that the
  adapter refuses is one that the grammar refuses for the same text (`GoodLine`,
  `NoLine`).
* *The ends of requests grow* (`EndsOrdered`). A request that was returned ended
  before `pos`, hence before `limit`; the one that is due when the reader stops has
  a piece that has not arrived, and those behind it end later still. This gives
  `AllOrNothing`.

The last two theorems are about `HttpMessages` alone and say what the others are
worth. `EveryTextIsRead` takes a reading of the text that reaches farthest
and shows that it is one of a stream. `Far` measures this by twice the
position, and one more between two requests, so that an empty body counts as
progress too (`PartlyMore`); the length of the text bounds it. `OneReading` follows from
`FollowsOnce`. Together they make `HttpAssumption` harmless: `InStepAlways` and
`AllOrNothingAlways` hold for whatever a client sends, compared with the one
way to read it.

`ConnectionProofs` proves, for every threshold above 0, every length of the
response, all its starts and every number of requests:

| Theorem | Statement |
|---|---|
| `ConnTypeCorrect` | `ConnSpec => []ConnTypeOK` |
| `FirstBytesAreDirect` | `ConnSpec => []FirstBytesDirect` |
| `InStepNeverGarbles` | `ConnSpec => []InStepIsSafe` |

The inductive invariant `ConnInv` says that a reverse goroutine starts with `Run`
and has done nothing before (`LifeInv`), that every request that waits was sent
by the client (`InboxInv`), that a goroutine passes on no more than it has read
and leaves the fast path at the threshold (`CountInv`), that what dec has
written is the server's bytes up to where it left the fast path and from there
on frames, header and payload, each of which continues where the one before it
ends (`BackInv`), that enc has passed the first units as they are and, when it
left where dec did, reads whole frames (`ClientInv`), and the property itself
for a node that has stopped (`StepInv`). TLC checked `ConnInv` on a larger
instance (five units, three response starts) before it was proved.

`StoreProofs` also proves of the LRU dictionary, for every cap, all keys and sizes:

| Theorem | Statement |
|---|---|
| `LRUTypeCorrect`, `IndexCorrect`, `CapKept` | `LRUSpec => []LRUTypeOK`, `[]IndexInv`, `[]WithinCap` |
| `EvictionIsGuarded` | `LRUSpec => GuardedEviction` |
| `RejectionHasCause` | `LRUSpec => RejectedForCause` |

and of the learner and the score dictionary, for every budget, all patterns,
sizes and scores:

| Theorem | Statement |
|---|---|
| `LearnerTypeCorrect`, `HitsAreHonest` | `LearnerSpec => []LearnerTypeOK`, `[]HitsHonest` |
| `PressureOnly` | `LearnerSpec => LossUnderPressure` |
| `ScoreTypeCorrect`, `HardCapKept` | `ScoreSpec => []ScoreTypeOK`, `[]HardCap` |
| `YoungHalfStays` | `ScoreSpec => YoungHalfKept` |

The invariants are the conjunctions of the type invariant with the properties
themselves (`LRUInv`, `LearnerInv`, `ScoreInv`): the account of `WithinCap` is
needed to see that eviction makes the room it promises, and unique sequence
numbers (`IndexInv`) to see that the older half is one set. The action
properties follow from the invariant and one step. In the score dictionary ages
can be equal, so there are several older halves; `YoungHalfKept` holds for each:
what a call drops, together with all that is older, is at most half of the entries.

`FiniteSums` carries the arithmetic of these accounts. A sum of natural numbers
over a finite set, which the community modules define by a fold with a choice of
element, is the number of *cells* under its graph (`SumIsWeight`), and cells are
counted by the library's theorems on cardinality: disjoint sets add up
(`SumUnion`), an element can be taken out or added (`SumWithout`, `SumAdd`), a
sequence grows by its last element (`SumNext`), indices can be shifted (`SumShift`),
equal functions have equal sums (`SumSame`). The library's induction rules take
an operator as a parameter and cannot be used; induction is done on a *set* of
good instances instead, by its smallest counterexample, which exists because
inclusion is well-founded on finite sets (`FiniteInduction`).

Only model-checked: `NeverWedged`, `FirstBytesArrive`, `BothEndsRelease`,
`Finishes` and the `Live` of `PipeSpec` are liveness, which needs ENABLED and is
beyond the prover. Every invariant and every action property of a passing run is
proved.

## 5. Not modelled, and the plan

Not modelled, and why:

* the cutting of a line into spans (`encodeInfluxLineKV`, `trySplitHeaderLine`)
  and the byte layout of frames are stateless conversions, an input of
  `Encoder` and the frames of `Wire`; the repository's tests cover them;
* the accept loop: it has no state, and an error of `Accept` ends the process;
* `extract.go`, `window.go`, `index.go`, `helpers_v1.go`, `http_helpers.go`,
  `ReadPacket` and `WritePacket` have no caller;
* log output, the tickers and the per-direction counters of the statistics;
* overflow of 64-bit numbers in the HTTP adapter and of 32-bit ids in the LRU
  dictionary (listed as hazards).
