---------------------------- MODULE HttpAdapter ----------------------------
(***************************************************************************)
(* internal/httpio/http_request_body.go, called over and over by the       *)
(* encoder with one buffered reader: it takes requests out of a stream of  *)
(* bytes, by Content-Length or by chunks.                                  *)
(***************************************************************************)
EXTENDS HttpMessages

CONSTANT Streams    \* what clients send: a text, and how it is to be read

ASSUME HttpAssumption == \A s \in Streams : IsStream(s)

VARIABLES
    stream,    \* the client's stream; only its text is known to the reader
    limit,     \* how much of its text arrives before the connection ends
    pos,       \* how much of it has been read
    phase,     \* what is read next
    hdr,       \* of the current request: header bytes, and the two fields
    body,      \* the body so far
    n,         \* the size of the chunk that is read next
    returned,  \* the bodies that were returned
    status     \* running, or how the last call ended

callVars == <<phase, hdr, body, n>>
httpVars == <<stream, limit, pos, callVars, returned, status>>

NoHeader == [len |-> 0, chunked |-> FALSE, cl |-> <<>>]

HttpTypeOK ==
    /\ stream.text \in Seq(STRING)
    /\ limit \in 0..Len(stream.text)
    /\ pos \in 0..limit
    /\ phase \in {"request", "headers", "sized", "size", "chunk", "trailer"}
    /\ hdr \in [len : 0..maxHeaderBytes, chunked : BOOLEAN, cl : Seq(STRING)]
    /\ body \in Seq(STRING)
    /\ n \in Nat
    /\ returned \in Seq(Seq(STRING))
    /\ status \in {"run", "eof", "failed"}

\* The connection may end anywhere.
HttpInit ==
    /\ stream \in Streams
    /\ limit \in 0..Len(stream.text)
    /\ pos = 0
    /\ phase = "request"
    /\ hdr = NoHeader
    /\ body = <<>>
    /\ n = 0
    /\ returned = <<>>
    /\ status = "run"

-----------------------------------------------------------------------------
(***************************************************************************)
(* The buffered reader.                                                    *)
(***************************************************************************)
Text(a, b) == SubSeq(stream.text, a, b)

LineEnds == {i \in pos + 1 .. limit : stream.text[i] = "N"}

\* The next line with its line feed; empty when the stream ends before it.
Line == IF LineEnds = {} THEN <<>> ELSE Text(pos + 1, Min(LineEnds))

\* readLineCRLF.
LineOK(max) ==
    /\ Line # <<>>
    /\ Len(Line) <= max
    /\ Len(Line) >= 2 /\ Line[Len(Line) - 1] = "R"

Blank(line) == line = <<"R", "N">>

-----------------------------------------------------------------------------
(***************************************************************************)
(* The end of a call.                                                      *)
(***************************************************************************)
\* An error; the encoder returns, for io.EOF without reporting it.
Fail(how) ==
    /\ status' = how
    /\ UNCHANGED <<stream, limit, pos, callVars, returned>>

\* The line cannot be used.
BadLine(max) ==
    /\ ~LineOK(max)
    /\ Fail(IF Line = <<>> THEN "eof" ELSE "failed")

\* io.ReadFull of k bytes from position p.
Available(p, k) == p + k <= limit
Missing(p) == IF p = limit THEN "eof" ELSE "failed"

\* Mutant: the next call starts with a new buffered reader.
ReturnUnbuffered(b, p) ==
    /\ returned' = Append(returned, b)
    /\ pos' = limit
    /\ phase' = "request"
    /\ hdr' = NoHeader
    /\ body' = <<>>
    /\ n' = 0
    /\ UNCHANGED <<stream, limit, status>>

\* The body is returned and the encoder calls again.
Return(b, p) ==
    /\ returned' = Append(returned, b)
    /\ pos' = p
    /\ phase' = "request"
    /\ hdr' = NoHeader
    /\ body' = <<>>
    /\ n' = 0
    /\ UNCHANGED <<stream, limit, status>>

-----------------------------------------------------------------------------
(***************************************************************************)
(* ReadHTTPRequestBody.                                                    *)
(***************************************************************************)
At(p) == status = "run" /\ phase = p

ReadRequestLine ==
    /\ At("request")
    /\ \/ BadLine(maxHeaderBytes)
       \/ LineOK(maxHeaderBytes) /\ Head(Line) # "q" /\ Fail("failed")
       \/ /\ LineOK(maxHeaderBytes) /\ Head(Line) = "q"
          /\ hdr' = [hdr EXCEPT !.len = Len(Line)]
          /\ pos' = pos + Len(Line)
          /\ phase' = "headers"
          /\ UNCHANGED <<stream, limit, body, n, returned, status>>

\* Of several fields of one name the last one counts.
Field(line) ==
    CASE Head(line) = "t" -> [hdr EXCEPT !.len = @ + Len(line), !.chunked = TRUE]
      [] Head(line) = "i" -> [hdr EXCEPT !.len = @ + Len(line), !.chunked = FALSE]
      [] Head(line) = "c" -> [hdr EXCEPT !.len = @ + Len(line), !.cl = Tail(Content(line))]
      [] OTHER            -> [hdr EXCEPT !.len = @ + Len(line)]

\* Mutant: every line may be as long as the whole header.
HeaderRoomFull == maxHeaderBytes

HeaderRoom == maxHeaderBytes - hdr.len

ReadHeader ==
    /\ At("headers")
    /\ \/ BadLine(HeaderRoom)
       \/ /\ LineOK(HeaderRoom) /\ ~Blank(Line)
          /\ hdr' = Field(Line)
          /\ pos' = pos + Len(Line)
          /\ UNCHANGED <<stream, limit, phase, body, n, returned, status>>

\* Mutant: Content-Length is preferred to chunks.
BodyKindLengthFirst(len) ==
    IF hdr.cl # <<>> /\ len < 0 THEN "failed"
    ELSE IF len >= 0 THEN IF len > maxBodyBytes THEN "failed" ELSE "sized"
    ELSE IF hdr.chunked THEN "size" ELSE "failed"

\* A field that does not parse is an error even when chunks take precedence;
\* with neither, the adapter does not guess.
BodyKind(len) ==
    IF hdr.cl # <<>> /\ len < 0 THEN "failed"
    ELSE IF hdr.chunked THEN "size"
    ELSE IF len < 0 \/ len > maxBodyBytes THEN "failed" ELSE "sized"

EndHeader ==
    /\ At("headers")
    /\ LineOK(HeaderRoom) /\ Blank(Line)
    /\ LET len == ParseInt(hdr.cl, 10)
       IN  \/ BodyKind(len) = "failed" /\ Fail("failed")
           \/ /\ BodyKind(len) # "failed"
              /\ phase' = BodyKind(len)
              /\ n' = IF phase' = "sized" THEN len ELSE 0
              /\ pos' = pos + Len(Line)
              /\ UNCHANGED <<stream, limit, hdr, body, returned, status>>

ReadSizedBody ==
    /\ At("sized")
    /\ \/ Available(pos, n) /\ Return(Text(pos + 1, pos + n), pos + n)
       \/ ~Available(pos, n) /\ Fail(Missing(pos))

(***************************************************************************)
(* readChunkedBody.                                                        *)
(***************************************************************************)
\* Mutant: each chunk is held against the limit, not their sum.
TooLargeAlone(size) == size > maxBodyBytes

TooLarge(size) == Len(body) + size > maxBodyBytes

ReadChunkSize ==
    /\ At("size")
    /\ \/ BadLine(maxSizeLine)
       \/ /\ LineOK(maxSizeLine)
          /\ ChunkSize(Line) < 0 \/ (ChunkSize(Line) > 0 /\ TooLarge(ChunkSize(Line)))
          /\ Fail("failed")
       \/ /\ LineOK(maxSizeLine)
          /\ ChunkSize(Line) >= 0 /\ (ChunkSize(Line) > 0 => ~TooLarge(ChunkSize(Line)))
          /\ n' = ChunkSize(Line)
          /\ phase' = IF n' = 0 THEN "trailer" ELSE "chunk"
          /\ pos' = pos + Len(Line)
          /\ UNCHANGED <<stream, limit, hdr, body, returned, status>>

\* The chunk and the CRLF behind it.
ReadChunk ==
    /\ At("chunk")
    /\ \/ ~Available(pos, n) /\ Fail(Missing(pos))
       \/ /\ Available(pos, n) /\ ~Available(pos + n, 2)
          /\ Fail(Missing(pos + n))
       \/ /\ Available(pos, n + 2)
          /\ ~Blank(Text(pos + n + 1, pos + n + 2))
          /\ Fail("failed")
       \/ /\ Available(pos, n + 2)
          /\ Blank(Text(pos + n + 1, pos + n + 2))
          /\ body' = body \o Text(pos + 1, pos + n)
          /\ pos' = pos + n + 2
          /\ phase' = "size"
          /\ n' = 0
          /\ UNCHANGED <<stream, limit, hdr, returned, status>>

\* Mutant: the end of the stream inside the trailer is waited out.
ReadTrailerPatient ==
    /\ At("trailer")
    /\ LineOK(maxTrailer)
    /\ \/ Blank(Line) /\ Return(body, pos + Len(Line))
       \/ /\ ~Blank(Line)
          /\ pos' = pos + Len(Line)
          /\ UNCHANGED <<stream, limit, callVars, returned, status>>

\* Trailer fields are skipped up to the blank line.
ReadTrailer ==
    /\ At("trailer")
    /\ \/ BadLine(maxTrailer)
       \/ LineOK(maxTrailer) /\ Blank(Line) /\ Return(body, pos + Len(Line))
       \/ /\ LineOK(maxTrailer) /\ ~Blank(Line)
          /\ pos' = pos + Len(Line)
          /\ UNCHANGED <<stream, limit, callVars, returned, status>>

HttpNext ==
    \/ ReadRequestLine \/ ReadHeader \/ EndHeader \/ ReadSizedBody
    \/ ReadChunkSize \/ ReadChunk \/ ReadTrailer

HttpSpec == HttpInit /\ [][HttpNext]_httpVars /\ WF_httpVars(HttpNext)

-----------------------------------------------------------------------------
(***************************************************************************)
(* Properties.                                                             *)
(***************************************************************************)
\* Between two calls the reader stands exactly at the end of a request and
\* the bodies returned are those of the requests before it: whatever the
\* encodings of pipelined requests, and whatever their bodies look like, no
\* byte is taken for part of another request.
InStep ==
    /\ Len(returned) <= Len(stream.requests)
    /\ \A k \in DOMAIN returned :
          returned[k] = BodyOf(stream.text, Start(stream, k), stream.requests[k])
    /\ phase = "request" => pos = Start(stream, Len(returned) + 1)

\* When the encoder stops, it has been given every request that arrived
\* whole, and nothing of one that was cut off or is malformed.
AllOrNothing ==
    status # "run" =>
        \A k \in DOMAIN stream.requests :
            k <= Len(returned) <=> EndOf(0, stream.requests[k]) <= limit

\* The body that is gathered never exceeds the limit, in however many chunks
\* it comes, and neither does one that was returned.
BodyBounded ==
    \A b \in {body} \cup Range(returned) : Len(b) <= maxBodyBytes

\* The reader comes to an end on every stream that ends, cut off or not.
Finishes == <>(status # "run")
=============================================================================
