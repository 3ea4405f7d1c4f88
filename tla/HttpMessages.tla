---------------------------- MODULE HttpMessages ----------------------------
(***************************************************************************)
(* Requests as they lie in a stream of bytes: a reference for HttpAdapter, *)
(* which takes them out of it step by step.                                *)
(*                                                                         *)
(* The text is a sequence of characters, of which the reader tells apart   *)
(*   "R" "N"    carriage return and line feed                              *)
(*   "0".."9"   digits                                                     *)
(*   "q"        what a request line consists of (three words)              *)
(*   "t" "i"    Transfer-Encoding: chunked, and any other coding           *)
(*   "c"        Content-Length:                                            *)
(*   ";"        the start of a chunk extension                             *)
(* and all others.  A body may contain any of them.                        *)
(***************************************************************************)
EXTENDS Integers, SequencesExt

CONSTANTS
    maxHeaderBytes,
    maxBodyBytes,
    maxSizeLine,     \* for the line with the size of a chunk
    maxTrailer

ASSUME LimitsAssumption ==
    {maxHeaderBytes, maxBodyBytes, maxSizeLine, maxTrailer} \subseteq Nat

-----------------------------------------------------------------------------
(***************************************************************************)
(* What a line says.                                                       *)
(***************************************************************************)
Content(line) == SubSeq(line, 1, Len(line) - 2)

Digit == [d \in {"0", "1", "2", "3", "4", "5", "6", "7", "8", "9"} |->
             CASE d = "0" -> 0 [] d = "1" -> 1 [] d = "2" -> 2 [] d = "3" -> 3
               [] d = "4" -> 4 [] d = "5" -> 5 [] d = "6" -> 6 [] d = "7" -> 7
               [] d = "8" -> 8 [] d = "9" -> 9]

\* strconv.ParseInt, -1 where it fails.  Values stay far below 2^63; no text
\* of the model uses a sign or the digits a to f.
ParseInt(digits, base) ==
    LET value[i \in 0..Len(digits)] ==
            IF i = 0 THEN 0 ELSE base * value[i - 1] + Digit[digits[i]]
    IN  IF digits = <<>> \/ \E i \in DOMAIN digits : digits[i] \notin DOMAIN Digit
        THEN -1
        ELSE value[Len(digits)]

ChunkSize(line) ==
    LET marks == {i \in DOMAIN Content(line) : Content(line)[i] = ";"}
    IN  ParseInt(IF marks = {} THEN Content(line) ELSE SubSeq(line, 1, Min(marks) - 1), 16)

-----------------------------------------------------------------------------
(***************************************************************************)
(* A request is a sequence of pieces.  t is the text, a the position where *)
(* the request begins, m its pieces so far.                                *)
(***************************************************************************)
Kinds == {"request", "field", "blank", "sized", "size", "chunk", "last", "trailer", "close"}

Piece == [kind : Kinds, end : Nat]

EndOf(a, m) == IF m = <<>> THEN a ELSE m[Len(m)].end

LastKind(m) == IF m = <<>> THEN "none" ELSE m[Len(m)].kind

\* Where its i-th piece begins.
From(a, m, i) == IF i = 1 THEN a ELSE m[i - 1].end

Part(t, p, e) == SubSeq(t, p + 1, e)

IsLine(t, p, e) ==
    /\ e \in p + 2 .. Len(t)
    /\ t[e - 1] = "R" /\ t[e] = "N"
    /\ \A i \in p + 1 .. e - 1 : t[i] # "N"

Fields(t, a, m, names) ==
    {i \in DOMAIN m : m[i].kind = "field" /\ t[From(a, m, i) + 1] \in names}

\* Of several fields of one name the last one counts.
Chunked(t, a, m) ==
    LET codings == Fields(t, a, m, {"t", "i"})
    IN  codings # {} /\ t[From(a, m, Max(codings)) + 1] = "t"

Length(t, a, m) ==
    LET lengths == Fields(t, a, m, {"c"})
        i == Max(lengths)
    IN  IF lengths = {} THEN <<>> ELSE Tail(Content(Part(t, From(a, m, i), m[i].end)))

\* The body is what the pieces with data hold; a chunk ends with CRLF.
Data(t, a, m, i) ==
    CASE m[i].kind = "sized" -> Part(t, From(a, m, i), m[i].end)
      [] m[i].kind = "chunk" -> Part(t, From(a, m, i), m[i].end - 2)
      [] OTHER -> <<>>

BodyOf(t, a, m) ==
    LET upTo[i \in 0..Len(m)] == IF i = 0 THEN <<>> ELSE upTo[i - 1] \o Data(t, a, m, i)
    IN  upTo[Len(m)]

-----------------------------------------------------------------------------
\* A line of at most max bytes, empty or not.
NextLine(t, p, q, max, empty) ==
    /\ IsLine(t, p, q.end) /\ q.end - p <= max
    /\ (q.end = p + 2) <=> empty

HeaderLine(t, a, m, q, empty) ==
    /\ LastKind(m) \in {"request", "field"}
    /\ NextLine(t, EndOf(a, m), q, maxHeaderBytes - (EndOf(a, m) - a), empty)

\* The header says where the body ends: by chunks, or by a length within the
\* limit; a length that is no number is an error in either case.
Delimited(t, a, m) ==
    LET len == ParseInt(Length(t, a, m), 10)
    IN  /\ Length(t, a, m) # <<>> => len >= 0
        /\ Chunked(t, a, m) \/ len \in 0..maxBodyBytes

SizeLine(t, a, m, q) ==
    LET size == ChunkSize(Part(t, EndOf(a, m), q.end))
    IN  /\ LastKind(m) = "chunk" \/ (LastKind(m) = "blank" /\ Chunked(t, a, m))
        /\ IsLine(t, EndOf(a, m), q.end) /\ q.end - EndOf(a, m) <= maxSizeLine
        /\ size >= 0 /\ Len(BodyOf(t, a, m)) + size <= maxBodyBytes
        /\ (size = 0) <=> (q.kind = "last")

TrailerLine(t, a, m, q, empty) ==
    /\ LastKind(m) \in {"last", "trailer"}
    /\ NextLine(t, EndOf(a, m), q, maxTrailer, empty)

\* q follows the pieces m of a request.
Follows(t, a, m, q) ==
    LET p == EndOf(a, m)
    IN  \/ /\ q.kind = "request" /\ m = <<>>
           /\ IsLine(t, p, q.end) /\ q.end - p <= maxHeaderBytes /\ t[p + 1] = "q"
        \/ q.kind = "field" /\ HeaderLine(t, a, m, q, FALSE)
        \/ q.kind = "blank" /\ HeaderLine(t, a, m, q, TRUE) /\ Delimited(t, a, m)
        \/ /\ q.kind = "sized" /\ LastKind(m) = "blank" /\ ~Chunked(t, a, m)
           /\ q.end = p + ParseInt(Length(t, a, m), 10) /\ q.end \in p..Len(t)
        \/ q.kind \in {"size", "last"} /\ SizeLine(t, a, m, q)
        \/ /\ q.kind = "chunk" /\ LastKind(m) = "size"
           /\ q.end = p + ChunkSize(Part(t, From(a, m, Len(m)), p)) + 2 /\ q.end \in p + 2..Len(t)
           /\ t[q.end - 1] = "R" /\ t[q.end] = "N"
        \/ q.kind = "trailer" /\ TrailerLine(t, a, m, q, FALSE)
        \/ q.kind = "close" /\ TrailerLine(t, a, m, q, TRUE)

\* The first pieces of a request, or all of them.
Reading(t, a, m) ==
    m \in Seq(Piece) /\ \A i \in DOMAIN m : Follows(t, a, SubSeq(m, 1, i - 1), m[i])

Whole(m) == LastKind(m) \in {"sized", "close"}

Stuck(t, a, m) ==
    \A k \in Kinds, e \in 0..Len(t) : ~Follows(t, a, m, [kind |-> k, end |-> e])

\* Where the k-th request begins.
Start(s, k) == IF k = 1 THEN 0 ELSE EndOf(0, s.requests[k - 1])

\* The text of a stream is read as requests, one behind the other, and a rest
\* that is no request, in one way only.
IsStream(s) ==
    LET last == Start(s, Len(s.requests) + 1)
    IN  /\ s.text \in Seq(STRING)
        /\ s.requests \in Seq(Seq(Piece))
        /\ \A k \in DOMAIN s.requests :
              Reading(s.text, Start(s, k), s.requests[k]) /\ Whole(s.requests[k])
        /\ Reading(s.text, last, s.rest) /\ ~Whole(s.rest) /\ Stuck(s.text, last, s.rest)
=============================================================================
