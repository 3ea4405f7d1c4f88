----------------------------- MODULE HttpProofs -----------------------------
(***************************************************************************)
(* The HTTP adapter keeps to its limits and in step with the requests of   *)
(* the stream, for all streams, wherever they end, and for all values of   *)
(* the limits.                                                             *)
(*                                                                         *)
(* First the types and the limits.  Then what the reader holds is tied to  *)
(* the pieces of the request that it has taken: at most one piece follows  *)
(* them, a step takes it, and it fails only where none that has arrived    *)
(* follows.  At last, that every text is made of requests and a rest in    *)
(* exactly one way.                                                        *)
(***************************************************************************)
EXTENDS HttpAdapter, FiniteSums, SequenceTheorems

\* g is the function that ParseInt builds on the first k of the values c.
Valued(k, base, c, g) ==
    g = [i \in 0..k |-> IF i = 0 THEN 0 ELSE base * g[i - 1] + c[i]]

\* There is one, for every length.
LEMMA ValuedExists ==
    ASSUME NEW base, NEW c
    PROVE  \A k \in Nat : \E g : Valued(k, base, c, g)
<1> DEFINE G == {k \in Nat : \E g : Valued(k, base, c, g)}
<1>1. 0 \in G
  <2> DEFINE g == [i \in 0..0 |-> 0]
  <2>1. g = [i \in 0..0 |-> IF i = 0 THEN 0 ELSE base * g[i - 1] + c[i]]
    OBVIOUS
  <2>2. Valued(0, base, c, g)
    BY <2>1 DEF Valued
  <2> QED
    BY <2>2
<1>2. ASSUME NEW k \in Nat, k \in G PROVE k + 1 \in G
  <2>1. PICK g : Valued(k, base, c, g)
    BY <1>2
  <2> DEFINE h == [i \in 0..k + 1 |-> IF i = k + 1 THEN base * g[k] + c[k + 1] ELSE g[i]]
             Turn(f, i) == IF i = 0 THEN 0 ELSE base * f[i - 1] + c[i]
  <2>2. ASSUME NEW i \in 0..k + 1 PROVE h[i] = Turn(h, i)
    <3>1. CASE i = k + 1
      <4>1. h[i] = base * g[k] + c[k + 1]
        BY <3>1
      <4>2. i # 0 /\ i - 1 \in 0..k + 1 /\ i - 1 # k + 1 /\ i - 1 = k
        BY <3>1
      <4>3. h[i - 1] = g[k]
        BY <4>2
      <4> HIDE DEF h
      <4> QED
        BY <3>1, <4>1, <4>2, <4>3
    <3>2. CASE i # k + 1
      <4>1. i \in 0..k /\ h[i] = g[i]
        BY <3>2
      <4>2. g[i] = Turn(g, i)
        BY <2>1, <4>1 DEF Valued
      <4>3. i # 0 => i - 1 \in 0..k + 1 /\ i - 1 # k + 1
        BY <4>1
      <4>4. i # 0 => h[i - 1] = g[i - 1]
        BY <4>3
      <4> HIDE DEF h
      <4> QED
        BY <4>1, <4>2, <4>4
    <3> QED
      BY <3>1, <3>2
  <2>3. h = [i \in 0..k + 1 |-> h[i]]
    OBVIOUS
  <2> HIDE DEF h
  <2>4. [i \in 0..k + 1 |-> h[i]] = [i \in 0..k + 1 |-> Turn(h, i)]
    BY <2>2
  <2>5. Valued(k + 1, base, c, h)
    BY <2>3, <2>4 DEF Valued
  <2> QED
    BY <2>5
<1> HIDE DEF G
<1>3. \A k \in Nat : k \in G
  BY <1>1, <1>2, NatSetInduction
<1> QED
  BY <1>3 DEF G

\* Its values are numbers.
LEMMA ValuedType ==
    ASSUME NEW k \in Nat, NEW base \in Nat, NEW c, \A i \in 1..k : c[i] \in Nat,
           NEW g, Valued(k, base, c, g)
    PROVE  g[k] \in Nat
<1> DEFINE G == {j \in Nat : j <= k => g[j] \in Nat}
<1>1. 0 \in G
  <2>1. g[0] = 0
    BY DEF Valued
  <2> QED
    BY <2>1
<1>2. ASSUME NEW j \in Nat, j \in G PROVE j + 1 \in G
  <2>1. SUFFICES ASSUME j + 1 <= k PROVE g[j + 1] \in Nat
    OBVIOUS
  <2>2. j + 1 \in 0..k /\ j + 1 \in 1..k /\ j + 1 # 0 /\ (j + 1) - 1 = j
    BY <2>1
  <2>3. g[j] \in Nat
    BY <1>2, <2>1
  <2>4. g[j + 1] = base * g[j] + c[j + 1]
    BY <2>2 DEF Valued
  <2>5. base * g[j] \in Nat
    BY <2>3
  <2> QED
    BY <2>2, <2>4, <2>5
<1> HIDE DEF G
<1>3. \A j \in Nat : j \in G
  BY <1>1, <1>2, NatSetInduction
<1>4. k \in G /\ k <= k
  BY <1>3
<1> QED
  BY <1>4 DEF G

\* What ParseInt returns is a number, or -1 (strconv.ParseInt).
LEMMA ParseIntType ==
    ASSUME NEW digits \in Seq(STRING), NEW base \in Nat
    PROVE  ParseInt(digits, base) \in Nat \cup {-1}
<1> DEFINE k == Len(digits)
           c == [i \in 1..k |-> Digit[digits[i]]]
           value == CHOOSE f : f = [i \in 0..k |->
                        IF i = 0 THEN 0 ELSE base * f[i - 1] + Digit[digits[i]]]
           bad == digits = <<>> \/ \E i \in DOMAIN digits : digits[i] \notin DOMAIN Digit
<1>1. k \in Nat /\ DOMAIN digits = 1..k
  OBVIOUS
<1>2. ParseInt(digits, base) = IF bad THEN -1 ELSE value[k]
  BY DEF ParseInt
<1>3. ASSUME ~bad PROVE value[k] \in Nat
  <2>1. \A i \in 1..k : digits[i] \in DOMAIN Digit
    BY <1>1, <1>3
  <2>2. \A d \in DOMAIN Digit : Digit[d] \in Nat
    BY DEF Digit
  <2>3. \A i \in 1..k : c[i] \in Nat
    BY <2>1, <2>2
  <2>4. ASSUME NEW f
        PROVE  [i \in 0..k |-> IF i = 0 THEN 0 ELSE base * f[i - 1] + Digit[digits[i]]]
               = [i \in 0..k |-> IF i = 0 THEN 0 ELSE base * f[i - 1] + c[i]]
    <3>1. \A i \in 0..k : i # 0 => i \in 1..k
      BY <1>1
    <3>2. \A i \in 0..k : i # 0 => c[i] = Digit[digits[i]]
      BY <3>1
    <3> HIDE DEF c
    <3> QED
      BY <3>2
  <2>5. PICK g : Valued(k, base, c, g)
    BY <1>1, ValuedExists
  <2>6. g = [i \in 0..k |-> IF i = 0 THEN 0 ELSE base * g[i - 1] + Digit[digits[i]]]
    BY <2>4, <2>5 DEF Valued
  <2> HIDE DEF c, k
  <2>7. value = [i \in 0..k |-> IF i = 0 THEN 0 ELSE base * value[i - 1] + Digit[digits[i]]]
    BY <2>6, Zenon
  <2> HIDE DEF value
  <2>8. Valued(k, base, c, value)
    BY <2>4, <2>7 DEF Valued
  <2> QED
    BY <1>1, <2>3, <2>8, ValuedType
<1> HIDE DEF value, k, bad
<1> QED
  BY <1>2, <1>3

-----------------------------------------------------------------------------
\* The sizes that were accepted keep to the limit.
SizeInv ==
    /\ phase = "sized" => n <= maxBodyBytes
    /\ phase = "chunk" => Len(body) + n <= maxBodyBytes

HttpInv == HttpTypeOK /\ BodyBounded /\ SizeInv

\* A part of what has arrived.
LEMMA TextType ==
    ASSUME HttpTypeOK, NEW a \in Nat, NEW b \in Nat, pos <= a, a <= b, b <= limit
    PROVE  Text(a + 1, b) \in Seq(STRING) /\ Len(Text(a + 1, b)) = b - a
<1>1. /\ stream.text \in Seq(STRING) /\ Len(stream.text) \in Nat
      /\ limit \in 0..Len(stream.text) /\ pos \in 0..limit
  BY LimitsAssumption DEF HttpTypeOK
<1>2. \A i \in a + 1..b : stream.text[i] \in STRING
  <2>1. \A i \in a + 1..b : i \in 1..Len(stream.text)
    BY <1>1
  <2> QED
    BY <1>1, <2>1
<1>3. a + 1 \in Int /\ b \in Int
  OBVIOUS
<1>4. /\ SubSeq(stream.text, a + 1, b) \in Seq(STRING)
      /\ Len(SubSeq(stream.text, a + 1, b)) = IF a + 1 <= b THEN b - (a + 1) + 1 ELSE 0
  BY <1>2, <1>3, SubSeqProperties
<1> QED
  BY <1>4 DEF Text

\* A line that was read is a part of what has arrived, and is not empty.
LEMMA LineType ==
    ASSUME HttpTypeOK, Line # <<>>
    PROVE  /\ Line \in Seq(STRING) /\ Len(Line) \in Nat \ {0}
           /\ pos + Len(Line) \in 0..limit
<1>1. limit \in Nat /\ pos \in 0..limit
  BY LimitsAssumption DEF HttpTypeOK
<1>2. LineEnds # {} /\ Line = Text(pos + 1, Min(LineEnds))
  BY DEF Line
<1>3. LineEnds \in SUBSET Nat /\ LineEnds \subseteq pos + 1..limit
  BY <1>1 DEF LineEnds
<1>4. Min(LineEnds) \in LineEnds
  <2>1. \E m \in LineEnds : \A k \in LineEnds : m <= k
    BY <1>2, <1>3, LeastNatural
  <2> QED
    BY <2>1, Zenon DEF Min
<1>5. PICK b \in Nat : b = Min(LineEnds) /\ b \in pos + 1..limit
  BY <1>3, <1>4
<1>6. Line \in Seq(STRING) /\ Len(Line) = b - pos
  <2>1. pos \in Nat /\ pos <= pos /\ pos <= b /\ b <= limit
    BY <1>1, <1>5
  <2>2. Text(pos + 1, b) \in Seq(STRING) /\ Len(Text(pos + 1, b)) = b - pos
    BY <2>1, TextType
  <2> QED
    BY <1>2, <1>5, <2>2
<1> QED
  BY <1>1, <1>5, <1>6

\* What is left of a line without its end, and of a field without its name.
LEMMA ContentType ==
    ASSUME NEW line \in Seq(STRING), Len(line) >= 2
    PROVE  Content(line) \in Seq(STRING) /\ Len(Content(line)) = Len(line) - 2
<1>1. \A i \in 1..Len(line) - 2 : line[i] \in STRING
  OBVIOUS
<1>2. Len(line) \in Nat /\ Len(line) - 2 \in Int /\ 1 \in Int
  OBVIOUS
<1>3. /\ SubSeq(line, 1, Len(line) - 2) \in Seq(STRING)
      /\ Len(SubSeq(line, 1, Len(line) - 2)) =
             IF 1 <= Len(line) - 2 THEN (Len(line) - 2) - 1 + 1 ELSE 0
  BY <1>1, <1>2, SubSeqProperties
<1>4. Content(line) = SubSeq(line, 1, Len(line) - 2)
  BY DEF Content
<1>5. Content(line) \in Seq(STRING)
  BY <1>3, <1>4
<1>6. Len(Content(line)) = IF 1 <= Len(line) - 2 THEN (Len(line) - 2) - 1 + 1 ELSE 0
  BY <1>3, <1>4, Zenon
<1>7. ASSUME NEW k \in Nat, k >= 2
      PROVE  (IF 1 <= k - 2 THEN (k - 2) - 1 + 1 ELSE 0) = k - 2
  BY <1>7
<1>8. Len(Content(line)) = Len(line) - 2
  BY <1>2, <1>6, <1>7, Zenon
<1> QED
  BY <1>5, <1>8

\* The size of a chunk is a number, or -1.
LEMMA ChunkSizeType ==
    ASSUME NEW line \in Seq(STRING), Len(line) >= 2
    PROVE  ChunkSize(line) \in Nat \cup {-1}
<1> DEFINE t == Content(line)
           marks == {i \in DOMAIN t : t[i] = ";"}
           digits == IF marks = {} THEN t ELSE SubSeq(line, 1, Min(marks) - 1)
<1>1. t \in Seq(STRING) /\ Len(t) = Len(line) - 2
  BY ContentType
<1>2. digits \in Seq(STRING)
  <2>1. CASE marks = {}
    BY <1>1, <2>1
  <2>2. CASE marks # {}
    <3>1. marks \in SUBSET Nat /\ marks \subseteq 1..Len(line)
      <4>1. DOMAIN t = 1..Len(line) - 2 /\ Len(line) \in Nat
        BY <1>1
      <4> HIDE DEF t
      <4>2. \A i \in DOMAIN t : i \in Nat /\ i \in 1..Len(line)
        BY <4>1
      <4> QED
        BY <4>2
    <3>2. \E m \in marks : \A k \in marks : m <= k
      BY <2>2, <3>1, LeastNatural
    <3> HIDE DEF marks
    <3>3. Min(marks) \in marks
      BY <3>2, Zenon DEF Min
    <3>4. Min(marks) - 1 \in Int /\ \A i \in 1..Min(marks) - 1 : line[i] \in STRING
      <4>1. Min(marks) \in 1..Len(line)
        BY <3>1, <3>3
      <4> QED
        BY <4>1
    <3>5. SubSeq(line, 1, Min(marks) - 1) \in Seq(STRING)
      BY <3>4, SubSeqProperties
    <3> QED
      BY <2>2, <3>5
  <2> QED
    BY <2>1, <2>2
<1>3. ChunkSize(line) = ParseInt(digits, 16)
  BY DEF ChunkSize
<1> HIDE DEF digits
<1> QED
  BY <1>2, <1>3, ParseIntType

-----------------------------------------------------------------------------
\* The invariant holds at the start.
LEMMA HttpInvInit == HttpInit => HttpInv
<1> SUFFICES ASSUME HttpInit
             PROVE  HttpInv
  OBVIOUS
<1>1. /\ {maxHeaderBytes, maxBodyBytes} \subseteq Nat
      /\ \A s \in Streams : s.text \in Seq(STRING)
  BY LimitsAssumption, HttpAssumption DEF IsStream
<1>2. NoHeader \in [len : 0..maxHeaderBytes, chunked : BOOLEAN, cl : Seq(STRING)]
  BY <1>1 DEF NoHeader
<1>3. HttpTypeOK
  BY <1>1, <1>2 DEF HttpInit, HttpTypeOK
<1>4. BodyBounded
  <2>1. {body} \cup Range(returned) = {<<>>}
    BY DEF HttpInit, Range
  <2> QED
    BY <1>1, <2>1 DEF BodyBounded
<1>5. SizeInv
  BY DEF HttpInit, SizeInv
<1> QED
  BY <1>3, <1>4, <1>5 DEF HttpInv

\* An error changes nothing else.
LEMMA FailKeeps ==
    ASSUME HttpInv, NEW how \in {"eof", "failed"}, Fail(how)
    PROVE  HttpInv'
<1> USE DEF Fail, callVars
<1>1. HttpTypeOK'
  BY DEF HttpInv, HttpTypeOK
<1>2. BodyBounded'
  BY DEF HttpInv, BodyBounded
<1>3. SizeInv'
  BY DEF HttpInv, SizeInv
<1> QED
  BY <1>1, <1>2, <1>3 DEF HttpInv

\* Nor does a line that cannot be used.
LEMMA BadLineKeeps ==
    ASSUME HttpInv, NEW max, BadLine(max)
    PROVE  HttpInv'
BY FailKeeps DEF BadLine

\* A body within the limit is returned.
LEMMA ReturnKeeps ==
    ASSUME HttpInv, NEW b \in Seq(STRING), Len(b) <= maxBodyBytes,
           NEW p \in 0..limit, Return(b, p)
    PROVE  HttpInv'
<1>1. maxHeaderBytes \in Nat /\ maxBodyBytes \in Nat
  BY LimitsAssumption
<1>2. returned \in Seq(Seq(STRING)) /\ returned' = Append(returned, b)
  BY DEF HttpInv, HttpTypeOK, Return
<1>3. NoHeader \in [len : 0..maxHeaderBytes, chunked : BOOLEAN, cl : Seq(STRING)]
  BY <1>1 DEF NoHeader
<1>4. HttpTypeOK'
  BY <1>2, <1>3 DEF HttpInv, HttpTypeOK, Return
<1>5. BodyBounded'
  <2>1. \A x \in Range(returned') : x = b \/ x \in Range(returned)
    <3>1. /\ DOMAIN returned = 1..Len(returned) /\ Len(returned) \in Nat
          /\ DOMAIN (returned') = 1..Len(returned) + 1
          /\ returned'[Len(returned) + 1] = b
          /\ \A i \in 1..Len(returned) : returned'[i] = returned[i]
      BY <1>2
    <3>2. ASSUME NEW i \in DOMAIN (returned')
          PROVE  returned'[i] = b \/ \E j \in DOMAIN returned : returned'[i] = returned[j]
      <4>1. i = Len(returned) + 1 \/ i \in 1..Len(returned)
        BY <3>1
      <4> QED
        BY <3>1, <4>1
    <3> QED
      BY <3>2, Zenon DEF Range
  <2>2. body' = <<>> /\ Len(body') <= maxBodyBytes
    BY <1>1 DEF Return
  <2>3. \A x \in Range(returned) : Len(x) <= maxBodyBytes
    BY DEF HttpInv, BodyBounded
  <2> QED
    BY <2>1, <2>2, <2>3 DEF BodyBounded
<1>6. SizeInv'
  BY DEF SizeInv, Return
<1> QED
  BY <1>4, <1>5, <1>6 DEF HttpInv

\* The request line fits the room for the header.
LEMMA RequestLineKeeps ==
    ASSUME HttpInv, ReadRequestLine
    PROVE  HttpInv'
<1>1. HttpTypeOK /\ BodyBounded /\ hdr \in [len : 0..maxHeaderBytes, chunked : BOOLEAN, cl : Seq(STRING)]
  BY DEF HttpInv, HttpTypeOK
<1>2. CASE BadLine(maxHeaderBytes)
  BY <1>2, BadLineKeeps
<1>3. CASE Fail("failed")
  BY <1>3, FailKeeps
<1>4. CASE /\ LineOK(maxHeaderBytes)
           /\ hdr' = [hdr EXCEPT !.len = Len(Line)]
           /\ pos' = pos + Len(Line)
           /\ phase' = "headers"
           /\ UNCHANGED <<stream, limit, body, n, returned, status>>
  <2>1. Line # <<>> /\ Len(Line) <= maxHeaderBytes
    BY <1>4 DEF LineOK
  <2>2. Len(Line) \in Nat /\ pos + Len(Line) \in 0..limit
    BY <1>1, <2>1, LineType
  <2>3. hdr' \in [len : 0..maxHeaderBytes, chunked : BOOLEAN, cl : Seq(STRING)]
    BY <1>1, <1>4, <2>1, <2>2, LimitsAssumption
  <2>4. HttpTypeOK'
    BY <1>1, <1>4, <2>2, <2>3 DEF HttpTypeOK
  <2>5. BodyBounded' /\ SizeInv'
    BY <1>1, <1>4 DEF BodyBounded, SizeInv
  <2> QED
    BY <2>4, <2>5 DEF HttpInv
<1> QED
  BY <1>2, <1>3, <1>4 DEF ReadRequestLine

\* A header line fits the room that the lines before it left.
LEMMA HeaderKeeps ==
    ASSUME HttpInv, ReadHeader
    PROVE  HttpInv'
<1> DEFINE H == [len : 0..maxHeaderBytes, chunked : BOOLEAN, cl : Seq(STRING)]
<1>1. HttpTypeOK /\ BodyBounded /\ hdr \in H /\ maxHeaderBytes \in Nat
  BY LimitsAssumption DEF HttpInv, HttpTypeOK
<1>2. CASE BadLine(HeaderRoom)
  BY <1>2, BadLineKeeps
<1>3. CASE /\ LineOK(HeaderRoom)
           /\ hdr' = Field(Line)
           /\ pos' = pos + Len(Line)
           /\ UNCHANGED <<stream, limit, phase, body, n, returned, status>>
           /\ phase = "headers"
  <2>1. Line # <<>> /\ Len(Line) <= maxHeaderBytes - hdr.len /\ Len(Line) >= 2
    BY <1>3 DEF LineOK, HeaderRoom
  <2>2. Line \in Seq(STRING) /\ Len(Line) \in Nat /\ pos + Len(Line) \in 0..limit
    BY <1>1, <2>1, LineType
  <2>3. Len(Line) + hdr.len \in 0..maxHeaderBytes /\ hdr.len + Len(Line) \in 0..maxHeaderBytes
    BY <1>1, <2>1, <2>2
  <2>4. ASSUME Head(Line) = "c" PROVE Tail(Content(Line)) \in Seq(STRING)
    <3>1. Content(Line) \in Seq(STRING) /\ Len(Content(Line)) = Len(Line) - 2
      BY <2>1, <2>2, ContentType
    <3>2. Len(Line) # 2
      <4>1. Len(Line) = 2 => Head(Line) = "R"
        BY <1>3, <2>2 DEF LineOK
      <4> QED
        BY <2>4, <4>1
    <3>3. Content(Line) # <<>>
      BY <2>1, <2>2, <3>1, <3>2
    <3> QED
      BY <3>1, <3>3, HeadTailProperties
  <2>5. Field(Line) \in H
    BY <1>1, <2>3, <2>4 DEF Field
  <2>6. HttpTypeOK'
    BY <1>1, <1>3, <2>2, <2>5 DEF HttpTypeOK
  <2>7. BodyBounded' /\ SizeInv'
    BY <1>1, <1>3 DEF BodyBounded, SizeInv
  <2> QED
    BY <2>6, <2>7 DEF HttpInv
<1> QED
  BY <1>2, <1>3 DEF ReadHeader, At

\* The Content-Length that is accepted is a number within the limit.
LEMMA EndHeaderKeeps ==
    ASSUME HttpInv, EndHeader
    PROVE  HttpInv'
<1> DEFINE len == ParseInt(hdr.cl, 10)
<1>1. /\ HttpTypeOK /\ BodyBounded /\ hdr.cl \in Seq(STRING) /\ hdr.chunked \in BOOLEAN
      /\ maxBodyBytes \in Nat
  BY LimitsAssumption DEF HttpInv, HttpTypeOK
<1>2. len \in Nat \cup {-1}
  BY <1>1, ParseIntType
<1> HIDE DEF len
<1>3. /\ LineOK(HeaderRoom)
      /\ \/ Fail("failed")
         \/ /\ BodyKind(len) # "failed"
            /\ phase' = BodyKind(len)
            /\ n' = IF phase' = "sized" THEN len ELSE 0
            /\ pos' = pos + Len(Line)
            /\ UNCHANGED <<stream, limit, hdr, body, returned, status>>
  BY DEF EndHeader, len
<1>4. CASE Fail("failed")
  BY <1>4, FailKeeps
<1>5. CASE /\ BodyKind(len) # "failed"
           /\ phase' = BodyKind(len)
           /\ n' = IF phase' = "sized" THEN len ELSE 0
           /\ pos' = pos + Len(Line)
           /\ UNCHANGED <<stream, limit, hdr, body, returned, status>>
  <2>1. Line # <<>>
    BY <1>3 DEF LineOK
  <2>2. Len(Line) \in Nat /\ pos + Len(Line) \in 0..limit
    BY <1>1, <2>1, LineType
  <2>3. \/ BodyKind(len) = "size"
        \/ BodyKind(len) = "sized" /\ ~(len < 0 \/ len > maxBodyBytes)
    BY <1>5 DEF BodyKind
  <2>4. n' \in Nat /\ (phase' = "sized" => n' <= maxBodyBytes) /\ phase' \in {"sized", "size"}
    BY <1>1, <1>2, <1>5, <2>3
  <2>5. HttpTypeOK'
    BY <1>1, <1>5, <2>2, <2>4 DEF HttpTypeOK
  <2>6. BodyBounded' /\ SizeInv'
    BY <1>1, <1>5, <2>4 DEF BodyBounded, SizeInv
  <2> QED
    BY <2>5, <2>6 DEF HttpInv
<1> QED
  BY <1>3, <1>4, <1>5

\* A body by Content-Length is as long as was accepted.
LEMMA SizedBodyKeeps ==
    ASSUME HttpInv, ReadSizedBody
    PROVE  HttpInv'
<1>1. /\ HttpTypeOK /\ n \in Nat /\ n <= maxBodyBytes /\ pos \in 0..limit
      /\ limit \in Nat /\ maxBodyBytes \in Nat
  BY LimitsAssumption DEF HttpInv, HttpTypeOK, SizeInv, ReadSizedBody, At
<1>2. CASE Available(pos, n) /\ Return(Text(pos + 1, pos + n), pos + n)
  <2>1. pos + n \in 0..limit
    BY <1>1, <1>2 DEF Available
  <2>2. /\ pos \in Nat /\ pos + n \in Nat /\ pos <= pos /\ pos <= pos + n
        /\ pos + n <= limit /\ (pos + n) - pos = n
    BY <1>1, <2>1
  <2>3. /\ Text(pos + 1, pos + n) \in Seq(STRING)
        /\ Len(Text(pos + 1, pos + n)) = (pos + n) - pos
    BY <1>1, <2>2, TextType
  <2>4. Len(Text(pos + 1, pos + n)) <= maxBodyBytes
    BY <1>1, <2>2, <2>3
  <2> QED
    BY <1>2, <2>1, <2>3, <2>4, ReturnKeeps
<1>3. CASE Fail(Missing(pos))
  BY <1>3, FailKeeps DEF Missing
<1> QED
  BY <1>2, <1>3 DEF ReadSizedBody

\* The size of a chunk that is accepted fits beside the body so far.
LEMMA ChunkSizeKeeps ==
    ASSUME HttpInv, ReadChunkSize
    PROVE  HttpInv'
<1> DEFINE size == ChunkSize(Line)
<1>1. HttpTypeOK /\ BodyBounded /\ Len(body) \in Nat /\ maxBodyBytes \in Nat
  BY LimitsAssumption DEF HttpInv, HttpTypeOK
<1>2. CASE BadLine(maxSizeLine)
  BY <1>2, BadLineKeeps
<1>3. CASE Fail("failed")
  BY <1>3, FailKeeps
<1>4. CASE /\ LineOK(maxSizeLine)
           /\ size >= 0 /\ (size > 0 => ~TooLarge(size))
           /\ n' = size
           /\ phase' = IF n' = 0 THEN "trailer" ELSE "chunk"
           /\ pos' = pos + Len(Line)
           /\ UNCHANGED <<stream, limit, hdr, body, returned, status>>
  <2>1. Line # <<>> /\ Len(Line) >= 2
    BY <1>4 DEF LineOK
  <2>2. Line \in Seq(STRING) /\ Len(Line) \in Nat /\ pos + Len(Line) \in 0..limit
    BY <1>1, <2>1, LineType
  <2>3. size \in Nat \cup {-1}
    BY <2>1, <2>2, ChunkSizeType
  <2> HIDE DEF size
  <2>4. /\ n' \in Nat /\ phase' \in {"trailer", "chunk"}
        /\ phase' = "chunk" => Len(body) + n' <= maxBodyBytes
    BY <1>1, <1>4, <2>3 DEF TooLarge
  <2>5. HttpTypeOK'
    BY <1>1, <1>4, <2>2, <2>4 DEF HttpTypeOK
  <2>6. BodyBounded' /\ SizeInv'
    BY <1>1, <1>4, <2>4 DEF BodyBounded, SizeInv
  <2> QED
    BY <2>5, <2>6 DEF HttpInv
<1> QED
  BY <1>2, <1>3, <1>4 DEF ReadChunkSize

\* The body grows by the size that was accepted.
LEMMA ChunkKeeps ==
    ASSUME HttpInv, ReadChunk
    PROVE  HttpInv'
<1>1. /\ HttpTypeOK /\ BodyBounded /\ n \in Nat /\ pos \in 0..limit /\ limit \in Nat
      /\ Len(body) + n <= maxBodyBytes /\ body \in Seq(STRING) /\ maxBodyBytes \in Nat
  BY LimitsAssumption DEF HttpInv, HttpTypeOK, SizeInv, ReadChunk, At
<1>2. CASE Fail(Missing(pos)) \/ Fail(Missing(pos + n)) \/ Fail("failed")
  BY <1>2, FailKeeps DEF Missing
<1>3. CASE /\ Available(pos, n + 2)
           /\ body' = body \o Text(pos + 1, pos + n)
           /\ pos' = pos + n + 2
           /\ phase' = "size"
           /\ n' = 0
           /\ UNCHANGED <<stream, limit, hdr, returned, status>>
  <2>1. pos + n + 2 \in 0..limit
    BY <1>1, <1>3 DEF Available
  <2>2. /\ pos \in Nat /\ pos + n \in Nat /\ pos <= pos /\ pos <= pos + n
        /\ pos + n <= limit /\ (pos + n) - pos = n
    BY <1>1, <2>1
  <2> DEFINE t == Text(pos + 1, pos + n)
  <2>3. t \in Seq(STRING) /\ Len(t) = (pos + n) - pos
    BY <1>1, <2>2, TextType
  <2> HIDE DEF t
  <2>4. body \o t \in Seq(STRING) /\ Len(body \o t) = Len(body) + n
    BY <1>1, <2>2, <2>3, ConcatProperties
  <2>5. body' \in Seq(STRING) /\ Len(body') <= maxBodyBytes
    BY <1>1, <1>3, <2>4 DEF t
  <2>6. HttpTypeOK'
    BY <1>1, <1>3, <2>1, <2>5 DEF HttpTypeOK
  <2>7. BodyBounded'
    BY <1>1, <1>3, <2>5 DEF BodyBounded
  <2>8. SizeInv'
    BY <1>3 DEF SizeInv
  <2> QED
    BY <2>6, <2>7, <2>8 DEF HttpInv
<1> QED
  BY <1>2, <1>3 DEF ReadChunk

\* The trailer leaves the body alone, which is returned as it is.
LEMMA TrailerKeeps ==
    ASSUME HttpInv, ReadTrailer
    PROVE  HttpInv'
<1>1. HttpTypeOK /\ BodyBounded /\ body \in Seq(STRING) /\ Len(body) <= maxBodyBytes
  BY DEF HttpInv, HttpTypeOK, BodyBounded
<1>2. CASE BadLine(maxTrailer)
  BY <1>2, BadLineKeeps
<1>3. ASSUME LineOK(maxTrailer)
      PROVE  pos + Len(Line) \in 0..limit
  BY <1>1, <1>3, LineType DEF LineOK
<1>4. CASE LineOK(maxTrailer) /\ Return(body, pos + Len(Line))
  BY <1>1, <1>3, <1>4, ReturnKeeps
<1>5. CASE /\ LineOK(maxTrailer)
           /\ pos' = pos + Len(Line)
           /\ UNCHANGED <<stream, limit, callVars, returned, status>>
  <2>1. pos' \in 0..limit
    BY <1>3, <1>5
  <2>2. HttpTypeOK'
    BY <1>1, <1>5, <2>1 DEF HttpTypeOK, callVars
  <2>3. BodyBounded' /\ SizeInv'
    BY <1>5 DEF HttpInv, BodyBounded, SizeInv, callVars
  <2> QED
    BY <2>2, <2>3 DEF HttpInv
<1> QED
  BY <1>2, <1>4, <1>5 DEF ReadTrailer

\* Every step of the adapter keeps the invariant.
LEMMA HttpInvStep == HttpInv /\ [HttpNext]_httpVars => HttpInv'
<1> SUFFICES ASSUME HttpInv, [HttpNext]_httpVars
             PROVE  HttpInv'
  OBVIOUS
<1>1. CASE UNCHANGED httpVars
  <2>1. HttpTypeOK'
    BY <1>1 DEF HttpInv, HttpTypeOK, httpVars, callVars
  <2>2. BodyBounded' /\ SizeInv'
    BY <1>1 DEF HttpInv, BodyBounded, SizeInv, httpVars, callVars
  <2> QED
    BY <2>1, <2>2 DEF HttpInv
<1> QED
  BY <1>1, RequestLineKeeps, HeaderKeeps, EndHeaderKeeps, SizedBodyKeeps,
     ChunkSizeKeeps, ChunkKeeps, TrailerKeeps DEF HttpNext

(***************************************************************************)
(* The reader never stands behind what has arrived, never holds more than  *)
(* maxHeaderBytes of a header, and never waits for a number of bytes that  *)
(* is not one (ReadHTTPRequestBody, readLineCRLF).                         *)
(***************************************************************************)
THEOREM HttpTypeCorrect == HttpSpec => []HttpTypeOK
<1>1. HttpInv => HttpTypeOK
  BY DEF HttpInv
<1> QED
  BY <1>1, HttpInvInit, HttpInvStep, PTL DEF HttpSpec

(***************************************************************************)
(* No body exceeds maxBodyBytes, whether it comes by Content-Length or in  *)
(* however many chunks, while it is gathered and when it is returned.  The *)
(* sum that readChunkedBody compares is exact here: sizes stay below 2^63. *)
(***************************************************************************)
THEOREM BodiesBounded == HttpSpec => []BodyBounded
<1>1. HttpInv => BodyBounded
  BY DEF HttpInv
<1> QED
  BY <1>1, HttpInvInit, HttpInvStep, PTL DEF HttpSpec

-----------------------------------------------------------------------------
\* The request that is read next, or the rest.
Upcoming == LET k == Len(returned) + 1
            IN  IF k \in DOMAIN stream.requests THEN stream.requests[k] ELSE stream.rest

Here == Start(stream, Len(returned) + 1)

\* The phase in which the reader is behind the pieces m.
PhaseBehind(t, a, m) ==
    CASE m = <<>> -> "request"
      [] LastKind(m) \in {"request", "field"} -> "headers"
      [] LastKind(m) = "blank" -> IF Chunked(t, a, m) THEN "size" ELSE "sized"
      [] LastKind(m) = "chunk" -> "size"
      [] LastKind(m) = "size" -> "chunk"
      [] LastKind(m) \in {"last", "trailer"} -> "trailer"
      [] OTHER -> "none"

HeaderOf(t, a, m) ==
    [len |-> EndOf(a, m) - a, chunked |-> Chunked(t, a, m), cl |-> Length(t, a, m)]

\* The reader has taken the pieces m and holds what they say.
Holds(t, a, m) ==
    /\ pos = EndOf(a, m)
    /\ body = BodyOf(t, a, m)
    /\ phase = PhaseBehind(t, a, m)
    /\ phase \in {"request", "headers"} => hdr = HeaderOf(t, a, m)
    /\ phase \in {"request", "headers", "sized"} => body = <<>>
    /\ phase = "sized" => n = ParseInt(Length(t, a, m), 10)
    /\ phase = "chunk" => n = ChunkSize(Part(t, From(a, m, Len(m)), EndOf(a, m)))

\* It stops only where nothing that has arrived follows.
StopsAt(t, a, m) ==
    status # "run" => \A q \in Piece : q.end <= limit => ~Follows(t, a, m, q)

Aligned(t, a, r) ==
    \E i \in 0..Len(r) :
        /\ Holds(t, a, SubSeq(r, 1, i)) /\ ~Whole(SubSeq(r, 1, i))
        /\ StopsAt(t, a, SubSeq(r, 1, i))

AlignInv ==
    /\ stream \in Streams
    /\ Len(returned) <= Len(stream.requests)
    /\ \A k \in DOMAIN returned :
          /\ returned[k] = BodyOf(stream.text, Start(stream, k), stream.requests[k])
          /\ EndOf(0, stream.requests[k]) <= pos
    /\ Aligned(stream.text, Here, Upcoming)

-----------------------------------------------------------------------------
(***************************************************************************)
(* What one more piece changes.                                            *)
(***************************************************************************)
LEMMA PieceAdded ==
    ASSUME NEW a \in Nat, NEW m \in Seq(Piece), NEW q \in Piece
    PROVE  /\ Append(m, q) \in Seq(Piece) /\ Append(m, q) # <<>>
           /\ Len(m) \in Nat /\ Len(Append(m, q)) = Len(m) + 1
           /\ DOMAIN m = 1..Len(m) /\ DOMAIN Append(m, q) = 1..Len(m) + 1
           /\ \A i \in 1..Len(m) : Append(m, q)[i] = m[i]
           /\ Append(m, q)[Len(m) + 1] = q
           /\ EndOf(a, m) \in Nat
           /\ EndOf(a, Append(m, q)) = q.end
           /\ LastKind(Append(m, q)) = q.kind
           /\ \A i \in 1..Len(m) : From(a, Append(m, q), i) = From(a, m, i)
           /\ From(a, Append(m, q), Len(m) + 1) = EndOf(a, m)
<1> DEFINE w == Append(m, q)
<1>1. /\ w \in Seq(Piece) /\ w # <<>>
      /\ Len(m) \in Nat /\ Len(w) = Len(m) + 1
      /\ DOMAIN m = 1..Len(m) /\ DOMAIN w = 1..Len(m) + 1
      /\ \A i \in 1..Len(m) : w[i] = m[i]
      /\ w[Len(m) + 1] = q
  BY AppendProperties
<1>2. EndOf(a, m) \in Nat
  <2>1. CASE m = <<>>
    BY <2>1 DEF EndOf
  <2>2. CASE m # <<>>
    <3>1. Len(m) \in 1..Len(m)
      BY <2>2, EmptySeq
    <3>2. m[Len(m)] \in Piece
      BY <3>1, ElementOfSeq
    <3> QED
      BY <2>2, <3>2 DEF EndOf, Piece
  <2> QED
    BY <2>1, <2>2
<1> HIDE DEF w
<1>3. EndOf(a, w) = q.end /\ LastKind(w) = q.kind
  BY <1>1 DEF EndOf, LastKind
<1>4. ASSUME NEW i \in 1..Len(m) PROVE From(a, w, i) = From(a, m, i)
  <2>1. i # 1 => i - 1 \in 1..Len(m)
    BY <1>1
  <2> QED
    BY <1>1, <2>1 DEF From
<1>5. From(a, w, Len(m) + 1) = EndOf(a, m)
  <2>1. CASE m = <<>>
    BY <1>1, <2>1 DEF From, EndOf
  <2>2. CASE m # <<>>
    <3>1. Len(m) \in 1..Len(m) /\ Len(m) + 1 # 1 /\ (Len(m) + 1) - 1 = Len(m)
      BY <1>1, <2>2, EmptySeq
    <3> QED
      BY <1>1, <2>2, <3>1 DEF From, EndOf
  <2> QED
    BY <2>1, <2>2
<1> QED
  BY <1>1, <1>2, <1>3, <1>4, <1>5 DEF w

\* In short.
LEMMA AddedEnd ==
    ASSUME NEW a \in Nat, NEW m \in Seq(Piece), NEW q \in Piece
    PROVE  /\ Append(m, q) \in Seq(Piece) /\ Append(m, q) # <<>>
           /\ EndOf(a, Append(m, q)) = q.end
           /\ LastKind(Append(m, q)) = q.kind
BY PieceAdded

\* The fields of a name: one more when the piece is such a field.
LEMMA FieldsAdded ==
    ASSUME NEW t, NEW a \in Nat, NEW m \in Seq(Piece), NEW q \in Piece, NEW names
    PROVE  LET more == q.kind = "field" /\ t[EndOf(a, m) + 1] \in names
           IN  /\ Fields(t, a, m, names) \subseteq 1..Len(m)
               /\ Fields(t, a, Append(m, q), names) =
                      Fields(t, a, m, names) \cup (IF more THEN {Len(m) + 1} ELSE {})
<1> DEFINE w == Append(m, q)
           more == q.kind = "field" /\ t[EndOf(a, m) + 1] \in names
           F == Fields(t, a, m, names)
           G == Fields(t, a, w, names)
<1>1. /\ Len(m) \in Nat /\ DOMAIN m = 1..Len(m) /\ DOMAIN w = 1..Len(m) + 1
      /\ \A i \in 1..Len(m) : w[i] = m[i] /\ From(a, w, i) = From(a, m, i)
      /\ w[Len(m) + 1] = q /\ From(a, w, Len(m) + 1) = EndOf(a, m)
  BY PieceAdded
<1> HIDE DEF w
<1>2. F \subseteq 1..Len(m)
  BY <1>1 DEF Fields
<1>3. ASSUME NEW i \in 1..Len(m) PROVE i \in G <=> i \in F
  <2>1. i \in 1..Len(m) + 1
    BY <1>1
  <2> QED
    BY <1>1, <2>1 DEF Fields
<1>4. Len(m) + 1 \in G <=> more
  <2>1. Len(m) + 1 \in 1..Len(m) + 1
    BY <1>1
  <2> QED
    BY <1>1, <2>1 DEF Fields
<1>5. G \subseteq 1..Len(m) + 1
  BY <1>1 DEF Fields
<1>6. 1..Len(m) + 1 = 1..Len(m) \cup {Len(m) + 1} /\ Len(m) + 1 \notin 1..Len(m)
  BY <1>1
<1> HIDE DEF F, G, more
<1>7. G = F \cup (IF more THEN {Len(m) + 1} ELSE {})
  BY <1>2, <1>3, <1>4, <1>5, <1>6
<1> QED
  BY <1>2, <1>7 DEF F, G, more, w

\* The last of the fields is the new one, or the one that was it before.
LEMMA LastAdded ==
    ASSUME NEW a \in Nat, NEW m \in Seq(Piece), NEW q \in Piece, NEW F, F \subseteq 1..Len(m)
    PROVE  /\ Max(F \cup {Len(m) + 1}) = Len(m) + 1
           /\ F # {} => /\ Max(F) \in 1..Len(m)
                        /\ From(a, Append(m, q), Max(F)) = From(a, m, Max(F))
                        /\ Append(m, q)[Max(F)] = m[Max(F)]
<1>1. Len(m) \in Nat
  BY PieceAdded
<1>2. Max(F \cup {Len(m) + 1}) = Len(m) + 1
  <2> DEFINE S == F \cup {Len(m) + 1}
  <2>1. Len(m) + 1 \in S /\ \A y \in S : y \in Int /\ y <= Len(m) + 1
    BY <1>1
  <2> HIDE DEF S
  <2>2. Max(S) = Len(m) + 1
    BY <2>1, MaxIs
  <2> QED
    BY <2>2 DEF S
<1>3. F # {} => Max(F) \in F
  <2>1. F \subseteq 0..Len(m)
    BY <1>1
  <2> QED
    BY <1>1, <2>1, MaxOf
<1>4. F # {} => Max(F) \in 1..Len(m)
  BY <1>3
<1> QED
  BY <1>2, <1>4, PieceAdded

\* A new field of that name says whether there are chunks, and of another name
\* nothing.
LEMMA ChunkedAdded ==
    ASSUME NEW t, NEW a \in Nat, NEW m \in Seq(Piece), NEW q \in Piece
    PROVE  Chunked(t, a, Append(m, q)) =
               IF q.kind = "field" /\ t[EndOf(a, m) + 1] \in {"t", "i"}
               THEN t[EndOf(a, m) + 1] = "t" ELSE Chunked(t, a, m)
<1>0. PICK w, names : w = Append(m, q) /\ names = {"t", "i"}
  OBVIOUS
<1> PICK F, G : F = Fields(t, a, m, names) /\ G = Fields(t, a, w, names)
  OBVIOUS
<1> DEFINE more == q.kind = "field" /\ t[EndOf(a, m) + 1] \in names
<1>1. F \subseteq 1..Len(m) /\ G = F \cup (IF more THEN {Len(m) + 1} ELSE {})
  BY <1>0, FieldsAdded
<1>2. From(a, w, Len(m) + 1) = EndOf(a, m)
  BY <1>0, PieceAdded
<1>3. /\ Chunked(t, a, w) = (G # {} /\ t[From(a, w, Max(G)) + 1] = "t")
      /\ Chunked(t, a, m) = (F # {} /\ t[From(a, m, Max(F)) + 1] = "t")
  BY <1>0 DEF Chunked
<1>4. /\ Max(F \cup {Len(m) + 1}) = Len(m) + 1
      /\ F # {} => From(a, w, Max(F)) = From(a, m, Max(F))
  <2>1. F \subseteq 1..Len(m)
    BY <1>1
  <2> HIDE DEF more
  <2> QED
    BY <1>0, <2>1, LastAdded
<1>5. CASE more
  <2>1. G # {} /\ Max(G) = Len(m) + 1
    BY <1>1, <1>4, <1>5
  <2>2. Chunked(t, a, w) = (t[EndOf(a, m) + 1] = "t")
    BY <1>2, <1>3, <2>1
  <2> QED
    BY <1>5, <1>0, <2>2
<1>6. CASE ~more
  <2>1. G = F
    BY <1>1, <1>6
  <2>2. Chunked(t, a, w) = Chunked(t, a, m)
    BY <1>3, <1>4, <2>1
  <2> QED
    BY <1>6, <1>0, <2>2
<1> QED
  BY <1>5, <1>6

\* The same for the length.
LEMMA LengthAdded ==
    ASSUME NEW t, NEW a \in Nat, NEW m \in Seq(Piece), NEW q \in Piece
    PROVE  Length(t, a, Append(m, q)) =
               IF q.kind = "field" /\ t[EndOf(a, m) + 1] = "c"
               THEN Tail(Content(Part(t, EndOf(a, m), q.end))) ELSE Length(t, a, m)
<1>0. PICK w, names : w = Append(m, q) /\ names = {"c"}
  OBVIOUS
<1> PICK F, G : F = Fields(t, a, m, names) /\ G = Fields(t, a, w, names)
  OBVIOUS
<1> DEFINE more == q.kind = "field" /\ t[EndOf(a, m) + 1] \in names
           L(s, i) == Tail(Content(Part(t, From(a, s, i), s[i].end)))
<1>1. F \subseteq 1..Len(m) /\ G = F \cup (IF more THEN {Len(m) + 1} ELSE {})
  BY <1>0, FieldsAdded
<1>2. From(a, w, Len(m) + 1) = EndOf(a, m) /\ w[Len(m) + 1] = q
  BY <1>0, PieceAdded
<1>3. /\ Length(t, a, w) = IF G = {} THEN <<>> ELSE L(w, Max(G))
      /\ Length(t, a, m) = IF F = {} THEN <<>> ELSE L(m, Max(F))
  BY <1>0 DEF Length
<1>4. /\ Max(F \cup {Len(m) + 1}) = Len(m) + 1
      /\ F # {} => From(a, w, Max(F)) = From(a, m, Max(F)) /\ w[Max(F)] = m[Max(F)]
  <2>1. F \subseteq 1..Len(m)
    BY <1>1
  <2> HIDE DEF L, more
  <2>2. /\ Max(F \cup {Len(m) + 1}) = Len(m) + 1
        /\ F # {} => From(a, w, Max(F)) = From(a, m, Max(F))
    BY <1>0, <2>1, LastAdded
  <2>3. F # {} => w[Max(F)] = m[Max(F)]
    BY <1>0, <2>1, LastAdded
  <2> QED
    BY <2>2, <2>3
<1>5. CASE more
  <2>1. G # {} /\ Max(G) = Len(m) + 1
    BY <1>1, <1>4, <1>5
  <2>2. Length(t, a, w) = L(w, Len(m) + 1)
    BY <1>3, <2>1
  <2> QED
    BY <1>2, <1>5, <1>0, <2>2
<1>6. CASE ~more
  <2>1. G = F
    BY <1>1, <1>6
  <2>2. F # {} => L(w, Max(F)) = L(m, Max(F))
    BY <1>4
  <2> HIDE DEF L
  <2>3. Length(t, a, w) = Length(t, a, m)
    BY <1>3, <2>1, <2>2
  <2> QED
    BY <1>6, <1>0, <2>3
<1> QED
  BY <1>5, <1>6

-----------------------------------------------------------------------------
\* The body glues together what the pieces hold.
LEMMA BodyIsGlued ==
    ASSUME NEW t, NEW a \in Nat, NEW m \in Seq(Piece)
    PROVE  \E g : /\ Glued(0, Len(m), [i \in 1..Len(m) |-> Data(t, a, m, i)], g)
                  /\ BodyOf(t, a, m) = g[Len(m)]
<1> DEFINE k == Len(m)
           c == [i \in 1..k |-> Data(t, a, m, i)]
           upTo == CHOOSE f : f = [i \in 0..k |->
                       IF i = 0 THEN <<>> ELSE f[i - 1] \o Data(t, a, m, i)]
<1>1. k \in Nat
  BY LenProperties
<1>2. BodyOf(t, a, m) = upTo[k]
  BY DEF BodyOf
<1> HIDE DEF k
<1>3. ASSUME NEW f
      PROVE  [i \in 0..k |-> IF i = 0 THEN <<>> ELSE f[i - 1] \o Data(t, a, m, i)]
             = [i \in 0..k |-> IF i = 0 THEN <<>> ELSE f[i - 1] \o c[i]]
  <2>1. \A i \in 0..k : i # 0 => i \in 1..k
    BY <1>1
  <2>2. \A i \in 0..k : i # 0 => c[i] = Data(t, a, m, i)
    BY <2>1
  <2> HIDE DEF c
  <2> QED
    BY <2>2
<1>4. \E g : Glued(0, k, c, g)
  <2>1. \A j \in Nat : \E g : Glued(0, 0 + j, c, g)
    BY GluedExists
  <2>2. 0 + k = k
    BY <1>1
  <2> HIDE DEF c
  <2>3. \E g : Glued(0, 0 + k, c, g)
    BY <1>1, <2>1
  <2> QED
    BY <2>2, <2>3
<1>5. PICK g : Glued(0, k, c, g)
  BY <1>4
<1>6. g = [i \in 0..k |-> IF i = 0 THEN <<>> ELSE g[i - 1] \o Data(t, a, m, i)]
  BY <1>3, <1>5 DEF Glued
<1> HIDE DEF c
<1>7. upTo = [i \in 0..k |-> IF i = 0 THEN <<>> ELSE upTo[i - 1] \o Data(t, a, m, i)]
  BY <1>6, Zenon
<1> HIDE DEF upTo
<1>8. Glued(0, k, c, upTo)
  BY <1>3, <1>7 DEF Glued
<1> QED
  BY <1>2, <1>8 DEF k, c

\* What a piece adds to the body.
Adds(t, p, q) ==
    CASE q.kind = "sized" -> Part(t, p, q.end)
      [] q.kind = "chunk" -> Part(t, p, q.end - 2)
      [] OTHER -> <<>>

\* So the body grows by what the piece adds.
LEMMA BodyAdded ==
    ASSUME NEW t, NEW a \in Nat, NEW m \in Seq(Piece), NEW q \in Piece
    PROVE  BodyOf(t, a, Append(m, q)) = BodyOf(t, a, m) \o Adds(t, EndOf(a, m), q)
<1> DEFINE w == Append(m, q)
           k == Len(m)
           e == k + 1
           c == [i \in 1..k |-> Data(t, a, m, i)]
           d == [i \in 1..e |-> Data(t, a, w, i)]
<1>1. /\ w \in Seq(Piece) /\ k \in Nat /\ Len(w) = e
      /\ \A i \in 1..k : w[i] = m[i] /\ From(a, w, i) = From(a, m, i)
      /\ w[e] = q /\ From(a, w, e) = EndOf(a, m)
  BY PieceAdded
<1>2. PICK f : Glued(0, k, c, f) /\ BodyOf(t, a, m) = f[k]
  BY BodyIsGlued
<1>3. PICK g : Glued(0, e, d, g) /\ BodyOf(t, a, w) = g[e]
  <2>1. \E g : /\ Glued(0, Len(w), [i \in 1..Len(w) |-> Data(t, a, w, i)], g)
               /\ BodyOf(t, a, w) = g[Len(w)]
    BY <1>1, BodyIsGlued
  <2> QED
    BY <1>1, <2>1
<1> HIDE DEF w
<1>4. \A i \in 1..k : Data(t, a, w, i) = Data(t, a, m, i)
  BY <1>1 DEF Data
<1>5. \A i \in 0 + 1..k : d[i] = c[i]
  <2>1. \A i \in 0 + 1..k : i \in 1..k /\ i \in 1..e
    BY <1>1
  <2> QED
    BY <1>4, <2>1
<1>6. d[e] = Adds(t, EndOf(a, m), q)
  <2>1. e \in 1..e
    BY <1>1
  <2>2. d[e] = Data(t, a, w, e)
    BY <2>1
  <2>3. Data(t, a, w, e) = Adds(t, EndOf(a, m), q)
    BY <1>1 DEF Data, Adds
  <2> QED
    BY <2>2, <2>3
<1> HIDE DEF c, d
<1>7. g[k] = f[k]
  <2>1. Longer(0, k, e, c, d, f, g)
    BY <1>1, <1>2, <1>3, <1>5 DEF Longer
  <2> QED
    BY <2>1, GluedSame
<1>8. g[e] = g[k] \o d[e]
  <2>1. e \in 0..e /\ e # 0 /\ e - 1 = k
    BY <1>1
  <2> HIDE DEF e
  <2> QED
    BY <1>3, <2>1 DEF Glued
<1>9. BodyOf(t, a, w) = BodyOf(t, a, m) \o Adds(t, EndOf(a, m), q)
  BY <1>2, <1>3, <1>6, <1>7, <1>8
<1> QED
  BY <1>9 DEF w

\* Before the first piece.
LEMMA NoPieces ==
    ASSUME NEW t, NEW a \in Nat
    PROVE  /\ <<>> \in Seq(Piece) /\ EndOf(a, <<>>) = a /\ LastKind(<<>>) = "none"
           /\ Chunked(t, a, <<>>) = FALSE /\ Length(t, a, <<>>) = <<>>
           /\ BodyOf(t, a, <<>>) = <<>>
<1>1. <<>> \in Seq(Piece) /\ Len(<<>>) = 0 /\ DOMAIN <<>> = {}
  BY EmptySeq
<1>2. \A names : Fields(t, a, <<>>, names) = {}
  BY <1>1 DEF Fields
<1>3. BodyOf(t, a, <<>>) = <<>>
  <2>1. PICK g : /\ Glued(0, Len(<<>>), [i \in 1..Len(<<>>) |-> Data(t, a, <<>>, i)], g)
                 /\ BodyOf(t, a, <<>>) = g[Len(<<>>)]
    BY <1>1, BodyIsGlued
  <2>2. g[0] = <<>>
    BY <1>1, <2>1 DEF Glued
  <2> QED
    BY <1>1, <2>1, <2>2
<1> QED
  BY <1>1, <1>2, <1>3 DEF EndOf, LastKind, Chunked, Length

-----------------------------------------------------------------------------
(***************************************************************************)
(* Lines: what the reader takes for one, and where there is one.           *)
(***************************************************************************)
LEMMA OneLine ==
    ASSUME NEW t \in Seq(STRING), NEW p \in Nat, NEW e, NEW e2, IsLine(t, p, e), IsLine(t, p, e2)
    PROVE  e = e2
<1>1. /\ e \in Nat /\ e2 \in Nat /\ e >= p + 2 /\ e2 >= p + 2 /\ e <= Len(t) /\ e2 <= Len(t)
      /\ t[e] = "N" /\ t[e2] = "N"
      /\ \A i \in p + 1 .. e - 1 : t[i] # "N"
      /\ \A i \in p + 1 .. e2 - 1 : t[i] # "N"
  BY DEF IsLine
<1>2. ~(e < e2)
  <2>1. e < e2 => e \in p + 1 .. e2 - 1
    BY <1>1
  <2> QED
    BY <1>1, <2>1
<1>3. ~(e2 < e)
  <2>1. e2 < e => e2 \in p + 1 .. e - 1
    BY <1>1
  <2> QED
    BY <1>1, <2>1
<1> QED
  BY <1>1, <1>2, <1>3

\* A part of the text of the client.
LEMMA PartIs ==
    ASSUME NEW t \in Seq(STRING), NEW p \in Nat, NEW e \in Nat, p <= e, e <= Len(t)
    PROVE  /\ Part(t, p, e) \in Seq(STRING) /\ Len(Part(t, p, e)) = e - p
           /\ \A i \in 1..e - p : Part(t, p, e)[i] = t[p + i]
<1>1. \A i \in p + 1..e : t[i] \in STRING
  <2>1. \A i \in p + 1..e : i \in 1..Len(t)
    BY LenProperties
  <2> QED
    BY <2>1
<1>2. /\ SubSeq(t, p + 1, e) \in Seq(STRING)
      /\ Len(SubSeq(t, p + 1, e)) = IF p + 1 <= e THEN e - (p + 1) + 1 ELSE 0
      /\ \A i \in 1..e - (p + 1) + 1 : SubSeq(t, p + 1, e)[i] = t[p + 1 + i - 1]
  BY <1>1, SubSeqProperties
<1>3. (IF p + 1 <= e THEN e - (p + 1) + 1 ELSE 0) = e - p /\ e - (p + 1) + 1 = e - p
  OBVIOUS
<1>4. \A i \in 1..e - p : p + 1 + i - 1 = p + i
  OBVIOUS
<1>5. Len(Part(t, p, e)) = e - p
  BY <1>2, <1>3 DEF Part
<1>6. \A i \in 1..e - p : Part(t, p, e)[i] = t[p + i]
  BY <1>2, <1>3, <1>4 DEF Part
<1> QED
  BY <1>2, <1>5, <1>6 DEF Part

\* The line that comes next ends at the first line feed.
LEMMA LineAt ==
    ASSUME HttpTypeOK, NEW e \in LineEnds, \A i \in pos + 1..e - 1 : stream.text[i] # "N"
    PROVE  /\ e \in Nat /\ e > pos /\ e <= limit
           /\ Line = Part(stream.text, pos, e) /\ Line # <<>>
           /\ Line \in Seq(STRING) /\ Len(Line) = e - pos
           /\ \A i \in 1..e - pos : Line[i] = stream.text[pos + i]
<1>1. /\ stream.text \in Seq(STRING) /\ Len(stream.text) \in Nat
      /\ limit \in Nat /\ limit <= Len(stream.text) /\ pos \in Nat /\ pos <= limit
  BY DEF HttpTypeOK
<1>2. /\ e \in Nat /\ e > pos /\ e <= limit
      /\ \A i \in LineEnds : i \in Nat /\ i > pos /\ stream.text[i] = "N"
  BY <1>1 DEF LineEnds
<1>3. \A i \in LineEnds : e <= i
  <2>1. \A i \in LineEnds : i < e => i \in pos + 1..e - 1
    BY <1>1, <1>2
  <2> QED
    BY <1>2, <2>1
<1>4. Min(LineEnds) \in LineEnds /\ \A i \in LineEnds : Min(LineEnds) <= i
  <2>1. \E x \in LineEnds : \A y \in LineEnds : x <= y
    BY <1>3
  <2> QED
    BY <2>1, Zenon DEF Min
<1>5. Min(LineEnds) = e
  <2>1. Min(LineEnds) \in Nat /\ Min(LineEnds) <= e /\ e <= Min(LineEnds)
    BY <1>2, <1>3, <1>4
  <2> QED
    BY <1>2, <2>1
<1>6. Line = Part(stream.text, pos, e)
  BY <1>5 DEF Line, Text, Part
<1>7. /\ Part(stream.text, pos, e) \in Seq(STRING) /\ Len(Part(stream.text, pos, e)) = e - pos
      /\ \A i \in 1..e - pos : Part(stream.text, pos, e)[i] = stream.text[pos + i]
  <2>1. pos <= e /\ e <= Len(stream.text)
    BY <1>1, <1>2
  <2> QED
    BY <1>1, <1>2, <2>1, PartIs
<1>8. Line # <<>>
  <2>1. Len(Line) # 0
    BY <1>1, <1>2, <1>6, <1>7
  <2> QED
    BY <2>1
<1> QED
  BY <1>2, <1>6, <1>7, <1>8

\* A line that readLineCRLF accepts is one.
LEMMA GoodLine ==
    ASSUME HttpTypeOK, NEW max \in Int, LineOK(max)
    PROVE  LET e == pos + Len(Line)
           IN  /\ e \in Nat /\ e <= limit /\ e >= pos + 2 /\ e - pos = Len(Line) /\ e - pos <= max
               /\ IsLine(stream.text, pos, e)
               /\ Line \in Seq(STRING) /\ Line = Part(stream.text, pos, e)
               /\ Head(Line) = stream.text[pos + 1]
               /\ Blank(Line) <=> e = pos + 2
<1>1. /\ stream.text \in Seq(STRING) /\ Len(stream.text) \in Nat
      /\ limit \in Nat /\ limit <= Len(stream.text) /\ pos \in Nat /\ pos <= limit
  BY DEF HttpTypeOK
<1>2. LineEnds # {} /\ LineEnds \in SUBSET Nat
  <2>1. Line # <<>>
    BY DEF LineOK
  <2> QED
    BY <1>1, <2>1 DEF Line, LineEnds
<1>3. PICK e \in LineEnds : \A k \in LineEnds : e <= k
  BY <1>2, LeastNatural
<1>4. e \in Nat /\ e > pos /\ e <= limit /\ stream.text[e] = "N"
  BY <1>1, <1>3 DEF LineEnds
<1>5. \A i \in pos + 1..e - 1 : stream.text[i] # "N"
  <2>1. SUFFICES ASSUME NEW i \in pos + 1..e - 1, stream.text[i] = "N" PROVE FALSE
    OBVIOUS
  <2>2. i \in pos + 1 .. limit /\ ~(e <= i)
    BY <1>1, <1>4
  <2>3. i \in LineEnds
    BY <2>1, <2>2 DEF LineEnds
  <2> QED
    BY <1>3, <2>2, <2>3
<1>6. /\ Line = Part(stream.text, pos, e) /\ Line \in Seq(STRING) /\ Len(Line) = e - pos
      /\ \A i \in 1..e - pos : Line[i] = stream.text[pos + i]
  BY <1>3, <1>5, LineAt
<1>7. e = pos + Len(Line)
  BY <1>1, <1>4, <1>6
<1>8. Len(Line) >= 2 /\ Len(Line) <= max /\ Line[Len(Line) - 1] = "R"
  BY DEF LineOK
<1>9. e >= pos + 2 /\ e - 1 = pos + (Len(Line) - 1) /\ Len(Line) - 1 \in 1..e - pos
      /\ 1 \in 1..e - pos /\ 2 \in 1..e - pos
  BY <1>1, <1>4, <1>6, <1>8
<1>10. stream.text[e - 1] = "R"
  BY <1>6, <1>8, <1>9
<1>11. IsLine(stream.text, pos, e)
  BY <1>1, <1>4, <1>5, <1>9, <1>10 DEF IsLine
<1>12. Head(Line) = stream.text[pos + 1]
  <2>1. Head(Line) = Line[1]
    BY <1>6, <1>8
  <2> QED
    BY <1>6, <1>9, <2>1
<1>13. Blank(Line) <=> e = pos + 2
  <2>1. Blank(Line) => Len(Line) = 2
    BY DEF Blank
  <2>2. ASSUME Len(Line) = 2 PROVE Blank(Line)
    <3>1. Line[1] = "R" /\ Line[2] = "N"
      <4>1. pos + 2 = e
        BY <1>1, <1>4, <1>7, <2>2
      <4> QED
        BY <1>4, <1>6, <1>8, <1>9, <2>2, <4>1
    <3>2. Line = <<Line[1], Line[2]>>
      BY <1>6, <2>2
    <3> QED
      BY <3>1, <3>2 DEF Blank
  <2> QED
    BY <1>1, <1>4, <1>6, <1>7, <2>1, <2>2
<1> QED
  BY <1>1, <1>4, <1>6, <1>7, <1>8, <1>9, <1>11, <1>12, <1>13

\* Where it accepts none, there is none that has arrived and is short enough.
LEMMA NoLine ==
    ASSUME HttpTypeOK, NEW max \in Int, ~LineOK(max),
           NEW e \in Nat, e <= limit, IsLine(stream.text, pos, e)
    PROVE  ~(e - pos <= max)
<1>1. /\ stream.text \in Seq(STRING) /\ Len(stream.text) \in Nat
      /\ limit \in Nat /\ limit <= Len(stream.text) /\ pos \in Nat /\ pos <= limit
  BY DEF HttpTypeOK
<1>2. /\ e >= pos + 2 /\ stream.text[e - 1] = "R" /\ stream.text[e] = "N"
      /\ \A i \in pos + 1 .. e - 1 : stream.text[i] # "N"
  BY <1>1 DEF IsLine
<1>3. e \in LineEnds
  BY <1>1, <1>2 DEF LineEnds
<1>4. /\ Line # <<>> /\ Len(Line) = e - pos
      /\ \A i \in 1..e - pos : Line[i] = stream.text[pos + i]
  BY <1>2, <1>3, LineAt
<1>5. Line[Len(Line) - 1] = "R"
  <2>1. Len(Line) - 1 \in 1..e - pos /\ pos + (Len(Line) - 1) = e - 1
    BY <1>1, <1>2, <1>4
  <2> QED
    BY <1>2, <1>4, <2>1
<1>6. Len(Line) >= 2
  BY <1>1, <1>2, <1>4
<1> QED
  BY <1>1, <1>4, <1>5, <1>6 DEF LineOK

-----------------------------------------------------------------------------
(***************************************************************************)
(* The pieces of a request.                                                *)
(***************************************************************************)
\* What can follow is told by the last piece.
LEMMA FollowsWhat ==
    ASSUME NEW t, NEW a \in Nat, NEW m \in Seq(Piece), NEW q \in Piece, Follows(t, a, m, q)
    PROVE  /\ m = <<>> => q.kind = "request"
           /\ m # <<>> => LastKind(m) \in Kinds
           /\ LastKind(m) \in {"request", "field"} => q.kind \in {"field", "blank"}
           /\ LastKind(m) = "blank" /\ ~Chunked(t, a, m) => q.kind = "sized"
           /\ LastKind(m) = "blank" /\ Chunked(t, a, m) => q.kind \in {"size", "last"}
           /\ LastKind(m) = "chunk" => q.kind \in {"size", "last"}
           /\ LastKind(m) = "size" => q.kind = "chunk"
           /\ LastKind(m) \in {"last", "trailer"} => q.kind \in {"trailer", "close"}
           /\ ~Whole(m)
<1>1. m = <<>> => LastKind(m) = "none"
  BY DEF LastKind
<1>2. m # <<>> => LastKind(m) \in Kinds
  <2>1. m # <<>> => Len(m) \in 1..Len(m)
    BY EmptySeq
  <2>2. m # <<>> => m[Len(m)] \in Piece
    BY <2>1, ElementOfSeq
  <2> QED
    BY <2>2 DEF LastKind, Piece
<1>3. m # <<>> => LastKind(m) # "none"
  BY <1>2 DEF Kinds
<1>4. \/ q.kind = "request" /\ m = <<>>
      \/ q.kind \in {"field", "blank"} /\ LastKind(m) \in {"request", "field"}
      \/ q.kind = "sized" /\ LastKind(m) = "blank" /\ ~Chunked(t, a, m)
      \/ /\ q.kind \in {"size", "last"}
         /\ LastKind(m) = "chunk" \/ (LastKind(m) = "blank" /\ Chunked(t, a, m))
      \/ q.kind = "chunk" /\ LastKind(m) = "size"
      \/ q.kind \in {"trailer", "close"} /\ LastKind(m) \in {"last", "trailer"}
  BY DEF Follows, HeaderLine, SizeLine, TrailerLine
<1>5. ~Whole(m)
  BY <1>1, <1>4 DEF Whole
<1> QED
  BY <1>1, <1>2, <1>3, <1>4, <1>5

\* The text goes on.
LEMMA FollowsForward ==
    ASSUME NEW t \in Seq(STRING), NEW a \in Nat, NEW m \in Seq(Piece), NEW q \in Piece,
           Follows(t, a, m, q)
    PROVE  q.end \in Nat /\ EndOf(a, m) <= q.end /\ q.end <= Len(t)
<1> DEFINE p == EndOf(a, m)
<1>1. p \in Nat /\ Len(t) \in Nat
  BY PieceAdded, LenProperties
<1> HIDE DEF p
<1>2. IsLine(t, p, q.end) \/ q.end \in p..Len(t) \/ q.end \in p + 2..Len(t)
  BY DEF Follows, HeaderLine, SizeLine, TrailerLine, NextLine, p
<1>3. q.end \in p..Len(t)
  BY <1>1, <1>2 DEF IsLine
<1> QED
  BY <1>1, <1>3 DEF p

\* A line that follows is the one that comes next, and its kind is told by
\* whether it is empty, or by the size that it gives.
LEMMA FollowsLine ==
    ASSUME NEW t, NEW a \in Nat, NEW m \in Seq(Piece), NEW q \in Piece, Follows(t, a, m, q)
    PROVE  LET p == EndOf(a, m)
           IN  /\ q.kind \notin {"sized", "chunk"} => IsLine(t, p, q.end)
               /\ q.kind = "request" => q.end - p <= maxHeaderBytes /\ t[p + 1] = "q"
               /\ q.kind \in {"field", "blank"} => q.end - p <= maxHeaderBytes - (p - a)
               /\ q.kind \in {"trailer", "close"} => q.end - p <= maxTrailer
               /\ q.kind \in {"field", "trailer"} => q.end # p + 2
               /\ q.kind \in {"blank", "close"} => q.end = p + 2
               /\ q.kind = "blank" => Delimited(t, a, m)
               /\ q.kind \in {"size", "last"} => SizeLine(t, a, m, q)
<1>1. CASE q.kind = "request"
  BY <1>1 DEF Follows
<1>2. CASE q.kind \in {"field", "blank"}
  BY <1>2 DEF Follows, HeaderLine, NextLine
<1>3. CASE q.kind \in {"size", "last"}
  BY <1>3 DEF Follows, SizeLine
<1>4. CASE q.kind \in {"trailer", "close"}
  BY <1>4 DEF Follows, TrailerLine, NextLine
<1>5. CASE q.kind \in {"sized", "chunk"}
  BY <1>5
<1> QED
  BY <1>1, <1>2, <1>3, <1>4, <1>5 DEF Piece, Kinds

\* The data that follow are as long as was said before.
LEMMA FollowsData ==
    ASSUME NEW t, NEW a \in Nat, NEW m \in Seq(Piece), NEW q \in Piece, Follows(t, a, m, q)
    PROVE  LET p == EndOf(a, m)
           IN  /\ q.kind = "sized" => q.end = p + ParseInt(Length(t, a, m), 10)
               /\ q.kind = "chunk" =>
                     /\ q.end = p + ChunkSize(Part(t, From(a, m, Len(m)), p)) + 2
                     /\ t[q.end - 1] = "R" /\ t[q.end] = "N"
<1>1. CASE q.kind = "sized"
  BY <1>1 DEF Follows
<1>2. CASE q.kind = "chunk"
  BY <1>2 DEF Follows
<1> QED
  BY <1>1, <1>2

\* At most one piece follows.
LEMMA FollowsOnce ==
    ASSUME NEW t \in Seq(STRING), NEW a \in Nat, NEW m \in Seq(Piece),
           NEW q \in Piece, NEW q2 \in Piece, Follows(t, a, m, q), Follows(t, a, m, q2)
    PROVE  q = q2
<1> DEFINE p == EndOf(a, m)
<1>1. p \in Nat
  BY PieceAdded
<1>2. /\ q.kind \in Kinds /\ q2.kind \in Kinds
      /\ q = [kind |-> q.kind, end |-> q.end] /\ q2 = [kind |-> q2.kind, end |-> q2.end]
  BY DEF Piece
<1>3. SUFFICES q.kind = q2.kind /\ q.end = q2.end
  BY <1>2
<1>4. \/ q.kind = "request" /\ q2.kind = "request"
      \/ q.kind \in {"field", "blank"} /\ q2.kind \in {"field", "blank"}
      \/ q.kind = "sized" /\ q2.kind = "sized"
      \/ q.kind \in {"size", "last"} /\ q2.kind \in {"size", "last"}
      \/ q.kind = "chunk" /\ q2.kind = "chunk"
      \/ q.kind \in {"trailer", "close"} /\ q2.kind \in {"trailer", "close"}
  <2>1. m = <<>> \/ LastKind(m) \in Kinds
    BY FollowsWhat
  <2>2. ~Whole(m)
    BY FollowsWhat
  <2>3. \/ m = <<>> \/ LastKind(m) \in {"request", "field"}
        \/ LastKind(m) = "blank" /\ ~Chunked(t, a, m)
        \/ LastKind(m) = "blank" /\ Chunked(t, a, m)
        \/ LastKind(m) = "chunk" \/ LastKind(m) = "size" \/ LastKind(m) \in {"last", "trailer"}
    BY <2>1, <2>2 DEF Kinds, Whole
  <2> QED
    BY <2>3, FollowsWhat
<1>5. CASE q.kind \in {"sized", "chunk"}
  BY <1>4, <1>5, FollowsData
<1>6. CASE q.kind \notin {"sized", "chunk"}
  <2>1. q2.kind \notin {"sized", "chunk"}
    BY <1>4, <1>6
  <2>2. IsLine(t, p, q.end) /\ IsLine(t, p, q2.end)
    BY <1>6, <2>1, FollowsLine
  <2>3. q.end = q2.end
    BY <1>1, <2>2, OneLine
  <2>4. /\ q.kind \in {"field", "trailer"} <=> q2.kind \in {"field", "trailer"}
        /\ q.kind \in {"blank", "close"} <=> q2.kind \in {"blank", "close"}
    <3>1. /\ q.kind \in {"field", "trailer"} => q.end # p + 2
          /\ q.kind \in {"blank", "close"} => q.end = p + 2
          /\ q2.kind \in {"field", "trailer"} => q2.end # p + 2
          /\ q2.kind \in {"blank", "close"} => q2.end = p + 2
      BY FollowsLine
    <3> HIDE DEF p
    <3> QED
      BY <1>4, <2>3, <3>1
  <2>5. ASSUME q.kind \in {"size", "last"}, q2.kind \in {"size", "last"}
        PROVE  q.kind = q2.kind
    <3>1. SizeLine(t, a, m, q) /\ SizeLine(t, a, m, q2)
      BY <2>5, FollowsLine
    <3> QED
      BY <2>3, <2>5, <3>1 DEF SizeLine
  <2> QED
    BY <1>4, <1>6, <2>3, <2>4, <2>5
<1> QED
  BY <1>5, <1>6

-----------------------------------------------------------------------------
(***************************************************************************)
(* Readings: the first pieces of a request, and the one after them.        *)
(***************************************************************************)
LEMMA FirstPieces ==
    ASSUME NEW m \in Seq(Piece), NEW i \in 0..Len(m)
    PROVE  SubSeq(m, 1, i) \in Seq(Piece) /\ Len(SubSeq(m, 1, i)) = i
           /\ \A j \in 1..i : SubSeq(m, 1, i)[j] = m[j]
<1>1. i \in Nat /\ \A j \in 1..i : m[j] \in Piece
  <2>1. Len(m) \in Nat
    BY LenProperties
  <2>2. \A j \in 1..i : j \in 1..Len(m)
    BY <2>1
  <2> QED
    BY <2>1, <2>2, ElementOfSeq
<1>2. /\ SubSeq(m, 1, i) \in Seq(Piece)
      /\ Len(SubSeq(m, 1, i)) = IF 1 <= i THEN i - 1 + 1 ELSE 0
      /\ \A j \in 1..i - 1 + 1 : SubSeq(m, 1, i)[j] = m[1 + j - 1]
  BY <1>1, SubSeqProperties
<1>3. (IF 1 <= i THEN i - 1 + 1 ELSE 0) = i /\ i - 1 + 1 = i /\ \A j \in 1..i : 1 + j - 1 = j
  BY <1>1
<1>4. Len(SubSeq(m, 1, i)) = i
  BY <1>2, <1>3
<1> QED
  BY <1>2, <1>3, <1>4

\* One more of the pieces of a request.
LEMMA OnePieceMore ==
    ASSUME NEW a \in Nat, NEW m \in Seq(Piece), NEW i \in Nat, i + 1 \in 1..Len(m)
    PROVE  /\ SubSeq(m, 1, i) \in Seq(Piece) /\ m[i + 1] \in Piece
           /\ SubSeq(m, 1, i + 1) = Append(SubSeq(m, 1, i), m[i + 1])
           /\ EndOf(a, SubSeq(m, 1, i)) = From(a, m, i + 1)
<1>1. Len(m) \in Nat
  BY LenProperties
<1>2. i \in 0..Len(m) /\ i + 1 \in 0..Len(m)
  BY <1>1
<1> DEFINE v == SubSeq(m, 1, i)
           w == SubSeq(m, 1, i + 1)
<1>3. v \in Seq(Piece) /\ Len(v) = i /\ \A j \in 1..i : v[j] = m[j]
  BY <1>2, FirstPieces
<1>4. w \in Seq(Piece) /\ Len(w) = i + 1 /\ \A j \in 1..i + 1 : w[j] = m[j]
  BY <1>2, FirstPieces
<1>5. m[i + 1] \in Piece
  BY ElementOfSeq
<1> HIDE DEF v, w
<1>6. w = Append(v, m[i + 1])
  <2> DEFINE x == Append(v, m[i + 1])
  <2>1. /\ x \in Seq(Piece) /\ Len(x) = i + 1
        /\ \A j \in 1..i : x[j] = v[j]
        /\ x[i + 1] = m[i + 1]
    BY <1>3, <1>5, AppendProperties
  <2> HIDE DEF x
  <2>2. ASSUME NEW j \in 1..i + 1 PROVE w[j] = x[j]
    <3>1. j \in 1..i \/ j = i + 1
      OBVIOUS
    <3> QED
      BY <1>3, <1>4, <2>1, <3>1
  <2>3. w = x
    BY <1>4, <2>1, <2>2, SeqEqual
  <2> QED
    BY <2>3 DEF x
<1>7. EndOf(a, v) = From(a, m, i + 1)
  <2>1. CASE i = 0
    BY <1>3, <2>1 DEF EndOf, From
  <2>2. CASE i # 0
    <3>1. v # <<>> /\ i \in 1..i /\ i + 1 # 1 /\ (i + 1) - 1 = i
      BY <1>3, <2>2
    <3> QED
      BY <1>3, <3>1 DEF EndOf, From
  <2> QED
    BY <2>1, <2>2
<1> QED
  BY <1>3, <1>5, <1>6, <1>7 DEF v, w

\* All of them.
LEMMA AllPieces ==
    ASSUME NEW m \in Seq(Piece)
    PROVE  SubSeq(m, 1, Len(m)) = m /\ SubSeq(m, 1, 0) = <<>> /\ Len(m) \in Nat
<1>1. Len(m) \in Nat /\ Len(m) \in 0..Len(m) /\ 0 \in 0..Len(m)
  BY LenProperties
<1>2. /\ SubSeq(m, 1, Len(m)) \in Seq(Piece) /\ Len(SubSeq(m, 1, Len(m))) = Len(m)
      /\ \A j \in 1..Len(m) : SubSeq(m, 1, Len(m))[j] = m[j]
  BY <1>1, FirstPieces
<1>3. SubSeq(m, 1, Len(m)) = m
  BY <1>2, SeqEqual
<1>4. SubSeq(m, 1, 0) = <<>>
  BY SubSeqEmpty
<1> QED
  BY <1>1, <1>3, <1>4

\* It follows those before it.
LEMMA ReadingNext ==
    ASSUME NEW t \in Seq(STRING), NEW a \in Nat, NEW m, Reading(t, a, m),
           NEW i \in Nat, i + 1 \in 1..Len(m)
    PROVE  /\ SubSeq(m, 1, i) \in Seq(Piece) /\ m[i + 1] \in Piece
           /\ SubSeq(m, 1, i + 1) = Append(SubSeq(m, 1, i), m[i + 1])
           /\ Follows(t, a, SubSeq(m, 1, i), m[i + 1])
           /\ m[i + 1].end \in Nat /\ From(a, m, i + 1) \in Nat
           /\ From(a, m, i + 1) <= m[i + 1].end
<1>1. m \in Seq(Piece) /\ i + 1 \in DOMAIN m /\ (i + 1) - 1 = i
  BY LenProperties DEF Reading
<1>2. /\ SubSeq(m, 1, i) \in Seq(Piece) /\ m[i + 1] \in Piece
      /\ SubSeq(m, 1, i + 1) = Append(SubSeq(m, 1, i), m[i + 1])
      /\ EndOf(a, SubSeq(m, 1, i)) = From(a, m, i + 1)
  BY <1>1, OnePieceMore
<1>3. Follows(t, a, SubSeq(m, 1, i), m[i + 1])
  <2>1. Follows(t, a, SubSeq(m, 1, (i + 1) - 1), m[i + 1])
    BY <1>1 DEF Reading
  <2> QED
    BY <1>1, <2>1
<1>4. /\ m[i + 1].end \in Nat /\ EndOf(a, SubSeq(m, 1, i)) <= m[i + 1].end
      /\ EndOf(a, SubSeq(m, 1, i)) \in Nat
  BY <1>2, <1>3, FollowsForward, PieceAdded
<1> QED
  BY <1>2, <1>3, <1>4

\* No piece ends behind the request, and none begins before it.
LEMMA ReadingForward ==
    ASSUME NEW t \in Seq(STRING), NEW a \in Nat, NEW m, Reading(t, a, m)
    PROVE  /\ EndOf(a, m) \in Nat /\ a <= EndOf(a, m)
           /\ \A i \in 1..Len(m) : m[i].end \in Nat /\ m[i].end <= EndOf(a, m)
<1> DEFINE k == Len(m)
           E(i) == IF i = 0 THEN a ELSE m[i].end
           G == {d \in Nat : d <= k => E(k - d) <= E(k)}
<1>1. m \in Seq(Piece) /\ k \in Nat
  BY LenProperties DEF Reading
<1>2. \A i \in 1..k : m[i].end \in Nat
  <2>1. \A i \in 1..k : m[i] \in Piece
    BY <1>1, ElementOfSeq
  <2> QED
    BY <2>1 DEF Piece
<1>3. E(k) = EndOf(a, m)
  <2>1. m = <<>> <=> k = 0
    BY <1>1, EmptySeq
  <2> QED
    BY <2>1 DEF EndOf
<1>4. ASSUME NEW i \in 1..k PROVE E(i - 1) <= E(i)
  <2>1. PICK j \in Nat : i = j + 1 /\ j = i - 1
    BY <1>1
  <2>2. From(a, m, j + 1) <= m[j + 1].end
    BY <2>1, ReadingNext
  <2>3. From(a, m, j + 1) = E(j)
    <3>1. (j + 1 = 1 <=> j = 0) /\ (j + 1) - 1 = j
      BY <2>1
    <3> QED
      BY <3>1 DEF From
  <2>4. i # 0
    BY <1>1
  <2> QED
    BY <2>1, <2>2, <2>3, <2>4
<1>5. \A i \in 0..k : E(i) \in Nat
  BY <1>1, <1>2
<1>6. \A d \in Nat : d \in G
  <2>1. 0 \in G
    <3>1. k - 0 = k /\ k \in 0..k
      BY <1>1
    <3> HIDE DEF E
    <3> QED
      BY <1>5, <3>1
  <2>2. ASSUME NEW d \in Nat, d \in G PROVE d + 1 \in G
    <3>1. SUFFICES ASSUME d + 1 <= k PROVE E(k - (d + 1)) <= E(k)
      OBVIOUS
    <3>2. /\ k - d \in 1..k /\ (k - d) - 1 = k - (d + 1)
          /\ k - (d + 1) \in 0..k /\ k - d \in 0..k /\ k \in 0..k
      BY <1>1, <3>1
    <3>3. E((k - d) - 1) <= E(k - d)
      BY <1>4, <3>2
    <3>4. E(k - d) <= E(k)
      BY <1>1, <2>2, <3>1
    <3>5. E(k - (d + 1)) <= E(k - d)
      BY <3>2, <3>3, Zenon
    <3>6. E(k - (d + 1)) \in Nat /\ E(k - d) \in Nat /\ E(k) \in Nat
      BY <1>5, <3>2, Zenon
    <3> HIDE DEF E, k
    <3>7. \A x, y, z \in Nat : x <= y /\ y <= z => x <= z
      OBVIOUS
    <3> QED
      BY <3>4, <3>5, <3>6, <3>7, Zenon
  <2> HIDE DEF G
  <2> QED
    BY <2>1, <2>2, NatSetInduction
<1>7. ASSUME NEW i \in 0..k PROVE E(i) <= E(k)
  <2>1. k - i \in Nat /\ k - i <= k /\ k - (k - i) = i
    BY <1>1
  <2>2. k - i \in G
    BY <1>6, <2>1
  <2> HIDE DEF E
  <2> QED
    BY <2>1, <2>2
<1>8. E(0) = a /\ \A i \in 1..k : E(i) = m[i].end
  BY <1>1
<1>9. 0 \in 0..k /\ k \in 0..k /\ \A i \in 1..k : i \in 0..k
  BY <1>1
<1> HIDE DEF E
<1> QED
  BY <1>2, <1>3, <1>5, <1>7, <1>8, <1>9

-----------------------------------------------------------------------------
(***************************************************************************)
(* The requests of a stream.                                               *)
(***************************************************************************)
LEMMA StartNext ==
    ASSUME NEW s \in Streams, NEW k \in DOMAIN s.requests
    PROVE  /\ Start(s, k) \in Nat /\ Start(s, k + 1) \in Nat
           /\ Start(s, k) <= Start(s, k + 1)
           /\ Start(s, k + 1) = EndOf(0, s.requests[k])
           /\ EndOf(Start(s, k), s.requests[k]) = EndOf(0, s.requests[k])
           /\ s.requests[k] \in Seq(Piece) /\ s.requests[k] # <<>>
           /\ Reading(s.text, Start(s, k), s.requests[k]) /\ Whole(s.requests[k])
<1>1. /\ s.text \in Seq(STRING) /\ s.requests \in Seq(Seq(Piece))
      /\ \A i \in DOMAIN s.requests :
            Reading(s.text, Start(s, i), s.requests[i]) /\ Whole(s.requests[i])
  BY HttpAssumption DEF IsStream
<1>2. DOMAIN s.requests = 1..Len(s.requests) /\ Len(s.requests) \in Nat
  BY <1>1, LenProperties
<1>3. k \in Nat /\ k + 1 # 1 /\ (k + 1) - 1 = k /\ (k # 1 => k - 1 \in DOMAIN s.requests)
  BY <1>2
<1>4. ASSUME NEW i \in DOMAIN s.requests
      PROVE  s.requests[i] \in Seq(Piece) /\ EndOf(0, s.requests[i]) \in Nat
             /\ s.requests[i] # <<>>
  <2>1. s.requests[i] \in Seq(Piece)
    BY <1>1, <1>2, ElementOfSeq
  <2>2. s.requests[i] # <<>>
    BY <1>1 DEF Whole, LastKind
  <2>3. Len(s.requests[i]) \in 1..Len(s.requests[i])
    BY <2>1, <2>2, EmptySeq
  <2>4. s.requests[i][Len(s.requests[i])] \in Piece
    BY <2>1, <2>3, ElementOfSeq
  <2> QED
    BY <2>1, <2>2, <2>4 DEF EndOf, Piece
<1>5. Start(s, k + 1) = EndOf(0, s.requests[k])
  BY <1>3 DEF Start
<1>6. EndOf(Start(s, k), s.requests[k]) = EndOf(0, s.requests[k])
  BY <1>4 DEF EndOf
<1>7. Start(s, k) \in Nat
  BY <1>3, <1>4 DEF Start
<1>8. Start(s, k) <= EndOf(Start(s, k), s.requests[k])
  BY <1>1, <1>7, ReadingForward
<1> QED
  BY <1>1, <1>4, <1>5, <1>6, <1>7, <1>8

\* They end one after the other.
LEMMA EndsOrdered ==
    ASSUME NEW s \in Streams, NEW j \in DOMAIN s.requests, NEW k \in DOMAIN s.requests, j <= k
    PROVE  EndOf(0, s.requests[j]) <= EndOf(0, s.requests[k])
<1> DEFINE E(i) == EndOf(0, s.requests[i])
           G == {d \in Nat : j + d \in DOMAIN s.requests => E(j) <= E(j + d)}
<1>1. DOMAIN s.requests = 1..Len(s.requests) /\ Len(s.requests) \in Nat
  BY HttpAssumption, LenProperties DEF IsStream
<1>2. ASSUME NEW i \in DOMAIN s.requests
      PROVE  E(i) \in Nat /\ (i + 1 \in DOMAIN s.requests => E(i) <= E(i + 1))
  <2>1. E(i) = Start(s, i + 1) /\ E(i) \in Nat
    BY StartNext
  <2>2. i + 1 \in DOMAIN s.requests => Start(s, i + 1) <= Start(s, (i + 1) + 1)
    BY StartNext
  <2>3. i + 1 \in DOMAIN s.requests => E(i + 1) = Start(s, (i + 1) + 1)
    BY StartNext
  <2> QED
    BY <2>1, <2>2, <2>3
<1> HIDE DEF E
<1>3. 0 \in G
  <2>1. j + 0 = j /\ E(j) \in Nat
    BY <1>1, <1>2
  <2> QED
    BY <2>1
<1>4. ASSUME NEW d \in Nat, d \in G PROVE d + 1 \in G
  <2>1. SUFFICES ASSUME j + (d + 1) \in DOMAIN s.requests PROVE E(j) <= E(j + (d + 1))
    OBVIOUS
  <2>2. j + d \in DOMAIN s.requests /\ (j + d) + 1 = j + (d + 1)
    BY <1>1, <2>1
  <2>3. E(j) <= E(j + d)
    BY <1>4, <2>2
  <2>4. E(j + d) <= E(j + (d + 1))
    BY <1>2, <2>1, <2>2
  <2>5. E(j) \in Nat /\ E(j + d) \in Nat /\ E(j + (d + 1)) \in Nat
    BY <1>2, <2>1, <2>2
  <2>6. \A x, y, z \in Nat : x <= y /\ y <= z => x <= z
    OBVIOUS
  <2> QED
    BY <2>3, <2>4, <2>5, <2>6, Zenon
<1> HIDE DEF G
<1>5. \A d \in Nat : d \in G
  BY <1>3, <1>4, NatSetInduction
<1>6. k - j \in Nat /\ j + (k - j) = k
  BY <1>1
<1>7. k - j \in G
  BY <1>5, <1>6
<1>8. E(j) <= E(k)
  BY <1>6, <1>7 DEF G
<1> QED
  BY <1>8 DEF E

\* What is read next: a request, whole, or a rest that leads nowhere.
LEMMA UpcomingIs ==
    ASSUME HttpTypeOK, stream \in Streams, Len(returned) <= Len(stream.requests)
    PROVE  LET k == Len(returned) + 1
           IN  /\ stream.text \in Seq(STRING) /\ Here = Start(stream, k) /\ Here \in Nat
               /\ Reading(stream.text, Here, Upcoming) /\ Upcoming \in Seq(Piece)
               /\ \/ /\ k \in DOMAIN stream.requests /\ Whole(Upcoming)
                     /\ Upcoming = stream.requests[k]
                  \/ /\ k \notin DOMAIN stream.requests /\ ~Whole(Upcoming)
                     /\ Stuck(stream.text, Here, Upcoming)
<1> DEFINE k == Len(returned) + 1
<1>1. IsStream(stream)
  BY HttpAssumption
<1>2. /\ DOMAIN stream.requests = 1..Len(stream.requests) /\ Len(stream.requests) \in Nat
      /\ Len(returned) \in Nat
  BY <1>1, LenProperties DEF IsStream, HttpTypeOK
<1>3. stream.text \in Seq(STRING) /\ Here = Start(stream, k)
  BY DEF HttpTypeOK, Here
<1>4. CASE k \in DOMAIN stream.requests
  <2>1. Upcoming = stream.requests[k]
    BY <1>4 DEF Upcoming
  <2>2. /\ Start(stream, k) \in Nat /\ Upcoming \in Seq(Piece)
        /\ Reading(stream.text, Start(stream, k), Upcoming) /\ Whole(Upcoming)
    BY <1>4, <2>1, StartNext
  <2> QED
    BY <1>3, <1>4, <2>1, <2>2
<1>5. CASE k \notin DOMAIN stream.requests
  <2>1. Upcoming = stream.rest
    BY <1>5 DEF Upcoming
  <2>2. k = Len(stream.requests) + 1
    BY <1>2, <1>5
  <2>3. /\ Reading(stream.text, Here, Upcoming) /\ ~Whole(Upcoming)
        /\ Stuck(stream.text, Here, Upcoming)
    BY <1>1, <1>3, <2>1, <2>2 DEF IsStream
  <2>4. Here \in Nat
    <3>1. CASE Len(stream.requests) = 0
      BY <1>3, <2>2, <3>1 DEF Start
    <3>2. CASE Len(stream.requests) # 0
      <4>1. Len(stream.requests) \in DOMAIN stream.requests
        BY <1>2, <3>2
      <4>2. Start(stream, Len(stream.requests) + 1) \in Nat
        BY <4>1, StartNext
      <4> QED
        BY <1>3, <2>2, <4>2
    <3> QED
      BY <3>1, <3>2
  <2>5. Upcoming \in Seq(Piece)
    BY <2>3 DEF Reading
  <2> QED
    BY <1>3, <1>5, <2>3, <2>4, <2>5
<1> QED
  BY <1>4, <1>5

\* What can be taken behind the first i pieces is the piece that comes next.
LEMMA NextPiece ==
    ASSUME HttpTypeOK, stream \in Streams, Len(returned) <= Len(stream.requests),
           NEW i \in 0..Len(Upcoming), NEW q \in Piece,
           Follows(stream.text, Here, SubSeq(Upcoming, 1, i), q)
    PROVE  i + 1 \in 1..Len(Upcoming) /\ Upcoming[i + 1] = q
           /\ SubSeq(Upcoming, 1, i + 1) = Append(SubSeq(Upcoming, 1, i), q)
<1> DEFINE t == stream.text
           a == Here
           r == Upcoming
<1>1. /\ t \in Seq(STRING) /\ a \in Nat /\ Reading(t, a, r) /\ r \in Seq(Piece)
      /\ Whole(r) \/ Stuck(t, a, r)
  BY UpcomingIs
<1> HIDE DEF t, a, r
<1>2. Len(r) \in Nat /\ SubSeq(r, 1, Len(r)) = r
  BY <1>1, AllPieces
<1>3. i \in 0..Len(r) /\ Follows(t, a, SubSeq(r, 1, i), q)
  BY DEF t, a, r
<1>4. SubSeq(r, 1, i) \in Seq(Piece)
  BY <1>1, <1>3, FirstPieces
<1>5. i # Len(r)
  <2>1. SUFFICES ASSUME i = Len(r) PROVE FALSE
    OBVIOUS
  <2>2. Follows(t, a, r, q)
    BY <1>2, <1>3, <2>1
  <2>3. ~Whole(r)
    BY <1>1, <2>2, FollowsWhat
  <2>4. q.end \in 0..Len(t) /\ q.kind \in Kinds /\ q = [kind |-> q.kind, end |-> q.end]
    <3>1. q.end \in Nat /\ q.end <= Len(t) /\ Len(t) \in Nat
      BY <1>1, <2>2, FollowsForward, LenProperties
    <3> QED
      BY <3>1 DEF Piece
  <2>5. ~Follows(t, a, r, [kind |-> q.kind, end |-> q.end])
    BY <1>1, <2>3, <2>4 DEF Stuck
  <2> QED
    BY <2>2, <2>4, <2>5
<1>6. i \in Nat /\ i + 1 \in 1..Len(r)
  <2>1. \A k \in Nat : i \in 0..k /\ i # k => i \in Nat /\ i + 1 \in 1..k
    OBVIOUS
  <2> QED
    BY <1>2, <1>3, <1>5, <2>1, Zenon
<1>7. /\ Follows(t, a, SubSeq(r, 1, i), r[i + 1]) /\ r[i + 1] \in Piece
      /\ SubSeq(r, 1, i + 1) = Append(SubSeq(r, 1, i), r[i + 1])
  BY <1>1, <1>6, ReadingNext
<1>8. r[i + 1] = q
  BY <1>1, <1>3, <1>4, <1>7, FollowsOnce
<1> QED
  BY <1>6, <1>7, <1>8 DEF r

-----------------------------------------------------------------------------
(***************************************************************************)
(* What a step does with the pieces m: it takes one more, completes the    *)
(* request with one more, or stops because none follows.                   *)
(***************************************************************************)
Takes(t, a, m) ==
    \E q \in Piece : /\ Follows(t, a, m, q) /\ ~Whole(Append(m, q))
                     /\ Holds(t, a, Append(m, q))'
                     /\ UNCHANGED <<stream, limit, returned, status>>

Completes(t, a, m) ==
    \E q \in Piece : /\ Follows(t, a, m, q) /\ Whole(Append(m, q))
                     /\ Return(BodyOf(t, a, Append(m, q)), q.end)

Stops(t, a, m) ==
    /\ \A q \in Piece : q.end <= limit => ~Follows(t, a, m, q)
    /\ \E how : Fail(how)

\* The phase tells what the last piece is.
LEMMA PhaseTells ==
    ASSUME NEW t, NEW a, NEW m, Holds(t, a, m)
    PROVE  /\ phase = "request" => m = <<>>
           /\ phase = "headers" => LastKind(m) \in {"request", "field"}
           /\ phase = "sized" => LastKind(m) = "blank" /\ ~Chunked(t, a, m)
           /\ phase = "size" => LastKind(m) = "chunk" \/ (LastKind(m) = "blank" /\ Chunked(t, a, m))
           /\ phase = "chunk" => LastKind(m) = "size"
           /\ phase = "trailer" => LastKind(m) \in {"last", "trailer"}
<1>1. phase = PhaseBehind(t, a, m)
  BY DEF Holds
<1>2. m = <<>> => LastKind(m) = "none"
  BY DEF LastKind
<1> DEFINE k == LastKind(m)
<1> HIDE DEF k
<1>3. phase =
        CASE m = <<>> -> "request"
          [] k \in {"request", "field"} -> "headers"
          [] k = "blank" -> IF Chunked(t, a, m) THEN "size" ELSE "sized"
          [] k = "chunk" -> "size"
          [] k = "size" -> "chunk"
          [] k \in {"last", "trailer"} -> "trailer"
          [] OTHER -> "none"
  BY <1>1 DEF PhaseBehind, k
<1>4. m = <<>> => k = "none"
  BY <1>2 DEF k
<1>5. CASE m = <<>>
  BY <1>3, <1>4, <1>5 DEF k
<1>6. CASE m # <<>>
  <2>1. CASE k \in {"request", "field"}
    BY <1>3, <1>6, <2>1 DEF k
  <2>2. CASE k = "blank"
    BY <1>3, <1>6, <2>2 DEF k
  <2>3. CASE k \in {"chunk", "size", "last", "trailer"}
    BY <1>3, <1>6, <2>3 DEF k
  <2>4. CASE k \notin {"request", "field", "blank", "chunk", "size", "last", "trailer"}
    BY <1>3, <1>6, <2>4 DEF k
  <2> QED
    BY <2>1, <2>2, <2>3, <2>4
<1> QED
  BY <1>5, <1>6

\* And the piece that is added tells the phase behind it.
LEMMA PhaseAdded ==
    ASSUME NEW t, NEW a \in Nat, NEW m \in Seq(Piece), NEW q \in Piece
    PROVE  LET w == Append(m, q)
           IN  /\ q.kind \in {"request", "field"} => PhaseBehind(t, a, w) = "headers"
               /\ q.kind = "blank" =>
                     PhaseBehind(t, a, w) = IF Chunked(t, a, w) THEN "size" ELSE "sized"
               /\ q.kind = "chunk" => PhaseBehind(t, a, w) = "size"
               /\ q.kind = "size" => PhaseBehind(t, a, w) = "chunk"
               /\ q.kind \in {"last", "trailer"} => PhaseBehind(t, a, w) = "trailer"
               /\ Whole(w) <=> q.kind \in {"sized", "close"}
<1> DEFINE w == Append(m, q)
<1>1. w # <<>> /\ LastKind(w) = q.kind
  BY AddedEnd
<1> HIDE DEF w
<1>2. q.kind \in {"request", "field"} => PhaseBehind(t, a, w) = "headers"
  BY <1>1 DEF PhaseBehind
<1>3. q.kind = "blank" => PhaseBehind(t, a, w) = IF Chunked(t, a, w) THEN "size" ELSE "sized"
  BY <1>1 DEF PhaseBehind
<1>4. q.kind = "chunk" => PhaseBehind(t, a, w) = "size"
  BY <1>1 DEF PhaseBehind
<1>5. q.kind = "size" => PhaseBehind(t, a, w) = "chunk"
  BY <1>1 DEF PhaseBehind
<1>6. q.kind \in {"last", "trailer"} => PhaseBehind(t, a, w) = "trailer"
  BY <1>1 DEF PhaseBehind
<1>7. Whole(w) <=> q.kind \in {"sized", "close"}
  BY <1>1 DEF Whole
<1> QED
  BY <1>2, <1>3, <1>4, <1>5, <1>6, <1>7 DEF w

\* A piece without data adds none.
LEMMA NothingAdded ==
    ASSUME NEW t, NEW a \in Nat, NEW m \in Seq(Piece), NEW q \in Piece,
           q.kind \notin {"sized", "chunk"}, BodyOf(t, a, m) \in Seq(STRING)
    PROVE  BodyOf(t, a, Append(m, q)) = BodyOf(t, a, m)
<1>1. Adds(t, EndOf(a, m), q) = <<>>
  BY DEF Adds
<1>2. BodyOf(t, a, Append(m, q)) = BodyOf(t, a, m) \o <<>>
  BY <1>1, BodyAdded
<1> QED
  BY <1>2, ConcatEmptySeq

\* A line that cannot be used is not the next piece.
LEMMA BadLineStops ==
    ASSUME HttpInv, NEW t, t = stream.text, NEW a \in Nat, NEW m \in Seq(Piece),
           pos = EndOf(a, m), NEW max \in Int, BadLine(max),
           \A q \in Piece : Follows(t, a, m, q) => IsLine(t, pos, q.end) /\ q.end - pos <= max
    PROVE  Stops(t, a, m)
<1>1. ASSUME NEW q \in Piece, q.end <= limit, Follows(t, a, m, q) PROVE FALSE
  <2>1. IsLine(stream.text, pos, q.end) /\ q.end - pos <= max
    BY <1>1
  <2>2. q.end \in Nat
    BY DEF Piece
  <2>3. HttpTypeOK /\ ~LineOK(max)
    BY DEF HttpInv, BadLine
  <2> QED
    BY <1>1, <2>1, <2>2, <2>3, NoLine
<1>2. \E how : Fail(how)
  BY DEF BadLine
<1> QED
  BY <1>1, <1>2 DEF Stops

\* One that can be used is the only line that may follow.
LEMMA LineIsNext ==
    ASSUME HttpInv, NEW t, t = stream.text, NEW a \in Nat, NEW m \in Seq(Piece),
           pos = EndOf(a, m), NEW max \in Int, LineOK(max),
           NEW q \in Piece, IsLine(t, pos, q.end)
    PROVE  q.end = pos + Len(Line) /\ Line = Part(t, pos, q.end)
<1>1. HttpTypeOK /\ stream.text \in Seq(STRING) /\ pos \in Nat
  BY DEF HttpInv, HttpTypeOK
<1>2. IsLine(stream.text, pos, pos + Len(Line)) /\ Line = Part(stream.text, pos, pos + Len(Line))
  BY <1>1, GoodLine
<1>3. q.end = pos + Len(Line)
  BY <1>1, <1>2, OneLine
<1> QED
  BY <1>2, <1>3

\* A piece of any kind, wherever it ends.
LEMMA NewPiece ==
    ASSUME NEW k \in Kinds, NEW e \in Nat
    PROVE  \E q \in Piece : q.kind = k /\ q.end = e
<1>1. [kind |-> k, end |-> e] \in Piece
  BY DEF Piece
<1> QED
  BY <1>1

\* The request line.
LEMMA RequestLineAligned ==
    ASSUME HttpInv, NEW t, t = stream.text, NEW a \in Nat, NEW m \in Seq(Piece),
           Holds(t, a, m), ReadRequestLine
    PROVE  Takes(t, a, m) \/ Stops(t, a, m)
<1>1. /\ HttpTypeOK /\ t \in Seq(STRING) /\ pos \in Nat /\ maxHeaderBytes \in Int
  BY LimitsAssumption DEF HttpInv, HttpTypeOK
<1>2. phase = "request" /\ m = <<>> /\ pos = a /\ EndOf(a, m) = a
  <2>1. phase = "request" /\ pos = EndOf(a, m)
    BY DEF ReadRequestLine, At, Holds
  <2>2. m = <<>>
    BY <2>1, PhaseTells
  <2>3. EndOf(a, <<>>) = a
    BY NoPieces
  <2> QED
    BY <2>1, <2>2, <2>3
<1>3. /\ BodyOf(t, a, m) = <<>> /\ body = <<>> /\ Chunked(t, a, m) = FALSE /\ Length(t, a, m) = <<>>
      /\ hdr = [len |-> 0, chunked |-> FALSE, cl |-> <<>>]
  <2>1. BodyOf(t, a, m) = <<>> /\ Chunked(t, a, m) = FALSE /\ Length(t, a, m) = <<>>
    BY <1>2, NoPieces
  <2>2. body = <<>> /\ hdr = HeaderOf(t, a, m)
    BY <1>2 DEF Holds
  <2>3. EndOf(a, m) - a = 0
    BY <1>2
  <2> QED
    BY <2>1, <2>2, <2>3 DEF HeaderOf
<1>4. ASSUME NEW q \in Piece, Follows(t, a, m, q)
      PROVE  IsLine(t, pos, q.end) /\ q.end - pos <= maxHeaderBytes /\ t[pos + 1] = "q"
  <2>1. q.kind = "request"
    BY <1>2, <1>4, FollowsWhat
  <2>2. /\ IsLine(t, EndOf(a, m), q.end) /\ q.end - EndOf(a, m) <= maxHeaderBytes
        /\ t[EndOf(a, m) + 1] = "q"
    BY <1>4, <2>1, FollowsLine
  <2> QED
    BY <1>2, <2>2
<1>5. CASE BadLine(maxHeaderBytes)
  BY <1>1, <1>2, <1>4, <1>5, BadLineStops
<1>6. ASSUME LineOK(maxHeaderBytes)
      PROVE  LET e == pos + Len(Line)
             IN  /\ e \in Nat /\ e - pos = Len(Line) /\ e - pos <= maxHeaderBytes
                 /\ IsLine(t, pos, e) /\ Head(Line) = t[pos + 1]
  BY <1>1, <1>6, GoodLine
<1>7. CASE LineOK(maxHeaderBytes) /\ Head(Line) # "q" /\ Fail("failed")
  BY <1>4, <1>6, <1>7 DEF Stops
<1>8. CASE /\ LineOK(maxHeaderBytes) /\ Head(Line) = "q"
           /\ hdr' = [hdr EXCEPT !.len = Len(Line)]
           /\ pos' = pos + Len(Line)
           /\ phase' = "headers"
           /\ UNCHANGED <<stream, limit, body, n, returned, status>>
  <2>0. PICK e : e = pos + Len(Line)
    OBVIOUS
  <2>1. /\ e \in Nat /\ e - pos = Len(Line) /\ e - pos <= maxHeaderBytes
        /\ IsLine(t, pos, e) /\ t[pos + 1] = "q"
    BY <1>6, <1>8, <2>0
  <2>2. PICK q \in Piece : q.kind = "request" /\ q.end = e
    BY <2>1, NewPiece DEF Kinds
  <2> PICK w : w = Append(m, q)
    OBVIOUS
  <2>3. Follows(t, a, m, q)
    BY <1>2, <2>1, <2>2 DEF Follows
  <2>4. /\ EndOf(a, w) = e /\ BodyOf(t, a, w) = <<>> /\ PhaseBehind(t, a, w) = "headers"
        /\ ~Whole(w) /\ Chunked(t, a, w) = FALSE /\ Length(t, a, w) = <<>>
    <3>0. EndOf(a, w) = e
      BY <2>2, AddedEnd
    <3>1. PhaseBehind(t, a, w) = "headers" /\ ~Whole(w)
      BY <2>2, PhaseAdded
    <3>2. BodyOf(t, a, m) \in Seq(STRING)
      BY <1>3
    <3>3. BodyOf(t, a, w) = <<>>
      BY <1>3, <2>2, <3>2, NothingAdded
    <3>4. Chunked(t, a, w) = FALSE
      BY <1>3, <2>2, ChunkedAdded
    <3>5. Length(t, a, w) = <<>>
      BY <1>3, <2>2, LengthAdded
    <3> QED
      BY <3>0, <3>1, <3>3, <3>4, <3>5
  <2>5. hdr' = HeaderOf(t, a, w)
    <3>1. EndOf(a, w) - a = Len(Line)
      BY <1>2, <2>1, <2>4
    <3> QED
      BY <1>3, <1>8, <2>4, <3>1 DEF HeaderOf
  <2>6. Holds(t, a, w)'
    BY <1>3, <1>8, <2>0, <2>4, <2>5 DEF Holds
  <2> QED
    BY <1>8, <2>2, <2>3, <2>4, <2>6 DEF Takes
<1> QED
  BY <1>5, <1>7, <1>8 DEF ReadRequestLine

\* A line of the header.
LEMMA HeaderAligned ==
    ASSUME HttpInv, NEW t, t = stream.text, NEW a \in Nat, NEW m \in Seq(Piece),
           Holds(t, a, m), ReadHeader
    PROVE  Takes(t, a, m) \/ Stops(t, a, m)
<1> DEFINE p == EndOf(a, m)
<1>1. /\ HttpTypeOK /\ t \in Seq(STRING) /\ pos \in Nat /\ maxHeaderBytes \in Int
  BY LimitsAssumption DEF HttpInv, HttpTypeOK
<1>2. phase = "headers" /\ pos = p /\ LastKind(m) \in {"request", "field"}
  <2>1. phase = "headers" /\ pos = p
    BY DEF ReadHeader, At, Holds
  <2> QED
    BY <2>1, PhaseTells
<1>3. /\ BodyOf(t, a, m) = <<>> /\ body = <<>>
      /\ hdr = [len |-> pos - a, chunked |-> Chunked(t, a, m), cl |-> Length(t, a, m)]
      /\ HeaderRoom = maxHeaderBytes - (pos - a) /\ HeaderRoom \in Int
  <2>1. /\ body = <<>> /\ BodyOf(t, a, m) = <<>> /\ hdr = HeaderOf(t, a, m)
    BY <1>2 DEF Holds
  <2>2. /\ hdr = [len |-> pos - a, chunked |-> Chunked(t, a, m), cl |-> Length(t, a, m)]
    BY <1>2, <2>1 DEF HeaderOf
  <2>3. hdr.len = pos - a
    BY <2>2
  <2> QED
    BY <1>1, <2>1, <2>2, <2>3 DEF HeaderRoom
<1>4. ASSUME NEW q \in Piece, Follows(t, a, m, q)
      PROVE  IsLine(t, pos, q.end) /\ q.end - pos <= HeaderRoom
  <2>1. q.kind \in {"field", "blank"}
    BY <1>2, <1>4, FollowsWhat
  <2> HIDE DEF p
  <2>2. IsLine(t, p, q.end) /\ q.end - p <= maxHeaderBytes - (p - a)
    BY <1>4, <2>1, FollowsLine DEF p
  <2> QED
    BY <1>2, <1>3, <2>2
<1>5. CASE BadLine(HeaderRoom)
  BY <1>1, <1>2, <1>3, <1>4, <1>5, BadLineStops
<1>6. CASE /\ LineOK(HeaderRoom) /\ ~Blank(Line)
           /\ hdr' = Field(Line)
           /\ pos' = pos + Len(Line)
           /\ UNCHANGED <<stream, limit, phase, body, n, returned, status>>
  <2>0. PICK e, c : e = pos + Len(Line) /\ c = t[pos + 1]
    OBVIOUS
  <2>1. /\ e \in Nat /\ e - pos = Len(Line) /\ e - pos <= HeaderRoom
        /\ IsLine(t, pos, e) /\ Head(Line) = c /\ e # pos + 2
        /\ Line = Part(t, pos, e) /\ Line \in Seq(STRING)
    BY <1>1, <1>3, <1>6, <2>0, GoodLine
  <2> HIDE DEF p
  <2>2. PICK q \in Piece : q.kind = "field" /\ q.end = e
    BY <2>1, NewPiece DEF Kinds
  <2> PICK w : w = Append(m, q)
    OBVIOUS
  <2>3. Follows(t, a, m, q)
    BY <1>2, <1>3, <2>1, <2>2 DEF Follows, HeaderLine, NextLine, p
  <2>4. /\ EndOf(a, w) = e /\ BodyOf(t, a, w) = <<>> /\ PhaseBehind(t, a, w) = "headers"
        /\ ~Whole(w)
        /\ Chunked(t, a, w) = IF c \in {"t", "i"} THEN c = "t" ELSE Chunked(t, a, m)
        /\ Length(t, a, w) = IF c = "c" THEN Tail(Content(Line)) ELSE Length(t, a, m)
    <3>0. EndOf(a, w) = e
      BY <2>2, AddedEnd
    <3>1. PhaseBehind(t, a, w) = "headers" /\ ~Whole(w)
      BY <2>2, PhaseAdded
    <3>2. BodyOf(t, a, m) \in Seq(STRING)
      BY <1>3
    <3>3. BodyOf(t, a, w) = <<>>
      BY <1>3, <2>2, <3>2, NothingAdded
    <3>4. Chunked(t, a, w) = IF c \in {"t", "i"} THEN c = "t" ELSE Chunked(t, a, m)
      BY <1>2, <2>0, <2>2, ChunkedAdded DEF p
    <3>5. Length(t, a, w) = IF c = "c" THEN Tail(Content(Line)) ELSE Length(t, a, m)
      <4>1. Length(t, a, w) = IF q.kind = "field" /\ t[p + 1] = "c"
                              THEN Tail(Content(Part(t, p, q.end))) ELSE Length(t, a, m)
        BY LengthAdded DEF p
      <4> QED
        BY <1>2, <2>0, <2>1, <2>2, <4>1
    <3> QED
      BY <3>0, <3>1, <3>3, <3>4, <3>5
  <2>5. hdr' = HeaderOf(t, a, w)
    <3> DEFINE len == EndOf(a, w) - a
    <3>1. hdr.len + Len(Line) = len
      BY <1>1, <1>3, <2>1, <2>4
    <3> HIDE DEF len
    <3>2. HeaderOf(t, a, w) = [len |-> len, chunked |-> Chunked(t, a, w), cl |-> Length(t, a, w)]
      BY DEF HeaderOf, len
    <3>3. CASE c = "t"
      BY <1>3, <1>6, <2>1, <2>4, <3>1, <3>2, <3>3 DEF Field
    <3>4. CASE c = "i"
      BY <1>3, <1>6, <2>1, <2>4, <3>1, <3>2, <3>4 DEF Field
    <3>5. CASE c = "c"
      BY <1>3, <1>6, <2>1, <2>4, <3>1, <3>2, <3>5 DEF Field
    <3>6. CASE c \notin {"t", "i", "c"}
      BY <1>3, <1>6, <2>1, <2>4, <3>1, <3>2, <3>6 DEF Field
    <3> QED
      BY <3>3, <3>4, <3>5, <3>6
  <2>6. Holds(t, a, w)'
    BY <1>2, <1>3, <1>6, <2>0, <2>4, <2>5 DEF Holds
  <2> QED
    BY <1>6, <2>2, <2>3, <2>4, <2>6 DEF Takes
<1> QED
  BY <1>5, <1>6 DEF ReadHeader

\* The end of the header, which says where the body ends.
LEMMA EndHeaderAligned ==
    ASSUME HttpInv, NEW t, t = stream.text, NEW a \in Nat, NEW m \in Seq(Piece),
           Holds(t, a, m), EndHeader
    PROVE  Takes(t, a, m) \/ Stops(t, a, m)
<1>1. /\ HttpTypeOK /\ t \in Seq(STRING) /\ pos \in Nat /\ maxHeaderBytes \in Int
      /\ maxBodyBytes \in Nat
  BY LimitsAssumption DEF HttpInv, HttpTypeOK
<1>2. PICK p : p = EndOf(a, m)
  OBVIOUS
<1>3. phase = "headers" /\ pos = p /\ LastKind(m) \in {"request", "field"}
  <2>1. phase = "headers" /\ pos = p
    BY <1>2 DEF EndHeader, At, Holds
  <2> QED
    BY <2>1, PhaseTells
<1>4. PICK len : len = ParseInt(hdr.cl, 10)
  OBVIOUS
<1>5. /\ BodyOf(t, a, m) = <<>> /\ body = <<>>
      /\ hdr.cl = Length(t, a, m) /\ hdr.chunked = Chunked(t, a, m)
      /\ HeaderRoom = maxHeaderBytes - (pos - a) /\ HeaderRoom \in Int
      /\ len \in Nat \cup {-1}
  <2>1. /\ body = <<>> /\ BodyOf(t, a, m) = <<>> /\ hdr = HeaderOf(t, a, m)
    BY <1>3 DEF Holds
  <2>2. hdr = [len |-> pos - a, chunked |-> Chunked(t, a, m), cl |-> Length(t, a, m)]
    BY <1>2, <1>3, <2>1 DEF HeaderOf
  <2>3. hdr.len = pos - a /\ hdr.chunked = Chunked(t, a, m) /\ hdr.cl = Length(t, a, m)
    BY <2>2
  <2>4. hdr.cl \in Seq(STRING)
    BY <1>1 DEF HttpTypeOK
  <2>5. len \in Nat \cup {-1}
    BY <1>4, <2>4, ParseIntType
  <2> QED
    BY <1>1, <2>1, <2>3, <2>5 DEF HeaderRoom
<1>6. Delimited(t, a, m) <=> BodyKind(len) # "failed"
  <2>1. Delimited(t, a, m) <=> /\ hdr.cl # <<>> => len >= 0
                               /\ hdr.chunked \/ len \in 0..maxBodyBytes
    BY <1>4, <1>5 DEF Delimited
  <2>2. hdr.chunked \in BOOLEAN
    BY <1>1 DEF HttpTypeOK
  <2>3. CASE hdr.cl # <<>> /\ len < 0
    BY <1>5, <2>1, <2>3 DEF BodyKind
  <2>4. CASE ~(hdr.cl # <<>> /\ len < 0) /\ hdr.chunked
    BY <1>5, <2>1, <2>4 DEF BodyKind
  <2>5. CASE ~(hdr.cl # <<>> /\ len < 0) /\ ~hdr.chunked
    BY <1>1, <1>5, <2>1, <2>5 DEF BodyKind
  <2> QED
    BY <2>3, <2>4, <2>5
<1>7. PICK e : e = pos + Len(Line)
  OBVIOUS
<1>8. /\ LineOK(HeaderRoom) /\ Blank(Line)
      /\ \/ BodyKind(len) = "failed" /\ Fail("failed")
         \/ /\ BodyKind(len) # "failed"
            /\ phase' = BodyKind(len)
            /\ n' = IF phase' = "sized" THEN len ELSE 0
            /\ pos' = e
            /\ UNCHANGED <<stream, limit, hdr, body, returned, status>>
  BY <1>4, <1>7 DEF EndHeader
<1>9. /\ e \in Nat /\ e - pos <= HeaderRoom /\ IsLine(t, pos, e) /\ e = pos + 2
  BY <1>1, <1>5, <1>7, <1>8, GoodLine
<1>10. ASSUME NEW q \in Piece, Follows(t, a, m, q)
       PROVE  Delimited(t, a, m)
  <2>1. q.kind \in {"field", "blank"}
    BY <1>3, <1>10, FollowsWhat
  <2>2. IsLine(t, p, q.end)
    BY <1>2, <1>10, <2>1, FollowsLine
  <2>3. q.end = p + 2
    BY <1>1, <1>3, <1>9, <2>2, OneLine
  <2>4. q.kind # "field"
    BY <1>2, <1>10, <2>3, FollowsLine
  <2> QED
    BY <1>10, <2>1, <2>4, FollowsLine
<1>11. CASE BodyKind(len) = "failed" /\ Fail("failed")
  BY <1>6, <1>10, <1>11 DEF Stops
<1>12. CASE /\ BodyKind(len) # "failed"
            /\ phase' = BodyKind(len)
            /\ n' = IF phase' = "sized" THEN len ELSE 0
            /\ pos' = e
            /\ UNCHANGED <<stream, limit, hdr, body, returned, status>>
  <2>1. PICK q \in Piece : q.kind = "blank" /\ q.end = e
    BY <1>9, NewPiece DEF Kinds
  <2> PICK w : w = Append(m, q)
    OBVIOUS
  <2>2. Follows(t, a, m, q)
    BY <1>2, <1>3, <1>5, <1>6, <1>9, <1>12, <2>1 DEF Follows, HeaderLine, NextLine
  <2>3. EndOf(a, w) = e
    BY <2>1, AddedEnd
  <2>4. PhaseBehind(t, a, w) = (IF Chunked(t, a, w) THEN "size" ELSE "sized") /\ ~Whole(w)
    BY <2>1, PhaseAdded
  <2>5. Chunked(t, a, w) = Chunked(t, a, m)
    BY <2>1, ChunkedAdded
  <2>6. Length(t, a, w) = Length(t, a, m)
    BY <2>1, LengthAdded
  <2>7. BodyOf(t, a, w) = <<>>
    <3>1. BodyOf(t, a, m) \in Seq(STRING)
      BY <1>5
    <3> QED
      BY <1>5, <2>1, <3>1, NothingAdded
  <2>8. BodyKind(len) = IF hdr.chunked THEN "size" ELSE "sized"
    BY <1>12 DEF BodyKind
  <2>9. phase' = PhaseBehind(t, a, w) /\ phase' \in {"size", "sized"}
    BY <1>5, <1>12, <2>4, <2>5, <2>8
  <2>10. Holds(t, a, w)'
    BY <1>4, <1>5, <1>12, <2>3, <2>6, <2>7, <2>9 DEF Holds
  <2> QED
    BY <1>12, <2>2, <2>4, <2>10 DEF Takes
<1> QED
  BY <1>8, <1>11, <1>12

\* A body by Content-Length.
LEMMA SizedBodyAligned ==
    ASSUME HttpInv, NEW t, t = stream.text, NEW a \in Nat, NEW m \in Seq(Piece),
           Holds(t, a, m), ReadSizedBody
    PROVE  Completes(t, a, m) \/ Stops(t, a, m)
<1>1. /\ HttpTypeOK /\ t \in Seq(STRING) /\ pos \in Nat /\ n \in Nat
      /\ limit \in Nat /\ limit <= Len(t) /\ Len(t) \in Nat
  BY LenProperties DEF HttpInv, HttpTypeOK
<1>2. PICK p : p = EndOf(a, m)
  OBVIOUS
<1>3. /\ phase = "sized" /\ pos = p /\ LastKind(m) = "blank" /\ ~Chunked(t, a, m)
      /\ n = ParseInt(Length(t, a, m), 10) /\ BodyOf(t, a, m) = <<>>
  <2>1. phase = "sized"
    BY DEF ReadSizedBody, At
  <2>2. /\ pos = p /\ n = ParseInt(Length(t, a, m), 10) /\ BodyOf(t, a, m) = <<>>
    BY <1>2, <2>1 DEF Holds
  <2> QED
    BY <2>1, <2>2, PhaseTells
<1>4. CASE Available(pos, n) /\ Return(Text(pos + 1, pos + n), pos + n)
  <2>1. PICK e : e = pos + n
    OBVIOUS
  <2>2. e \in Nat /\ pos <= e /\ e <= Len(t)
    BY <1>1, <1>4, <2>1 DEF Available
  <2>3. PICK q \in Piece : q.kind = "sized" /\ q.end = e
    BY <2>2, NewPiece DEF Kinds
  <2>4. Follows(t, a, m, q)
    BY <1>1, <1>2, <1>3, <2>1, <2>2, <2>3 DEF Follows
  <2>5. Whole(Append(m, q))
    BY <2>3, PhaseAdded
  <2>6. BodyOf(t, a, Append(m, q)) = Part(t, pos, e)
    <3>1. Adds(t, EndOf(a, m), q) = Part(t, pos, e)
      BY <1>2, <1>3, <2>3 DEF Adds
    <3>2. BodyOf(t, a, Append(m, q)) = <<>> \o Part(t, pos, e)
      BY <1>3, <3>1, BodyAdded
    <3>3. Part(t, pos, e) \in Seq(STRING)
      BY <1>1, <2>2, PartIs
    <3> QED
      BY <3>2, <3>3, ConcatEmptySeq
  <2>7. Text(pos + 1, e) = Part(t, pos, e)
    BY DEF Text, Part
  <2>8. Return(BodyOf(t, a, Append(m, q)), q.end)
    BY <1>4, <2>1, <2>3, <2>6, <2>7
  <2> QED
    BY <2>4, <2>5, <2>8 DEF Completes
<1>5. CASE ~Available(pos, n) /\ Fail(Missing(pos))
  <2>1. ASSUME NEW q \in Piece, q.end <= limit, Follows(t, a, m, q) PROVE FALSE
    <3>1. q.kind = "sized"
      BY <1>3, <2>1, FollowsWhat
    <3>2. q.end = pos + n
      BY <1>2, <1>3, <2>1, <3>1, FollowsData
    <3> QED
      BY <1>5, <2>1, <3>2 DEF Available
  <2> QED
    BY <1>5, <2>1 DEF Stops
<1> QED
  BY <1>4, <1>5 DEF ReadSizedBody

\* The size of a chunk.
LEMMA ChunkSizeAligned ==
    ASSUME HttpInv, NEW t, t = stream.text, NEW a \in Nat, NEW m \in Seq(Piece),
           Holds(t, a, m), ReadChunkSize
    PROVE  Takes(t, a, m) \/ Stops(t, a, m)
<1>1. /\ HttpTypeOK /\ t \in Seq(STRING) /\ pos \in Nat /\ maxSizeLine \in Int
      /\ maxBodyBytes \in Nat /\ body \in Seq(STRING) /\ Len(body) \in Nat
      /\ Len(body) <= maxBodyBytes
  BY LimitsAssumption, LenProperties DEF HttpInv, HttpTypeOK, BodyBounded
<1>2. PICK p : p = EndOf(a, m)
  OBVIOUS
<1>3. /\ phase = "size" /\ pos = p /\ BodyOf(t, a, m) = body
      /\ LastKind(m) = "chunk" \/ (LastKind(m) = "blank" /\ Chunked(t, a, m))
  <2>1. phase = "size"
    BY DEF ReadChunkSize, At
  <2>2. pos = p /\ BodyOf(t, a, m) = body
    BY <1>2 DEF Holds
  <2> QED
    BY <2>1, <2>2, PhaseTells
<1>4. PICK e, size : e = pos + Len(Line) /\ size = ChunkSize(Line)
  OBVIOUS
<1>5. ASSUME NEW q \in Piece, Follows(t, a, m, q)
      PROVE  /\ IsLine(t, pos, q.end) /\ q.end - pos <= maxSizeLine
             /\ SizeLine(t, a, m, q)
  <2>1. q.kind \in {"size", "last"}
    BY <1>3, <1>5, FollowsWhat
  <2>2. SizeLine(t, a, m, q)
    BY <1>5, <2>1, FollowsLine
  <2> QED
    BY <1>2, <1>3, <2>2 DEF SizeLine
<1>6. CASE BadLine(maxSizeLine)
  BY <1>1, <1>2, <1>3, <1>5, <1>6, BadLineStops
<1>7. ASSUME LineOK(maxSizeLine)
      PROVE  /\ e \in Nat /\ e - pos <= maxSizeLine /\ IsLine(t, pos, e)
             /\ Line = Part(t, pos, e) /\ size \in Nat \cup {-1}
  <2>1. /\ e \in Nat /\ e - pos <= maxSizeLine /\ IsLine(t, pos, e)
        /\ Line = Part(t, pos, e) /\ Line \in Seq(STRING)
    BY <1>1, <1>4, <1>7, GoodLine
  <2>2. Len(Line) >= 2
    BY <1>7 DEF LineOK
  <2> QED
    BY <1>4, <2>1, <2>2, ChunkSizeType
<1>8. CASE /\ LineOK(maxSizeLine)
           /\ size < 0 \/ (size > 0 /\ TooLarge(size))
           /\ Fail("failed")
  <2>1. ASSUME NEW q \in Piece, q.end <= limit, Follows(t, a, m, q) PROVE FALSE
    <3>1. SizeLine(t, a, m, q) /\ IsLine(t, pos, q.end)
      BY <1>5, <2>1
    <3>2. q.end = e
      BY <1>1, <1>7, <1>8, <3>1, OneLine
    <3>3. ChunkSize(Part(t, EndOf(a, m), q.end)) = size
      BY <1>2, <1>3, <1>4, <1>7, <1>8, <3>2
    <3>4. size >= 0 /\ Len(body) + size <= maxBodyBytes
      BY <1>3, <3>1, <3>3 DEF SizeLine
    <3> QED
      BY <1>1, <1>7, <1>8, <3>4 DEF TooLarge
  <2> QED
    BY <1>8, <2>1 DEF Stops
<1>9. CASE /\ LineOK(maxSizeLine)
           /\ size >= 0 /\ (size > 0 => ~TooLarge(size))
           /\ n' = size
           /\ phase' = IF n' = 0 THEN "trailer" ELSE "chunk"
           /\ pos' = e
           /\ UNCHANGED <<stream, limit, hdr, body, returned, status>>
  <2>1. size \in Nat /\ Len(body) + size <= maxBodyBytes
    BY <1>1, <1>7, <1>9 DEF TooLarge
  <2>2. PICK q \in Piece : q.kind = (IF size = 0 THEN "last" ELSE "size") /\ q.end = e
    <3>1. (IF size = 0 THEN "last" ELSE "size") \in Kinds
      BY DEF Kinds
    <3> QED
      BY <1>7, <1>9, <3>1, NewPiece
  <2> PICK w : w = Append(m, q)
    OBVIOUS
  <2>3. ChunkSize(Part(t, EndOf(a, m), q.end)) = size
    BY <1>2, <1>3, <1>4, <1>7, <1>9, <2>2
  <2>4. q.kind \in {"size", "last"} /\ ((size = 0) <=> (q.kind = "last"))
    BY <2>1, <2>2
  <2>5. SizeLine(t, a, m, q)
    BY <1>2, <1>3, <1>7, <1>9, <2>1, <2>2, <2>3, <2>4 DEF SizeLine
  <2>6. Follows(t, a, m, q)
    BY <2>4, <2>5 DEF Follows
  <2>7. EndOf(a, w) = e
    BY <2>2, AddedEnd
  <2>8. PhaseBehind(t, a, w) = (IF size = 0 THEN "trailer" ELSE "chunk") /\ ~Whole(w)
    <3>1. CASE size = 0
      BY <2>2, <3>1, PhaseAdded
    <3>2. CASE size # 0
      BY <2>2, <3>2, PhaseAdded
    <3> QED
      BY <3>1, <3>2
  <2>9. BodyOf(t, a, w) = body
    <3>1. BodyOf(t, a, m) \in Seq(STRING)
      BY <1>1, <1>3
    <3> QED
      BY <1>3, <2>4, <3>1, NothingAdded
  <2>10. ChunkSize(Part(t, From(a, w, Len(w)), EndOf(a, w))) = size
    <3>1. Len(w) = Len(m) + 1 /\ From(a, w, Len(m) + 1) = EndOf(a, m)
      BY PieceAdded
    <3> QED
      BY <2>2, <2>3, <2>7, <3>1
  <2>11. phase' = PhaseBehind(t, a, w) /\ phase' \in {"trailer", "chunk"}
    BY <1>9, <2>8
  <2>12. Holds(t, a, w)'
    BY <1>9, <2>7, <2>9, <2>10, <2>11 DEF Holds
  <2> QED
    BY <1>9, <2>6, <2>8, <2>12 DEF Takes
<1> QED
  BY <1>4, <1>6, <1>8, <1>9 DEF ReadChunkSize

\* A chunk.
LEMMA ChunkAligned ==
    ASSUME HttpInv, NEW t, t = stream.text, NEW a \in Nat, NEW m \in Seq(Piece),
           Holds(t, a, m), ReadChunk
    PROVE  Takes(t, a, m) \/ Stops(t, a, m)
<1>1. /\ HttpTypeOK /\ t \in Seq(STRING) /\ pos \in Nat /\ n \in Nat
      /\ limit \in Nat /\ limit <= Len(t) /\ Len(t) \in Nat
  BY LenProperties DEF HttpInv, HttpTypeOK
<1>2. PICK p, e : p = EndOf(a, m) /\ e = pos + n + 2
  OBVIOUS
<1>3. /\ phase = "chunk" /\ pos = p /\ LastKind(m) = "size" /\ BodyOf(t, a, m) = body
      /\ n = ChunkSize(Part(t, From(a, m, Len(m)), p))
  <2>1. phase = "chunk"
    BY DEF ReadChunk, At
  <2>2. /\ pos = p /\ BodyOf(t, a, m) = body
        /\ n = ChunkSize(Part(t, From(a, m, Len(m)), p))
    BY <1>2, <2>1 DEF Holds
  <2> QED
    BY <2>1, <2>2, PhaseTells
<1>4. ASSUME NEW q \in Piece, q.end <= limit, Follows(t, a, m, q)
      PROVE  q.end = e /\ t[e - 1] = "R" /\ t[e] = "N" /\ e <= limit
  <2>1. q.kind = "chunk"
    BY <1>3, <1>4, FollowsWhat
  <2>2. q.end = p + ChunkSize(Part(t, From(a, m, Len(m)), p)) + 2
        /\ t[q.end - 1] = "R" /\ t[q.end] = "N"
    BY <1>2, <1>4, <2>1, FollowsData
  <2>3. q.end = p + n + 2 /\ p + n + 2 = e
    BY <1>2, <1>3, <2>2
  <2> QED
    BY <1>4, <2>2, <2>3
<1>5. /\ Available(pos, n) \/ ~(e <= limit)
      /\ Available(pos + n, 2) \/ ~(e <= limit)
      /\ Available(pos, n + 2) => e \in Nat /\ e <= limit
  BY <1>1, <1>2 DEF Available
<1>6. ASSUME Available(pos, n + 2)
      PROVE  Blank(Text(pos + n + 1, pos + n + 2)) <=> (t[e - 1] = "R" /\ t[e] = "N")
  <2>1. PICK d \in Nat : d = pos + n /\ e = d + 2 /\ e - 1 = d + 1 /\ d <= e /\ e <= Len(t)
    BY <1>1, <1>2, <1>5, <1>6
  <2>2. /\ Part(t, d, e) \in Seq(STRING) /\ Len(Part(t, d, e)) = e - d
        /\ \A i \in 1..e - d : Part(t, d, e)[i] = t[d + i]
    <3>1. e \in Nat
      BY <1>5, <1>6
    <3>2. t \in Seq(STRING) /\ d <= e /\ e <= Len(t)
      BY <1>1, <2>1
    <3> QED
      BY <3>1, <3>2, PartIs
  <2>3. Text(pos + n + 1, pos + n + 2) = Part(t, d, e)
    BY <1>2, <2>1 DEF Text, Part
  <2>4. Len(Part(t, d, e)) = 2 /\ Part(t, d, e)[1] = t[e - 1] /\ Part(t, d, e)[2] = t[e]
    <3>1. e - d = 2 /\ 1 \in 1..2 /\ 2 \in 1..2
      BY <2>1
    <3>2. Part(t, d, e)[1] = t[d + 1] /\ Part(t, d, e)[2] = t[d + 2]
      BY <2>2, <3>1
    <3> QED
      BY <2>1, <2>2, <3>1, <3>2
  <2>5. Part(t, d, e) = <<t[e - 1], t[e]>>
    BY <2>2, <2>4
  <2> QED
    BY <2>3, <2>5 DEF Blank
<1>7. CASE \/ ~Available(pos, n) /\ Fail(Missing(pos))
           \/ ~Available(pos + n, 2) /\ Fail(Missing(pos + n))
           \/ /\ Available(pos, n + 2)
              /\ ~Blank(Text(pos + n + 1, pos + n + 2))
              /\ Fail("failed")
  BY <1>4, <1>5, <1>6, <1>7 DEF Stops
<1>8. CASE /\ Available(pos, n + 2)
           /\ Blank(Text(pos + n + 1, pos + n + 2))
           /\ body' = body \o Text(pos + 1, pos + n)
           /\ pos' = pos + n + 2
           /\ phase' = "size"
           /\ n' = 0
           /\ UNCHANGED <<stream, limit, hdr, returned, status>>
  <2>1. /\ e \in Nat /\ e <= limit /\ e <= Len(t) /\ e \in pos + 2..Len(t)
        /\ t[e - 1] = "R" /\ t[e] = "N"
    BY <1>1, <1>2, <1>5, <1>6, <1>8
  <2>2. PICK q \in Piece : q.kind = "chunk" /\ q.end = e
    BY <2>1, NewPiece DEF Kinds
  <2> PICK w : w = Append(m, q)
    OBVIOUS
  <2>3. Follows(t, a, m, q)
    BY <1>2, <1>3, <2>1, <2>2 DEF Follows
  <2>4. EndOf(a, w) = e
    BY <2>2, AddedEnd
  <2>5. PhaseBehind(t, a, w) = "size" /\ ~Whole(w)
    BY <2>2, PhaseAdded
  <2>6. BodyOf(t, a, w) = body \o Text(pos + 1, pos + n)
    <3>1. Adds(t, EndOf(a, m), q) = Part(t, pos, e - 2)
      BY <1>2, <1>3, <2>2 DEF Adds
    <3>2. e - 2 = pos + n
      BY <1>1, <1>2
    <3>3. Part(t, pos, e - 2) = Text(pos + 1, pos + n)
      BY <3>2 DEF Part, Text
    <3>4. BodyOf(t, a, w) = BodyOf(t, a, m) \o Adds(t, EndOf(a, m), q)
      BY BodyAdded
    <3> QED
      BY <1>3, <3>1, <3>3, <3>4
  <2>7. Holds(t, a, w)'
    BY <1>2, <1>8, <2>4, <2>5, <2>6 DEF Holds
  <2> QED
    BY <1>8, <2>3, <2>5, <2>7 DEF Takes
<1> QED
  BY <1>7, <1>8 DEF ReadChunk

\* The trailer.
LEMMA TrailerAligned ==
    ASSUME HttpInv, NEW t, t = stream.text, NEW a \in Nat, NEW m \in Seq(Piece),
           Holds(t, a, m), ReadTrailer
    PROVE  Takes(t, a, m) \/ Completes(t, a, m) \/ Stops(t, a, m)
<1>1. /\ HttpTypeOK /\ t \in Seq(STRING) /\ pos \in Nat /\ maxTrailer \in Int
      /\ body \in Seq(STRING)
  BY LimitsAssumption DEF HttpInv, HttpTypeOK
<1>2. PICK p : p = EndOf(a, m)
  OBVIOUS
<1>3. /\ phase = "trailer" /\ pos = p /\ LastKind(m) \in {"last", "trailer"}
      /\ BodyOf(t, a, m) = body /\ BodyOf(t, a, m) \in Seq(STRING)
  <2>1. phase = "trailer"
    BY DEF ReadTrailer, At
  <2>2. pos = p /\ BodyOf(t, a, m) = body
    BY <1>2 DEF Holds
  <2> QED
    BY <1>1, <2>1, <2>2, PhaseTells
<1>4. PICK e : e = pos + Len(Line)
  OBVIOUS
<1>5. ASSUME NEW q \in Piece, Follows(t, a, m, q)
      PROVE  IsLine(t, pos, q.end) /\ q.end - pos <= maxTrailer
  <2>1. q.kind \in {"trailer", "close"}
    BY <1>3, <1>5, FollowsWhat
  <2> QED
    BY <1>2, <1>3, <1>5, <2>1, FollowsLine
<1>6. CASE BadLine(maxTrailer)
  BY <1>1, <1>2, <1>3, <1>5, <1>6, BadLineStops
<1>7. ASSUME LineOK(maxTrailer)
      PROVE  /\ e \in Nat /\ e - pos <= maxTrailer /\ IsLine(t, pos, e)
             /\ Blank(Line) <=> e = pos + 2
  BY <1>1, <1>4, <1>7, GoodLine
<1>8. CASE LineOK(maxTrailer) /\ Blank(Line) /\ Return(body, e)
  <2>1. PICK q \in Piece : q.kind = "close" /\ q.end = e
    BY <1>7, <1>8, NewPiece DEF Kinds
  <2>2. Follows(t, a, m, q)
    BY <1>2, <1>3, <1>7, <1>8, <2>1 DEF Follows, TrailerLine, NextLine
  <2>3. BodyOf(t, a, Append(m, q)) = body
    BY <1>3, <2>1, NothingAdded
  <2>4. Whole(Append(m, q))
    BY <2>1, PhaseAdded
  <2> QED
    BY <1>8, <2>1, <2>2, <2>3, <2>4 DEF Completes
<1>9. CASE /\ LineOK(maxTrailer) /\ ~Blank(Line)
           /\ pos' = e
           /\ UNCHANGED <<stream, limit, callVars, returned, status>>
  <2>1. PICK q \in Piece : q.kind = "trailer" /\ q.end = e
    BY <1>7, <1>9, NewPiece DEF Kinds
  <2> PICK w : w = Append(m, q)
    OBVIOUS
  <2>2. Follows(t, a, m, q)
    BY <1>2, <1>3, <1>7, <1>9, <2>1 DEF Follows, TrailerLine, NextLine
  <2>3. EndOf(a, w) = e
    BY <2>1, AddedEnd
  <2>4. PhaseBehind(t, a, w) = "trailer" /\ ~Whole(w)
    BY <2>1, PhaseAdded
  <2>5. BodyOf(t, a, w) = body
    BY <1>3, <2>1, NothingAdded
  <2>6. Holds(t, a, w)'
    BY <1>3, <1>9, <2>3, <2>4, <2>5 DEF Holds, callVars
  <2> QED
    BY <1>9, <2>2, <2>4, <2>6 DEF Takes
<1> QED
  BY <1>4, <1>6, <1>8, <1>9 DEF ReadTrailer

-----------------------------------------------------------------------------
(***************************************************************************)
(* The reader stays in step.                                               *)
(***************************************************************************)
LEMMA HttpStepAligned ==
    ASSUME HttpInv, NEW t, t = stream.text, NEW a \in Nat, NEW m \in Seq(Piece),
           Holds(t, a, m), HttpNext
    PROVE  status = "run" /\ (Takes(t, a, m) \/ Completes(t, a, m) \/ Stops(t, a, m))
<1>1. status = "run"
  BY DEF HttpNext, ReadRequestLine, ReadHeader, EndHeader, ReadSizedBody, ReadChunkSize,
         ReadChunk, ReadTrailer, At
<1>2. CASE ReadRequestLine
  BY <1>1, <1>2, RequestLineAligned
<1>3. CASE ReadHeader
  BY <1>1, <1>3, HeaderAligned
<1>4. CASE EndHeader
  BY <1>1, <1>4, EndHeaderAligned
<1>5. CASE ReadSizedBody
  BY <1>1, <1>5, SizedBodyAligned
<1>6. CASE ReadChunkSize
  BY <1>1, <1>6, ChunkSizeAligned
<1>7. CASE ReadChunk
  BY <1>1, <1>7, ChunkAligned
<1>8. CASE ReadTrailer
  BY <1>1, <1>8, TrailerAligned
<1> QED
  BY <1>2, <1>3, <1>4, <1>5, <1>6, <1>7, <1>8 DEF HttpNext

\* At the start of a request.
LEMMA Fresh ==
    ASSUME NEW t, NEW a \in Nat, NEW r \in Seq(Piece)
    PROVE  /\ 0 \in 0..Len(r) /\ SubSeq(r, 1, 0) = <<>> /\ ~Whole(<<>>)
           /\ EndOf(a, <<>>) = a /\ BodyOf(t, a, <<>>) = <<>>
           /\ PhaseBehind(t, a, <<>>) = "request" /\ HeaderOf(t, a, <<>>) = NoHeader
<1>1. Len(r) \in Nat /\ SubSeq(r, 1, 0) = <<>>
  BY AllPieces
<1>2. /\ EndOf(a, <<>>) = a /\ LastKind(<<>>) = "none" /\ Chunked(t, a, <<>>) = FALSE
      /\ Length(t, a, <<>>) = <<>> /\ BodyOf(t, a, <<>>) = <<>>
  BY NoPieces
<1>3. PhaseBehind(t, a, <<>>) = "request"
  BY <1>2 DEF PhaseBehind
<1>4. HeaderOf(t, a, <<>>) = NoHeader
  <2>1. a - a = 0
    OBVIOUS
  <2> QED
    BY <1>2, <2>1 DEF HeaderOf, NoHeader
<1>5. ~Whole(<<>>)
  BY <1>2 DEF Whole
<1> QED
  BY <1>1, <1>2, <1>3, <1>4, <1>5

\* The reader is in step when it starts.
LEMMA AlignInit == HttpInit => AlignInv
<1> SUFFICES ASSUME HttpInit PROVE AlignInv
  OBVIOUS
<1>1. HttpTypeOK
  BY HttpInvInit DEF HttpInv
<1>2. /\ stream \in Streams /\ returned = <<>> /\ pos = 0 /\ phase = "request"
      /\ hdr = NoHeader /\ body = <<>> /\ status = "run" /\ DOMAIN returned = {}
      /\ Len(returned) = 0
  BY DEF HttpInit
<1>3. IsStream(stream)
  BY <1>2, HttpAssumption
<1>4. Len(stream.requests) \in Nat
  BY <1>3, LenProperties DEF IsStream
<1>5. Len(returned) <= Len(stream.requests)
  BY <1>2, <1>4
<1>6. PICK t, a, r : t = stream.text /\ a = Here /\ r = Upcoming
  OBVIOUS
<1>7. a \in Nat /\ r \in Seq(Piece)
  BY <1>1, <1>2, <1>5, <1>6, UpcomingIs
<1>8. a = 0
  BY <1>2, <1>6 DEF Here, Start
<1>9. Holds(t, a, <<>>) /\ StopsAt(t, a, <<>>)
  <2>1. /\ EndOf(a, <<>>) = a /\ BodyOf(t, a, <<>>) = <<>>
        /\ PhaseBehind(t, a, <<>>) = "request" /\ HeaderOf(t, a, <<>>) = NoHeader
    BY <1>7, Fresh
  <2> QED
    BY <1>2, <1>8, <2>1 DEF Holds, StopsAt
<1>10. Aligned(t, a, r)
  BY <1>7, <1>9, Fresh DEF Aligned
<1> QED
  BY <1>2, <1>5, <1>6, <1>10 DEF AlignInv

\* A piece is taken.
LEMMA TakesKeeps ==
    ASSUME HttpTypeOK, AlignInv, status = "run", NEW t, NEW a \in Nat, NEW r \in Seq(Piece),
           t = stream.text, a = Here, r = Upcoming,
           NEW i \in 0..Len(r), Holds(t, a, SubSeq(r, 1, i)), Takes(t, a, SubSeq(r, 1, i))
    PROVE  AlignInv'
<1>1. /\ stream \in Streams /\ Len(returned) <= Len(stream.requests)
      /\ \A k \in DOMAIN returned :
            /\ returned[k] = BodyOf(stream.text, Start(stream, k), stream.requests[k])
            /\ EndOf(0, stream.requests[k]) <= pos
  BY DEF AlignInv
<1>2. PICK m \in Seq(Piece) : m = SubSeq(r, 1, i)
  BY FirstPieces
<1>3. PICK q \in Piece : /\ Follows(t, a, m, q) /\ ~Whole(Append(m, q))
                         /\ Holds(t, a, Append(m, q))'
                         /\ UNCHANGED <<stream, limit, returned, status>>
  BY <1>2 DEF Takes
<1>4. i + 1 \in 1..Len(r) /\ SubSeq(r, 1, i + 1) = Append(m, q)
  BY <1>1, <1>2, <1>3, NextPiece
<1>5. Aligned(t, a, r)'
  <2>1. i + 1 \in 0..Len(r)
    BY <1>4, LenProperties
  <2>2. StopsAt(t, a, SubSeq(r, 1, i + 1))'
    BY <1>3 DEF StopsAt
  <2> QED
    BY <1>3, <1>4, <2>1, <2>2 DEF Aligned
<1>6. stream.text' = t /\ Here' = a /\ Upcoming' = r
  BY <1>3 DEF Here, Upcoming
<1>7. Aligned(stream.text, Here, Upcoming)'
  BY <1>5, <1>6
<1>8. pos <= pos' /\ pos \in Nat /\ pos' \in Nat
  <2>1. t \in Seq(STRING) /\ pos = EndOf(a, m) /\ pos \in Nat
    BY <1>2 DEF HttpTypeOK, Holds
  <2>2. pos' = q.end
    BY <1>3, AddedEnd DEF Holds
  <2> QED
    BY <1>3, <2>1, <2>2, FollowsForward
<1>9. \A k \in DOMAIN returned : EndOf(0, stream.requests[k]) <= pos'
  <2>1. ASSUME NEW k \in DOMAIN returned PROVE EndOf(0, stream.requests[k]) <= pos'
    <3>1. k \in DOMAIN stream.requests
      <4>1. /\ DOMAIN returned = 1..Len(returned)
            /\ DOMAIN stream.requests = 1..Len(stream.requests)
            /\ Len(returned) \in Nat /\ Len(stream.requests) \in Nat
        BY <1>1, HttpAssumption, LenProperties DEF HttpTypeOK, IsStream
      <4> QED
        BY <1>1, <4>1
    <3>2. EndOf(0, stream.requests[k]) \in Nat /\ EndOf(0, stream.requests[k]) <= pos
      BY <1>1, <3>1, StartNext
    <3> QED
      BY <1>8, <3>2
  <2> QED
    BY <2>1
<1> QED
  BY <1>1, <1>3, <1>7, <1>9 DEF AlignInv

\* The domains of the two sequences.
LEMMA BothDomains ==
    ASSUME HttpTypeOK, stream \in Streams
    PROVE  /\ Len(returned) \in Nat /\ Len(stream.requests) \in Nat
           /\ DOMAIN returned = 1..Len(returned)
           /\ DOMAIN stream.requests = 1..Len(stream.requests)
BY HttpAssumption, LenProperties DEF HttpTypeOK, IsStream

\* The request is complete: what is returned is its body, and the reader
\* stands where the next one begins.
LEMMA CompletesKeeps ==
    ASSUME HttpTypeOK, AlignInv, status = "run", NEW t, NEW a \in Nat, NEW r \in Seq(Piece),
           t = stream.text, a = Here, r = Upcoming,
           NEW i \in 0..Len(r), Holds(t, a, SubSeq(r, 1, i)), Completes(t, a, SubSeq(r, 1, i))
    PROVE  AlignInv'
<1>1. /\ stream \in Streams /\ Len(returned) <= Len(stream.requests)
      /\ \A k \in DOMAIN returned :
            /\ returned[k] = BodyOf(stream.text, Start(stream, k), stream.requests[k])
            /\ EndOf(0, stream.requests[k]) <= pos
  BY DEF AlignInv
<1>2. PICK m \in Seq(Piece) : m = SubSeq(r, 1, i)
  BY FirstPieces
<1>3. PICK q \in Piece : /\ Follows(t, a, m, q) /\ Whole(Append(m, q))
                         /\ Return(BodyOf(t, a, Append(m, q)), q.end)
  BY <1>2 DEF Completes
<1>4. i + 1 \in 1..Len(r) /\ SubSeq(r, 1, i + 1) = Append(m, q)
  BY <1>1, <1>2, <1>3, NextPiece
<1>5. /\ t \in Seq(STRING) /\ Reading(t, a, r)
      /\ Whole(r) => Len(returned) + 1 \in DOMAIN stream.requests
      /\ Whole(r) => r = stream.requests[Len(returned) + 1]
      /\ a = Start(stream, Len(returned) + 1)
  BY <1>1, UpcomingIs
<1>6. i + 1 = Len(r)
  <2>1. SUFFICES ASSUME i + 1 # Len(r) PROVE FALSE
    OBVIOUS
  <2>2. PICK j \in Nat : j = i + 1 /\ j + 1 \in 1..Len(r)
    BY <1>4, <2>1, LenProperties
  <2>3. /\ Follows(t, a, SubSeq(r, 1, j), r[j + 1]) /\ SubSeq(r, 1, j) \in Seq(Piece)
        /\ r[j + 1] \in Piece
    BY <1>5, <2>2, ReadingNext
  <2>4. ~Whole(SubSeq(r, 1, j))
    BY <2>3, FollowsWhat
  <2> QED
    BY <1>3, <1>4, <2>2, <2>4
<1>7. Append(m, q) = r /\ Whole(r)
  BY <1>3, <1>4, <1>6, AllPieces
<1>8. PICK k \in Nat : k = Len(returned) + 1
  BY <1>1, BothDomains
<1>9. k \in DOMAIN stream.requests /\ r = stream.requests[k] /\ a = Start(stream, k)
  BY <1>5, <1>7, <1>8
<1>10. /\ returned' = Append(returned, BodyOf(t, a, r)) /\ pos' = q.end
       /\ phase' = "request" /\ hdr' = NoHeader /\ body' = <<>>
       /\ stream' = stream /\ limit' = limit /\ status' = "run"
  BY <1>3, <1>7 DEF Return
<1>11. /\ Len(returned') = k /\ DOMAIN (returned') = 1..k
       /\ \A j \in 1..k : j # k => j \in DOMAIN returned /\ returned'[j] = returned[j]
       /\ returned'[k] = BodyOf(t, a, r)
  <2>1. returned \in Seq(Seq(STRING))
    BY DEF HttpTypeOK
  <2>2. /\ Len(returned) \in Nat /\ DOMAIN returned = 1..Len(returned)
        /\ DOMAIN stream.requests = 1..Len(stream.requests)
    BY <1>1, BothDomains
  <2>3. /\ Len(returned') = Len(returned) + 1 /\ DOMAIN (returned') = 1..Len(returned) + 1
        /\ \A j \in 1..Len(returned) : returned'[j] = returned[j]
        /\ returned'[Len(returned) + 1] = BodyOf(t, a, r)
    BY <1>10, <2>1
  <2>4. \A j \in 1..k : j # k => j \in 1..Len(returned)
    BY <1>8, <2>2
  <2> QED
    BY <1>8, <2>2, <2>3, <2>4
<1>12. pos <= pos' /\ pos \in Nat /\ pos' \in Nat /\ pos' = EndOf(0, r)
  <2>1. pos = EndOf(a, m) /\ pos \in Nat
    BY <1>2 DEF HttpTypeOK, Holds
  <2>2. pos <= q.end /\ q.end \in Nat
    BY <1>3, <1>5, <2>1, FollowsForward
  <2>3. q.end = EndOf(a, r)
    <3>1. EndOf(a, Append(m, q)) = q.end
      BY AddedEnd
    <3> QED
      BY <1>7, <3>1
  <2>4. EndOf(a, r) = EndOf(0, r)
    BY <1>1, <1>9, StartNext
  <2> QED
    BY <1>10, <2>1, <2>2, <2>3, <2>4
<1>13. Start(stream, k + 1) = EndOf(0, r)
  BY <1>1, <1>9, StartNext
<1>14. Len(returned') <= Len(stream.requests)
  BY <1>1, <1>9, <1>11, BothDomains
<1>15. ASSUME NEW j \in DOMAIN (returned')
       PROVE  /\ returned'[j] = BodyOf(t, Start(stream, j), stream.requests[j])
              /\ EndOf(0, stream.requests[j]) <= pos'
  <2>1. CASE j = k
    BY <1>9, <1>11, <1>12, <2>1
  <2>2. CASE j # k
    <3>1. j \in DOMAIN returned /\ returned'[j] = returned[j]
      BY <1>11, <2>2
    <3>2. returned[j] = BodyOf(t, Start(stream, j), stream.requests[j])
      BY <1>1, <3>1
    <3>3. j \in DOMAIN stream.requests
      BY <1>1, <3>1, BothDomains
    <3>4. EndOf(0, stream.requests[j]) \in Nat /\ EndOf(0, stream.requests[j]) <= pos
      BY <1>1, <3>1, <3>3, StartNext
    <3> QED
      BY <1>12, <3>1, <3>2, <3>4
  <2> QED
    BY <2>1, <2>2
<1>16. PICK a2 \in Nat, r2 \in Seq(Piece) : a2 = Here' /\ r2 = Upcoming'
  <2>1. Here' \in Nat
    <3>1. Here' = Start(stream, k + 1)
      BY <1>10, <1>11 DEF Here
    <3> QED
      BY <1>12, <1>13, <3>1
  <2>2. Upcoming' \in Seq(Piece)
    <3>1. Upcoming' = IF k + 1 \in DOMAIN stream.requests THEN stream.requests[k + 1]
                      ELSE stream.rest
      BY <1>10, <1>11 DEF Upcoming
    <3>2. k + 1 \in DOMAIN stream.requests => stream.requests[k + 1] \in Seq(Piece)
      BY <1>1, StartNext
    <3>3. stream.rest \in Seq(Piece)
      BY <1>1, HttpAssumption DEF IsStream, Reading
    <3> QED
      BY <3>1, <3>2, <3>3
  <2> QED
    BY <2>1, <2>2
<1>17. pos' = a2
  BY <1>10, <1>11, <1>12, <1>13, <1>16 DEF Here
<1>18. Aligned(t, a2, r2)'
  <2>1. /\ 0 \in 0..Len(r2) /\ SubSeq(r2, 1, 0) = <<>> /\ ~Whole(<<>>)
        /\ EndOf(a2, <<>>) = a2 /\ BodyOf(t, a2, <<>>) = <<>>
        /\ PhaseBehind(t, a2, <<>>) = "request" /\ HeaderOf(t, a2, <<>>) = NoHeader
    BY Fresh
  <2>2. Holds(t, a2, <<>>)'
    BY <1>10, <1>17, <2>1 DEF Holds
  <2>3. StopsAt(t, a2, <<>>)'
    BY <1>10 DEF StopsAt
  <2> QED
    BY <2>1, <2>2, <2>3 DEF Aligned
<1>19. Aligned(stream.text, Here, Upcoming)'
  <2>1. stream.text' = t
    BY <1>10
  <2> QED
    BY <1>16, <1>18, <2>1
<1>20. \A j \in DOMAIN (returned') :
          /\ returned'[j] = BodyOf(stream'.text, Start(stream', j), stream'.requests[j])
          /\ EndOf(0, stream'.requests[j]) <= pos'
  BY <1>10, <1>15
<1> QED
  BY <1>1, <1>10, <1>14, <1>19, <1>20 DEF AlignInv

\* The call fails.
LEMMA StopsKeeps ==
    ASSUME HttpTypeOK, AlignInv, NEW t, NEW a \in Nat, NEW r \in Seq(Piece),
           t = stream.text, a = Here, r = Upcoming,
           NEW i \in 0..Len(r), Holds(t, a, SubSeq(r, 1, i)), ~Whole(SubSeq(r, 1, i)),
           Stops(t, a, SubSeq(r, 1, i))
    PROVE  AlignInv'
<1>1. PICK m \in Seq(Piece) : m = SubSeq(r, 1, i)
  BY FirstPieces
<1>2. UNCHANGED <<stream, limit, pos, callVars, returned>>
  BY DEF Stops, Fail
<1>3. StopsAt(t, a, m)'
  BY <1>1, <1>2 DEF Stops, StopsAt
<1>4. Holds(t, a, m)'
  BY <1>1, <1>2 DEF Holds, callVars
<1>5. Aligned(t, a, r)'
  BY <1>1, <1>3, <1>4 DEF Aligned
<1>6. stream.text' = t /\ Here' = a /\ Upcoming' = r
  BY <1>2 DEF Here, Upcoming
<1>7. Aligned(stream.text, Here, Upcoming)'
  BY <1>5, <1>6
<1> QED
  BY <1>2, <1>7 DEF AlignInv

\* Every step of the adapter leaves it in step.
LEMMA AlignStep == HttpInv /\ AlignInv /\ [HttpNext]_httpVars => AlignInv'
<1> SUFFICES ASSUME HttpInv, AlignInv, [HttpNext]_httpVars
             PROVE  AlignInv'
  OBVIOUS
<1>1. HttpTypeOK
  BY DEF HttpInv
<1>2. PICK t, a, r : t = stream.text /\ a = Here /\ r = Upcoming
  OBVIOUS
<1>3. a \in Nat /\ r \in Seq(Piece)
  BY <1>1, <1>2, UpcomingIs DEF AlignInv
<1>4. PICK i \in 0..Len(r) : /\ Holds(t, a, SubSeq(r, 1, i)) /\ ~Whole(SubSeq(r, 1, i))
                             /\ StopsAt(t, a, SubSeq(r, 1, i))
  BY <1>2 DEF AlignInv, Aligned
<1>5. SubSeq(r, 1, i) \in Seq(Piece)
  BY <1>3, FirstPieces
<1>6. CASE HttpNext
  <2>1. /\ status = "run"
        /\ \/ Takes(t, a, SubSeq(r, 1, i)) \/ Completes(t, a, SubSeq(r, 1, i))
           \/ Stops(t, a, SubSeq(r, 1, i))
    BY <1>2, <1>3, <1>4, <1>5, <1>6, HttpStepAligned
  <2>2. CASE Takes(t, a, SubSeq(r, 1, i))
    BY <1>1, <1>2, <1>3, <1>4, <2>1, <2>2, TakesKeeps
  <2>3. CASE Completes(t, a, SubSeq(r, 1, i))
    BY <1>1, <1>2, <1>3, <1>4, <2>1, <2>3, CompletesKeeps
  <2>4. CASE Stops(t, a, SubSeq(r, 1, i))
    BY <1>1, <1>2, <1>3, <1>4, <2>4, StopsKeeps
  <2> QED
    BY <2>1, <2>2, <2>3, <2>4
<1>7. CASE UNCHANGED httpVars
  <2>1. UNCHANGED <<stream, limit, pos, callVars, returned, status>>
    BY <1>7 DEF httpVars
  <2>2. StopsAt(t, a, SubSeq(r, 1, i))' /\ Holds(t, a, SubSeq(r, 1, i))'
    BY <1>4, <2>1 DEF StopsAt, Holds, callVars
  <2>3. Aligned(t, a, r)'
    BY <1>4, <2>2 DEF Aligned
  <2>4. stream.text' = t /\ Here' = a /\ Upcoming' = r
    BY <1>2, <2>1 DEF Here, Upcoming
  <2>5. Aligned(stream.text, Here, Upcoming)'
    BY <2>3, <2>4
  <2> QED
    BY <2>1, <2>5 DEF AlignInv
<1> QED
  BY <1>6, <1>7

-----------------------------------------------------------------------------
\* What the alignment says of the bodies that were returned.
LEMMA AlignedInStep == HttpInv /\ AlignInv => InStep
<1> SUFFICES ASSUME HttpInv, AlignInv PROVE InStep
  OBVIOUS
<1>1. ASSUME phase = "request" PROVE pos = Here
  <2>1. PICK t, a, r : t = stream.text /\ a = Here /\ r = Upcoming
    OBVIOUS
  <2>2. PICK m : Holds(t, a, m)
    BY <2>1 DEF AlignInv, Aligned
  <2>3. m = <<>>
    BY <1>1, <2>2, PhaseTells
  <2>4. pos = EndOf(a, <<>>)
    BY <2>2, <2>3 DEF Holds
  <2> QED
    BY <2>1, <2>4 DEF EndOf
<1> QED
  BY <1>1 DEF AlignInv, InStep, Here

\* What it says of the requests when the reader has stopped.
LEMMA AlignedAllOrNothing == HttpInv /\ AlignInv => AllOrNothing
<1> SUFFICES ASSUME HttpInv, AlignInv, status # "run", NEW k \in DOMAIN stream.requests
             PROVE  k <= Len(returned) <=> EndOf(0, stream.requests[k]) <= limit
  BY DEF AllOrNothing
<1>1. HttpTypeOK /\ stream \in Streams /\ Len(returned) <= Len(stream.requests)
  BY DEF HttpInv, AlignInv
<1>2. /\ Len(returned) \in Nat /\ Len(stream.requests) \in Nat
      /\ DOMAIN returned = 1..Len(returned)
      /\ DOMAIN stream.requests = 1..Len(stream.requests)
      /\ pos \in Nat /\ limit \in Nat /\ pos <= limit
      /\ EndOf(0, stream.requests[k]) \in Nat
  <2>1. EndOf(0, stream.requests[k]) \in Nat
    BY <1>1, StartNext
  <2>2. pos \in Nat /\ limit \in Nat /\ pos <= limit
    BY <1>1 DEF HttpTypeOK
  <2> QED
    BY <1>1, <2>1, <2>2, BothDomains
<1>3. ASSUME k <= Len(returned) PROVE EndOf(0, stream.requests[k]) <= limit
  <2>1. k \in DOMAIN returned
    BY <1>2, <1>3
  <2>2. EndOf(0, stream.requests[k]) <= pos
    BY <2>1 DEF AlignInv
  <2> QED
    BY <1>2, <2>2
<1>4. ASSUME ~(k <= Len(returned)) PROVE ~(EndOf(0, stream.requests[k]) <= limit)
  <2>1. PICK j \in Nat : j = Len(returned) + 1 /\ j \in DOMAIN stream.requests /\ j <= k
    BY <1>2, <1>4
  <2>2. PICK t, a, r : t = stream.text /\ a = Here /\ r = Upcoming
    OBVIOUS
  <2>3. /\ t \in Seq(STRING) /\ a \in Nat /\ Reading(t, a, r) /\ r \in Seq(Piece)
        /\ Whole(r) /\ r = stream.requests[j] /\ a = Start(stream, j)
    BY <1>1, <2>1, <2>2, UpcomingIs
  <2>4. PICK i \in 0..Len(r) : ~Whole(SubSeq(r, 1, i)) /\ StopsAt(t, a, SubSeq(r, 1, i))
    BY <2>2 DEF AlignInv, Aligned
  <2>5. i \in Nat /\ i + 1 \in 1..Len(r)
    <3>1. SubSeq(r, 1, Len(r)) = r /\ Len(r) \in Nat
      BY <2>3, AllPieces
    <3>2. i # Len(r)
      BY <2>3, <2>4, <3>1
    <3>3. \A l \in Nat : i \in 0..l /\ i # l => i \in Nat /\ i + 1 \in 1..l
      OBVIOUS
    <3> QED
      BY <3>1, <3>2, <3>3, Zenon
  <2>6. /\ Follows(t, a, SubSeq(r, 1, i), r[i + 1]) /\ r[i + 1] \in Piece
        /\ r[i + 1].end \in Nat
    BY <2>3, <2>5, ReadingNext
  <2>7. ~(r[i + 1].end <= limit)
    BY <2>4, <2>6 DEF StopsAt
  <2>8. r[i + 1].end <= EndOf(a, r) /\ EndOf(a, r) \in Nat
    BY <2>3, <2>5, ReadingForward
  <2>9. EndOf(a, r) = EndOf(0, stream.requests[j])
    BY <1>1, <2>1, <2>3, StartNext
  <2>10. EndOf(0, stream.requests[j]) <= EndOf(0, stream.requests[k])
    BY <1>1, <2>1, EndsOrdered
  <2> QED
    BY <1>2, <2>6, <2>7, <2>8, <2>9, <2>10
<1> QED
  BY <1>3, <1>4

(***************************************************************************)
(* The bodies that are returned are those of the requests in the stream,   *)
(* one after the other, and between two calls the reader stands where the  *)
(* next request begins: for all texts of the requests, all encodings, all  *)
(* numbers of requests and wherever the connection ends.                   *)
(***************************************************************************)
THEOREM InStepAlways == HttpSpec => []InStep
<1>1. HttpInv /\ AlignInv /\ [HttpNext]_httpVars => (HttpInv /\ AlignInv)'
  BY HttpInvStep, AlignStep
<1> QED
  BY <1>1, HttpInvInit, AlignInit, AlignedInStep, PTL DEF HttpSpec

(***************************************************************************)
(* When the encoder stops it has been given every request that arrived     *)
(* whole and nothing of the one behind them: where the code fails, no      *)
(* piece of a request follows that has arrived.                            *)
(***************************************************************************)
THEOREM AllOrNothingAlways == HttpSpec => []AllOrNothing
<1>1. HttpInv /\ AlignInv /\ [HttpNext]_httpVars => (HttpInv /\ AlignInv)'
  BY HttpInvStep, AlignStep
<1> QED
  BY <1>1, HttpInvInit, AlignInit, AlignedAllOrNothing, PTL DEF HttpSpec

-----------------------------------------------------------------------------
(***************************************************************************)
(* Every text is the text of a stream.                                     *)
(***************************************************************************)
LEMMA ReadingAdded ==
    ASSUME NEW t, NEW a \in Nat, NEW m, Reading(t, a, m), NEW q \in Piece, Follows(t, a, m, q)
    PROVE  Reading(t, a, Append(m, q))
<1>1. PICK w : w = Append(m, q)
  OBVIOUS
<1>2. m \in Seq(Piece)
  BY DEF Reading
<1>3. /\ w \in Seq(Piece) /\ Len(w) = Len(m) + 1 /\ Len(m) \in Nat
      /\ DOMAIN m = 1..Len(m) /\ DOMAIN w = 1..Len(m) + 1
      /\ \A i \in 1..Len(m) : w[i] = m[i]
      /\ w[Len(m) + 1] = q
  BY <1>1, <1>2, PieceAdded
<1>4. ASSUME NEW i \in 0..Len(m) PROVE SubSeq(w, 1, i) = SubSeq(m, 1, i)
  <2>1. i \in 0..Len(w) /\ \A j \in 1..i : j \in 1..Len(m)
    BY <1>3
  <2>2. /\ SubSeq(m, 1, i) \in Seq(Piece) /\ Len(SubSeq(m, 1, i)) = i
        /\ \A j \in 1..i : SubSeq(m, 1, i)[j] = m[j]
    BY <1>2, FirstPieces
  <2>3. /\ SubSeq(w, 1, i) \in Seq(Piece) /\ Len(SubSeq(w, 1, i)) = i
        /\ \A j \in 1..i : SubSeq(w, 1, i)[j] = w[j]
    BY <1>3, <2>1, FirstPieces
  <2>4. \A j \in 1..i : SubSeq(w, 1, i)[j] = SubSeq(m, 1, i)[j]
    BY <1>3, <2>1, <2>2, <2>3
  <2> QED
    BY <2>2, <2>3, <2>4, SeqEqual
<1>5. ASSUME NEW i \in DOMAIN w PROVE Follows(t, a, SubSeq(w, 1, i - 1), w[i])
  <2>1. i - 1 \in 0..Len(m) /\ (i \in 1..Len(m) \/ i = Len(m) + 1)
    BY <1>3
  <2>2. SubSeq(w, 1, i - 1) = SubSeq(m, 1, i - 1)
    BY <1>4, <2>1
  <2>3. CASE i \in 1..Len(m)
    <3>1. Follows(t, a, SubSeq(m, 1, i - 1), m[i])
      BY <1>3, <2>3 DEF Reading
    <3> QED
      BY <1>3, <2>2, <2>3, <3>1
  <2>4. CASE i = Len(m) + 1
    <3>1. i - 1 = Len(m)
      BY <1>3, <2>4
    <3>2. SubSeq(m, 1, i - 1) = m
      BY <1>2, <3>1, AllPieces
    <3> QED
      BY <1>3, <2>2, <2>4, <3>2
  <2> QED
    BY <2>1, <2>3, <2>4
<1> QED
  BY <1>1, <1>3, <1>5 DEF Reading

\* Some requests of the text tx, and pieces behind them.
Partly(tx, rs, m) ==
    LET s == [text |-> tx, requests |-> rs, rest |-> m]
        last == Start(s, Len(rs) + 1)
    IN  /\ rs \in Seq(Seq(Piece))
        /\ \A k \in DOMAIN rs : Reading(tx, Start(s, k), rs[k]) /\ Whole(rs[k])
        /\ Reading(tx, last, m) /\ ~Whole(m)
        /\ last \in Nat /\ EndOf(last, m) \in 0..Len(tx)

\* How far that is.
Far(tx, rs, m) ==
    2 * EndOf(Start([text |-> tx, requests |-> rs, rest |-> m], Len(rs) + 1), m)
    + (IF m = <<>> THEN 1 ELSE 0)

\* Where a piece follows they go farther.
LEMMA PartlyMore ==
    ASSUME NEW tx \in Seq(STRING), NEW rs, NEW m, Partly(tx, rs, m),
           ~Stuck(tx, Start([text |-> tx, requests |-> rs, rest |-> m], Len(rs) + 1), m)
    PROVE  \E rs2, m2 : Partly(tx, rs2, m2) /\ Far(tx, rs, m) < Far(tx, rs2, m2)
<1> DEFINE s == [text |-> tx, requests |-> rs, rest |-> m]
<1>1. PICK a \in Nat : a = Start(s, Len(rs) + 1)
  BY DEF Partly
<1>2. /\ rs \in Seq(Seq(Piece)) /\ Len(rs) \in Nat /\ DOMAIN rs = 1..Len(rs)
      /\ \A k \in DOMAIN rs : Reading(tx, Start(s, k), rs[k]) /\ Whole(rs[k])
      /\ Reading(tx, a, m) /\ m \in Seq(Piece) /\ ~Whole(m)
      /\ EndOf(a, m) \in Nat /\ EndOf(a, m) <= Len(tx) /\ Len(tx) \in Nat
  BY <1>1, LenProperties DEF Partly, Reading
<1>3. PICK q \in Piece : Follows(tx, a, m, q)
  <2>1. PICK k \in Kinds, e \in 0..Len(tx) : Follows(tx, a, m, [kind |-> k, end |-> e])
    BY <1>1 DEF Stuck
  <2>2. [kind |-> k, end |-> e] \in Piece
    BY <1>2, <2>1 DEF Piece
  <2> QED
    BY <2>1, <2>2
<1>4. PICK w : w = Append(m, q)
  OBVIOUS
<1>5. /\ w \in Seq(Piece) /\ w # <<>> /\ EndOf(a, w) = q.end /\ EndOf(0, w) = q.end
  <2>1. w \in Seq(Piece) /\ w # <<>> /\ EndOf(a, w) = q.end
    BY <1>2, <1>4, AddedEnd
  <2> QED
    BY <2>1 DEF EndOf
<1>6. /\ Reading(tx, a, w) /\ q.end \in Nat /\ EndOf(a, m) <= q.end /\ q.end <= Len(tx)
  BY <1>2, <1>3, <1>4, FollowsForward, ReadingAdded
<1>7. Far(tx, rs, m) = 2 * EndOf(a, m) + (IF m = <<>> THEN 1 ELSE 0)
  BY <1>1 DEF Far
<1>8. CASE ~Whole(w)
  <2> DEFINE s2 == [text |-> tx, requests |-> rs, rest |-> w]
  <2>1. \A k : Start(s2, k) = Start(s, k)
    BY DEF Start
  <2>2. Partly(tx, rs, w)
    BY <1>1, <1>2, <1>5, <1>6, <1>8, <2>1 DEF Partly
  <2>3. Far(tx, rs, w) = 2 * q.end
    BY <1>1, <1>5, <1>6, <2>1 DEF Far
  <2>4. q.end >= EndOf(a, m) + 2
    <3>1. q.kind # "sized"
      BY <1>2, <1>4, <1>8, PhaseAdded
    <3>2. CASE q.kind = "chunk"
      BY <1>2, <1>3, <3>2 DEF Follows
    <3>3. CASE q.kind # "chunk"
      <4>1. IsLine(tx, EndOf(a, m), q.end)
        BY <1>2, <1>3, <3>1, <3>3, FollowsLine
      <4> QED
        BY <1>2, <4>1 DEF IsLine
    <3> QED
      BY <3>2, <3>3
  <2>5. Far(tx, rs, m) < Far(tx, rs, w)
    BY <1>2, <1>6, <1>7, <2>3, <2>4
  <2> QED
    BY <2>2, <2>5
<1>9. CASE Whole(w)
  <2>1. PICK rs2 : rs2 = Append(rs, w)
    OBVIOUS
  <2> DEFINE s2 == [text |-> tx, requests |-> rs2, rest |-> <<>>]
  <2>2. /\ rs2 \in Seq(Seq(Piece)) /\ Len(rs2) = Len(rs) + 1
        /\ DOMAIN rs2 = 1..Len(rs) + 1
        /\ \A k \in 1..Len(rs) : rs2[k] = rs[k]
        /\ rs2[Len(rs) + 1] = w
    BY <1>2, <1>5, <2>1, AppendProperties, LenProperties
  <2>3. ASSUME NEW k \in 1..Len(rs) + 1 PROVE Start(s2, k) = Start(s, k)
    <3>1. k # 1 => k - 1 \in 1..Len(rs)
      BY <1>2
    <3> QED
      BY <2>2, <3>1 DEF Start
  <2>4. Start(s2, Len(rs2) + 1) = q.end
    <3>1. Len(rs2) + 1 # 1 /\ (Len(rs2) + 1) - 1 = Len(rs) + 1
      BY <1>2, <2>2
    <3> QED
      BY <1>5, <2>2, <3>1 DEF Start
  <2>5. ASSUME NEW k \in DOMAIN rs2 PROVE Reading(tx, Start(s2, k), rs2[k]) /\ Whole(rs2[k])
    <3>1. Start(s2, k) = Start(s, k) /\ (k \in 1..Len(rs) \/ k = Len(rs) + 1)
      BY <1>2, <2>2, <2>3
    <3>2. CASE k \in 1..Len(rs)
      BY <1>2, <2>2, <3>1, <3>2
    <3>3. CASE k = Len(rs) + 1
      BY <1>1, <1>6, <1>9, <2>2, <3>1, <3>3
    <3> QED
      BY <3>1, <3>2, <3>3
  <2>6. /\ Reading(tx, q.end, <<>>) /\ ~Whole(<<>>) /\ EndOf(q.end, <<>>) = q.end
    <3>1. <<>> \in Seq(Piece) /\ DOMAIN <<>> = {}
      BY EmptySeq
    <3> QED
      BY <3>1 DEF Reading, Whole, LastKind, EndOf
  <2>7. q.end \in 0..Len(tx)
    BY <1>2, <1>6
  <2>8. Partly(tx, rs2, <<>>)
    BY <1>6, <2>2, <2>4, <2>5, <2>6, <2>7 DEF Partly
  <2>9. Far(tx, rs2, <<>>) = 2 * q.end + 1
    BY <2>4, <2>6 DEF Far
  <2>10. m # <<>>
    <3>1. q.kind \in {"sized", "close"}
      BY <1>2, <1>4, <1>9, PhaseAdded
    <3> QED
      BY <1>2, <1>3, <3>1, FollowsWhat
  <2>11. Far(tx, rs, m) < Far(tx, rs2, <<>>)
    BY <1>2, <1>6, <1>7, <2>9, <2>10
  <2> QED
    BY <2>8, <2>11
<1> QED
  BY <1>8, <1>9

(***************************************************************************)
(* Every text is read as requests and a rest, so what is assumed of the    *)
(* streams excludes none that a client could send.                         *)
(***************************************************************************)
THEOREM EveryTextIsRead ==
    \A tx \in Seq(STRING) : \E s : IsStream(s) /\ s.text = tx
<1> TAKE tx \in Seq(STRING)
<1> DEFINE top == 2 * Len(tx) + 1
           D == {d \in Nat : \E rs, m : Partly(tx, rs, m) /\ d = top - Far(tx, rs, m)}
<1>1. Len(tx) \in Nat /\ top \in Nat
  BY LenProperties
<1>2. ASSUME NEW rs, NEW m, Partly(tx, rs, m)
      PROVE  Far(tx, rs, m) \in Nat /\ Far(tx, rs, m) <= top
  <2>1. PICK e : e = EndOf(Start([text |-> tx, requests |-> rs, rest |-> m], Len(rs) + 1), m)
    OBVIOUS
  <2>2. e \in 0..Len(tx)
    BY <1>2, <2>1 DEF Partly
  <2>3. Far(tx, rs, m) = 2 * e + (IF m = <<>> THEN 1 ELSE 0)
    BY <2>1 DEF Far
  <2> QED
    BY <1>1, <2>2, <2>3
<1>3. Partly(tx, <<>>, <<>>)
  <2> DEFINE s == [text |-> tx, requests |-> <<>>, rest |-> <<>>]
  <2>1. <<>> \in Seq(Seq(Piece)) /\ <<>> \in Seq(Piece) /\ DOMAIN <<>> = {} /\ Len(<<>>) = 0
    BY EmptySeq
  <2>2. Start(s, Len(<<>>) + 1) = 0
    BY <2>1 DEF Start
  <2>3. Reading(tx, 0, <<>>) /\ ~Whole(<<>>) /\ EndOf(0, <<>>) = 0
    BY <2>1 DEF Reading, Whole, LastKind, EndOf
  <2> QED
    BY <1>1, <2>1, <2>2, <2>3 DEF Partly
<1> HIDE DEF top
<1>4. D # {}
  <2>1. top - Far(tx, <<>>, <<>>) \in Nat
    BY <1>1, <1>2, <1>3
  <2> QED
    BY <1>3, <2>1
<1>5. PICK d \in D : \A d2 \in D : d <= d2
  BY <1>4, LeastNatural
<1>6. PICK rs, m : Partly(tx, rs, m) /\ d = top - Far(tx, rs, m)
  BY <1>5
<1> DEFINE s == [text |-> tx, requests |-> rs, rest |-> m]
<1>7. Stuck(tx, Start(s, Len(rs) + 1), m)
  <2>1. SUFFICES ASSUME ~Stuck(tx, Start(s, Len(rs) + 1), m) PROVE FALSE
    OBVIOUS
  <2>2. PICK rs2, m2 : Partly(tx, rs2, m2) /\ Far(tx, rs, m) < Far(tx, rs2, m2)
    BY <1>6, <2>1, PartlyMore
  <2>3. /\ Far(tx, rs, m) \in Nat /\ Far(tx, rs2, m2) \in Nat /\ Far(tx, rs2, m2) <= top
    BY <1>2, <1>6, <2>2
  <2>4. top - Far(tx, rs2, m2) \in Nat /\ top - Far(tx, rs2, m2) < top - Far(tx, rs, m)
    BY <1>1, <2>2, <2>3
  <2>5. top - Far(tx, rs2, m2) \in D
    BY <2>2, <2>4
  <2>6. d <= top - Far(tx, rs2, m2)
    BY <1>5, <2>5
  <2> HIDE DEF D
  <2> QED
    BY <1>1, <1>6, <2>3, <2>4, <2>6
<1>8. IsStream(s) /\ s.text = tx
  BY <1>6, <1>7 DEF IsStream, Partly
<1> QED
  BY <1>8

-----------------------------------------------------------------------------
(***************************************************************************)
(* There is only one way to read a text.                                   *)
(***************************************************************************)
Complete(t, a, m) == Reading(t, a, m) /\ (Whole(m) \/ Stuck(t, a, m))

\* As far as both go, two readings from one place are the same.
LEMMA ReadingsAgree ==
    ASSUME NEW t \in Seq(STRING), NEW a \in Nat, NEW m, NEW m2,
           Reading(t, a, m), Reading(t, a, m2)
    PROVE  \A i \in Nat : i <= Len(m) /\ i <= Len(m2) => SubSeq(m, 1, i) = SubSeq(m2, 1, i)
<1> DEFINE G == {i \in Nat : i <= Len(m) /\ i <= Len(m2) => SubSeq(m, 1, i) = SubSeq(m2, 1, i)}
<1>1. m \in Seq(Piece) /\ m2 \in Seq(Piece) /\ Len(m) \in Nat /\ Len(m2) \in Nat
  BY LenProperties DEF Reading
<1>2. 0 \in G
  BY <1>1, AllPieces
<1>3. ASSUME NEW i \in Nat, i \in G PROVE i + 1 \in G
  <2>1. SUFFICES ASSUME i + 1 <= Len(m), i + 1 <= Len(m2)
                 PROVE  SubSeq(m, 1, i + 1) = SubSeq(m2, 1, i + 1)
    OBVIOUS
  <2>2. i + 1 \in 1..Len(m) /\ i + 1 \in 1..Len(m2) /\ i <= Len(m) /\ i <= Len(m2)
    BY <1>1, <2>1
  <2>3. SubSeq(m, 1, i) = SubSeq(m2, 1, i)
    BY <1>3, <2>2
  <2>4. /\ SubSeq(m, 1, i) \in Seq(Piece) /\ m[i + 1] \in Piece
        /\ SubSeq(m, 1, i + 1) = Append(SubSeq(m, 1, i), m[i + 1])
        /\ Follows(t, a, SubSeq(m, 1, i), m[i + 1])
    BY <2>2, ReadingNext
  <2>5. /\ m2[i + 1] \in Piece
        /\ SubSeq(m2, 1, i + 1) = Append(SubSeq(m2, 1, i), m2[i + 1])
        /\ Follows(t, a, SubSeq(m2, 1, i), m2[i + 1])
    BY <2>2, ReadingNext
  <2>6. m[i + 1] = m2[i + 1]
    BY <2>3, <2>4, <2>5, FollowsOnce
  <2> QED
    BY <2>3, <2>4, <2>5, <2>6
<1> HIDE DEF G
<1>4. \A i \in Nat : i \in G
  BY <1>2, <1>3, NatSetInduction
<1> QED
  BY <1>4 DEF G

\* A reading that is complete goes as far as any other.
LEMMA CompleteLongest ==
    ASSUME NEW t \in Seq(STRING), NEW a \in Nat, NEW m, NEW m2,
           Complete(t, a, m), Reading(t, a, m2)
    PROVE  Len(m2) <= Len(m)
<1>1. /\ m \in Seq(Piece) /\ m2 \in Seq(Piece) /\ Len(m) \in Nat /\ Len(m2) \in Nat
      /\ Reading(t, a, m)
  BY LenProperties DEF Reading, Complete
<1>2. SUFFICES ASSUME Len(m) < Len(m2) PROVE FALSE
  BY <1>1
<1>3. Len(m) + 1 \in 1..Len(m2)
  BY <1>1, <1>2
<1>4. m2[Len(m) + 1] \in Piece /\ Follows(t, a, SubSeq(m2, 1, Len(m)), m2[Len(m) + 1])
  BY <1>1, <1>3, ReadingNext
<1>5. SubSeq(m2, 1, Len(m)) = m
  <2>1. SubSeq(m, 1, Len(m)) = SubSeq(m2, 1, Len(m))
    BY <1>1, <1>2, ReadingsAgree
  <2> QED
    BY <1>1, <2>1, AllPieces
<1>6. PICK q \in Piece : Follows(t, a, m, q)
  BY <1>4, <1>5
<1>7. ~Whole(m)
  BY <1>1, <1>6, FollowsWhat
<1>8. q.end \in 0..Len(t) /\ q.kind \in Kinds /\ q = [kind |-> q.kind, end |-> q.end]
  <2>1. q.end \in Nat /\ q.end <= Len(t) /\ Len(t) \in Nat
    BY <1>1, <1>6, FollowsForward, LenProperties
  <2> QED
    BY <2>1 DEF Piece
<1>9. ~Follows(t, a, m, [kind |-> q.kind, end |-> q.end])
  BY <1>7, <1>8 DEF Complete, Stuck
<1> QED
  BY <1>6, <1>8, <1>9

\* So there is one complete reading from a place.
LEMMA CompleteOnce ==
    ASSUME NEW t \in Seq(STRING), NEW a \in Nat, NEW m, NEW m2,
           Complete(t, a, m), Complete(t, a, m2)
    PROVE  m = m2
<1>1. /\ m \in Seq(Piece) /\ m2 \in Seq(Piece) /\ Len(m) \in Nat /\ Len(m2) \in Nat
      /\ Reading(t, a, m) /\ Reading(t, a, m2)
  BY LenProperties DEF Reading, Complete
<1>2. Len(m) = Len(m2)
  <2>1. Len(m2) <= Len(m)
    BY <1>1, CompleteLongest
  <2>2. Len(m) <= Len(m2)
    BY <1>1, CompleteLongest
  <2> QED
    BY <1>1, <2>1, <2>2
<1>3. SubSeq(m, 1, Len(m)) = SubSeq(m2, 1, Len(m))
  BY <1>1, <1>2, ReadingsAgree
<1> QED
  BY <1>1, <1>2, <1>3, AllPieces

\* The k-th request of a stream, or the rest behind them all.
Item(s, k) == IF k \in DOMAIN s.requests THEN s.requests[k] ELSE s.rest

\* It is a complete reading from where it begins, and the next begins where
\* it ends.
LEMMA ItemIs ==
    ASSUME NEW s, IsStream(s), NEW k \in 1..Len(s.requests) + 1, Start(s, k) \in Nat
    PROVE  /\ Complete(s.text, Start(s, k), Item(s, k))
           /\ Whole(Item(s, k)) <=> k <= Len(s.requests)
           /\ k <= Len(s.requests) => Start(s, k + 1) \in Nat
                                      /\ Start(s, k + 1) = EndOf(0, Item(s, k))
<1>1. /\ s.requests \in Seq(Seq(Piece)) /\ Len(s.requests) \in Nat
      /\ DOMAIN s.requests = 1..Len(s.requests)
  BY LenProperties DEF IsStream
<1>2. CASE k <= Len(s.requests)
  <2>1. k \in DOMAIN s.requests /\ k + 1 # 1 /\ (k + 1) - 1 = k
    BY <1>1, <1>2
  <2>2. /\ Item(s, k) = s.requests[k]
        /\ Reading(s.text, Start(s, k), Item(s, k)) /\ Whole(Item(s, k))
    BY <2>1 DEF Item, IsStream
  <2>3. Start(s, k + 1) = EndOf(0, Item(s, k))
    BY <2>1, <2>2 DEF Start
  <2>4. EndOf(0, Item(s, k)) \in Nat
    <3>1. EndOf(Start(s, k), Item(s, k)) \in Nat
      BY <2>2, ReadingForward DEF IsStream
    <3>2. EndOf(Start(s, k), Item(s, k)) = EndOf(0, Item(s, k))
      BY <2>2 DEF EndOf, Whole, LastKind
    <3> QED
      BY <3>1, <3>2
  <2> QED
    BY <1>2, <2>2, <2>3, <2>4 DEF Complete
<1>3. CASE ~(k <= Len(s.requests))
  <2>1. k = Len(s.requests) + 1 /\ k \notin DOMAIN s.requests
    BY <1>1, <1>3
  <2> QED
    BY <1>3, <2>1 DEF Item, IsStream, Complete
<1> QED
  BY <1>2, <1>3

\* Two streams with one text have the same requests, one after the other.
LEMMA ItemsAgree ==
    ASSUME NEW s, NEW s2, IsStream(s), IsStream(s2), s.text = s2.text
    PROVE  \A j \in Nat : j <= Len(s.requests) =>
               /\ j <= Len(s2.requests)
               /\ Item(s, j + 1) = Item(s2, j + 1)
<1> DEFINE E(j) == /\ Start(s, j + 1) = Start(s2, j + 1) /\ Start(s, j + 1) \in Nat
                   /\ j <= Len(s2.requests) /\ Item(s, j + 1) = Item(s2, j + 1)
           G == {j \in Nat : j <= Len(s.requests) => E(j)}
<1>1. s.text \in Seq(STRING) /\ Len(s.requests) \in Nat /\ Len(s2.requests) \in Nat
  BY LenProperties DEF IsStream
<1>2. ASSUME NEW j \in Nat, j <= Len(s.requests), j <= Len(s2.requests),
             Start(s, j + 1) = Start(s2, j + 1), Start(s, j + 1) \in Nat
      PROVE  E(j)
  <2>1. j + 1 \in 1..Len(s.requests) + 1 /\ j + 1 \in 1..Len(s2.requests) + 1
    BY <1>1, <1>2
  <2>2. Complete(s.text, Start(s, j + 1), Item(s, j + 1))
    BY <1>2, <2>1, ItemIs
  <2>3. Complete(s.text, Start(s, j + 1), Item(s2, j + 1))
    <3>1. Start(s2, j + 1) \in Nat
      BY <1>2
    <3>2. Complete(s2.text, Start(s2, j + 1), Item(s2, j + 1))
      BY <2>1, <3>1, ItemIs
    <3> QED
      BY <1>2, <3>2
  <2>4. Item(s, j + 1) = Item(s2, j + 1)
    BY <1>1, <1>2, <2>2, <2>3, CompleteOnce
  <2> QED
    BY <1>2, <2>4
<1>3. 0 \in G
  <2>1. Start(s, 0 + 1) = 0 /\ Start(s2, 0 + 1) = 0 /\ 0 <= Len(s.requests) /\ 0 <= Len(s2.requests)
    BY <1>1 DEF Start
  <2> HIDE DEF E
  <2>2. E(0)
    BY <1>2, <2>1
  <2> QED
    BY <2>2
<1>4. ASSUME NEW j \in Nat, j \in G PROVE j + 1 \in G
  <2>1. SUFFICES ASSUME j + 1 <= Len(s.requests) PROVE E(j + 1)
    OBVIOUS
  <2>2. E(j)
    BY <1>1, <1>4, <2>1
  <2>3. PICK k \in Nat : k = j + 1
    OBVIOUS
  <2>4. /\ k \in 1..Len(s.requests) + 1 /\ k \in 1..Len(s2.requests) + 1 /\ k <= Len(s.requests)
        /\ Start(s, k) = Start(s2, k) /\ Start(s, k) \in Nat /\ Item(s, k) = Item(s2, k)
    BY <1>1, <2>1, <2>2, <2>3
  <2>5. /\ Whole(Item(s, k)) <=> k <= Len(s.requests)
        /\ Start(s, k + 1) \in Nat /\ Start(s, k + 1) = EndOf(0, Item(s, k))
    BY <2>4, ItemIs
  <2>6. /\ Whole(Item(s2, k)) <=> k <= Len(s2.requests)
        /\ k <= Len(s2.requests) => Start(s2, k + 1) = EndOf(0, Item(s2, k))
    <3>1. Start(s2, k) \in Nat
      BY <2>4
    <3> QED
      BY <2>4, <3>1, ItemIs
  <2>7. k <= Len(s2.requests) /\ Start(s, k + 1) = Start(s2, k + 1)
    BY <2>4, <2>5, <2>6
  <2> HIDE DEF E
  <2>8. E(k)
    BY <1>2, <2>4, <2>5, <2>7
  <2> QED
    BY <2>3, <2>8
<1> HIDE DEF G
<1>5. \A j \in Nat : j \in G
  BY <1>3, <1>4, NatSetInduction
<1> QED
  BY <1>5 DEF G

(***************************************************************************)
(* And in one way only, so the requests that InStep and AllOrNothing speak *)
(* of are determined by what the client sends.                             *)
(***************************************************************************)
THEOREM OneReading ==
    ASSUME NEW s, NEW s2, IsStream(s), IsStream(s2), s.text = s2.text
    PROVE  s.requests = s2.requests /\ s.rest = s2.rest
<1>1. /\ s.requests \in Seq(Seq(Piece)) /\ s2.requests \in Seq(Seq(Piece))
      /\ Len(s.requests) \in Nat /\ Len(s2.requests) \in Nat
      /\ DOMAIN s.requests = 1..Len(s.requests) /\ DOMAIN s2.requests = 1..Len(s2.requests)
  BY LenProperties DEF IsStream
<1>2. Len(s.requests) = Len(s2.requests)
  <2>1. Len(s.requests) <= Len(s2.requests)
    BY <1>1, ItemsAgree
  <2>2. Len(s2.requests) <= Len(s.requests)
    BY <1>1, ItemsAgree
  <2> QED
    BY <1>1, <2>1, <2>2
<1>3. ASSUME NEW k \in 1..Len(s.requests) + 1 PROVE Item(s, k) = Item(s2, k)
  <2>1. PICK j \in Nat : k = j + 1 /\ j <= Len(s.requests)
    <3>1. k - 1 \in Nat /\ k = (k - 1) + 1 /\ k - 1 <= Len(s.requests)
      BY <1>1
    <3> QED
      BY <3>1
  <2> QED
    BY <2>1, ItemsAgree
<1>4. ASSUME NEW k \in 1..Len(s.requests) PROVE s.requests[k] = s2.requests[k]
  <2>1. k \in 1..Len(s.requests) + 1
    BY <1>1
  <2> QED
    BY <1>1, <1>2, <1>3, <2>1 DEF Item
<1>5. s.requests = s2.requests
  BY <1>1, <1>2, <1>4, SeqEqual
<1>6. s.rest = s2.rest
  <2>1. Len(s.requests) + 1 \in 1..Len(s.requests) + 1 /\ Len(s.requests) + 1 \notin DOMAIN s.requests
    BY <1>1
  <2> QED
    BY <1>3, <1>5, <2>1 DEF Item
<1> QED
  BY <1>5, <1>6
=============================================================================
