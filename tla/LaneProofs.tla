----------------------------- MODULE LaneProofs -----------------------------
(***************************************************************************)
(* Proofs about Lane, for every set of patterns, lanes and requests and    *)
(* every bound.                                                            *)
(***************************************************************************)
EXTENDS LaneInv, FiniteSums, SequenceTheorems, TLAPS

-----------------------------------------------------------------------------
(***************************************************************************)
(* The operators of the model.                                             *)
(***************************************************************************)

\* Any number of sequences can be glued together.
LEMMA GluedFromZero == \A c : \A k \in Nat : \E g : Glued(0, k, c, g)
<1> SUFFICES ASSUME NEW c, NEW k \in Nat PROVE \E g : Glued(0, k, c, g)
  OBVIOUS
<1>1. PICK g : Glued(0, 0 + k, c, g)
  BY GluedExists
<1>2. 0 + k = k
  OBVIOUS
<1> QED
  BY <1>1, <1>2

\* FlattenSeq takes one sequence after the other.
LEMMA FlattenIs ==
    ASSUME NEW c, NEW n \in Nat, Len(c) = n, \A i \in 1..n : c[i] \in Text,
           n = 0 => c = <<>>,
           NEW g, Glued(0, n, c, g)
    PROVE  FlattenSeq(c) = g[n]
<1> DEFINE Is(f) == f = [i \in 1..n |-> IF i = 1 THEN c[i] ELSE f[i - 1] \o c[i]]
           f == CHOOSE f : Is(f)
           h == [i \in 0..n |-> IF i = 0 THEN <<>> ELSE f[i]]
<1>0. \A i \in 0..n : g[i] = IF i = 0 THEN <<>> ELSE g[i - 1] \o c[i]
  BY DEF Glued
<1>1. CASE n = 0
  <2>1. g[0] = <<>>
    BY <1>0, <1>1
  <2> QED
    BY <1>1, <2>1 DEF FlattenSeq
<1>2. CASE n # 0
  <2>0. 1 \in 1..n
    BY <1>2
  <2>1. \E k : Is(k)
    <3> DEFINE k == [i \in 1..n |-> g[i]]
    <3>1. ASSUME NEW i \in 1..n PROVE k[i] = IF i = 1 THEN c[i] ELSE k[i - 1] \o c[i]
      <4>1. CASE i = 1
        <5>0. 0 \in 0..n /\ 1 \in 0..n /\ 1 - 1 = 0 /\ 1 # 0
          BY <2>0
        <5>1. g[1] = (IF 1 = 0 THEN <<>> ELSE g[1 - 1] \o c[1]) /\ g[0] = <<>>
          BY <1>0, <5>0, Zenon
        <5>2. <<>> \o c[1] = c[1]
          BY <2>0 DEF Text
        <5>3. g[1] = c[1]
          BY ONLY <5>0, <5>1, <5>2
        <5> QED
          BY <4>1, <5>3
      <4>2. CASE i # 1
        <5>1. i - 1 \in 1..n /\ i \in 0..n /\ i # 0
          BY <4>2
        <5> QED
          BY <1>0, <4>2, <5>1
      <4> QED
        BY <4>1, <4>2
    <3>2. k = [i \in 1..n |-> k[i]]
      OBVIOUS
    <3> HIDE DEF k
    <3>3. [i \in 1..n |-> k[i]] = [i \in 1..n |-> IF i = 1 THEN c[i] ELSE k[i - 1] \o c[i]]
      BY <3>1
    <3>4. Is(k)
      BY <3>2, <3>3
    <3> QED
      BY <3>4
  <2>2. Is(f)
    BY <2>1
  <2>3. FlattenSeq(c) = f[n]
    BY <1>2 DEF FlattenSeq
  <2> HIDE DEF f
  <2>4. \A i \in 1..n : f[i] = IF i = 1 THEN c[i] ELSE f[i - 1] \o c[i]
    BY <2>2
  <2>5. ASSUME NEW i \in 0..n PROVE h[i] = IF i = 0 THEN <<>> ELSE h[i - 1] \o c[i]
    <3>1. CASE i = 0
      BY <3>1
    <3>2. CASE i = 1
      <4>0. i - 1 = 0 /\ 0 \in 0..n
        BY <3>2
      <4>1. h[1] = c[1] /\ h[0] = <<>>
        BY <2>0, <2>4
      <4>2. <<>> \o c[1] = c[1]
        BY <2>0 DEF Text
      <4> HIDE DEF h
      <4> QED
        BY <3>2, <4>0, <4>1, <4>2
    <3>3. CASE i # 0 /\ i # 1
      <4>1. i \in 1..n /\ i - 1 \in 1..n /\ i - 1 \in 0..n /\ i - 1 # 0
        BY <3>3
      <4>2. h[i] = f[i] /\ h[i - 1] = f[i - 1]
        BY <3>3, <4>1
      <4> QED
        BY <2>4, <3>3, <4>1, <4>2
    <3> QED
      BY <3>1, <3>2, <3>3
  <2>6. h = [i \in 0..n |-> h[i]]
    OBVIOUS
  <2>7. h[n] = f[n]
    BY <1>2
  <2> HIDE DEF h
  <2>8. [i \in 0..n |-> h[i]] = [i \in 0..n |-> IF i = 0 THEN <<>> ELSE h[i - 1] \o c[i]]
    BY <2>5
  <2>9. Glued(0, n, c, h)
    BY <2>6, <2>8 DEF Glued
  <2>10. h[n] = g[n]
    <3>1. Longer(0, n, n, c, c, g, h)
      BY <2>9 DEF Longer
    <3> QED
      BY <3>1, GluedSame
  <2> QED
    BY <2>3, <2>7, <2>10
<1> QED
  BY <1>1, <1>2

\* The text of a segment is as long as the segment.
LEMMA SegTextType ==
    \A s \in Seg : SegText(s) \in Text /\ SegLen(s) = Len(SegText(s)) /\ SegLen(s) \in Nat
<1> SUFFICES ASSUME NEW s \in Seg
             PROVE SegText(s) \in Text /\ SegLen(s) = Len(SegText(s)) /\ SegLen(s) \in Nat
  OBVIOUS
<1> USE DEF Text
<1>1. s.lane \in Lanes /\ s.pat \in Patterns \cup {NoPat}
  BY DEF Seg
<1>2. LaneText[s.lane] \in Text /\ LaneLen[s.lane] = Len(LaneText[s.lane])
  BY <1>1, LanesAssumption DEF LaneLen
<1>3. CASE s.pat = NoPat
  BY <1>2, <1>3 DEF SegText, SegLen
<1>4. CASE s.pat # NoPat
  <2>1. s.pat \in Patterns
    BY <1>1, <1>4
  <2>2. /\ ConstA[s.pat] \in Text /\ ConstB[s.pat] \in Text
        /\ PatLen[s.pat] = Len(ConstA[s.pat]) + Len(ConstB[s.pat])
    BY <2>1, PatternsAssumption DEF PatLen
  <2>3. PICK x \in Text, y \in Text, z \in Text :
            x = ConstA[s.pat] /\ y = LaneText[s.lane] /\ z = ConstB[s.pat]
    BY <1>2, <2>2
  <2>4. x \o y \o z \in Text /\ Len(x \o y \o z) = Len(x) + Len(y) + Len(z)
    OBVIOUS
  <2>5. SegText(s) = x \o y \o z /\ SegLen(s) = Len(y) + (Len(x) + Len(z))
    BY <1>2, <1>4, <2>2, <2>3 DEF SegText, SegLen
  <2>6. Len(x) \in Nat /\ Len(y) \in Nat /\ Len(z) \in Nat
    OBVIOUS
  <2> HIDE DEF Text
  <2> QED
    BY <2>4, <2>5, <2>6
<1> QED
  BY <1>3, <1>4

\* The texts of the segments of q, one by one.
Texts(q) == [i \in DOMAIN q |-> SegText(q[i])]

\* They are texts, as many as there are segments.
LEMMA TextsAre ==
    ASSUME NEW q \in Seq(Seg)
    PROVE  /\ Len(Texts(q)) = Len(q) /\ Len(q) \in Nat
           /\ \A i \in 1..Len(q) : Texts(q)[i] = SegText(q[i]) /\ Texts(q)[i] \in Text
           /\ Len(q) = 0 => Texts(q) = <<>>
<1>1. DOMAIN q = 1..Len(q) /\ Len(q) \in Nat
  OBVIOUS
<1>2. \A i \in 1..Len(q) : q[i] \in Seg
  OBVIOUS
<1>3. \A i \in 1..Len(q) : SegText(q[i]) \in Text
  BY <1>2, SegTextType
<1>4. [i \in 1..Len(q) |-> SegText(q[i])] \in Seq(Text)
  BY <1>1, <1>3
<1> QED
  BY <1>1, <1>3, <1>4 DEF Texts

\* The text of nothing is empty.
LEMMA TextEmpty == TextOf(<<>>) = <<>>
BY DEF TextOf, FlattenSeq

\* TextOf glues the texts of the segments.
LEMMA TextGlued ==
    ASSUME NEW q \in Seq(Seg), NEW g, Glued(0, Len(q), Texts(q), g)
    PROVE  TextOf(q) = g[Len(q)]
<1>1. FlattenSeq(Texts(q)) = g[Len(q)]
  BY TextsAre, FlattenIs
<1> QED
  BY <1>1 DEF TextOf, Texts

\* One segment more makes the text longer by its own text.
LEMMA TextNext ==
    ASSUME NEW q \in Seq(Seg), NEW s \in Seg
    PROVE  TextOf(Append(q, s)) = TextOf(q) \o SegText(s)
<1> DEFINE p == Append(q, s)
           n == Len(q)
<1>1. /\ n \in Nat /\ p \in Seq(Seg) /\ Len(p) = n + 1
      /\ \A i \in 1..n : p[i] = q[i]
      /\ p[n + 1] = s
  BY AppendProperties
<1> HIDE DEF p, n
<1>2. PICK g : Glued(0, n, Texts(q), g)
  BY <1>1, GluedFromZero
<1>3. PICK g2 : Glued(0, n + 1, Texts(p), g2)
  <2>1. n + 1 \in Nat
    BY <1>1
  <2> QED
    BY <2>1, GluedFromZero
<1>4. TextOf(q) = g[n] /\ TextOf(p) = g2[n + 1]
  BY <1>1, <1>2, <1>3, TextGlued DEF n
<1>5. \A i \in 1..n : Texts(p)[i] = Texts(q)[i]
  BY <1>1, TextsAre DEF n
<1>6. g2[n] = g[n]
  <2>1. Longer(0, n, n + 1, Texts(q), Texts(p), g, g2)
    BY <1>1, <1>2, <1>3, <1>5 DEF Longer
  <2> QED
    BY <2>1, GluedSame
<1>7. g2[n + 1] = g2[n] \o Texts(p)[n + 1]
  <2> DEFINE e == n + 1
             c == Texts(p)
  <2>1. e \in 0..e /\ e # 0 /\ e - 1 = n
    BY <1>1
  <2>2. Glued(0, e, c, g2)
    BY <1>3
  <2> HIDE DEF e, c
  <2>3. g2[e] = g2[e - 1] \o c[e]
    BY <2>1, <2>2 DEF Glued
  <2> QED
    BY <2>1, <2>3 DEF e, c
<1>8. Texts(p)[n + 1] = SegText(s)
  BY <1>1, TextsAre
<1> QED
  BY <1>4, <1>6, <1>7, <1>8 DEF p

\* The text of segments is a text.
LEMMA TextType == \A q \in Seq(Seg) : TextOf(q) \in Text
<1> DEFINE G == {n \in Nat : \A q \in Seq(Seg) : Len(q) = n => TextOf(q) \in Text}
<1>1. 0 \in G
  <2>1. \A q \in Seq(Seg) : Len(q) = 0 => q = <<>>
    BY EmptySeq
  <2>2. TextOf(<<>>) \in Text
    BY TextEmpty, EmptySeq DEF Text
  <2> QED
    BY <2>1, <2>2
<1>2. ASSUME NEW n \in Nat, n \in G PROVE n + 1 \in G
  <2>1. SUFFICES ASSUME NEW q \in Seq(Seg), Len(q) = n + 1 PROVE TextOf(q) \in Text
    OBVIOUS
  <2>2. PICK p \in Seq(Seg), s \in Seg : Len(p) = n /\ q = Append(p, s)
    <3>1. q # <<>>
      BY <2>1
    <3>2. PICK p \in Seq(Seg), s \in Seg : q = Append(p, s)
      BY <3>1, SequenceEmptyOrAppend
    <3>3. Len(p) \in Nat /\ Len(q) = Len(p) + 1
      BY <3>2, AppendProperties
    <3> QED
      BY <2>1, <3>2, <3>3
  <2>3. TextOf(p) \in Text
    BY <1>2, <2>2
  <2>4. TextOf(q) = TextOf(p) \o SegText(s) /\ SegText(s) \in Text
    BY <2>2, TextNext, SegTextType
  <2> QED
    BY <2>3, <2>4 DEF Text
<1> HIDE DEF G
<1>3. \A n \in Nat : n \in G
  BY <1>1, <1>2, NatSetInduction
<1>4. \A q \in Seq(Seg) : Len(q) \in Nat
  OBVIOUS
<1> QED
  BY <1>3, <1>4 DEF G

\* The length of a segment (len of the bytes it stands for) is a number.
LEMMA SegLenType == \A s \in Seg : SegLen(s) \in Nat
BY SegTextType

\* So are the lengths of its parts.
LEMMA PartLenType ==
    /\ \A l \in Lanes : LaneLen[l] \in Nat
    /\ \A p \in Patterns : PatLen[p] \in Nat
BY PatternsAssumption, LanesAssumption DEF LaneLen, PatLen, Text

\* Blank, the empty header line, is a segment.
LEMMA BlankType == Blank \in Seg
BY LanesAssumption DEF Blank, Seg

\* What Accept lays out, in the order of truth, is well-formed.
LEMMA ItemsType ==
    ASSUME NEW r \in Requests
    PROVE  /\ Items(r) \in Seq(Item)
           /\ [i \in DOMAIN Items(r) |-> Items(r)[i].seg] \in Seq(Seg)
           /\ Len([i \in DOMAIN Items(r) |-> Items(r)[i].seg]) = Len(Items(r))
           /\ \A i \in 1..Len(Items(r)) : SegLen(Items(r)[i].seg) > 0
<1> DEFINE it == Items(r)
<1>0. it \in Seq(Item) /\ \A i \in DOMAIN it : SegLen(it[i].seg) \in 1..MaxFramePayloadBytes
  BY RequestsAssumption, Zenon
<1>1. it \in Seq(Item) /\ \A i \in DOMAIN it : SegLen(it[i].seg) > 0
  <2> HIDE DEF it
  <2> QED
    BY <1>0
<1> HIDE DEF it
<1>2. DOMAIN it = 1..Len(it) /\ Len(it) \in Nat
  BY <1>1
<1>3. \A i \in 1..Len(it) : it[i].seg \in Seg
  <2>1. \A i \in 1..Len(it) : it[i] \in Item
    BY <1>1, ElementOfSeq
  <2> QED
    BY <2>1 DEF Item
<1>4. [i \in 1..Len(it) |-> it[i].seg] \in Seq(Seg)
  BY <1>2, <1>3, IsASeq
<1>5. Len([i \in 1..Len(it) |-> it[i].seg]) = Len(it)
  BY <1>2, <1>4
<1> QED
  BY <1>1, <1>2, <1>4, <1>5 DEF it

\* Two texts, one after the other, are a text with the characters of both.
LEMMA TextParts ==
    ASSUME NEW t \in Text, NEW l \in Text
    PROVE  /\ t \o l \in Text /\ Len(t) \in Nat /\ Len(l) \in Nat
           /\ Len(t \o l) = Len(t) + Len(l)
           /\ \A i \in 1..Len(t) : (t \o l)[i] = t[i]
           /\ \A i \in 1..Len(l) : (t \o l)[Len(t) + i] = l[i]
<1> USE DEF Text
<1>1. t \o l \in Text /\ Len(t) \in Nat /\ Len(l) \in Nat
  OBVIOUS
<1> QED
  BY <1>1, ConcatProperties

\* The header ends at end, and not before; 0 says that it does not end.
LEMMA HeaderLenIs ==
    \A t \in Text :
        /\ HeaderLen(t) \in 0..Len(t)
        /\ HeaderLen(t) > 0 => HeaderEndsAt(t, HeaderLen(t))
        /\ \A i \in Int : HeaderEndsAt(t, i) => HeaderLen(t) > 0 /\ HeaderLen(t) <= i
<1> SUFFICES ASSUME NEW t \in Text
             PROVE  /\ HeaderLen(t) \in 0..Len(t)
                    /\ HeaderLen(t) > 0 => HeaderEndsAt(t, HeaderLen(t))
                    /\ \A i \in Int : HeaderEndsAt(t, i) => HeaderLen(t) > 0 /\ HeaderLen(t) <= i
  OBVIOUS
<1> DEFINE found == {i \in 1..Len(t) : HeaderEndsAt(t, i)}
<1>1. Len(t) \in Nat
  BY DEF Text
<1>2. HeaderLen(t) = IF found = {} THEN 0 ELSE Min(found)
  BY DEF HeaderLen
<1>3. \A i \in Int : HeaderEndsAt(t, i) => i \in found
  BY <1>1 DEF HeaderEndsAt, CrlfAt
<1>4. found \subseteq Nat /\ found \subseteq 1..Len(t) /\ \A i \in found : HeaderEndsAt(t, i)
  BY <1>1
<1> HIDE DEF found
<1>5. CASE found = {}
  BY <1>1, <1>2, <1>3, <1>5
<1>6. CASE found # {}
  <2>1. Min(found) \in found /\ \A i \in found : Min(found) <= i
    BY <1>4, <1>6, MinOf
  <2>2. PICK e \in 1..Len(t) : e = Min(found)
    BY <1>4, <2>1
  <2>3. HeaderLen(t) = e /\ HeaderEndsAt(t, e) /\ \A i \in found : e <= i
    BY <1>2, <1>4, <1>6, <2>1, <2>2
  <2>4. e \in 0..Len(t) /\ e > 0
    BY <1>1, <2>2
  <2> QED
    BY <1>3, <2>3, <2>4
<1> QED
  BY <1>5, <1>6

\* A line gives a number from 0, or none.
LEMMA LineLengthType == \A line : LineLength(line) \in Nat \cup {-1}
BY LengthAssumption DEF LineLength

\* The number that is found is that of the first line with a usable one.
LEMMA ParseIs ==
    ASSUME NEW t \in Text
    PROVE  /\ parseContentLengthFromHeaderString(t) \in Nat \cup {-1}
           /\ LengthLines(t) = {i \in LineStarts(t) : LineLength(LineAt(t, i)) >= 0}
           /\ LineStarts(t) \subseteq Nat
           /\ LengthLines(t) = {} => parseContentLengthFromHeaderString(t) = -1
           /\ LengthLines(t) # {} =>
                 /\ Min(LengthLines(t)) \in LengthLines(t)
                 /\ \A i \in LengthLines(t) : Min(LengthLines(t)) <= i
                 /\ parseContentLengthFromHeaderString(t)
                        = LineLength(LineAt(t, Min(LengthLines(t))))
                 /\ parseContentLengthFromHeaderString(t) >= 0
<1>1. LineStarts(t) \subseteq Nat
  BY DEF LineStarts
<1>2. LengthLines(t) = {i \in LineStarts(t) : LineLength(LineAt(t, i)) >= 0}
  BY DEF LengthLines, Lengths
<1>3. LengthLines(t) = {} => parseContentLengthFromHeaderString(t) = -1
  BY DEF parseContentLengthFromHeaderString
<1>4. ASSUME LengthLines(t) # {}
      PROVE  /\ Min(LengthLines(t)) \in LengthLines(t)
             /\ \A i \in LengthLines(t) : Min(LengthLines(t)) <= i
             /\ parseContentLengthFromHeaderString(t)
                    = LineLength(LineAt(t, Min(LengthLines(t))))
             /\ parseContentLengthFromHeaderString(t) >= 0
  <2>0. LengthLines(t) \subseteq Nat
    BY <1>1, <1>2
  <2>1. Min(LengthLines(t)) \in LengthLines(t) /\ \A i \in LengthLines(t) : Min(LengthLines(t)) <= i
    BY <1>4, <2>0, MinOf
  <2>2. PICK i \in LineStarts(t) : i = Min(LengthLines(t)) /\ LineLength(LineAt(t, i)) >= 0
    BY <1>2, <2>1
  <2>3. parseContentLengthFromHeaderString(t) = LineLength(LineAt(t, i))
    BY <1>4, <2>2 DEF parseContentLengthFromHeaderString, Lengths
  <2> QED
    BY <2>1, <2>2, <2>3
<1>5. parseContentLengthFromHeaderString(t) \in Nat \cup {-1}
  BY <1>3, <1>4, LineLengthType
<1> QED
  BY <1>1, <1>2, <1>3, <1>4, <1>5

\* The frames that the builders make are frames.
LEMMA FrameTypes ==
    /\ \A s \in Seg : RawData(s) \in Frame
    /\ \A t \in Ids, p \in Patterns : TemplateDefine(t, p) \in Frame
    /\ \A t \in Ids, l \in Lanes : TemplateRef(t, l) \in Frame
BY DEF RawData, TemplateDefine, TemplateRef, Frame

\* Carried is a number wherever it is used.
LEMMA CarriedType ==
    ASSUME mark \in Seq(Nat), NEW n \in 0..Len(mark)
    PROVE  Carried(n) \in Nat
BY DEF Carried

-----------------------------------------------------------------------------
(***************************************************************************)
(* What writeFrameCount does to the stream, frame by frame.                *)
(***************************************************************************)

\* A successful write of a data frame alone.
LEMMA AppendOne ==
    ASSUME frames \in Seq(Frame), mark \in Seq(Nat),
           NEW data \in Frame,
           frames' = Append(frames \o <<>>, data),
           mark' = Append(mark \o [i \in DOMAIN <<>> |-> Carried(Len(mark))],
                          Carried(Len(mark)) + 1)
    PROVE  /\ frames' \in Seq(Frame)
           /\ mark' \in Seq(Nat)
           /\ Len(frames') = Len(frames) + 1
           /\ Len(mark') = Len(mark) + 1
           /\ \A j \in 1..Len(frames) : frames'[j] = frames[j]
           /\ \A j \in 1..Len(mark) : mark'[j] = mark[j]
           /\ frames'[Len(frames) + 1] = data
           /\ mark'[Len(mark) + 1] = Carried(Len(mark)) + 1
<1>1. Carried(Len(mark)) \in Nat
  BY CarriedType
<1>2. frames \o <<>> = frames
  BY ConcatEmptySeq
<1>3. mark \o [i \in DOMAIN <<>> |-> Carried(Len(mark))] = mark
  <2>1. [i \in DOMAIN <<>> |-> Carried(Len(mark))] = <<>>
    OBVIOUS
  <2> QED
    BY <2>1, ConcatEmptySeq
<1>4. frames' = Append(frames, data) /\ mark' = Append(mark, Carried(Len(mark)) + 1)
  BY <1>2, <1>3
<1> QED
  BY <1>1, <1>4, AppendProperties

\* Two frames, or two marks, appended one after the other.
LEMMA AppendTwice ==
    ASSUME NEW S, NEW s \in Seq(S), NEW a \in S, NEW b \in S
    PROVE  /\ Append(Append(s, a), b) \in Seq(S)
           /\ Len(Append(Append(s, a), b)) = Len(s) + 2
           /\ \A j \in 1..Len(s) : Append(Append(s, a), b)[j] = s[j]
           /\ Append(Append(s, a), b)[Len(s) + 1] = a
           /\ Append(Append(s, a), b)[Len(s) + 2] = b
<1>1. /\ Append(s, a) \in Seq(S)
      /\ Len(Append(s, a)) = Len(s) + 1
      /\ \A j \in 1..Len(s) : Append(s, a)[j] = s[j]
      /\ Append(s, a)[Len(s) + 1] = a
  BY AppendProperties
<1> QED
  BY <1>1, AppendProperties

\* A successful write of a definition and the data frame after it.
LEMMA AppendTwo ==
    ASSUME frames \in Seq(Frame), mark \in Seq(Nat),
           NEW def \in Frame, NEW data \in Frame,
           frames' = Append(frames \o <<def>>, data),
           mark' = Append(mark \o [i \in DOMAIN <<def>> |-> Carried(Len(mark))],
                          Carried(Len(mark)) + 1)
    PROVE  /\ frames' \in Seq(Frame)
           /\ mark' \in Seq(Nat)
           /\ Len(frames') = Len(frames) + 2
           /\ Len(mark') = Len(mark) + 2
           /\ \A j \in 1..Len(frames) : frames'[j] = frames[j]
           /\ \A j \in 1..Len(mark) : mark'[j] = mark[j]
           /\ frames'[Len(frames) + 1] = def
           /\ mark'[Len(mark) + 1] = Carried(Len(mark))
           /\ frames'[Len(frames) + 2] = data
           /\ mark'[Len(mark) + 2] = Carried(Len(mark)) + 1
<1> DEFINE c == Carried(Len(mark))
<1>1. c \in Nat
  BY CarriedType
<1>2. [i \in DOMAIN <<def>> |-> c] = <<c>>
  OBVIOUS
<1> HIDE DEF c
<1>3. frames' = Append(Append(frames, def), data)
  BY AppendIsConcat
<1>4. mark' = Append(Append(mark, c), c + 1)
  <2>1. mark' = Append(mark \o <<c>>, c + 1)
    BY <1>2 DEF c
  <2> QED
    BY <1>1, <2>1, AppendIsConcat
<1>5. /\ frames' \in Seq(Frame)
      /\ Len(frames') = Len(frames) + 2
      /\ \A j \in 1..Len(frames) : frames'[j] = frames[j]
      /\ frames'[Len(frames) + 1] = def
      /\ frames'[Len(frames) + 2] = data
  BY <1>3, AppendTwice
<1>6. /\ mark' \in Seq(Nat)
      /\ Len(mark') = Len(mark) + 2
      /\ \A j \in 1..Len(mark) : mark'[j] = mark[j]
      /\ mark'[Len(mark) + 1] = c
      /\ mark'[Len(mark) + 2] = c + 1
  <2>1. ASSUME NEW a \in Nat, NEW b \in Nat, mark' = Append(Append(mark, a), b)
        PROVE  /\ mark' \in Seq(Nat)
               /\ Len(mark') = Len(mark) + 2
               /\ \A j \in 1..Len(mark) : mark'[j] = mark[j]
               /\ mark'[Len(mark) + 1] = a
               /\ mark'[Len(mark) + 2] = b
    BY ONLY <2>1, mark \in Seq(Nat), AppendTwice
  <2> QED
    BY ONLY <1>1, <1>4, <2>1
<1> QED
  BY <1>5, <1>6 DEF c

-----------------------------------------------------------------------------
(***************************************************************************)
(* The four ways in which a segment leaves the encoder.                    *)
(***************************************************************************)
Next1 == Head(todo).seg
NextId == TemplateID[Next1.pat]

More(announce, data) ==
    /\ frames' = Append(frames \o announce, data)
    /\ mark' = Append(mark \o [i \in DOMAIN announce |-> Carried(Len(mark))],
                      Carried(Len(mark)) + 1)
    /\ todo' = Tail(todo)
    /\ ~Severed
    /\ rd' = rd /\ cut' = cut /\ truth' = truth /\ ends' = ends

NoMore ==
    /\ frames' = frames /\ mark' = mark /\ todo' = todo
    /\ Severed
    /\ rd' = rd /\ cut' = cut /\ truth' = truth /\ ends' = ends

Fails == NoMore /\ defined' = defined

SendsRaw == More(<<>>, RawData(Next1)) /\ defined' = defined

SendsRef ==
    /\ Next1.pat \in Patterns
    /\ defined[NextId]
    /\ More(<<>>, TemplateRef(NextId, Next1.lane))
    /\ defined' = defined

SendsDefine(data) ==
    /\ Next1.pat \in Patterns
    /\ DefineFits(Next1)
    /\ ~defined[NextId]
    /\ More(<<TemplateDefine(NextId, Next1.pat)>>, data)
    /\ defined' = [defined EXCEPT ![NextId] = TRUE]

\* The segment the encoder works on is a segment.
LEMMA NextType ==
    ASSUME EncoderTypeOK, todo # <<>>
    PROVE  /\ Head(todo) \in Item
           /\ Next1 \in Seg
           /\ Next1.pat \in Patterns => NextId \in Ids
           /\ Tail(todo) \in Seq(Item)
           /\ Len(Tail(todo)) = Len(todo) - 1
           /\ Next1 = todo[1].seg
           /\ \A i \in 1..Len(Tail(todo)) : Tail(todo)[i] = todo[i + 1]
<1>1. todo \in Seq(Item)
  BY DEF EncoderTypeOK
<1>2. /\ Head(todo) \in Item
      /\ Tail(todo) \in Seq(Item)
      /\ Head(todo) = todo[1]
      /\ Len(Tail(todo)) = Len(todo) - 1
      /\ \A i \in 1..Len(Tail(todo)) : Tail(todo)[i] = todo[i + 1]
  BY ONLY <1>1, todo # <<>>, HeadTailProperties
<1>3. Next1 \in Seg
  BY <1>2 DEF Next1, Item
<1>4. Next1.pat \in Patterns => NextId \in Ids
  BY PatternsAssumption DEF NextId
<1> QED
  BY <1>2, <1>3, <1>4 DEF Next1

\* writeFrameCount writes everything it is given, or fails and writes nothing.
LEMMA WriteCases ==
    ASSUME NEW announce, NEW sizeAnnounce, NEW data, NEW sizeData,
           writeFrameCount(announce, sizeAnnounce, data, sizeData)
    PROVE  More(announce, data) \/ NoMore
BY Zenon DEF writeFrameCount, More, NoMore

\* Every branch of emitWithDelayedPromotionDefineRef is one of the four.
LEMMA EmitCases ==
    ASSUME EncoderTypeOK, Emit
    PROVE  /\ todo # <<>>
           /\ \/ Fails
              \/ SendsRaw
              \/ SendsRef
              \/ SendsDefine(RawData(Next1))
              \/ SendsDefine(TemplateRef(NextId, Next1.lane))
<1>1. todo # <<>>
  BY DEF Emit, EmitPlain, EmitUnpromoted, EmitDefine, EmitDefined, Sending
<1>2. Next1 \in Seg
  BY <1>1, NextType
<1>3. Candidate(Next1) => Next1.pat \in Patterns
  BY <1>2 DEF Candidate, Seg
<1>4. CASE EmitPlain
  <2>1. writeRaw(Next1) /\ defined' = defined
    BY <1>4 DEF EmitPlain, Next1
  <2> QED
    BY <1>1, <2>1, WriteCases DEF writeRaw, SendsRaw, Fails
<1>5. CASE EmitUnpromoted
  <2>1. writeRaw(Next1) /\ defined' = defined
    BY <1>5 DEF EmitUnpromoted, Next1
  <2> QED
    BY <1>1, <2>1, WriteCases DEF writeRaw, SendsRaw, Fails
<1>6. CASE EmitDefined
  <2>1. /\ Candidate(Next1)
        /\ defined[NextId]
        /\ defined' = defined
        /\ writeFrameCount(<<>>, 0, RefOrRaw(Next1), RefOrRawLen(Next1))
    BY <1>6 DEF EmitDefined, Next1, NextId
  <2>2. More(<<>>, RefOrRaw(Next1)) \/ NoMore
    BY <2>1, WriteCases
  <2> QED
    BY <1>1, <1>3, <2>1, <2>2 DEF RefOrRaw, SendsRaw, SendsRef, Fails, NextId
<1>7. CASE EmitDefine
  <2> DEFINE def == TemplateDefine(NextId, Next1.pat)
  <2>1. /\ Candidate(Next1)
        /\ DefineFits(Next1)
        /\ ~defined[NextId]
        /\ defined' = IF Severed THEN defined
                      ELSE [defined EXCEPT ![NextId] = TRUE]
        /\ writeFrameCount(<<def>>, HeaderSizeBytes + DefinePayloadLen(Next1.pat),
                           RefOrRaw(Next1), RefOrRawLen(Next1))
    BY <1>7 DEF EmitDefine, Next1, NextId
  <2>2. More(<<def>>, RefOrRaw(Next1)) \/ NoMore
    BY <2>1, WriteCases
  <2>3. CASE More(<<def>>, RefOrRaw(Next1))
    <3>1. ~Severed
      BY <2>3 DEF More
    <3>2. SendsDefine(RefOrRaw(Next1))
      BY <1>3, <2>1, <2>3, <3>1 DEF SendsDefine
    <3> QED
      BY <1>1, <3>2 DEF RefOrRaw, NextId
  <2>4. CASE NoMore
    BY <1>1, <2>1, <2>4 DEF NoMore, Fails
  <2> QED
    BY <2>2, <2>3, <2>4
<1> QED
  BY <1>1, <1>4, <1>5, <1>6, <1>7 DEF Emit

-----------------------------------------------------------------------------
(***************************************************************************)
(* Type correctness.                                                       *)
(***************************************************************************)

\* The four ways of sending keep the stream and the work list well-formed.
LEMMA EmitStreamType ==
    ASSUME WireTypeOK, EncoderTypeOK, Emit
    PROVE  /\ WireTypeOK'
           /\ todo' \in Seq(Item)
           /\ defined' \in [Ids -> BOOLEAN]
<1> USE DEF WireTypeOK, EncoderTypeOK
<1>0. todo # <<>>
  BY EmitCases
<1>1. CASE Fails
  BY <1>1 DEF Fails, NoMore
<1>2. ASSUME NEW data \in Frame, More(<<>>, data)
      PROVE  WireTypeOK' /\ todo' \in Seq(Item)
  <2>1. frames' \in Seq(Frame) /\ mark' \in Seq(Nat) /\ Len(frames') = Len(frames) + 1
    BY <1>2, AppendOne DEF More
  <2> QED
    BY <1>0, <1>2, <2>1, NextType DEF More
<1>3. ASSUME NEW def \in Frame, NEW data \in Frame, More(<<def>>, data)
      PROVE  WireTypeOK' /\ todo' \in Seq(Item)
  <2>1. frames' \in Seq(Frame) /\ mark' \in Seq(Nat) /\ Len(frames') = Len(frames) + 2
    BY <1>3, AppendTwo DEF More
  <2> QED
    BY <1>0, <1>3, <2>1, NextType DEF More
<1>4. /\ RawData(Next1) \in Frame
      /\ Next1.pat \in Patterns => /\ TemplateDefine(NextId, Next1.pat) \in Frame
                                   /\ TemplateRef(NextId, Next1.lane) \in Frame
  <2>1. Next1 \in Seg /\ (Next1.pat \in Patterns => NextId \in Ids)
    BY <1>0, NextType
  <2>2. Next1.lane \in Lanes
    BY <2>1 DEF Seg
  <2> QED
    BY <2>1, <2>2, FrameTypes
<1>5. CASE SendsRaw
  BY <1>2, <1>4, <1>5 DEF SendsRaw
<1>6. CASE SendsRef
  BY <1>2, <1>4, <1>6 DEF SendsRef
<1>7. ASSUME NEW data \in Frame, SendsDefine(data)
      PROVE  /\ WireTypeOK'
             /\ todo' \in Seq(Item)
             /\ defined' \in [Ids -> BOOLEAN]
  <2>1. WireTypeOK' /\ todo' \in Seq(Item)
    BY <1>3, <1>4, <1>7 DEF SendsDefine
  <2>2. defined' \in [Ids -> BOOLEAN]
    BY <1>7 DEF SendsDefine
  <2> QED
    BY <2>1, <2>2
<1>8. CASE SendsDefine(RawData(Next1))
  BY <1>4, <1>7, <1>8
<1>9. CASE SendsDefine(TemplateRef(NextId, Next1.lane))
  <2>1. Next1.pat \in Patterns
    BY <1>9 DEF SendsDefine
  <2> QED
    BY <1>4, <1>7, <1>9, <2>1
<1> QED
  BY <1>1, <1>5, <1>6, <1>8, <1>9, EmitCases

\* So do the encoder's counters and its dictionary.
LEMMA EmitCounterType ==
    ASSUME WireTypeOK, EncoderTypeOK, Emit
    PROVE  /\ encTemplates' \in [Ids -> Patterns \cup {NoPat}]
           /\ hits' \in [Ids -> Nat]
           /\ rawIn' \in Nat
           /\ wireOut' \in Nat
           /\ encStatus' \in {"run", "eof", "failed"}
<1> USE DEF EncoderTypeOK
<1>0. todo # <<>>
  BY EmitCases
<1>1. Head(todo) \in Item /\ Next1 \in Seg
  BY <1>0, NextType
<1>2. /\ Head(todo).charge \in Nat
      /\ SegLen(Next1) \in Nat
      /\ Next1.lane \in Lanes
      /\ LaneLen[Next1.lane] \in Nat
  BY <1>1, SegLenType, PartLenType DEF Item, Seg
<1>3. Candidate(Next1) => /\ Next1.pat \in Patterns
                          /\ NextId \in Ids
                          /\ PatLen[Next1.pat] \in Nat
  BY <1>1, PartLenType, PatternsAssumption DEF Candidate, Seg, NextId
<1>4. RefOrRawLen(Next1) \in Nat
  BY <1>2 DEF RefOrRawLen, RefPayloadLen
<1>5. ASSUME NEW announce, NEW sa \in Nat, NEW data, NEW sd \in Nat,
             writeFrameCount(announce, sa, data, sd)
      PROVE  rawIn' \in Nat /\ wireOut' \in Nat /\ encStatus' \in {"run", "eof", "failed"}
  <2>1. rawIn' = rawIn + Head(todo).charge
    BY <1>5 DEF writeFrameCount
  <2>2. \/ /\ wireOut' = wireOut + sa + HeaderSizeBytes + sd
           /\ encStatus' = encStatus
        \/ /\ wireOut' = wireOut + IF announce = <<>>
                                   THEN HeaderSizeBytes + sd ELSE sa
           /\ encStatus' = "failed"
    BY <1>5 DEF writeFrameCount
  <2> QED
    BY <1>2, <2>1, <2>2 DEF HeaderSizeBytes
<1>6. CASE EmitPlain
  <2>1. writeRaw(Next1) /\ encTemplates' = encTemplates /\ hits' = hits
    BY <1>6 DEF EmitPlain, Next1
  <2> QED
    BY <1>2, <1>5, <2>1 DEF writeRaw
<1>7. CASE EmitUnpromoted
  <2>1. /\ writeRaw(Next1)
        /\ encTemplates' = encTemplates
        /\ Candidate(Next1)
        /\ hits' = [hits EXCEPT ![NextId] = @ + 1]
    BY <1>7 DEF EmitUnpromoted, Hit, Next1, NextId
  <2>2. hits' \in [Ids -> Nat]
    BY <1>3, <2>1
  <2> QED
    BY <1>2, <1>5, <2>1, <2>2 DEF writeRaw
<1>8. CASE EmitDefined
  <2>1. /\ Candidate(Next1)
        /\ writeFrameCount(<<>>, 0, RefOrRaw(Next1), RefOrRawLen(Next1))
        /\ encTemplates' = encTemplates
        /\ hits' = [hits EXCEPT ![NextId] = @ + 1]
    BY <1>8 DEF EmitDefined, Hit, Next1, NextId
  <2>2. hits' \in [Ids -> Nat]
    BY <1>3, <2>1
  <2> QED
    BY <1>4, <1>5, <2>1, <2>2
<1>9. CASE EmitDefine
  <2>1. /\ Candidate(Next1)
        /\ writeFrameCount(<<TemplateDefine(NextId, Next1.pat)>>,
                           HeaderSizeBytes + DefinePayloadLen(Next1.pat),
                           RefOrRaw(Next1), RefOrRawLen(Next1))
        /\ encTemplates' = IF Severed THEN encTemplates
                           ELSE [encTemplates EXCEPT ![NextId] = Next1.pat]
        /\ hits' = [hits EXCEPT ![NextId] = @ + 1]
    BY <1>9 DEF EmitDefine, Hit, Next1, NextId
  <2>2. hits' \in [Ids -> Nat]
    BY <1>3, <2>1
  <2>3. encTemplates' \in [Ids -> Patterns \cup {NoPat}]
    BY <1>3, <2>1
  <2>4. HeaderSizeBytes + DefinePayloadLen(Next1.pat) \in Nat
    BY <1>3, <2>1 DEF HeaderSizeBytes, DefinePayloadLen
  <2> QED
    BY <1>4, <1>5, <2>1, <2>2, <2>3, <2>4
<1> QED
  BY <1>6, <1>7, <1>8, <1>9 DEF Emit

\* Accepting a request keeps the stream and the encoder well-formed.
LEMMA AcceptType ==
    ASSUME TypeOK, NEW r \in Requests, Accept(r)
    PROVE  WireTypeOK' /\ EncoderTypeOK'
<1> DEFINE segs == [i \in DOMAIN Items(r) |-> Items(r)[i].seg]
<1>1. Items(r) \in Seq(Item) /\ segs \in Seq(Seg) /\ Len(Items(r)) \in Nat
  BY ItemsType
<1>2. truth' = truth \o segs /\ truth \in Seq(Seg)
  BY DEF Accept, TypeOK, WireTypeOK
<1> HIDE DEF segs
<1>3. truth' \in Seq(Seg)
  BY <1>1, <1>2, ConcatProperties
<1>4. ends' \in Seq(Nat)
  <2>1. Len(truth) \in Nat
    BY <1>2
  <2> QED
    BY <1>1, <2>1 DEF Accept, TypeOK, WireTypeOK
<1> QED
  BY <1>1, <1>3, <1>4 DEF Accept, TypeOK, WireTypeOK, EncoderTypeOK

\* Every step of the encoder preserves the type invariant.
LEMMA EncoderStepType ==
    ASSUME TypeOK, EncoderStep
    PROVE  TypeOK'
<1>1. DecoderTypeOK'
  BY DEF TypeOK, EncoderStep, DecoderTypeOK, decVars, gatherVars
<1>2. CASE \E r \in Requests : Accept(r)
  BY <1>1, <1>2, AcceptType DEF TypeOK
<1>3. CASE SourceEnd
  BY <1>1, <1>3 DEF TypeOK, SourceEnd, WireTypeOK, wireVars, EncoderTypeOK
<1>4. CASE Emit
  BY <1>1, <1>4, EmitStreamType, EmitCounterType DEF TypeOK, EncoderTypeOK
<1> QED
  BY <1>2, <1>3, <1>4 DEF EncoderStep, EncoderNext

\* A request buffer that was just reset is well-formed.
LEMMA ResetType ==
    ASSUME resetReq
    PROVE  /\ req' \in Seq(Seg)
           /\ headerDone' \in BOOLEAN
           /\ contentLen' \in Nat \cup {-1}
           /\ bodyHave' \in Nat
<1>1. req' = <<>> /\ headerDone' = FALSE /\ contentLen' = -1 /\ bodyHave' = 0
  BY DEF resetReq
<1>2. req' \in Seq(Seg)
  BY <1>1, EmptySeq
<1> QED
  BY <1>1, <1>2

\* feed and flushReqIfComplete look at the text of all that is gathered.
LEMMA FeedIs ==
    ASSUME NEW s, FeedAndFlush(s)
    PROVE  \/ SegLen(s) = 0 /\ UNCHANGED <<gatherVars, sink, decStatus>>
           \/ /\ SegLen(s) > 0
              /\ Gather(Append(req, s), TextOf(Append(req, s)),
                        HeaderLen(TextOf(Append(req, s))),
                        LengthOf(TextOf(Append(req, s)), HeaderLen(TextOf(Append(req, s)))))
BY Zenon DEF FeedAndFlush

\* What is gathered is written, refused or kept.
LEMMA GatherIs ==
    ASSUME NEW q, NEW t, NEW end, NEW len, Gather(q, t, end, len)
    PROVE  \/ Stop("violation")
           \/ Flush(q)
           \/ /\ req' = q
              /\ headerDone' = (headerDone \/ end > 0)
              /\ contentLen' = len
              /\ bodyHave' = BodyHave(t, end)
              /\ UNCHANGED <<sink, decStatus>>
BY Zenon DEF Gather

\* feed and flushReqIfComplete keep the decoder's state well-formed.
LEMMA FeedType ==
    ASSUME DecoderTypeOK, NEW s \in Seg, FeedAndFlush(s)
    PROVE  /\ req' \in Seq(Seg)
           /\ headerDone' \in BOOLEAN
           /\ contentLen' \in Nat \cup {-1}
           /\ bodyHave' \in Nat
           /\ sink' \in Seq(Seg)
           /\ decStatus' \in {"run", "eof", "failed", "violation", "sinkfail"}
<1> DEFINE q == Append(req, s)
           t == TextOf(q)
           end == HeaderLen(t)
           len == LengthOf(t, end)
           ended == (headerDone \/ end > 0)
           have == BodyHave(t, end)
<1>1. q \in Seq(Seg)
  BY DEF DecoderTypeOK
<1>0. t \in Text /\ Len(t) \in Nat /\ end \in 0..Len(t)
  <2>1. t \in Text
    BY <1>1, TextType
  <2> HIDE DEF t
  <2> QED
    BY <2>1, HeaderLenIs DEF Text
<1>2. len \in Nat \cup {-1}
  <2>1. SubSeq(t, 1, end) \in Text
    BY <1>0 DEF Text
  <2> QED
    BY <2>1, ParseIs DEF DecoderTypeOK, LengthOf
<1>3. have \in Nat
  BY <1>0 DEF BodyHave
<1>4. ended \in BOOLEAN
  OBVIOUS
<1>5. \/ UNCHANGED <<gatherVars, sink, decStatus>>
      \/ Stop("violation")
      \/ Flush(q)
      \/ /\ req' = q
         /\ headerDone' = ended
         /\ contentLen' = len
         /\ bodyHave' = have
         /\ UNCHANGED <<sink, decStatus>>
  BY FeedIs, GatherIs
<1> HIDE DEF q, t, end, ended, len, have
<1>6. CASE UNCHANGED <<gatherVars, sink, decStatus>>
  BY <1>6 DEF DecoderTypeOK, gatherVars
<1>7. CASE Stop("violation")
  BY <1>7 DEF Stop, DecoderTypeOK, gatherVars
<1>8. CASE Flush(q)
  <2>1. sink \o q \in Seq(Seg)
    BY <1>1 DEF DecoderTypeOK
  <2>2. \A n \in 0..(Len(q) - 1) : sink \o SubSeq(q, 1, n) \in Seq(Seg)
    BY <1>1 DEF DecoderTypeOK
  <2> QED
    BY <1>8, <2>1, <2>2, ResetType DEF Flush, DecoderTypeOK, gatherVars
<1>9. CASE /\ req' = q
           /\ headerDone' = ended
           /\ contentLen' = len
           /\ bodyHave' = have
           /\ UNCHANGED <<sink, decStatus>>
  BY <1>1, <1>2, <1>3, <1>4, <1>9 DEF DecoderTypeOK
<1> QED
  BY <1>5, <1>6, <1>7, <1>8, <1>9

\* A frame that can be read is a frame.
LEMMA ReadableType ==
    ASSUME WireTypeOK, CutInv, Readable
    PROVE  rd + 1 \in 1..Len(frames) /\ frames[rd + 1] \in Frame
<1>1. rd \in Nat /\ Len(frames) \in Nat /\ rd < Len(frames)
  BY DEF WireTypeOK, Readable, CutInv
<1> QED
  BY <1>1 DEF WireTypeOK

\* Taking a frame moves the reader by one.
LEMMA ReceiveType ==
    ASSUME WireTypeOK, CutInv, NEW type, Receive(type)
    PROVE  WireTypeOK' /\ frames[rd + 1] \in Frame /\ frames[rd + 1].type = type
<1>1. Readable /\ rd' = rd + 1
  BY DEF Receive
<1>2. rd + 1 \in 1..Len(frames)
  BY <1>1, ReadableType
<1> QED
  BY <1>1, <1>2, ReadableType DEF Receive, WireTypeOK

\* Every step of the decoder preserves its type invariant, whoever sends.
LEMMA DecoderNextType ==
    ASSUME WireTypeOK, DecoderTypeOK, CutInv, DecoderNext
    PROVE  WireTypeOK' /\ DecoderTypeOK'
<1> DEFINE f == frames[rd + 1]
<1>2. CASE OnRawData
  <2>1. WireTypeOK' /\ f \in Frame /\ f.type = "RAW_DATA"
    BY <1>2, ReceiveType DEF OnRawData
  <2>2. f.seg \in Seg
    BY <2>1 DEF Frame
  <2> QED
    BY <1>2, <2>1, <2>2, FeedType DEF OnRawData, DecoderTypeOK
<1>3. CASE OnTemplateInline
  <2>1. WireTypeOK' /\ f \in Frame /\ f.type = "TEMPLATE_INLINE"
    BY <1>3, ReceiveType DEF OnTemplateInline
  <2>2. f.tid \in Ids /\ f.pat \in Patterns /\ f.lane \in Lanes
    BY <2>1 DEF Frame
  <2>3. [pat |-> f.pat, lane |-> f.lane] \in Seg
    BY <2>2 DEF Seg
  <2>4. /\ decTemplates' = [decTemplates EXCEPT ![f.tid] = f.pat]
        /\ FeedAndFlush([pat |-> f.pat, lane |-> f.lane])
        /\ epoch' = epoch
    BY <1>3 DEF OnTemplateInline
  <2>5. decTemplates' \in [Ids -> Patterns \cup {NoPat}]
    BY <2>2, <2>4 DEF DecoderTypeOK
  <2> QED
    BY <2>1, <2>3, <2>4, <2>5, FeedType DEF DecoderTypeOK
<1>4. CASE OnTemplateDefine
  <2>1. WireTypeOK' /\ f \in Frame /\ f.type = "TEMPLATE_DEFINE"
    BY <1>4, ReceiveType DEF OnTemplateDefine
  <2>2. f.tid \in Ids /\ f.pat \in Patterns
    BY <2>1 DEF Frame
  <2>3. /\ \/ /\ decTemplates' = [decTemplates EXCEPT ![f.tid] = f.pat]
              /\ decStatus' = decStatus
           \/ /\ decTemplates' = decTemplates
              /\ decStatus' = "violation"
        /\ UNCHANGED <<gatherVars, sink, epoch>>
    BY <1>4 DEF OnTemplateDefine
  <2>4. decTemplates' \in [Ids -> Patterns \cup {NoPat}]
    BY <2>2, <2>3 DEF DecoderTypeOK
  <2> QED
    BY <2>1, <2>3, <2>4 DEF DecoderTypeOK, gatherVars
<1>5. CASE OnTemplateRef
  <2>1. WireTypeOK' /\ f \in Frame /\ f.type = "TEMPLATE_REF"
    BY <1>5, ReceiveType DEF OnTemplateRef
  <2>2. f.tid \in Ids /\ f.lane \in Lanes
    BY <2>1 DEF Frame
  <2>3. decTemplates[f.tid] \in Patterns \cup {NoPat}
    BY <2>2 DEF DecoderTypeOK
  <2>4. [pat |-> decTemplates[f.tid], lane |-> f.lane] \in Seg
    BY <2>2, <2>3 DEF Seg
  <2>5. /\ \/ Stop("violation")
           \/ FeedAndFlush([pat |-> decTemplates[f.tid], lane |-> f.lane])
        /\ decTemplates' = decTemplates
        /\ epoch' = epoch
    BY <1>5 DEF OnTemplateRef
  <2>6. CASE Stop("violation")
    BY <2>1, <2>5, <2>6 DEF Stop, DecoderTypeOK, gatherVars
  <2>7. CASE FeedAndFlush([pat |-> decTemplates[f.tid], lane |-> f.lane])
    BY <2>1, <2>4, <2>5, <2>7, FeedType DEF DecoderTypeOK
  <2> QED
    BY <2>5, <2>6, <2>7
<1>6. CASE OnEpochReset
  <2>1. WireTypeOK' /\ f \in Frame /\ f.type = "EPOCH_RESET"
    BY <1>6, ReceiveType DEF OnEpochReset
  <2>2. f.epoch \in Nat
    BY <2>1 DEF Frame
  <2> QED
    BY <1>6, <2>1, <2>2, ResetType
    DEF OnEpochReset, NoTemplates, DecoderTypeOK
<1>7. CASE OnStreamEnd
  BY <1>7
  DEF OnStreamEnd, WireTypeOK, wireVars, DecoderTypeOK, gatherVars
<1> QED
  BY <1>2, <1>3, <1>4, <1>5, <1>6, <1>7 DEF DecoderNext

\* A step of the decoder of a lane preserves the type invariant of the lane.
LEMMA DecoderStepType ==
    ASSUME TypeOK, CutInv, DecoderStep
    PROVE  TypeOK'
<1>1. EncoderTypeOK'
  BY DEF TypeOK, DecoderStep, encVars, EncoderTypeOK
<1>2. WireTypeOK' /\ DecoderTypeOK'
  BY DecoderNextType DEF TypeOK, DecoderStep
<1> QED
  BY <1>1, <1>2 DEF TypeOK

-----------------------------------------------------------------------------
(***************************************************************************)
(* The stream invariant.                                                   *)
(***************************************************************************)
DataTypes == {"RAW_DATA", "TEMPLATE_REF"}

\* Sent counts segments of truth, and the next one to send comes right after.
LEMMA SentType ==
    ASSUME TypeOK, MarkInv, TodoInv
    PROVE  /\ Sent \in Nat
           /\ Len(mark) = Len(frames)
           /\ Sent = Carried(Len(mark))
           /\ Len(truth) \in Nat
           /\ todo # <<>> => Sent + 1 \in 1..Len(truth) /\ truth[Sent + 1] = Next1
<1>1. Len(mark) = Len(frames) /\ Sent = Carried(Len(mark)) /\ Len(mark) \in Nat
  BY DEF MarkInv, Sent, TypeOK, WireTypeOK
<1>2. Sent \in Nat
  BY <1>1, CarriedType DEF TypeOK, WireTypeOK
<1>3. Len(todo) \in Nat /\ Len(truth) \in Nat /\ Sent + Len(todo) = Len(truth)
  BY DEF TypeOK, EncoderTypeOK, WireTypeOK, TodoInv
<1>4. ASSUME todo # <<>>
      PROVE  Sent + 1 \in 1..Len(truth) /\ truth[Sent + 1] = Next1
  <2>1. Len(todo) >= 1
    BY <1>4 DEF TypeOK, EncoderTypeOK
  <2>2. Next1 = todo[1].seg
    BY <1>4, NextType DEF TypeOK
  <2> QED
    BY <1>2, <1>3, <2>1, <2>2 DEF TodoInv
<1> QED
  BY <1>1, <1>2, <1>3, <1>4

\* What is left to send after the next segment has gone.
LEMMA TodoShift ==
    ASSUME TypeOK, MarkInv, TodoInv, todo # <<>>,
           todo' = Tail(todo), truth' = truth, Sent' = Sent + 1
    PROVE  TodoInv'
<1>0. Sent \in Nat /\ Len(truth) \in Nat
  BY SentType
<1>1. /\ todo' = Tail(todo)
      /\ truth' = truth
      /\ Len(todo') = Len(todo) - 1
      /\ \A i \in 1..Len(todo') : todo'[i] = todo[i + 1]
      /\ Len(todo) \in Nat
      /\ Len(todo') \in Nat
  BY NextType DEF TypeOK, EncoderTypeOK
<1>2. Sent' + Len(todo') = Len(truth')
  BY <1>0, <1>1 DEF TodoInv
<1>3. \A i \in 1..Len(todo') : todo'[i].seg = truth'[Sent' + i]
  <2>1. SUFFICES ASSUME NEW i \in 1..Len(todo') PROVE todo[i + 1].seg = truth[Sent + 1 + i]
    BY <1>1
  <2>2. i + 1 \in 1..Len(todo)
    BY <1>1
  <2>3. todo[i + 1].seg = truth[Sent + (i + 1)]
    BY <2>2 DEF TodoInv
  <2> QED
    BY <1>0, <2>3
<1> QED
  BY <1>1, <1>2, <1>3 DEF TodoInv

\* One data frame more on the stream carries the next segment of truth.
LEMMA OneMore ==
    ASSUME TypeOK, MarkInv, TodoInv, todo # <<>>,
           NEW data \in Frame, data.type \in DataTypes, More(<<>>, data)
    PROVE  /\ MarkInv'
           /\ TodoInv'
           /\ Len(frames') = Len(frames) + 1
           /\ \A j \in 1..Len(frames) : frames'[j] = frames[j] /\ mark'[j] = mark[j]
           /\ frames'[Len(frames) + 1] = data
           /\ mark'[Len(frames) + 1] = Sent + 1
<1> DEFINE n == Len(frames)
<1>1. /\ Sent \in Nat /\ Len(mark) = n /\ Sent = Carried(Len(mark))
      /\ Len(truth) \in Nat /\ n \in Nat
  BY SentType DEF TypeOK, WireTypeOK
<1>2. /\ Len(frames') = n + 1
      /\ Len(mark') = n + 1
      /\ \A j \in 1..n : frames'[j] = frames[j] /\ mark'[j] = mark[j]
      /\ frames'[n + 1] = data
      /\ mark'[n + 1] = Sent + 1
  BY <1>1, AppendOne DEF More, TypeOK, WireTypeOK
<1>3. Sent' = Sent + 1
  BY <1>1, <1>2 DEF Sent, Carried
<1>4. MarkInv'
  <2>1. SUFFICES ASSUME NEW j \in 1..(n + 1)
                 PROVE  /\ frames'[j].type \in
                              {"RAW_DATA", "TEMPLATE_DEFINE", "TEMPLATE_REF"}
                        /\ mark'[j] = Carried(j - 1)' + IF IsDefine(j)' THEN 0 ELSE 1
                        /\ mark'[j] <= Sent'
    BY <1>1, <1>2 DEF MarkInv
  <2>2. CASE j \in 1..n
    <3>1. /\ frames[j].type \in {"RAW_DATA", "TEMPLATE_DEFINE", "TEMPLATE_REF"}
          /\ mark[j] = Carried(j - 1) + IF IsDefine(j) THEN 0 ELSE 1
          /\ mark[j] <= Sent
      BY <2>2 DEF MarkInv
    <3>2. Carried(j - 1)' = Carried(j - 1)
      <4>1. CASE j = 1
        BY <4>1 DEF Carried
      <4>2. CASE j # 1
        <5>1. j - 1 \in 1..n /\ j - 1 # 0
          BY <1>1, <2>2, <4>2
        <5>2. mark'[j - 1] = mark[j - 1]
          BY <1>2, <5>1
        <5> QED
          BY <5>1, <5>2 DEF Carried
      <4> QED
        BY <4>1, <4>2
    <3>3. mark[j] \in Nat
      BY <1>1, <2>2 DEF TypeOK, WireTypeOK
    <3> QED
      BY <1>1, <1>2, <1>3, <2>2, <3>1, <3>2, <3>3 DEF IsDefine
  <2>3. CASE j = n + 1
    <3>1. Carried(j - 1)' = Sent
      BY <1>1, <1>2, <2>3 DEF Carried
    <3>2. ~IsDefine(j)'
      BY <1>2, <2>3 DEF IsDefine, DataTypes
    <3> QED
      BY <1>1, <1>2, <1>3, <2>3, <3>1, <3>2 DEF DataTypes
  <2> QED
    BY <1>1, <2>2, <2>3
<1>5. TodoInv'
  BY <1>3, TodoShift DEF More
<1> QED
  BY <1>2, <1>4, <1>5

\* So does a definition and a data frame after it.
LEMMA TwoMore ==
    ASSUME TypeOK, MarkInv, TodoInv, todo # <<>>,
           NEW def \in Frame, def.type = "TEMPLATE_DEFINE",
           NEW data \in Frame, data.type \in DataTypes, More(<<def>>, data)
    PROVE  /\ MarkInv'
           /\ TodoInv'
           /\ Len(frames') = Len(frames) + 2
           /\ \A j \in 1..Len(frames) : frames'[j] = frames[j] /\ mark'[j] = mark[j]
           /\ frames'[Len(frames) + 1] = def
           /\ frames'[Len(frames) + 2] = data
           /\ mark'[Len(frames) + 2] = Sent + 1
<1> DEFINE n == Len(frames)
<1>1. /\ Sent \in Nat /\ Len(mark) = n /\ Sent = Carried(Len(mark))
      /\ Len(truth) \in Nat /\ n \in Nat
  BY SentType DEF TypeOK, WireTypeOK
<1>2. /\ Len(frames') = n + 2
      /\ Len(mark') = n + 2
      /\ \A j \in 1..n : frames'[j] = frames[j] /\ mark'[j] = mark[j]
      /\ frames'[n + 1] = def
      /\ mark'[n + 1] = Sent
      /\ frames'[n + 2] = data
      /\ mark'[n + 2] = Sent + 1
  BY <1>1, AppendTwo DEF More, TypeOK, WireTypeOK
<1>3. Sent' = Sent + 1
  BY <1>1, <1>2 DEF Sent, Carried
<1>4. MarkInv'
  <2>1. SUFFICES ASSUME NEW j \in 1..(n + 2)
                 PROVE  /\ frames'[j].type \in
                              {"RAW_DATA", "TEMPLATE_DEFINE", "TEMPLATE_REF"}
                        /\ mark'[j] = Carried(j - 1)' + IF IsDefine(j)' THEN 0 ELSE 1
                        /\ mark'[j] <= Sent'
    BY <1>1, <1>2 DEF MarkInv
  <2>2. CASE j \in 1..n
    <3>1. /\ frames[j].type \in {"RAW_DATA", "TEMPLATE_DEFINE", "TEMPLATE_REF"}
          /\ mark[j] = Carried(j - 1) + IF IsDefine(j) THEN 0 ELSE 1
          /\ mark[j] <= Sent
      BY <2>2 DEF MarkInv
    <3>2. Carried(j - 1)' = Carried(j - 1)
      <4>1. CASE j = 1
        BY <4>1 DEF Carried
      <4>2. CASE j # 1
        <5>1. j - 1 \in 1..n /\ j - 1 # 0
          BY <1>1, <2>2, <4>2
        <5>2. mark'[j - 1] = mark[j - 1]
          BY <1>2, <5>1
        <5> QED
          BY <5>1, <5>2 DEF Carried
      <4> QED
        BY <4>1, <4>2
    <3>3. mark[j] \in Nat
      BY <1>1, <2>2 DEF TypeOK, WireTypeOK
    <3> QED
      BY <1>1, <1>2, <1>3, <2>2, <3>1, <3>2, <3>3 DEF IsDefine
  <2>3. CASE j = n + 1
    <3>1. Carried(j - 1)' = Sent
      BY <1>1, <1>2, <2>3 DEF Carried
    <3>2. IsDefine(j)'
      BY <1>2, <2>3 DEF IsDefine
    <3> QED
      BY <1>1, <1>2, <1>3, <2>3, <3>1, <3>2
  <2>4. CASE j = n + 2
    <3>1. Carried(j - 1)' = Sent
      <4>1. j - 1 = n + 1 /\ n + 1 # 0
        BY <1>1, <2>4
      <4> QED
        BY <1>2, <4>1 DEF Carried
    <3>2. ~IsDefine(j)'
      BY <1>2, <2>4 DEF IsDefine, DataTypes
    <3> QED
      BY <1>1, <1>2, <1>3, <2>4, <3>1, <3>2 DEF DataTypes
  <2> QED
    BY <1>1, <2>2, <2>3, <2>4
<1>5. TodoInv'
  BY <1>3, TodoShift DEF More
<1> QED
  BY <1>2, <1>4, <1>5

\* A frame that was on the stream still says what its segment is.
LEMMA OldFrames ==
    ASSUME TypeOK, MarkInv, TodoInv, FrameInv, NEW j \in 1..Len(frames),
           frames'[j] = frames[j], mark'[j] = mark[j],
           \A i \in 1..Len(truth) : truth'[i] = truth[i]
    PROVE  /\ frames'[j].type = "RAW_DATA" => frames'[j].seg = truth'[mark'[j]]
           /\ frames'[j].type = "TEMPLATE_REF" =>
                 /\ truth'[mark'[j]].pat \in Patterns
                 /\ TemplateID[truth'[mark'[j]].pat] = frames'[j].tid
                 /\ truth'[mark'[j]].lane = frames'[j].lane
           /\ IsDefine(j)' => TemplateID[frames'[j].pat] = frames'[j].tid
<1>1. CASE IsDefine(j)
  BY <1>1 DEF IsDefine, FrameInv
<1>2. CASE ~IsDefine(j)
  <2>1. mark[j] = Carried(j - 1) + 1 /\ mark[j] <= Sent
    BY <1>2 DEF MarkInv
  <2>2. Carried(j - 1) \in Nat /\ mark[j] \in Nat
    <3>1. /\ mark \in Seq(Nat) /\ Len(mark) = Len(frames)
          /\ Len(frames) \in Nat /\ j - 1 \in 0..Len(mark)
      BY SentType DEF TypeOK, WireTypeOK
    <3> QED
      BY <3>1, CarriedType
  <2>3. mark[j] \in 1..Len(truth)
    <3>1. Sent <= Len(truth) /\ Sent \in Nat /\ Len(truth) \in Nat
      BY SentType DEF TodoInv, TypeOK, EncoderTypeOK
    <3> QED
      BY <2>1, <2>2, <3>1
  <2>4. truth'[mark'[j]] = truth[mark[j]]
    BY <2>3
  <2> QED
    BY <1>2, <2>4 DEF IsDefine, FrameInv
<1> QED
  BY <1>1, <1>2

\* A new data frame says what its segment is, whichever form it takes.
LEMMA NewFrame ==
    ASSUME TypeOK, MarkInv, TodoInv, todo # <<>>,
           NEW data,
           \/ data = RawData(Next1)
           \/ data = TemplateRef(NextId, Next1.lane) /\ Next1.pat \in Patterns
    PROVE  /\ data \in Frame
           /\ data.type \in DataTypes
           /\ data.type = "RAW_DATA" => data.seg = truth[Sent + 1]
           /\ data.type = "TEMPLATE_REF" =>
                 /\ truth[Sent + 1].pat \in Patterns
                 /\ TemplateID[truth[Sent + 1].pat] = data.tid
                 /\ truth[Sent + 1].lane = data.lane
                 /\ data.tid = NextId
<1>1. truth[Sent + 1] = Next1
  BY SentType
<1>2. Next1 \in Seg /\ (Next1.pat \in Patterns => NextId \in Ids)
  BY NextType DEF TypeOK
<1>3. Next1.lane \in Lanes
  BY <1>2 DEF Seg
<1>4. data \in Frame
  BY <1>2, <1>3, FrameTypes
<1> QED
  BY <1>1, <1>4 DEF RawData, TemplateRef, DataTypes, NextId

\* Writing one data frame keeps the stream invariant; a reference is written
\* only for an id that the encoder has defined.
LEMMA OneMoreInv ==
    ASSUME StreamInv, todo # <<>>, NEW data, More(<<>>, data), defined' = defined,
           \/ data = RawData(Next1)
           \/ /\ data = TemplateRef(NextId, Next1.lane)
              /\ Next1.pat \in Patterns
              /\ defined[NextId]
    PROVE  MarkInv' /\ TodoInv' /\ FrameInv' /\ DefinedInv'
<1> DEFINE n == Len(frames)
<1> USE DEF StreamInv
<1>1. /\ data \in Frame
      /\ data.type \in DataTypes
      /\ data.type = "RAW_DATA" => data.seg = truth[Sent + 1]
      /\ data.type = "TEMPLATE_REF" =>
            /\ truth[Sent + 1].pat \in Patterns
            /\ TemplateID[truth[Sent + 1].pat] = data.tid
            /\ truth[Sent + 1].lane = data.lane
            /\ data.tid = NextId
  BY NewFrame
<1>2. /\ MarkInv' /\ TodoInv'
      /\ Len(frames') = n + 1
      /\ \A j \in 1..n : frames'[j] = frames[j] /\ mark'[j] = mark[j]
      /\ frames'[n + 1] = data
      /\ mark'[n + 1] = Sent + 1
  BY <1>1, OneMore
<1>3. n \in Nat /\ truth' = truth
  BY DEF TypeOK, WireTypeOK, More
<1>4. FrameInv'
  <2>1. SUFFICES ASSUME NEW j \in 1..(n + 1)
        PROVE  /\ frames'[j].type = "RAW_DATA" => frames'[j].seg = truth'[mark'[j]]
               /\ frames'[j].type = "TEMPLATE_REF" =>
                     /\ truth'[mark'[j]].pat \in Patterns
                     /\ TemplateID[truth'[mark'[j]].pat] = frames'[j].tid
                     /\ truth'[mark'[j]].lane = frames'[j].lane
               /\ IsDefine(j)' => TemplateID[frames'[j].pat] = frames'[j].tid
    BY <1>2 DEF FrameInv
  <2>2. CASE j \in 1..n
    BY <1>2, <1>3, <2>2, OldFrames
  <2>3. CASE j = n + 1
    BY <1>1, <1>2, <1>3, <2>3 DEF IsDefine, DataTypes
  <2> QED
    BY <1>3, <2>2, <2>3
<1>5. DefinedInv'
  <2>1. \A j \in 1..n : IsDefine(j)' <=> IsDefine(j)
    BY <1>2 DEF IsDefine
  <2>2. frames'[n + 1].type # "TEMPLATE_DEFINE"
    BY <1>1, <1>2 DEF DataTypes
  <2>3. \A j \in 1..(n + 1) : j \in 1..n \/ j = n + 1
    BY <1>3
  <2>4. \A t \in Ids : defined'[t] <=>
           \E j \in 1..Len(frames') : IsDefine(j)' /\ frames'[j].tid = t
    <3>1. SUFFICES ASSUME NEW t \in Ids
                   PROVE  (\E j \in 1..n : IsDefine(j) /\ frames[j].tid = t) <=>
                          \E j \in 1..(n + 1) : IsDefine(j)' /\ frames'[j].tid = t
      BY <1>2 DEF DefinedInv
    <3>2. 1..n \subseteq 1..(n + 1)
      BY <1>3
    <3>3. \A j \in 1..(n + 1) : IsDefine(j)' => j \in 1..n
      BY <2>2, <2>3 DEF IsDefine
    <3> QED
      BY <1>2, <2>1, <3>2, <3>3
  <2>5. ASSUME NEW j \in 1..(n + 1), frames'[j].type = "TEMPLATE_REF"
        PROVE  \E i \in 1..(j - 1) : IsDefine(i)' /\ frames'[i].tid = frames'[j].tid
    <3>1. CASE j \in 1..n
      <4>1. PICK i \in 1..(j - 1) : IsDefine(i) /\ frames[i].tid = frames[j].tid
        BY <1>2, <2>5, <3>1 DEF DefinedInv
      <4>2. i \in 1..n
        BY <1>3
      <4> QED
        BY <1>2, <2>1, <3>1, <4>1, <4>2
    <3>2. CASE j = n + 1
      <4>1. data.type = "TEMPLATE_REF" /\ data.tid = NextId
        BY <1>1, <1>2, <2>5, <3>2
      <4>2. defined[NextId] /\ Next1.pat \in Patterns
        BY <4>1 DEF RawData
      <4>3. NextId \in Ids
        BY <4>2, NextType DEF TypeOK
      <4>4. PICK i \in 1..n : IsDefine(i) /\ frames[i].tid = NextId
        BY <4>2, <4>3 DEF DefinedInv
      <4>5. i \in 1..(j - 1)
        BY <1>3, <3>2
      <4> QED
        BY <1>2, <2>1, <3>2, <4>1, <4>4, <4>5
    <3> QED
      BY <2>3, <3>1, <3>2
  <2> QED
    BY <1>2, <2>4, <2>5 DEF DefinedInv
<1> QED
  BY <1>2, <1>4, <1>5

\* Writing a definition and then a data frame keeps the stream invariant.
LEMMA TwoMoreInv ==
    ASSUME StreamInv, todo # <<>>, NEW data, SendsDefine(data),
           \/ data = RawData(Next1)
           \/ data = TemplateRef(NextId, Next1.lane)
    PROVE  MarkInv' /\ TodoInv' /\ FrameInv' /\ DefinedInv'
<1> DEFINE n == Len(frames)
           def == TemplateDefine(NextId, Next1.pat)
<1> USE DEF StreamInv
<1>0. /\ Next1.pat \in Patterns
      /\ More(<<def>>, data)
      /\ defined' = [defined EXCEPT ![NextId] = TRUE]
  BY DEF SendsDefine
<1>1. /\ data \in Frame
      /\ data.type \in DataTypes
      /\ data.type = "RAW_DATA" => data.seg = truth[Sent + 1]
      /\ data.type = "TEMPLATE_REF" =>
            /\ truth[Sent + 1].pat \in Patterns
            /\ TemplateID[truth[Sent + 1].pat] = data.tid
            /\ truth[Sent + 1].lane = data.lane
            /\ data.tid = NextId
  BY <1>0, NewFrame
<1>2. NextId \in Ids
  BY <1>0, NextType DEF TypeOK
<1>3. /\ def \in Frame
      /\ def.type = "TEMPLATE_DEFINE"
      /\ def.tid = NextId
      /\ TemplateID[def.pat] = def.tid
  BY <1>0, <1>2, FrameTypes DEF TemplateDefine, NextId
<1>4. /\ MarkInv' /\ TodoInv'
      /\ Len(frames') = n + 2
      /\ \A j \in 1..n : frames'[j] = frames[j] /\ mark'[j] = mark[j]
      /\ frames'[n + 1] = def
      /\ frames'[n + 2] = data
      /\ mark'[n + 2] = Sent + 1
  BY <1>0, <1>1, <1>3, TwoMore
<1> HIDE DEF def
<1>5. n \in Nat /\ truth' = truth
  BY <1>0 DEF TypeOK, WireTypeOK, More
<1>6. \A j \in 1..(n + 2) : j \in 1..n \/ j = n + 1 \/ j = n + 2
  BY <1>5
<1>7. FrameInv'
  <2>1. SUFFICES ASSUME NEW j \in 1..(n + 2)
        PROVE  /\ frames'[j].type = "RAW_DATA" => frames'[j].seg = truth'[mark'[j]]
               /\ frames'[j].type = "TEMPLATE_REF" =>
                     /\ truth'[mark'[j]].pat \in Patterns
                     /\ TemplateID[truth'[mark'[j]].pat] = frames'[j].tid
                     /\ truth'[mark'[j]].lane = frames'[j].lane
               /\ IsDefine(j)' => TemplateID[frames'[j].pat] = frames'[j].tid
    BY <1>4 DEF FrameInv
  <2>2. CASE j \in 1..n
    BY <1>4, <1>5, <2>2, OldFrames
  <2>3. CASE j = n + 1
    BY <1>3, <1>4, <2>3 DEF IsDefine
  <2>4. CASE j = n + 2
    BY <1>1, <1>4, <1>5, <2>4 DEF IsDefine, DataTypes
  <2> QED
    BY <1>6, <2>2, <2>3, <2>4
<1>8. DefinedInv'
  <2>1. \A j \in 1..n : IsDefine(j)' <=> IsDefine(j)
    BY <1>4 DEF IsDefine
  <2>2. ASSUME NEW t \in Ids
        PROVE  defined'[t] <=>
                 \E j \in 1..(n + 2) : IsDefine(j)' /\ frames'[j].tid = t
    <3>1. CASE t = NextId
      <4>1. defined'[t]
        BY <1>0, <1>2, <3>1 DEF TypeOK, EncoderTypeOK
      <4>2. n + 1 \in 1..(n + 2)
        BY <1>5
      <4>3. frames'[n + 1].type = "TEMPLATE_DEFINE" /\ frames'[n + 1].tid = t
        BY <1>3, <1>4, <3>1
      <4>4. \E j \in 1..(n + 2) : IsDefine(j)' /\ frames'[j].tid = t
        BY <4>2, <4>3 DEF IsDefine
      <4> QED
        BY <4>1, <4>4
    <3>2. CASE t # NextId
      <4>1. defined'[t] = defined[t]
        BY <1>0, <1>2, <3>2 DEF TypeOK, EncoderTypeOK
      <4>2. \A j \in 1..(n + 2) : (IsDefine(j)' /\ frames'[j].tid = t) => j \in 1..n
        BY <1>1, <1>3, <1>4, <1>6, <3>2 DEF IsDefine, DataTypes
      <4>3. 1..n \subseteq 1..(n + 2)
        BY <1>5
      <4>4. (\E j \in 1..n : IsDefine(j) /\ frames[j].tid = t) <=>
            \E j \in 1..(n + 2) : IsDefine(j)' /\ frames'[j].tid = t
        BY <1>4, <2>1, <4>2, <4>3
      <4> QED
        BY <4>1, <4>4 DEF DefinedInv
    <3> QED
      BY <3>1, <3>2
  <2>3. ASSUME NEW j \in 1..(n + 2), frames'[j].type = "TEMPLATE_REF"
        PROVE  \E i \in 1..(j - 1) : IsDefine(i)' /\ frames'[i].tid = frames'[j].tid
    <3>1. CASE j \in 1..n
      <4>1. PICK i \in 1..(j - 1) : IsDefine(i) /\ frames[i].tid = frames[j].tid
        BY <1>4, <2>3, <3>1 DEF DefinedInv
      <4>2. i \in 1..n
        BY <1>5, <3>1
      <4> QED
        BY <1>4, <2>1, <3>1, <4>1, <4>2
    <3>2. CASE j = n + 1
      BY <1>3, <1>4, <2>3, <3>2
    <3>3. CASE j = n + 2
      <4>1. n + 1 \in 1..(j - 1)
        BY <1>5, <3>3
      <4>2. frames'[n + 1].type = "TEMPLATE_DEFINE" /\ frames'[n + 1].tid = frames'[j].tid
        BY <1>1, <1>3, <1>4, <2>3, <3>3
      <4> QED
        BY <4>1, <4>2 DEF IsDefine
    <3> QED
      BY <1>6, <3>1, <3>2, <3>3
  <2> QED
    BY <1>4, <2>2, <2>3 DEF DefinedInv
<1> QED
  BY <1>4, <1>7, <1>8

\* Sending keeps the stream invariant.
LEMMA EmitInv ==
    ASSUME StreamInv, Emit
    PROVE  MarkInv' /\ TodoInv' /\ FrameInv' /\ DefinedInv' /\ CutInv'
<1>0. EncoderTypeOK /\ todo # <<>>
  BY EmitCases DEF StreamInv, TypeOK
<1>1. CASE Fails
  BY <1>1 DEF Fails, NoMore, StreamInv, MarkInv, TodoInv, FrameInv, DefinedInv,
              CutInv, Severed, Sent, Carried, IsDefine
<1>2. ASSUME NEW announce, NEW data, More(announce, data)
      PROVE  CutInv'
  BY <1>2 DEF More, CutInv, Severed
<1>3. CASE SendsRaw
  BY <1>0, <1>2, <1>3, OneMoreInv DEF SendsRaw
<1>4. CASE SendsRef
  BY <1>0, <1>2, <1>4, OneMoreInv DEF SendsRef
<1>5. ASSUME NEW data, SendsDefine(data)
      PROVE  CutInv'
  BY <1>2, <1>5 DEF SendsDefine
<1>6. CASE SendsDefine(RawData(Next1))
  BY <1>0, <1>5, <1>6, TwoMoreInv
<1>7. CASE SendsDefine(TemplateRef(NextId, Next1.lane))
  BY <1>0, <1>5, <1>7, TwoMoreInv
<1> QED
  BY <1>0, <1>1, <1>3, <1>4, <1>6, <1>7, EmitCases

\* The two parts of a concatenation.
LEMMA ConcatParts ==
    ASSUME NEW S, NEW s \in Seq(S), NEW t \in Seq(S)
    PROVE  /\ Len(s \o t) = Len(s) + Len(t)
           /\ \A i \in 1..Len(s) : (s \o t)[i] = s[i]
           /\ \A i \in 1..Len(t) : (s \o t)[Len(s) + i] = t[i]
<1>1. Len(s) \in Nat /\ Len(t) \in Nat
  OBVIOUS
<1>2. /\ Len(s \o t) = Len(s) + Len(t)
      /\ \A i \in 1..Len(s) + Len(t) :
            (s \o t)[i] = IF i <= Len(s) THEN s[i] ELSE t[i - Len(s)]
  BY ConcatProperties
<1>3. ASSUME NEW i \in 1..Len(s) PROVE (s \o t)[i] = s[i]
  <2>1. i \in 1..Len(s) + Len(t) /\ i <= Len(s)
    BY <1>1
  <2> QED
    BY <1>2, <2>1
<1>4. ASSUME NEW i \in 1..Len(t) PROVE (s \o t)[Len(s) + i] = t[i]
  <2>1. /\ Len(s) + i \in 1..Len(s) + Len(t) /\ ~(Len(s) + i <= Len(s))
        /\ (Len(s) + i) - Len(s) = i
    BY <1>1
  <2> QED
    BY <1>2, <2>1
<1> QED
  BY <1>2, <1>3, <1>4

\* Accepting a request adds the same segments to truth and to what is left to
\* send.
LEMMA AcceptInv ==
    ASSUME StreamInv, NEW r \in Requests, Accept(r)
    PROVE  MarkInv' /\ TodoInv' /\ FrameInv' /\ DefinedInv' /\ CutInv'
<1> DEFINE it == Items(r)
           segs == [i \in DOMAIN it |-> it[i].seg]
<1> USE DEF StreamInv
<1>1. /\ it \in Seq(Item)
      /\ segs \in Seq(Seg)
      /\ Len(segs) = Len(it)
      /\ \A i \in 1..Len(it) : SegLen(it[i].seg) > 0
  BY ItemsType
<1>2. /\ todo = <<>> /\ todo' = it /\ truth' = truth \o segs
      /\ frames' = frames /\ mark' = mark /\ rd' = rd /\ cut' = cut
      /\ defined' = defined
  BY DEF Accept
<1>3. \A i \in 1..Len(it) : segs[i] = it[i].seg
  BY <1>1
<1> HIDE DEF it, segs
<1>4. truth \in Seq(Seg) /\ Len(truth) \in Nat /\ Len(it) \in Nat
  BY <1>1 DEF TypeOK, WireTypeOK
<1>5. /\ Len(truth') = Len(truth) + Len(it)
      /\ \A i \in 1..Len(truth) : truth'[i] = truth[i]
      /\ \A i \in 1..Len(it) : truth'[Len(truth) + i] = it[i].seg
  <2>1. segs \in Seq(Seg) /\ truth \in Seq(Seg)
    BY <1>1, <1>4
  <2>2. ASSUME NEW t \in Seq(Seg), NEW u \in Seq(Seg)
        PROVE  /\ Len(t \o u) = Len(t) + Len(u)
               /\ \A i \in 1..Len(t) : (t \o u)[i] = t[i]
               /\ \A i \in 1..Len(u) : (t \o u)[Len(t) + i] = u[i]
    BY ConcatParts
  <2>3. /\ Len(truth \o segs) = Len(truth) + Len(segs)
        /\ \A i \in 1..Len(truth) : (truth \o segs)[i] = truth[i]
        /\ \A i \in 1..Len(segs) : (truth \o segs)[Len(truth) + i] = segs[i]
    BY ONLY <2>1, <2>2, Zenon
  <2> QED
    BY <1>1, <1>2, <1>3, <2>3
<1>6. Sent' = Sent /\ Sent \in Nat /\ Sent = Len(truth)
  <2>1. Sent' = Sent
    BY <1>2 DEF Sent, Carried
  <2>2. Sent + Len(todo) = Len(truth) /\ Len(todo) = 0
    BY <1>2 DEF TodoInv
  <2> QED
    BY <2>1, <2>2, SentType
<1>7. TodoInv'
  <2>1. \A i \in 1..Len(truth') : SegLen(truth'[i]) > 0
    <3>1. SUFFICES ASSUME NEW i \in 1..Len(truth') PROVE SegLen(truth'[i]) > 0
      OBVIOUS
    <3>2. CASE i \in 1..Len(truth)
      BY <1>5, <3>2 DEF TodoInv
    <3>3. CASE i \notin 1..Len(truth)
      <4>1. i - Len(truth) \in 1..Len(it) /\ Len(truth) + (i - Len(truth)) = i
        BY <1>4, <1>5, <3>3
      <4> QED
        BY <1>1, <1>5, <4>1
    <3> QED
      BY <3>2, <3>3
  <2>2. /\ Sent' + Len(todo') = Len(truth')
        /\ \A i \in 1..Len(todo') : todo'[i].seg = truth'[Sent' + i]
    BY <1>2, <1>5, <1>6
  <2>3. (\A i \in 1..Len(truth) : SegLen(truth[i]) > 0)'
    BY <2>1 DEF SegLen
  <2> QED
    BY <2>2, <2>3 DEF TodoInv
<1>8. MarkInv' /\ DefinedInv' /\ CutInv'
  BY <1>2 DEF MarkInv, DefinedInv, CutInv, Severed, Sent, Carried, IsDefine
<1>9. FrameInv'
  BY <1>2, <1>5, OldFrames DEF FrameInv
<1> QED
  BY <1>7, <1>8, <1>9

\* A step that touches neither the stream nor the encoder keeps its invariant.
LEMMA QuietInv ==
    ASSUME StreamInv, UNCHANGED <<frames, mark, truth, todo, defined>>
    PROVE  MarkInv' /\ TodoInv' /\ FrameInv' /\ DefinedInv'
<1>1. /\ frames' = frames /\ mark' = mark /\ truth' = truth
      /\ todo' = todo /\ defined' = defined
      /\ MarkInv /\ TodoInv /\ FrameInv /\ DefinedInv
  BY DEF StreamInv
<1>2. MarkInv'
  BY <1>1 DEF MarkInv, Sent, Carried, IsDefine
<1>3. TodoInv'
  BY <1>1 DEF TodoInv, Sent, Carried, SegLen
<1>4. FrameInv'
  BY <1>1 DEF FrameInv, IsDefine
<1>5. DefinedInv'
  BY <1>1 DEF DefinedInv, IsDefine
<1> QED
  BY <1>2, <1>3, <1>4, <1>5

\* A decoder step takes a frame that is there, or ends the decoder.
LEMMA DecoderCut ==
    ASSUME TypeOK, CutInv, DecoderStep
    PROVE  /\ CutInv'
           /\ UNCHANGED <<frames, mark, truth, todo, defined>>
<1>1. CASE OnStreamEnd
  BY <1>1 DEF OnStreamEnd, wireVars, CutInv, Severed, DecoderStep, encVars
<1>2. ASSUME NEW type, Receive(type)
      PROVE  CutInv' /\ UNCHANGED <<frames, mark, truth>>
  <2>1. /\ Readable /\ rd' = rd + 1
        /\ frames' = frames /\ mark' = mark /\ truth' = truth /\ cut' = cut
    BY <1>2 DEF Receive
  <2>2. rd \in Nat /\ cut.at \in Nat
    BY DEF TypeOK, WireTypeOK
  <2> QED
    BY <2>1, <2>2 DEF CutInv, Severed, Readable
<1> QED
  BY <1>1, <1>2 DEF DecoderStep, DecoderNext, encVars, OnRawData, OnTemplateInline,
                    OnTemplateDefine, OnTemplateRef, OnEpochReset

\* A break of the connection preserves the type invariant.
LEMMA BreakType ==
    ASSUME TypeOK, CutInv, Break \/ DecoderHangUp
    PROVE  TypeOK' /\ CutInv' /\ UNCHANGED <<frames, mark, truth, todo, defined>>
<1>0. rd \in Nat /\ Len(frames) \in Nat /\ rd <= Len(frames)
  BY DEF TypeOK, WireTypeOK
<1>1. /\ UNCHANGED <<frames, rd, truth, ends, mark, encVars, decVars>>
      /\ \E k \in rd..Len(frames), t \in CutTails : cut' = [at |-> k, tail |-> t]
  <2>1. CASE Break
    BY <2>1 DEF Break, Sever
  <2>2. CASE DecoderHangUp
    BY <1>0, <2>2 DEF DecoderHangUp, CutTails
  <2> QED
    BY <2>1, <2>2
<1>2. PICK k \in rd..Len(frames), t \in CutTails : cut' = [at |-> k, tail |-> t]
  BY <1>1
<1>3. cut' \in [at : Nat, tail : CutTails] /\ cut'.at = k
  BY <1>0, <1>2
<1>4. WireTypeOK'
  BY <1>1, <1>3 DEF TypeOK, WireTypeOK
<1>5. EncoderTypeOK' /\ DecoderTypeOK'
  BY <1>1 DEF TypeOK, EncoderTypeOK, encVars, DecoderTypeOK, decVars, gatherVars
<1>6. CutInv'
  BY <1>0, <1>1, <1>3 DEF CutInv
<1> QED
  BY <1>1, <1>4, <1>5, <1>6 DEF TypeOK, encVars

\* The stream invariant holds before anything was sent.
LEMMA StreamInvInit == Init => StreamInv
<1> SUFFICES ASSUME Init PROVE StreamInv
  OBVIOUS
<1> USE DEF Init, LaneInit, WireInit, EncoderInit, DecoderInit
<1>1. WireTypeOK
  BY DEF WireTypeOK, CutTails
<1>2. EncoderTypeOK
  BY DEF EncoderTypeOK, NoTemplates
<1>3. DecoderTypeOK
  <2>1. req \in Seq(Seg) /\ sink \in Seq(Seg)
    OBVIOUS
  <2>2. decTemplates \in [Ids -> Patterns \cup {NoPat}]
    BY DEF NoTemplates
  <2> QED
    BY <2>1, <2>2 DEF DecoderTypeOK
<1>4. MarkInv /\ TodoInv /\ FrameInv /\ DefinedInv /\ CutInv
  BY DEF MarkInv, TodoInv, FrameInv, DefinedInv, CutInv, Severed, Sent, Carried
<1> QED
  BY <1>1, <1>2, <1>3, <1>4 DEF StreamInv, TypeOK

\* Every step preserves the stream invariant: one case per action of Next.
LEMMA StreamInvStep ==
    ASSUME StreamInv, [Next]_vars
    PROVE  StreamInv'
<1>1. CASE EncoderStep
  <2>1. TypeOK'
    BY <1>1, EncoderStepType DEF StreamInv
  <2>2. CASE \E r \in Requests : Accept(r)
    BY <2>1, <2>2, AcceptInv DEF StreamInv
  <2>3. CASE SourceEnd
    <3>1. UNCHANGED <<frames, mark, truth, todo, defined, rd, cut>>
      BY <2>3 DEF SourceEnd, wireVars
    <3> QED
      BY <2>1, <3>1, QuietInv DEF StreamInv, CutInv, Severed
  <2>4. CASE Emit
    BY <2>1, <2>4, EmitInv DEF StreamInv
  <2> QED
    BY <1>1, <2>2, <2>3, <2>4 DEF EncoderStep, EncoderNext
<1>2. CASE DecoderStep
  BY <1>2, DecoderStepType, DecoderCut, QuietInv DEF StreamInv
<1>3. CASE Break \/ DecoderHangUp
  BY <1>3, BreakType, QuietInv DEF StreamInv
<1>4. CASE UNCHANGED vars
  <2>1. TypeOK'
    BY <1>4 DEF StreamInv, TypeOK, WireTypeOK, EncoderTypeOK, DecoderTypeOK,
                vars, wireVars, encVars, decVars, gatherVars
  <2>2. UNCHANGED <<frames, mark, truth, todo, defined, rd, cut>>
    BY <1>4 DEF vars, wireVars, encVars
  <2> QED
    BY <2>1, <2>2, QuietInv DEF StreamInv, CutInv, Severed
<1> QED
  BY <1>1, <1>2, <1>3, <1>4 DEF Next

\* Every variable keeps its type, for all constants and however the stream
\* breaks.
THEOREM TypeCorrect == Spec => []TypeOK
<1>1. StreamInv => TypeOK
  BY DEF StreamInv
<1> QED
  BY <1>1, StreamInvInit, StreamInvStep, PTL DEF Spec

-----------------------------------------------------------------------------
(***************************************************************************)
(* Definitions and references.                                             *)
(***************************************************************************)

\* What is on the stream stays as it is when the encoder sends more.
LEMMA EncoderPrefix ==
    ASSUME StreamInv, EncoderStep
    PROVE  /\ Len(frames') >= Len(frames)
           /\ Len(truth') >= Len(truth)
           /\ \A j \in 1..Len(frames) : frames'[j] = frames[j] /\ mark'[j] = mark[j]
           /\ \A i \in 1..Len(truth) : truth'[i] = truth[i]
           /\ rd' = rd
<1> USE DEF StreamInv
<1>0. /\ Len(frames) \in Nat /\ Len(mark) = Len(frames)
      /\ truth \in Seq(Seg) /\ Len(truth) \in Nat
      /\ EncoderTypeOK
  BY SentType DEF TypeOK, WireTypeOK
<1>1. ASSUME NEW r \in Requests, Accept(r)
      PROVE  /\ Len(truth') >= Len(truth)
             /\ \A i \in 1..Len(truth) : truth'[i] = truth[i]
             /\ frames' = frames /\ mark' = mark /\ rd' = rd
  <2> DEFINE segs == [i \in DOMAIN Items(r) |-> Items(r)[i].seg]
  <2>1. segs \in Seq(Seg)
    BY ItemsType
  <2>2. /\ truth' = truth \o segs
        /\ frames' = frames /\ mark' = mark /\ rd' = rd
    BY <1>1 DEF Accept
  <2> HIDE DEF segs
  <2> QED
    BY <1>0, <2>1, <2>2
<1>2. CASE \E r \in Requests : Accept(r)
  BY <1>0, <1>1, <1>2
<1>3. CASE SourceEnd
  BY <1>0, <1>3 DEF SourceEnd, wireVars
<1>4. CASE Emit
  <2>1. todo # <<>>
    BY <1>0, <1>4, EmitCases
  <2>2. CASE Fails
    BY <1>0, <2>2 DEF Fails, NoMore
  <2>3. ASSUME NEW data \in Frame, data.type \in DataTypes, More(<<>>, data)
        PROVE  /\ Len(frames') >= Len(frames)
               /\ truth' = truth /\ rd' = rd
               /\ \A j \in 1..Len(frames) : frames'[j] = frames[j] /\ mark'[j] = mark[j]
    BY <1>0, <2>1, <2>3, OneMore DEF More
  <2>4. ASSUME NEW def \in Frame, def.type = "TEMPLATE_DEFINE",
               NEW data \in Frame, data.type \in DataTypes, More(<<def>>, data)
        PROVE  /\ Len(frames') >= Len(frames)
               /\ truth' = truth /\ rd' = rd
               /\ \A j \in 1..Len(frames) : frames'[j] = frames[j] /\ mark'[j] = mark[j]
    BY <1>0, <2>1, <2>4, TwoMore DEF More
  <2>5. CASE SendsRaw
    BY <1>0, <2>1, <2>3, <2>5, NewFrame DEF SendsRaw
  <2>6. CASE SendsRef
    BY <1>0, <2>1, <2>3, <2>6, NewFrame DEF SendsRef
  <2>7. ASSUME NEW data, SendsDefine(data),
               \/ data = RawData(Next1)
               \/ data = TemplateRef(NextId, Next1.lane)
        PROVE  /\ Len(frames') >= Len(frames)
               /\ truth' = truth /\ rd' = rd
               /\ \A j \in 1..Len(frames) : frames'[j] = frames[j] /\ mark'[j] = mark[j]
    <3>1. Next1.pat \in Patterns /\ More(<<TemplateDefine(NextId, Next1.pat)>>, data)
      BY <2>7 DEF SendsDefine
    <3>2. data \in Frame /\ data.type \in DataTypes
      BY <2>1, <2>7, <3>1, NewFrame
    <3>3. /\ TemplateDefine(NextId, Next1.pat) \in Frame
          /\ TemplateDefine(NextId, Next1.pat).type = "TEMPLATE_DEFINE"
      BY <1>0, <2>1, <3>1, NextType, FrameTypes DEF TemplateDefine
    <3> QED
      BY <2>4, <3>1, <3>2, <3>3
  <2>8. CASE SendsDefine(RawData(Next1)) \/ SendsDefine(TemplateRef(NextId, Next1.lane))
    BY <1>0, <2>7, <2>8
  <2> QED
    BY <1>0, <1>4, <2>2, <2>5, <2>6, <2>8, EmitCases
<1> QED
  BY <1>2, <1>3, <1>4 DEF EncoderStep, EncoderNext

\* The frames the encoder puts on the stream are of three types.
LEMMA FrameKinds ==
    ASSUME StreamInv, NEW type, Receive(type)
    PROVE  /\ rd + 1 \in 1..Len(frames)
           /\ rd \in Nat
           /\ frames[rd + 1] \in Frame
           /\ frames[rd + 1].type = type
           /\ type \in {"RAW_DATA", "TEMPLATE_DEFINE", "TEMPLATE_REF"}
           /\ rd' = rd + 1
           /\ decStatus = "run"
<1>1. Readable /\ rd' = rd + 1 /\ frames[rd + 1].type = type /\ decStatus = "run"
  BY DEF Receive
<1>2. rd + 1 \in 1..Len(frames) /\ frames[rd + 1] \in Frame /\ rd \in Nat
  BY <1>1, ReadableType DEF StreamInv, TypeOK, WireTypeOK
<1> QED
  BY <1>1, <1>2 DEF StreamInv, MarkInv

\* Every step preserves what the decoder knows of the definitions it read.
LEMMA TemplatesInvStep ==
    ASSUME StreamInv, TemplatesInv, [Next]_vars
    PROVE  TemplatesInv'
<1> DEFINE f == frames[rd + 1]
<1>0. rd \in Nat /\ Len(frames) \in Nat /\ rd <= Len(frames) /\ DecoderTypeOK
  BY DEF StreamInv, TypeOK, WireTypeOK
<1>1. ASSUME UNCHANGED <<decTemplates, decStatus, rd>>,
             \A j \in 1..Len(frames) : frames'[j] = frames[j]
      PROVE  TemplatesInv'
  BY <1>0, <1>1 DEF TemplatesInv, KeyedById, IsDefine
<1>2. CASE EncoderStep
  BY <1>1, <1>2, EncoderPrefix DEF EncoderStep, decVars
<1>3. CASE Break \/ DecoderHangUp
  BY <1>1, <1>3 DEF Break, Sever, DecoderHangUp, decVars
<1>4. CASE UNCHANGED vars
  BY <1>1, <1>4 DEF vars, wireVars, decVars
<1>5. CASE DecoderStep
  <2>0. frames' = frames
    BY <1>5, DecoderCut DEF StreamInv
  <2>1. ASSUME NEW type, type # "TEMPLATE_DEFINE", Receive(type), decTemplates' = decTemplates
        PROVE  TemplatesInv'
    <3>1. /\ rd' = rd + 1 /\ f.type = type /\ decStatus = "run"
      BY <2>1, FrameKinds
    <3>2. \A i \in 1..(rd + 1) : IsDefine(i) => i \in 1..rd
      BY <1>0, <2>1, <3>1 DEF IsDefine
    <3> QED
      BY <2>0, <2>1, <3>1, <3>2 DEF TemplatesInv, KeyedById, IsDefine
  <2>2. CASE OnRawData
    BY <2>1, <2>2 DEF OnRawData
  <2>3. CASE OnTemplateRef
    BY <2>1, <2>3 DEF OnTemplateRef
  <2>4. CASE OnTemplateInline
    BY <2>4, FrameKinds DEF OnTemplateInline
  <2>5. CASE OnEpochReset
    BY <2>5, FrameKinds DEF OnEpochReset
  <2>6. CASE OnStreamEnd
    BY <2>6 DEF OnStreamEnd, TemplatesInv, KeyedById, wireVars, IsDefine
  <2>7. CASE OnTemplateDefine
    <3>1. /\ rd + 1 \in 1..Len(frames) /\ f \in Frame
          /\ f.type = "TEMPLATE_DEFINE" /\ rd' = rd + 1 /\ decStatus = "run"
      BY <2>7, FrameKinds DEF OnTemplateDefine
    <3>2. f.tid \in Ids /\ f.pat \in Patterns
      BY <3>1 DEF Frame
    <3>3. TemplateID[f.pat] = f.tid
      BY <3>1 DEF StreamInv, FrameInv, IsDefine
    <3>4. CASE decTemplates' = decTemplates /\ decStatus' = "violation"
      BY <3>4 DEF TemplatesInv, KeyedById
    <3>5. CASE decTemplates' = [decTemplates EXCEPT ![f.tid] = f.pat]
      <4>1. f.pat # NoPat
        BY <3>2, PatternsAssumption
      <4>2. \A t \in Ids : decTemplates'[t] = IF t = f.tid THEN f.pat ELSE decTemplates[t]
        BY <1>0, <3>5 DEF DecoderTypeOK
      <4>3. \A t \in Ids : decTemplates'[t] # NoPat => TemplateID[decTemplates'[t]] = t
        BY <3>3, <4>2 DEF TemplatesInv, KeyedById
      <4>4. ASSUME NEW i \in 1..(rd + 1), IsDefine(i)
            PROVE  decTemplates'[frames[i].tid] # NoPat
        <5>1. i \in 1..Len(frames)
          BY <1>0, <3>1
        <5>2. frames[i] \in Frame /\ frames[i].type = "TEMPLATE_DEFINE"
          BY <4>4, <5>1 DEF IsDefine, StreamInv, TypeOK, WireTypeOK
        <5>3. frames[i].tid \in Ids
          BY <5>2 DEF Frame
        <5>4. CASE i \in 1..rd
          BY <3>1, <4>1, <4>2, <4>4, <5>3, <5>4 DEF TemplatesInv, KeyedById
        <5>5. CASE i = rd + 1
          BY <4>1, <4>2, <5>3, <5>5
        <5> QED
          BY <1>0, <5>4, <5>5
      <4> QED
        BY <2>0, <3>1, <4>3, <4>4 DEF TemplatesInv, KeyedById, IsDefine
    <3> QED
      BY <2>7, <3>4, <3>5 DEF OnTemplateDefine
  <2> QED
    BY <1>5, <2>2, <2>3, <2>4, <2>5, <2>6, <2>7 DEF DecoderStep, DecoderNext
<1> QED
  BY <1>2, <1>3, <1>4, <1>5 DEF Next

\* The empty dictionary satisfies TemplatesInv.
LEMMA TemplatesInvInit == Init => TemplatesInv
BY DEF Init, LaneInit, WireInit, NoTemplates, TemplatesInv, KeyedById

\* A reference that is read finds its template, whatever the hash does: the
\* decoder's error "template ref before define/inline" is unreachable behind
\* this encoder.
THEOREM ReferencesResolve == Spec => []RefsResolve
<1>1. StreamInv /\ TemplatesInv => RefsResolve
  <2> SUFFICES ASSUME StreamInv, TemplatesInv, decStatus = "run", Readable,
                      frames[rd + 1].type = "TEMPLATE_REF"
               PROVE  decTemplates[frames[rd + 1].tid] # NoPat
    BY DEF RefsResolve
  <2>1. rd + 1 \in 1..Len(frames) /\ rd \in Nat
    BY ReadableType DEF StreamInv, TypeOK, WireTypeOK
  <2>2. PICK i \in 1..(rd + 1 - 1) : IsDefine(i) /\ frames[i].tid = frames[rd + 1].tid
    BY <2>1 DEF StreamInv, DefinedInv
  <2>3. i \in 1..rd
    BY <2>1
  <2> QED
    BY <2>2, <2>3 DEF TemplatesInv, KeyedById
<1>2. Init => StreamInv /\ TemplatesInv
  BY StreamInvInit, TemplatesInvInit
<1>3. StreamInv /\ TemplatesInv /\ [Next]_vars => (StreamInv /\ TemplatesInv)'
  BY StreamInvStep, TemplatesInvStep
<1> QED
  BY <1>1, <1>2, <1>3, PTL DEF Spec

\* A template is announced once, because the encoder's flag for it says truly
\* whether it was.
THEOREM DefinedOnce == Spec => []DefineOnce
<1>1. Init => DefineOnce
  BY DEF Init, LaneInit, WireInit, DefineOnce
<1>2. ASSUME StreamInv, DefineOnce, [Next]_vars
      PROVE  DefineOnce'
  <2> DEFINE n == Len(frames)
  <2>0. n \in Nat /\ DOMAIN frames = 1..n
    BY <1>2 DEF StreamInv, TypeOK, WireTypeOK
  <2>1. CASE frames' = frames
    BY <1>2, <2>1 DEF DefineOnce
  <2>2. CASE EncoderStep /\ Emit
    <3> USE <1>2, <2>2
    <3>0. EncoderTypeOK /\ TypeOK /\ MarkInv /\ TodoInv /\ todo # <<>>
      BY EmitCases DEF StreamInv, TypeOK
    <3>1. CASE Fails
      BY <2>1, <3>1 DEF Fails, NoMore
    <3>2. ASSUME NEW data, More(<<>>, data),
                 \/ data = RawData(Next1)
                 \/ data = TemplateRef(NextId, Next1.lane) /\ Next1.pat \in Patterns
          PROVE  DefineOnce'
      <4>1. data \in Frame /\ data.type \in DataTypes
        BY <3>0, <3>2, NewFrame
      <4>2. /\ Len(frames') = n + 1
            /\ \A j \in 1..n : frames'[j] = frames[j]
            /\ frames'[n + 1] = data
        BY <3>0, <3>2, <4>1, OneMore
      <4>3. frames' \in Seq(Frame)
        BY <3>0, EmitStreamType DEF TypeOK, WireTypeOK
      <4>4. DOMAIN frames' = 1..(n + 1)
        BY <4>2, <4>3
      <4>5. \A j \in 1..(n + 1) :
               frames'[j].type = "TEMPLATE_DEFINE" => j \in 1..n
        BY <2>0, <4>1, <4>2 DEF DataTypes
      <4> QED
        BY <2>0, <4>2, <4>4, <4>5 DEF DefineOnce
    <3>3. CASE SendsRaw
      BY <3>2, <3>3 DEF SendsRaw
    <3>4. CASE SendsRef
      BY <3>2, <3>4 DEF SendsRef
    <3>5. ASSUME NEW data, SendsDefine(data),
                 \/ data = RawData(Next1)
                 \/ data = TemplateRef(NextId, Next1.lane)
          PROVE  DefineOnce'
      <4> DEFINE def == TemplateDefine(NextId, Next1.pat)
      <4>0. Next1.pat \in Patterns /\ More(<<def>>, data) /\ ~defined[NextId]
        BY <3>5 DEF SendsDefine
      <4>1. data \in Frame /\ data.type \in DataTypes
        BY <3>0, <3>5, <4>0, NewFrame
      <4>2. /\ NextId \in Ids
            /\ def \in Frame
            /\ def.type = "TEMPLATE_DEFINE"
            /\ def.tid = NextId
        BY <3>0, <4>0, NextType, FrameTypes DEF TemplateDefine
      <4>3. /\ Len(frames') = n + 2
            /\ \A j \in 1..n : frames'[j] = frames[j]
            /\ frames'[n + 1] = def
            /\ frames'[n + 2] = data
        BY <3>0, <4>0, <4>1, <4>2, TwoMore
      <4> HIDE DEF def
      <4>4. frames' \in Seq(Frame)
        BY <3>0, EmitStreamType DEF TypeOK, WireTypeOK
      <4>5. DOMAIN frames' = 1..(n + 2)
        BY <4>3, <4>4
      <4>6. \A j \in 1..(n + 2) :
               frames'[j].type = "TEMPLATE_DEFINE" => j \in 1..n \/ j = n + 1
        BY <2>0, <4>1, <4>3 DEF DataTypes
      <4>7. \A j \in 1..n : frames[j].type = "TEMPLATE_DEFINE" => frames[j].tid # NextId
        BY <4>0, <4>2 DEF StreamInv, DefinedInv, IsDefine
      <4> QED
        BY <2>0, <4>2, <4>3, <4>5, <4>6, <4>7 DEF DefineOnce
    <3>6. CASE SendsDefine(RawData(Next1)) \/ SendsDefine(TemplateRef(NextId, Next1.lane))
      BY <3>5, <3>6
    <3> QED
      BY <3>0, <3>1, <3>3, <3>4, <3>6, EmitCases
  <2>3. frames' = frames \/ (EncoderStep /\ Emit)
    <3>1. CASE EncoderStep
      BY <3>1 DEF EncoderStep, EncoderNext, Accept, SourceEnd, wireVars
    <3>2. CASE DecoderStep
      BY <1>2, <3>2, DecoderCut DEF StreamInv
    <3>3. CASE Break \/ DecoderHangUp
      BY <3>3 DEF Break, Sever, DecoderHangUp
    <3>4. CASE UNCHANGED vars
      BY <3>4 DEF vars, wireVars
    <3> QED
      BY <1>2, <3>1, <3>2, <3>3, <3>4 DEF Next
  <2> QED
    BY <2>1, <2>2, <2>3
<1>3. Init => StreamInv
  BY StreamInvInit
<1>4. StreamInv /\ [Next]_vars => StreamInv'
  BY StreamInvStep
<1> QED
  BY <1>1, <1>2, <1>3, <1>4, PTL DEF Spec

-----------------------------------------------------------------------------
(***************************************************************************)
(* Reconstruction.                                                         *)
(***************************************************************************)

\* What the first n frames carry is within truth.
LEMMA CarriedBound ==
    ASSUME StreamInv, NEW n \in 0..Len(frames)
    PROVE  Carried(n) \in Nat /\ Carried(n) <= Len(truth) /\ Len(truth) \in Nat
<1>1. /\ Sent \in Nat /\ Len(mark) = Len(frames) /\ mark \in Seq(Nat)
      /\ Len(truth) \in Nat /\ Len(todo) \in Nat /\ Sent + Len(todo) = Len(truth)
  BY SentType DEF StreamInv, TodoInv, TypeOK, WireTypeOK, EncoderTypeOK
<1>2. Carried(n) \in Nat
  BY <1>1, CarriedType
<1>3. Carried(n) <= Sent
  BY <1>1, n = 0 \/ n \in 1..Len(frames) DEF Carried, StreamInv, MarkInv
<1> QED
  BY <1>1, <1>2, <1>3

\* Gathering the right segment keeps what was gathered and delivered right:
\* feed and flushReqIfComplete neither lose, repeat nor reorder anything, also
\* when the destination fails in the middle of a write.
LEMMA FeedInv ==
    ASSUME DecoderTypeOK, truth \in Seq(Seg), truth' = truth,
           NEW c \in Nat, c + 1 <= Len(truth),
           NEW s \in Seg, s = truth[c + 1], SegLen(s) > 0,
           Len(sink) + Len(req) = c,
           \A i \in 1..Len(sink) : sink[i] = truth[i],
           \A i \in 1..Len(req) : req[i] = truth[Len(sink) + i],
           decStatus = "run", FeedAndFlush(s)
    PROVE  /\ Len(sink') <= c + 1
           /\ \A i \in 1..Len(sink') : sink'[i] = truth'[i]
           /\ decStatus' = "run" =>
                 /\ Len(sink') + Len(req') = c + 1
                 /\ \A i \in 1..Len(req') : req'[i] = truth'[Len(sink') + i]
<1> DEFINE q == Append(req, s)
<1>1. /\ sink \in Seq(Seg) /\ req \in Seq(Seg)
      /\ Len(sink) \in Nat /\ Len(req) \in Nat
  BY DEF DecoderTypeOK
<1>2. /\ q \in Seq(Seg)
      /\ Len(q) = Len(req) + 1
      /\ \A i \in 1..Len(req) : q[i] = req[i]
      /\ q[Len(req) + 1] = s
  BY <1>1, AppendProperties
<1>3. \/ Stop("violation")
      \/ Flush(q)
      \/ req' = q /\ sink' = sink
  <2>1. PICK t, end, len : Gather(q, t, end, len)
    BY FeedIs
  <2> HIDE DEF q
  <2> QED
    BY <2>1, GatherIs, Zenon
<1> HIDE DEF q
<1>4. \A i \in 1..Len(q) : q[i] = truth[Len(sink) + i]
  <2>1. SUFFICES ASSUME NEW i \in 1..Len(q) PROVE q[i] = truth[Len(sink) + i]
    OBVIOUS
  <2>2. CASE i \in 1..Len(req)
    BY <1>2, <2>2
  <2>3. CASE i = Len(req) + 1
    BY <1>1, <1>2, <2>3
  <2> QED
    BY <1>1, <1>2, <2>2, <2>3
<1>5. ASSUME NEW p \in Seq(Seg), Len(p) <= Len(q), sink' = sink \o p,
             \A i \in 1..Len(p) : p[i] = q[i]
      PROVE  /\ Len(sink') = Len(sink) + Len(p)
             /\ \A i \in 1..Len(sink') : sink'[i] = truth[i]
  <2>1. /\ Len(sink \o p) = Len(sink) + Len(p)
        /\ \A i \in 1..Len(sink) : (sink \o p)[i] = sink[i]
        /\ \A i \in 1..Len(p) : (sink \o p)[Len(sink) + i] = p[i]
    BY <1>1, <1>5
  <2>2. Len(p) \in Nat /\ Len(q) \in Nat
    BY <1>2, <1>5
  <2>3. \A i \in 1..Len(p) : sink'[Len(sink) + i] = truth[Len(sink) + i]
    BY <1>4, <1>5, <2>1, <2>2
  <2>4. SUFFICES ASSUME NEW i \in 1..Len(sink') PROVE sink'[i] = truth[i]
    BY <1>5, <2>1
  <2>5. CASE i \in 1..Len(sink)
    BY <1>5, <2>1, <2>5
  <2>6. CASE i \notin 1..Len(sink)
    <3>1. i - Len(sink) \in 1..Len(p) /\ Len(sink) + (i - Len(sink)) = i
      BY <1>1, <1>5, <2>1, <2>2, <2>6
    <3> QED
      BY <2>3, <3>1
  <2> QED
    BY <2>5, <2>6
<1>6. CASE Stop("violation")
  BY <1>1, <1>6 DEF Stop
<1>7. CASE req' = q /\ sink' = sink
  BY <1>1, <1>2, <1>4, <1>7
<1>8. CASE Flush(q)
  <2>1. CASE sink' = sink \o q /\ resetReq
    <3>1. Len(sink') = Len(sink) + Len(q) /\ \A i \in 1..Len(sink') : sink'[i] = truth[i]
      <4>1. Len(q) <= Len(q) /\ \A i \in 1..Len(q) : q[i] = q[i]
        BY <1>1, <1>2
      <4> QED
        BY <1>2, <1>5, <2>1, <4>1
    <3>2. Len(req') = 0
      BY <2>1 DEF resetReq
    <3> QED
      BY <1>1, <1>2, <3>1, <3>2
  <2>2. CASE decStatus' = "sinkfail" /\ \E n \in 0..(Len(q) - 1) : sink' = sink \o SubSeq(q, 1, n)
    <3>1. PICK n \in 0..(Len(q) - 1) : sink' = sink \o SubSeq(q, 1, n)
      BY <2>2
    <3>2. /\ SubSeq(q, 1, n) \in Seq(Seg)
          /\ Len(SubSeq(q, 1, n)) = n
          /\ \A i \in 1..n : SubSeq(q, 1, n)[i] = q[i]
      BY <1>2
    <3>3. Len(sink') = Len(sink) + n /\ \A i \in 1..Len(sink') : sink'[i] = truth[i]
      <4> DEFINE p == SubSeq(q, 1, n)
      <4>1. p \in Seq(Seg) /\ Len(p) <= Len(q) /\ \A i \in 1..Len(p) : p[i] = q[i]
        BY <1>1, <1>2, <3>2
      <4>2. sink' = sink \o p /\ Len(p) = n
        BY <3>1, <3>2
      <4> HIDE DEF p
      <4> QED
        BY <1>5, <4>1, <4>2
    <3> QED
      BY <1>1, <1>2, <2>2, <3>3
  <2> QED
    BY <1>8, <2>1, <2>2 DEF Flush
<1> QED
  BY <1>3, <1>6, <1>7, <1>8

\* When template ids are distinct, the segment the decoder makes of the next
\* frame is the segment of truth that the frame carries.
LEMMA Expansion ==
    ASSUME CollisionFree, StreamInv, KeyedById(decTemplates), NEW type, Receive(type),
           type # "TEMPLATE_DEFINE"
    PROVE  LET f == frames[rd + 1]
               c == Carried(rd)
           IN  /\ Carried(rd + 1) = c + 1
               /\ c \in Nat /\ c + 1 <= Len(truth)
               /\ truth[c + 1] \in Seg /\ SegLen(truth[c + 1]) > 0
               /\ type = "RAW_DATA" => f.seg = truth[c + 1]
               /\ (type = "TEMPLATE_REF" /\ decTemplates[f.tid] # NoPat) =>
                     [pat |-> decTemplates[f.tid], lane |-> f.lane] = truth[c + 1]
<1> DEFINE f == frames[rd + 1]
           c == Carried(rd)
<1>1. /\ rd + 1 \in 1..Len(frames) /\ rd \in Nat /\ f \in Frame /\ f.type = type
      /\ rd \in 0..Len(frames) /\ Len(frames) \in Nat
  BY FrameKinds DEF StreamInv, TypeOK, WireTypeOK
<1>2. mark[rd + 1] = c + 1
  BY <1>1 DEF StreamInv, MarkInv, IsDefine
<1>3. Carried(rd + 1) = mark[rd + 1]
  BY <1>1 DEF Carried
<1>4. c \in Nat /\ c + 1 <= Len(truth) /\ Len(truth) \in Nat
  BY <1>1, <1>2, <1>3, CarriedBound
<1>5. c + 1 \in 1..Len(truth)
  BY <1>4
<1>6. truth[c + 1] \in Seg /\ SegLen(truth[c + 1]) > 0
  BY <1>5 DEF StreamInv, TodoInv, TypeOK, WireTypeOK
<1>7. type = "RAW_DATA" => f.seg = truth[c + 1]
  BY <1>1, <1>2 DEF StreamInv, FrameInv
<1>8. ASSUME type = "TEMPLATE_REF", decTemplates[f.tid] # NoPat
      PROVE  [pat |-> decTemplates[f.tid], lane |-> f.lane] = truth[c + 1]
  <2>1. /\ truth[c + 1].pat \in Patterns
        /\ TemplateID[truth[c + 1].pat] = f.tid
        /\ truth[c + 1].lane = f.lane
    BY <1>1, <1>2, <1>8 DEF StreamInv, FrameInv
  <2>2. f.tid \in Ids
    BY <1>1, <1>8 DEF Frame
  <2>3. /\ TemplateID[decTemplates[f.tid]] = f.tid
        /\ decTemplates[f.tid] \in Patterns
    BY <1>8, <2>2 DEF KeyedById, StreamInv, TypeOK, DecoderTypeOK
  <2>4. decTemplates[f.tid] = truth[c + 1].pat
    BY <2>1, <2>3 DEF CollisionFree
  <2> QED
    BY <1>6, <2>1, <2>4 DEF Seg
<1> QED
  BY <1>2, <1>3, <1>4, <1>6, <1>7, <1>8

\* Nothing is delivered and nothing gathered at the start.
LEMMA SinkInvInit == Init => SinkInv
BY DEF Init, LaneInit, WireInit, DecoderInit, SinkInv, Carried

\* A decoder that stops at a frame has delivered no more than it had read.
LEMMA SinkAfterStop ==
    ASSUME StreamInv, SinkInv, NEW type, Receive(type),
           decStatus' # "run", sink' = sink
    PROVE  SinkInv'
<1> DEFINE c == Carried(rd)
<1>0. rd \in Nat /\ rd \in 0..Len(frames) /\ Len(sink) \in Nat
  BY DEF StreamInv, TypeOK, WireTypeOK, DecoderTypeOK
<1>00. c \in Nat
  BY <1>0, CarriedBound
<1>1. rd' = rd + 1 /\ rd + 1 \in 1..Len(frames) /\ mark' = mark /\ truth' = truth
  BY FrameKinds DEF Receive
<1>2. Carried(rd)' = mark[rd + 1]
  BY <1>0, <1>1 DEF Carried
<1>3. mark[rd + 1] >= c
  <2>1. mark[rd + 1] = Carried((rd + 1) - 1) + IF IsDefine(rd + 1) THEN 0 ELSE 1
    BY <1>1 DEF StreamInv, MarkInv
  <2>2. (rd + 1) - 1 = rd
    BY <1>0
  <2>3. mark[rd + 1] = c + 0 \/ mark[rd + 1] = c + 1
    BY <2>1, <2>2
  <2> QED
    BY <1>00, <2>3
<1>4. mark[rd + 1] \in Nat
  BY <1>1 DEF StreamInv, MarkInv, TypeOK, WireTypeOK
<1> QED
  BY <1>0, <1>00, <1>1, <1>2, <1>3, <1>4 DEF SinkInv

\* A definition delivers nothing and carries nothing.
LEMMA SinkAfterDefine ==
    ASSUME StreamInv, SinkInv, Receive("TEMPLATE_DEFINE"),
           UNCHANGED <<sink, gatherVars>>
    PROVE  SinkInv'
<1> DEFINE c == Carried(rd)
<1>0. rd \in Nat /\ rd \in 0..Len(frames) /\ c \in Nat
  BY CarriedBound DEF StreamInv, TypeOK, WireTypeOK
<1>1. /\ rd' = rd + 1 /\ rd + 1 \in 1..Len(frames) /\ IsDefine(rd + 1)
      /\ decStatus = "run" /\ mark' = mark /\ truth' = truth
  BY FrameKinds DEF IsDefine, Receive
<1>2. Carried(rd)' = c
  <2>1. mark[rd + 1] = Carried((rd + 1) - 1) + 0
    BY <1>1 DEF StreamInv, MarkInv
  <2>2. Carried(rd)' = mark[rd + 1]
    BY <1>0, <1>1 DEF Carried
  <2>3. (rd + 1) - 1 = rd
    BY <1>0
  <2>4. mark[rd + 1] = c + 0
    BY <2>1, <2>3
  <2> QED
    BY <1>0, <2>2, <2>4
<1> QED
  BY <1>1, <1>2 DEF SinkInv, gatherVars

\* Every step keeps what was delivered and gathered equal to what was read.
LEMMA SinkInvStep ==
    ASSUME CollisionFree, StreamInv, KeyedById(decTemplates), SinkInv, [Next]_vars
    PROVE  SinkInv'
<1> DEFINE f == frames[rd + 1]
           c == Carried(rd)
<1>0. /\ rd \in Nat /\ rd \in 0..Len(frames) /\ Len(frames) \in Nat
      /\ DecoderTypeOK /\ truth \in Seq(Seg)
      /\ Len(sink) \in Nat /\ Len(req) \in Nat
  BY DEF StreamInv, TypeOK, WireTypeOK, DecoderTypeOK
<1>00. c \in Nat /\ c <= Len(truth) /\ Len(truth) \in Nat
  BY <1>0, CarriedBound
<1>1. ASSUME UNCHANGED <<sink, req, decStatus, rd>>,
             \A j \in 1..Len(frames) : mark'[j] = mark[j],
             \A i \in 1..Len(truth) : truth'[i] = truth[i]
      PROVE  SinkInv'
  <2>1. Carried(rd)' = c
    BY <1>0, <1>1 DEF Carried
  <2>2. \A i \in 1..Len(sink) : truth'[i] = truth[i]
    BY <1>0, <1>00, <1>1 DEF SinkInv
  <2>3. decStatus = "run" => \A i \in 1..Len(req) : truth'[Len(sink) + i] = truth[Len(sink) + i]
    BY <1>0, <1>00, <1>1 DEF SinkInv
  <2> QED
    BY <1>1, <2>1, <2>2, <2>3 DEF SinkInv
<1>2. CASE EncoderStep
  BY <1>1, <1>2, EncoderPrefix DEF EncoderStep, decVars, gatherVars
<1>3. CASE Break \/ DecoderHangUp
  BY <1>1, <1>3 DEF Break, Sever, DecoderHangUp, decVars, gatherVars
<1>4. CASE UNCHANGED vars
  BY <1>1, <1>4 DEF vars, wireVars, decVars, gatherVars
<1>5. CASE DecoderStep
  <2>0. mark' = mark /\ truth' = truth
    BY <1>5, DecoderCut DEF StreamInv
  <2>1. ASSUME NEW type, type # "TEMPLATE_DEFINE", Receive(type),
               FeedAndFlush(truth[c + 1])
        PROVE  SinkInv'
    <3>1. /\ Carried(rd + 1) = c + 1
          /\ c + 1 <= Len(truth)
          /\ truth[c + 1] \in Seg /\ SegLen(truth[c + 1]) > 0
      BY <2>1, Expansion
    <3>2. decStatus = "run" /\ rd' = rd + 1
      BY <2>1, FrameKinds
    <3>3. /\ Len(sink) + Len(req) = c
          /\ \A i \in 1..Len(sink) : sink[i] = truth[i]
          /\ \A i \in 1..Len(req) : req[i] = truth[Len(sink) + i]
      BY <3>2 DEF SinkInv
    <3>4. Carried(rd)' = c + 1
      BY <2>0, <3>1, <3>2 DEF Carried
    <3> HIDE DEF c
    <3>5. /\ Len(sink') <= c + 1
          /\ \A i \in 1..Len(sink') : sink'[i] = truth'[i]
          /\ decStatus' = "run" =>
                /\ Len(sink') + Len(req') = c + 1
                /\ \A i \in 1..Len(req') : req'[i] = truth'[Len(sink') + i]
      BY <1>0, <1>00, <2>0, <2>1, <3>1, <3>2, <3>3, FeedInv
    <3> QED
      BY <3>4, <3>5 DEF SinkInv
  <2>2. ASSUME NEW type, Receive(type), decStatus' # "run", sink' = sink
        PROVE  SinkInv'
    BY <2>2, SinkAfterStop
  <2>3. CASE OnRawData
    <3>1. Receive("RAW_DATA") /\ FeedAndFlush(f.seg)
      BY <2>3 DEF OnRawData
    <3>2. f.seg = truth[c + 1]
      BY <3>1, Expansion
    <3> QED
      BY <2>1, <3>1, <3>2
  <2>4. CASE OnTemplateRef
    <3>1. Receive("TEMPLATE_REF")
      BY <2>4 DEF OnTemplateRef
    <3>2. \/ Stop("violation")
          \/ /\ decTemplates[f.tid] # NoPat
             /\ FeedAndFlush([pat |-> decTemplates[f.tid], lane |-> f.lane])
      BY <2>4 DEF OnTemplateRef
    <3>3. CASE Stop("violation")
      BY <2>2, <3>1, <3>3 DEF Stop
    <3>4. CASE /\ decTemplates[f.tid] # NoPat
               /\ FeedAndFlush([pat |-> decTemplates[f.tid], lane |-> f.lane])
      <4>1. [pat |-> decTemplates[f.tid], lane |-> f.lane] = truth[c + 1]
        BY <3>1, <3>4, Expansion
      <4> QED
        BY <2>1, <3>1, <3>4, <4>1
    <3> QED
      BY <3>2, <3>3, <3>4
  <2>5. CASE OnTemplateDefine
    <3>1. Receive("TEMPLATE_DEFINE") /\ UNCHANGED <<sink, gatherVars>>
      BY <2>5 DEF OnTemplateDefine
    <3> QED
      BY <3>1, SinkAfterDefine
  <2>6. CASE OnTemplateInline \/ OnEpochReset
    BY <2>6, FrameKinds DEF OnTemplateInline, OnEpochReset
  <2>7. CASE OnStreamEnd
    <3>1. sink' = sink /\ rd' = rd /\ decStatus' # "run"
      BY <2>7 DEF OnStreamEnd, wireVars
    <3> QED
      BY <2>0, <3>1 DEF SinkInv, Carried
  <2> QED
    BY <1>5, <2>3, <2>4, <2>5, <2>6, <2>7 DEF DecoderStep, DecoderNext
<1> QED
  BY <1>2, <1>3, <1>4, <1>5 DEF Next

\* The inductive invariant holds throughout.
THEOREM Invariance == Spec => []IInv
<1>1. Init => IInv
  BY StreamInvInit, TemplatesInvInit, SinkInvInit DEF IInv
<1>2. ASSUME IInv, [Next]_vars
      PROVE  IInv'
  <2>1. StreamInv' /\ TemplatesInv'
    BY <1>2, StreamInvStep, TemplatesInvStep DEF IInv
  <2>2. CollisionFree => SinkInv'
    BY <1>2, SinkInvStep DEF IInv, TemplatesInv
  <2>3. CollisionFree' <=> CollisionFree
    BY DEF CollisionFree
  <2> QED
    BY <2>1, <2>2, <2>3 DEF IInv
<1> QED
  BY <1>1, <1>2, PTL DEF Spec

\* What was delivered, being no more than what was read, is a prefix of truth.
LEMMA PrefixDelivered ==
    ASSUME StreamInv, SinkInv
    PROVE  ByteExact
<1>1. rd \in 0..Len(frames) /\ Len(sink) \in Nat
  BY DEF StreamInv, TypeOK, WireTypeOK, DecoderTypeOK
<1>2. Carried(rd) \in Nat /\ Carried(rd) <= Len(truth) /\ Len(truth) \in Nat
  BY <1>1, CarriedBound
<1> QED
  BY <1>1, <1>2 DEF SinkInv, ByteExact

\* "Packet out must reconstruct packet in" (encode_v1.go, locked rule 1): when
\* no two patterns of the traffic share a template id, the destination only
\* ever holds a prefix of what the client's requests decode to, whatever the
\* requests are, however encoder and decoder interleave, and wherever the
\* stream or the destination fails.
THEOREM Reconstruction ==
    ASSUME CollisionFree
    PROVE  Spec => []ByteExact
<1>1. IInv => ByteExact
  <2> SUFFICES ASSUME IInv PROVE ByteExact
    OBVIOUS
  <2>1. StreamInv /\ SinkInv
    BY DEF IInv
  <2> QED
    BY <2>1, PrefixDelivered
<1> QED
  BY <1>1, Invariance, PTL
=============================================================================
