-------------------------------- MODULE StoreProofs -------------------------
(***************************************************************************)
(* The bounded stores of a node: the raw window is a sliding window, and   *)
(* the guarded LRU dictionary, the learner and the score dictionary keep   *)
(* their budgets and their eviction orders, for all capacities, keys, sizes *)
(* and scores, and every sequence of calls.                                *)
(***************************************************************************)
EXTENDS RawWindow, GuardedLRU, Learner, ScoreDictionary,
        FiniteSums, SequenceTheorems

-----------------------------------------------------------------------------
(***************************************************************************)
(* internal/memory/rawwindow.go: the ring buffer.                          *)
(***************************************************************************)
\* An index that may have reached the end of the buffer wraps to its start.
LEMMA Wrap ==
    ASSUME NEW c \in Nat \ {0}, NEW x \in 0..c
    PROVE  x % c = IF x = c THEN 0 ELSE x
<1>1. CASE x = c
  BY <1>1
<1>2. CASE x # c
  <2>1. x \in 0..c - 1
    BY <1>2
  <2> QED
    BY <1>2, <2>1
<1> QED
  BY <1>1, <1>2

\* What copyIntoRing is given is the end of what has been seen.
LEMMA KeptIsTail ==
    ASSUME WindowTypeOK, NEW p \in Chunks, AppendBytes(p)
    PROVE  LET k == Kept(p)
               m == Len(k)
           IN  /\ k \in Seq(Byte)
               /\ m \in 1..Cap
               /\ m = Least(Len(p), Cap)
               /\ seen' \in Seq(Byte)
               /\ Len(seen') = Len(seen) + Len(p)
               /\ \A i \in 1..Len(seen) : seen'[i] = seen[i]
               /\ \A i \in 1..m : k[i] = seen'[Len(seen') - m + i]
<1> DEFINE k == Kept(p)
           m == Len(k)
<1>1. /\ p \in Seq(Byte) /\ Len(p) \in Nat \ {0} /\ Cap \in Nat \ {0}
      /\ seen \in Seq(Byte) /\ Len(seen) \in Nat
  BY RawWindowAssumption DEF WindowTypeOK, AppendBytes
<1>2. /\ seen' = seen \o p
  BY DEF AppendBytes
<1>3. /\ seen' \in Seq(Byte)
      /\ Len(seen') = Len(seen) + Len(p)
      /\ \A i \in 1..Len(seen) + Len(p) :
            seen'[i] = IF i <= Len(seen) THEN seen[i] ELSE p[i - Len(seen)]
  BY <1>1, <1>2, ConcatProperties
<1>4. /\ k \in Seq(Byte)
      /\ m = Least(Len(p), Cap)
      /\ \A i \in 1..m : k[i] = p[Len(p) - m + i]
  <2>1. CASE Len(p) >= Cap
    <3>1. Len(p) - Cap + 1 \in 1..Len(p) + 1 /\ Len(p) \in Len(p) - Cap .. Len(p)
      BY <1>1, <2>1
    <3>2. k = SubSeq(p, Len(p) - Cap + 1, Len(p))
      BY <2>1 DEF Kept
    <3>3. /\ k \in Seq(Byte)
          /\ Len(k) = Cap
          /\ \A i \in 1..Cap : k[i] = p[Len(p) - Cap + i]
      BY <1>1, <2>1, <3>1, <3>2, SubSeqProperties
    <3> QED
      BY <1>1, <2>1, <3>3 DEF Least
  <2>2. CASE Len(p) < Cap
    <3>1. k = p /\ m = Len(p)
      BY <1>1, <2>2 DEF Kept
    <3>2. Least(Len(p), Cap) = Len(p)
      BY <1>1, <2>2 DEF Least
    <3> HIDE DEF k, m
    <3>3. \A i \in 1..m : (Len(p) - m) + i = i
      BY <1>1, <3>1
    <3> QED
      BY <1>1, <3>1, <3>2, <3>3
  <2> QED
    BY <1>1, <2>1, <2>2
<1>5. m \in 1..Cap
  BY <1>1, <1>4 DEF Least
<1> HIDE DEF k, m
<1>6. \A i \in 1..Len(seen) : seen'[i] = seen[i]
  BY <1>1, <1>3
<1>7. ASSUME NEW i \in 1..m
      PROVE  k[i] = seen'[Len(seen') - m + i]
  <2>1. m <= Len(p)
    BY <1>1, <1>4 DEF Least
  <2>2. /\ Len(seen') - m + i \in 1..Len(seen) + Len(p)
        /\ ~(Len(seen') - m + i <= Len(seen))
        /\ (Len(seen') - m + i) - Len(seen) = Len(p) - m + i
    BY <1>1, <1>3, <1>5, <2>1
  <2> QED
    BY <1>3, <1>4, <2>2
<1> QED
  BY <1>3, <1>4, <1>5, <1>6, <1>7 DEF k, m

(***************************************************************************)
(* One call of copyIntoRing, on constants: c is the capacity, h and s are  *)
(* head and size before the call, b the buffer, old the l bytes seen; h2,  *)
(* s2, b2, new and l2 are the same after a chunk of n bytes, of which the  *)
(* last m = |k| were copied.                                               *)
(***************************************************************************)
Ring(c, h, s, b, old, l) ==
    /\ s = Least(l, c)
    /\ s < c => h = s
    /\ \A i \in 0..c - 1 :
          /\ i < h => b[i] = old[l - h + i + 1]
          /\ i >= h /\ s = c => b[i] = old[l - h - c + i + 1]

Shift(c, h, s, b, old, l, n, m, k, s2, new, l2) ==
    /\ c \in Nat \ {0} /\ h \in 0..c - 1 /\ l \in Nat /\ n \in Nat /\ m \in 1..c
    /\ s \in 0..c /\ s2 \in 0..c /\ l2 \in Nat
    /\ Ring(c, h, s, b, old, l)
    /\ m = Least(n, c) /\ l2 = l + n /\ s2 = Least(l2, c)
    /\ \A i \in 1..l : new[i] = old[i]
    /\ \A i \in 1..m : k[i] = new[l2 - m + i]

CopyWraps(c, h, b, m, k, h2, b2) ==
    /\ h + m > c /\ h2 \in Int /\ h2 = h + m - c
    /\ \A i \in 0..c - 1 : b2[i] = IF i < h2 THEN k[(c - h) + i + 1]
                                   ELSE IF i < h THEN b[i] ELSE k[i - h + 1]

CopyFits(c, h, b, m, k, h2, b2) ==
    /\ h + m <= c /\ h2 \in Int /\ h2 = IF h + m = c THEN 0 ELSE h + m
    /\ \A i \in 0..c - 1 : b2[i] = IF i >= h /\ i < h + m THEN k[i - h + 1]
                                   ELSE b[i]

\* The chunk wraps around the end of the buffer.
LEMMA RingWraps ==
    ASSUME NEW c, NEW h, NEW s, NEW b, NEW old, NEW l, NEW n, NEW m, NEW k,
           NEW h2, NEW s2, NEW b2, NEW new, NEW l2,
           Shift(c, h, s, b, old, l, n, m, k, s2, new, l2),
           CopyWraps(c, h, b, m, k, h2, b2)
    PROVE  h2 \in 0..c - 1 /\ Ring(c, h2, s2, b2, new, l2)
<1> USE DEF Shift, CopyWraps
<1>1. h2 \in 0..c - 1 /\ h2 <= h
  OBVIOUS
<1>2. l >= h /\ (m < c => n = m)
  BY DEF Ring, Least
<1>3. s2 = c
  BY DEF Ring, Least
<1>4. ASSUME NEW i \in 0..c - 1, i < h2
      PROVE  b2[i] = new[l2 - h2 + i + 1]
  <2>1. (c - h) + i + 1 \in 1..m /\ l2 - m + ((c - h) + i + 1) = l2 - h2 + i + 1
    BY <1>4
  <2> QED
    BY <1>4, <2>1
<1>5. ASSUME NEW i \in 0..c - 1, i >= h2
      PROVE  b2[i] = new[l2 - h2 - c + i + 1]
  <2>1. CASE i >= h
    <3>1. i - h + 1 \in 1..m /\ l2 - m + (i - h + 1) = l2 - h2 - c + i + 1
      BY <2>1
    <3>2. b2[i] = k[i - h + 1]
      BY <1>1, <1>5, <2>1
    <3>3. k[i - h + 1] = new[l2 - m + (i - h + 1)]
      BY <3>1
    <3> QED
      BY <3>1, <3>2, <3>3
  <2>2. CASE i < h
    <3>1. m < c
      BY <1>5, <2>2
    <3>2. l2 - h2 - c + i + 1 = l - h + i + 1 /\ l - h + i + 1 \in 1..l
      BY <1>2, <2>2, <3>1
    <3>3. b2[i] = b[i] /\ b[i] = old[l - h + i + 1]
      BY <1>5, <2>2 DEF Ring
    <3> QED
      BY <3>2, <3>3
  <2> QED
    BY <2>1, <2>2
<1> QED
  BY <1>1, <1>3, <1>4, <1>5 DEF Ring

\* The chunk ends before the end of the buffer, or at it.
LEMMA RingFits ==
    ASSUME NEW c, NEW h, NEW s, NEW b, NEW old, NEW l, NEW n, NEW m, NEW k,
           NEW h2, NEW s2, NEW b2, NEW new, NEW l2,
           Shift(c, h, s, b, old, l, n, m, k, s2, new, l2),
           CopyFits(c, h, b, m, k, h2, b2)
    PROVE  h2 \in 0..c - 1 /\ Ring(c, h2, s2, b2, new, l2)
<1> USE DEF Shift, CopyFits
<1>1. h2 \in 0..c - 1
  OBVIOUS
<1>2. l >= h /\ (m < c => n = m) /\ (m = c => h = 0)
  BY DEF Ring, Least
<1>3. s2 < c => h2 = s2
  BY DEF Ring, Least
\* The bytes of the chunk end where head ends.
<1>4. ASSUME NEW i \in 0..c - 1, i >= h, i < h + m
      PROVE  b2[i] = new[l2 - (h + m) + i + 1]
  <2>1. i - h + 1 \in 1..m /\ l2 - m + (i - h + 1) = l2 - (h + m) + i + 1
    BY <1>4
  <2> QED
    BY <1>4, <2>1
\* What lies below them was written just before them.
<1>5. ASSUME NEW i \in 0..c - 1, i < h
      PROVE  b2[i] = new[l2 - (h + m) + i + 1]
  <2>1. m < c
    BY <1>5
  <2>2. l2 - (h + m) + i + 1 = l - h + i + 1 /\ l - h + i + 1 \in 1..l
    BY <1>2, <1>5, <2>1
  <2>3. b2[i] = b[i] /\ b[i] = old[l - h + i + 1]
    BY <1>5 DEF Ring
  <2> QED
    BY <2>2, <2>3
\* What lies above them stays.
<1>6. ASSUME NEW i \in 0..c - 1, i >= h + m, s2 = c
      PROVE  b2[i] = new[l2 - (h + m) - c + i + 1]
  <2>1. m < c
    BY <1>6
  <2>2. s = c /\ l >= c
    BY <1>2, <1>6, <2>1 DEF Ring, Least
  <2>3. /\ l2 - (h + m) - c + i + 1 = l - h - c + i + 1
        /\ l - h - c + i + 1 \in 1..l
    BY <1>2, <1>6, <2>1, <2>2
  <2>4. b2[i] = b[i] /\ b[i] = old[l - h - c + i + 1]
    BY <1>6, <2>2 DEF Ring
  <2> QED
    BY <2>3, <2>4
<1>7. CASE h + m = c
  <2>1. ASSUME NEW i \in 0..c - 1
        PROVE  b2[i] = new[l2 - h2 - c + i + 1] /\ ~(i < h2)
    <3>1. l2 - (h + m) + i + 1 = l2 - h2 - c + i + 1 /\ i < h + m
      BY <1>7
    <3>2. i < h \/ i >= h
      OBVIOUS
    <3> QED
      BY <1>4, <1>5, <1>7, <3>1, <3>2
  <2> QED
    BY <1>1, <1>3, <2>1 DEF Ring
<1>8. CASE h + m < c
  <2>1. h2 = h + m
    BY <1>8
  <2> QED
    BY <1>1, <1>3, <1>4, <1>5, <1>6, <2>1 DEF Ring
<1> QED
  BY <1>7, <1>8

\* What copyIntoRing does, by whether the chunk wraps.
LEMMA CopyCases ==
    ASSUME WindowTypeOK, NEW k \in Seq(Byte), NEW m, m = Len(k), m \in 1..Cap,
           copyIntoRing(k), NEW h, h = head, NEW h2, h2 = head'
    PROVE  CopyWraps(Cap, h, buf, m, k, h2, buf') \/ CopyFits(Cap, h, buf, m, k, h2, buf')
<1>1. Cap \in Nat \ {0} /\ h \in 0..Cap - 1 /\ m \in 1..Cap
  BY RawWindowAssumption DEF WindowTypeOK
<1> DEFINE n == Least(Cap - h, m)
           rest == m - n
<1>2. /\ \A i \in 0..Cap - 1 :
            buf'[i] = IF i < rest THEN k[n + i + 1]
                      ELSE IF i \in h..h + n - 1 THEN k[i - h + 1]
                      ELSE buf[i]
      /\ h2 = IF rest > 0 THEN rest % Cap ELSE (h + n) % Cap
  BY DEF copyIntoRing
<1> HIDE DEF n, rest
<1>3. CASE h + m > Cap
  <2>0. Cap - h <= m
    BY <1>1, <1>3
  <2>1. n = Cap - h /\ rest = h + m - Cap
    <3>1. n = Cap - h
      BY <2>0 DEF n, Least
    <3>2. m - (Cap - h) = h + m - Cap
      BY <1>1
    <3> QED
      BY <3>1, <3>2 DEF rest
  <2>2. rest \in 0..Cap /\ rest > 0 /\ rest # Cap
    BY <1>1, <1>3, <2>1
  <2>3. rest % Cap = rest
    BY <1>1, <2>2, Wrap
  <2>4. h2 = h + m - Cap
    BY <1>2, <2>1, <2>2, <2>3
  <2>5. ASSUME NEW i \in 0..Cap - 1
        PROVE  buf'[i] = IF i < h2 THEN k[(Cap - h) + i + 1]
                         ELSE IF i < h THEN buf[i] ELSE k[i - h + 1]
    <3>1. i \in h..h + n - 1 <=> ~(i < h)
      BY <1>1, <2>1
    <3>2. rest = h2
      BY <2>1, <2>4
    <3> QED
      BY <1>2, <2>1, <3>1, <3>2
  <2> QED
    BY <1>1, <1>3, <2>4, <2>5 DEF CopyWraps
<1>4. CASE h + m <= Cap
  <2>1. n = m /\ rest = 0
    BY <1>1, <1>4 DEF n, rest, Least
  <2>2. h + m \in 0..Cap
    BY <1>1, <1>4
  <2>3. (h + m) % Cap = IF h + m = Cap THEN 0 ELSE h + m
    BY <1>1, <2>2, Wrap
  <2>4. h2 = IF h + m = Cap THEN 0 ELSE h + m
    BY <1>2, <2>1, <2>3
  <2>5. ASSUME NEW i \in 0..Cap - 1
        PROVE  buf'[i] = IF i >= h /\ i < h + m THEN k[i - h + 1] ELSE buf[i]
    <3>1. i \in h..h + n - 1 <=> i >= h /\ i < h + m
      BY <1>1, <2>1
    <3>2. ~(i < rest)
      BY <2>1
    <3> QED
      BY <1>2, <3>1, <3>2
  <2> QED
    BY <1>1, <1>4, <2>4, <2>5 DEF CopyFits
<1> QED
  BY <1>1, <1>3, <1>4

\* A call of Append keeps the inductive invariant.
LEMMA AppendKeepsWindow ==
    ASSUME WindowInv, NEW p \in Chunks, AppendBytes(p)
    PROVE  WindowInv'
<1>1. /\ Cap \in Nat \ {0} /\ Chunks \subseteq Seq(Byte) /\ p \in Seq(Byte)
      /\ WindowTypeOK /\ RingInv
      /\ buf \in [0..Cap - 1 -> Byte] /\ head \in 0..Cap - 1
      /\ size \in 0..Cap /\ seen \in Seq(Byte)
  BY RawWindowAssumption DEF WindowInv, WindowTypeOK
<1>2. PICK k, m, n, l, l2, h, s, h2, s2 :
          /\ k = Kept(p) /\ m = Len(k) /\ n = Len(p)
          /\ l = Len(seen) /\ l2 = Len(seen')
          /\ h = head /\ h2 = head' /\ s = size /\ s2 = size'
  OBVIOUS
<1>3. PICK b, b2, old, new :
          b = buf /\ b2 = buf' /\ old = seen /\ new = seen'
  OBVIOUS
<1>4. /\ k \in Seq(Byte) /\ m \in 1..Cap /\ m = Least(n, Cap)
      /\ new \in Seq(Byte) /\ l2 = l + n
      /\ \A i \in 1..l : new[i] = old[i]
      /\ \A i \in 1..m : k[i] = new[l2 - m + i]
  BY <1>1, <1>2, <1>3, KeptIsTail
<1>5. /\ n \in Nat /\ n > 0 /\ l \in Nat /\ l2 \in Nat
      /\ h \in 0..Cap - 1 /\ s \in 0..Cap
  <2>1. n \in Nat /\ l \in Nat
    BY <1>1, <1>2
  <2>2. n > 0
    BY <1>2 DEF AppendBytes
  <2>3. h \in 0..Cap - 1 /\ s \in 0..Cap
    BY <1>1, <1>2
  <2>4. l2 \in Nat
    BY <1>4, <2>1
  <2> QED
    BY <2>1, <2>2, <2>3, <2>4
<1>6. Ring(Cap, h, s, b, old, l)
  BY <1>1, <1>2, <1>3 DEF RingInv, Ring
<1>7. s2 \in 0..Cap /\ s2 = Least(l2, Cap)
  <2>1. s2 = IF n >= Cap THEN Cap ELSE Least(s + n, Cap)
    BY <1>2 DEF AppendBytes
  <2>2. s = Least(l, Cap)
    BY <1>6 DEF Ring
  <2>3. Cap \in Nat /\ n \in Nat /\ l \in Nat /\ l2 = l + n
    BY <1>1, <1>4, <1>5
  <2>4. CASE n >= Cap
    BY <2>1, <2>3, <2>4 DEF Least
  <2>5. CASE n < Cap
    BY <2>1, <2>2, <2>3, <2>5 DEF Least
  <2> QED
    BY <2>3, <2>4, <2>5
<1>8. copyIntoRing(k)
  BY <1>2 DEF AppendBytes
<1>9. CopyWraps(Cap, h, b, m, k, h2, b2) \/ CopyFits(Cap, h, b, m, k, h2, b2)
  <2>1. CopyWraps(Cap, h, buf, m, k, h2, buf') \/ CopyFits(Cap, h, buf, m, k, h2, buf')
    BY <1>1, <1>2, <1>4, <1>8, CopyCases
  <2> QED
    BY <1>3, <2>1
<1>10. h2 \in 0..Cap - 1 /\ Ring(Cap, h2, s2, b2, new, l2)
  <2>1. Shift(Cap, h, s, b, old, l, n, m, k, s2, new, l2)
    BY <1>1, <1>4, <1>5, <1>6, <1>7 DEF Shift
  <2> QED
    BY <1>9, <2>1, RingWraps, RingFits
<1>11. b2 \in [0..Cap - 1 -> Byte]
  <2>1. b2 = [i \in 0..Cap - 1 |-> b2[i]]
    BY <1>3, <1>8 DEF copyIntoRing
  <2>2. ASSUME NEW i \in 0..Cap - 1
        PROVE  b2[i] \in Byte
    <3>1. b[i] \in Byte /\ \A j \in 1..m : k[j] \in Byte
      <4>1. b[i] \in Byte
        BY <1>1, <1>3
      <4>2. k \in [1..Len(k) -> Byte]
        BY <1>4
      <4> QED
        BY <1>2, <4>1, <4>2
    <3>2. CASE CopyWraps(Cap, h, b, m, k, h2, b2)
      <4>1. /\ i < h2 => (Cap - h) + i + 1 \in 1..m
            /\ ~(i < h) => i - h + 1 \in 1..m
        <5>1. h + m > Cap /\ h2 = h + m - Cap
          BY <3>2 DEF CopyWraps
        <5>2. Cap \in Nat /\ h \in 0..Cap - 1 /\ m \in 1..Cap
          BY <1>1, <1>4, <1>5
        <5> QED
          BY <5>1, <5>2
      <4> QED
        BY <3>1, <3>2, <4>1 DEF CopyWraps
    <3>3. CASE CopyFits(Cap, h, b, m, k, h2, b2)
      <4>1. i >= h /\ i < h + m => i - h + 1 \in 1..m
        BY <1>1, <1>4, <1>5
      <4> QED
        BY <3>1, <3>3, <4>1 DEF CopyFits
    <3> QED
      BY <1>9, <3>2, <3>3
  <2> QED
    BY <2>1, <2>2
<1>12. WindowTypeOK'
  BY <1>2, <1>3, <1>4, <1>7, <1>10, <1>11 DEF WindowTypeOK
<1>13. RingInv'
  BY <1>2, <1>3, <1>10 DEF RingInv, Ring
<1> QED
  BY <1>12, <1>13 DEF WindowInv

\* A new window is empty.
LEMMA NewWindowInv ==
    ASSUME NewRawWindow
    PROVE  WindowInv
<1>1. Cap \in Nat \ {0} /\ Zero \in Byte
  BY RawWindowAssumption
<1>2. seen \in Seq(Byte) /\ Len(seen) = 0
  BY DEF NewRawWindow
<1>3. WindowTypeOK
  BY <1>1, <1>2 DEF NewRawWindow, WindowTypeOK
<1>4. RingInv
  BY <1>1, <1>2 DEF NewRawWindow, RingInv, Least
<1> QED
  BY <1>3, <1>4 DEF WindowInv

\* The invariant says of Snapshot that it is the tail of what was seen.
LEMMA InvGivesTail ==
    ASSUME WindowInv
    PROVE  SnapshotIsTail
<1>1. /\ Cap \in Nat \ {0} /\ head \in 0..Cap - 1 /\ size \in 0..Cap
      /\ seen \in Seq(Byte) /\ Len(seen) \in Nat /\ RingInv
  BY RawWindowAssumption DEF WindowInv, WindowTypeOK
<1>2. PICK l : l = Len(seen)
  OBVIOUS
<1>3. size <= l /\ size = Least(l, Cap)
  BY <1>1, <1>2 DEF RingInv, Least
<1> DEFINE start == IF head - size < 0 THEN head - size + Cap ELSE head - size
           firstLen == Cap - start
           at(i) == IF i <= firstLen THEN buf[start + i - 1]
                                     ELSE buf[i - firstLen - 1]
<1>4. ASSUME NEW i \in 1..size
      PROVE  at(i) = seen[l - size + i]
  <2>1. CASE size < Cap
    <3>1. head = size /\ start = 0 /\ firstLen = Cap /\ i <= firstLen
      BY <1>1, <2>1 DEF RingInv
    <3>2. start + i - 1 \in 0..Cap - 1 /\ start + i - 1 < head
      BY <1>1, <3>1
    <3>3. at(i) = buf[start + i - 1]
      BY <3>1
    <3>4. l - head + (start + i - 1) + 1 = l - size + i
      BY <1>1, <1>2, <3>1
    <3> HIDE DEF start, firstLen, at
    <3> QED
      BY <1>1, <1>2, <3>2, <3>3, <3>4 DEF RingInv
  <2>2. CASE size = Cap /\ i <= firstLen
    <3>1. start = head
      BY <1>1, <2>2
    <3>2. at(i) = buf[head + i - 1]
      BY <2>2, <3>1
    <3>3. head + i - 1 \in 0..Cap - 1 /\ head + i - 1 >= head
      BY <1>1, <2>2, <3>1
    <3>4. l - head - Cap + (head + i - 1) + 1 = l - size + i
      BY <1>1, <1>2, <2>2
    <3> HIDE DEF start, firstLen, at
    <3> QED
      BY <1>1, <1>2, <2>2, <3>2, <3>3, <3>4 DEF RingInv
  <2>3. CASE size = Cap /\ ~(i <= firstLen)
    <3>1. start = head /\ firstLen = Cap - head
      BY <1>1, <2>3
    <3>2. at(i) = buf[i - (Cap - head) - 1]
      BY <2>3, <3>1
    <3>3. /\ i - (Cap - head) - 1 \in 0..Cap - 1
          /\ i - (Cap - head) - 1 < head
      BY <1>1, <2>3, <3>1
    <3>4. l - head + (i - (Cap - head) - 1) + 1 = l - size + i
      BY <1>1, <1>2, <2>3
    <3> HIDE DEF start, firstLen, at
    <3> QED
      BY <1>1, <1>2, <3>2, <3>3, <3>4 DEF RingInv
  <2> QED
    BY <1>1, <2>1, <2>2, <2>3
<1>5. Snapshot = [i \in 1..size |-> at(i)]
  BY DEF Snapshot
<1> HIDE DEF at
<1>6. SubSeq(seen, l - size + 1, l) = [i \in 1..size |-> seen[l - size + i]]
  <2>1. l - (l - size + 1) + 1 = size
    BY <1>1, <1>2
  <2>2. \A i \in 1..size : i + (l - size + 1) - 1 = l - size + i
    BY <1>1, <1>2
  <2>3. SubSeq(seen, l - size + 1, l)
          = [i \in 1..l - (l - size + 1) + 1 |-> seen[i + (l - size + 1) - 1]]
    BY <1>1, <1>2, <1>3
  <2> QED
    BY <2>1, <2>2, <2>3
<1>7. Snapshot = SubSeq(seen, l - size + 1, l)
  BY <1>4, <1>5, <1>6
<1> QED
  BY <1>2, <1>3, <1>7 DEF SnapshotIsTail

\* Any step of the window, or a stutter.
LEMMA WindowStep ==
    ASSUME WindowInv, [WindowNext]_windowVars
    PROVE  WindowInv'
<1>1. CASE WindowNext
  BY <1>1, AppendKeepsWindow DEF WindowNext
<1>2. CASE UNCHANGED windowVars
  BY <1>2 DEF windowVars, WindowInv, WindowTypeOK, RingInv
<1> QED
  BY <1>1, <1>2

\* Head stays inside the buffer and size within its capacity, for every
\* capacity and every sequence of Append calls (rawwindow.go:61-86).
THEOREM WindowTypeCorrect == WindowSpec => []WindowTypeOK
<1>1. WindowInv => WindowTypeOK
  BY DEF WindowInv
<1> QED
  BY <1>1, NewWindowInv, WindowStep, PTL DEF WindowSpec

\* The ring buffer is a sliding window: Snapshot is always the tail of what
\* Append was given, for every capacity and every chunk length.
THEOREM SlidingWindow == WindowSpec => []SnapshotIsTail
<1> QED
  BY InvGivesTail, NewWindowInv, WindowStep, PTL DEF WindowSpec

-----------------------------------------------------------------------------
(***************************************************************************)
(* internal/memory/dictionary.go: the guarded LRU dictionary.              *)
(***************************************************************************)
\* The parts that hold each other up: the account is right only if an id that
\* is given out is new, and Delete finds the key only if the index is right.
LRUInv == LRUTypeOK /\ IndexInv /\ WithinCap

-----------------------------------------------------------------------------
\* Ids are handed out in order, so there are finitely many.
LEMMA IDsFinite ==
    ASSUME LRUTypeOK, IndexInv
    PROVE  IsFiniteSet(IDs) /\ Counts(Sizes, IDs)
<1>1. IDs \in SUBSET Nat /\ nextID \in Nat /\ \A i \in IDs : i <= nextID
  BY DEF LRUTypeOK, IndexInv, IDs
<1>2. IsFiniteSet(IDs)
  BY <1>1, FS_BoundedSetOfNaturals
<1>3. \A i \in IDs : Sizes[i] = entries[i].size /\ entries[i] \in DictEntry
  BY DEF LRUTypeOK, Sizes, IDs
<1> QED
  BY <1>2, <1>3 DEF Counts, DictEntry

\* What a part of the entries takes up.
LEMMA PartBytes ==
    ASSUME LRUTypeOK, IndexInv, NEW ids \in SUBSET IDs
    PROVE  /\ BytesOf(ids) \in Nat
           /\ BytesOf(IDs \ ids) \in Nat
           /\ BytesOf(IDs) = BytesOf(ids) + BytesOf(IDs \ ids)
BY IDsFinite, SumWithout DEF BytesOf

\* A larger part takes up no less.
LEMMA MoreBytes ==
    ASSUME LRUTypeOK, IndexInv, NEW ids \in SUBSET IDs, NEW some \in SUBSET ids
    PROVE  BytesOf(some) <= BytesOf(ids)
<1>1. IsFiniteSet(ids) /\ Counts(Sizes, ids)
  BY IDsFinite, FS_Subset DEF Counts
<1>2. /\ BytesOf(ids) = BytesOf(some) + BytesOf(ids \ some)
      /\ BytesOf(some) \in Nat
      /\ BytesOf(ids \ some) \in Nat
  BY <1>1, SumWithout DEF BytesOf
<1> QED
  BY <1>2

-----------------------------------------------------------------------------
LEMMA LRUInvInit ==
    ASSUME NewDictionary
    PROVE  LRUInv
<1>1. DOMAIN entries = {} /\ DOMAIN byKey = {}
  BY DEF NewDictionary
<1>2. LRUTypeOK
  BY <1>1 DEF NewDictionary, LRUTypeOK, Result
<1>3. IndexInv
  BY <1>1 DEF IndexInv, IDs
<1>4. WithinCap
  BY <1>1, SumEmpty, GuardedLRUAssumption DEF NewDictionary, WithinCap, BytesOf, IDs
<1> QED
  BY <1>2, <1>3, <1>4 DEF LRUInv

\* A use changes no size.
LEMMA GetByIDInv ==
    ASSUME LRUInv, NEW id, GetByID(id)
    PROVE  LRUInv'
<1> USE DEF LRUInv
<1>1. /\ id \in IDs
      /\ DOMAIN entries' = IDs
      /\ \A i \in IDs : /\ entries'[i] \in DictEntry
                        /\ entries'[i].key = entries[i].key
                        /\ entries'[i].size = entries[i].size
                        /\ entries'[i].createdSeq = entries[i].createdSeq
                        /\ entries'[i].lastUsedSeq =
                              IF i = id THEN nextSeq ELSE entries[i].lastUsedSeq
  BY DEF GetByID, LRUTypeOK, DictEntry, IDs
<1>2. LRUTypeOK'
  BY <1>1 DEF GetByID, LRUTypeOK, Result, IDs
<1>3. IndexInv'
  BY <1>1 DEF GetByID, LRUTypeOK, IndexInv, IDs, DictEntry
<1>4. WithinCap'
  <2>1. Sizes' = Sizes
    BY <1>1 DEF Sizes, IDs
  <2> QED
    BY <1>1, <2>1 DEF GetByID, WithinCap, BytesOf, IDs
<1> QED
  BY <1>2, <1>3, <1>4

\* The entries that stay keep their sizes.
LEMMA RestBytes ==
    ASSUME LRUTypeOK, IndexInv, NEW out \in SUBSET IDs,
           IDs \ out \subseteq DOMAIN entries',
           \A i \in IDs \ out : entries'[i] = entries[i]
    PROVE  SumFunctionOnSet(Sizes', IDs \ out) = BytesOf(IDs \ out)
<1>1. IsFiniteSet(IDs \ out) /\ Counts(Sizes, IDs \ out)
  BY IDsFinite, FS_Subset DEF Counts
<1>2. \A i \in IDs \ out : Sizes[i] = Sizes'[i]
  BY DEF Sizes, IDs
<1> QED
  BY <1>1, <1>2, SumSame DEF BytesOf

LEMMA DeleteInv ==
    ASSUME LRUInv, NEW id, Delete(id)
    PROVE  LRUInv'
<1> USE DEF LRUInv
<1>1. /\ id \in IDs
      /\ DOMAIN entries' = IDs \ {id}
      /\ \A i \in IDs \ {id} : entries'[i] = entries[i]
      /\ DOMAIN byKey' = DOMAIN byKey \ {entries[id].key}
      /\ \A k \in DOMAIN byKey' : byKey'[k] = byKey[k]
  BY DEF Delete, WithoutIndex
<1>2. /\ usedBytes' = usedBytes - entries[id].size
      /\ usedBytes' = BytesOf(IDs \ {id})
      /\ usedBytes' \in Nat /\ usedBytes' <= usedBytes
  <2>1. BytesOf(IDs) = BytesOf({id}) + BytesOf(IDs \ {id})
        /\ BytesOf(IDs \ {id}) \in Nat
    BY <1>1, PartBytes
  <2>2. BytesOf({id}) = entries[id].size
    <3>1. Sizes[id] = entries[id].size /\ entries[id].size \in Nat
      BY <1>1 DEF Sizes, LRUTypeOK, DictEntry, IDs
    <3>2. IsFiniteSet({}) /\ Counts(Sizes, {}) /\ id \notin {} /\ {} \cup {id} = {id}
      BY FS_EmptySet DEF Counts
    <3>3. SumFunctionOnSet(Sizes, {} \cup {id}) = 0 + Sizes[id]
      BY <3>1, <3>2, SumAdd, SumEmpty
    <3> QED
      BY <3>1, <3>2, <3>3 DEF BytesOf
  <2>3. entries[id].size \in Nat /\ usedBytes \in Nat
    BY <1>1 DEF LRUTypeOK, DictEntry, IDs
  <2> QED
    BY <2>1, <2>2, <2>3 DEF Delete, WithinCap
<1>3. LRUTypeOK'
  <2>1. entries' \in [DOMAIN entries' -> DictEntry]
    BY <1>1 DEF Delete, LRUTypeOK, IDs
  <2>2. byKey' \in [DOMAIN byKey' -> Nat]
    BY <1>1 DEF Delete, WithoutIndex, LRUTypeOK
  <2> QED
    BY <1>1, <1>2, <2>1, <2>2 DEF Delete, LRUTypeOK, Result, IDs
<1>4. IndexInv'
  <2>1. \A k \in DOMAIN byKey' :
            byKey'[k] \in DOMAIN entries' /\ entries'[byKey'[k]].key = k
    BY <1>1 DEF IndexInv
  <2>2. \A i \in DOMAIN entries' :
            entries'[i].key \in DOMAIN byKey' /\ byKey'[entries'[i].key] = i
    BY <1>1 DEF IndexInv
  <2>3. \A i \in DOMAIN entries' :
            /\ i < nextID'
            /\ entries'[i].createdSeq <= entries'[i].lastUsedSeq
            /\ entries'[i].lastUsedSeq < nextSeq'
    BY <1>1 DEF Delete, IndexInv
  <2>4. \A i, j \in DOMAIN entries' :
            /\ i < j => entries'[i].createdSeq < entries'[j].createdSeq
            /\ entries'[i].lastUsedSeq = entries'[j].lastUsedSeq => i = j
    BY <1>1 DEF IndexInv
  <2> QED
    BY <2>1, <2>2, <2>3, <2>4 DEF IndexInv, IDs
<1>5. WithinCap'
  <2>1. SumFunctionOnSet(Sizes', IDs \ {id}) = BytesOf(IDs \ {id})
    BY <1>1, RestBytes
  <2> QED
    BY <1>1, <1>2, <2>1, GuardedLRUAssumption DEF WithinCap, BytesOf, IDs, LRUTypeOK
<1> QED
  BY <1>3, <1>4, <1>5

LEMMA ClearInv ==
    ASSUME LRUInv, Clear
    PROVE  LRUInv'
<1>1. DOMAIN entries' = {} /\ DOMAIN byKey' = {}
  BY DEF Clear
<1>2. LRUTypeOK'
  BY <1>1 DEF Clear, LRUInv, LRUTypeOK, Result
<1>3. IndexInv'
  BY <1>1 DEF IndexInv, IDs
<1>4. WithinCap'
  BY <1>1, SumEmpty, GuardedLRUAssumption DEF Clear, WithinCap, BytesOf, IDs
<1> QED
  BY <1>2, <1>3, <1>4 DEF LRUInv

\* Room was made, and the new id is not in use.
LEMMA InsertInv ==
    ASSUME LRUInv, NEW key \in Keys, NEW need \in Nat,
           key \notin DOMAIN byKey, evictToFit(need), Insert(key, need)
    PROVE  LRUInv'
<1> USE DEF LRUInv
<1> DEFINE out == Victims(need)
           new == [key |-> key, size |-> need,
                   createdSeq |-> nextSeq, lastUsedSeq |-> nextSeq]
<1>1. out \in SUBSET IDs /\ nextID \notin IDs
  BY DEF Victims, OlderHalf, IndexInv, LRUTypeOK
<1>2. /\ DOMAIN entries' = (IDs \ out) \cup {nextID}
      /\ entries'[nextID] = new
      /\ \A i \in IDs \ out : entries'[i] = entries[i]
      /\ DOMAIN byKey' = (DOMAIN byKey \ {entries[i].key : i \in out}) \cup {key}
      /\ byKey'[key] = nextID
      /\ \A k \in DOMAIN byKey' : k # key => byKey'[k] = byKey[k]
      /\ usedBytes' = usedBytes - BytesOf(out) + need
      /\ nextID' = nextID + 1 /\ nextSeq' = nextSeq + 1
      /\ result' = Result("inserted", need)
  <2> HIDE DEF out
  <2> QED
    BY <1>1 DEF Insert, WithoutIndex, out
<1> HIDE DEF out
<1>3. /\ usedBytes' = BytesOf(IDs \ out) + need
      /\ usedBytes' \in Nat
      /\ usedBytes' <= capBytes
  <2>1. /\ BytesOf(IDs) = BytesOf(out) + BytesOf(IDs \ out)
        /\ BytesOf(out) \in Nat /\ BytesOf(IDs \ out) \in Nat
    BY <1>1, PartBytes
  <2>2. capBytes - usedBytes + BytesOf(out) >= need
    BY DEF evictToFit, freeBytes, out
  <2> QED
    BY <1>2, <2>1, <2>2, GuardedLRUAssumption DEF WithinCap, LRUTypeOK
<1>4. new \in DictEntry
  BY DEF DictEntry, LRUTypeOK
<1>5. LRUTypeOK'
  <2> HIDE DEF new
  <2>1. DOMAIN entries' \subseteq Nat /\ entries' \in [DOMAIN entries' -> DictEntry]
    <3>1. \A i \in DOMAIN entries' : entries'[i] \in DictEntry
      BY <1>1, <1>2, <1>4 DEF LRUTypeOK, IDs
    <3>2. entries' = [i \in DOMAIN entries' |-> entries'[i]]
      BY DEF Insert
    <3> QED
      BY <1>2, <3>1, <3>2 DEF LRUTypeOK, IDs
  <2>2. DOMAIN byKey' \subseteq Keys /\ byKey' \in [DOMAIN byKey' -> Nat]
    <3>1. \A k \in DOMAIN byKey' : byKey'[k] \in Nat
      BY <1>2 DEF LRUTypeOK
    <3>2. byKey' = [k \in DOMAIN byKey' |-> byKey'[k]]
      BY DEF Insert
    <3> QED
      BY <1>2, <3>1, <3>2 DEF LRUTypeOK
  <2> QED
    BY <1>2, <1>3, <2>1, <2>2 DEF LRUTypeOK, Result
<1>6. IndexInv'
  <2>1. /\ DOMAIN entries \subseteq Nat /\ nextID \in Nat /\ nextSeq \in Nat
        /\ \A i \in IDs : /\ entries[i].createdSeq \in Nat
                          /\ entries[i].lastUsedSeq \in Nat
    BY DEF LRUTypeOK, DictEntry, IDs
  <2>2. \A i \in IDs : i < nextID /\ entries[i].createdSeq < nextSeq
                       /\ entries[i].lastUsedSeq < nextSeq
    BY <2>1 DEF IndexInv
  <2>3. \A k \in DOMAIN byKey' :
            byKey'[k] \in DOMAIN entries' /\ entries'[byKey'[k]].key = k
    BY <1>1, <1>2 DEF IndexInv
  <2>4. \A i \in DOMAIN entries' :
            entries'[i].key \in DOMAIN byKey' /\ byKey'[entries'[i].key] = i
    BY <1>1, <1>2 DEF IndexInv
  <2>5. \A i \in DOMAIN entries' :
            /\ i < nextID'
            /\ entries'[i].createdSeq <= entries'[i].lastUsedSeq
            /\ entries'[i].lastUsedSeq < nextSeq'
    BY <1>1, <1>2, <2>1, <2>2 DEF IndexInv, IDs
  <2>6. \A i, j \in DOMAIN entries' :
            /\ i < j => entries'[i].createdSeq < entries'[j].createdSeq
            /\ entries'[i].lastUsedSeq = entries'[j].lastUsedSeq => i = j
    BY <1>1, <1>2, <2>1, <2>2 DEF IndexInv, IDs
  <2> QED
    BY <2>3, <2>4, <2>5, <2>6 DEF IndexInv, IDs
<1>7. WithinCap'
  <2>1. SumFunctionOnSet(Sizes', IDs \ out) = BytesOf(IDs \ out)
    BY <1>1, <1>2, RestBytes
  <2>2. Sizes'[nextID] = need
    BY <1>2 DEF Sizes, IDs
  <2>3. IsFiniteSet(IDs \ out) /\ Counts(Sizes', IDs \ out) /\ nextID \notin IDs \ out
    <3>1. IsFiniteSet(IDs) /\ Counts(Sizes, IDs)
      BY IDsFinite
    <3>2. \A i \in IDs \ out : Sizes'[i] = Sizes[i]
      BY <1>2 DEF Sizes, IDs
    <3> QED
      BY <1>1, <3>1, <3>2, FS_Subset DEF Counts
  <2>4. SumFunctionOnSet(Sizes', (IDs \ out) \cup {nextID}) = BytesOf(IDs \ out) + need
    BY <2>1, <2>2, <2>3, SumAdd
  <2> QED
    BY <1>2, <1>3, <2>4 DEF WithinCap, BytesOf, IDs
<1> QED
  BY <1>5, <1>6, <1>7

LEMMA RejectInv ==
    ASSUME LRUInv, NEW need \in Nat, Reject(need)
    PROVE  LRUInv'
<1>1. LRUTypeOK'
  BY DEF Reject, LRUInv, LRUTypeOK, contentVars, Result
<1>2. IndexInv' /\ WithinCap'
  BY DEF Reject, LRUInv, IndexInv, WithinCap, BytesOf, Sizes, IDs, contentVars
<1> QED
  BY <1>1, <1>2 DEF LRUInv

LEMMA LRUInvStep ==
    ASSUME LRUInv, [LRUNext]_lruVars
    PROVE  LRUInv'
<1>1. ASSUME NEW key \in Keys, NEW need \in PatternSizes, AddCandidate(key, need)
      PROVE  LRUInv'
  <2>1. need \in Nat
    BY GuardedLRUAssumption
  <2> QED
    BY <1>1, <2>1, GetByIDInv, InsertInv, RejectInv DEF AddCandidate
<1>2. CASE UNCHANGED lruVars
  BY <1>2 DEF lruVars, contentVars, LRUInv, LRUTypeOK, IndexInv, WithinCap, BytesOf,
              Sizes, IDs
<1> QED
  BY <1>1, <1>2, GetByIDInv, DeleteInv, ClearInv DEF LRUNext

\* The dictionary's fields have their types, and the ids in the index are
\* natural numbers, whatever is offered, used, deleted and cleared.
THEOREM LRUTypeCorrect == LRUSpec => []LRUTypeOK
BY LRUInvInit, LRUInvStep, PTL DEF LRUSpec, LRUInv

\* The index is right: the key of an entry leads to it and to no other.
THEOREM IndexCorrect == LRUSpec => []IndexInv
BY LRUInvInit, LRUInvStep, PTL DEF LRUSpec, LRUInv

\* The account is right and within the hard cap, for every capacity.
THEOREM CapKept == LRUSpec => []WithinCap
BY LRUInvInit, LRUInvStep, PTL DEF LRUSpec, LRUInv
-----------------------------------------------------------------------------
(***************************************************************************)
(* The eviction policy.                                                    *)
(***************************************************************************)
OlderThan(v) == {u \in IDs : entries[u].createdSeq < entries[v].createdSeq}

\* Every other entry is either older or newer.
LEMMA OlderAndNewer ==
    ASSUME LRUTypeOK, IndexInv, NEW v \in IDs
    PROVE  /\ Cardinality(IDs) \in Nat
           /\ Cardinality(OlderThan(v)) \in Nat
           /\ Cardinality(Newer(v)) \in Nat
           /\ Cardinality(OlderThan(v)) + Cardinality(Newer(v)) + 1 = Cardinality(IDs)
<1>0. IDs \in SUBSET Nat /\ \A i \in IDs : entries[i].createdSeq \in Nat
  BY DEF LRUTypeOK, DictEntry, IDs
<1>1. /\ OlderThan(v) \cup Newer(v) = IDs \ {v}
      /\ OlderThan(v) \cap Newer(v) = {}
      /\ OlderThan(v) \in SUBSET IDs /\ Newer(v) \in SUBSET IDs
  <2>1. \A i, j \in IDs : entries[i].createdSeq = entries[j].createdSeq => i = j
    BY <1>0 DEF IndexInv
  <2>2. \A u \in IDs : u \in OlderThan(v) \/ u \in Newer(v) <=> u # v
    BY <1>0, <2>1 DEF OlderThan, Newer
  <2>3. \A u \in IDs : ~(u \in OlderThan(v) /\ u \in Newer(v))
    BY <1>0 DEF OlderThan, Newer
  <2>4. OlderThan(v) \in SUBSET IDs /\ Newer(v) \in SUBSET IDs
    BY DEF OlderThan, Newer
  <2> QED
    BY <2>2, <2>3, <2>4
<1>2. IsFiniteSet(IDs) /\ IsFiniteSet(OlderThan(v)) /\ IsFiniteSet(Newer(v))
  BY <1>1, IDsFinite, FS_Subset
<1>3. /\ Cardinality(IDs) \in Nat
      /\ Cardinality(OlderThan(v)) \in Nat
      /\ Cardinality(Newer(v)) \in Nat
  BY <1>2, FS_CardinalityType
<1>4. Cardinality(IDs \ {v}) = Cardinality(IDs) - 1
  BY <1>2, FS_RemoveElement
<1>5. Cardinality(OlderThan(v) \cup Newer(v)) =
         Cardinality(OlderThan(v)) + Cardinality(Newer(v)) - Cardinality(OlderThan(v) \cap Newer(v))
  BY <1>2, FS_Union
<1>6. Cardinality(OlderThan(v) \cap Newer(v)) = 0
  BY <1>1, FS_EmptySet
<1>7. Cardinality(OlderThan(v) \cup Newer(v)) = Cardinality(OlderThan(v)) + Cardinality(Newer(v))
  BY <1>3, <1>5, <1>6
<1>8. Cardinality(IDs \ {v}) = Cardinality(OlderThan(v)) + Cardinality(Newer(v))
  BY <1>1, <1>7, Zenon
<1> QED
  BY <1>3, <1>4, <1>8

\* Exactly the older half may go: the rest is what at most half are newer than.
LEMMA ProtectedHalf ==
    ASSUME LRUTypeOK, IndexInv, NEW v \in IDs
    PROVE  /\ v \in OlderHalf <=> Cardinality(OlderThan(v)) < Cardinality(IDs) \div 2
           /\ v \in OlderHalf <=> 2 * Cardinality(Newer(v)) >= Cardinality(IDs)
<1>1. v \in OlderHalf <=> Cardinality(OlderThan(v)) < Cardinality(IDs) \div 2
  BY DEF OlderHalf, OlderThan
<1>2. \A n, o, m \in Nat : o + m + 1 = n => (o < n \div 2 <=> 2 * m >= n)
  OBVIOUS
<1> QED
  BY <1>1, <1>2, OlderAndNewer

\* What is used before v within the half.
Before(v) == {u \in OlderHalf : entries[u].lastUsedSeq < entries[v].lastUsedSeq}

LEMMA VictimsAre ==
    ASSUME LRUInv, NEW need \in Nat
    PROVE  /\ OlderHalf \in SUBSET IDs
           /\ Victims(need) \in SUBSET OlderHalf
           /\ \A v \in OlderHalf : /\ Before(v) \in SUBSET IDs
                                   /\ BytesOf(Before(v)) \in Nat
                                   /\ entries[v].lastUsedSeq \in Nat
                                   /\ v \in Victims(need) <=>
                                        capBytes - usedBytes + BytesOf(Before(v)) < need
<1>1. OlderHalf \in SUBSET IDs /\ Victims(need) \in SUBSET OlderHalf
  BY DEF OlderHalf, Victims
<1>2. ASSUME NEW v \in OlderHalf
      PROVE  /\ Before(v) \in SUBSET IDs
             /\ BytesOf(Before(v)) \in Nat
             /\ entries[v].lastUsedSeq \in Nat
             /\ v \in Victims(need) <=>
                    capBytes - usedBytes + BytesOf(Before(v)) < need
  <2>1. Before(v) \in SUBSET IDs /\ v \in IDs
    BY <1>1 DEF Before
  <2>2. BytesOf(Before(v)) \in Nat
    BY <2>1, PartBytes DEF LRUInv
  <2>3. entries[v].lastUsedSeq \in Nat
    BY <2>1 DEF LRUInv, LRUTypeOK, DictEntry, IDs
  <2>4. v \in Victims(need) <=> capBytes - usedBytes + BytesOf(Before(v)) < need
    BY DEF Victims, Before, freeBytes
  <2> QED
    BY <2>1, <2>2, <2>3, <2>4
<1> QED
  BY <1>1, <1>2

\* What each operation reports.
LEMMA Reports ==
    /\ \A id : GetByID(id) => result'.what = "used"
    /\ \A id : Delete(id) => result'.what = "removed"
    /\ Clear => result'.what = "removed"
    /\ \A key, need : Insert(key, need) => result'.what = "inserted"
    /\ \A need : Reject(need) => result'.what = "rejected"
<1>1. \A what, need : Result(what, need).what = what
  BY DEF Result
<1>2. \A id : GetByID(id) => result' = Result("used", 0)
  BY Zenon DEF GetByID
<1>3. \A id : Delete(id) => result' = Result("removed", 0)
  BY Zenon DEF Delete
<1>4. Clear => result' = Result("removed", 0)
  BY Zenon DEF Clear
<1>5. \A key, need : Insert(key, need) => result' = Result("inserted", need)
  BY Zenon DEF Insert
<1>6. \A need : Reject(need) => result' = Result("rejected", need)
  BY Zenon DEF Reject
<1> QED
  BY <1>1, <1>2, <1>3, <1>4, <1>5, <1>6, Zenon

\* The steps that insert are Insert.
LEMMA InsertedBy ==
    ASSUME LRUInv, [LRUNext]_lruVars, ~UNCHANGED lruVars, result'.what = "inserted"
    PROVE  \E key \in Keys, need \in Nat : Insert(key, need)
<1>1. \A id : ~GetByID(id) /\ ~Delete(id)
  BY Reports
<1>2. ~Clear /\ \A need : ~Reject(need)
  BY Reports
<1>3. PICK key \in Keys, need \in PatternSizes : AddCandidate(key, need)
  BY <1>1, <1>2 DEF LRUNext
<1>4. Insert(key, need)
  BY <1>1, <1>2, <1>3 DEF AddCandidate
<1> QED
  BY <1>4, GuardedLRUAssumption

LEMMA EvictionStep ==
    ASSUME LRUInv, NEW key \in Keys, NEW need \in Nat, Insert(key, need)
    PROVE  /\ \A v \in Gone : 2 * Cardinality(Newer(v)) >= Cardinality(IDs)
           /\ \A v \in Gone, u \in IDs \ Gone :
                 entries[u].createdSeq < entries[v].createdSeq =>
                     entries[v].lastUsedSeq < entries[u].lastUsedSeq
           /\ \A v \in Gone :
                 (\A u \in Gone : entries[u].lastUsedSeq <= entries[v].lastUsedSeq) =>
                     usedBytes - BytesOf(Gone \ {v}) + result'.need > capBytes
<1>0. LRUTypeOK /\ IndexInv
  BY DEF LRUInv
<1>1. Gone = Victims(need)
  <2>1. nextID \notin IDs
    BY <1>0 DEF IndexInv, LRUTypeOK
  <2>2. Victims(need) \in SUBSET IDs
    BY VictimsAre
  <2>3. DOMAIN entries' = (IDs \ Victims(need)) \cup {nextID}
    BY DEF Insert
  <2> QED
    BY <2>1, <2>2, <2>3 DEF Gone
<1>2. ASSUME NEW v \in Gone
      PROVE  2 * Cardinality(Newer(v)) >= Cardinality(IDs)
  BY <1>0, <1>1, VictimsAre, ProtectedHalf
<1>3. ASSUME NEW v \in Gone, NEW u \in IDs \ Gone,
             entries[u].createdSeq < entries[v].createdSeq,
             ~(entries[v].lastUsedSeq < entries[u].lastUsedSeq)
      PROVE  FALSE
  <2>1. v \in OlderHalf /\ v \in IDs
    BY <1>1, VictimsAre
  <2>2. u \in OlderHalf
    <3>0. \A i \in IDs : entries[i].createdSeq \in Nat
      BY <1>0 DEF LRUTypeOK, DictEntry, IDs
    <3>1. OlderThan(u) \in SUBSET OlderThan(v)
      BY <1>3, <2>1, <3>0 DEF OlderThan
    <3>2. IsFiniteSet(OlderThan(v))
      BY <1>0, IDsFinite, FS_Subset DEF OlderThan
    <3>3. Cardinality(OlderThan(u)) <= Cardinality(OlderThan(v))
      BY <3>1, <3>2, FS_Subset
    <3>4. Cardinality(OlderThan(v)) < Cardinality(IDs) \div 2
      BY <1>0, <2>1, ProtectedHalf
    <3>5. /\ Cardinality(OlderThan(u)) \in Nat
          /\ Cardinality(OlderThan(v)) \in Nat
          /\ Cardinality(IDs) \in Nat
      BY <1>0, <2>1, OlderAndNewer
    <3>6. Cardinality(OlderThan(u)) < Cardinality(IDs) \div 2
      BY <3>3, <3>4, <3>5
    <3> QED
      BY <1>0, <3>6, ProtectedHalf
  <2>3. Before(u) \in SUBSET Before(v)
    <3>1. \A w \in OlderHalf : entries[w].lastUsedSeq \in Nat
      BY VictimsAre
    <3> QED
      BY <1>3, <2>1, <2>2, <3>1 DEF Before
  <2>4. BytesOf(Before(u)) <= BytesOf(Before(v))
    BY <1>0, <2>1, <2>3, VictimsAre, MoreBytes
  <2>5. /\ capBytes - usedBytes + BytesOf(Before(v)) < need
        /\ ~(capBytes - usedBytes + BytesOf(Before(u)) < need)
        /\ BytesOf(Before(u)) \in Nat /\ BytesOf(Before(v)) \in Nat
    BY <1>1, <1>3, <2>1, <2>2, VictimsAre
  <2> QED
    BY <1>0, <2>4, <2>5, GuardedLRUAssumption DEF LRUTypeOK
<1>4. ASSUME NEW v \in Gone,
             \A u \in Gone : entries[u].lastUsedSeq <= entries[v].lastUsedSeq
      PROVE  usedBytes - BytesOf(Gone \ {v}) + result'.need > capBytes
  <2>1. v \in OlderHalf /\ v \in IDs /\ Gone \in SUBSET OlderHalf
    BY <1>1, VictimsAre
  <2>2. Gone \ {v} \in SUBSET Before(v)
    <3>1. \A w \in OlderHalf : w \in IDs /\ entries[w].lastUsedSeq \in Nat
      BY VictimsAre
    <3>2. \A w \in Gone \ {v} : entries[w].lastUsedSeq # entries[v].lastUsedSeq
      BY <1>0, <2>1, <3>1 DEF IndexInv
    <3> QED
      BY <1>4, <2>1, <3>1, <3>2 DEF Before
  <2>3. BytesOf(Gone \ {v}) <= BytesOf(Before(v))
    BY <1>0, <2>1, <2>2, VictimsAre, MoreBytes
  <2>4. capBytes - usedBytes + BytesOf(Before(v)) < need /\ BytesOf(Before(v)) \in Nat
    BY <1>1, <2>1, VictimsAre
  <2>5. Gone \ {v} \in SUBSET IDs
    BY DEF Gone
  <2>6. BytesOf(Gone \ {v}) \in Nat
    BY <1>0, <2>5, PartBytes
  <2>7. result'.need = need
    BY DEF Insert, Result
  <2> QED
    BY <1>0, <2>3, <2>4, <2>6, <2>7, GuardedLRUAssumption DEF LRUTypeOK
<1> QED
  BY <1>2, <1>3, <1>4

\* The plan falls short only when it takes the whole half.
LEMMA PlanExhausted ==
    ASSUME LRUInv, NEW need \in Nat, ~evictToFit(need)
    PROVE  Victims(need) = OlderHalf
<1>0. LRUTypeOK /\ IndexInv
  BY DEF LRUInv
<1> DEFINE Spared == OlderHalf \ Victims(need)
           Times == {entries[v].lastUsedSeq : v \in Spared}
<1>1. SUFFICES ASSUME Spared # {} PROVE FALSE
  BY VictimsAre
<1>2. Times \in SUBSET Nat /\ Times # {}
  BY <1>1, VictimsAre
<1>3. PICK t \in Times : \A s \in Times : t <= s
  <2> HIDE DEF Times
  <2> QED
    BY <1>2, LeastNatural
<1>4. PICK v \in Spared : entries[v].lastUsedSeq = t
  BY <1>3
<1>5. Before(v) \in SUBSET Victims(need)
  <2>1. \A u \in OlderHalf : entries[u].lastUsedSeq \in Nat
    BY VictimsAre
  <2>2. ASSUME NEW u \in OlderHalf, u \notin Victims(need)
        PROVE  ~(entries[u].lastUsedSeq < entries[v].lastUsedSeq)
    <3>1. entries[u].lastUsedSeq \in Times
      BY <2>2
    <3>2. t <= entries[u].lastUsedSeq
      BY <1>3, <3>1
    <3> QED
      BY <1>2, <1>3, <1>4, <2>1, <3>2
  <2> QED
    BY <2>2 DEF Before
<1>6. BytesOf(Before(v)) <= BytesOf(Victims(need)) /\ BytesOf(Victims(need)) \in Nat
  <2>1. Victims(need) \in SUBSET IDs
    BY VictimsAre
  <2> QED
    BY <1>0, <1>5, <2>1, MoreBytes, PartBytes
<1>7. ~(capBytes - usedBytes + BytesOf(Before(v)) < need) /\ BytesOf(Before(v)) \in Nat
  BY <1>4, VictimsAre
<1>8. ~(capBytes - usedBytes + BytesOf(Victims(need)) >= need)
  BY DEF evictToFit, freeBytes
<1> QED
  BY <1>0, <1>6, <1>7, <1>8, GuardedLRUAssumption DEF LRUTypeOK

LEMMA RejectionStep ==
    ASSUME LRUInv, NEW need \in Nat, need > capBytes \/ ~evictToFit(need)
    PROVE  LET Protected == {i \in IDs : 2 * Cardinality(Newer(i)) < Cardinality(IDs)}
           IN  BytesOf(Protected) + need > capBytes
<1> DEFINE Protected == {i \in IDs : 2 * Cardinality(Newer(i)) < Cardinality(IDs)}
<1>0. LRUTypeOK /\ IndexInv
  BY DEF LRUInv
<1>1. Protected = IDs \ OlderHalf
  <2>1. \A i \in IDs : /\ Cardinality(Newer(i)) \in Nat /\ Cardinality(IDs) \in Nat
                       /\ i \in OlderHalf <=> 2 * Cardinality(Newer(i)) >= Cardinality(IDs)
    BY <1>0, ProtectedHalf, OlderAndNewer
  <2> QED
    BY <2>1
<1>2. OlderHalf \in SUBSET IDs
  BY VictimsAre
<1>3. /\ BytesOf(OlderHalf) \in Nat /\ BytesOf(IDs \ OlderHalf) \in Nat
      /\ BytesOf(IDs) = BytesOf(OlderHalf) + BytesOf(IDs \ OlderHalf)
  BY <1>0, <1>2, PartBytes
<1>4. BytesOf(IDs \ OlderHalf) + need > capBytes
  <2>1. CASE need > capBytes
    BY <1>3, <2>1, GuardedLRUAssumption
  <2>2. CASE ~evictToFit(need)
    <3>1. ~(capBytes - usedBytes + BytesOf(OlderHalf) >= need)
      BY <2>2, PlanExhausted DEF evictToFit, freeBytes
    <3> QED
      BY <1>0, <1>3, <3>1, GuardedLRUAssumption DEF LRUInv, WithinCap, LRUTypeOK
  <2> QED
    BY <2>1, <2>2
<1> HIDE DEF Protected
<1>5. BytesOf(Protected) + need > capBytes
  BY <1>1, <1>4
<1> QED
  BY <1>5 DEF Protected

LEMMA RejectedBy ==
    ASSUME LRUInv, [LRUNext]_lruVars, ~UNCHANGED lruVars, result'.what = "rejected"
    PROVE  \E need \in Nat : Reject(need) /\ (need > capBytes \/ ~evictToFit(need))
<1>1. \A id : ~GetByID(id) /\ ~Delete(id)
  BY Reports
<1>2. ~Clear /\ \A key, need : ~Insert(key, need)
  BY Reports
<1>3. PICK key \in Keys, need \in PatternSizes : AddCandidate(key, need)
  BY <1>1, <1>2 DEF LRUNext
<1>4. Reject(need) /\ (need > capBytes \/ ~evictToFit(need))
  BY <1>1, <1>2, <1>3 DEF AddCandidate
<1> QED
  BY <1>4, GuardedLRUAssumption

\* The locked policy of AddCandidate: only the older half is evicted from,
\* least recently used first, and no entry too many, for every content of the
\* dictionary and every candidate.
THEOREM EvictionIsGuarded == LRUSpec => GuardedEviction
<1>1. ASSUME LRUInv, [LRUNext]_lruVars, ~UNCHANGED lruVars, result'.what = "inserted"
      PROVE  /\ \A v \in Gone : 2 * Cardinality(Newer(v)) >= Cardinality(IDs)
             /\ \A v \in Gone, u \in IDs \ Gone :
                   entries[u].createdSeq < entries[v].createdSeq =>
                       entries[v].lastUsedSeq < entries[u].lastUsedSeq
             /\ \A v \in Gone :
                   (\A u \in Gone : entries[u].lastUsedSeq <= entries[v].lastUsedSeq) =>
                       usedBytes - BytesOf(Gone \ {v}) + result'.need > capBytes
  <2>1. PICK key \in Keys, need \in Nat : Insert(key, need)
    BY <1>1, InsertedBy
  <2> QED
    BY <1>1, <2>1, EvictionStep
<1> QED
  BY <1>1, LRUInvInit, LRUInvStep, PTL DEF LRUSpec, GuardedEviction

\* A candidate is turned down without side effects, and only when it does not
\* fit beside the protected half.
THEOREM RejectionHasCause == LRUSpec => RejectedForCause
<1>1. ASSUME LRUInv, [LRUNext]_lruVars, ~UNCHANGED lruVars, result'.what = "rejected"
      PROVE  /\ UNCHANGED contentVars
             /\ LET Protected == {i \in IDs : 2 * Cardinality(Newer(i)) < Cardinality(IDs)}
                IN  BytesOf(Protected) + result'.need > capBytes
  <2>1. PICK need \in Nat : Reject(need) /\ (need > capBytes \/ ~evictToFit(need))
    BY <1>1, RejectedBy
  <2>2. result'.need = need /\ UNCHANGED contentVars
    BY <2>1 DEF Reject, Result
  <2> QED
    BY <1>1, <2>1, <2>2, RejectionStep
<1> QED
  BY <1>1, LRUInvInit, LRUInvStep, PTL DEF LRUSpec, RejectedForCause

-----------------------------------------------------------------------------
(***************************************************************************)
(* internal/dictionary: the learner's statistics and its eviction.         *)
(***************************************************************************)
LearnerInv == LearnerTypeOK /\ HitsHonest

\* The statistics after a packet, before any of them is evicted.
LEMMA ObservedHonest ==
    ASSUME LearnerInv, NEW ks \in SUBSET PatternKeys, NEW obs \in [ks -> SpanSizes]
    PROVE  LET stats == Observed(obs, packetID + 1)
           IN  /\ DOMAIN stats = DOMAIN Stats \cup ks
               /\ \A k \in DOMAIN stats :
                     /\ stats[k] \in CandidateStats
                     /\ stats[k].firstSeenEpoch <= stats[k].lastSeenEpoch
                     /\ stats[k].lastSeenEpoch <= packetID + 1
                     /\ stats[k].hits <= stats[k].lastSeenEpoch - stats[k].firstSeenEpoch + 1
<1> DEFINE stats == Observed(obs, packetID + 1)
<1>0. /\ packetID \in Nat
      /\ \A k \in DOMAIN Stats :
            /\ Stats[k] \in CandidateStats
            /\ Stats[k].hits \in Nat \ {0}
            /\ Stats[k].size \in SpanSizes
            /\ Stats[k].firstSeenEpoch \in Nat
            /\ Stats[k].lastSeenEpoch \in Nat
            /\ Stats[k].firstSeenEpoch <= Stats[k].lastSeenEpoch
            /\ Stats[k].lastSeenEpoch <= packetID
            /\ Stats[k].hits <= Stats[k].lastSeenEpoch - Stats[k].firstSeenEpoch + 1
  BY DEF LearnerInv, LearnerTypeOK, HitsHonest, CandidateStats
<1>1. DOMAIN stats = DOMAIN Stats \cup ks
  BY DEF Observed
<1>2. ASSUME NEW k \in DOMAIN stats, k \notin DOMAIN Stats
      PROVE  stats[k] = [hits |-> 1, size |-> obs[k], firstSeenEpoch |-> packetID + 1,
                         lastSeenEpoch |-> packetID + 1]
             /\ obs[k] \in SpanSizes
  BY <1>1, <1>2 DEF Observed, FirstSeen
<1>3. ASSUME NEW k \in DOMAIN Stats, k \in ks
      PROVE  stats[k] = [Stats[k] EXCEPT !.hits = @ + 1, !.lastSeenEpoch = packetID + 1]
  BY <1>3 DEF Observed, Counted
<1>4. ASSUME NEW k \in DOMAIN Stats, k \notin ks
      PROVE  stats[k] = Stats[k]
  BY <1>4 DEF Observed
<1> HIDE DEF stats
<1>5. ASSUME NEW k \in DOMAIN stats
      PROVE  /\ stats[k] \in CandidateStats
             /\ stats[k].firstSeenEpoch <= stats[k].lastSeenEpoch
             /\ stats[k].lastSeenEpoch <= packetID + 1
             /\ stats[k].hits <= stats[k].lastSeenEpoch - stats[k].firstSeenEpoch + 1
  <2>1. CASE k \notin DOMAIN Stats
    BY <1>0, <1>2, <2>1 DEF CandidateStats
  <2>2. CASE k \in DOMAIN Stats /\ k \in ks
    <3>1. /\ stats[k] \in CandidateStats
          /\ stats[k].hits = Stats[k].hits + 1
          /\ stats[k].firstSeenEpoch = Stats[k].firstSeenEpoch
          /\ stats[k].lastSeenEpoch = packetID + 1
      <4>1. stats[k] = [hits |-> Stats[k].hits + 1, size |-> Stats[k].size,
                        firstSeenEpoch |-> Stats[k].firstSeenEpoch,
                        lastSeenEpoch |-> packetID + 1]
        BY <1>0, <1>3, <2>2 DEF CandidateStats
      <4> QED
        BY <1>0, <2>2, <4>1 DEF CandidateStats
    <3> QED
      BY <1>0, <2>2, <3>1
  <2>3. CASE k \in DOMAIN Stats /\ k \notin ks
    BY <1>0, <1>4, <2>3
  <2> QED
    BY <2>1, <2>2, <2>3
<1> QED
  BY <1>1, <1>5 DEF stats

LEMMA LearnerInvInit ==
    ASSUME NewAggregator
    PROVE  LearnerInv
<1>1. DOMAIN Stats = {} /\ DOMAIN evicted = {}
  BY DEF NewAggregator
<1> QED
  BY <1>1 DEF NewAggregator, LearnerInv, LearnerTypeOK, HitsHonest

LEMMA ObservePacketInv ==
    ASSUME LearnerInv, NEW ks \in SUBSET PatternKeys, NEW obs \in [ks -> SpanSizes],
           ObservePacket(obs)
    PROVE  LearnerInv'
<1> DEFINE stats == Observed(obs, packetID + 1)
<1>1. /\ DOMAIN stats \subseteq PatternKeys
      /\ \A k \in DOMAIN stats :
            /\ stats[k] \in CandidateStats
            /\ stats[k].firstSeenEpoch <= stats[k].lastSeenEpoch
            /\ stats[k].lastSeenEpoch <= packetID + 1
            /\ stats[k].hits <= stats[k].lastSeenEpoch - stats[k].firstSeenEpoch + 1
  <2>1. /\ DOMAIN stats = DOMAIN Stats \cup ks
        /\ \A k \in DOMAIN stats :
              /\ stats[k] \in CandidateStats
              /\ stats[k].firstSeenEpoch <= stats[k].lastSeenEpoch
              /\ stats[k].lastSeenEpoch <= packetID + 1
              /\ stats[k].hits <= stats[k].lastSeenEpoch - stats[k].firstSeenEpoch + 1
    BY ObservedHonest
  <2>2. DOMAIN Stats \cup ks \subseteq PatternKeys
    BY DEF LearnerInv, LearnerTypeOK
  <2> HIDE DEF stats
  <2> QED
    BY <2>1, <2>2
<1>2. packetID' = packetID + 1 /\ packetID \in Nat
  BY DEF ObservePacket, LearnerInv, LearnerTypeOK
<1>3. \E gone \in SUBSET DOMAIN stats :
         /\ Stats' = [k \in DOMAIN stats \ gone |-> stats[k]]
         /\ evicted' = [k \in gone |-> stats[k]]
  <2>1. CASE ~OverBudget(stats) /\ Stats' = stats /\ evicted' = <<>>
    <3>1. stats = [k \in DOMAIN stats |-> stats[k]]
      BY DEF Observed
    <3>2. <<>> = [k \in {} |-> stats[k]]
      OBVIOUS
    <3> HIDE DEF stats
    <3>3. DOMAIN stats \ {} = DOMAIN stats /\ {} \in SUBSET DOMAIN stats
      OBVIOUS
    <3> QED
      BY <2>1, <3>1, <3>2, <3>3
  <2>2. ASSUME NEW k \in Evictions(stats),
               Stats' = [j \in DOMAIN stats \ {k} |-> stats[j]],
               evicted' = [j \in {k} |-> stats[j]]
        PROVE  {k} \in SUBSET DOMAIN stats
    BY <2>2 DEF Evictions, EvictableHalves
  <2> QED
    BY <2>1, <2>2 DEF ObservePacket
<1> HIDE DEF stats
<1> QED
  BY <1>1, <1>2, <1>3 DEF LearnerInv, LearnerTypeOK, HitsHonest

LEMMA LearnerInvStep ==
    ASSUME LearnerInv, [LearnerNext]_learnerVars
    PROVE  LearnerInv'
<1>1. ASSUME NEW ks \in SUBSET PatternKeys \ {{}}, NEW obs \in [ks -> SpanSizes],
             ObservePacket(obs)
      PROVE  LearnerInv'
  BY <1>1, ObservePacketInv
<1>2. CASE PacketWithoutSpans
  <2>1. DOMAIN evicted' = {} /\ Stats' = Stats /\ packetID' = packetID + 1
    BY <1>2 DEF PacketWithoutSpans
  <2>2. LearnerTypeOK'
    BY <1>2, <2>1 DEF PacketWithoutSpans, LearnerInv, LearnerTypeOK
  <2>3. HitsHonest'
    BY <2>1 DEF LearnerInv, LearnerTypeOK, HitsHonest, CandidateStats
  <2> QED
    BY <2>2, <2>3 DEF LearnerInv
<1>3. CASE UNCHANGED learnerVars
  BY <1>3 DEF learnerVars, LearnerInv, LearnerTypeOK, HitsHonest
<1> QED
  BY <1>1, <1>2, <1>3 DEF LearnerNext

\* The learner's fields have their types; in particular no candidate is kept
\* without a hit.
THEOREM LearnerTypeCorrect == LearnerSpec => []LearnerTypeOK
BY LearnerInvInit, LearnerInvStep, PTL DEF LearnerSpec, LearnerInv

\* No candidate is credited with more packets than have passed since it was
\* first seen, however it is evicted and comes back.
THEOREM HitsAreHonest == LearnerSpec => []HitsHonest
BY LearnerInvInit, LearnerInvStep, PTL DEF LearnerSpec, LearnerInv
-----------------------------------------------------------------------------
\* An eviction gives back what the candidate took.
LEMMA TotalWithout ==
    ASSUME NEW stats, IsFiniteSet(DOMAIN stats), NEW k \in DOMAIN stats,
           \A j \in DOMAIN stats : stats[j].size \in Nat
    PROVE  LET rest == [j \in DOMAIN stats \ {k} |-> stats[j]]
           IN  Total(stats) = Total(rest) + stats[k].size + CandidateOverheadBytes
<1> DEFINE rest == [j \in DOMAIN stats \ {k} |-> stats[j]]
           f == [j \in DOMAIN stats |-> stats[j].size + CandidateOverheadBytes]
           g == [j \in DOMAIN rest |-> rest[j].size + CandidateOverheadBytes]
           D == DOMAIN stats
           R == DOMAIN stats \ {k}
<1>1. CandidateOverheadBytes \in Nat
  BY LearnerAssumption
<1>2. Counts(f, R) /\ f[k] \in Nat /\ f[k] = stats[k].size + CandidateOverheadBytes
  BY <1>1 DEF Counts
<1>3. IsFiniteSet(R) /\ k \notin R /\ R \cup {k} = D
  BY FS_RemoveElement
<1>4. DOMAIN f = D /\ DOMAIN g = R /\ \A j \in R : f[j] = g[j]
  OBVIOUS
<1>5. SumFunctionOnSet(f, D) = SumFunctionOnSet(f, R) + f[k]
  <2> HIDE DEF f, R, D
  <2> QED
    BY <1>2, <1>3, SumAdd
<1>6. SumFunctionOnSet(f, R) = SumFunctionOnSet(g, R) /\ SumFunctionOnSet(f, R) \in Nat
  <2> HIDE DEF f, g, R, D
  <2> QED
    BY <1>2, <1>3, <1>4, SumSame, SumType
<1>7. Total(stats) = SumFunctionOnSet(f, D) /\ Total(rest) = SumFunctionOnSet(g, R)
  BY <1>4 DEF Total, SumFunction
<1> HIDE DEF f, g, R, D, rest
<1>8. Total(stats) = Total(rest) + stats[k].size + CandidateOverheadBytes
  BY <1>1, <1>2, <1>5, <1>6, <1>7
<1> QED
  BY <1>8 DEF rest

\* The candidate that goes is worth no more than what is older, and at most
\* half of the others are older.
LEMMA EvictionChoice ==
    ASSUME NEW stats, IsFiniteSet(DOMAIN stats), NEW k \in Evictions(stats),
           \A j \in DOMAIN stats : stats[j].lastSeenEpoch \in Nat
    PROVE  LET Elder == {j \in DOMAIN stats \ {k} :
                            stats[j].lastSeenEpoch < stats[k].lastSeenEpoch}
           IN  /\ k \in DOMAIN stats
               /\ \A j \in Elder : Worth(stats[k]) <= Worth(stats[j])
               /\ 2 * Cardinality(Elder) <= Cardinality(DOMAIN stats \ {k})
<1> DEFINE D == DOMAIN stats
           Elder == {j \in D \ {k} : stats[j].lastSeenEpoch < stats[k].lastSeenEpoch}
<1>1. PICK e \in SUBSET D :
         /\ Cardinality(e) = Cardinality(D) - (Cardinality(D) \div 2)
         /\ \A i \in e, p \in D \ e : stats[i].lastSeenEpoch <= stats[p].lastSeenEpoch
         /\ k \in e
         /\ \A j \in e : Worth(stats[k]) <= Worth(stats[j])
  BY DEF Evictions, EvictableHalves
<1>2. Elder \in SUBSET (e \ {k})
  BY <1>1
<1>3. IsFiniteSet(e) /\ IsFiniteSet(e \ {k})
  BY <1>1, FS_Subset, FS_RemoveElement
<1>4. /\ Cardinality(e \ {k}) = Cardinality(e) - 1
      /\ Cardinality(D \ {k}) = Cardinality(D) - 1
      /\ Cardinality(Elder) <= Cardinality(e \ {k})
      /\ IsFiniteSet(Elder)
  BY <1>1, <1>2, <1>3, FS_RemoveElement, FS_Subset
<1>5. Cardinality(D) \in Nat /\ Cardinality(e) \in Nat /\ Cardinality(Elder) \in Nat
  BY <1>3, <1>4, FS_CardinalityType
<1>6. 2 * Cardinality(Elder) <= Cardinality(D \ {k})
  <2>1. \A n, m, x \in Nat : m = n - (n \div 2) /\ x <= m - 1 => 2 * x <= n - 1
    OBVIOUS
  <2> HIDE DEF Elder, D
  <2> QED
    BY <1>1, <1>4, <1>5, <2>1
<1> QED
  BY <1>1, <1>2, <1>6

LEMMA PressureStep ==
    ASSUME LearnerInv, NEW ks \in SUBSET PatternKeys, NEW obs \in [ks -> SpanSizes],
           ObservePacket(obs)
    PROVE  /\ Lost \subseteq DOMAIN evicted'
           /\ Cardinality(DOMAIN evicted') <= 1
           /\ OverBudget(Stats') => DOMAIN evicted' # {} \/ UNCHANGED Stats
           /\ \A k \in DOMAIN evicted' :
                 LET v == evicted'[k]
                     Older == {j \in DOMAIN Stats' : Stats'[j].lastSeenEpoch < v.lastSeenEpoch}
                 IN  /\ Total(Stats') + v.size + CandidateOverheadBytes > DictionaryMaxBytes
                     /\ \A j \in Older : Worth(v) <= Worth(Stats'[j])
                     /\ 2 * Cardinality(Older) <= Cardinality(DOMAIN Stats')
<1> DEFINE stats == Observed(obs, packetID + 1)
<1>1. /\ DOMAIN stats = DOMAIN Stats \cup ks
      /\ \A k \in DOMAIN stats : stats[k] \in CandidateStats
  BY ObservedHonest
<1>2. \/ ~OverBudget(stats) /\ Stats' = stats /\ evicted' = <<>>
      \/ /\ OverBudget(stats)
         /\ \E k \in Evictions(stats) :
               /\ Stats' = [j \in DOMAIN stats \ {k} |-> stats[j]]
               /\ evicted' = [j \in {k} |-> stats[j]]
  BY DEF ObservePacket
<1> HIDE DEF stats
<1>3. IsFiniteSet(DOMAIN stats)
  <2>1. DOMAIN stats \in SUBSET PatternKeys
    BY <1>1 DEF LearnerInv, LearnerTypeOK
  <2> QED
    BY <2>1, LearnerAssumption, FS_Subset
<1>4. \A k \in DOMAIN stats : stats[k].size \in Nat /\ stats[k].lastSeenEpoch \in Nat
  BY <1>1, LearnerAssumption DEF CandidateStats
<1>5. CASE ~OverBudget(stats) /\ Stats' = stats /\ evicted' = <<>>
  <2>1. DOMAIN evicted' = {} /\ Lost = {} /\ Cardinality({}) = 0
    BY <1>1, <1>5, FS_EmptySet DEF Lost
  <2> QED
    BY <1>5, <2>1
<1>6. ASSUME OverBudget(stats), NEW k \in Evictions(stats),
             Stats' = [j \in DOMAIN stats \ {k} |-> stats[j]],
             evicted' = [j \in {k} |-> stats[j]]
      PROVE  /\ Lost \subseteq DOMAIN evicted'
             /\ Cardinality(DOMAIN evicted') <= 1
             /\ DOMAIN evicted' # {}
             /\ \A i \in DOMAIN evicted' :
                 LET v == evicted'[i]
                     Older == {j \in DOMAIN Stats' : Stats'[j].lastSeenEpoch < v.lastSeenEpoch}
                 IN  /\ Total(Stats') + v.size + CandidateOverheadBytes > DictionaryMaxBytes
                     /\ \A j \in Older : Worth(v) <= Worth(Stats'[j])
                     /\ 2 * Cardinality(Older) <= Cardinality(DOMAIN Stats')
  <2> DEFINE Elder == {j \in DOMAIN stats \ {k} :
                          stats[j].lastSeenEpoch < stats[k].lastSeenEpoch}
  <2>1. /\ k \in DOMAIN stats
        /\ \A j \in Elder : Worth(stats[k]) <= Worth(stats[j])
        /\ 2 * Cardinality(Elder) <= Cardinality(DOMAIN stats \ {k})
    BY <1>3, <1>4, EvictionChoice
  <2>2. /\ DOMAIN evicted' = {k} /\ evicted'[k] = stats[k]
        /\ DOMAIN Stats' = DOMAIN stats \ {k}
        /\ \A j \in DOMAIN Stats' : Stats'[j] = stats[j]
    BY <1>6
  <2>3. Cardinality({k}) = 1
    BY FS_Singleton
  <2>4. Lost \subseteq {k}
    BY <1>1, <2>2 DEF Lost
  <2>5. Total(Stats') + stats[k].size + CandidateOverheadBytes > DictionaryMaxBytes
    <3>1. Total(stats) = Total([j \in DOMAIN stats \ {k} |-> stats[j]])
                         + stats[k].size + CandidateOverheadBytes
      BY <1>3, <1>4, <2>1, TotalWithout
    <3> QED
      BY <1>6, <3>1 DEF OverBudget
  <2>6. {j \in DOMAIN Stats' : Stats'[j].lastSeenEpoch < stats[k].lastSeenEpoch} = Elder
    BY <2>2
  <2>7. \A j \in Elder : j \in DOMAIN Stats' /\ Stats'[j] = stats[j]
    BY <2>2
  <2> HIDE DEF Elder
  <2>8. \A j \in Elder : Worth(stats[k]) <= Worth(Stats'[j])
    BY <2>1, <2>7
  <2>9. 2 * Cardinality(Elder) <= Cardinality(DOMAIN Stats')
    BY <2>1, <2>2
  <2>10. ASSUME NEW i \in DOMAIN evicted'
         PROVE  LET v == evicted'[i]
                    Older == {j \in DOMAIN Stats' : Stats'[j].lastSeenEpoch < v.lastSeenEpoch}
                IN  /\ Total(Stats') + v.size + CandidateOverheadBytes > DictionaryMaxBytes
                    /\ \A j \in Older : Worth(v) <= Worth(Stats'[j])
                    /\ 2 * Cardinality(Older) <= Cardinality(DOMAIN Stats')
    <3>1. evicted'[i] = stats[k]
      BY <2>2
    <3> QED
      BY <2>5, <2>6, <2>8, <2>9, <3>1, Zenon
  <2> QED
    BY <2>2, <2>3, <2>4, <2>10
<1> QED
  BY <1>2, <1>5, <1>6

\* What was learned is lost under pressure only, one candidate at a time, and
\* never one while something older is worth less.
THEOREM PressureOnly == LearnerSpec => LossUnderPressure
<1> DEFINE A == /\ Lost \subseteq DOMAIN evicted'
                /\ Cardinality(DOMAIN evicted') <= 1
                /\ OverBudget(Stats') => DOMAIN evicted' # {} \/ UNCHANGED Stats
                /\ \A k \in DOMAIN evicted' :
                     LET v == evicted'[k]
                         Older == {j \in DOMAIN Stats' : Stats'[j].lastSeenEpoch < v.lastSeenEpoch}
                     IN  /\ Total(Stats') + v.size + CandidateOverheadBytes > DictionaryMaxBytes
                         /\ \A j \in Older : Worth(v) <= Worth(Stats'[j])
                         /\ 2 * Cardinality(Older) <= Cardinality(DOMAIN Stats')
<1>1. ASSUME LearnerInv, [LearnerNext]_learnerVars
      PROVE  [A]_learnerVars
  <2>1. ASSUME NEW ks \in SUBSET PatternKeys \ {{}}, NEW obs \in [ks -> SpanSizes],
               ObservePacket(obs)
        PROVE  A
    BY <1>1, <2>1, PressureStep
  <2>2. CASE PacketWithoutSpans
    <3>1. DOMAIN evicted' = {} /\ Lost = {} /\ Cardinality({}) = 0 /\ UNCHANGED Stats
      BY <2>2, FS_EmptySet DEF PacketWithoutSpans, Lost
    <3> QED
      BY <3>1
  <2> HIDE DEF A
  <2> QED
    BY <1>1, <2>1, <2>2 DEF LearnerNext
<1> QED
  BY <1>1, LearnerInvInit, LearnerInvStep, PTL DEF LearnerSpec, LossUnderPressure
-----------------------------------------------------------------------------
(***************************************************************************)
(* internal/dictionary: the score dictionary.                              *)
(***************************************************************************)
PromotedIDs == DOMAIN Promoted

ScoreInv == ScoreTypeOK /\ IsFiniteSet(PromotedIDs) /\ HardCap

PromotedSizes == [i \in DOMAIN Promoted |-> Promoted[i].size]

LEMMA PromotedCounts ==
    ASSUME ScoreTypeOK
    PROVE  Counts(PromotedSizes, PromotedIDs)
BY ScoreDictionaryAssumption DEF ScoreTypeOK, Counts, PromotedSizes, PromotedIDs

LEMMA PromotedSum == \A ids : PromotedBytes(ids) = SumFunctionOnSet(PromotedSizes, ids)
BY DEF PromotedBytes, PromotedSizes

\* Nothing is given back that was not counted, so the guard against an
\* underflow never acts.
LEMMA GivenBack ==
    ASSUME ScoreInv, NEW out \in SUBSET PromotedIDs
    PROVE  /\ PromotedBytes(out) \in Nat
           /\ PromotedBytes(PromotedIDs \ out) \in Nat
           /\ PromotedBytes(PromotedIDs) = PromotedBytes(out) + PromotedBytes(PromotedIDs \ out)
           /\ UsedWithout(out) = UsedBytes - PromotedBytes(out)
           /\ UsedWithout(out) \in Nat
           /\ UsedWithout(out) <= UsedBytes
           /\ PromotedBytes(PromotedIDs \ out) <= UsedWithout(out)
           /\ ~again => UsedWithout(out) = PromotedBytes(PromotedIDs \ out)
<1>1. IsFiniteSet(PromotedIDs) /\ Counts(PromotedSizes, PromotedIDs)
  BY PromotedCounts DEF ScoreInv
<1>2. /\ PromotedBytes(out) \in Nat
      /\ PromotedBytes(PromotedIDs \ out) \in Nat
      /\ PromotedBytes(PromotedIDs) = PromotedBytes(out) + PromotedBytes(PromotedIDs \ out)
  BY <1>1, SumWithout, PromotedSum
<1>3. /\ UsedBytes \in Nat
      /\ PromotedBytes(PromotedIDs) <= UsedBytes
      /\ ~again => UsedBytes = PromotedBytes(PromotedIDs)
  BY DEF ScoreInv, ScoreTypeOK, HardCap, PromotedIDs
<1> QED
  BY <1>2, <1>3 DEF UsedWithout

\* A part of what is there takes up no more.
LEMMA MorePromoted ==
    ASSUME ScoreInv, NEW ids \in SUBSET PromotedIDs, NEW some \in SUBSET ids
    PROVE  PromotedBytes(some) \in Nat /\ PromotedBytes(some) <= PromotedBytes(ids)
<1>1. IsFiniteSet(ids) /\ Counts(PromotedSizes, ids)
  BY PromotedCounts, FS_Subset DEF ScoreInv, Counts
<1>2. /\ PromotedBytes(ids) = PromotedBytes(some) + PromotedBytes(ids \ some)
      /\ PromotedBytes(some) \in Nat
      /\ PromotedBytes(ids \ some) \in Nat
  <2> DEFINE B(p) == SumFunctionOnSet(PromotedSizes, p)
  <2>1. /\ B(ids) = B(some) + B(ids \ some)
        /\ B(some) \in Nat
        /\ B(ids \ some) \in Nat
    BY <1>1, SumWithout
  <2> HIDE DEF B
  <2>2. \A p : PromotedBytes(p) = B(p)
    BY PromotedSum DEF B
  <2> QED
    BY <2>1, <2>2
<1> QED
  BY <1>2

\* The entries that stay keep their sizes.
LEMMA PromotedRest ==
    ASSUME ScoreInv, NEW rest \in SUBSET PromotedIDs, rest \subseteq DOMAIN Promoted',
           \A i \in rest : Promoted'[i] = Promoted[i]
    PROVE  /\ IsFiniteSet(rest)
           /\ Counts(PromotedSizes', rest)
           /\ SumFunctionOnSet(PromotedSizes', rest) = PromotedBytes(rest)
<1>1. IsFiniteSet(rest) /\ Counts(PromotedSizes, rest)
  BY PromotedCounts, FS_Subset DEF ScoreInv, Counts
<1>2. \A i \in rest : PromotedSizes[i] = PromotedSizes'[i]
  BY DEF PromotedSizes, PromotedIDs
<1>3. Counts(PromotedSizes', rest)
  BY <1>1, <1>2 DEF Counts
<1>4. SumFunctionOnSet(PromotedSizes, rest) = SumFunctionOnSet(PromotedSizes', rest)
  BY <1>1, <1>2, SumSame
<1> QED
  BY <1>1, <1>3, <1>4 DEF PromotedBytes, PromotedSizes

LEMMA ScoreInvInit ==
    ASSUME EmptyScores
    PROVE  ScoreInv
<1>1. DOMAIN Promoted = {}
  BY DEF EmptyScores
<1>2. ScoreTypeOK
  <2>1. Promoted \in [DOMAIN Promoted -> Entries]
    BY <1>1 DEF EmptyScores
  <2>2. again \in BOOLEAN
    BY DEF EmptyScores
  <2> QED
    BY <1>1, <2>1, <2>2 DEF EmptyScores, ScoreTypeOK
<1>3. PromotedBytes(DOMAIN Promoted) = 0
  BY <1>1, SumEmpty, PromotedSum
<1>4. HardCap
  BY <1>3, ScoreDictionaryAssumption DEF EmptyScores, HardCap
<1> QED
  BY <1>1, <1>2, <1>4, FS_EmptySet DEF ScoreInv, PromotedIDs

LEMMA ShrinkInv ==
    ASSUME ScoreInv, NEW out \in SUBSET PromotedIDs, Shrink(out)
    PROVE  ScoreInv'
<1>1. /\ DOMAIN Promoted' = PromotedIDs \ out
      /\ \A i \in PromotedIDs \ out : Promoted'[i] = Promoted[i]
      /\ UsedBytes' = UsedWithout(out)
      /\ again' = again
  BY DEF Shrink, PromotedIDs
<1>2. ScoreTypeOK'
  <2>1. Promoted' \in [DOMAIN Promoted' -> Entries]
    BY DEF Shrink, ScoreInv, ScoreTypeOK
  <2> QED
    BY <1>1, <2>1, GivenBack DEF Shrink, ScoreInv, ScoreTypeOK, PromotedIDs
<1>3. /\ IsFiniteSet(PromotedIDs \ out)
      /\ SumFunctionOnSet(PromotedSizes', PromotedIDs \ out) = PromotedBytes(PromotedIDs \ out)
  BY <1>1, PromotedRest
<1>4. HardCap'
  <2>1. UsedBytes \in Nat /\ UsedBytes <= MaxBytes /\ MaxBytes \in Nat
    BY ScoreDictionaryAssumption DEF ScoreInv, ScoreTypeOK, HardCap
  <2>2. PromotedBytes(DOMAIN Promoted)' = PromotedBytes(PromotedIDs \ out)
    BY <1>1, <1>3 DEF PromotedBytes, PromotedSizes
  <2> QED
    BY <1>1, <2>1, <2>2, GivenBack DEF HardCap
<1> QED
  BY <1>1, <1>2, <1>3, <1>4 DEF ScoreInv, PromotedIDs

LEMMA PutInv ==
    ASSUME ScoreInv, NEW out \in SUBSET PromotedIDs, NEW id \in EntryIDs, NEW e \in Entries,
           Fits(e.size, out), Put(id, e, out)
    PROVE  ScoreInv'
<1> DEFINE rest == PromotedIDs \ (out \cup {id})
<1>0. e.size \in Nat /\ MaxBytes \in Nat
  BY ScoreDictionaryAssumption
<1>1. /\ DOMAIN Promoted' = (PromotedIDs \ out) \cup {id}
      /\ DOMAIN Promoted' = rest \cup {id}
      /\ Promoted'[id] = e
      /\ \A i \in rest : Promoted'[i] = Promoted[i]
      /\ UsedBytes' = UsedWithout(out) + e.size
      /\ again' = (again \/ id \in PromotedIDs \ out)
  BY DEF Put, PromotedIDs
<1>2. ScoreTypeOK'
  <2>1. Promoted' \in [DOMAIN Promoted' -> Entries]
    BY DEF Put, ScoreInv, ScoreTypeOK
  <2>2. DOMAIN Promoted' \subseteq EntryIDs
    BY <1>1 DEF ScoreInv, ScoreTypeOK, PromotedIDs
  <2>3. UsedBytes' \in Nat
    <3>1. UsedWithout(out) \in Nat
      BY GivenBack
    <3> QED
      BY <1>0, <1>1, <3>1
  <2>4. put' \in EntryIDs /\ again' \in BOOLEAN
    BY DEF Put
  <2> QED
    BY <2>1, <2>2, <2>3, <2>4 DEF ScoreTypeOK
<1>3. /\ IsFiniteSet(rest)
      /\ Counts(PromotedSizes', rest)
      /\ SumFunctionOnSet(PromotedSizes', rest) = PromotedBytes(rest)
  <2>1. rest \in SUBSET PromotedIDs /\ rest \subseteq DOMAIN Promoted'
    BY <1>1
  <2> HIDE DEF rest
  <2> QED
    BY <1>1, <2>1, PromotedRest
<1>4. SumFunctionOnSet(PromotedSizes', rest \cup {id}) = PromotedBytes(rest) + e.size
  <2>1. PromotedSizes'[id] = e.size /\ id \notin rest
    BY <1>1 DEF PromotedSizes
  <2> HIDE DEF rest
  <2> QED
    BY <1>0, <1>3, <2>1, SumAdd
<1>5. /\ PromotedBytes(rest) \in Nat
      /\ PromotedBytes(rest) <= PromotedBytes(PromotedIDs \ out)
      /\ id \notin PromotedIDs \ out => rest = PromotedIDs \ out
  <2>1. PromotedIDs \ out \in SUBSET PromotedIDs /\ rest \in SUBSET (PromotedIDs \ out)
    OBVIOUS
  <2>2. \A ids : ids \in SUBSET PromotedIDs =>
            \A some : some \in SUBSET ids =>
                PromotedBytes(some) \in Nat /\ PromotedBytes(some) <= PromotedBytes(ids)
    BY MorePromoted
  <2>3. PromotedBytes(rest) \in Nat /\ PromotedBytes(rest) <= PromotedBytes(PromotedIDs \ out)
    BY <2>1, <2>2, Zenon
  <2>4. id \notin PromotedIDs \ out => rest = PromotedIDs \ out
    OBVIOUS
  <2> HIDE DEF rest
  <2> QED
    BY <2>3, <2>4
<1> HIDE DEF rest
<1>6. HardCap'
  <2>1. PromotedBytes(DOMAIN Promoted)' = PromotedBytes(rest) + e.size
    BY <1>1, <1>4 DEF PromotedBytes, PromotedSizes
  <2>2. UsedBytes' <= MaxBytes
    BY <1>1 DEF Fits
  <2>3. PromotedBytes(rest) + e.size <= UsedBytes'
    BY <1>0, <1>1, <1>5, GivenBack
  <2>4. ~again' => UsedBytes' = PromotedBytes(rest) + e.size
    BY <1>1, <1>5, GivenBack
  <2> QED
    BY <2>1, <2>2, <2>3, <2>4 DEF HardCap
<1>7. IsFiniteSet(DOMAIN Promoted')
  BY <1>1, <1>3, FS_AddElement
<1> QED
  BY <1>2, <1>6, <1>7 DEF ScoreInv, PromotedIDs

\* What a call may do.
LEMMA ScoreCalls ==
    ASSUME ScoreNext
    PROVE  \E out \in SUBSET PromotedIDs :
              /\ out = {} \/ \E need : Evict(need, out)
              /\ \/ Shrink(out)
                 \/ \E id \in EntryIDs, e \in Entries : Fits(e.size, out) /\ Put(id, e, out)
<1>1. {} \in SUBSET PromotedIDs
  OBVIOUS
<1>2. ASSUME NEW id \in EntryIDs, NEW e \in Entries, Fits(e.size, {}), Put(id, e, {})
      PROVE  \E out \in SUBSET PromotedIDs :
              /\ out = {} \/ \E need : Evict(need, out)
              /\ \/ Shrink(out)
                 \/ \E i \in EntryIDs, x \in Entries : Fits(x.size, out) /\ Put(i, x, out)
  BY <1>1, <1>2, Zenon
<1>3. ASSUME NEW id \in EntryIDs, NEW e \in Entries, NEW out \in SUBSET DOMAIN Promoted,
             Evict(e.size, out),
             IF Fits(e.size, out) THEN Put(id, e, out) ELSE Shrink(out)
      PROVE  \E o \in SUBSET PromotedIDs :
              /\ o = {} \/ \E need : Evict(need, o)
              /\ \/ Shrink(o)
                 \/ \E i \in EntryIDs, x \in Entries : Fits(x.size, o) /\ Put(i, x, o)
  BY <1>3, Zenon DEF PromotedIDs
<1>4. ASSUME NEW need \in Needs, NEW out \in SUBSET DOMAIN Promoted,
             Evict(need, out), Shrink(out)
      PROVE  \E o \in SUBSET PromotedIDs :
              /\ o = {} \/ \E n : Evict(n, o)
              /\ \/ Shrink(o)
                 \/ \E i \in EntryIDs, x \in Entries : Fits(x.size, o) /\ Put(i, x, o)
  BY <1>4, Zenon DEF PromotedIDs
<1> QED
  BY <1>2, <1>3, <1>4, Zenon DEF ScoreNext, TryInsert, EnsureCapacity

LEMMA ScoreInvStep ==
    ASSUME ScoreInv, [ScoreNext]_scoreVars
    PROVE  ScoreInv'
<1>1. CASE ScoreNext
  <2>1. PICK out \in SUBSET PromotedIDs :
              \/ Shrink(out)
              \/ \E id \in EntryIDs, e \in Entries : Fits(e.size, out) /\ Put(id, e, out)
    BY <1>1, ScoreCalls
  <2> QED
    BY <2>1, ShrinkInv, PutInv
<1>2. CASE UNCHANGED scoreVars
  BY <1>2 DEF scoreVars, ScoreInv, ScoreTypeOK, HardCap, PromotedBytes, PromotedIDs
<1> QED
  BY <1>1, <1>2

\* The score dictionary's fields have their types: UsedBytes never underflows.
THEOREM ScoreTypeCorrect == ScoreSpec => []ScoreTypeOK
BY ScoreInvInit, ScoreInvStep, PTL DEF ScoreSpec, ScoreInv

\* What is there never exceeds the hard cap, also when ids are inserted again,
\* and without that the account is exact.
THEOREM HardCapKept == ScoreSpec => []HardCap
BY ScoreInvInit, ScoreInvStep, PTL DEF ScoreSpec, ScoreInv

LEMMA DroppedStep ==
    ASSUME ScoreInv, ScoreNext
    PROVE  /\ 2 * Cardinality(Dropped \cup OlderThanDropped) <= Cardinality(DOMAIN Promoted)
           /\ \A i \in Dropped, j \in DOMAIN Promoted \ (Dropped \cup {put'}) :
                 Promoted[j].lastSeenOffset < Promoted[i].lastSeenOffset =>
                     Promoted[i].score <= Promoted[j].score
<1>1. PICK out \in SUBSET PromotedIDs :
              /\ out = {} \/ \E need : Evict(need, out)
              /\ \/ Shrink(out)
                 \/ \E id \in EntryIDs, e \in Entries : Fits(e.size, out) /\ Put(id, e, out)
  BY ScoreCalls
<1>2. /\ Dropped \in SUBSET out
      /\ \A j \in DOMAIN Promoted \ (Dropped \cup {put'}) : j \notin out
  <2>1. CASE Shrink(out)
    <3>1. DOMAIN Promoted' = DOMAIN Promoted \ out
      BY <2>1 DEF Shrink
    <3> QED
      BY <3>1 DEF Dropped, PromotedIDs
  <2>2. ASSUME NEW id \in EntryIDs, NEW e \in Entries, Put(id, e, out)
        PROVE  /\ Dropped \in SUBSET out
               /\ \A j \in DOMAIN Promoted \ (Dropped \cup {put'}) : j \notin out
    <3>1. DOMAIN Promoted' = (DOMAIN Promoted \ out) \cup {id} /\ put' = id
      BY <2>2 DEF Put
    <3> QED
      BY <3>1 DEF Dropped, PromotedIDs
  <2> QED
    BY <1>1, <2>1, <2>2
<1>3. IsFiniteSet(DOMAIN Promoted)
  BY DEF ScoreInv, PromotedIDs
<1>4. CASE out = {}
  <2>1. Dropped = {} /\ OlderThanDropped = {}
    BY <1>2, <1>4 DEF OlderThanDropped
  <2>2. Cardinality({}) = 0 /\ Cardinality(DOMAIN Promoted) \in Nat
    BY <1>3, FS_EmptySet, FS_CardinalityType
  <2> QED
    BY <2>1, <2>2
<1>5. ASSUME NEW need, Evict(need, out)
      PROVE  /\ 2 * Cardinality(Dropped \cup OlderThanDropped) <= Cardinality(DOMAIN Promoted)
             /\ \A i \in Dropped, j \in DOMAIN Promoted \ (Dropped \cup {put'}) :
                   Promoted[j].lastSeenOffset < Promoted[i].lastSeenOffset =>
                       Promoted[i].score <= Promoted[j].score
  <2>1. PICK half \in OldHalves : out \subseteq half /\ Lowest(out, half)
    BY <1>5 DEF Evict
  <2>2. /\ half \in SUBSET DOMAIN Promoted
        /\ Cardinality(half) = Cardinality(DOMAIN Promoted) \div 2
        /\ \A i \in half, j \in DOMAIN Promoted \ half :
              Promoted[i].lastSeenOffset <= Promoted[j].lastSeenOffset
    BY <2>1 DEF OldHalves
  <2>3. 2 * Cardinality(Dropped \cup OlderThanDropped) <= Cardinality(DOMAIN Promoted)
    <3> DEFINE old == Dropped \cup OlderThanDropped
    <3>0. ASSUME NEW j \in old PROVE j \in half
      <4>1. CASE j \in Dropped
        BY <1>2, <2>1, <4>1
      <4>2. CASE j \in OlderThanDropped
        <5>1. PICK i \in Dropped : Promoted[j].lastSeenOffset < Promoted[i].lastSeenOffset
          BY <4>2 DEF OlderThanDropped
        <5>2. i \in half /\ i \in DOMAIN Promoted /\ j \in DOMAIN Promoted
          BY <1>2, <2>1, <2>2, <4>2 DEF OlderThanDropped
        <5>3. Promoted[i].lastSeenOffset \in Nat /\ Promoted[j].lastSeenOffset \in Nat
          BY <5>2, ScoreDictionaryAssumption DEF ScoreInv, ScoreTypeOK
        <5> QED
          BY <2>2, <5>1, <5>2, <5>3
      <4> QED
        BY <4>1, <4>2
    <3> HIDE DEF old
    <3>1. IsFiniteSet(half) /\ old \in SUBSET half
      BY <1>3, <2>2, <3>0, FS_Subset
    <3>2. IsFiniteSet(old) /\ Cardinality(old) <= Cardinality(half)
      BY <3>1, FS_Subset
    <3>3. /\ Cardinality(old) \in Nat
          /\ Cardinality(half) \in Nat
          /\ Cardinality(DOMAIN Promoted) \in Nat
      BY <1>3, <3>1, <3>2, FS_CardinalityType
    <3>4. \A n, h, d \in Nat : h = n \div 2 /\ d <= h => 2 * d <= n
      OBVIOUS
    <3>5. 2 * Cardinality(old) <= Cardinality(DOMAIN Promoted)
      BY <2>2, <3>2, <3>3, <3>4
    <3> QED
      BY <3>5 DEF old
  <2>4. ASSUME NEW i \in Dropped, NEW j \in DOMAIN Promoted \ (Dropped \cup {put'}),
               Promoted[j].lastSeenOffset < Promoted[i].lastSeenOffset
        PROVE  Promoted[i].score <= Promoted[j].score
    <3>1. i \in out /\ i \in half /\ j \notin out /\ i \in DOMAIN Promoted
      BY <1>2, <2>1, <2>2
    <3>2. Promoted[i].lastSeenOffset \in Nat /\ Promoted[j].lastSeenOffset \in Nat
      BY <3>1, ScoreDictionaryAssumption DEF ScoreInv, ScoreTypeOK
    <3>3. j \in half
      BY <2>2, <2>4, <3>1, <3>2
    <3> QED
      BY <2>1, <3>1, <3>3 DEF Lowest
  <2> QED
    BY <2>3, <2>4
<1> QED
  BY <1>1, <1>4, <1>5

\* One call takes entries of the older half only, and none while an older one of
\* lower score stays (evictFor; evict_edge_test.go: "Young half must NEVER be
\* evicted even if score is terrible").
THEOREM YoungHalfStays == ScoreSpec => YoungHalfKept
<1> DEFINE A == /\ 2 * Cardinality(Dropped \cup OlderThanDropped) <= Cardinality(DOMAIN Promoted)
                /\ \A i \in Dropped, j \in DOMAIN Promoted \ (Dropped \cup {put'}) :
                      Promoted[j].lastSeenOffset < Promoted[i].lastSeenOffset =>
                          Promoted[i].score <= Promoted[j].score
<1>1. ASSUME ScoreInv, [ScoreNext]_scoreVars
      PROVE  [A]_scoreVars
  BY <1>1, DroppedStep
<1> QED
  BY <1>1, ScoreInvInit, ScoreInvStep, PTL DEF ScoreSpec, YoungHalfKept
=============================================================================
