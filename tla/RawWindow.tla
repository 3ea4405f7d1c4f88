----------------------------- MODULE RawWindow -----------------------------
(***************************************************************************)
(* internal/memory/rawwindow.go: the bounded record of the last bytes of a *)
(* lane, a ring buffer.  Each window is written by one goroutine.          *)
(***************************************************************************)
EXTENDS Integers, Sequences

CONSTANTS
    Byte,
    Zero,      \* what a new buffer is filled with
    Cap,       \* len(w.buf)
    Chunks,    \* what Append may be given
    MaxSeen    \* bound: bytes observed

ASSUME RawWindowAssumption ==
    /\ Zero \in Byte
    /\ Cap \in Nat \ {0}
    /\ Chunks \subseteq Seq(Byte)
    /\ MaxSeen \in Nat

VARIABLES
    buf,
    head,      \* next write index
    size,      \* number of valid bytes
    seen       \* history: every byte given to Append

windowVars == <<buf, head, size, seen>>

WindowTypeOK ==
    /\ buf \in [0..Cap - 1 -> Byte]
    /\ head \in 0..Cap - 1
    /\ size \in 0..Cap
    /\ seen \in Seq(Byte)

NewRawWindow ==
    /\ buf = [i \in 0..Cap - 1 |-> Zero]
    /\ head = 0
    /\ size = 0
    /\ seen = <<>>

Least(a, b) == IF a <= b THEN a ELSE b

\* Mutant: head is not wrapped when the first segment ends at the end of buf.
copyIntoRingPast(p) ==
    LET n == Least(Cap - head, Len(p))
        rest == Len(p) - n
    IN  /\ buf' = [i \in 0..Cap - 1 |->
                      IF i < rest THEN p[n + i + 1]
                      ELSE IF i \in head..head + n - 1 THEN p[i - head + 1]
                      ELSE buf[i]]
        /\ head' = IF rest > 0 THEN rest % Cap ELSE head + n

\* p goes from head to the end of the buffer, the rest of it to its start.
copyIntoRing(p) ==
    LET n == Least(Cap - head, Len(p))
        rest == Len(p) - n
    IN  /\ buf' = [i \in 0..Cap - 1 |->
                      IF i < rest THEN p[n + i + 1]
                      ELSE IF i \in head..head + n - 1 THEN p[i - head + 1]
                      ELSE buf[i]]
        /\ head' = IF rest > 0 THEN rest % Cap ELSE (head + n) % Cap

\* Mutant: the first Cap bytes of a long chunk are kept, not the last.
KeptFirst(p) == IF Len(p) >= Cap THEN SubSeq(p, 1, Cap) ELSE p

\* Of a chunk as large as the window only the tail is copied.
Kept(p) == IF Len(p) >= Cap THEN SubSeq(p, Len(p) - Cap + 1, Len(p)) ELSE p

\* An empty chunk changes nothing.
AppendBytes(p) ==
    /\ Len(p) > 0
    /\ Len(seen) + Len(p) <= MaxSeen
    /\ copyIntoRing(Kept(p))
    /\ size' = IF Len(p) >= Cap THEN Cap ELSE Least(size + Len(p), Cap)
    /\ seen' = seen \o p

WindowNext == \E p \in Chunks : AppendBytes(p)

WindowSpec == NewRawWindow /\ [][WindowNext]_windowVars

\* The content, oldest byte first: from the oldest index to the end of the
\* buffer and, when that is not all of it, on from the start.
Snapshot ==
    LET start == IF head - size < 0 THEN head - size + Cap ELSE head - size
        firstLen == Cap - start
    IN  [i \in 1..size |-> IF i <= firstLen THEN buf[start + i - 1]
                                            ELSE buf[i - firstLen - 1]]

-----------------------------------------------------------------------------
\* The window is what it claims to be, a sliding window: Snapshot returns the
\* last bytes that were observed, in order, and as many of them as there are
\* up to the capacity, however the chunks fall on the ring.
SnapshotIsTail ==
    /\ size = Least(Len(seen), Cap)
    /\ Snapshot = SubSeq(seen, Len(seen) - size + 1, Len(seen))

(***************************************************************************)
(* The inductive form of it, index by index: below head lie the latest     *)
(* bytes, from head on those of the round before.                          *)
(***************************************************************************)
RingInv ==
    /\ size = Least(Len(seen), Cap)
    /\ size < Cap => head = size
    /\ \A i \in 0..Cap - 1 :
          /\ i < head => buf[i] = seen[Len(seen) - head + i + 1]
          /\ i >= head /\ size = Cap =>
                buf[i] = seen[Len(seen) - head - Cap + i + 1]

WindowInv == WindowTypeOK /\ RingInv
=============================================================================
