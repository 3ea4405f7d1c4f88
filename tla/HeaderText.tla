------------------------------ MODULE HeaderText ------------------------------
(***************************************************************************)
(* How the bytes of an HTTP header are read (decode_v1.go): where the      *)
(* header ends, and what Content-Length it gives.                          *)
(*                                                                         *)
(* A text is a sequence of characters, one byte each.  Characters stand    *)
(* for bytes up to case: the code folds case wherever it compares texts    *)
(* (strings.ToLower), and nowhere else does case matter.                   *)
(***************************************************************************)
EXTENDS Integers, SequencesExt

CONSTANTS
    LengthName,  \* the text "content-length:"
    Atoi         \* the number in a text: TrimSpace, then strconv.Atoi; its
                 \* domain is the texts that are numbers from 0

Char == STRING

Crlf == <<"R", "N">>

ASSUME LengthAssumption ==
    /\ LengthName \in Seq(Char)
    /\ LengthName # <<>>
    /\ \A v \in DOMAIN Atoi : Atoi[v] \in Nat

\* A CRLF ends at position i.
CrlfAt(t, i) == i \in 2..Len(t) /\ t[i - 1] = Crlf[1] /\ t[i] = Crlf[2]

\* A CRLF CRLF ends at position i.
HeaderEndsAt(t, i) == CrlfAt(t, i) /\ CrlfAt(t, i - 2)

\* The length of the header, bytes.Index(all, "\r\n\r\n") + 4; 0 as long as
\* it has not ended.
HeaderLen(t) ==
    LET found == {i \in 1..Len(t) : HeaderEndsAt(t, i)}
    IN  IF found = {} THEN 0 ELSE Min(found)

\* strings.Split(hdr, "\r\n"): where its pieces begin, and the piece that
\* begins at i: up to the next CRLF, or the end.  (The empty piece behind a last
\* CRLF gives no length.)
LineStarts(t) == {i \in 1..Len(t) : i = 1 \/ CrlfAt(t, i - 1)}

LineEnds(t, i) == {j \in i - 1..Len(t) : j = Len(t) \/ CrlfAt(t, j + 2)}

LineAt(t, i) == SubSeq(t, i, Min(LineEnds(t, i)))

\* The usable Content-Length that a line gives, or -1.
LineLength(line) ==
    LET value == SubSeq(line, Len(LengthName) + 1, Len(line))
    IN  IF IsPrefix(LengthName, line) /\ value \in DOMAIN Atoi
        THEN Atoi[value] ELSE -1

Lengths(t) == [i \in LineStarts(t) |-> LineLength(LineAt(t, i))]

LengthLines(t) == {i \in LineStarts(t) : Lengths(t)[i] >= 0}

\* The first line with a usable number wins.
parseContentLengthFromHeaderString(hdr) ==
    IF LengthLines(hdr) = {} THEN -1 ELSE Lengths(hdr)[Min(LengthLines(hdr))]

\* A line of a header, with the CRLF that ends it.
IsHeaderLine(l) ==
    /\ Len(l) > 2
    /\ CrlfAt(l, Len(l))
    /\ \A i \in 1..Len(l) - 1 : ~CrlfAt(l, i)

\* The line without its CRLF.
Content(l) == SubSeq(l, 1, Len(l) - 2)
=============================================================================
