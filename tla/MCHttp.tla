------------------------------- MODULE MCHttp -------------------------------
(***************************************************************************)
(* Streams for HttpAdapter: a request in every encoding, with a body made  *)
(* of the characters that framing is made of, then a second request or     *)
(* something that is not one.                                              *)
(***************************************************************************)
EXTENDS HttpAdapter

Crlf == <<"R", "N">>
Ln(s) == s \o Crlf
P(kind, text) == <<[kind |-> kind, text |-> text]>>
Num == [k \in 0..9 |-> CHOOSE d \in DOMAIN Digit : Digit[d] = k]

Open == P("request", Ln(<<"q">>))
FieldLine(s) == P("field", Ln(s))
Sizes(b) == FieldLine(<<"c", Num[Len(b)]>>)
Blanks == P("blank", Crlf)
Chunk(b) == IF b = <<>> THEN <<>>
            ELSE P("size", Ln(<<Num[Len(b)]>>)) \o P("chunk", Ln(b))
Zero == P("last", Ln(<<"0">>))
Close == P("close", Crlf)

Sized(b) == Open \o Sizes(b) \o Blanks \o P("sized", b)
\* Two lengths: the last one counts.  Another coding changes nothing.
Relengthed(b) == Open \o FieldLine(<<"c", "7">>) \o FieldLine(<<"i">>) \o Sizes(b) \o Blanks \o P("sized", b)
OneChunk(b) == Open \o FieldLine(<<"t">>) \o Blanks \o Chunk(b) \o Zero \o Close
\* A length beside the chunks, an extension and a trailer.
Adorned(b) == Open \o FieldLine(<<"t">>) \o Sizes(b) \o Blanks
              \o P("size", Ln(<<"1", ";", "x">>)) \o P("chunk", Ln(<<"x">>))
              \o Chunk(b) \o Zero \o P("trailer", Ln(<<"x">>)) \o Close

Bodies == UNION {[1..k -> {"x", "R", "N"}] : k \in 0..2} \cup {<<"0", "R", "N">>}
First == UNION {{Sized(b), Relengthed(b), OneChunk(b), Adorned(b)} : b \in Bodies}
Second == {Sized(<<"R", "N">>), OneChunk(<<"x">>)}

\* A bare line feed, in a header or a size line; no request line; no length;
\* a length that is no number, also beside chunks; a length, or a sum of
\* chunks, above the limit; a size that is no number; a chunk that is longer
\* than its size; a header that is too long.  Each is what can be read as the
\* pieces of a request, and what follows.
XXX == <<"x", "x", "x">>
Malformed ==
    { <<<<>>, <<"q", "N">>>>,
      <<Open \o FieldLine(<<"t">>) \o Blanks, <<"1", "N", "x">> \o Crlf>>,
      <<<<>>, Ln(<<"x">>) \o Crlf>>,
      <<Open, Crlf>>,
      <<Open \o FieldLine(<<"c", "x">>), Crlf>>,
      <<Open \o FieldLine(<<"t">>) \o FieldLine(<<"c", "x">>), Crlf \o Ln(<<"0">>) \o Crlf>>,
      <<Open \o FieldLine(<<"c", "6">>), Crlf \o XXX \o XXX>>,
      <<Open \o FieldLine(<<"t">>) \o Blanks \o Chunk(XXX),
        Ln(<<"3">>) \o Ln(XXX) \o Ln(<<"0">>) \o Crlf>>,
      <<Open \o FieldLine(<<"t">>) \o Blanks, Ln(<<"x">>)>>,
      <<Open \o FieldLine(<<"t">>) \o Blanks \o P("size", Ln(<<"1">>)), Ln(<<"x", "x">>)>>,
      <<Open \o FieldLine(XXX \o XXX \o XXX), Ln(XXX) \o Ln(<<"c", "0">>) \o Crlf>> }

-----------------------------------------------------------------------------
TextOf(m) == FlattenSeq([i \in DOMAIN m |-> m[i].text])

Laid(a, m) == [i \in DOMAIN m |-> [kind |-> m[i].kind, end |-> a + Len(TextOf(SubSeq(m, 1, i)))]]

Then(s, m) == [text |-> s.text \o TextOf(m),
               requests |-> Append(s.requests, Laid(Len(s.text), m)), rest |-> <<>>]

Nothing == [text |-> <<>>, requests |-> <<>>, rest |-> <<>>]

MCStreams ==
    {Then(Then(Nothing, m1), m2) : m1 \in First, m2 \in Second}
    \cup
    {LET s == Then(Nothing, Sized(<<"x">>))
     IN  [s EXCEPT !.text = @ \o TextOf(w[1]) \o w[2], !.rest = Laid(Len(s.text), w[1])] :
        w \in Malformed}
=============================================================================
