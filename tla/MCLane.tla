------------------------------- MODULE MCLane -------------------------------
(***************************************************************************)
(* Small instances of Lane.  The texts are short, and their lengths chosen *)
(* so that every branch of the encoder's economics is taken:               *)
(*   cpu   pays as a template; its lane "7777777" is too long to be one    *)
(*   mem   like cpu; in one instance it has the template id of cpu         *)
(*   sh    becomes a template, but a reference never pays                  *)
(*   big   its definition does not fit in a frame                          *)
(*   wide  its definition fits, its length field does not                  *)
(* Content-Length occurs in every request and reaches promotion with the   *)
(* third.                                                                  *)
(***************************************************************************)
EXTENDS LaneInv, TLC

\* The characters of a string, with R and N for the bytes 13 and 10.
Chars(str) == <<>> \o [i \in 1..Len(str) |-> SubSeq(str, i, i)]

MCLengthName == Chars("len:")
MCCodingName == Chars("enc:")

MCPatterns == {"CL", "TE", "cpu", "mem", "sh", "big", "wide"}
MCConstA == [CL |-> Chars("len: "), TE |-> Chars("enc: "),
             cpu |-> Chars("cpu u="), mem |-> Chars("mem u="), sh |-> Chars("io="),
             big |-> Chars("requestload="), wide |-> Chars("widerange1=")]
MCConstB == [CL |-> Crlf, TE |-> Crlf, cpu |-> <<"N">>, mem |-> <<"N">>,
             sh |-> <<",">>, big |-> <<"N">>, wide |-> <<"N">>]

BodyLens == {0, 26, 32, 36}
Numbers == {ToString(n) : n \in BodyLens}
MCLanes == Numbers \cup {"POST", "CRLF", "ts", "tail", "all", "1", "22", "7777777"}
MCLaneText == ("POST" :> Chars("P") \o Crlf) @@ ("CRLF" :> Crlf)
    @@ ("ts" :> Chars("9N")) @@ ("tail" :> Chars("end"))
    @@ [l \in MCLanes |-> Chars(l)]
MCItoa == [n \in BodyLens |-> ToString(n)]
MCAtoi == [t \in {Chars(" " \o ToString(n)) : n \in BodyLens} |->
              CHOOSE n \in BodyLens : Chars(" " \o ToString(n)) = t]

DistinctIds == [CL |-> 1, TE |-> 2, cpu |-> 3, mem |-> 4, sh |-> 5, big |-> 6,
                wide |-> 7]
CollidingIds == [DistinctIds EXCEPT !["mem"] = 3]

Span(p, l) == [pat |-> p, lane |-> l]
Literal(l) == [pat |-> NoPat, lane |-> l]
FullLine(segs) == [segs |-> segs, nl |-> TRUE]

\* A chunked write.
Chunked == [head |-> <<Literal("POST"), Span("TE", "all")>>,
            body |-> << FullLine(<<Literal("ts")>>),
                        FullLine(<<Span("cpu", "1")>>),
                        FullLine(<<Span("cpu", "22")>>),
                        FullLine(<<Span("sh", "1"), Span("sh", "22"), Literal("ts")>>) >>]
\* A lane as long as its pattern (raw, and not counted), and a last line
\* without a newline.
Unterminated == [head |-> <<Literal("POST"), Span("CL", "36")>>,
                 body |-> << FullLine(<<Span("cpu", "7777777")>>),
                             FullLine(<<Span("sh", "1"), Span("big", "1")>>),
                             [segs |-> <<Literal("tail")>>, nl |-> FALSE] >>]
\* No body at all.
Ping == [head |-> <<Literal("POST"), Span("CL", "0")>>, body |-> <<>>]
\* One measurement three times, then another one.
TwoMeasurements ==
    [head |-> <<Literal("POST"), Span("CL", "32")>>,
     body |-> [i \in 1..4 |->
                  FullLine(<<Span(IF i = 4 THEN "mem" ELSE "cpu", "1")>>)]]
\* A very wide measurement, twice.
Wide == [head |-> <<Literal("POST"), Span("CL", "26")>>,
         body |-> << FullLine(<<Span("wide", "1")>>), FullLine(<<Span("wide", "1")>>) >>]

Ordinary == {Chunked, Unterminated, Ping}
CollisionRequests == {TwoMeasurements}
WideRequests == {Wide}
=============================================================================
