------------------------------ MODULE MCDuplex ------------------------------
(***************************************************************************)
(* A small instance of Duplex.  The responses repeat Content-Length, as    *)
(* the requests do (the same pattern, under the same id), and a header of  *)
(* their own, srv.  In one instance srv has the template id of cpu.        *)
(***************************************************************************)
EXTENDS Duplex, TLC

\* The characters of a string, with R and N for the bytes 13 and 10.
Chars(str) == <<>> \o [i \in 1..Len(str) |-> SubSeq(str, i, i)]

MCLengthName == Chars("len:")
MCCodingName == Chars("enc:")

MCPatterns == {"CL", "TE", "srv", "cpu"}
MCConstA == [CL |-> Chars("len: "), TE |-> Chars("enc: "), srv |-> Chars("srv: "),
             cpu |-> Chars("cpu u=")]
MCConstB == [CL |-> Crlf, TE |-> Crlf, srv |-> Crlf, cpu |-> <<"N">>]

BodyLens == {16, 24}
MCLanes == {ToString(n) : n \in BodyLens} \cup {"POST", "CRLF", "1"}
MCLaneText == ("POST" :> Chars("P") \o Crlf) @@ ("CRLF" :> Crlf)
    @@ [l \in MCLanes |-> Chars(l)]
MCItoa == [n \in BodyLens |-> ToString(n)]
MCAtoi == [t \in {Chars(" " \o ToString(n)) : n \in BodyLens} |->
              CHOOSE n \in BodyLens : Chars(" " \o ToString(n)) = t]

DistinctIds == [CL |-> 1, TE |-> 2, cpu |-> 3, srv |-> 7]
CollidingIds == [DistinctIds EXCEPT !["srv"] = 3]

\* n lines of one measurement.
Fields(n) ==
    [head |-> <<[pat |-> NoPat, lane |-> "POST"]>>,
     body |-> [i \in 1..n |->
                  [segs |-> <<[pat |-> "cpu", lane |-> "1"]>>, nl |-> TRUE]]]

MCRequests == {Fields(2), Fields(3)}
MCOpposite == {"CL", "srv"}
=============================================================================
