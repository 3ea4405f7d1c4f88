--------------------------- MODULE MCProtocolPeer ---------------------------
(***************************************************************************)
(* A small alphabet of frames that spells complete requests, definitions   *)
(* that are repeated, changed or too wide for their length field, unknown  *)
(* references, resets in the middle of a request, an empty frame, and a    *)
(* header whose length is unusable or missing.  Frames cut the text as     *)
(* they like: the name of the length can be split over two of them ("c"    *)
(* and ":1"), it can stand inside a line ("x" before it), and end is a     *)
(* template that also ends the header and begins the body.                 *)
(***************************************************************************)
EXTENDS ProtocolPeer

MCLengthName == <<"c", ":">>
MCAtoi == (<<"1">> :> 1) @@ (<<"2">> :> 2)

MCPatterns == {"CL", "end", "wide"}
MCConstA == [CL |-> <<"c", ":">>, end |-> <<":">>, wide |-> [i \in 1..21 |-> "w"]]
MCConstB == [CL |-> Crlf, end |-> Crlf \o Crlf \o <<"x">>, wide |-> <<"w">>]
MCLanes == {"CRLF", "empty", "1", "2", "c", "x"}
MCLaneText ==
    [l \in MCLanes |-> IF l = "empty" THEN <<>> ELSE IF l = "CRLF" THEN Crlf ELSE <<l>>]
MCItoa == [n \in {1, 2} |-> ToString(n)]
MCTemplateID == [p \in MCPatterns |-> 1]

Literal(l) == RawData([pat |-> NoPat, lane |-> l])

MCPeerFrames ==
    {Literal("CRLF"), Literal("x"), Literal("c"), Literal("empty"),
     TemplateInline(1, "CL", "2"), TemplateInline(1, "CL", "x"),
     TemplateInline(1, "end", "1"),
     TemplateDefine(1, "CL"), TemplateDefine(1, "end"), TemplateDefine(1, "wide"),
     TemplateRef(1, "1"), EpochReset(1)}
=============================================================================
