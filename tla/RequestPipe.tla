---------------------------- MODULE RequestPipe ----------------------------
(***************************************************************************)
(* What a pair of ENZO nodes promises for one direction of a connection:   *)
(* a pipe for whole requests.  The requests accepted at one end come out   *)
(* at the other unchanged, in order, each one whole, until the pipe        *)
(* breaks; a request is cut short only by the failure that breaks it.      *)
(***************************************************************************)
EXTENDS Integers, Sequences

CONSTANT Unit         \* the unit of data

VARIABLES truth,      \* all that was accepted
          ends,       \* where in truth each request ends
          sink,       \* all that was delivered
          broken

pipeVars == <<truth, ends, sink, broken>>

Init ==
    /\ truth = <<>>
    /\ ends = <<>>
    /\ sink = <<>>
    /\ broken = FALSE

\* One more request enters, with at least one unit.
Accept ==
    /\ Len(truth') > Len(truth)
    /\ SubSeq(truth', 1, Len(truth)) = truth
    /\ \A i \in Len(truth) + 1 .. Len(truth') : truth'[i] \in Unit
    /\ ends' = Append(ends, Len(truth'))
    /\ UNCHANGED <<sink, broken>>

\* The first request that has not been delivered leaves, whole.
Deliver ==
    /\ ~broken
    /\ \E k \in DOMAIN ends :
          /\ Len(sink) = IF k = 1 THEN 0 ELSE ends[k - 1]
          /\ sink' = SubSeq(truth, 1, ends[k])
    /\ UNCHANGED <<truth, ends, broken>>

\* The pipe breaks, possibly in the middle of delivering a request.
Break ==
    /\ ~broken
    /\ broken' = TRUE
    /\ \E n \in Len(sink)..Len(truth) :
          /\ \A k \in DOMAIN ends : Len(sink) < ends[k] => n < ends[k]
          /\ sink' = SubSeq(truth, 1, n)
    /\ UNCHANGED <<truth, ends>>

Next == Accept \/ Deliver \/ Break

Live == WF_pipeVars(Deliver)

Spec == Init /\ [][Next]_pipeVars /\ Live
=============================================================================
