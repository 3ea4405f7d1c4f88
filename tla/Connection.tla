----------------------------- MODULE Connection -----------------------------
(***************************************************************************)
(* The life of one connection on both nodes: listener, dial, Run with its  *)
(* forward lane, its reverse goroutine and its end (internal/accept,       *)
(* cmd/enzo, internal/state/machine.go).                                   *)
(*                                                                         *)
(*     client --1-- enc --2-- dec --3-- server                             *)
(*                                                                         *)
(* Socket s has a near end (the dialing side) and a far end (the accepting *)
(* side).  Requests are counted; what the forward lane does to them is the *)
(* subject of Lane.  The response is a sequence of units, each of them a   *)
(* run of bytes no shorter than a frame header.  The reverse goroutine     *)
(* passes what it reads until it has seen reverseFastPathBytes and then    *)
(* turns into a reverse ENZO lane: dec encodes, enc decodes.  Each node    *)
(* counts for itself, and where a read ends is up to TCP.  A response that *)
(* is encoded and decoded counts as the server's own: the lane changes no  *)
(* more of it than the framing headers.                                    *)
(***************************************************************************)
EXTENDS Integers, Sequences, FiniteSetsExt

CONSTANTS
    reverseFastPathBytes,  \* in units
    Total,                 \* bound: units the server sends
    Starts,                \* how many units precede each response
    Unframed,              \* those of Starts whose response has no length
    MaxRequests            \* bound: requests of the client

ASSUME ConnectionAssumption ==
    /\ reverseFastPathBytes \in Nat \ {0}
    /\ Total \in Nat
    /\ Starts \subseteq 0..Total - 1
    /\ Unframed \subseteq Starts
    /\ MaxRequests \in Nat

VARIABLES
    node,      \* what handleConn is doing
    fwd,       \* the forward lane
    rev,       \* the reverse goroutine
    seen,      \* bytes that the fast path has passed
    taken,     \* units that the reverse goroutine has read
    inbox,     \* requests that wait in the source of a node
    shut,      \* the ends of sockets that are closed
    halfShut,  \* the client has closed its sending side
    asked,     \* requests the client has sent
    sent,      \* units the server has sent
    back,      \* units that dec has written to enc
    client     \* units that the client has received

nodeVars == <<node, fwd, rev, seen, taken>>
netVars == <<inbox, shut, halfShut, asked, sent, back, client>>
connVars == <<nodeVars, netVars>>

Nodes == {"enc", "dec"}

\* cc.Source and cc.Destination.
Source(n) == IF n = "enc" THEN 1 ELSE 2
Destination(n) == IF n = "enc" THEN 2 ELSE 3

Open(s, side) == <<s, side>> \notin shut

Raw(i) == <<"raw", i>>
FrameOf(p, q) == << <<"header", p, q>>, <<"payload", p, q>> >>

Unit == {<<"raw", i>> : i \in 1..Total}
        \cup ({"header", "payload"} \X (0..Total) \X (0..Total))

ConnTypeOK ==
    /\ node \in [Nodes -> {"idle", "peek", "run", "cancelled", "returned"}]
    /\ fwd \in [Nodes -> {"none", "run", "done"}]
    /\ rev \in [Nodes -> {"none", "pass", "loop", "read", "done", "violation"}]
    /\ seen \in [Nodes -> Nat]
    /\ taken \in [Nodes -> Nat]
    /\ inbox \in [Nodes -> 0..MaxRequests]
    /\ shut \subseteq {1, 2, 3} \X {"near", "far"}
    /\ halfShut \in BOOLEAN
    /\ asked \in 0..MaxRequests
    /\ sent \in 0..Total
    /\ back \in Seq(Unit)
    /\ client \in Seq(Unit)

\* The client has connected to enc; enc has not yet dialed dec.
ConnInit ==
    /\ node = [n \in Nodes |-> IF n = "enc" THEN "peek" ELSE "idle"]
    /\ fwd = [n \in Nodes |-> "none"]
    /\ rev = [n \in Nodes |-> "none"]
    /\ seen = [n \in Nodes |-> 0]
    /\ taken = [n \in Nodes |-> 0]
    /\ inbox = [n \in Nodes |-> 0]
    /\ shut = {}
    /\ halfShut = FALSE
    /\ asked = 0
    /\ sent = 0
    /\ back = <<>>
    /\ client = <<>>

-----------------------------------------------------------------------------
(***************************************************************************)
(* The listener.                                                           *)
(***************************************************************************)
\* The peer of a node's source has closed, or the connection is broken.
SourceOver(n) ==
    \/ ~Open(Source(n), "near")
    \/ ~Open(Source(n), "far")
    \/ n = "enc" /\ halfShut /\ inbox[n] = 0

\* PeekByte returns the first byte, which decides on the mode (text at enc, a
\* frame at dec); the dial succeeds and Run starts both lanes.
Classify(n) ==
    /\ node[n] = "peek"
    /\ inbox[n] > 0
    /\ Open(Source(n), "far")
    /\ node' = [m \in Nodes |-> IF m = n THEN "run"
                                ELSE IF n = "enc" THEN "peek" ELSE node[m]]
    /\ fwd' = [fwd EXCEPT ![n] = "run"]
    /\ rev' = [rev EXCEPT ![n] = "pass"]
    /\ UNCHANGED <<seen, taken, netVars>>

\* PeekByte fails, or the dial does: the accepted connection is closed.
Refuse(n) ==
    /\ node[n] = "peek"
    /\ inbox[n] > 0 \/ SourceOver(n)
    /\ node' = [node EXCEPT ![n] = "returned"]
    /\ shut' = shut \cup {<<Source(n), "far">>}
    /\ UNCHANGED <<fwd, rev, seen, taken, inbox, halfShut, asked, sent, back, client>>

(***************************************************************************)
(* The forward lane, as far as it matters to the connection.               *)
(***************************************************************************)
\* Mutant: the request stays in the source's buffer.
ForwardRequestKeeps(n) ==
    /\ fwd[n] = "run"
    /\ inbox[n] > 0
    /\ inbox' = [m \in Nodes |-> IF m = n THEN inbox[m] ELSE inbox[m] + 1]
    /\ UNCHANGED <<nodeVars, shut, halfShut, asked, sent, back, client>>

ForwardRequest(n) ==
    /\ fwd[n] = "run"
    /\ inbox[n] > 0
    /\ Open(Source(n), "far")
    /\ Open(Destination(n), "near")
    /\ inbox' = [m \in Nodes |->
                    IF m = n THEN inbox[m] - 1
                    ELSE IF n = "enc" /\ Open(2, "far") THEN inbox[m] + 1
                    ELSE inbox[m]]
    /\ UNCHANGED <<nodeVars, shut, halfShut, asked, sent, back, client>>

\* The source ends, what it sends is refused, or the destination is gone (of
\* which a writer hears at the earliest with the write after the close).
ForwardEnds(n) ==
    /\ fwd[n] = "run"
    /\ SourceOver(n) \/ inbox[n] > 0
    /\ fwd' = [fwd EXCEPT ![n] = "done"]
    /\ UNCHANGED <<node, rev, seen, taken, netVars>>

(***************************************************************************)
(* The reverse goroutine.                                                  *)
(***************************************************************************)
\* All that has arrived at the destination's socket, for the node to read.
Arriving(n) == IF n = "dec" THEN [i \in 1..sent |-> Raw(i)] ELSE back

Pending(n) == Len(Arriving(n)) - taken[n]

\* Write to the source: all of it, or an error.  When the peer has closed, the
\* kernel may still take the data, for nobody, or report it.
WriteBack(n, units, next) ==
    \/ /\ Open(Source(n), "far")
       /\ rev' = [rev EXCEPT ![n] = next]
       /\ back' = IF n = "dec" /\ Open(2, "near") THEN back \o units ELSE back
       /\ client' = IF n = "enc" /\ Open(1, "near") THEN client \o units ELSE client
    \/ /\ ~Open(Source(n), "far") \/ ~Open(Source(n), "near")
       /\ rev' = [rev EXCEPT ![n] = "done"]
       /\ UNCHANGED <<back, client>>

\* Mutant: the node switches before the threshold is reached.
AfterPassEarly(n, k) == IF seen[n] + k + 1 >= reverseFastPathBytes THEN "loop" ELSE "pass"

AfterPass(n, k) == IF seen[n] + k >= reverseFastPathBytes THEN "loop" ELSE "pass"

\* Mutant: bytes are held back until a full threshold of them is there.
PassBuffered(n) ==
    /\ rev[n] = "pass"
    /\ Pending(n) >= reverseFastPathBytes
    /\ WriteBack(n, SubSeq(Arriving(n), taken[n] + 1, taken[n] + Pending(n)), "loop")
    /\ taken' = [taken EXCEPT ![n] = @ + Pending(n)]
    /\ seen' = [seen EXCEPT ![n] = @ + Pending(n)]
    /\ UNCHANGED <<node, fwd, inbox, shut, halfShut, asked, sent>>

\* Mutant: the threshold is compared with the number of reads.
PassCountsReads(n) ==
    /\ rev[n] = "pass"
    /\ Open(Destination(n), "near")
    /\ \E k \in 1..Pending(n) :
          /\ WriteBack(n, SubSeq(Arriving(n), taken[n] + 1, taken[n] + k), AfterPass(n, 1))
          /\ taken' = [taken EXCEPT ![n] = @ + k]
          /\ seen' = IF rev'[n] = "done" THEN seen ELSE [seen EXCEPT ![n] = @ + 1]
    /\ UNCHANGED <<node, fwd, inbox, shut, halfShut, asked, sent>>

\* One turn of the fast path: whatever the read returns is passed on.
Pass(n) ==
    /\ rev[n] = "pass"
    /\ Open(Destination(n), "near")
    /\ \E k \in 1..Pending(n) :
          /\ WriteBack(n, SubSeq(Arriving(n), taken[n] + 1, taken[n] + k), AfterPass(n, k))
          /\ taken' = [taken EXCEPT ![n] = @ + k]
          /\ seen' = IF rev'[n] = "done" THEN seen ELSE [seen EXCEPT ![n] = @ + k]
    /\ UNCHANGED <<node, fwd, inbox, shut, halfShut, asked, sent>>

\* The head of the loop of the reverse ENZO lane: select on Ctx.Done.
ReverseLoop(n) ==
    /\ rev[n] = "loop"
    /\ rev' = [rev EXCEPT ![n] = IF node[n] \in {"cancelled", "returned"}
                                 THEN "done" ELSE "read"]
    /\ UNCHANGED <<node, fwd, seen, taken, netVars>>

NextStart(p) == Min({q \in Starts \cup {Total} : q > p})

\* runEncodeTemplateV1 takes the response for a request.  At the start of one
\* the HTTP adapter takes it whole; anywhere else it takes what looks like a
\* request to it.
EncodeResponse ==
    /\ rev["dec"] = "read"
    /\ Open(3, "near")
    /\ LET p == taken["dec"]
       IN  \E q \in p + 1 .. sent :
              /\ p \in Starts => p \notin Unframed /\ q = NextStart(p)
              /\ WriteBack("dec", FrameOf(p, q), "loop")
              /\ taken' = [taken EXCEPT !["dec"] = q]
    /\ UNCHANGED <<node, fwd, seen, inbox, shut, halfShut, asked, sent>>

\* The adapter refuses: no request line, or neither chunked nor a length.
RefuseResponse ==
    /\ rev["dec"] = "read"
    /\ Open(3, "near")
    /\ Pending("dec") > 0
    /\ taken["dec"] \notin Starts \ Unframed
    /\ rev' = [rev EXCEPT !["dec"] = "done"]
    /\ UNCHANGED <<node, fwd, seen, taken, netVars>>

\* runDecodeTemplateV1: a frame, header and payload.
DecodeFrame ==
    /\ rev["enc"] = "read"
    /\ Open(2, "near")
    /\ Pending("enc") >= 2
    /\ LET u == back[taken["enc"] + 1]
       IN  /\ u[1] = "header"
           /\ WriteBack("enc", [i \in 1..u[3] - u[2] |-> Raw(u[2] + i)], "loop")
    /\ taken' = [taken EXCEPT !["enc"] = @ + 2]
    /\ UNCHANGED <<node, fwd, seen, inbox, shut, halfShut, asked, sent>>

\* ReadFrame: bad magic.
BadMagic ==
    /\ rev["enc"] = "read"
    /\ Open(2, "near")
    /\ Pending("enc") >= 1
    /\ back[taken["enc"] + 1][1] # "header"
    /\ rev' = [rev EXCEPT !["enc"] = "violation"]
    /\ taken' = [taken EXCEPT !["enc"] = @ + 1]
    /\ UNCHANGED <<node, fwd, seen, netVars>>

\* The destination ends.  Data on its way may be lost with it (a reset).
ReverseEnds(n) ==
    /\ rev[n] \in {"pass", "read"}
    /\ ~Open(Destination(n), "near") \/ ~Open(Destination(n), "far")
    /\ rev' = [rev EXCEPT ![n] = "done"]
    /\ UNCHANGED <<node, fwd, seen, taken, netVars>>

(***************************************************************************)
(* The end of Run.                                                         *)
(***************************************************************************)
\* The forward lane has returned: cc.Cancel(), and the ticker goroutine ends.
\* The reverse goroutine is not waited for.
CancelRun(n) ==
    /\ node[n] = "run"
    /\ fwd[n] = "done"
    /\ node' = [node EXCEPT ![n] = "cancelled"]
    /\ UNCHANGED <<fwd, rev, seen, taken, netVars>>

\* Mutant: handleConn does not close the accepted connection.
ReturnRunOpen(n) ==
    /\ node[n] = "cancelled"
    /\ node' = [node EXCEPT ![n] = "returned"]
    /\ UNCHANGED <<fwd, rev, seen, taken, netVars>>

\* Run returns, and handleConn closes the accepted connection.  Nobody closes
\* the destination.
ReturnRun(n) ==
    /\ node[n] = "cancelled"
    /\ node' = [node EXCEPT ![n] = "returned"]
    /\ shut' = shut \cup {<<Source(n), "far">>}
    /\ UNCHANGED <<fwd, rev, seen, taken, inbox, halfShut, asked, sent, back, client>>

\* Once no goroutine refers to it, the destination's socket is closed by the
\* finalizer that package net gives it.
Collect(n) ==
    /\ node[n] = "returned"
    /\ rev[n] \in {"done", "violation"}
    /\ Open(Destination(n), "near")
    /\ shut' = shut \cup {<<Destination(n), "near">>}
    /\ UNCHANGED <<nodeVars, inbox, halfShut, asked, sent, back, client>>

(***************************************************************************)
(* Client, server and network.                                             *)
(***************************************************************************)
ClientSends ==
    /\ Open(1, "near")
    /\ ~halfShut
    /\ asked < MaxRequests
    /\ asked' = asked + 1
    /\ inbox' = IF Open(1, "far") THEN [inbox EXCEPT !["enc"] = @ + 1] ELSE inbox
    /\ UNCHANGED <<nodeVars, shut, halfShut, sent, back, client>>

ClientShutsWrite ==
    /\ ~halfShut
    /\ halfShut' = TRUE
    /\ UNCHANGED <<nodeVars, inbox, shut, asked, sent, back, client>>

ServerSends ==
    /\ rev["dec"] # "none"
    /\ Open(3, "far")
    /\ sent < Total
    /\ sent' = sent + 1
    /\ UNCHANGED <<nodeVars, inbox, shut, halfShut, asked, back, client>>

Leave(ends) ==
    /\ ~(ends \subseteq shut)
    /\ shut' = shut \cup ends
    /\ UNCHANGED <<nodeVars, inbox, halfShut, asked, sent, back, client>>

ClientLeaves == Leave({<<1, "near">>})
ServerLeaves == rev["dec"] # "none" /\ Leave({<<3, "far">>})
NetworkBreaks == rev["enc"] # "none" /\ Leave({<<2, "near">>, <<2, "far">>})

NodeStep(n) ==
    \/ Classify(n) \/ Refuse(n)
    \/ ForwardRequest(n) \/ ForwardEnds(n)
    \/ Pass(n) \/ ReverseLoop(n) \/ ReverseEnds(n)
    \/ CancelRun(n) \/ ReturnRun(n) \/ Collect(n)

ReverseLane == EncodeResponse \/ RefuseResponse \/ DecodeFrame \/ BadMagic

Environment ==
    \/ ClientSends \/ ClientShutsWrite \/ ServerSends
    \/ ClientLeaves \/ ServerLeaves \/ NetworkBreaks

ConnNext == (\E n \in Nodes : NodeStep(n)) \/ ReverseLane \/ Environment

\* Each goroutine that can run does run: the listener's, the forward lane, the
\* reverse goroutine; and the garbage collector comes round.
ConnFairness ==
    \A n \in Nodes :
        /\ WF_connVars(Classify(n) \/ Refuse(n))
        /\ WF_connVars(ForwardRequest(n) \/ ForwardEnds(n))
        /\ WF_connVars(Pass(n) \/ ReverseLoop(n) \/ ReverseEnds(n))
        /\ WF_connVars(CancelRun(n) \/ ReturnRun(n))
        /\ WF_connVars(Collect(n))

ConnSpec ==
    /\ ConnInit
    /\ [][ConnNext]_connVars
    /\ ConnFairness
    /\ WF_connVars(EncodeResponse \/ RefuseResponse)
    /\ WF_connVars(DecodeFrame \/ BadMagic)

-----------------------------------------------------------------------------
(***************************************************************************)
(* Properties.                                                             *)
(***************************************************************************)
\* REVERSE_FASTPATH.md: "Reverse traffic is passed through directly until 256
\* bytes are observed."  Whatever the nodes do later, and wherever the reads
\* end, the first bytes that reach the client are the server's own.
FirstBytesDirect ==
    \A i \in DOMAIN client : i <= reverseFastPathBytes => client[i] = Raw(i)

\* Two nodes that leave the fast path at the same byte never garble a response.
\* The client is given something else than the server's bytes only when enc
\* passed on more than dec did, and so passed frames; the decoder of the
\* responses meets a bad frame only when the two counts differ.
InStepIsSafe ==
    /\ (\E i \in DOMAIN client : client[i] # Raw(i)) => seen["enc"] > seen["dec"]
    /\ rev["enc"] = "violation" => seen["enc"] # seen["dec"]

\* The first bytes of the server reach the client, unless a connection ends.
FirstBytesArrive ==
    \A i \in 1..reverseFastPathBytes :
        sent >= i ~> (Len(client) >= i \/ shut # {})

Released(n) ==
    /\ node[n] = "returned"
    /\ rev[n] \in {"none", "done", "violation"}
    /\ ~Open(Source(n), "far")
    /\ rev[n] # "none" => ~Open(Destination(n), "near")

\* A node whose two neighbours have both closed gives up everything it holds
\* for the connection: no goroutine and no socket stays.
BothEndsRelease ==
    \A n \in Nodes :
        (~Open(Source(n), "near") /\ ~Open(Destination(n), "far")) ~> Released(n)

(***************************************************************************)
(* What the documents say and the code does not do.                        *)
(***************************************************************************)
\* ARCHITECTURE.md: "byte-for-byte identical"; the client receives what the
\* server sent.
ReverseExact == \A i \in DOMAIN client : client[i] = Raw(i)

\* PROTOCOL.md: on a violation "epoch reset or connection termination occurs".
ViolationTerminates == rev["enc"] = "violation" ~> ~Open(1, "far")
=============================================================================
