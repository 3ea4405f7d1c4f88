---------------------------- MODULE ProtocolPeer ----------------------------
(***************************************************************************)
(* The decoder against any sender of well-formed frames.  PROTOCOL.md lets *)
(* a sender use frames that this repository's encoder never emits          *)
(* (TEMPLATE_INLINE, EPOCH_RESET, a second TEMPLATE_DEFINE for an id), and *)
(* a sender may also break the rules on their order: decode_v1.go handles  *)
(* all of it.                                                              *)
(***************************************************************************)
EXTENDS Decoder, FiniteSetsExt, Functions

CONSTANTS
    PeerFrames,   \* the frames the sender may send
    MaxFrames     \* bound: frames per connection

ASSUME PeerAssumption == PeerFrames \subseteq Frame /\ MaxFrames \in Nat

peerVars == <<wireVars, decVars>>

PeerInit ==
    /\ WireInit
    /\ DecoderInit
    /\ decTemplates = NoTemplates

\* What the decoder does depends on the order of the frames alone, so the
\* sender waits until the last one was taken.
Send ==
    /\ rd = Len(frames)
    /\ ~Severed
    /\ Len(frames) < MaxFrames
    /\ \E f \in PeerFrames : frames' = Append(frames, f)
    /\ UNCHANGED <<rd, cut, truth, ends, mark, decVars>>

\* The sender closes the stream, at a frame boundary or not, or sends a frame
\* that ReadFrame or the parser of its payload rejects (an error).
PeerEnds == rd = Len(frames) /\ Sever(TRUE) /\ UNCHANGED decVars

PeerNext == Send \/ PeerEnds \/ DecoderNext

PeerSpec == PeerInit /\ [][PeerNext]_peerVars

-----------------------------------------------------------------------------
(***************************************************************************)
(* A reference reading of the stream, from the frames alone: a frame means *)
(* its own data, or for a reference the lane inside the latest definition  *)
(* of its id since the last reset.                                         *)
(***************************************************************************)
LastReset(n) ==
    Max({0} \cup {i \in 1..n : frames[i].type = "EPOCH_RESET"})

Definitions(t, n) ==
    {i \in LastReset(n) + 1 .. n :
        /\ frames[i].type \in {"TEMPLATE_DEFINE", "TEMPLATE_INLINE"}
        /\ frames[i].tid = t}

\* An empty piece of data is nothing.
Piece(s) == IF SegLen(s) = 0 THEN <<>> ELSE <<s>>

Meaning(n) ==
    LET f == frames[n]
    IN  CASE f.type = "RAW_DATA" -> Piece(f.seg)
          [] f.type = "TEMPLATE_INLINE" -> Piece([pat |-> f.pat, lane |-> f.lane])
          [] f.type = "TEMPLATE_REF" ->
                Piece([pat |-> frames[Max(Definitions(f.tid, n))].pat,
                       lane |-> f.lane])
          [] OTHER -> <<>>

\* The data of the frames m+1 to n, in order.
MeaningBetween(m, n) ==
    LET upTo[i \in m..n] == IF i = m THEN <<>> ELSE upTo[i - 1] \o Meaning(i)
    IN  upTo[n]

\* What the decoder is gathering is the tail of what the frames since the last
\* reset mean, and what comes before that tail was delivered last: a reference
\* is never expanded with a definition that a later one, or a reset, made
\* obsolete.
LatestDefinition ==
    decStatus = "run" =>
        LET m == MeaningBetween(LastReset(rd), rd)
            out == Len(m) - Len(req)
        IN  /\ out \in 0..Len(sink)
            /\ sink \o req = SubSeq(sink, 1, Len(sink) - out) \o m

\* The data of frame n ends a header that gives no length.
EndsWithoutLength(n) ==
    LET t == TextOf(req \o Meaning(n))
        end == HeaderLen(t)
    IN  end > 0 /\ parseContentLengthFromHeaderString(SubSeq(t, 1, end)) < 0

\* The decoder stops at a reference whose id has no definition in the current
\* epoch (PROTOCOL.md: "References to unknown IDs are protocol violations"),
\* and at one that has only if what it stands for ends a header without a
\* length.
UnknownRefStops ==
    \A n \in 1..rd :
        frames[n].type = "TEMPLATE_REF" =>
            LET stopped == n = rd /\ decStatus = "violation"
            IN  IF Definitions(frames[n].tid, n) = {} THEN stopped
                ELSE stopped => EndsWithoutLength(n)

\* The bytes of q hold a header, from whose lines the first usable
\* Content-Length is taken, and at least that many bytes behind it.
Complete(q) ==
    LET t == TextOf(q)
        end == HeaderLen(t)
        len == parseContentLengthFromHeaderString(SubSeq(t, 1, end))
    IN  end > 0 /\ len >= 0 /\ Len(t) - end >= len

\* The destination receives one complete request at a time, with the frame that
\* completes it and not later (flushReqIfComplete), wherever the frames cut the
\* lines of the header, its end and the body.
DeliversAtCompletion ==
    [][ (sink' # sink /\ decStatus' = "run") =>
          LET out == SubSeq(sink', Len(sink) + 1, Len(sink'))
          IN  /\ Complete(out)
              /\ \A k \in 1..Len(out) - 1 : ~Complete(SubSeq(out, 1, k))
      ]_peerVars
=============================================================================
