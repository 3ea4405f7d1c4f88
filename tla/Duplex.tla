------------------------------- MODULE Duplex -------------------------------
(***************************************************************************)
(* A lane together with the opposite one.  On each node both lanes use one *)
(* dictionary (rc := *cc in machine.go copies the pointer), so the         *)
(* encoder of the responses writes its templates into the map in which the *)
(* decoder of the requests looks up its own, from another goroutine and    *)
(* without a lock.  Of the opposite lane only its definitions are kept.    *)
(*                                                                         *)
(* Two goroutines in the map at once are a data race.  The Go runtime may  *)
(* notice and end the process; otherwise a lookup may miss an entry that   *)
(* is there, and one of two stores may be lost.                            *)
(***************************************************************************)
EXTENDS LaneInv

CONSTANT OppositePats  \* the patterns that the opposite encoder may define

ASSUME OppositeAssumption == OppositePats \subseteq Patterns

VARIABLES
    oppDefs,  \* the patterns that the opposite encoder has defined, in order
    oppRd     \* how many of them the opposite decoder has read

duplexVars == <<vars, oppDefs, oppRd>>

DuplexInit ==
    /\ Init
    /\ oppDefs = <<>>
    /\ oppRd = 0

\* The lane itself.
LaneStep == Next /\ UNCHANGED <<oppDefs, oppRd>>

-----------------------------------------------------------------------------
(***************************************************************************)
(* The decoding node.                                                      *)
(***************************************************************************)
\* The opposite encoder has seen p often enough, and has not used its id yet.
Undefined(p) ==
    /\ decStatus = "run"
    /\ \A i \in DOMAIN oppDefs : TemplateID[oppDefs[i]] # TemplateID[p]

WriteOpposite(p) == oppDefs' = Append(oppDefs, p) /\ UNCHANGED oppRd

\* Mutant: the id is reduced to fewer bits before it is used as a key.
OppositeDefinesMasked(p) ==
    /\ Undefined(p)
    /\ WriteOpposite(p)
    /\ decTemplates' = [t \in Ids |-> IF t % 4 = TemplateID[p] % 4 THEN p ELSE decTemplates[t]]
    /\ UNCHANGED <<wireVars, encVars, epoch, gatherVars, sink, decStatus>>

OppositeDefines(p) ==
    /\ Undefined(p)
    /\ WriteOpposite(p)
    /\ decTemplates' = [decTemplates EXCEPT ![TemplateID[p]] = p]
    /\ UNCHANGED <<wireVars, encVars, epoch, gatherVars, sink, decStatus>>

\* Mutant: the decoder goes on after a reference it cannot resolve.
LookupMissesSkips(p) ==
    /\ Undefined(p)
    /\ WriteOpposite(p)
    /\ Receive("TEMPLATE_REF")
    /\ decTemplates' = [decTemplates EXCEPT ![TemplateID[p]] = p]
    /\ UNCHANGED <<encVars, epoch, gatherVars, sink, decStatus>>

\* The lookup of a reference, during the write of p, finds nothing.
LookupMisses(p) ==
    /\ Undefined(p)
    /\ WriteOpposite(p)
    /\ Receive("TEMPLATE_REF")
    /\ Stop("violation")
    /\ decTemplates' = [decTemplates EXCEPT ![TemplateID[p]] = p]
    /\ UNCHANGED <<encVars, epoch>>

\* Two stores at once, of which one is lost.
StoreLost(p) ==
    /\ Undefined(p)
    /\ WriteOpposite(p)
    /\ Receive("TEMPLATE_DEFINE")
    /\ LET f == frames[rd + 1]
       IN  /\ Encodable(f.pat)
           /\ \/ decTemplates' = [decTemplates EXCEPT ![f.tid] = f.pat]
              \/ decTemplates' = [decTemplates EXCEPT ![TemplateID[p]] = p]
    /\ UNCHANGED <<encVars, epoch, gatherVars, sink, decStatus>>

\* The runtime notices and ends the process, and with it every connection.
DecoderDies(p) ==
    /\ Undefined(p)
    /\ Readable
    /\ frames[rd + 1].type \in {"TEMPLATE_DEFINE", "TEMPLATE_REF"}
    /\ cut' = [at |-> rd, tail |-> "error"]
    /\ decStatus' = "failed"
    /\ UNCHANGED <<frames, rd, truth, ends, mark, encVars, decTemplates, epoch,
                   gatherVars, sink, oppDefs, oppRd>>

(***************************************************************************)
(* The encoding node.  Its encoder never reads the map.                    *)
(***************************************************************************)
Unread == encStatus = "run" /\ oppRd < Len(oppDefs)

OppositeLearns ==
    /\ Unread
    /\ LET p == oppDefs[oppRd + 1]
       IN  encTemplates' = [encTemplates EXCEPT ![TemplateID[p]] = p]
    /\ oppRd' = oppRd + 1
    /\ UNCHANGED <<wireVars, decVars, hits, defined, todo, rawIn, wireOut,
                   encStatus, oppDefs>>

\* The encoder's store, with the definition just written, meets the one of the
\* opposite decoder.
EncoderDies ==
    /\ Unread
    /\ Sending
    /\ LET s == Head(todo).seg
       IN  /\ Candidate(s)
           /\ Promoted(s)
           /\ ~defined[TemplateID[s.pat]]
           /\ DefineFits(s)
    /\ Sever(TRUE)
    /\ encStatus' = "failed"
    /\ UNCHANGED <<decVars, encTemplates, hits, defined, todo, rawIn, wireOut,
                   oppDefs, oppRd>>

Opposite ==
    \/ \E p \in OppositePats :
          OppositeDefines(p) \/ LookupMisses(p) \/ StoreLost(p) \/ DecoderDies(p)
    \/ OppositeLearns
    \/ EncoderDies

DuplexNext == LaneStep \/ Opposite

DuplexSpec == DuplexInit /\ [][DuplexNext]_duplexVars

\* The fairness of the lane.
DuplexFairSpec ==
    /\ DuplexSpec
    /\ WF_duplexVars(Emit /\ UNCHANGED <<decVars, oppDefs, oppRd>>)
    /\ WF_duplexVars(DecoderStep /\ ~Writes /\ UNCHANGED <<oppDefs, oppRd>>)
    /\ WF_duplexVars(DecoderHangUp /\ UNCHANGED <<oppDefs, oppRd>>)

-----------------------------------------------------------------------------
(***************************************************************************)
(* Properties, beside those of Lane.                                       *)
(***************************************************************************)
OppositeTypeOK ==
    /\ oppDefs \in Seq(OppositePats)
    /\ oppRd \in 0..Len(oppDefs)

\* Both dictionaries hold under an id only a pattern of that id, whoever
\* wrote it; so as long as ids are distinct, what the decoder expands is what
\* the encoder meant, and no race between the lanes of a node (machine.go,
\* rc := *cc) reaches the bytes of a request.
DuplexInv ==
    /\ StreamInv
    /\ OppositeTypeOK
    /\ KeyedById(decTemplates)
    /\ KeyedById(encTemplates)
    /\ CollisionFree => SinkInv
=============================================================================
