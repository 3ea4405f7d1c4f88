------------------------------ MODULE Learner ------------------------------
(***************************************************************************)
(* internal/dictionary/aggregate.go with evict_candidate.go, partition.go  *)
(* and worth.go: the statistics that the encoder keeps of the spans it     *)
(* meets, under a byte budget.  They influence nothing yet.  WindowStart,  *)
(* WindowEnd and Dictionary of the Aggregator are set and never read.      *)
(***************************************************************************)
EXTENDS Integers, FiniteSetsExt

CONSTANTS
    PatternKeys,  \* 64-bit hashes
    SpanSizes,
    CandidateOverheadBytes,
    DictionaryMaxBytes,
    MaxPackets    \* bound: requests of a connection

ASSUME LearnerAssumption ==
    /\ IsFiniteSet(PatternKeys)
    /\ SpanSizes \subseteq Nat
    /\ CandidateOverheadBytes \in Nat
    /\ DictionaryMaxBytes \in Nat
    /\ MaxPackets \in Nat

VARIABLES
    Stats,      \* key -> statistics
    packetID,   \* the encoder's packet counter
    evicted     \* history: the candidate that the last packet cost, if any

learnerVars == <<Stats, packetID, evicted>>

CandidateStats ==
    [hits : Nat \ {0}, size : SpanSizes, firstSeenEpoch : Nat, lastSeenEpoch : Nat]

LearnerTypeOK ==
    /\ DOMAIN Stats \subseteq PatternKeys
    /\ Stats \in [DOMAIN Stats -> CandidateStats]
    /\ packetID \in Nat
    /\ DOMAIN evicted \subseteq PatternKeys
    /\ evicted \in [DOMAIN evicted -> CandidateStats]

NewAggregator ==
    /\ Stats = <<>>
    /\ packetID = 0
    /\ evicted = <<>>

-----------------------------------------------------------------------------
\* Mutant: every occurrence of a span counts, not every packet.
CountedEach(s, id) == [s EXCEPT !.hits = @ + 2, !.lastSeenEpoch = id]

\* A span counts once per packet, however often it occurs in it.
Counted(s, id) == [s EXCEPT !.hits = @ + 1, !.lastSeenEpoch = id]

\* Mutant: the packet that brings a candidate is not counted.
FirstSeenZero(n, id) ==
    [hits |-> 0, size |-> n, firstSeenEpoch |-> id, lastSeenEpoch |-> id]

FirstSeen(n, id) ==
    [hits |-> 1, size |-> n, firstSeenEpoch |-> id, lastSeenEpoch |-> id]

\* The statistics after the spans of packet id.  obs gives for each pattern in
\* the packet the size of its first span; the size of a candidate never
\* changes after that.
Observed(obs, id) ==
    [k \in DOMAIN Stats \cup DOMAIN obs |->
        IF k \notin DOMAIN Stats THEN FirstSeen(obs[k], id)
        ELSE IF k \in DOMAIN obs THEN Counted(Stats[k], id)
        ELSE Stats[k]]

Total(stats) ==
    SumFunction([k \in DOMAIN stats |-> stats[k].size + CandidateOverheadBytes])

Worth(s) == s.hits * s.size

\* Mutant: the newer half is the evictable one.
EvictableHalvesNewer(stats) ==
    {e \in SUBSET DOMAIN stats :
        /\ Cardinality(e) = Cardinality(DOMAIN stats) - (Cardinality(DOMAIN stats) \div 2)
        /\ \A k \in e, p \in DOMAIN stats \ e :
              stats[k].lastSeenEpoch >= stats[p].lastSeenEpoch}

\* PartitionStatsByAge: all but the newest n \div 2 of n candidates.  Among
\* candidates of one age the unstable sort, over the order of a map, decides.
EvictableHalves(stats) ==
    {e \in SUBSET DOMAIN stats :
        /\ Cardinality(e) = Cardinality(DOMAIN stats) - (Cardinality(DOMAIN stats) \div 2)
        /\ \A k \in e, p \in DOMAIN stats \ e :
              stats[k].lastSeenEpoch <= stats[p].lastSeenEpoch}

\* EvictOne: one of the least worth in the evictable half.
Evictions(stats) ==
    UNION {{k \in e : \A j \in e : Worth(stats[k]) <= Worth(stats[j])} :
              e \in EvictableHalves(stats)}

OverBudget(stats) == Total(stats) > DictionaryMaxBytes

\* ObservePacket: count, then evict one candidate at most (maybeEvict).
ObservePacket(obs) ==
    LET id == packetID + 1
        stats == Observed(obs, id)
    IN  /\ packetID' = id
        /\ \/ /\ ~OverBudget(stats)
              /\ Stats' = stats
              /\ evicted' = <<>>
           \/ /\ OverBudget(stats)
              /\ \E k \in Evictions(stats) :
                    /\ Stats' = [j \in DOMAIN stats \ {k} |-> stats[j]]
                    /\ evicted' = [j \in {k} |-> stats[j]]

\* A request without a span: the encoder counts it and calls nobody.
PacketWithoutSpans ==
    /\ packetID' = packetID + 1
    /\ evicted' = <<>>
    /\ UNCHANGED Stats

LearnerNext ==
    /\ packetID < MaxPackets
    /\ \/ \E ks \in SUBSET PatternKeys \ {{}} :
             \E obs \in [ks -> SpanSizes] : ObservePacket(obs)
       \/ PacketWithoutSpans

LearnerSpec == NewAggregator /\ [][LearnerNext]_learnerVars

-----------------------------------------------------------------------------
(***************************************************************************)
(* Properties.                                                             *)
(***************************************************************************)
\* A candidate is never credited with more packets than have passed since it
\* was first seen, so Worth compares like with like, also for one that was
\* evicted and came back.
HitsHonest ==
    \A k \in DOMAIN Stats :
        /\ Stats[k].firstSeenEpoch <= Stats[k].lastSeenEpoch
        /\ Stats[k].lastSeenEpoch <= packetID
        /\ Stats[k].hits <= Stats[k].lastSeenEpoch - Stats[k].firstSeenEpoch + 1

Lost == DOMAIN Stats \ DOMAIN Stats'

\* Pressure acts on every packet that ends over the budget, and what was
\* learned is lost under pressure only, one candidate at a time.  When a
\* candidate goes, nothing that has gone unseen for longer is worth less, and
\* at most half of the others have gone unseen for longer.
LossUnderPressure ==
    [][/\ Lost \subseteq DOMAIN evicted'
       /\ Cardinality(DOMAIN evicted') <= 1
       /\ OverBudget(Stats') => DOMAIN evicted' # {} \/ UNCHANGED Stats
       /\ \A k \in DOMAIN evicted' :
             LET v == evicted'[k]
                 Older == {j \in DOMAIN Stats' : Stats'[j].lastSeenEpoch < v.lastSeenEpoch}
             IN  /\ Total(Stats') + v.size + CandidateOverheadBytes > DictionaryMaxBytes
                 /\ \A j \in Older : Worth(v) <= Worth(Stats'[j])
                 /\ 2 * Cardinality(Older) <= Cardinality(DOMAIN Stats')
      ]_learnerVars
=============================================================================
