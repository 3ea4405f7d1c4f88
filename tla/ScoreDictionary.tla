-------------------------- MODULE ScoreDictionary --------------------------
(***************************************************************************)
(* internal/dictionary/insert.go and evict.go: the bounded container of    *)
(* promoted patterns.  Unlike memory.Dictionary it evicts as it goes, so a *)
(* request for too much room costs entries even when it is turned down.    *)
(***************************************************************************)
EXTENDS Integers, FiniteSetsExt

CONSTANTS
    EntryIDs,
    Entries,      \* what may be inserted: [size, score, lastSeenOffset]
    Needs,        \* what EnsureCapacity may be asked for
    MaxBytes,     \* with all sizes and needs, far below 2^32
    NoID          \* not an id

ASSUME ScoreDictionaryAssumption ==
    /\ \A e \in Entries : e.size \in Nat /\ e.score \in Nat /\ e.lastSeenOffset \in Nat
    /\ Needs \subseteq Nat
    /\ MaxBytes \in Nat
    /\ NoID \notin EntryIDs

VARIABLES
    Promoted,     \* d.Entries: id -> entry
    UsedBytes,
    put,          \* history: the id that the last call inserted, if any
    again         \* history: an id was inserted while it was there

scoreVars == <<Promoted, UsedBytes, put, again>>

ScoreTypeOK ==
    /\ DOMAIN Promoted \subseteq EntryIDs
    /\ Promoted \in [DOMAIN Promoted -> Entries]
    /\ UsedBytes \in Nat
    /\ put \in EntryIDs \cup {NoID}
    /\ again \in BOOLEAN

EmptyScores ==
    /\ Promoted = <<>>
    /\ UsedBytes = 0
    /\ put = NoID
    /\ again = FALSE

-----------------------------------------------------------------------------
PromotedBytes(ids) ==
    SumFunctionOnSet([i \in DOMAIN Promoted |-> Promoted[i].size], ids)

\* Mutant: more than the constants of an entry is given back.
UsedWithoutSpan(ids) == UsedBytes - PromotedBytes(ids) - Cardinality(ids)

\* d.UsedBytes after the entries ids were deleted.
UsedWithout(ids) ==
    IF UsedBytes >= PromotedBytes(ids) THEN UsedBytes - PromotedBytes(ids) ELSE 0

Fits(need, out) == UsedWithout(out) + need <= MaxBytes

\* Mutant: the half of the lowest scores, whatever its age.
OldHalvesByScore ==
    {h \in SUBSET DOMAIN Promoted :
        /\ Cardinality(h) = Cardinality(DOMAIN Promoted) \div 2
        /\ \A i \in h, j \in DOMAIN Promoted \ h :
              Promoted[i].score <= Promoted[j].score}

\* The older half.  Equal offsets are in any order: the sort is not stable and
\* starts from the order of a map.
OldHalves ==
    {h \in SUBSET DOMAIN Promoted :
        /\ Cardinality(h) = Cardinality(DOMAIN Promoted) \div 2
        /\ \A i \in h, j \in DOMAIN Promoted \ h :
              Promoted[i].lastSeenOffset <= Promoted[j].lastSeenOffset}

\* out can be the first of half when that is sorted by score.
Lowest(out, half) ==
    \A i \in out, j \in half \ out : Promoted[i].score <= Promoted[j].score

\* The loop: lowest score first, until need fits or the half is used up.
Evict(need, out) ==
    /\ ~Fits(need, {})
    /\ \E half \in OldHalves :
          /\ out \subseteq half
          /\ Lowest(out, half)
          /\ \/ out = half
             \/ Fits(need, out)
          /\ out # {} => \E last \in out :
                            Lowest(out \ {last}, half) /\ ~Fits(need, out \ {last})

Put(id, e, out) ==
    /\ Promoted' = [i \in (DOMAIN Promoted \ out) \cup {id} |->
                       IF i = id THEN e ELSE Promoted[i]]
    /\ UsedBytes' = UsedWithout(out) + e.size
    /\ put' = id
    /\ again' = (again \/ id \in DOMAIN Promoted \ out)

Shrink(out) ==
    /\ Promoted' = [i \in DOMAIN Promoted \ out |-> Promoted[i]]
    /\ UsedBytes' = UsedWithout(out)
    /\ put' = NoID
    /\ UNCHANGED again

\* Mutant: the entry goes in although there is no room for it.
TryInsertAnyway(id, e) ==
    \E out \in SUBSET DOMAIN Promoted :
        /\ \/ Fits(e.size, {}) /\ out = {}
           \/ Evict(e.size, out)
        /\ Put(id, e, out)

TryInsert(id, e) ==
    \/ Fits(e.size, {}) /\ Put(id, e, {})
    \/ \E out \in SUBSET DOMAIN Promoted :
          /\ Evict(e.size, out)
          /\ IF Fits(e.size, out) THEN Put(id, e, out) ELSE Shrink(out)

\* Without an older half, or with room enough, nothing happens.
EnsureCapacity(need) ==
    \E out \in SUBSET DOMAIN Promoted : Evict(need, out) /\ Shrink(out)

ScoreNext ==
    \/ \E id \in EntryIDs, e \in Entries : TryInsert(id, e)
    \/ \E need \in Needs : EnsureCapacity(need)

ScoreSpec == EmptyScores /\ [][ScoreNext]_scoreVars

-----------------------------------------------------------------------------
(***************************************************************************)
(* Properties.                                                             *)
(***************************************************************************)
\* The hard cap holds for what is really there, also when callers insert an
\* id again: then the old entry's bytes stay in UsedBytes for good, but never
\* the other way round.  The guard of insert.go and evict.go against an
\* underflow is not needed.
HardCap ==
    /\ PromotedBytes(DOMAIN Promoted) <= UsedBytes
    /\ UsedBytes <= MaxBytes
    /\ ~again => UsedBytes = PromotedBytes(DOMAIN Promoted)

Dropped == DOMAIN Promoted \ DOMAIN Promoted'

\* The entries that are older than one that a call took.
OlderThanDropped ==
    {j \in DOMAIN Promoted :
        \E i \in Dropped : Promoted[j].lastSeenOffset < Promoted[i].lastSeenOffset}

\* However much is asked for, and granted or not, one call leaves the young half
\* alone: every entry it takes is among the older half, so that those and all
\* older ones are at most half of the entries; and it takes no entry while an
\* older one of lower score stays.
YoungHalfKept ==
    [][/\ 2 * Cardinality(Dropped \cup OlderThanDropped) <= Cardinality(DOMAIN Promoted)
       /\ \A i \in Dropped, j \in DOMAIN Promoted \ (Dropped \cup {put'}) :
             Promoted[j].lastSeenOffset < Promoted[i].lastSeenOffset =>
                 Promoted[i].score <= Promoted[j].score
      ]_scoreVars
=============================================================================
