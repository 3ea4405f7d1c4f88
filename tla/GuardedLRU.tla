----------------------------- MODULE GuardedLRU -----------------------------
(***************************************************************************)
(* internal/memory/dictionary.go: a cache of byte patterns with a hard cap *)
(* in bytes.  Only the older half of the entries may be evicted, least     *)
(* recently used first, and only if that makes enough room.                *)
(***************************************************************************)
EXTENDS Integers, FiniteSetsExt

CONSTANTS
    Keys,
    capBytes,
    PatternSizes,  \* the lengths of the patterns that are offered
    MaxSeq         \* bound: uses and insertions; far below the range of nextID

ASSUME GuardedLRUAssumption ==
    /\ capBytes \in Nat \ {0}
    /\ PatternSizes \subseteq Nat
    /\ MaxSeq \in Nat

VARIABLES
    entries,    \* id -> entry
    byKey,      \* key -> id
    usedBytes,
    nextID,
    nextSeq,
    result      \* history: what the last call did, and for how many bytes

contentVars == <<entries, byKey, usedBytes>>
lruVars == <<contentVars, nextID, nextSeq, result>>

Result(what, need) == [what |-> what, need |-> need]

DictEntry == [key : Keys, size : Nat, createdSeq : Nat, lastUsedSeq : Nat]

LRUTypeOK ==
    /\ DOMAIN entries \subseteq Nat
    /\ entries \in [DOMAIN entries -> DictEntry]
    /\ DOMAIN byKey \subseteq Keys
    /\ byKey \in [DOMAIN byKey -> Nat]
    /\ usedBytes \in Nat
    /\ nextID \in Nat
    /\ nextSeq \in Nat
    /\ result \in [what : {"none", "used", "inserted", "rejected", "removed"}, need : Nat]

NewDictionary ==
    /\ entries = <<>>
    /\ byKey = <<>>
    /\ usedBytes = 0
    /\ nextID = 1
    /\ nextSeq = 1
    /\ result = Result("none", 0)

-----------------------------------------------------------------------------
IDs == DOMAIN entries

Sizes == [i \in IDs |-> entries[i].size]

BytesOf(ids) == SumFunctionOnSet(Sizes, ids)

freeBytes == capBytes - usedBytes

\* GetByID, and GetByKey with the id of a key: the entry is touched.
GetByID(id) ==
    /\ id \in IDs
    /\ entries' = [entries EXCEPT ![id].lastUsedSeq = nextSeq]
    /\ nextSeq' = nextSeq + 1
    /\ result' = Result("used", 0)
    /\ UNCHANGED <<byKey, usedBytes, nextID>>

\* Mutant: the older half is rounded up.
OlderHalfUp ==
    {i \in IDs : 2 * Cardinality({j \in IDs : entries[j].createdSeq < entries[i].createdSeq})
                     < Cardinality(IDs)}

OlderHalf ==
    {i \in IDs : Cardinality({j \in IDs : entries[j].createdSeq < entries[i].createdSeq})
                     < Cardinality(IDs) \div 2}

\* The plan of evictToFit: least recently used first (no two entries were used
\* at the same time), until there is room.
Victims(need) ==
    {v \in OlderHalf :
        freeBytes + BytesOf({u \in OlderHalf : entries[u].lastUsedSeq < entries[v].lastUsedSeq})
            < need}

\* Mutant: off by one.
evictToFitOff(need) == freeBytes + BytesOf(Victims(need)) + 1 >= need

evictToFit(need) == freeBytes + BytesOf(Victims(need)) >= need

\* Mutant: the index keeps the keys of what was removed.
WithoutIndexKept(ids) == byKey

\* delete(d.byKey, e.Key) for every entry that is removed.
WithoutIndex(ids) ==
    [k \in DOMAIN byKey \ {entries[i].key : i \in ids} |-> byKey[k]]

\* Mutant: the size is given back twice, and nothing stops the count at 0.
DeleteTwice(id) ==
    /\ id \in IDs
    /\ entries' = [i \in IDs \ {id} |-> entries[i]]
    /\ byKey' = WithoutIndex({id})
    /\ usedBytes' = usedBytes - 2 * entries[id].size
    /\ result' = Result("removed", 0)
    /\ UNCHANGED <<nextID, nextSeq>>

\* Delete, as callers use it.
Delete(id) ==
    /\ id \in IDs
    /\ entries' = [i \in IDs \ {id} |-> entries[i]]
    /\ byKey' = WithoutIndex({id})
    /\ usedBytes' = IF usedBytes < entries[id].size THEN 0
                    ELSE usedBytes - entries[id].size
    /\ result' = Result("removed", 0)
    /\ UNCHANGED <<nextID, nextSeq>>

Clear ==
    /\ entries' = <<>>
    /\ byKey' = <<>>
    /\ usedBytes' = 0
    /\ result' = Result("removed", 0)
    /\ UNCHANGED <<nextID, nextSeq>>

\* AddCandidate for a key that is not there, with room or room made.
Insert(key, need) ==
    LET out == Victims(need)
    IN  /\ entries' = [i \in (IDs \ out) \cup {nextID} |->
                          IF i = nextID
                          THEN [key |-> key, size |-> need,
                                createdSeq |-> nextSeq, lastUsedSeq |-> nextSeq]
                          ELSE entries[i]]
        /\ byKey' = [k \in DOMAIN WithoutIndex(out) \cup {key} |->
                        IF k = key THEN nextID ELSE byKey[k]]
        /\ usedBytes' = usedBytes - BytesOf(out) + need
        /\ nextID' = nextID + 1
        /\ nextSeq' = nextSeq + 1
        /\ result' = Result("inserted", need)

\* Mutant: what can be evicted is evicted before it is known to suffice.
RejectEvicts(need) ==
    /\ entries' = [i \in IDs \ Victims(need) |-> entries[i]]
    /\ byKey' = WithoutIndex(Victims(need))
    /\ usedBytes' = usedBytes - BytesOf(Victims(need))
    /\ result' = Result("rejected", need)
    /\ UNCHANGED <<nextID, nextSeq>>

Reject(need) ==
    /\ result' = Result("rejected", need)
    /\ UNCHANGED <<contentVars, nextID, nextSeq>>

\* An empty pattern is ignored, a known key touched; otherwise the candidate
\* is inserted or rejected.
AddCandidate(key, need) ==
    /\ need > 0
    /\ \/ key \in DOMAIN byKey /\ GetByID(byKey[key])
       \/ /\ key \notin DOMAIN byKey
          /\ need <= capBytes /\ evictToFit(need)
          /\ Insert(key, need)
       \/ /\ key \notin DOMAIN byKey
          /\ need > capBytes \/ ~evictToFit(need)
          /\ Reject(need)

LRUNext ==
    /\ nextSeq <= MaxSeq
    /\ \/ \E key \in Keys, need \in PatternSizes : AddCandidate(key, need)
       \/ \E id \in IDs : GetByID(id) \/ Delete(id)
       \/ Clear

LRUSpec == NewDictionary /\ [][LRUNext]_lruVars

-----------------------------------------------------------------------------
(***************************************************************************)
(* Properties.                                                             *)
(***************************************************************************)
\* The account is right and within the hard cap, however insertions,
\* evictions, deletions and Clear follow each other (so the clamp at 0 of
\* Delete is never needed).
WithinCap == usedBytes = BytesOf(IDs) /\ usedBytes <= capBytes

\* Entries and index are inverse to each other, and ids and ages are fresh:
\* a key never leads to the entry of another key.
IndexInv ==
    /\ \A k \in DOMAIN byKey : byKey[k] \in IDs /\ entries[byKey[k]].key = k
    /\ \A i \in IDs : entries[i].key \in DOMAIN byKey /\ byKey[entries[i].key] = i
    /\ \A i \in IDs :
          /\ i < nextID
          /\ entries[i].createdSeq <= entries[i].lastUsedSeq
          /\ entries[i].lastUsedSeq < nextSeq
    /\ \A i, j \in IDs :
          /\ i < j => entries[i].createdSeq < entries[j].createdSeq
          /\ entries[i].lastUsedSeq = entries[j].lastUsedSeq => i = j

Gone == IDs \ DOMAIN entries'
Newer(v) == {u \in IDs : entries[u].createdSeq > entries[v].createdSeq}

\* The locked policy of AddCandidate, on the step that inserts: an entry goes
\* only when at least half of the entries are newer; nothing older survives
\* that was used less recently than one that went; and without the last one to
\* go there would not have been room.
GuardedEviction ==
    [][result'.what = "inserted" =>
          /\ \A v \in Gone : 2 * Cardinality(Newer(v)) >= Cardinality(IDs)
          /\ \A v \in Gone, u \in IDs \ Gone :
                entries[u].createdSeq < entries[v].createdSeq =>
                    entries[v].lastUsedSeq < entries[u].lastUsedSeq
          /\ \A v \in Gone :
                (\A u \in Gone : entries[u].lastUsedSeq <= entries[v].lastUsedSeq) =>
                    usedBytes - BytesOf(Gone \ {v}) + result'.need > capBytes
      ]_lruVars

\* "If eviction can't free enough space, reject the candidate WITH NO SIDE
\* EFFECTS": a rejected candidate leaves everything as it was, and it is
\* rejected only when it and the protected half together exceed the cap.
RejectedForCause ==
    [][result'.what = "rejected" =>
          /\ UNCHANGED contentVars
          /\ LET Protected == {i \in IDs : 2 * Cardinality(Newer(i)) < Cardinality(IDs)}
             IN  BytesOf(Protected) + result'.need > capBytes
      ]_lruVars
=============================================================================
