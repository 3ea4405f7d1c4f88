------------------------------ MODULE MCStores ------------------------------
(***************************************************************************)
(* The four bounded stores of a node: the raw window, the guarded LRU      *)
(* dictionary, the learner's statistics and the score dictionary.  None of *)
(* them calls another, so a behaviour exercises one of them while the      *)
(* others stay as they were made.                                          *)
(***************************************************************************)
EXTENDS RawWindow, GuardedLRU, Learner, ScoreDictionary, TLC

MCChunks == UNION {[1..n -> Byte] : n \in 0..6}

MCEntry(n, score, seenAt) == [size |-> n, score |-> score, lastSeenOffset |-> seenAt]
MCEntries == {MCEntry(1, 1, 1), MCEntry(3, 2, 1), MCEntry(1, 2, 2), MCEntry(3, 1, 2)}

\* Nothing depends on which key is which.
Interchangeable == Permutations(Keys)

storeVars == <<windowVars, lruVars, learnerVars, scoreVars>>

StoresInit == NewRawWindow /\ NewDictionary /\ NewAggregator /\ EmptyScores

WindowTurn ==
    /\ NewDictionary /\ NewAggregator /\ EmptyScores
    /\ WindowNext
    /\ UNCHANGED <<lruVars, learnerVars, scoreVars>>

DictionaryTurn ==
    /\ NewRawWindow /\ NewAggregator /\ EmptyScores
    /\ LRUNext
    /\ UNCHANGED <<windowVars, learnerVars, scoreVars>>

LearnerTurn ==
    /\ NewRawWindow /\ NewDictionary /\ EmptyScores
    /\ LearnerNext
    /\ UNCHANGED <<windowVars, lruVars, scoreVars>>

ScoreTurn ==
    /\ NewRawWindow /\ NewDictionary /\ NewAggregator
    /\ ScoreNext
    /\ UNCHANGED <<windowVars, lruVars, learnerVars>>

StoresSpec ==
    StoresInit /\ [][WindowTurn \/ DictionaryTurn \/ LearnerTurn \/ ScoreTurn]_storeVars
=============================================================================
