SPECIFICATION StoresSpec
CONSTANTS
    Byte = {"a", "b"}
    Zero = "a"
    Cap = 4
    Chunks <- MCChunks
    MaxSeen = 11
    Keys = {k1, k2, k3, k4, k5}
    capBytes = 6
    PatternSizes = {0, 1, 3, 7}
    MaxSeq = 6
    PatternKeys = {p1, p2, p3}
    SpanSizes = {2, 5}
    CandidateOverheadBytes = 1
    DictionaryMaxBytes = 9
    MaxPackets = 4
    EntryIDs = {1, 2, 3, 4}
    Entries <- MCEntries
    Needs = {2, 9}
    MaxBytes = 8
    NoID = 0
SYMMETRY Interchangeable
CHECK_DEADLOCK FALSE
INVARIANT WindowTypeOK
INVARIANT SnapshotIsTail
INVARIANT LRUTypeOK
INVARIANT WithinCap
INVARIANT IndexInv
INVARIANT LearnerTypeOK
INVARIANT HitsHonest
INVARIANT ScoreTypeOK
INVARIANT HardCap
PROPERTY GuardedEviction
PROPERTY RejectedForCause
PROPERTY LossUnderPressure
PROPERTY YoungHalfKept
