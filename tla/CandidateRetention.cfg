SPECIFICATION FairSpec
CONSTANTS
    Messages = {m1, m2, m3}
    Threads = {t}
    NoThread = none
    PageSize = 2
    ChunkSize = 1
    MaxFaults = 2
    Kinds <- MCKinds
INVARIANTS TypeOK DecisionsJustified DecisionsComplete OrderIndependent BodiesOnlyOfCandidates
PROPERTIES NothingRetracted EventuallyRetained
