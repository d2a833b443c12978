CONSTANTS
    c1 = c1
    c2 = c2
    k1 = k1
    k2 = k2
    k3 = k3
    k4 = k4
    Clients = {c1, c2}
    Tasks = {"task"}
    Queries = {"search"}
    Searches = {"search"}
    ChunkKeys = {k1, k2, k3, k4}
    Chunks = 2
    MaxFaults = 1
    None = None
SPECIFICATION MCSpec
INVARIANTS ChunksKept FullAnswerNotLost
PROPERTIES EveryRequestEnds
CHECK_DEADLOCK FALSE
