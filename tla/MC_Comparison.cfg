CONSTANTS
    Uids <- MCUids
    Images <- MCImages
    Content <- MCContent
    Direct <- MCDirect
    Component <- MCComponent
    Header <- MCHeader
    Similar <- MCSimilar
    UidLists <- MCUidLists
    MaxRequests = 2
    MaxDeleted = 1
SPECIFICATION MCSpec
INVARIANTS ComparisonsSound
PROPERTIES RequestsAreServed
CHECK_DEADLOCK FALSE
