SPECIFICATION MCSpec
CONSTANTS
    A = A
    B = B
    x = x
    y = y
    Uids = {A, B, x, y}
    Content <- SharedContent
    MaxDepth = 2
    Images = {A, B}
    MaxUploads = 2
    MaxDeletions = 2
INVARIANTS
    EntriesIntact
    StorageAgrees
PROPERTIES
    DeletionExact
CHECK_DEADLOCK FALSE
