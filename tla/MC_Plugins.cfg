CONSTANTS
    c1 = c1
    c2 = c2
    c3 = c3
    Cves <- MCCves
    YearOf <- MCYearOf
    Entries <- MCEntries
    Published <- MCPublished
    CpeRows <- MCCpeRows
    ComponentLists <- MCComponents
    StartFeeds <- MCStartFeeds
    StartYears <- MCStartYears
    Targets = {"both", "cpe"}
    MaxNesting = 2
    MaxPublish = 2
    MaxRuns = 2
    MaxFaults = 1
    MaxLookups = 1
    Inputs <- MCInputs
    UidOf <- MCUidOf
    FullTypeOf <- MCFullTypeOf
    Outputs <- MCOutputs
    Resolved <- MCResolved
    Metadata <- MCMetadata
    OsList = {"Linux"}
    HeartbleedVersions = {"1.0.1a", "1.0.1b"}
    NetgearSha256 = "netgear"
    MaxKills = 1
    MaxLeft = 1
    MaxRaised = 1
SPECIFICATION MCSpec
INVARIANTS UpdateAgreesWithFeed LookupMissesOnlyMoved ContainersAndReports
PROPERTY KnownStaysKnown
CHECK_DEADLOCK FALSE
