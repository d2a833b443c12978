\* Two images with a file in common are uploaded; one of them and the file are
\* updated meanwhile.
SPECIFICATION FairSpec
CONSTANTS
    fw1 = fw1
    fw2 = fw2
    a = a
    c = c
    w1 = w1
    Firmware = {fw1, fw2}
    Files = {a, c}
    Workers = {w1}
    Contents <- TwiceContents
    MaxDepth = 3
    ThrottleLimit = 1
    Breaking = {fw2}
    Unreadable = {a}
    Uploaded = {fw1, fw2}
    Updated = {fw2}
    Single = {c}
INVARIANTS
    CountersAgree
    SomethingLeft
    FinishedMeansAnalyzed
PROPERTIES
    EveryImageFinishes
CHECK_DEADLOCK FALSE
