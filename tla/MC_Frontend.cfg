CONSTANTS
    Workers = {w1, w2}
    Names = {"fact"}
    ROLES = {"guest", "analyst"}
    OtherRoles = {"custom"}
    Times = {1, 2}
    MaxRequests = 4
    fw = fw
    fx = fx
    fa = fa
    fb = fb
    Firmwares = {fw, fx}
    Files = {fa, fb}
    Contents <- MCContents
    Inside <- MCInside
    Plugins = {"file_type", "elf_analysis"}
    Results <- MCResults
    PLUGINS_WITH_TAG_PROPAGATION = {"elf_analysis"}
    Layout <- MCLayout
    Comparisons = {{fw, fx}}
    Starts <- MCStarts
    MaxWrites = 2
SPECIFICATION MCSpec
INVARIANTS EditsKept StoredIsServed AnswersAgree
PROPERTIES ImageComesBack
CHECK_DEADLOCK FALSE
