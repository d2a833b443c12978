\* Updates of an image and its file after a new version of software was installed
\* and kernel was added, with an unknown plugin name, a deleted image and results
\* that cannot be stored.
SPECIFICATION FairSpec
CONSTANTS
    fw = fw
    file = file
    file2 = file2
    t1 = t1
    t2 = t2
    t3 = t3
    t4 = t4
    gone = gone
    file_type = file_type
    software = software
    kernel = kernel
    architecture = architecture
    NoTask = NoTask
    NoPlugin = NoPlugin
    Plugins <- MCPlugins
    Names <- FaultyNames
    Dependencies <- MCDependencies
    Mandatory = {file_type}
    FileType = file_type
    Objects <- MCObjects
    Tasks = {t1, t2, t3, t4}
    Request <- Updates
    Roots <- MCParents
    Parents <- MCParents
    Recursive = {file_type, software}
    Threads = 2
    HasFilter = {software}
    Filtered = {}
    Failing = {software, kernel}
    Killable = {}
    Hanging = {}
    Unstorable = {file_type}
    BadValues = {software}
    Version <- MCVersion
    SystemVersion <- SoftwareSystemVersion
    StoredBefore <- SoftwareOutdated
    KnownBefore = {fw, file}
    Deletable = {fw}
INVARIANTS
    InOnePlace
    UpToDateWhenCompleted
CHECK_DEADLOCK FALSE
