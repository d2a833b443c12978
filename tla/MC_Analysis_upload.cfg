\* A firmware image with two files is uploaded; analyses of two plugins may fail.
SPECIFICATION FairSpec
CONSTANTS
    fw = fw
    file = file
    file2 = file2
    t1 = t1
    t2 = t2
    t3 = t3
    t4 = t4
    gone = gone
    file_type = file_type
    software = software
    kernel = kernel
    architecture = architecture
    NoTask = NoTask
    NoPlugin = NoPlugin
    Plugins <- UploadPlugins
    Names <- UploadPlugins
    Dependencies <- UploadDependencies
    Mandatory = {file_type}
    FileType = file_type
    Objects <- UploadObjects
    Tasks = {t1, t2, t3}
    Request <- UploadArchitecture
    Roots <- MCParents
    Parents <- MCParents
    Recursive <- UploadPlugins
    Threads = 2
    HasFilter = {software}
    Filtered <- FileFiltered
    Failing = {file_type, kernel}
    Killable = {architecture}
    Hanging = {architecture}
    Unstorable = {}
    BadValues = {kernel}
    Version <- MCVersion
    SystemVersion <- SoftwareSystemVersion
    StoredBefore <- NothingStored
    KnownBefore = {}
    Deletable = {}
INVARIANTS
    DependenciesRespected
    ResultsStoredUnlessDependencyFailed
PROPERTIES
    EveryTaskEnds
    ImplementsService
CHECK_DEADLOCK FALSE
