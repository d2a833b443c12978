SPECIFICATION FairSpec
CONSTANTS
    file_type = file_type
    file_hashes = file_hashes
    other = other
    unloaded = unloaded
    Plugins <- MCPlugins
    Unknown <- MCUnknown
    Mandatory <- MCMandatory
    FileType = file_type
INVARIANTS
    SoundOrder
    OnlyBlockedPluginsDropped
PROPERTIES
    ComputesAPlan
CHECK_DEADLOCK FALSE
