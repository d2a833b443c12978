SPECIFICATION MCSpec
CONSTANTS
    Workers = {w1, w2}
    Tasks = {1, 2}
    NoTask = 0
    StatsLimit = 1
    MaxKills = 2
    MaxFaults = 2
INVARIANTS
    PluginInOrder
    NothingSurvivesExit
PROPERTIES
    EveryJobEnds
    ShutdownCompletes
CHECK_DEADLOCK FALSE
