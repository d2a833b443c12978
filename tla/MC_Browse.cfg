CONSTANTS
    Databases <- MCDatabases
    Forms <- MCForms
    PerPage = 2
    Values = {1, 2}
    Plugin = "p"
    MaxChanges = 1
SPECIFICATION BrowseSpec
INVARIANTS PagesShowEveryMatch ConditionsCombine TreeShowsEveryFile StatisticsAddUp
CHECK_DEADLOCK FALSE
