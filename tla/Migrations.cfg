SPECIFICATION FairSpec
CONSTANTS
    Runners = {r1, r2}
    Usable = {"users", "transactions", "accounts"}
    Narrowed = {"transactions"}
    Starts = {0, 1, 2, 3, 4, 5, 6, 7, 8, 9, 10, 11, 12, 13, 14, 15}
    MaxCommands = 2
CHECK_DEADLOCK FALSE
INVARIANTS
    VersionNamesSchema
    LatestIsTheModels
PROPERTIES
    RowsOutliveUpgrades
    OneCommandPerVersion
    CommandsGoForward
    EveryCommandEnds
