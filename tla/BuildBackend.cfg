CONSTANTS
    NoFile = NoFile
    MaxBuild = 2
    Projects <- MCProjects
    Files <- MCFiles
    Dests <- MCDests
    Names <- MCNames
    Worlds <- MCWorlds
SPECIFICATION Spec
INVARIANTS TypeOK PrintedErrorsFail ForcedIsApplied SidecarIsBacked OwnRewrites SidecarsAreWhole RequestsAreRemoved
CHECK_DEADLOCK FALSE
