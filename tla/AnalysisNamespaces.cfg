CONSTANTS
    Files <- MCFiles
    Contents <- MCContents
    SourceFiles <- MCSourceFiles
    Jobs <- MCJobs
    Tokens <- MCTokens
    Declared <- MCDeclared
    Cells <- MCCells
    MaxFaults = 2
    MaxRetries = 3
    MaxHeight = 9
    Width = 4
    Fuel = 3
SPECIFICATION Spec
CHECK_DEADLOCK FALSE
INVARIANTS
    NamespacesAreWalked
