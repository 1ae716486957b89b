CONSTANTS
    p1 = p1
    p2 = p2
    Procs <- MCProcs
    Names <- MCNames
    BuildSections <- MCSections
    BuiltIn <- MCBuiltIn
    Injected <- MCInjected
    Policies <- MCPolicies
    Declarations <- MCDeclarations
    Writes <- RecordWrites
    Levels <- MCLevels
    Blocks <- MCBlocks
    Edits <- MCEdits
SPECIFICATION Spec
PROPERTY EncodeDecodeIsIdentity
