CONSTANTS
    Names <- MCNames
    OddNames <- MCOddNames
    Fns <- MCFns
    FnName <- MCFnName
    Overrides <- MCOverrides
    Signatures <- MCSignatures
    Namespaces <- MCNamespaces
    FlowNames <- MCFlowNames
    StageLists <- MCStageLists
    Sources <- MCSources
    Hosts <- MCHosts
    Disks <- MCDisks
    Configs <- MCConfigs
    PathExt <- MCPathExt
    MaxHandlers = 2
    MaxChanges = 1
SPECIFICATION Spec
INVARIANTS
    TypeOK
    EdgesResolve
    RoundTripIsFaithful
    EqualKeysHideNesting
    PassCoversEverySource
    NoDirIsLeftSilently
PROPERTIES
    ThrowsChangeNothing
    LookupPolicy
