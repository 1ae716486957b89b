SPECIFICATION FairSpec
CONSTANTS
    NumVars = 2
    Epochs = 3
    MaxLines = 1
INVARIANTS
    TypeOK
    WireIsOneSnapshot
    NoPauseMissed
    TargetHeldAtHit
    EndsBetweenVariables
    NoOrphan
    IInv
PROPERTIES
    ResumeNeedsGo
    ImplementsSession
    SearchEnds
    EndsOrWaits
