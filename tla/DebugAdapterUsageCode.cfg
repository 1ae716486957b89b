SPECIFICATION Spec
CONSTANTS
    NumVars = 2
    Epochs = 2
    MaxLines = 1
INVARIANT UsageCodeIsUsage
