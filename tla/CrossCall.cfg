CONSTANTS
    Signatures <- MCSignatures
    MaxFuncArgs = 3
    MaxDepth = 3
    Bad = Bad
    NoJs = NoJs
    Fallback = Fallback
    None = None
SPECIFICATION Spec
INVARIANTS
    ParametersAreOwn
    ScriptGetsRefs
    ReturnSetOnce
    RefsKeepOrTake
    
