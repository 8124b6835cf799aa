SPECIFICATION FairSpec
CONSTANTS
    a = a
    b = b
    c = c
    x = x
    e = e
    None = None
    Fail = Fail
    Paths <- MCPaths
    Kind <- MCKind
    Requests <- MCRequests
    BodyRequires <- MCBodyRequires
    Slow = {c}
    Breakable = {b, e, x}
    Mains = {a}
    Dynamic = {b, c}
    MaxMods = 13
    MaxImports = 2
CHECK_DEADLOCK FALSE
INVARIANTS
    NoOrphanImport
    CallsAreDistinct
    RegisteredIsComplete
    RequiredIsEvaluated
PROPERTIES
    ImportSettles
