\* Two loadable plugins, a native extension, two functions, one native
\* function, four JIT addresses.
SPECIFICATION ImportsSpec
CONSTANTS
    p = p
    q = q
    n = n
    f = f
    g = g
    Plugins = {p, q}
    Functions = {f, g}
    Exports <- MCExports
    Hooks <- MCHooks
    Natives = {n1}
    JitSpace = {a1, a2, a3, a4}
    Extensions = {n}
    Methods <- MCMethods
    Enums <- MCEnums
    Classes <- MCClasses
    Moved = Moved
    None = None
    MaxLoads = 3
    MaxImports = 2
SYMMETRY MCSymmetry
INVARIANTS
    RoundTrip
    NativeCallsRightFunction
    ImportsAreOwn
    ClassWholeOrThrows
CHECK_DEADLOCK FALSE
