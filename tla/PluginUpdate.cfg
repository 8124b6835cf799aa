\* The same instance; what the README says of pluginUpdate.
SPECIFICATION Spec
CONSTANTS
    p = p
    q = q
    f = f
    g = g
    Plugins = {p, q}
    Functions = {f, g}
    Exports <- MCExports
    Hooks <- MCHooks
    Natives = {n1}
    JitSpace = {a1, a2, a3, a4, a5, a6}
    None = None
    MaxLoads = 3
SYMMETRY MCSymmetry
INVARIANT
    UpdateRunsPluginUpdate
CHECK_DEADLOCK FALSE
