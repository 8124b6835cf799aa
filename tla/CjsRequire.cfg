SPECIFICATION Spec
CONSTANTS
    Tree <- MCTree
    Cwd <- MCCwd
    LibPath <- MCLib
    PluginDirs <- MCPlugins
    NotFound = NotFound
    Names <- MCNames
    Dirs <- MCRequireDirs
    Deps <- MCDeps
    RootDeps <- MCRootDeps
    Root = Root
    Absent = Absent
    Undefined = Undefined
    MaxObjs = 3
    MaxReloads = 1
CHECK_DEADLOCK FALSE
INVARIANTS
    SidNamesModule
    ExecutedOnce
    LocalAgrees
    OwnCopy
PROPERTIES
    FailureIsFinal
