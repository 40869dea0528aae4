CONSTANTS
    Sub <- MCSub
    Value <- MCValue
    Decls <- MCDecls
    Files <- MCFiles
    s = s
    t = t
    a = a
    b = b
    Default = d
    Global = Global
    Root = Root
    NoFile = NoFile
    Nothing = Nothing
    NoParent = NoParent
    Live = Live
    Crash = Crash
    MaxEvents <- MCMaxEvents
SYMMETRY Subprojects
SPECIFICATION Spec
INVARIANTS
    TypeOK
    DocumentedOrder
    RemovedFollowsRoot
PROPERTIES
    ValuesStay
