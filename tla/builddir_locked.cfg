SPECIFICATION Spec
CONSTANTS
    Proc = {p1, p2}
    Value = {v1, v2}
    Unset = Unset
    Missing = Missing
    Torn = Torn
    Kinds = {"reconfigure"}
    PostConf = TRUE
    MayKill = FALSE
    MaxCommands = 3
    MaxStops = 1
INVARIANTS TypeOK OneGenerator CoreIntact
PROPERTIES RollbackRestores SuccessIsComplete
