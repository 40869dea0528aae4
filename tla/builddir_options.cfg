SPECIFICATION Spec
CONSTANTS
    Proc = {p1}
    Value = {v1, v2}
    Unset = Unset
    Missing = Missing
    Torn = Torn
    Kinds = {"setup", "reconfigure", "configure"}
    PostConf = FALSE
    MayKill = FALSE
    MaxCommands = 4
    MaxStops = 0
INVARIANT WipeReproduces
