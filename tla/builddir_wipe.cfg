SPECIFICATION Spec
CONSTANTS
    Proc = {p1}
    Value = {v1, v2}
    Unset = Unset
    Missing = Missing
    Torn = Torn
    Kinds = {"setup", "reconfigure", "wipe", "configure"}
    PostConf = TRUE
    MayKill = FALSE
    MaxCommands = 4
    MaxStops = 2
PROPERTIES WipeAgrees CmdLineSurvives
