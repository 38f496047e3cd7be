SPECIFICATION Spec
CONSTANTS
    c1 = c1
    c2 = c2
    Closures = {c1}
    Operations <- JustReconfigure
    Wants <- JustProcessors
    HotPlugs <- NoHotPlug
    Hardware <- Machine
    ShutdownFirst = TRUE
INVARIANT ReconfiguredRuns
