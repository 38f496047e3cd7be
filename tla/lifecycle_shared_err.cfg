SPECIFICATION Spec
CONSTANTS
    r1 = r1
    r2 = r2
    m1 = m1
    m2 = m2
    Requests = {r1}
    Machines = {m1}
    Operation <- OneReconfigure
    Targets <- OneTarget
    HasCallback <- NoneHasCallback
    DefaultCallback = "http"
    Db = "sound"
    ClosuresPanic = FALSE
    MaxCrashes = 0
INVARIANTS ErrorReplyRunsNothing
