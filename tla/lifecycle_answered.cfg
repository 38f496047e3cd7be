SPECIFICATION FairSpec
CONSTANTS
    r1 = r1
    r2 = r2
    m1 = m1
    m2 = m2
    Requests = {r1, r2}
    Machines = {m1, m2}
    Operation <- ReconfigureAndDevice
    Targets <- OneMachineEach
    HasCallback <- FirstHasCallback
    DefaultCallback = "http"
    Db = "sound"
    ClosuresPanic = TRUE
    MaxCrashes = 1
PROPERTIES AcceptedIsAnswered
