SPECIFICATION Spec
CONSTANTS
    r1 = r1
    r2 = r2
    m1 = m1
    m2 = m2
    Requests = {r1, r2}
    Machines = {m1, m2}
    Operation <- CreateAndBatch
    Targets <- NamedTwice
    HasCallback <- SecondHasCallback
    DefaultCallback = "nohttp"
    Db = "faulty"
    ClosuresPanic = TRUE
    MaxCrashes = 1
INVARIANTS TypeOK AcceptedIsRecoverable ReportIsTruthful RefusedRunsNothing RecordsAreOwned
PROPERTIES OneTurnEach ContractKept
