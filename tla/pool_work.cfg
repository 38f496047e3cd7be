SPECIFICATION FairSpec
CONSTANTS
    t1 = t1
    t2 = t2
    t3 = t3
    t4 = t4
    t5 = t5
    vc1 = vc1
    vc2 = vc2
    Tasks = {t1, t2, t3, t4}
    Vcs = {vc1}
    Types = {"operation", "deployment"}
    VcOf <- TwoVcs
    TypeOf <- MixedTypes
    RoutineCount <- OneEach
    ReceiveCapacity = 2
    NoPool = NoPool
    MaxCleans = 1
INVARIANTS TypeOK PoolsAreBounded RunningIsBounded
PROPERTIES EveryTaskRuns
