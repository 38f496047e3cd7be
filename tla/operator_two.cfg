SPECIFICATION FairSpec
CONSTANTS
    c1 = c1
    c2 = c2
    Closures = {c1, c2}
    Operations <- AllOperations
    Wants <- SomeWants
    HotPlugs <- SomeHotPlugs
    Hardware <- Machine
    ShutdownFirst = TRUE
INVARIANTS TypeOK SuccessIsReal StopSuffices StopsAreWarranted
PROPERTIES OnlyWantedChanges OperationsReturn
