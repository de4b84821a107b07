CONSTANTS
    m1 = m1
    m2 = m2
    Source = src
    Others = {other}
    Mutant <- MCMutant
    MutantLists <- MCLists
    MaxMutants = 3
    Workers = 2
    Timeout = 2
    LeftoverFiles <- MCLeftovers
    Times <- MCTimes
    MaxFaults = 2
SPECIFICATION Spec
INVARIANTS
    TypeOK
    KillSound
    FaultIsolation
    SingleMutantPerTarget
    EveryMutantJudged
PROPERTIES
    ImplementsMutationTesting
