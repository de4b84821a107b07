CONSTANTS
    m1 = m1
    m2 = m2
    Mutant <- MCMutant
    MutantLists <- MCLists
    MaxMutants = 3
    Workers = 2
    Timeout = 60
    Times <- MCTimes
SPECIFICATION FairSpec
INVARIANTS
    TypeOK
    ExactWhenReliable
PROPERTIES
    ImplementsMutationTesting
    Terminates
