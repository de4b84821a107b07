CONSTANTS
    Programs <- MCPrograms
    Workers = 2
    FunctionFilters = 1
    MutationFilters = 1
SPECIFICATION FairSpec
INVARIANTS
    TypeOK
    LinkedMutantsAreTheSurvivors
    ModuleExclusive
    StagesAreBarriers
PROPERTIES
    ImplementsObjectRewriting
    SharedDataChangesAtRest
    Terminates
