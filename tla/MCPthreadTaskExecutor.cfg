CONSTANTS
    MaxIn = 3
    MaxTasks = 3
SPECIFICATION FairSpec
INVARIANTS
    TypeOK
    NoDanglingReference
    ReporterSawEverything
PROPERTIES
    MergeAfterJoin
    ImplementsOrderedMap
    Terminates
