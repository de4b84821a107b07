CONSTANTS
    MaxNodes = 2
    Trees <- MCTrees
    Callees = {"$suser", "$sassertionFailure", "swift_release"}
    UserSwift = {"$suser", "$sassertionFailure"}
    Unrecoverable = {"$sassertionFailure"}
SPECIFICATION Spec
INVARIANTS
    TypeOK
    SurvivorsAreWritten
    NothingElseIsLost
