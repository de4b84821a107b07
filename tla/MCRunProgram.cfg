CONSTANTS
    MaxSteps = 6
    Scripts <- MCScripts
    Timeouts = {0, 1, 3, 6, 9}
    PipeSize = 2
    MaxInt = 3
SPECIFICATION Spec
INVARIANTS
    TypeOK
    StatusIsExact
    NoProcessLeft
PROPERTY
    Terminates
