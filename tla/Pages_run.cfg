SPECIFICATION Spec
CONSTANTS
    Rounds = {"test"}
    MaxRuns = 2
    MaxTimers = 3
INVARIANTS
    TypeOK
    ResultsMoveOn
    ModalIsJustified
PROPERTIES
    RowsFollowFilter
