SPECIFICATION Spec
CONSTANTS
    MaxTicks = 3
    NWords = 2
    OrderSlots = 1
    SpinBudget = 2
    Forked = TRUE
INVARIANTS
    AnswerIsComplete
    DecidedOnThisTick
PROPERTIES
    AnswersAdvance
    TickLoopEnds
    ExitsWhenOnTickReturns
