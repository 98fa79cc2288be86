SPECIFICATION Transpile
CONSTANTS
    Units = {2, 4, 8}
    MaxDepth = 3
    MaxLines = 7
INVARIANTS
    WellFormed
    CompiledKeepsNesting
    BracesMatch
CHECK_DEADLOCK FALSE
