SPECIFICATION Spec
CONSTANTS
    MaxSaves = 2
    MaxRegs = 2
    MaxClicks = 4
    MaxSockets = 2
    MaxRounds = 2
    MaxUploads = 1
INVARIANTS
    TypeOK
    UniqueIds
    DiskFollows
    UploadedIsKnown
CHECK_DEADLOCK FALSE
