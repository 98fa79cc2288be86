SPECIFICATION Spec
CONSTANTS
    Runs = {r1}
    Workers = {w1, w2}
    Cores = {c1}
    MaxRetries = 1
    MaxCrashes = 1
    MaxFaults = 1
    SlowJobs = TRUE
INVARIANTS
    LossNeedsFault
    WorkersSound
PROPERTY QueueDrains
