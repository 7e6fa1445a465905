SPECIFICATION Spec
CONSTANTS
    Transfers = {t1, t2}
    Acceptable = {t1}
    Chunks = 1
    ProgressEvery = 2
    MaxOutput = 0
    MaxKeys = 0
CHECK_DEADLOCK FALSE
INVARIANTS
    UploadKeepsInput
