SPECIFICATION Spec
CONSTANTS
    Transfers = {t1, t2}
    Acceptable = {t1}
    Chunks = 2
    ProgressEvery = 2
    MaxOutput = 1
    MaxKeys = 1
CHECK_DEADLOCK FALSE
INVARIANTS TypeOK UpInStep EndMeansWhole NoncesDistinct DownInStep
