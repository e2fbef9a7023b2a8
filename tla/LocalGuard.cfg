CONSTANTS
    v1 = v1
    v2 = v2
    v3 = v3
    t1 = t1
    t2 = t2
    w1 = w1
    w2 = w2
    hw = hw
    rest = rest
    NoResult = NoResult
    NoWorker = NoWorker
    NoWork = NoWork
    NoRow = NoRow
    Validators = {v1, v2, v3}
    Tasks = {t1, t2}
    Weights = {1, 2000, 2001}
    Latencies = {0, 1}
    Rests = {rest}
    Tees = {0}
    Hardware = {hw}
    Num = 2
    Den = 3
    Workers = {w1, w2}
    SentBundles <- Bundles
    SentResults <- Results
    SentReports <- Reports
    SentBatches <- Batches
    Spellings = {"lower", "upper"}
    MaxU64 = 2
    MaxStored = 1
SYMMETRY WorkerSymmetry
SPECIFICATION EvidenceSpec
INVARIANT
    LocalAcceptedOnce
