SPECIFICATION PodsSpec
CONSTANTS
    r1 = r1
    r2 = r2
    small = small
    large = large
    t1 = t1
    t2 = t2
    h1 = h1
    h2 = h2
    h3 = h3
    proc1 = proc1
    proc2 = proc2
    Requests = {r1, r2}
    Urls = {small, large}
    Length <- TwoLengths
    MaxPieces = 1
    NoUrl = NoUrl
    MaxSubmitFaults = 1
    PoolThreads = {t1, t2}
    Procs = {proc1, proc2}
    Hashes = {h1, h2, h3}
    SizeOf <- OneEach
    CacheBytes = 2
    MaxReceived = 4
    MaxCrashes = 1
SYMMETRY PodSymmetry
INVARIANTS
    TempFileGone
    DownloadCapped
    JobHasSource
    
    ReadyMeansDataUp
    
    CachedIsWhole
    
    FetchedIsThere
PROPERTIES
    EvictsLeastRecent
    PrunedFits
CHECK_DEADLOCK FALSE
