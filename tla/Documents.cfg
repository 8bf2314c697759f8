SPECIFICATION DocumentsSpec
CONSTANTS
    j1 = j1
    j2 = j2
    r1 = r1
    v1 = v1
    v2 = v2
    a1 = a1
    a2 = a2
    None = None
    NotAPdf = NotAPdf
    NoJob = NoJob
    DocJobs = {j1, j2}
    Readers = {r1}
    Versions = {v1, v2}
    MaxPages = 2
    PagesOf <- TwoLengths
    ApiPods = {a1, a2}
    KeyJobs = {j1, j2}
    Settings <- Replanned
    PageCounts <- SomePageCounts
    PageSize = 4
    MaxBlocks = 4
    MaxLength = 6
    Texts <- AllTexts
INVARIANTS
    ManifestBacked
    DoneIsReadable
    PlanPartitions
    DocumentHasEveryPage
    PagesFit
    PagesAreSlices
    ParagraphsKept
PROPERTIES
    ReaderSeesAll
CHECK_DEADLOCK FALSE
