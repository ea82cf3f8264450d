SPECIFICATION FairSpec
CONSTANTS
    Trees <- MCTrees
    Radix = 1000
    PageSize = 8
    PagesBottom = 88
    Stack = 80
    KernelTables = 2
    Images <- MCImages
    Plain <- MCPlain
    Usual <- MCUsual
    Names = {"initd", "uwu"}
    MaxChain = 3
    EntrySize = 1
    Fat12Limit = 3
    Fat16Limit = 9
    Eoc = 99
CHECK_DEADLOCK FALSE
INVARIANTS
    AnswersRight
    PointersMapped
    HeapInsideRam
    EveryHartStarted
    ReadsWholeFile
    FindsFile
    OverrunBelowCluster
    CopiesFromImage
PROPERTY
    BootEnds
