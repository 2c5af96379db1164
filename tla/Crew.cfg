SPECIFICATION FairSpec
CONSTANTS
    top = top
    sub = sub
    file1 = file1
    file2 = file2
    file3 = file3
    Paths <- Tree
    Root = top
    Directories <- TreeDirectories
    Entries <- TreeEntries
    Members = {m1, m2, m3}
    NULL = NULL
INVARIANTS DoneMeansSearched CrewIsBusy
PROPERTY CrewFinishes
CHECK_DEADLOCK FALSE
