SPECIFICATION FairSpec
CONSTANTS
    Nodes = {"r", "a", "b", "c", "d", "e", "f", "h", "g"}
    Parent <- MCParent
    Top = "r"
    Gone = {"g"}
    Displaced = {"g"}
    DBParent <- MCDBParent
    Levels = 2
    InDB = {"r", "b", "g"}
    Rank <- MCRank
    Batch = 2
    MaxThreads = 2
    Many = 2
    Fewer = 1
    NodesLimits = {0, 6}
    Repeat = TRUE
    Target = "e"
    Modes = {"crawl", "find"}
    Slots = {1, 2, 3}
    MaxFailures = 1
    MaxOutages = 1
INVARIANTS LimitedWhileCounted NothingLost FoundIsParent
PROPERTIES Ends
