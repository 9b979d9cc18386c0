SPECIFICATION MCSpec
CONSTANTS
    h1 = h1  h2 = h2  v1 = v1  e1 = e1  e2 = e2  e3 = e3
    r1 = r1  r2 = r2
    Sites = {"all"}
    Holders = {h1}
    Values = {v1}
    Entries = {e1, e2}
    ValueOf <- AllUnderOne
    Runs = {r1}
    Asks <- AllAskOne
    MaxTasks = 1
    Faults = {"restart", "expiry"}
    PerValueAtMost = 2
    Keeps = {}
    Repeats = 1
    RowAtMost = 1
    LateAtMost = 1
SYMMETRY EntrySymmetry
INVARIANT AgainOnlyWhileRunning
INVARIANT OneHandOutIsWhole
CHECK_DEADLOCK FALSE
