SPECIFICATION MCFairSpec
CONSTANTS
    h1 = h1  h2 = h2  v1 = v1  e1 = e1  e2 = e2  e3 = e3
    r1 = r1  r2 = r2
    Sites = {"holders", "row"}
    Holders = {h1, h2}
    Values = {v1}
    Entries = {e1}
    ValueOf <- AllUnderOne
    Runs = {r1, r2}
    Asks <- AllAskOne
    MaxTasks = 2
    Faults = {"age", "unreachable", "close"}
    PerValueAtMost = 1
    Keeps = {r2}
    Repeats = 1
    RowAtMost = 2
    LateAtMost = 1
INVARIANT TypeOK
INVARIANT HeadIsAsked
INVARIANT DeletedWasTaken
INVARIANT TakenIsDeletedEverywhere
PROPERTY SilenceEndsTheRow
CHECK_DEADLOCK FALSE
