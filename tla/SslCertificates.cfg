CONSTANTS
    Group = {root, www}
    Primary = root
    Isolated = {api}
    Tasks = {t1, t2}
    MaxVersion = 4
    MaxRowId = 4
    MaxWaits = 1
    MaxBegun = 2
    MaxFaults = 1
    None = None
SPECIFICATION FairSpec
INVARIANTS GroupInStep RowsFollowServer SitesServed
PROPERTIES RenewalEnds
CHECK_DEADLOCK FALSE
