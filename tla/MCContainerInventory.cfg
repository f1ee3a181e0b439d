CONSTANTS
    Requests = {r1, r2}
    Names = {web}
    MaxRow = 4
    MaxInstall = 1
    MaxId = 4
    MaxBegun = 3
    MaxFaults = 1
    None = None
SPECIFICATION Spec
INVARIANTS InventoryExact StartingIsDeploying SurvivesDocker
PROPERTIES SourceKept
SYMMETRY Symmetry
CHECK_DEADLOCK FALSE
