CONSTANTS
    Requests = {r1, r2}
    Names = {web}
    MaxRow = 4
    MaxInstall = 3
    MaxId = 4
    MaxBegun = 4
    MaxFaults = 1
    None = None
SPECIFICATION AppSpec
INVARIANTS InstallsExact InstallingIsWorkedOn
PROPERTIES FailureShown
SYMMETRY Symmetry
CHECK_DEADLOCK FALSE
