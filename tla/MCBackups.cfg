CONSTANTS
    Tasks = {t1, t2}
    Kinds = {"VOLUME", "FULL"}
    Paths = {p1, p2}
    Buckets = {b1, b2}
    Bytes = {20000}
    MaxRow = 2
    MaxBegun = 3
    MaxEdits = 1
    MaxFaults = 1
    None = None
SPECIFICATION Spec
INVARIANTS CompletedRestorable RunningIsWorkedOn SurvivesServer RestoresOwn
SYMMETRY Symmetry
CHECK_DEADLOCK FALSE
