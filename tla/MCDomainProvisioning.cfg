SPECIFICATION Spec
CONSTANTS
    Names <- MCNames
    Anchor <- MCAnchor
    Foreign = {"taken"}
    Proxies = {"NGINX", "CADDY"}
    Targets <- MCTargets
    MaxFaults = 1
    None = None
INVARIANTS ServesOnlyRecorded GroupServed
PROPERTIES OthersUndisturbed
