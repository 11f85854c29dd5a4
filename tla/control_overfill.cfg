SPECIFICATION Spec
CONSTANTS
    c1 = c1
    c2 = c2
    r1 = r1
    r2 = r2
    None = None
    Launcher = c1
    Controllers <- MCControllers
    Resources <- MCResources
    Preset <- MCPreset
    Capacity = 1
    MaxOps = 2
    MayShutdown = FALSE
INVARIANT FullWakerRecovers
