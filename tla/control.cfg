SPECIFICATION FairSpec
CONSTANTS
    c1 = c1
    c2 = c2
    r1 = r1
    r2 = r2
    None = None
    Launcher = c1
    Controllers <- MCControllers
    Resources <- MCResources
    Preset <- MCPreset
    Capacity = 2
    MaxOps = 2
    MayShutdown = TRUE
INVARIANTS NoLostWakeup RegisteredBeforeUse
PROPERTIES CommandsHandled ShutdownStops ComesToRest CallsReturn
