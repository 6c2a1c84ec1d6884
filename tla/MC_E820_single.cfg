SPECIFICATION Spec
CONSTANTS
    AW = 3
    Capacities = {4}
    VmmStart = 2
    VmmEnd = 4
    Maps <- MC_MapsSingle
    Types <- MC_Types
CHECK_DEADLOCK FALSE
INVARIANT
    SanitizeRejectsOnlyWrappingMaps
