SPECIFICATION Spec
CONSTANTS
    AW = 3
    Capacities = {2, 4}
    VmmStart = 2
    VmmEnd = 4
    Maps <- MC_Maps
    Types <- MC_Types
\* multiboot_init returns to main, or panics: both end this model.
CHECK_DEADLOCK FALSE
INVARIANTS
    TypeOK
    SanitizedMapExact
    MappedAllCorrect
    VmmNeverRam
    UpdatePreservesMap
    SortOrderIrrelevant
