\* cpu_init on every processor of MC_Processors, trap_init, ACPI and APIC bring-up on every firmware layout of MC_Firmwares and boot
\* CPU of MC_Hardware, then VMX bring-up on every processor of MC_Cpus.  A
\* panic or a host fault ends the system, so deadlock is not checked.
SPECIFICATION BootSpec
CONSTANTS
    Cpus <- MC_Cpus
    HandledReasons <- MC_HandledReasons
    Reasons <- MC_Reasons
    Firmwares <- MC_Firmwares
    Hardware <- MC_Hardware
    NR_CPUS <- MC_NR_CPUS
    MAX_LOCAL_APIC <- MC_MAX_LOCAL_APIC
    ACPI_MAX_TABLES <- MC_ACPI_MAX_TABLES
    APIC_DEFAULT_PHYS_BASE <- MC_ApicDefault
    BAD_APICID = BAD_APICID
    NULL = NULL
    Processors <- MC_Processors
    ModelIdLen <- MC_ModelIdLen
    PitKhz <- MC_PitKhz
    HandlerAddr <- MC_HandlerAddr
    EntryArea <- MC_EntryArea
    CpuStack <- MC_CpuStack
    IdtAddr <- MC_IdtAddr
    InitialGs <- MC_InitialGs
    BiosPics <- MC_BiosPics
CHECK_DEADLOCK FALSE
INVARIANTS
    TypeOK
    HostNeverFaults
    ControlsAllowed
    MsrBitmapPolicy
    AcpiTypeOK
    RootTablesLoaded
    CpuMapMatchesMadt
    ApicHaltJustified
    CapabilitiesFromReportedLeaves
    CpuIdentified
    ModelNameTrimmed
    TscFromLeaf15
PROPERTIES
    IdtConsistent
    PicsProgrammed
