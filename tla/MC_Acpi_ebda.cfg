\* The RSDP search on every firmware layout of MC_Firmwares, among them one
\* whose only RSDP is in the first KiB of the EBDA.
SPECIFICATION Spec
CONSTANTS
    Firmwares <- MC_Firmwares
    Hardware <- MC_Hardware
    NR_CPUS <- MC_NR_CPUS
    MAX_LOCAL_APIC <- MC_MAX_LOCAL_APIC
    ACPI_MAX_TABLES <- MC_ACPI_MAX_TABLES
    APIC_DEFAULT_PHYS_BASE <- MC_ApicDefault
    BAD_APICID = BAD_APICID
    NULL = NULL
CHECK_DEADLOCK FALSE
INVARIANT
    RsdpFoundWhereSpecPlacesIt
