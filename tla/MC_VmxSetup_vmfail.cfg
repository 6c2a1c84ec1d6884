\* Bring-up on every processor of MC_Cpus; panic and a host fault end the
\* system, so deadlock is not checked.
SPECIFICATION Spec
CONSTANTS
    Cpus <- MC_Cpus
    HandledReasons <- MC_HandledReasons
    Reasons <- MC_Reasons
CHECK_DEADLOCK FALSE
PROPERTY
    FailedEntryPanics
