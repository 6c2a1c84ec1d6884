------------------------------- MODULE MC_Acpi -------------------------------
EXTENDS Acpi, MC_AcpiTables
============================================================================
