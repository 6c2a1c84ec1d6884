SPECIFICATION Spec
CONSTANTS
    PML4Addr <- MC_PML4Addr
    PDPTAddr <- MC_PDPTAddr
    PDAddr <- MC_PDAddr
    FirmwareMem <- MC_FirmwareMem
    KernelMem <- MC_KernelMem
    FirmwareSize = 8192
    Kernels <- MC_Kernels
    Setups <- MC_SetupsPkey
    Gvas <- MC_Gvas
INVARIANT
    GvaTranslation
