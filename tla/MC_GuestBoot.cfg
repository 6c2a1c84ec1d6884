\* kvm_init, the guest firmware and the kernel's first steps.  die() and
\* the VMM's panic are terminal, so deadlock is not checked.
SPECIFICATION BootSpec
CONSTANTS
    PML4Addr <- MC_PML4Addr
    PDPTAddr <- MC_PDPTAddr
    PDAddr <- MC_PDAddr
    FirmwareMem <- MC_FirmwareMem
    KernelMem <- MC_KernelMem
    FirmwareSize = 8192
    Kernels <- MC_BootKernels
    Setups <- MC_Setups
    Gvas <- MC_Gvas
    Images <- MC_Images
    Params <- MC_Params
    MULTIBOOT_SEARCH <- MC_MULTIBOOT_SEARCH
    MultibootInfoSize <- MC_MultibootInfoSize
    Cmdlines <- MC_Cmdlines
    CMDLINE_SIZE <- MC_CMDLINE_SIZE
CHECK_DEADLOCK FALSE
INVARIANTS
    TypeOK
    EptMapsGuestImages
    GvaWalkFindsGuestPhys
    EntryIsSpecEntry
    LoadedAsSpecSays
    CmdlineAsModule
PROPERTY
    SupportedKernelStarts
