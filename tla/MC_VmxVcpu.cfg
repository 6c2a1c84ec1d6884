\* Two guests, chosen at boot: one that uses only supported operations and
\* one that may also perform every unsupported operation (each of which
\* stops the VMM in panic, the end of the system).  EFER is written
\* read-modify-write and #UD exits report the instruction length.
CHECK_DEADLOCK FALSE
CONSTANTS
  Addrs <- MC_Addrs
  MaxRip <- MC_MaxRip
  FlagVals <- MC_FlagVals
  Cr0Vals <- MC_Cr0Vals
  Cr3Vals <- MC_Cr3Vals
  Cr4Vals <- MC_Cr4Vals
  EferVals <- MC_EferVals
  PreserveLMA = TRUE
  MsrVals <- MC_MsrVals
  HostMsrVal <- MC_HostMsrVal
  ApicBaseVals <- MC_ApicBaseValsFatal
  IcrVals <- MC_IcrVals
  CpuidLeaves <- MC_CpuidLeaves
  HostCpuid <- MC_HostCpuid
  TscVals <- MC_TscVals
  UdLenReported = TRUE
  HvaInsns <- MC_HvaInsns
  FatalOps <- MC_FatalAll
SPECIFICATION Spec
INVARIANTS
  TypeOK
  EntryStateValid
  MsrIsolation
PROPERTIES
  FastSystemCallSemantics
  GuestProgress
  ArchRefinement
