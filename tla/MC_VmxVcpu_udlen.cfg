\* A CPU that leaves VM_EXIT_INSTRUCTION_LEN as it was for a #UD exit.
CONSTANTS
  Addrs <- MC_Addrs
  MaxRip <- MC_MaxRip
  FlagVals <- MC_FlagVals
  Cr0Vals <- MC_Cr0Vals
  Cr3Vals <- MC_Cr3Vals
  Cr4Vals <- MC_Cr4Vals
  EferVals <- MC_EferVals
  PreserveLMA = TRUE
  MsrVals <- MC_MsrVals
  HostMsrVal <- MC_HostMsrVal
  ApicBaseVals <- MC_ApicBaseVals
  IcrVals <- MC_IcrVals
  CpuidLeaves <- MC_CpuidLeaves
  HostCpuid <- MC_HostCpuid
  TscVals <- MC_TscVals
  UdLenReported = FALSE
  HvaInsns <- MC_HvaInsns
  FatalOps <- MC_FatalNone
SPECIFICATION Spec
PROPERTY
  FastSystemCallSemantics
