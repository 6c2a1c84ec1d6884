\* A guest that writes EFER with a constant, LMA clear, while in long mode.
CONSTANTS
  Addrs <- MC_Addrs
  MaxRip <- MC_MaxRip
  FlagVals <- MC_FlagVals
  Cr0Vals <- MC_Cr0Vals
  Cr3Vals <- MC_Cr3Vals
  Cr4Vals <- MC_Cr4Vals
  EferVals <- MC_EferVals
  PreserveLMA = FALSE
  MsrVals <- MC_MsrVals
  HostMsrVal <- MC_HostMsrVal
  ApicBaseVals <- MC_ApicBaseVals
  IcrVals <- MC_IcrVals
  CpuidLeaves <- MC_CpuidLeaves
  HostCpuid <- MC_HostCpuid
  TscVals <- MC_TscVals
  UdLenReported = TRUE
  HvaInsns <- MC_HvaInsns
  FatalOps <- MC_FatalNone
SPECIFICATION Spec
INVARIANT
  EntryStateValid
