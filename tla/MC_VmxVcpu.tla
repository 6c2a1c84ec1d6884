---------------------------- MODULE MC_VmxVcpu ----------------------------
(***************************************************************************)
(* Model values for VmxVcpu: a guest that boots from real mode into long   *)
(* mode the way a 64-bit kernel does (protected mode, CR4.PAE, EFER.LME,   *)
(* CR0.PG with or without WP/NE so that both the exiting and the native    *)
(* MOV-to-CR0 paths happen), sets up its SYSCALL MSRs natively and uses    *)
(* SYSCALL, SYSRET, CPUID, RDTSC and the x2APIC ICR.                       *)
(***************************************************************************)
EXTENDS VmxVcpu

\* Code address 0; the guest fetches below 4 (LSTAR is 2).
MC_Addrs == {W(0)}
MC_MaxRip == 4
\* IF set; SYSCALL's SFMASK clears it, so both values of IF occur.
MC_FlagVals == {X86_RFLAGS_FIXED \cup X86_RFLAGS_IF}

MC_Cr0Vals ==
  {X86_CR0_PE \cup X86_CR0_ET,                               \* exits
   X86_CR0_PE \cup X86_CR0_ET \cup X86_CR0_PG,               \* exits
   X86_CR0_PE \cup X86_CR0_ET \cup KVM_GUEST_CR0_ALWAYS_ON,   \* native
   X86_CR0_PE \cup X86_CR0_ET \cup KVM_GUEST_CR0_ALWAYS_ON
     \cup X86_CR0_PG}                                        \* native
MC_Cr3Vals == {{}}
MC_Cr4Vals == {X86_CR4_PAE}
MC_EferVals == {{}, EFER_LME \cup EFER_SCE}

\* Linux's STAR: __USER32_CS (0x23) << 48 | __KERNEL_CS (0x10) << 32.
LinuxStar == {36, 48, 49, 53}
MC_MsrVals == [m \in SavedMsrs |->
                 CASE m = "LSTAR" -> {W(2)}
                   [] m = "STAR" -> {LinuxStar}
                   [] m = "SYSCALL_MASK" -> {X86_RFLAGS_IF}
                   [] m = "KERNEL_GS_BASE" -> {}]
\* The VMM's own values differ from every guest value.
MC_HostMsrVal == [m \in SavedMsrs |-> {62}]

MC_ApicBaseVals == {MSR_IA32_APICBASE_ENABLE \cup MSR_IA32_APICBASE_X2APIC_ENABLE}
\* INIT stands for both filtered modes (INIT, STARTUP), NMI for the rest.
MC_IcrVals == {APIC_DM_INIT, APIC_DM_NMI}
MC_CpuidLeaves == {1, 1073741824}
MC_HostCpuid == [l \in MC_CpuidLeaves |->
                   [eax |-> {0}, ebx |-> {}, ecx |-> {0, 5}, edx |-> {}]]
MC_TscVals == {{0, 32}}

MC_FatalNone == {}
MC_FatalAll == {"PF", "EPT", "RDMSR", "WRMSR", "TRIPLE", "UD"}
MC_ApicBaseValsFatal == MC_ApicBaseVals \cup {{}}

\* gva2hva returns the guest-physical address of the RIP untranslated
\* (vmx.c:1254; the ept_gva_pointer run): the host bytes there are the
\* instruction only where host and guest memory coincide.  Elsewhere they
\* are taken to be no SYSCALL or SYSRET encoding, so they decode as OTHER.
MC_HvaInsns == [i \in UdInsns |-> {i, "OTHER"}]
=============================================================================
