------------------------------ MODULE VmxSetup ------------------------------
(***************************************************************************)
(* Bringing VMX up on the boot CPU, as src/vmm/kvm.c and src/vmm/vmx.c do *)
(* it: the checks of kvm_init, vmx_hardware_setup (setup_vmcs_config      *)
(* negotiating the five control words against the capability MSRs, and    *)
(* the MSR bitmap), create_vcpu (vmx_vcpu_enable: IA32_FEATURE_CONTROL,   *)
(* CR4.VMXE, VMXON, VMPTRLD; vmx_vcpu_setup's control fields), and then   *)
(* the launch protocol of kvm_loop: vmx_vcpu_run's VMLAUNCH/VMRESUME and  *)
(* the dispatch of vmx_handle_exit.                                      *)
(*                                                                         *)
(* What the guest does between exits is VmxVcpu's business; here an exit  *)
(* is only its reason.  Control words are sets of bit indices.            *)
(***************************************************************************)
EXTENDS X86Bits, SequencesExt

CONSTANTS
    Cpus,            \* the processors VMX may be brought up on (records below)
    HandledReasons,  \* exit reasons vmx_exit_handlers has a handler for
    Reasons          \* the exit reasons a VMCS field can hold

\* The five classes of controls, each with its capability MSR.
Classes == {"pin", "proc", "proc2", "exit", "entry"}

(***************************************************************************)
(* A processor: CPUID.1:ECX.VMX; IA32_FEATURE_CONTROL as the BIOS left it; *)
(* CR4.VMXE at boot; IA32_VMX_BASIC (revision, VMCS size, memory type,    *)
(* bit 55: the TRUE capability MSRs exist); per class the allowed-0 (lo)  *)
(* and allowed-1 (hi) settings of IA32_VMX_*_CTLS, and the allowed-0      *)
(* settings of IA32_VMX_TRUE_*_CTLS (trueLo); IA32_VMX_EPT_VPID_CAP.      *)
(***************************************************************************)
CpuRec ==
    [vmx : BOOLEAN, fc : Word, vmxe : BOOLEAN,
     revision : Nat, size : Nat, memtype : 0 .. 15, trueCtls : BOOLEAN,
     ctls : [Classes -> [lo : Word, hi : Word]], trueLo : [Classes -> Word],
     ept : Word]

\* IA32_FEATURE_CONTROL bits
FEATURE_CONTROL_LOCKED == {0}
FEATURE_CONTROL_VMXON_ENABLED_INSIDE_SMX == {1}
FEATURE_CONTROL_VMXON_ENABLED_OUTSIDE_SMX == {2}

\* IA32_VMX_EPT_VPID_CAP bits the code and the EPTP it writes rely on
VMX_EPT_PAGE_WALK_4_BIT == {6}
VMX_EPT_WB_BIT == {14}
VMX_EPT_2MB_PAGE_BIT == {16}

\* The control bits named in setup_vmcs_config (SDM 24.6, 24.7, 24.8).
CPU_BASED_INVLPG_EXITING == {9}
CPU_BASED_CR3_STORE_EXITING == {16}
CPU_BASED_USE_MSR_BITMAPS == {28}
CPU_BASED_ACTIVATE_SECONDARY_CONTROLS == {31}
SECONDARY_EXEC_ENABLE_EPT == {1}
SECONDARY_EXEC_ENABLE_VPID == {5}
SECONDARY_EXEC_UNRESTRICTED_GUEST == {7}

\* min and opt of each class, as setup_vmcs_config builds them:
\* MSR bitmaps, secondary controls, RDTSC and CR3-load exiting; EPT, VPID,
\* unrestricted guest, optionally RDTSCP and INVPCID; save debug controls,
\* host address-space size, save/load EFER, optionally PAT and clear
\* BNDCFGS; nothing for the pin-based controls; load debug controls and
\* EFER, optionally PAT and BNDCFGS.
MinCtl == [pin |-> {}, proc |-> {12, 15, 28, 31}, proc2 |-> {1, 5, 7},
           exit |-> {2, 9, 20, 21}, entry |-> {2, 15}]
OptCtl == [pin |-> {}, proc |-> {}, proc2 |-> {3, 12},
           exit |-> {18, 19, 23}, entry |-> {14, 16}]

\* Faulty variant: the allowed-1 mask of the capability MSR is not applied.
Adjusted_no_mask(min, opt, cap) == (min \cup opt) \cup cap.lo

\* adjust_vmx_controls: the bits the capability MSR allows, then the bits it
\* requires; AdjustFails is the check that panics.
Adjusted(min, opt, cap) == ((min \cup opt) \cap cap.hi) \cup cap.lo
AdjustFails(min, opt, cap) == min \ Adjusted(min, opt, cap) # {}

\* setup_vmcs_config: the five words, with CR3-store and INVLPG exiting
\* cleared from the primary controls after the adjustment.
ControlWords(cpu) ==
    [c \in Classes |->
        IF c = "proc"
        THEN Adjusted(MinCtl.proc, OptCtl.proc, cpu.ctls.proc)
                \ (CPU_BASED_CR3_STORE_EXITING \cup CPU_BASED_INVLPG_EXITING)
        ELSE Adjusted(MinCtl[c], OptCtl[c], cpu.ctls[c])]

\* Every panic of setup_vmcs_config: a class without its minimum, a VMCS
\* larger than a page, or a VMCS memory type other than write-back.
SetupVmcsConfigFails(cpu) ==
    \/ \E c \in Classes : AdjustFails(MinCtl[c], OptCtl[c], cpu.ctls[c])
    \/ cpu.size > 4096
    \/ cpu.memtype # 6

\* vmx_hardware_setup's checks of IA32_VMX_EPT_VPID_CAP.
EptCapsMissing(cpu) ==
    \/ VMX_EPT_2MB_PAGE_BIT \cap cpu.ept = {}
    \/ VMX_EPT_PAGE_WALK_4_BIT \cap cpu.ept = {}

\* Faulty variant: only a BIOS that enabled VMX inside SMX alone counts.
vmx_disabled_by_bios_smx_only(fc) ==
    /\ FEATURE_CONTROL_LOCKED \subseteq fc
    /\ FEATURE_CONTROL_VMXON_ENABLED_OUTSIDE_SMX \cap fc = {}
    /\ FEATURE_CONTROL_VMXON_ENABLED_INSIDE_SMX \subseteq fc

\* vmx_disabled_by_bios.
vmx_disabled_by_bios(fc) ==
    /\ FEATURE_CONTROL_LOCKED \subseteq fc
    /\ \/ /\ FEATURE_CONTROL_VMXON_ENABLED_OUTSIDE_SMX \cap fc = {}
          /\ FEATURE_CONTROL_VMXON_ENABLED_INSIDE_SMX \subseteq fc
       \/ FEATURE_CONTROL_VMXON_ENABLED_OUTSIDE_SMX \cap fc = {}

-----------------------------------------------------------------------------
(* The MSR bitmap: a page of bits, a set of bit positions 0 .. 32767.      *)

\* sizeof(unsigned long)
F == 8

\* MSR ranges of __set_msr_interception: 0 .. 0x1fff and
\* 0xc0000000 .. 0xc0001fff (a 32-bit MSR index as a word).
LowMsr(msr) == msr \subseteq 0 .. 12
HighMsrRange(msr) == msr \ (0 .. 12) = {30, 31}

\* Faulty variant: the byte offset is added to the unsigned long pointer
\* unscaled (msr_bitmap + off).
Quadrant_unscaled(off) == off * F * 8

\* The first bit of the quadrant at byte offset off: tmp = msr_bitmap + off / f.
Quadrant(off) == (off \div F) * F * 8

\* set_bit / clear_bit of bit nr at tmp.
PutBit(bm, pos, on) == IF on THEN bm \cup {pos} ELSE bm \ {pos}

\* Faulty variant: write-low and read-high at each other's offsets, as the
\* early manuals had them.
SetMsrInterception_swapped(bm, msr, read, write) ==
    CASE LowMsr(msr) ->
            PutBit(PutBit(bm, Quadrant(0) + Val(msr), read),
                   Quadrant(1024) + Val(msr), write)
      [] HighMsrRange(msr) ->
            LET n == Val(Trunc(msr, 13))
            IN PutBit(PutBit(bm, Quadrant(2048) + n, read),
                      Quadrant(3072) + n, write)
      [] OTHER -> bm

\* __set_msr_interception(msr_bitmap, msr, read, write)
SetMsrInterception(bm, msr, read, write) ==
    CASE LowMsr(msr) ->
            PutBit(PutBit(bm, Quadrant(0) + Val(msr), read),
                   Quadrant(2048) + Val(msr), write)
      [] HighMsrRange(msr) ->
            LET n == Val(Trunc(msr, 13))
            IN PutBit(PutBit(bm, Quadrant(1024) + n, read),
                      Quadrant(3072) + n, write)
      [] OTHER -> bm

\* MSR_IA32_VMX_BASIC .. MSR_IA32_VMX_VMFUNC (0x480 .. 0x491)
VmxMsrs == {W(1152 + k) : k \in 0 .. 17}

\* The calls of vmx_hardware_setup, in order: writes of APICBASE and of the
\* x2APIC ICR, reads and writes of every VMX MSR, writes of EFER.
InterceptCalls ==
    <<[msr |-> MSR_IA32_APICBASE, read |-> FALSE, write |-> TRUE],
      [msr |-> MSR_X2APIC_ICR, read |-> FALSE, write |-> TRUE]>>
    \o [k \in 1 .. 18 |-> [msr |-> W(1152 + k - 1), read |-> TRUE, write |-> TRUE]]
    \o <<[msr |-> MSR_EFER, read |-> FALSE, write |-> TRUE]>>

\* The bitmap after vmx_hardware_setup, from the zeroed page in .bss.
HardwareSetupBitmap ==
    FoldLeft(LAMBDA bm, call : SetMsrInterception(bm, call.msr, call.read, call.write),
             {}, InterceptCalls)

-----------------------------------------------------------------------------
(* The architecture: what VM entry checks of the control fields (SDM      *)
(* 26.2.1.1), and which MSR accesses exit (SDM 25.1.3, 24.6.9).            *)

\* The allowed-0 settings the processor checks: the TRUE MSR's when
\* IA32_VMX_BASIC bit 55 says it exists (there is none for proc2).
AllowedLo(cpu, c) == IF cpu.trueCtls /\ c # "proc2" THEN cpu.trueLo[c] ELSE cpu.ctls[c].lo

\* The EPTP of vmx_set_tdp asks for write-back and a 4-level walk.
ControlsValid(ctls, cpu) ==
    /\ \A c \in Classes \ {"proc2"} : AllowedLo(cpu, c) \subseteq ctls[c] /\ ctls[c] \subseteq cpu.ctls[c].hi
    /\ CPU_BASED_ACTIVATE_SECONDARY_CONTROLS \subseteq ctls.proc =>
          AllowedLo(cpu, "proc2") \subseteq ctls.proc2 /\ ctls.proc2 \subseteq cpu.ctls.proc2.hi
    /\ SECONDARY_EXEC_ENABLE_EPT \subseteq ctls.proc2 =>
          VMX_EPT_WB_BIT \cup VMX_EPT_PAGE_WALK_4_BIT \subseteq cpu.ept
    /\ SECONDARY_EXEC_UNRESTRICTED_GUEST \subseteq ctls.proc2 =>
          SECONDARY_EXEC_ENABLE_EPT \subseteq ctls.proc2

\* Whether an RDMSR (write = FALSE) or WRMSR of msr exits.
MsrAccessExits(proc, bm, msr, write) ==
    \/ CPU_BASED_USE_MSR_BITMAPS \cap proc = {}
    \/ CASE LowMsr(msr) -> (IF write THEN 2048 ELSE 0) * 8 + Val(msr) \in bm
         [] HighMsrRange(msr) -> (IF write THEN 3072 ELSE 1024) * 8 + Val(Trunc(msr, 13)) \in bm
         [] OTHER -> TRUE

-----------------------------------------------------------------------------

VARIABLES
    cpu,       \* the processor (fixed)
    fc,        \* IA32_FEATURE_CONTROL
    cr4vmxe,   \* host CR4.VMXE
    config,    \* vmcs_config: the five control words
    bitmap,    \* msr_bitmap
    vmcs,      \* the current VMCS: [launch state, control fields, exit reason]
    launched,  \* vmx->launched
    fail,      \* vmx->fail
    phase      \* "boot", "setup", "entry", "exit", "panic", "fault"

vars == <<cpu, fc, cr4vmxe, config, bitmap, vmcs, launched, fail, phase>>

NoCtls == [c \in Classes |-> {}]

Init ==
    /\ cpu \in Cpus
    /\ fc = cpu.fc
    /\ cr4vmxe = cpu.vmxe
    /\ config = NoCtls
    /\ bitmap = {}
    /\ vmcs = [launch |-> "clear", ctls |-> NoCtls, reason |-> 0]
    /\ launched = FALSE
    /\ fail = FALSE
    /\ phase = "boot"

\* kvm_init up to construct_tdp: cpu_has_kvm_support, disabled_by_bios and
\* vmx_hardware_setup; each failed check panics.
kvm_init ==
    /\ phase = "boot"
    /\ IF \/ ~cpu.vmx
          \/ vmx_disabled_by_bios(fc)
          \/ SetupVmcsConfigFails(cpu)
          \/ EptCapsMissing(cpu)
       THEN phase' = "panic" /\ UNCHANGED <<config, bitmap>>
       ELSE /\ config' = ControlWords(cpu)
            /\ bitmap' = HardwareSetupBitmap
            /\ phase' = "setup"
    /\ UNCHANGED <<cpu, fc, cr4vmxe, vmcs, launched, fail>>

\* create_vcpu: vmx_vcpu_enable, then the control fields of vmx_vcpu_setup.
\* Setting the enable bits of a locked IA32_FEATURE_CONTROL, and VMXON
\* without them, raise #GP.  VMXON and VMPTRLD use the revision just read
\* from IA32_VMX_BASIC.  The VMCS is never VMCLEARed, so its launch state
\* and its fields before the first exit are whatever the processor makes of
\* the zeroed region: any launch state, any exit reason.
create_vcpu ==
    /\ phase = "setup"
    /\ LET bits == FEATURE_CONTROL_LOCKED \cup FEATURE_CONTROL_VMXON_ENABLED_OUTSIDE_SMX
           fc1 == IF bits \subseteq fc THEN fc ELSE fc \cup bits
       IN CASE cr4vmxe ->
                 phase' = "panic" /\ UNCHANGED <<fc, cr4vmxe, vmcs>>
            [] ~(bits \subseteq fc) /\ FEATURE_CONTROL_LOCKED \subseteq fc ->
                 phase' = "fault" /\ UNCHANGED <<fc, cr4vmxe, vmcs>>
            [] OTHER ->
                 /\ fc' = fc1
                 /\ cr4vmxe' = TRUE
                 /\ \E ls \in {"clear", "launched"}, r \in Reasons :
                       vmcs' = [launch |-> ls, ctls |-> config, reason |-> r]
                 /\ phase' = "entry"
    /\ UNCHANGED <<cpu, config, bitmap, launched, fail>>

\* vmx_vcpu_run: VMRESUME once launched, VMLAUNCH before.  The instruction
\* fails (VMfailValid) if the launch state is not the one it needs or a
\* control field is invalid; otherwise the guest runs until an exit with a
\* reason the guest's instructions give.  setbe records the failure;
\* launched is set either way.
vmx_vcpu_run ==
    /\ phase = "entry"
    /\ LET ok == /\ vmcs.launch = IF launched THEN "launched" ELSE "clear"
                 /\ ControlsValid(vmcs.ctls, cpu)
       IN IF ok
          THEN /\ \E r \in HandledReasons : vmcs' = [vmcs EXCEPT !.launch = "launched", !.reason = r]
               /\ fail' = FALSE
          ELSE fail' = TRUE /\ UNCHANGED vmcs
    /\ launched' = TRUE
    /\ phase' = "exit"
    /\ UNCHANGED <<cpu, fc, cr4vmxe, config, bitmap>>

\* vmx_handle_exit: dispatch on VM_EXIT_REASON, whatever vmx->fail says.  A
\* handler run on a real exit returns to kvm_loop (VmxVcpu checks what it
\* does); run on the fields of no exit, it may panic or return.  A reason
\* without a handler panics.
vmx_handle_exit ==
    /\ phase = "exit"
    /\ IF vmcs.reason \in HandledReasons
       THEN IF fail THEN phase' \in {"entry", "panic"} ELSE phase' = "entry"
       ELSE phase' = "panic"
    /\ UNCHANGED <<cpu, fc, cr4vmxe, config, bitmap, vmcs, launched, fail>>

Next == kvm_init \/ create_vcpu \/ vmx_vcpu_run \/ vmx_handle_exit

Spec == Init /\ [][Next]_vars

-----------------------------------------------------------------------------
(* Properties.                                                             *)

\* MSRs whose interception the properties look at: the intercepted ones,
\* the SYSCALL MSRs the guest owns, both ends of the VMX family and the
\* MSR after it, and one outside both bitmap ranges (0x40000000).
ProbeMsrs ==
    {MSR_IA32_APICBASE, MSR_X2APIC_ICR, MSR_EFER, MSR_STAR, MSR_LSTAR,
     MSR_KERNEL_GS_BASE, W(1152), W(1169), W(1170), {30}}

TypeOK ==
    /\ cpu \in CpuRec
    /\ fc \in Word /\ cr4vmxe \in BOOLEAN
    /\ config \in [Classes -> SUBSET (0 .. 31)]
    /\ bitmap \subseteq 0 .. 32767
    /\ vmcs \in [launch : {"clear", "launched"}, ctls : [Classes -> SUBSET (0 .. 31)],
                 reason : Reasons \cup {0}]
    /\ launched \in BOOLEAN /\ fail \in BOOLEAN
    /\ phase \in {"boot", "setup", "entry", "exit", "panic", "fault"}

\* Whatever IA32_FEATURE_CONTROL the BIOS left, the checks of kvm_init and
\* vmx_vcpu_enable never let the host take a #GP: no write to a locked
\* IA32_FEATURE_CONTROL, and VMXON only once it is locked with VMXON
\* enabled outside SMX.
HostNeverFaults == phase # "fault"

\* The control words setup_vmcs_config negotiates, as vmx_vcpu_setup puts
\* them in the VMCS, pass every check VM entry makes of the control fields
\* on every processor kvm_init accepts.
ControlsAllowed ==
    phase \in {"entry", "exit"} => ControlsValid(vmcs.ctls, cpu)

\* The MSR bitmap vmx_hardware_setup builds, with the controls of the VMCS,
\* makes exactly these accesses exit (the spec's intercept list): writes of
\* APICBASE, of the x2APIC ICR and of EFER, every access to a VMX MSR, and
\* every access outside the two bitmap ranges.  The other MSRs, among them
\* the SYSCALL MSRs VmxVcpu lets the guest write natively, pass through.
MsrBitmapPolicy ==
    phase \in {"entry", "exit"} =>
        \A msr \in ProbeMsrs, write \in BOOLEAN :
            MsrAccessExits(vmcs.ctls.proc, bitmap, msr, write) <=>
                \/ write /\ msr \in {MSR_IA32_APICBASE, MSR_X2APIC_ICR, MSR_EFER}
                \/ msr \in VmxMsrs
                \/ ~(LowMsr(msr) \/ HighMsrRange(msr))

\* The spec (4.C5, 7): a VMLAUNCH or VMRESUME that fails sets vcpu.fail,
\* and the caller then panics; no exit handler runs on the fields of an
\* exit that did not happen, and the guest is not entered again.
FailedEntryPanics ==
    [][phase = "exit" /\ fail => phase' = "panic"]_vars

=============================================================================
