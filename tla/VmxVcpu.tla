------------------------------ MODULE VmxVcpu ------------------------------
(***************************************************************************)
(* One virtual CPU of the VMM (src/vmm/vmx.c, src/vmm/kvm.c): the state    *)
(* vmx_vcpu_setup and run_vcpu leave in the VMCS, the world switch of      *)
(* vmx_vcpu_run with its MSR autoload areas, the guest as an environment   *)
(* that runs natively or causes VM exits, and the exit handlers that       *)
(* kvm_loop dispatches through vmx_handle_exit.                            *)
(*                                                                         *)
(* phase is where kvm_loop is: "entry" (about to call vmx_vcpu_run),      *)
(* "guest" (in non-root operation), "exit" (back at vmx_return, about to  *)
(* call vmx_handle_exit) or "panic" (the VMM has stopped).                 *)
(***************************************************************************)
EXTENDS X86Bits, FiniteSets

CONSTANTS
  Addrs,        \* guest code addresses below 2^16 a native jump may reach
  MaxRip,       \* bound on the guest RIP: no instruction is fetched beyond it
  FlagVals,     \* RFLAGS values the guest may load with POPF or put in R11
  Cr0Vals,      \* values the guest may move to CR0
  Cr3Vals,      \* values the guest may move to CR3
  Cr4Vals,      \* values the guest may move to CR4
  EferVals,     \* EFER values (bits other than LMA) the guest may WRMSR
  PreserveLMA,  \* TRUE: the guest writes EFER by read-modify-write
  MsrVals,      \* [SavedMsrs -> SUBSET Word]: values of native WRMSRs
  HostMsrVal,   \* [SavedMsrs -> Word]: the VMM's own values of those MSRs
  ApicBaseVals, \* APICBASE values the guest may write
  IcrVals,      \* x2APIC ICR values the guest may write
  CpuidLeaves,  \* CPUID leaves the guest may query
  HostCpuid,    \* [CpuidLeaves -> [CpuidRegs -> Word]]: native_cpuid
  TscVals,      \* values rdtsc() may return
  UdLenReported,\* TRUE: the CPU reports the length of a #UD-faulting
                \* instruction in VM_EXIT_INSTRUCTION_LEN (the SDM leaves
                \* the field undefined for exceptions)
  HvaInsns,     \* [UdInsns -> SUBSET UdInsns]: what the bytes at
                \* gva2hva(rip) decode as, for a #UD on each instruction
  FatalOps      \* unsupported operations the guest may perform

(* The registers of vcpu->regs that the handlers read or write.           *)
Regs == {"RAX", "RBX", "RCX", "RDX", "R11"}
CpuidRegs == {"eax", "ebx", "ecx", "edx"}

(* MSR_SAVE_LIST: the MSRs switched by the VM-exit/VM-entry autoload.     *)
SavedMsrs == {"KERNEL_GS_BASE", "SYSCALL_MASK", "LSTAR", "STAR"}

(* Exit reasons (asm/vmx.h) and the entry-failure reason with bit 31.     *)
EXIT_REASON_EXCEPTION_NMI == 0
EXIT_REASON_TRIPLE_FAULT == 2
EXIT_REASON_CPUID == 10
EXIT_REASON_RDTSC == 16
EXIT_REASON_CR_ACCESS == 28
EXIT_REASON_MSR_READ == 31
EXIT_REASON_MSR_WRITE == 32
EXIT_REASON_INVALID_STATE == 33
EXIT_REASON_EPT_VIOLATION == 48
\* vmx_exit_handlers[]: the reasons that have a handler.
HandledReasons == {EXIT_REASON_EXCEPTION_NMI, EXIT_REASON_CR_ACCESS,
                   EXIT_REASON_CPUID, EXIT_REASON_MSR_READ,
                   EXIT_REASON_MSR_WRITE, EXIT_REASON_RDTSC,
                   EXIT_REASON_EPT_VIOLATION}

UD_VECTOR == 6
PF_VECTOR == 14
INTR_TYPE_HARD_EXCEPTION == 3
VMX_AR_TYPE_BUSY_64_TSS == 11

KVM_GUEST_CR0_ALWAYS_ON == X86_CR0_WP \cup X86_CR0_NE
KVM_GUEST_CR4_ALWAYS_ON == X86_CR4_VMXE

(* The instructions a #UD exit may have faulted on, with their length,   *)
(* and what handle_exception_nmi decodes from the bytes it reads.         *)
UdInsns == {"SYSCALL", "SYSRET", "OTHER"}
InsnLen == [i \in UdInsns |-> CASE i = "SYSCALL" -> 2    \* 0f 05
                                [] i = "SYSRET"  -> 3    \* 48 0f 07
                                [] i = "OTHER"   -> 2]   \* e.g. ud2

(* A segment register: selector, DPL, type and the L bit.                  *)
Seg == [sel : Word, dpl : 0 .. 3, type : 0 .. 15, l : BOOLEAN]

(* The VM-exit information fields vmx_handle_exit and the handlers read.  *)
Exit == [reason : 0 .. 63, entryFail : BOOLEAN,
         cr : 0 .. 15, reg : Regs,           \* EXIT_QUALIFICATION of MOV CR
         vector : 0 .. 31, type : 0 .. 7,    \* VM_EXIT_INTR_INFO
         insn : UdInsns,                     \* (ghost) the faulting instruction
         fetched : UdInsns,                  \* the bytes at gva2hva(rip)
         len : 0 .. 15]                      \* VM_EXIT_INSTRUCTION_LEN
NoExit == [reason |-> 0, entryFail |-> FALSE, cr |-> 0, reg |-> "RAX",
           vector |-> 0, type |-> 0, insn |-> "OTHER", fetched |-> "OTHER",
           len |-> 0]

VARIABLES
  phase,     \* where kvm_loop is
  regs,      \* vcpu->regs: guest GPRs saved by vmx_vcpu_run
  launched,  \* vmx->launched
  fail,      \* vmx->fail
  vmcs,      \* guest-state area and the IA-32e mode entry control
  exit,      \* VM-exit information fields of the last exit
  msrGuest,  \* vmx->msr_autoload.guest[].value
  msrCpu,    \* the physical values of the MSRs of MSR_SAVE_LIST
  apic,      \* the physical local APIC: base MSR and IPIs sent through ICR
  guestMsr,  \* (ghost) the MSR values the guest has architecturally written
  misbehaves \* (ghost) TRUE for a guest that performs the operations of
             \* FatalOps and disables its APIC; chosen once, at boot

vars == <<phase, regs, launched, fail, vmcs, exit, msrGuest, msrCpu,
          apic, guestMsr, misbehaves>>

(***************************************************************************)
(* VMCS helpers of vmx.c.  v is the guest-state area.                      *)
(***************************************************************************)
\* enter_lmode: set the IA-32e entry control and EFER.LMA, fix up TR.
enter_lmode(v) ==
  [v EXCEPT !.ia32e = TRUE, !.efer = @ \cup EFER_LMA,
            !.trType = VMX_AR_TYPE_BUSY_64_TSS]

\* Faulty variant: exit_lmode that leaves EFER.LMA set.
exit_lmode_keeps_lma(v) == [v EXCEPT !.ia32e = FALSE]

\* exit_lmode: clear the IA-32e entry control and EFER.LMA.
exit_lmode(v) == [v EXCEPT !.ia32e = FALSE, !.efer = @ \ EFER_LMA]

\* vmx_set_cr0: switch long mode on a PG transition while EFER.LME is set,
\* then write CR0 with WP and NE forced on.
vmx_set_cr0(v, cr0) ==
  LET pgOld == X86_CR0_PG \subseteq v.cr0
      pgNew == X86_CR0_PG \subseteq cr0
      lm    == IF EFER_LME \subseteq v.efer /\ ~pgOld /\ pgNew
                 THEN enter_lmode(v)
               ELSE IF EFER_LME \subseteq v.efer /\ pgOld /\ ~pgNew
                 THEN exit_lmode(v)
               ELSE v
  IN  [lm EXCEPT !.cr0 = cr0 \cup KVM_GUEST_CR0_ALWAYS_ON]

\* Faulty variant: vmx_set_cr4 without KVM_GUEST_CR4_ALWAYS_ON.
vmx_set_cr4_drops_vmxe(v, cr4) == [v EXCEPT !.cr4 = cr4]

vmx_set_cr3(v, cr3) == [v EXCEPT !.cr3 = cr3]
vmx_set_cr4(v, cr4) == [v EXCEPT !.cr4 = cr4 \cup KVM_GUEST_CR4_ALWAYS_ON]

\* vmx_skip_emulated_instruction: RIP += VM_EXIT_INSTRUCTION_LEN (the
\* clearing of STI / MOV-SS blocking is left out: no guest sets it).
vmx_skip_emulated_instruction(v) ==
  [v EXCEPT !.rip = W(Val(@) + exit.len)]

(* CR0_GUEST_HOST_MASK / CR0_READ_SHADOW and the CR4 pair, written once by *)
(* vmx_vcpu_setup.  A guest MOV to CRn exits iff it would change a bit     *)
(* that is set in the mask to a value other than the shadow's.             *)
Cr0Mask == KVM_GUEST_CR0_ALWAYS_ON
Cr0Shadow == KVM_GUEST_CR0_ALWAYS_ON
Cr4Mask == KVM_GUEST_CR4_ALWAYS_ON
Cr4Shadow == KVM_GUEST_CR4_ALWAYS_ON
MovCrExits(val, mask, shadow) == val \cap mask /= shadow \cap mask

(***************************************************************************)
(* Checks of the guest-state area that VM entry performs (SDM 26.3.1) and  *)
(* that the VMM's handlers can affect.  A failing check makes VMLAUNCH or  *)
(* VMRESUME exit with reason 33 and bit 31 set.                            *)
(***************************************************************************)
VmEntryChecks(v) ==
  LET lma == EFER_LMA \subseteq v.efer
      lme == EFER_LME \subseteq v.efer
      pg  == X86_CR0_PG \subseteq v.cr0
  IN  /\ v.ia32e = lma                              \* "load IA32_EFER"
      /\ pg => lma = lme
      /\ pg => X86_CR0_PE \subseteq v.cr0
      /\ X86_CR0_NE \subseteq v.cr0                 \* CR0 fixed-1 bits
      /\ X86_CR4_VMXE \subseteq v.cr4               \* CR4 fixed-1 bits
      /\ v.ia32e => pg /\ X86_CR4_PAE \subseteq v.cr4
      /\ ~v.ia32e => ~v.cs.l
      /\ v.trType \in IF v.ia32e THEN {11} ELSE {3, 11}
      /\ v.cs.type = 11 => v.cs.dpl = v.ss.dpl
      /\ X86_RFLAGS_FIXED \subseteq v.rflags

(***************************************************************************)
(* Initial state: vmx_vcpu_setup, set_tdp and run_vcpu(vcpu,               *)
(* FIRMWARE_START).  GUEST_IA32_EFER is read by vmx_set_cr0 before any     *)
(* write; the VMCS region is a zeroed per-CPU object, so it reads 0.       *)
(***************************************************************************)
vmx_vcpu_setup ==
  LET v0 == [cr0 |-> {}, cr3 |-> {}, cr4 |-> {}, efer |-> {},
             ia32e |-> FALSE, trType |-> 11, rip |-> W(4096),
             rflags |-> X86_RFLAGS_FIXED,
             cs |-> [sel |-> {}, dpl |-> 0, type |-> 11, l |-> FALSE],
             ss |-> [sel |-> {}, dpl |-> 0, type |-> 3, l |-> FALSE]]
  IN  vmx_set_cr4(vmx_set_cr3(vmx_set_cr0(v0, X86_CR0_NW \cup X86_CR0_CD
                                                \cup X86_CR0_ET), {}), {})

Init ==
  /\ phase = "entry"
  /\ regs = [r \in Regs |-> {}]
  /\ launched = FALSE
  /\ fail = FALSE
  /\ vmcs = vmx_vcpu_setup
  /\ exit = NoExit
  /\ msrGuest = [m \in SavedMsrs |-> {}]
  /\ msrCpu = HostMsrVal
  /\ apic = [base |-> MSR_IA32_APICBASE_ENABLE, ipis |-> {}]
  /\ guestMsr = [m \in SavedMsrs |-> {}]
  /\ misbehaves \in IF FatalOps = {} THEN {FALSE} ELSE BOOLEAN


(***************************************************************************)
(* The world switch.                                                       *)
(***************************************************************************)
\* vmx_vcpu_run: load vcpu->regs and VMLAUNCH (launched = 0) or VMRESUME.
\* Entry loads the guest MSRs from msr_autoload.guest; if the guest state
\* fails the checks, the CPU exits at once with reason 33 | bit 31.  The
\* code then sets launched = 1 whatever happened.
vmx_vcpu_run ==
  /\ phase = "entry"
  /\ IF VmEntryChecks(vmcs)
       THEN /\ phase' = "guest"
            /\ msrCpu' = msrGuest
            /\ UNCHANGED <<exit, launched, fail>>
       ELSE /\ phase' = "exit"
            /\ exit' = [NoExit EXCEPT !.reason = EXIT_REASON_INVALID_STATE,
                                      !.entryFail = TRUE]
            /\ launched' = TRUE
            /\ fail' = FALSE
            /\ UNCHANGED msrCpu
  /\ UNCHANGED <<regs, vmcs, msrGuest, apic, guestMsr>>

\* Faulty variant: a VM exit whose MSR-store area is not written
\* (VM_EXIT_MSR_STORE_COUNT left 0).
VmExit_no_store(e, c, v) ==
  /\ phase' = "exit"
  /\ exit' = e
  /\ regs' = c
  /\ msrCpu' = HostMsrVal
  /\ vmcs' = [v EXCEPT !.ia32e = EFER_LMA \subseteq v.efer]
  /\ launched' = TRUE
  /\ fail' = FALSE
  /\ UNCHANGED msrGuest

\* A VM exit, back at vmx_return: the guest GPRs c are saved into
\* vcpu->regs, the CPU stores the guest MSRs into msr_autoload.guest and
\* loads msr_autoload.host, stores EFER.LMA into the IA-32e mode entry
\* control and saves EFER; setbe leaves fail = 0 and launched becomes 1.
VmExit(e, c, v) ==
  /\ phase' = "exit"
  /\ exit' = e
  /\ regs' = c
  /\ msrGuest' = msrCpu
  /\ msrCpu' = HostMsrVal
  /\ vmcs' = [v EXCEPT !.ia32e = EFER_LMA \subseteq v.efer]
  /\ launched' = TRUE
  /\ fail' = FALSE

(***************************************************************************)
(* The guest.  It runs natively, changing its RIP, RFLAGS, CR0 and the     *)
(* passed-through MSRs, until an instruction exits.  Guards keep it to     *)
(* what the architecture lets an operating system do without faulting.    *)
(***************************************************************************)
Fetch == phase = "guest" /\ Val(vmcs.rip) < MaxRip

\* The GPRs at an exiting instruction: its operands, and zero in the
\* registers the guest does not use (the guest clears its scratch
\* registers; the values the VMM wrote into them are dead by then).
Scratch == [r \in Regs |-> {}]
Lma == EFER_LMA \subseteq vmcs.efer

GuestJump(a) ==
  /\ phase = "guest"
  /\ vmcs' = [vmcs EXCEPT !.rip = a]
  /\ UNCHANGED <<phase, regs, launched, fail, exit, msrGuest, msrCpu, apic,
                 guestMsr>>

GuestPopf(f) ==
  /\ Fetch
  /\ vmcs' = [vmcs EXCEPT !.rflags = f]
  /\ UNCHANGED <<phase, regs, launched, fail, exit, msrGuest, msrCpu, apic,
                 guestMsr>>

\* A far jump to a 64-bit (L = 1) or a 16/32-bit code segment of the same
\* privilege; 64-bit code exists only in IA-32e mode.
GuestLjmp(l) ==
  /\ Fetch
  /\ l => Lma
  /\ vmcs' = [vmcs EXCEPT !.cs.l = l]
  /\ UNCHANGED <<phase, regs, launched, fail, exit, msrGuest, msrCpu, apic,
                 guestMsr>>

\* WRMSR of an MSR the bitmap passes through: the CPU's copy changes.
GuestWrmsrNative(m, val) ==
  /\ Fetch
  /\ msrCpu' = [msrCpu EXCEPT ![m] = val]
  /\ guestMsr' = [guestMsr EXCEPT ![m] = val]
  /\ UNCHANGED <<phase, regs, launched, fail, vmcs, exit, msrGuest, apic>>

\* MOV to CRn that does not #GP.  Clearing PG is done outside 64-bit code.
CrLegal(cr, val) ==
  CASE cr = 0 -> /\ X86_CR0_PG \subseteq val => X86_CR0_PE \subseteq val
                 /\ (X86_CR0_PG \subseteq val /\ EFER_LME \subseteq vmcs.efer)
                      => X86_CR4_PAE \subseteq vmcs.cr4
                 /\ X86_CR0_NW \subseteq val => X86_CR0_CD \subseteq val
                 /\ (X86_CR0_PG \subseteq vmcs.cr0 /\ X86_CR0_PG \cap val = {})
                      => ~vmcs.cs.l
    [] cr = 3 -> TRUE
    [] cr = 4 -> Lma => X86_CR4_PAE \subseteq val

\* MOV to CR0 that does not exit: host-owned bits keep their value, and
\* the CPU activates or deactivates IA-32e mode on a PG change.
MovToCr0Native(val) ==
  LET cr0 == (val \ Cr0Mask) \cup (vmcs.cr0 \cap Cr0Mask)
      pg  == X86_CR0_PG \subseteq cr0
      lma == IF pg = (X86_CR0_PG \subseteq vmcs.cr0) THEN Lma
             ELSE pg /\ EFER_LME \subseteq vmcs.efer
  IN  [vmcs EXCEPT !.cr0 = cr0,
                   !.efer = (@ \ EFER_LMA) \cup (IF lma THEN EFER_LMA ELSE {})]

\* MOV to CRn from register r (0f 22 /r, 3 bytes).  CR3 loads always exit
\* (CR3_TARGET_COUNT = 0), CR0 and CR4 loads exit by mask and shadow.
GuestMovToCr(cr, r, val) ==
  /\ Fetch
  /\ CrLegal(cr, val)
  /\ IF \/ cr = 3
        \/ cr = 0 /\ MovCrExits(val, Cr0Mask, Cr0Shadow)
        \/ cr = 4 /\ MovCrExits(val, Cr4Mask, Cr4Shadow)
       THEN /\ VmExit([NoExit EXCEPT !.reason = EXIT_REASON_CR_ACCESS,
                                     !.cr = cr, !.reg = r, !.len = 3],
                      [Scratch EXCEPT ![r] = val], vmcs)
            /\ UNCHANGED <<apic, guestMsr>>
       ELSE /\ vmcs' = IF cr = 0 THEN MovToCr0Native(val)
                         ELSE [vmcs EXCEPT !.cr4 = (val \ Cr4Mask)
                                                 \cup (@ \cap Cr4Mask)]
            /\ UNCHANGED <<phase, regs, launched, fail, exit, msrGuest,
                           msrCpu, apic, guestMsr>>


\* WRMSR (0f 30) of an intercepted MSR: RCX = msr, EDX:EAX = val.
WrmsrExit(msr, val) ==
  VmExit([NoExit EXCEPT !.reason = EXIT_REASON_MSR_WRITE, !.len = 2],
         [Scratch EXCEPT !["RCX"] = msr, !["RAX"] = Trunc(val, 32),
                      !["RDX"] = Shr(val, 32)], vmcs)

\* WRMSR to EFER.  LME may change only while paging is off.  LMA is read-
\* only, so the CPU ignores the written bit: a read-modify-write passes the
\* current LMA, a guest writing a constant passes 0.
GuestWrmsrEfer(val) ==
  /\ Fetch
  /\ (EFER_LME \subseteq val) = (EFER_LME \subseteq vmcs.efer)
       \/ X86_CR0_PG \cap vmcs.cr0 = {}
  /\ WrmsrExit(MSR_EFER, val \cup IF PreserveLMA THEN vmcs.efer \cap EFER_LMA
                                  ELSE {})
  /\ UNCHANGED <<apic, guestMsr>>

GuestWrmsrApic(msr, val) ==
  /\ Fetch
  /\ \/ /\ msr = MSR_IA32_APICBASE /\ val \in ApicBaseVals
        /\ ~(MSR_IA32_APICBASE_ENABLE \subseteq val) => misbehaves
     \/ msr = MSR_X2APIC_ICR /\ val \in IcrVals
  /\ WrmsrExit(msr, val)
  /\ UNCHANGED <<apic, guestMsr>>

\* CPUID (0f a2) of leaf, subleaf 0.
GuestCpuid(leaf) ==
  /\ Fetch
  /\ VmExit([NoExit EXCEPT !.reason = EXIT_REASON_CPUID, !.len = 2],
            [Scratch EXCEPT !["RAX"] = W(leaf)], vmcs)
  /\ UNCHANGED <<apic, guestMsr>>

\* RDTSC (0f 31).
GuestRdtsc ==
  /\ Fetch
  /\ VmExit([NoExit EXCEPT !.reason = EXIT_REASON_RDTSC, !.len = 2],
            Scratch, vmcs)
  /\ UNCHANGED <<apic, guestMsr>>

\* VM_EXIT_INSTRUCTION_LEN after a #UD exit: the instruction's length if
\* the CPU reports it, otherwise whatever the field held from the last exit.
UdLen(i) == IF UdLenReported THEN {InsnLen[i]} ELSE {InsnLen[i], exit.len}

\* An instruction that raises #UD, intercepted by EXCEPTION_BITMAP bit 6:
\* SYSCALL and SYSRET fault because the VMM keeps EFER.SCE clear.  Both
\* are executed in 64-bit mode; SYSRET by the kernel, with RCX and R11
\* holding the return address and flags.  What handle_exception_nmi will
\* read through gva2hva is one of HvaInsns[i]: gva2hva returns the
\* leaf's guest-physical address as a host pointer (vmx.c:1248, 1254; see
\* Ept), so the bytes it reads are host memory; nothing writes them
\* between the exit and the handler.
GuestUd(i) ==
  /\ Fetch
  /\ i \in {"SYSCALL", "SYSRET"} => Lma /\ vmcs.cs.l
  /\ i = "OTHER" => "UD" \in FatalOps /\ misbehaves
  /\ i = "SYSRET" => vmcs.cs.dpl = 0
  /\ \E len \in UdLen(i), f \in HvaInsns[i], rcx \in Addrs, r11 \in FlagVals :
       VmExit([NoExit EXCEPT !.reason = EXIT_REASON_EXCEPTION_NMI,
                             !.vector = UD_VECTOR,
                             !.type = INTR_TYPE_HARD_EXCEPTION,
                             !.insn = i, !.fetched = f, !.len = len],
              IF i = "SYSRET" THEN [Scratch EXCEPT !["RCX"] = rcx,
                                                   !["R11"] = r11]
              ELSE Scratch, vmcs)
  /\ UNCHANGED <<apic, guestMsr>>

\* Operations the VMM does not support, each with the exit it causes.
FatalExit ==
  [PF     |-> [NoExit EXCEPT !.vector = PF_VECTOR,
                             !.type = INTR_TYPE_HARD_EXCEPTION],
   EPT    |-> [NoExit EXCEPT !.reason = EXIT_REASON_EPT_VIOLATION],
   RDMSR  |-> [NoExit EXCEPT !.reason = EXIT_REASON_MSR_READ, !.len = 2],
   WRMSR  |-> [NoExit EXCEPT !.reason = EXIT_REASON_MSR_WRITE, !.len = 2],
   TRIPLE |-> [NoExit EXCEPT !.reason = EXIT_REASON_TRIPLE_FAULT]]

\* A fatal operation; RDMSR and WRMSR are of MSR_IA32_VMX_BASIC.
GuestFatal(op) ==
  /\ Fetch
  /\ op \in FatalOps /\ misbehaves
  /\ VmExit(FatalExit[op], [Scratch EXCEPT !["RCX"] = MSR_IA32_VMX_BASIC],
            vmcs)
  /\ UNCHANGED <<apic, guestMsr>>


(***************************************************************************)
(* The exit handlers, dispatched by vmx_handle_exit through                *)
(* vmx_exit_handlers[].  Each returns to kvm_loop, which calls             *)
(* vmx_vcpu_run again, or panics.                                          *)
(***************************************************************************)
Dispatch(reason) ==
  phase = "exit" /\ ~exit.entryFail /\ exit.reason = reason

\* A handler's return to kvm_loop with guest-state area v.
Resume(v) == phase' = "entry" /\ vmcs' = v

\* panic() and BUG(): the VMM stops.
Panic ==
  /\ phase' = "panic"
  /\ UNCHANGED <<regs, launched, fail, vmcs, exit, msrGuest, msrCpu, apic,
                 guestMsr>>

HandlerFrame == UNCHANGED <<launched, fail, exit, msrGuest, msrCpu, guestMsr>>

\* vmx_handle_exit: a reason outside the table (an entry failure has bit
\* 31 set) or without a handler is dumped and panics.
vmx_handle_exit_unexpected ==
  /\ phase = "exit"
  /\ exit.entryFail \/ exit.reason \notin HandledReasons
  /\ Panic

\* handle_cr: MOV to CR0, CR3 or CR4 from the register in the
\* qualification, then skip the instruction; any other CR panics.
handle_cr ==
  /\ Dispatch(EXIT_REASON_CR_ACCESS)
  /\ LET val == regs[exit.reg]
     IN  IF exit.cr \in {0, 3, 4}
           THEN /\ Resume(vmx_skip_emulated_instruction(
                     CASE exit.cr = 0 -> vmx_set_cr0(vmcs, val)
                       [] exit.cr = 3 -> vmx_set_cr3(vmcs, val)
                       [] exit.cr = 4 -> vmx_set_cr4(vmcs, val)))
                /\ UNCHANGED <<regs, apic>>
                /\ HandlerFrame
           ELSE Panic

\* handle_wrmsr: msr = (u32)RCX, val = EDX:EAX.  APICBASE is passed to the
\* physical APIC after BUG_ON(!enabled); INIT and STARTUP IPIs written to
\* the x2APIC ICR are dropped, other IPIs sent; EFER is written into the
\* VMCS with SCE cleared; any other MSR panics.
handle_wrmsr ==
  /\ Dispatch(EXIT_REASON_MSR_WRITE)
  /\ LET msr  == Trunc(regs["RCX"], 32)
         val  == Trunc(regs["RAX"], 32) \cup Shl(Trunc(regs["RDX"], 32), 32)
         dm   == val \cap {8, 9, 10}
     IN  CASE msr = MSR_IA32_APICBASE ->
                IF MSR_IA32_APICBASE_ENABLE \cap val = {}
                  THEN Panic
                  ELSE /\ apic' = [apic EXCEPT !.base = val]
                       /\ Resume(vmx_skip_emulated_instruction(vmcs))
                       /\ UNCHANGED regs /\ HandlerFrame
           [] msr = MSR_X2APIC_ICR ->
                /\ apic' = IF dm \in {APIC_DM_INIT, APIC_DM_STARTUP} THEN apic
                           ELSE [apic EXCEPT !.ipis = @ \cup {val}]
                /\ Resume(vmx_skip_emulated_instruction(vmcs))
                /\ UNCHANGED regs /\ HandlerFrame
           [] msr = MSR_EFER ->
                /\ Resume(vmx_skip_emulated_instruction(
                              [vmcs EXCEPT !.efer = val \ EFER_SCE]))
                /\ UNCHANGED <<regs, apic>> /\ HandlerFrame
           [] OTHER -> Panic

\* kvm_emulate_cpuid: the rewrite of native_cpuid's result.
CpuidRewrite(leaf, r) ==
  CASE leaf = 1 -> [r EXCEPT !.ecx = (@ \ {5}) \cup {21, 31}]
                         \* ~VMX, X2APIC, HYPERVISOR
    [] leaf = 4 -> [x \in CpuidRegs |-> {}]
    [] leaf = 1073741824 ->                       \* 0x40000000
         [eax |-> W(1073741825), ebx |-> W(1263359563),
          ecx |-> W(1447775574), edx |-> W(77)]   \* "KVMKVMKVM"
    [] leaf = 1073741825 -> [x \in CpuidRegs |-> {}]
    [] OTHER -> r

\* Faulty variant: the CPUID result is written but the instruction is not
\* skipped, so the guest executes CPUID again.
kvm_emulate_cpuid_no_skip ==
  /\ Dispatch(EXIT_REASON_CPUID)
  /\ LET leaf == Val(Trunc(regs["RAX"], 32))
         out  == CpuidRewrite(leaf, HostCpuid[leaf])
     IN  regs' = [regs EXCEPT !["RAX"] = Trunc(out.eax, 32),
                              !["RBX"] = Trunc(out.ebx, 32),
                              !["RCX"] = Trunc(out.ecx, 32),
                              !["RDX"] = Trunc(out.edx, 32)]
  /\ Resume(vmcs)
  /\ UNCHANGED apic /\ HandlerFrame

kvm_emulate_cpuid ==
  /\ Dispatch(EXIT_REASON_CPUID)
  /\ LET leaf == Val(Trunc(regs["RAX"], 32))
         out  == CpuidRewrite(leaf, HostCpuid[leaf])
     IN  regs' = [regs EXCEPT !["RAX"] = Trunc(out.eax, 32),
                              !["RBX"] = Trunc(out.ebx, 32),
                              !["RCX"] = Trunc(out.ecx, 32),
                              !["RDX"] = Trunc(out.edx, 32)]
  /\ Resume(vmx_skip_emulated_instruction(vmcs))
  /\ UNCHANGED apic /\ HandlerFrame

\* handle_rdtsc: EDX:EAX = rdtsc(), then skip.
handle_rdtsc ==
  /\ Dispatch(EXIT_REASON_RDTSC)
  /\ \E tsc \in TscVals :
       regs' = [regs EXCEPT !["RAX"] = Trunc(tsc, 32),
                            !["RDX"] = Trunc(Shr(tsc, 32), 32)]
  /\ Resume(vmx_skip_emulated_instruction(vmcs))
  /\ UNCHANGED apic /\ HandlerFrame

handle_rdmsr == Dispatch(EXIT_REASON_MSR_READ) /\ Panic

\* No code sets vcpu->ept_handler, so every EPT violation panics.
handle_ept_violation == Dispatch(EXIT_REASON_EPT_VIOLATION) /\ Panic


\* Faulty variants of handle_syscall: RCX taken before the instruction is
\* skipped; the CS selector taken without the 16-bit mask.
handle_syscall_rcx_before_skip ==
  LET v    == vmx_skip_emulated_instruction(vmcs)
      star == Field(msrGuest["STAR"], 32, 16)
  IN  /\ regs' = [regs EXCEPT !["RCX"] = vmcs.rip, !["R11"] = v.rflags]
      /\ Resume([v EXCEPT
                   !.rip = msrGuest["LSTAR"],
                   !.rflags = @ \ msrGuest["SYSCALL_MASK"],
                   !.cs = [sel |-> star \ {0, 1}, dpl |-> 0, type |-> 11,
                           l |-> TRUE],
                   !.ss = [sel |-> AddW(star, 8, 16), dpl |-> 0, type |-> 3,
                           l |-> FALSE]])

handle_syscall_wide_selector ==
  LET v    == vmx_skip_emulated_instruction(vmcs)
      star == Field(msrGuest["STAR"], 32, 16)
  IN  /\ regs' = [regs EXCEPT !["RCX"] = v.rip, !["R11"] = v.rflags]
      /\ Resume([v EXCEPT
                   !.rip = msrGuest["LSTAR"],
                   !.rflags = @ \ msrGuest["SYSCALL_MASK"],
                   !.cs = [sel |-> Shr(msrGuest["STAR"], 32) \ {0, 1},
                           dpl |-> 0, type |-> 11, l |-> TRUE],
                   !.ss = [sel |-> AddW(star, 8, 16), dpl |-> 0, type |-> 3,
                           l |-> FALSE]])

\* handle_syscall: SYSCALL emulated from the guest's MSRs as stored in
\* msr_autoload.guest.  The instruction is skipped first, so RCX gets the
\* address after it.
handle_syscall ==
  LET v    == vmx_skip_emulated_instruction(vmcs)
      star == Field(msrGuest["STAR"], 32, 16)
  IN  /\ regs' = [regs EXCEPT !["RCX"] = v.rip, !["R11"] = v.rflags]
      /\ Resume([v EXCEPT
                   !.rip = msrGuest["LSTAR"],
                   !.rflags = @ \ msrGuest["SYSCALL_MASK"],
                   !.cs = [sel |-> star \ {0, 1}, dpl |-> 0, type |-> 11,
                           l |-> TRUE],
                   !.ss = [sel |-> AddW(star, 8, 16), dpl |-> 0, type |-> 3,
                           l |-> FALSE]])

\* handle_sysret: 64-bit SYSRET; RIP = RCX, RFLAGS from R11, user
\* segments from STAR[63:48].  RIP is not advanced.
handle_sysret ==
  LET star == Field(msrGuest["STAR"], 48, 16)
  IN  /\ Resume([vmcs EXCEPT
                   !.rip = regs["RCX"],
                   !.rflags = (regs["R11"] \cap W(3964887)) \cup {1},
                   !.cs = [sel |-> AddW(star, 16, 16) \cup {0, 1}, dpl |-> 3,
                           type |-> 11, l |-> TRUE],
                   !.ss = [sel |-> AddW(star, 8, 16) \cup {0, 1}, dpl |-> 3,
                           type |-> 3, l |-> FALSE]])
      /\ UNCHANGED regs

\* handle_exception_nmi: for a #UD hardware exception, the bytes at
\* gva2hva(vmx_get_rip) are compared: 0f 05 is a SYSCALL, 48 0f 07 a
\* SYSRET; anything else panics.
handle_exception_nmi ==
  /\ Dispatch(EXIT_REASON_EXCEPTION_NMI)
  /\ IF exit.vector = UD_VECTOR /\ exit.type = INTR_TYPE_HARD_EXCEPTION
        /\ exit.fetched \in {"SYSCALL", "SYSRET"}
       THEN /\ IF exit.fetched = "SYSCALL" THEN handle_syscall ELSE handle_sysret
            /\ UNCHANGED apic /\ HandlerFrame
       ELSE Panic

(***************************************************************************)
(* The specification.                                                      *)
(***************************************************************************)
\* MOV to CR takes its source from RBX: RAX carries the CPUID, RDMSR and
\* RDTSC results, so a handler that decodes the wrong register reads a
\* value other than the one moved.
CrSrcRegs == {"RBX"}

Guest ==
  \/ \E a \in Addrs : GuestJump(a)
  \/ \E f \in FlagVals : GuestPopf(f)
  \/ \E l \in BOOLEAN : GuestLjmp(l)
  \/ \E m \in SavedMsrs : \E v \in MsrVals[m] : GuestWrmsrNative(m, v)
  \/ \E r \in CrSrcRegs :
       \/ \E v \in Cr0Vals : GuestMovToCr(0, r, v)
       \/ \E v \in Cr3Vals : GuestMovToCr(3, r, v)
       \/ \E v \in Cr4Vals : GuestMovToCr(4, r, v)
  \/ \E v \in EferVals : GuestWrmsrEfer(v)
  \/ \E v \in ApicBaseVals : GuestWrmsrApic(MSR_IA32_APICBASE, v)
  \/ \E v \in IcrVals : GuestWrmsrApic(MSR_X2APIC_ICR, v)
  \/ \E l \in CpuidLeaves : GuestCpuid(l)
  \/ GuestRdtsc
  \/ \E i \in UdInsns : GuestUd(i)
  \/ \E op \in DOMAIN FatalExit : GuestFatal(op)

\* One iteration step of kvm_loop on the host side.
Vmm ==
  \/ vmx_vcpu_run
  \/ vmx_handle_exit_unexpected
  \/ handle_exception_nmi
  \/ handle_cr
  \/ kvm_emulate_cpuid
  \/ handle_rdmsr
  \/ handle_wrmsr
  \/ handle_rdtsc
  \/ handle_ept_violation

Next == (Guest \/ Vmm) /\ UNCHANGED misbehaves

\* kvm_loop runs on a CPU of its own and never blocks: once it has control
\* it keeps taking steps.  The guest is given no fairness.
Spec == Init /\ [][Next]_vars /\ WF_vars(Vmm /\ UNCHANGED misbehaves)


(***************************************************************************)
(* Properties.                                                             *)
(***************************************************************************)
Selector == SUBSET (0 .. 15)
Seg16 == [sel : Selector, dpl : 0 .. 3, type : 0 .. 15, l : BOOLEAN]

\* Every variable has its type; segment selectors are 16-bit, as the
\* u16 selector of struct kvm_segment is.
TypeOK ==
  /\ phase \in {"entry", "guest", "exit", "panic"}
  /\ regs \in [Regs -> Word]
  /\ launched \in BOOLEAN /\ fail \in BOOLEAN
  /\ vmcs \in [cr0 : Word, cr3 : Word, cr4 : Word, efer : Word,
               ia32e : BOOLEAN, trType : 0 .. 15, rip : Word, rflags : Word,
               cs : Seg16, ss : Seg16]
  /\ exit \in Exit
  /\ msrGuest \in [SavedMsrs -> Word] /\ msrCpu \in [SavedMsrs -> Word]
  /\ apic \in [base : Word, ipis : SUBSET Word]
  /\ guestMsr \in [SavedMsrs -> Word]
  /\ misbehaves \in BOOLEAN

\* VM entry never fails on the guest state: whenever kvm_loop calls
\* vmx_vcpu_run, the state left by vmx_set_cr0's long-mode switch, by
\* handle_wrmsr's EFER write and by the segments handle_syscall and
\* handle_sysret load passes the checks of SDM 26.3.1.
EntryStateValid == phase = "entry" => VmEntryChecks(vmcs)

\* The autoload areas of vmx_vcpu_setup isolate the MSRs of MSR_SAVE_LIST:
\* while the guest runs the CPU holds the values the guest last wrote;
\* while the VMM runs the CPU holds the VMM's own values and
\* msr_autoload.guest holds the guest's, which the SYSCALL emulation reads.
MsrIsolation ==
  /\ phase = "guest" => msrCpu = guestMsr
  /\ phase /= "guest" => msrCpu = HostMsrVal /\ msrGuest = guestMsr

IsUd(i) ==
  /\ ~exit.entryFail /\ exit.reason = EXIT_REASON_EXCEPTION_NMI
  /\ exit.vector = UD_VECTOR /\ exit.type = INTR_TYPE_HARD_EXCEPTION
  /\ exit.insn = i

\* The exit is a #UD on a SYSCALL or SYSRET, which the VMM decodes from
\* the bytes it reads through gva2hva.
FastcallExit == IsUd("SYSCALL") \/ IsUd("SYSRET")

\* An emulated SYSCALL or SYSRET does what the instruction does (SDM Vol.
\* 2): SYSCALL puts the address of the next instruction in RCX and RFLAGS
\* in R11, clears the guest's SFMASK bits, jumps to the guest's LSTAR and
\* loads CPL-0 segments from the guest's STAR[47:32]; SYSRET jumps to RCX
\* with CPL-3 segments from STAR[63:48].  The MSR values are the guest's
\* current ones, whatever the autoload areas and the exit fields hold.
FastSystemCallSemantics ==
  [][phase = "exit" /\ phase' = "entry" =>
       /\ IsUd("SYSCALL") =>
            /\ Val(regs'["RCX"]) = Val(vmcs.rip) + InsnLen["SYSCALL"]
            /\ regs'["R11"] = vmcs.rflags
            /\ vmcs'.rip = guestMsr["LSTAR"]
            /\ vmcs'.rflags = vmcs.rflags \ guestMsr["SYSCALL_MASK"]
            /\ vmcs'.cs.sel = Field(guestMsr["STAR"], 32, 16) \ {0, 1}
            /\ vmcs'.cs.dpl = 0 /\ vmcs'.ss.dpl = 0
       /\ IsUd("SYSRET") =>
            /\ vmcs'.rip = regs["RCX"]
            /\ vmcs'.cs.sel =
                 AddW(Field(guestMsr["STAR"], 48, 16), 16, 16) \cup {0, 1}
            /\ vmcs'.cs.dpl = 3 /\ vmcs'.ss.dpl = 3]_vars

\* A guest that uses only what the VMM supports keeps running: every VM
\* exit other than a SYSCALL or SYSRET #UD is handled and the guest is
\* entered again (no panic, no failed VM entry, no handler that leaves
\* kvm_loop stuck).  The #UD exits are left out: whether they panic
\* depends on the bytes gva2hva finds, not on the guest.
GuestProgress == ~misbehaves => ((phase = "exit" /\ ~FastcallExit) ~> phase = "guest")

\* Every VM exit is dealt with: the VMM either re-enters the guest or
\* stops in panic, it never loops between its own steps.
ExitHandled == phase = "exit" ~> phase \in {"guest", "panic"}


\* What a guest MOV from CR0 returns: the guest-owned bits of GUEST_CR0 and
\* the host-owned bits of CR0_READ_SHADOW.
GuestVisibleCr0(v) == (v.cr0 \ Cr0Mask) \cup (Cr0Shadow \cap Cr0Mask)

\* A guest reads back the CR0 value it wrote: after handle_cr emulates a
\* MOV to CR0, a MOV from CR0 returns the requested value (the read shadow
\* hides the bits the VMM forces on).
CrReadback ==
  [][phase = "exit" /\ ~exit.entryFail /\ exit.reason = EXIT_REASON_CR_ACCESS
     /\ exit.cr = 0 /\ phase' = "entry"
       => GuestVisibleCr0(vmcs') = regs[exit.reg]]_vars

(***************************************************************************)
(* VmxVcpu implements VcpuArch.  While the guest runs, its SYSCALL MSRs    *)
(* are in the CPU; otherwise they are in msr_autoload.guest.  At a VM exit *)
(* the guest state is the state before the exiting instruction: the exit   *)
(* step issues it (the guest's registers are saved), and the handler's     *)
(* return to kvm_loop retires it with its architectural effect.            *)
(* vmx_vcpu_run is a stuttering step, panic() is Stop: for a misbehaving  *)
(* guest, or at a SYSCALL or SYSRET whose bytes gva2hva misses.           *)
(***************************************************************************)
\* The guest's view of the guest-state area (EFER.SCE is the VMM's).
ArchCpu(v) ==
  [cr0 |-> v.cr0, cr3 |-> v.cr3, cr4 |-> v.cr4, efer |-> v.efer \ EFER_SCE,
   rip |-> v.rip, rflags |-> v.rflags, cs |-> v.cs, ss |-> v.ss]

\* What CPUID reports to the guest: kvm_emulate_cpuid's rewrite of each leaf.
GuestCpuidView == [l \in CpuidLeaves |-> CpuidRewrite(l, HostCpuid[l])]

Arch == INSTANCE VcpuArch WITH
  ResetRip <- W(4096),
  CpuidView <- GuestCpuidView,
  running <- phase /= "panic",
  issued <- phase = "exit",
  fastcall <- phase = "exit" /\ FastcallExit,
  cpu <- ArchCpu(vmcs),
  regs <- regs,
  msr <- IF phase = "guest" THEN msrCpu ELSE msrGuest,
  apic <- apic,
  misbehaves <- misbehaves

\* Every behaviour of the VMM and the guest is one of the architectural CPU:
\* each VM exit and its handler (handle_cr, handle_wrmsr, kvm_emulate_cpuid,
\* handle_rdtsc, handle_syscall, handle_sysret) together take the effect,
\* including the RIP advance, of the one instruction that exited; nothing
\* else changes the guest's state (the MSR autoload areas keep the SYSCALL
\* MSRs across exits); and the VMM panics only for a misbehaving guest.
ArchRefinement == Arch!Spec

=============================================================================
