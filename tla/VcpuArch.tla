------------------------------ MODULE VcpuArch ------------------------------
(***************************************************************************)
(* What the VMM promises the guest: a 64-bit x86 CPU.  Every instruction  *)
(* is one atomic step with its architectural effect on the registers, the *)
(* control registers, EFER, the SYSCALL MSRs and the local APIC, whether   *)
(* the guest executes it natively or the VMM emulates it after a VM exit.  *)
(* The CPU stops for a guest that uses an operation the VMM does not      *)
(* support, and may stop at an issued SYSCALL or SYSRET: the VMM decodes   *)
(* those from bytes it reads through gva2hva, which need not be the        *)
(* guest's instruction.  VmxVcpu is checked to implement this spec.        *)
(*                                                                         *)
(* Two deliberate departures from bare hardware, both part of the VMM's    *)
(* design: CR0.WP/NE and CR4.VMXE stay set, and EFER.SCE is not part of    *)
(* the state (the VMM keeps it clear to intercept SYSCALL, and the guest   *)
(* cannot read EFER).                                                      *)
(***************************************************************************)
EXTENDS X86Bits

CONSTANTS
  ResetRip,    \* the RIP the CPU starts at
  CpuidView    \* [leaf -> [eax, ebx, ecx, edx -> Word]]: what CPUID reports

VARIABLES
  running,     \* FALSE once the CPU has stopped
  issued,      \* an instruction the VMM emulates is issued, not yet retired
  fastcall,    \* the issued instruction is a SYSCALL or SYSRET
  cpu,         \* control registers, EFER, RIP, RFLAGS, CS and SS
  regs,        \* the general-purpose registers RAX, RBX, RCX, RDX, R11
  msr,         \* KERNEL_GS_BASE, SYSCALL_MASK, LSTAR and STAR
  apic,        \* the local APIC: base MSR and the IPIs sent
  misbehaves   \* the guest uses unsupported operations

avars == <<running, issued, fastcall, cpu, regs, msr, apic, misbehaves>>

ArchRegs == {"RAX", "RBX", "RCX", "RDX", "R11"}
ArchMsrs == {"KERNEL_GS_BASE", "SYSCALL_MASK", "LSTAR", "STAR"}

Forced0 == X86_CR0_WP \cup X86_CR0_NE
Forced4 == X86_CR4_VMXE

\* RIP after an instruction of n bytes.
After(c, n) == W(Val(c.rip) + n)

\* A 32-bit result, zero-extended into a 64-bit register.
Is32(w) == Trunc(w, 32) = w

\* MOV to CR0: IA-32e mode is entered or left when PG changes while
\* EFER.LME is set.
SetCr0(c, val) ==
  LET pg  == X86_CR0_PG \subseteq val
      lma == IF pg = (X86_CR0_PG \subseteq c.cr0) THEN EFER_LMA \subseteq c.efer
             ELSE pg /\ EFER_LME \subseteq c.efer
  IN  [c EXCEPT !.cr0 = val \cup Forced0,
                !.efer = (@ \ EFER_LMA) \cup (IF lma THEN EFER_LMA ELSE {})]
SetCr3(c, val) == [c EXCEPT !.cr3 = val]
SetCr4(c, val) == [c EXCEPT !.cr4 = val \cup Forced4]

Init ==
  /\ running = TRUE /\ issued = FALSE /\ fastcall = FALSE
  /\ cpu.rip = ResetRip
  /\ Forced0 \subseteq cpu.cr0 /\ Forced4 \subseteq cpu.cr4
  /\ EFER_LMA \cap cpu.efer = {}
  /\ regs = [r \in ArchRegs |-> {}]
  /\ msr = [m \in ArchMsrs |-> {}]
  /\ apic = [base |-> MSR_IA32_APICBASE_ENABLE, ipis |-> {}]
  /\ misbehaves \in BOOLEAN

(***************************************************************************)
(* The guest's own code: jumps, POPF, far jumps, native MOV to CR0/CR4    *)
(* and WRMSR of the SYSCALL MSRs.  These steps are not followed            *)
(* instruction by instruction: each changes only the state it names.       *)
(***************************************************************************)
GuestOwn ==
  /\ running /\ ~issued
  /\ \/ /\ UNCHANGED msr
        /\ LET c == cpu
               n == cpu'
           IN  n \in {[c EXCEPT !.rip = n.rip], [c EXCEPT !.rflags = n.rflags],
                      [c EXCEPT !.cs.l = n.cs.l], SetCr0(c, n.cr0), SetCr4(c, n.cr4)}
     \/ /\ \E m \in ArchMsrs : msr' = [msr EXCEPT ![m] = msr'[m]]
        /\ UNCHANGED cpu
  /\ UNCHANGED <<running, issued, fastcall, regs, apic, misbehaves>>

\* The guest loads its registers and issues an instruction that the VMM
\* emulates; until the instruction retires nothing else happens.
Issue ==
  /\ running /\ ~issued
  /\ issued' = TRUE
  /\ fastcall' \in BOOLEAN
  /\ regs' \in [ArchRegs -> Word]
  /\ UNCHANGED <<running, cpu, msr, apic, misbehaves>>

(***************************************************************************)
(* The instructions the VMM emulates.  Each retires the issued             *)
(* instruction and reads its operands from regs.                           *)
(***************************************************************************)
Retire == issued /\ issued' = FALSE /\ fastcall' = FALSE
RetireOther == Retire /\ ~fastcall
RetireFastcall == Retire /\ fastcall

\* MOV to CR0, CR3 or CR4 from a register (3 bytes).
MovToCr ==
  /\ running /\ RetireOther
  /\ \E r \in ArchRegs :
       cpu' \in {[s EXCEPT !.rip = After(cpu, 3)] :
                   s \in {SetCr0(cpu, regs[r]), SetCr3(cpu, regs[r]),
                          SetCr4(cpu, regs[r])}}
  /\ UNCHANGED <<running, regs, msr, apic, misbehaves>>

\* WRMSR (2 bytes) of ECX with EDX:EAX.  LMA is read-only.  An APIC base
\* that disables the APIC, and any other MSR, stop the CPU (see Stop).
Wrmsr ==
  LET idx == Trunc(regs["RCX"], 32)
      val == Trunc(regs["RAX"], 32) \cup Shl(Trunc(regs["RDX"], 32), 32)
      dm  == val \cap {8, 9, 10}
  IN  /\ running /\ RetireOther
      /\ \/ /\ idx = MSR_IA32_APICBASE /\ MSR_IA32_APICBASE_ENABLE \subseteq val
            /\ apic' = [apic EXCEPT !.base = val]
            /\ cpu' = [cpu EXCEPT !.rip = After(cpu, 2)]
         \/ /\ idx = MSR_X2APIC_ICR
            /\ apic' = IF dm \in {APIC_DM_INIT, APIC_DM_STARTUP} THEN apic
                       ELSE [apic EXCEPT !.ipis = @ \cup {val}]
            /\ cpu' = [cpu EXCEPT !.rip = After(cpu, 2)]
         \/ /\ idx = MSR_EFER
            /\ cpu' = [cpu EXCEPT !.rip = After(cpu, 2),
                         !.efer = (val \ (EFER_LMA \cup EFER_SCE))
                                  \cup (@ \cap EFER_LMA)]
            /\ UNCHANGED apic
      /\ UNCHANGED <<running, regs, msr, misbehaves>>

\* CPUID (2 bytes) of leaf EAX.
Cpuid ==
  LET leaf == Val(Trunc(regs["RAX"], 32))
      out  == CpuidView[leaf]
  IN  /\ running /\ RetireOther /\ leaf \in DOMAIN CpuidView
      /\ regs' = [regs EXCEPT !["RAX"] = Trunc(out.eax, 32),
                              !["RBX"] = Trunc(out.ebx, 32),
                              !["RCX"] = Trunc(out.ecx, 32),
                              !["RDX"] = Trunc(out.edx, 32)]
      /\ cpu' = [cpu EXCEPT !.rip = After(cpu, 2)]
      /\ UNCHANGED <<running, msr, apic, misbehaves>>

\* RDTSC (2 bytes): a time stamp in EDX:EAX.
Rdtsc ==
  /\ running /\ RetireOther
  /\ regs' = [regs EXCEPT !["RAX"] = regs'["RAX"], !["RDX"] = regs'["RDX"]]
  /\ Is32(regs'["RAX"]) /\ Is32(regs'["RDX"])
  /\ cpu' = [cpu EXCEPT !.rip = After(cpu, 2)]
  /\ UNCHANGED <<running, msr, apic, misbehaves>>

\* SYSCALL (2 bytes): RCX and R11 get the return RIP and RFLAGS; RIP from
\* LSTAR, RFLAGS masked by SFMASK, CPL-0 CS and SS from STAR[47:32].
Syscall ==
  LET sel == Field(msr["STAR"], 32, 16)
  IN  /\ running /\ RetireFastcall
      /\ regs' = [regs EXCEPT !["RCX"] = After(cpu, 2), !["R11"] = cpu.rflags]
      /\ cpu' = [cpu EXCEPT !.rip = msr["LSTAR"],
                   !.rflags = @ \ msr["SYSCALL_MASK"],
                   !.cs = [sel |-> sel \ {0, 1}, dpl |-> 0, type |-> 11, l |-> TRUE],
                   !.ss = [sel |-> AddW(sel, 8, 16), dpl |-> 0, type |-> 3, l |-> FALSE]]
      /\ UNCHANGED <<running, msr, apic, misbehaves>>

\* 64-bit SYSRET: RIP from RCX, RFLAGS from R11 (& 3C7FD7H | 2), CPL-3
\* CS and SS from STAR[63:48].
Sysret ==
  LET sel == Field(msr["STAR"], 48, 16)
  IN  /\ running /\ RetireFastcall
      /\ cpu' = [cpu EXCEPT !.rip = regs["RCX"],
                   !.rflags = (regs["R11"] \cap W(3964887)) \cup {1},
                   !.cs = [sel |-> AddW(sel, 16, 16) \cup {0, 1}, dpl |-> 3,
                           type |-> 11, l |-> TRUE],
                   !.ss = [sel |-> AddW(sel, 8, 16) \cup {0, 1}, dpl |-> 3,
                           type |-> 3, l |-> FALSE]]
      /\ UNCHANGED <<running, regs, msr, apic, misbehaves>>

\* The CPU stops, for a guest that uses unsupported operations or at an
\* issued SYSCALL or SYSRET.
Stop ==
  /\ running /\ (misbehaves \/ fastcall)
  /\ running' = FALSE /\ issued' = FALSE /\ fastcall' = FALSE
  /\ UNCHANGED <<cpu, regs, msr, apic, misbehaves>>

Next == GuestOwn \/ Issue \/ MovToCr \/ Wrmsr \/ Cpuid \/ Rdtsc
          \/ Syscall \/ Sysret \/ Stop

Spec == Init /\ [][Next]_avars
=============================================================================
