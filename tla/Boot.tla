-------------------------------- MODULE Boot --------------------------------
(***************************************************************************)
(* The boot CPU's path through main() (src/vmm/main.c): cpu_init (Cpu),   *)
(* trap_init (Idt), acpi_table_init and apic_init (Acpi), then kvm_init   *)
(* and kvm_bsp_run's                                                       *)
(* create_vcpu and run loop (VmxSetup).  They are composed in the order   *)
(* main() calls them; a halt in ACPI or APIC bring-up is the end of the   *)
(* system.  The three share one processor: the CPUID leaves cpu_init      *)
(* reads are those of the processor whose IA32_APICBASE Acpi reads and    *)
(* whose VMX support VmxSetup reads.                                      *)
(***************************************************************************)
EXTENDS VmxSetup, Idt

CONSTANTS Firmwares, Hardware, NR_CPUS, MAX_LOCAL_APIC, ACPI_MAX_TABLES,
          BAD_APICID, APIC_DEFAULT_PHYS_BASE, NULL, Processors, ModelIdLen,
          PitKhz

VARIABLES fw, hw, stage, why, rsdp, initial_tables, apic, lapic_addr,
          boot_cpu_physical_apicid, cpuid_to_apicid, nr_logical_cpuids,
          proc, cpu_info, detected, tsc_khz

A == INSTANCE Acpi
C == INSTANCE Cpu
T == INSTANCE Tsc

acpiVars == <<fw, hw, stage, why, rsdp, initial_tables, apic, lapic_addr,
              boot_cpu_physical_apicid, cpuid_to_apicid, nr_logical_cpuids>>
cpuVars == <<proc, cpu_info, detected, tsc_khz>>
trapVars == ivars
bootVars == <<vars, acpiVars, cpuVars, trapVars>>

\* One processor: CPUID.1 reports VMX exactly when it has VMX, APIC exactly
\* when IA32_APICBASE has the APIC enabled (a disabled APIC clears the
\* CPUID bit), and x2APIC whenever the BIOS left x2APIC mode on.
SameProcessor ==
  LET r1 == C!Answer(proc, W(1), 0)
  IN  /\ cpu.vmx = (5 \in r1.ecx)
      /\ (9 \in r1.edx) = (A!APICBASE_ENABLE \in hw.apicBase)
      /\ A!APICBASE_X2APIC_ENABLE \in hw.apicBase => 21 \in r1.ecx

\* The firmware's tables are there from power-on, but nothing before
\* acpi_table_init reads them: Boot starts with fw Unread and picks the
\* layout once trap_init has returned, so that cpu_init, tsc_init and
\* trap_init are explored once per processor and machine rather than once
\* more for every layout.  The behaviours of the code are the same.
Unread == [ebda |-> 0, rsdp |-> <<>>, tables |-> <<>>]

BootInit ==
  C!Init /\ T!TscInit /\ IdtInit /\ fw = Unread /\ A!InitMachine /\ Init /\ SameProcessor

\* The firmware layout, chosen where acpi_table_init first reads it.
FirmwareRead ==
  /\ trapped /\ fw = Unread
  /\ fw' \in Firmwares
  /\ UNCHANGED <<vars, cpuVars, trapVars, hw, stage, why, rsdp, initial_tables, apic,
                 lapic_addr, boot_cpu_physical_apicid, cpuid_to_apicid, nr_logical_cpuids>>

\* main(): cpu_init first, then tsc_init, trap_init once tsc_init has set
\* tsc_khz (it never leaves it 0), acpi_table_init after trap_init,
\* kvm_init once apic_init has returned.
BootNext ==
  \/ C!Next /\ UNCHANGED <<vars, acpiVars, trapVars, tsc_khz>>
  \/ T!tsc_init /\ UNCHANGED <<vars, acpiVars, trapVars>>
  \/ tsc_khz # 0 /\ IdtNext /\ UNCHANGED <<vars, acpiVars, cpuVars>>
  \/ FirmwareRead
  \/ trapped /\ fw # Unread /\ A!Next /\ UNCHANGED <<vars, cpuVars, trapVars>>
  \/ stage = "booted" /\ Next /\ UNCHANGED <<acpiVars, cpuVars, trapVars>>

BootSpec == BootInit /\ [][BootNext]_bootVars

\* The variables of acpi_table_init and apic_init have their types.
AcpiTypeOK == A!TypeOK

\* initial_tables[] holds exactly the tables the RSDT or XSDT the ACPI
\* specification selects lists with a valid checksum, in order, up to the
\* size of the array (acpi_tb_parse_root_table).
RootTablesLoaded == A!RootTablesLoaded

\* After apic_init every MADT processor has one logical CPU ID, the BSP has
\* ID 0 and the unused slots are empty (acpi_register_lapic).
CpuMapMatchesMadt == A!CpuMapMatchesMadt

\* apic_init halts on the MADT only when the MADT has a disabled CPU, more
\* CPUs than NR_CPUS, or lacks the BSP (acpi_register_lapic, apic_init).
ApicHaltJustified == A!ApicHaltJustified

\* The SDM's answers for the processors of the model (Cpu), computed once.
CapsTable == C!ReportedCaps
IdentityTable == C!Identity
ModelNameTable == C!ModelNames

\* Once cpu_init has returned, every capability word holds its leaf's
\* register when the processor reports the leaf, and is zero otherwise:
\* no word takes the highest basic leaf's data that an out-of-range CPUID
\* returns (get_cpu_cap's level checks and the registers it picks).  With
\* SameProcessor this is what lets kvm_init (VmxSetup) and verify_apic
\* (Acpi) read the processor's VMX and APIC support directly.
CapabilitiesFromReportedLeaves ==
  detected => cpu_info.x86_capability = CapsTable[proc]

\* Once cpu_init has returned, the vendor is the one the vendor string in
\* EBX, EDX, ECX names, and family, model and stepping are the SDM's
\* display values (cpu_detect's stores into x86_vendor_id,
\* get_cpu_vendor, x86_family, x86_model, x86_stepping).
CpuIdentified ==
  detected =>
    IdentityTable[proc] = [f \in DOMAIN IdentityTable[proc] |-> cpu_info[f]]

\* Once cpu_init has returned, the model name is the brand string without
\* leading spaces and trailing whitespace, or empty when the processor has
\* no brand leaves (get_model_name's copy, NUL and in-place trim).
ModelNameTrimmed ==
  detected /\ proc \in DOMAIN ModelNameTable =>
    C!CString(cpu_info.x86_model_id) = ModelNameTable[proc]
\* The TSC frequencies the SDM gives the processors of the model (Tsc).
TscTable == [p \in Processors |-> T!TscChoices(p)]

\* Once tsc_init has returned, tsc_khz is the frequency CPUID leaf 15H
\* gives by the SDM when the processor is an Intel one that reports the
\* leaf with a ratio and a known crystal, and otherwise a PIT measurement
\* or the assumed 2 GHz: the leaf is not read past the maximum level,
\* where CPUID returns another leaf's registers, numerator and denominator
\* are EBX and EAX, and the crystal comes from ECX or the model that
\* cpu_init decoded (native_calibrate_tsc, tsc_init).
TscFromLeaf15 == tsc_khz # 0 => tsc_khz \in TscTable[proc]

\* The IDT trap_init leaves is one the CPU can deliver through: every
\* exception the kernel has a handler for, and every vector from 0x20 on,
\* enters its handler (its address reassembled from the three offset
\* fields idt_init_desc splits it into) in the 64-bit kernel code segment
\* of the new GDT; the double fault enters on the top of its own IST stack
\* in the TSS that TR names, which needs idt_setup_ist_traps after
\* idt_setup_traps and switch_to_new_gdt's IST pointers at the stacks'
\* ends; the APIC gates survive the spurious-gate loop; the other vectors
\* fault; system_vectors, which update_intr_gate checks, is exactly the
\* set of gates.  Checked on the step of trap_init: nothing after it
\* writes the tables.
IdtConsistent == [][~trapped /\ trapped' => IdtMatchesHandlers']_bootVars

\* After trap_init both 8259As have taken i8259_init's ICW1..ICW4
\* sequence in the order the chip expects it, are fully masked by the
\* last two writes (ICW1 cleared their masks), and raise IRQs on vectors
\* 0x30..0x3f, which have gates.
PicsProgrammed == [][~trapped /\ trapped' => PicsInitialized']_bootVars
============================================================================
