# TLA+ models of lvisor

lvisor is a small type-1 hypervisor for x86-64 on Intel VT-x. It boots on bare metal, stands up one virtual CPU and runs a single guest. This directory holds TLA+ models of its parts and the TLC configurations that check them.

## The system

| Part | Source | What it does |
|---|---|---|
| C1 primitives | `vmm/vmx.c` 160-233, `include/asm/*.h` | VMREAD/VMWRITE, VMXON, VMPTRLD, MSR, CPUID and CR access |
| C2 configurator | `vmm/vmx.c` 235-469 | negotiates the VM-execution, exit and entry controls against the capability MSRs, builds the MSR bitmap |
| C3 EPT | `vmm/kvm.c` 36-45, `vmm/vmx.c` 1203-1255 | maps the firmware and kernel frames with 2 MiB pages; walks guest page tables through the EPT |
| C4 vCPU setup | `vmm/vmx.c` 487-745, `vmm/kvm.c` 86-123 | VMXON, VMPTRLD, guest and host state, CR masks and shadows, exception bitmap, MSR autoload areas, start at the firmware |
| C5 world switch | `vmm/vmx.c` 837-937, `vmm/kvm.c` 100-106 | `vmx_vcpu_run` loads the guest GPRs and does VMLAUNCH/VMRESUME; `kvm_loop` alternates it with `vmx_handle_exit` |
| C6 dispatcher | `vmm/vmx.c` 1096-1201, 1338-1382 | handlers for #UD, CR access, CPUID, RDMSR, WRMSR, RDTSC, EPT violation |
| C7 emulation | `vmm/kvm.c` 158-231, `vmm/vmx.c` 1257-1336, 1384-1397 | CPUID rewrite, SYSCALL/SYSRET emulation, instruction skip |
| C8 firmware | `firmware/*` | runs in the guest: multiboot header search, ELF loading, boot parameters |
| kvm_init | `vmm/kvm.c` 47-84, `vmm/multiboot.c` | copies firmware and kernel into guest memory, builds the E820 map and the jump header |
| E820 | `kernel/e820.c` | memory-map sanitizer and range update |
| ACPI | `kernel/acpi.c`, `kernel/acpica/*.c`, `include/acpi/*.h` | finds the RSDP, loads the tables the root table lists, looks tables up, walks MADT subtables |
| host bring-up | `kernel/*.c` | CPU, GDT/IDT, APIC, TSC, PIC, consoles. `cpu_init`, `tsc_init` (the PIT measurement as its outcome), `trap_init` (GDT, TSS, IDT, 8259A) and `apic_init`'s MADT part are modelled; APIC register programming is not (see below) |

**How the parts interact.**

1. `main` brings up the host: `cpu_init` fills `cpu_info` from CPUID (the capability words `kvm_init` and `verify_apic` test), `tsc_init` derives the TSC frequency from the CPUID leaf 15H and the model that `cpu_init` decoded, `trap_init` loads the host's GDT, TSS and IDT and reprograms the 8259As, `acpi_table_init` finds the ACPI tables, and `apic_init` takes the processors from the MADT. `kvm_init` prepares guest memory. `vmx_hardware_setup` (C2) fixes the controls and the MSR bitmap.
2. `create_vcpu` enables VMX and sets up the VMCS (C4). `run_vcpu` starts `kvm_loop`.
3. `kvm_loop` calls `vmx_vcpu_run` (C5). The guest then runs natively until a VM exit returns control.
4. `vmx_handle_exit` (C6) dispatches the exit. Each handler either emulates the instruction and skips it (C7), or panics. Then the loop enters the guest again.

One CPU runs both the VMM and the guest. Concurrency therefore comes from the guest: between two exits it can change any register, CR0 and any passed-through MSR. The hardware switches the autoloaded MSRs and EFER at every entry and exit.

**What is hard to test.**
- The guest-state checks of VM entry: one wrong field and the entry fails with no debugger.
- Long-mode transitions that happen natively, without an exit, next to the ones the VMM emulates.
- MSRs that the guest writes natively while the VMM's emulation reads them from the autoload area.
- Exit-information fields that are undefined for some exits.

## Modules

### `X86Bits`
Machine words as the set of their 1-bit indices. This is needed because TLC integers are 32-bit, while CR0.PG, CPUID bit 31 and the 0xC00000xx MSR indices use bit 31 and above.
- `&`, `|` and `&~` are set operations.
- Casts (`Trunc`) and shifts (`Shr`, `Shl`, `Field`) are modelled by their effect on bits.
- `AddW` is addition modulo 2^width, for 16-bit selectors.
- The module also holds the architectural bit and MSR constants.

### `VmxVcpu` (C4, C5, C6, C7)
One vCPU as `kvm_loop` sees it.

**State**

| Variable | Code |
|---|---|
| `phase` | where `kvm_loop` is: `entry` (before `vmx_vcpu_run`), `guest` (non-root), `exit` (at `vmx_return`, before `vmx_handle_exit`), `panic` |
| `regs` | `vcpu->regs`, restricted to RAX, RBX, RCX, RDX and R11: the registers a handler reads or writes |
| `launched`, `fail` | `vmx->launched`, `vmx->fail` |
| `vmcs` | the guest-state fields the handlers touch: CR0, CR3, CR4, EFER, the IA-32e-mode entry control, the TR type, RIP, RFLAGS, and CS and SS (selector, DPL, type, L) |
| `exit` | the VM-exit information fields: reason and entry-failure bit, CR qualification, interruption info, instruction length, and which instruction (SYSCALL, SYSRET, other) the bytes at RIP encode |
| `msrGuest` | `vmx->msr_autoload.guest[].value` |
| `msrCpu` | the physical values of the four autoloaded MSRs |
| `apic` | the physical APIC's base MSR and the IPIs sent through the ICR |
| `guestMsr` | a ghost variable: the values the guest has architecturally written |

**Actions**

| Action | Code |
|---|---|
| `Init` | the VMCS after `vmx_vcpu_setup` (including its `vmx_set_cr0`/`vmx_set_cr4` calls), with CS:IP from `run_vcpu(FIRMWARE_START)` |
| `vmx_vcpu_run` | VM entry. If `VmEntryChecks` (SDM 26.3.1, the checks the handlers can affect) holds: load the guest MSRs and run the guest. Otherwise: exit reason 33 with bit 31 set, and `launched := 1` as the code does |
| `VmExit` | shared by every exiting guest instruction: save GPRs; store guest MSRs into `msr_autoload.guest`; load the host's; store EFER and EFER.LMA into the IA-32e control; `launched := 1`, `fail := 0` |
| one action per handler | `handle_cr`, `handle_wrmsr`, `kvm_emulate_cpuid`, `handle_rdtsc`, `handle_rdmsr`, `handle_ept_violation`, `handle_exception_nmi` (with `handle_syscall`/`handle_sysret`), and `vmx_handle_exit_unexpected`. Each includes its trailing `vmx_skip_emulated_instruction`, or its `panic` |

**The guest.** The guest is the environment. Its guards keep it to what a correct kernel can do without a fault: no PG without PE, no PG with LME unless PAE, no change of LME while paging, and so on. It can:
- jump, POPF, or far-jump between 64-bit and legacy code;
- WRMSR the passed-through MSRs natively;
- MOV to CR0/CR3/CR4. These exit according to `CR*_GUEST_HOST_MASK` and the read shadow; otherwise they run natively, and the CPU activates or deactivates IA-32e mode itself;
- WRMSR EFER, APICBASE or the x2APIC ICR (these exit);
- CPUID, RDTSC;
- SYSCALL and SYSRET in 64-bit mode, which raise #UD because the VMM keeps EFER.SCE clear. `handle_exception_nmi` does not know the faulting instruction: it compares the bytes at `gva2hva(vmx_get_rip())`. The exit records both the instruction (a ghost field `insn`) and what those bytes decode as (`fetched`), chosen from the constant `HvaInsns`;
- the unsupported operations listed in `FatalOps`.

At each exiting instruction the guest's unused registers are zero.

**Fairness.** `WF_vars(Vmm)` over `vmx_vcpu_run` and the handlers. `kvm_loop` owns its CPU and never blocks, so once the VMM has control it keeps taking steps. The guest gets no fairness: it may run natively forever.

### `VcpuArch` (what C5, C6 and C7 together promise the guest)
An abstract specification: the 64-bit x86 CPU that the guest is promised. Its state is what the guest can observe:
- `cpu`: CR0, CR3, CR4, EFER without SCE, RIP, RFLAGS, CS and SS;
- `regs`: the five registers;
- `msr`: the four SYSCALL MSRs;
- `apic`: the APIC base and the IPIs sent;
- `issued`: an emulated instruction is in flight;
- `fastcall`: that instruction is a SYSCALL or SYSRET;
- `running`.

Its actions are:
- `GuestOwn`: the guest's native steps. Each changes only what it names. A native MOV to CR0 switches IA-32e mode by the architectural rule `SetCr0`.
- `Issue`: the guest loads its registers and issues an instruction.
- The emulated instructions: `MovToCr`, `Wrmsr`, `Cpuid`, `Rdtsc`, `Syscall` and `Sysret`. Each retires the issued instruction in one step, with the SDM's effect and its RIP advance.
- `Stop`: allowed for a misbehaving guest, and at an issued SYSCALL or SYSRET. The VMM finds those instructions by reading bytes through `gva2hva`, which does not translate the leaf address through the EPT (the `ept_gva_pointer` run). When the bytes it reads are not the instruction, it panics. The promise is therefore weaker than "only a misbehaving guest stops", and it says so.

The VMM's deliberate departures from bare hardware are part of the promise: CR0.WP/NE and CR4.VMXE stay set, and EFER.SCE is the VMM's.

`VmxVcpu` instantiates it as `Arch` with a refinement mapping:
- `cpu` is the guest-state area;
- `msr` is the CPU's MSRs while the guest runs, and `msr_autoload.guest` otherwise;
- `issued` is `phase = "exit"`;
- `running` is `phase /= "panic"`;
- `CpuidView` is `kvm_emulate_cpuid`'s rewrite of the host's leaves.

The VM exit step is `Issue`. The handler's return to `kvm_loop` is the instruction. `vmx_vcpu_run` stutters, and `panic` is `Stop`.

### `E820` (kernel/e820.c, the memory-map part of vmm/multiboot.c)
The e820 table as a sequence of `[addr, size, type]` records in an address space of `AW` bits (addition wraps at `2^AW`, as `uint64_t` does), with at most `capacity` entries (`E820_MAX_ENTRIES`). The capacity is fixed per build, and the model chooses it in `Init` from the constant set `Capacities`.

**Operators**

| Operator | Code |
|---|---|
| `RangeAdd` | `__e820_range_add`: append, or drop the entry when the table is full |
| `UpdateTable` | `__e820_update_table`: the change points, their sort, and the loop over them with its overlap list and its `break` when the output is full. The sort is `sort()` with `cpcompare`, whose source is not in the tree and which need not be stable, so the operator returns the set of results over every order `cpcompare` allows |
| `e820_mapped_all` | the loop that walks the sorted table and stops at the first gap |
| `e820_range_update` | `__e820_range_update`: each of its four cases (inside, around, head, tail), with the size clamped to `ULLONG_MAX - start` |

**Action.** `multiboot_init` is the whole of what `multiboot_init` does to the map: range-add every multiboot entry, sanitize (panic on failure), check for a kernel module and a short command line (both inputs), check that the VMM's own range `[VmmStart, VmmEnd)` is RAM (`e820_mapped_all`, else panic), and reserve it with `e820_range_update`. Ghost variables `raw` and `sane` keep the table before and after sanitizing, so properties can compare them with the result.

### `Ept` (C3, and `gva2hva` of C7)
Host memory is a sparse function from 8-byte slot addresses to words. A slot never written reads as zero, because the tables and guest frames are static arrays in `.bss`. `__va` and `__pa` are the identity (`sys/types.h`).

| Definition | Code |
|---|---|
| `construct_tdp` | the four entries `construct_tdp` writes: PML4[0], PDPT[0], the firmware's 2 MiB leaf at PD[0] and the kernel's at PD[kernel_start / 2 MiB] |
| `EPTP` | the value `vmx_set_tdp` writes. `VMX_EPT_DEFAULT_MT` and `VMX_EPT_DEFAULT_GAW` are not defined in the tree; the model uses Linux's 6 and 3 |
| `gpa2hpa`, `EptWalk` | the loop of `gpa2hpa`, with its two asserts (`AssertFailed`) |
| `gva2hva`, `GuestWalk` | the loop of `gva2hva`: each intermediate table found through `gpa2hpa`, the leaf returned as it is |
| `Copied` | where the memcpys of `kvm_init` put each guest-physical byte of the firmware and the kernel (`__gfva`, `__gkva`) |
| `kvm_init` (action) | `construct_tdp`, then the guest starts |
| `GuestStorePte`, `GuestLoadCr3`, `GuestEnablePaging` (actions) | the guest builds its 4-level tables (stores go through the EPT; an EPT violation is the panic of `handle_ept_violation`), loads CR3 and sets CR0.PG |
| `UdExit` (action) | the #UD exit: `handle_exception_nmi` calls `gva2hva(rip)` and panics on a failed assert |

The reference is the architecture: `EptTranslate` and `GuestPhys` walk as the SDM says (present if any of bits 0-2, address bits 12..51, an EPT violation or a page fault otherwise). The guest's setups map RIP with a 2 MiB, a 4 KiB and a 1 GiB page; its tables sit in the firmware frame.

### `VmxSetup` (C2, and the bring-up parts of C1, C4 and C5)
VMX bring-up on the boot CPU, from `kvm_init`'s checks to the first exits of `kvm_loop`. The processor is a constant record: CPUID.VMX, IA32_FEATURE_CONTROL as the BIOS left it, CR4.VMXE at boot, IA32_VMX_BASIC, the allowed-0/allowed-1 words of the five control capability MSRs and of the TRUE MSRs, and IA32_VMX_EPT_VPID_CAP. The VMX headers are not in the tree, so the control-bit numbers are the SDM's (and Linux's).

| Definition | Code |
|---|---|
| `Adjusted`, `AdjustFails` | `adjust_vmx_controls` |
| `ControlWords`, `SetupVmcsConfigFails`, `MinCtl`, `OptCtl` | `setup_vmcs_config`: min/opt per class, the clearing of CR3-store and INVLPG exiting, the VMCS size and memory-type panics |
| `vmx_disabled_by_bios`, `EptCapsMissing` | the checks `kvm_init` and `vmx_hardware_setup` panic on |
| `SetMsrInterception`, `Quadrant`, `HardwareSetupBitmap` | `__set_msr_interception` over the 4 KiB bitmap (a set of bit positions), applied in `vmx_hardware_setup`'s order |
| `kvm_init` (action) | `kvm_init` up to `hardware_setup` |
| `create_vcpu` (action) | `vmx_vcpu_enable`: the VMXE panic, the IA32_FEATURE_CONTROL write (#GP if locked), VMXON and VMPTRLD. There is no VMCLEAR, so the launch state and the exit reason are chosen freely. Then the control fields of `vmx_vcpu_setup` |
| `vmx_vcpu_run` (action) | VMLAUNCH or VMRESUME by `launched`. It fails when the launch state is wrong or a control is invalid; `fail` is set from the result; `launched := 1` |
| `vmx_handle_exit` (action) | dispatch on the exit reason, whatever `fail` says |

The references are the SDM's: `ControlsValid` holds the VM-entry checks of the control fields (allowed settings, secondary controls, EPTP memory type and walk length, and unrestricted guest requires EPT), and `MsrAccessExits` is the MSR-bitmap lookup.

### `Acpi` (ACPI, and the MADT part of `apic_init`)
The boot CPU's path through `acpi_table_init` and `apic_init` (`vmm/main.c` 22 and 25). Firmware is a constant record: the EBDA segment stored at 0x40E, the RSDP-shaped structures by physical address, and the tables by address. A table is abstracted to its signature, whether its checksum holds, its length, its entries (root tables) and its subtables and local-APIC address (MADT). The hardware is a constant: the BSP's IA32_APICBASE bits and its APIC ID. NR_CPUS, MAX_LOCAL_APIC, BAD_APICID and `asm/apic.h` are not in the tree, so they are CONSTANTS.

| Definition | Code |
|---|---|
| `acpi_tb_validate_rsdp`, `ScanFrom`, `acpi_tb_scan_memory_for_rsdp`, `acpi_find_root_pointer` | `tbxfroot.c`: the EBDA window, then E0000h-FFFFFh, on the 16-byte grid |
| `acpi_tb_verify_checksum` | `tbprint.c` (FACS and S3PT exempt) |
| `acpi_tb_parse_root_table`, `LoadEntries` | XSDT or RSDT, length and checksum checks, the entry loop with its skips and the stop at `ACPI_MAX_TABLES` |
| `acpi_table_init` (action) | the RSDP and root-table panics |
| `acpi_find_table` | the lookup over every slot. When the signature is absent and a slot is NULL, the code reads through a NULL pointer; the outcome is a fault or NULL, chosen freely |
| `ParseProcessor`, `EntriesFrom`, `acpi_parse_madt_lapic_entries` | `acpi_parse_lapic`/`acpi_parse_x2apic` with `BAD_MADT_ENTRY`, and the loop of `acpi_table_parse_entries_array` |
| `acpi_register_lapic` | the hotplug panic, logical ID 0 for the BSP, the duplicate check, the NR_CPUS panic |
| `ApicOps`, `apic_init` (action) | `verify_apic` on the BSP, then the MADT part of `apic_init` with its BUG_ONs and the boot-CPU panic |

`stage` says where the boot is (`acpi`, `apic`, `booted`, `halt`), and `why` names the panic or BUG.

### `Cpu` (`kernel/cpu.c`, the CPUID helpers of `asm/processor.h`)
`cpu_init` as one action, the four functions it calls as operators: `cpu_detect` (leaf 0 into `cpuid_level` and `x86_vendor_id`, stored EBX, EDX, ECX; `x86_family`, `x86_model`, `x86_stepping` of leaf 1 into the `uint8_t` fields), `get_cpu_vendor` (first match in `cpu_devs`), `get_cpu_cap` (each of the 13 capability words from its leaf under the code's level checks, sub-leaf 0FH.1 only with CQM_LLC) and `get_model_name` (the brand leaves into `x86_model_id`, the NUL at 48, then the in-place trim loop as the recursive `TrimLoop`).

A processor is a constant record: its maximum basic leaf, its vendor registers, CPUID.80000000H:EAX and a table of leaves. `Cpuid` answers as the hardware does: a leaf above the maximum of its range returns the highest basic leaf, so a leaf read without its level check gets another leaf's data rather than zeros. Registers are words; the vendor registers are 4-character strings, and brand registers are short character sequences (the 48-byte brand string is scaled to at most 8 bytes, the 64-byte buffer to 10). The reference values the properties compare with (`ReportedCaps`, `Identity`, `ModelNames`) are tables over the processors, written from the SDM's definitions of the leaves, not from `cpu.c`.

### `Tsc` (`kernel/tsc.c`)
`tsc_init` as one action on `tsc_khz`, after `cpu_init` (it reads `cpu_info` and the processor's CPUID through an instance of `Cpu`). `native_calibrate_tsc` is an operator: the vendor and `cpuid_level` checks, leaf 15H, the zero-ratio check, the crystal from ECX or the `x86_model` switch, and the product. The `INTEL_FAM6_*` model numbers come from `asm/intel-family.h`, which `asm/processor.h` includes but the tree lacks; the model uses Linux's values. `quick_pit_calibrate` (with `pit_verify_msb` and `pit_expect_msb`) measures TSC cycles across PIT ticks. Its result depends on timing, and its 64-bit arithmetic exceeds TLC's integers, so the model takes its result from the constant `PitKhz`, where 0 means the calibration failed. `tsc_init` then falls back to the PIT result, and then to 2 GHz. `SdmTscKhz` is the reference: the SDM's TSC frequency, computed from the processor's leaves and display model rather than from `cpu_info`.

### `Idt` (`kernel/traps.c`, `kernel/idt.c`, `kernel/i8259.c`)
`trap_init` as one action (it runs once, with interrupts off, before anything can take a vector). Its callees are operators over the tables, named as in the code:
- `switch_to_new_gdt`: the copy of `gdt_data` (descriptors decoded by `GDT_ENTRY_INIT`), the TSS's `sp0`, `io_bitmap_base` and the IST pointers (`ist_tops`), the busy TSS descriptor `load_tr_desc` leaves, GDTR and TR;
- `idt_setup_traps`, `idt_setup_ist_traps` and `idt_setup_apic_and_irq_gates`, each as `idt_setup_from_table` over its `idt_data` table (`def_idts`, `ist_idts`, `apic_idts`), then `set_intr_gate(spurious_interrupt)` on every vector from 32 whose `system_vectors` bit is still clear;
- `idt_init_desc`: the handler's `__ENTRY_ADDR` split into `offset_low`, `offset_middle` (16-bit integers) and `offset_high` (a bit set, since the address has bits 47-63 set);
- `i8259_init`: its eleven `outb`s folded through `PicOut`, the 8259A's initialization protocol (ICW1 clears the IMR and starts the sequence, ICW2 the vector base, ICW3 if cascaded, ICW4 if ICW1 asked for it, then OCW1 as the mask);
- the MSR writes: SYSENTER, FS and KERNEL_GS bases cleared, GS moved to the shared mapping.

Addresses are link addresses (`HandlerAddr`, `EntryArea`, `CpuStack`, `IdtAddr`) given by `MC_Boot`. The reference for the properties is what the processor does with a vector (`Delivery`: the gate's offset reassembled, the code descriptor its selector names in the loaded GDT, the IST slot of the TSS that TR names) and which handler each vector must reach (`HostHandler`, from the vector numbers of `asm/traps.h` and `asm/irq.h`), not the setup code.

### `Boot` (`vmm/main.c`)
Composes `Cpu` and `Acpi` (through `INSTANCE`) and `Idt` (through `EXTENDS`, so that TLC evaluates its constant tables once) with `VmxSetup`, in `main`'s order: `cpu_init`, then `tsc_init` (`Tsc`, through `INSTANCE`), then `trap_init` once `tsc_khz` is set, then the ACPI and APIC steps once it has returned, then the VMX bring-up once `apic_init` has returned. The firmware layout is chosen by `FirmwareRead` just before `acpi_table_init`, the first step that reads it (see the bounds below). `SameProcessor` makes the three read one processor: CPUID.1 reports VMX exactly when `VmxSetup`'s processor has it, reports the APIC exactly when IA32_APICBASE enables it (a disabled APIC clears the CPUID bit), and reports x2APIC when the BIOS left x2APIC mode on. `VmxSetup`'s `kvm_init` and `Acpi`'s `verify_apic` read these facts from the processor; `CapabilitiesFromReportedLeaves` shows that `cpu_info`, which the code actually tests, holds the same bits. The boot run checks the properties of all five under one specification.

### `Firmware` (C8: `firmware/main.c`, `firmware/multiboot.c`, `firmware/elfload.h`)
The guest firmware's load of a multiboot kernel. An image is a record: the offsets of its multiboot magic words, the header at each, the ELF magic and `EI_CLASS`, `e_entry` (an `X86Bits` word) and the program headers. `fstage` is where `main` is: `search`, `elf` (inside `load_elf`'s loop, `seg` is `i`), `loaded`, `kernel`, `halt` (`load_multiboot` returned; `load_linux` is not in the tree, and `main` then calls `die`) and `panic` (an EPT violation). Every access goes through the EPT: `Mapped(f)` says whether the 2 MiB guest frame `f` is mapped, and an access to an unmapped frame is `handle_ept_violation`'s panic. The loads are kept as the sequence of `memcpy`/`memset` calls (`stores`), and `ByteAt` reads back the last one covering an address.

| Definition | Code |
|---|---|
| `find_multiboot_header`, `SearchLength` | the scan of 32-bit words below `base + MULTIBOOT_SEARCH - sizeof(struct multiboot_info)`, magic only |
| `load_multiboot` (action) | the search, the early returns, the a.out kludge (`AoutStores`, with the `uint32_t` subtractions of `WrapSub32`), the ELF magic and class switch, and `entry = hdr->e_entry` as a `uint32_t` |
| `load_elf_segment` (action) | one iteration of `load_elf32`/`load_elf64`: skip a non-`PT_LOAD` header, else `memcpy`, `memset` (`SegmentStores`) and the entry translation (`TranslateEntry`, with `SubW`/`LtW` as 64-bit unsigned arithmetic) |
| `start_multiboot` (action) | the info block (flags, `mem_upper`, the initrd as one module, the memory map from `guest_params`) and the jump |

The reference is the multiboot and ELF specifications: `SpecHeader` (first aligned magic with a valid checksum and the whole header in 8 KiB), `SpecEntry` (the entry translated through the segment holding it, as a 64-bit address) and `SpecImage` (a.out bytes from `header_addr - load_addr` on, ELF file bytes and zeroed bss).

### `StrScpy` (`lib/string.c`, `asm/word-at-a-time.h`)
`strscpy` as an operator: the word-at-a-time loop (taken only when both pointers are aligned), the byte loop and the forced NUL. An `unsigned long` is eight little-endian bytes, and `has_zero`, `create_zero_mask` and `count_masked_bytes` are computed as the code does: subtraction with borrows, `~`, `&`, the multiply by 0x0001020304050608 with carries, and `>> 7`. `SrcString`, `Terminated` and `BufString` are C strings, for what the comment above `strscpy` promises.

### `GuestBoot` (C3 and C8 composed: `vmm/main.c`, `vmm/kvm.c`)
Extends `Ept` and instantiates `Firmware` and `StrScpy`: `multiboot_cmdline` is the `strscpy` of `multiboot_init` (`vmm/multiboot.c` 21-22), whose -E2BIG is a panic before `kvm_init`; `HostBoot` is `kvm_init`, `FirmwareStep` is a firmware action running in the guest (a firmware panic is the VMM's panic), and `KernelStep` is `Ept`'s guest once `start_multiboot` has jumped. `ept_mapped` is set once by `HostBoot` from the EPT `construct_tdp` built (`EptMapped`, over the frames the firmware can touch, `QueriedFrames`); no later step changes the EPT. The kernel image is the module `multiboot_init` recorded, so its size and `guest_params.kernel_start` come from `Ept`'s kernel placement.

### Runs

| Run | Config | Expect | Properties |
|---|---|---|---|
| `vcpu_supported` | `MC_VmxVcpu.cfg` | pass (deadlock not checked: `panic` is terminal) | `TypeOK`, `EntryStateValid`, `MsrIsolation`, `FastSystemCallSemantics`, `GuestProgress`, `ArchRefinement` |
| `vcpu_efer_lma` | `MC_VmxVcpu_lma.cfg` | violation | `EntryStateValid` |
| `vcpu_ud_len` | `MC_VmxVcpu_udlen.cfg` | violation | `FastSystemCallSemantics` |
| `vcpu_cr_readback` | `MC_VmxVcpu_crread.cfg` | violation | `CrReadback` |
| `e820_boot_map` | `MC_E820.cfg` | pass | `TypeOK`, `SanitizedMapExact`, `MappedAllCorrect`, `VmmNeverRam`, `UpdatePreservesMap`, `SortOrderIrrelevant` |
| `e820_single_region` | `MC_E820_single.cfg` | violation | `SanitizeRejectsOnlyWrappingMaps` |
| `boot_bringup` | `MC_Boot.cfg` | pass (deadlock not checked: `panic` is terminal) | `TypeOK`, `HostNeverFaults`, `ControlsAllowed`, `MsrBitmapPolicy`, `AcpiTypeOK`, `RootTablesLoaded`, `CpuMapMatchesMadt`, `ApicHaltJustified`, `CapabilitiesFromReportedLeaves`, `CpuIdentified`, `ModelNameTrimmed`, `TscFromLeaf15`, `IdtConsistent`, `PicsProgrammed` |
| `acpi_ebda_scan` | `MC_Acpi_ebda.cfg` | violation | `RsdpFoundWhereSpecPlacesIt` |
| `setup_vmfail_dispatch` | `MC_VmxSetup_vmfail.cfg` | violation | `FailedEntryPanics` |
| `guest_boot` | `MC_GuestBoot.cfg` | pass (deadlock not checked: `halt`, `panic` and the kernel's last step are terminal) | `TypeOK`, `EptMapsGuestImages`, `GvaWalkFindsGuestPhys`, `EntryIsSpecEntry`, `LoadedAsSpecSays`, `CmdlineAsModule`, `SupportedKernelStarts` |
| `ept_gva_pointer` | `MC_Ept_hva.cfg` | violation | `GvaTranslation` |
| `ept_kernel_placement` | `MC_Ept_kernel.cfg` | violation | `EptMapsGuestImages` |

The E820 runs do not check deadlock: `multiboot_init` runs once and the map is then final.

**The properties.**
- `EntryStateValid`: no VM entry ever fails, whatever mix of emulated and native CR0/EFER changes happened before it.
- `MsrIsolation`: the host sees its own SYSCALL MSRs whenever it runs, and `msr_autoload.guest` holds the guest's current values.
- `FastSystemCallSemantics` (action property): compares each emulated SYSCALL/SYSRET with the SDM's definition of the instruction, using the guest's architectural MSR values. This makes it sensitive to the order inside `handle_syscall`, to the autoload store, and to the exit's instruction length.
- `GuestProgress` (liveness): every exit of a supported guest, other than a SYSCALL/SYSRET #UD, leads back into the guest. There is no panic and no failed entry. The #UD exits are excluded because whether they panic depends on the bytes `gva2hva` finds, not on the guest; `ArchRefinement` still requires that, when they do not panic, they do exactly the instruction. The run's initial states choose, through the ghost variable `misbehaves`, between a supported guest and one that may also perform every unsupported operation. The other properties hold for both; `GuestProgress` is stated for the behaviours of the supported guest.
- `ArchRefinement` (refinement, `Arch!Spec` as a property): every behaviour of the VMM and its guest is a behaviour of `VcpuArch`. This needs several things at once:
  - every handler performs its instruction's whole effect, including the skip, and nothing else;
  - the SYSCALL MSRs survive every exit and entry;
  - a native and an emulated MOV to CR0 switch IA-32e mode the same way;
  - an EFER write keeps LMA;
  - the VMM stops only for a misbehaving guest or at a SYSCALL/SYSRET (whose bytes it may misread);
  - a #UD it decodes as SYSCALL or SYSRET really was that instruction.

  The mapped CR0 includes the bits the VMM forces on. What the guest reads back is `CrReadback`'s question, not this one's.
- `CrReadback` (action property): the spec's claim that the guest reads back the CR0 value it wrote.
- `SanitizedMapExact`: the sanitized table is sorted, has no empty entries, merges neighbours of one type, and gives every address the highest type any raw entry gave it. When the output is full, this holds below the last end.
- `MappedAllCorrect`: `e820_mapped_all(start, end, type)` answers whether every address in the range has that type.
- `VmmNeverRam`, `UpdatePreservesMap`: after `multiboot_init` no entries overlap, the VMM's range is not RAM, and no RAM appeared. With room in the table, every other address keeps its type.
- `SortOrderIrrelevant`: every order the unstable sort can produce gives the same table.
- `HostNeverFaults`: for every BIOS setting of IA32_FEATURE_CONTROL, bring-up takes no #GP. This needs `vmx_disabled_by_bios` and `vmx_vcpu_enable`'s write to agree.
- `ControlsAllowed`: the negotiated controls pass VM entry's control checks on every processor `kvm_init` accepts.
- `MsrBitmapPolicy`: the bitmap, with the primary controls, makes exactly the spec's list of MSR accesses exit. These are writes of APICBASE, of the x2APIC ICR and of EFER, and every access to a VMX MSR. The SYSCALL MSRs that `VmxVcpu`'s guest writes natively pass through.
- `RootTablesLoaded`: once the root table is accepted, `initial_tables[]` holds exactly the tables the ACPI specification says to use, in order. These are the XSDT's or the RSDT's entries, without NULL entries and bad checksums, and at most `ACPI_MAX_TABLES` of them.
- `CpuMapMatchesMadt`: after `apic_init`, each MADT processor has exactly one logical ID and the BSP has ID 0. This holds whatever the order and kind of the entries.
- `ApicHaltJustified`: every panic or BUG of `apic_init` on the MADT has its cause in the firmware. That is a disabled CPU, more distinct CPUs than NR_CPUS, an unlisted BSP, or a reached subtable that is zero-length or cut short.
- `CapabilitiesFromReportedLeaves`: after `cpu_init` each capability word holds its leaf's register when the processor reports the leaf, and is zero otherwise. It fails if a level check is missing or off by one (the word then takes the highest basic leaf's data), if a register is picked wrong, or if the 0FH.1 sub-leaf is read without CQM_LLC.
- `CpuIdentified`: after `cpu_init`, vendor, family, model and stepping are the SDM's: the vendor named by the string EBX·EDX·ECX, and the display family and model. A swapped store of ECX and EDX makes an Intel CPU unknown, which `native_calibrate_tsc` tests.
- `ModelNameTrimmed`: after `cpu_init` the model name is the brand string without leading spaces and trailing whitespace (empty without brand leaves). This covers a NUL inside the brand, tabs, inner blanks and right-justified brands. A brand string of only whitespace is left out: the loop keeps its first character.
- `TscFromLeaf15`: after `tsc_init`, `tsc_khz` is the SDM's frequency (crystal × EBX / EAX of leaf 15H) on an Intel processor that reports leaf 15H with a ratio and a known crystal, and otherwise a PIT result or the assumed 2 GHz. The check reads the processor, not `cpu_info`, so it also covers the vendor and model that `cpu_init` decoded. Without the `cpuid_level` check, the processor whose BIOS limits CPUID to leaf 2 answers leaf 15H with leaf 2's cache descriptors, and `tsc_khz` becomes 24000 · 2 / 17 kHz.
- `IdtConsistent` (action property, on the `trap_init` step): through the loaded IDTR, GDT and TR, every vector with a handler reaches that handler's entry address in 64-bit ring-0 code, the double fault on the top of its IST stack and the others on the current stack, and every other vector faults; `system_vectors` is exactly the set of present gates. It breaks if the IST gate is written before the plain one, if an IST pointer is off by one stack, if an address is split wrongly, or if the spurious loop skips or overwrites a vector.
- `PicsProgrammed` (action property, on the `trap_init` step): after `i8259_init` both 8259As have completed initialization, are fully masked, deliver IRQ 0-15 on 16 distinct vectors above the exceptions with the slave's ID on the master's cascade line, and each of those vectors has a gate. A lost or extra byte in the ICW sequence shifts the later bytes into the wrong registers.
- `RsdpFoundWhereSpecPlacesIt`: the ACPI specification's rule that a valid RSDP in the EBDA's first KiB, or in E0000h-FFFFFh, is found.
- `FailedEntryPanics` (action property): the spec's rule that a failed VMLAUNCH/VMRESUME ends in a panic.
- `EptMapsGuestImages`: the first and last bytes of the firmware and of the kernel translate, by `gpa2hpa`, to where `kvm_init` copied them.
- `GvaWalkFindsGuestPhys`: `gva2hva` returns the guest-physical address the architecture finds for RIP. This needs every guest table to be found through the EPT.
- `EntryIsSpecEntry`: once the kernel runs, `entry` is the one the multiboot rules give: `entry_addr` for the a.out kludge, else `e_entry` translated through the `PT_LOAD` segment whose virtual range holds it.
- `LoadedAsSpecSays`: once the kernel runs, every byte the multiboot and ELF rules place (first and last of each copied and zeroed range) holds what they say, after every later copy or clear over it.
- `CmdlineAsModule`: `multiboot_init` panics on the command line only when it has `CMDLINE_SIZE` characters or more; otherwise `guest_params.cmdline` is NUL-terminated and holds it, whichever loop of `strscpy` copied it. The value `strscpy` returns matters only through its sign, so the property is about the bytes.
- `SupportedKernelStarts` (liveness): a kernel whose command line fits and that the specification supports, read and loaded only in the frames spec.md says the EPT maps, is started. It assumes weak fairness of `multiboot_cmdline`, `HostBoot` and `FirmwareStep`: `main` calls `multiboot_init`, `kvm_init` and `kvm_bsp_run` unconditionally, and `kvm_loop` re-enters the guest after every exit, so the firmware's straight-line code keeps running.
- `GvaTranslation`: the spec's claim that `gva2hva` returns the host address of RIP.

**What the violations show** (details in `PROJECT.json`, "findings"):
- `vcpu_efer_lma`: `handle_wrmsr` takes EFER.LMA from the written value, although the bit is read-only. A long-mode guest that writes EFER as a constant makes the next entry fail.
- `vcpu_ud_len`: for a #UD exit the instruction length is undefined. With the previous exit's length left in the field, SYSCALL saves a wrong return address.
- `vcpu_cr_readback`: the read shadows are fixed at WP|NE. A guest that clears WP reads it back as set.
- `setup_vmfail_dispatch`: the VMCS is made current without VMCLEAR, so its launch state is undefined, and the first VMLAUNCH can fail. `kvm_loop` ignores `vmx->fail`, so `vmx_handle_exit` dispatches on an exit reason no exit wrote and the loop re-enters with VMRESUME.
- `acpi_ebda_scan`: `acpi_find_root_pointer` shifts the constant 0x40E instead of the segment stored there. It scans 0x40E0-0x44E0, never the EBDA, so a firmware that keeps its only RSDP in the EBDA makes the boot panic.
- `e820_single_region`: a map of one valid RAM entry fails `__e820_update_table` (it requires two entries), and `multiboot_init` panics.
- `ept_gva_pointer`: the guest's code page carries a protection key. `gva2hva` never passes the leaf's address through the EPT. Because gpa 0 maps to `guest_firmware_base`, the #UD handler reads the instruction from the wrong host address.
- `ept_kernel_placement`: a kernel crossing a 2 MiB boundary is only partly mapped, and its copy overruns `guest_kernel_mem`. The model also holds a kernel at or above 1 GiB: its PD entry is in a page no PDPT entry references, so the EPT covers 1 GiB, not the spec's 4 GiB.
  Also, `entry & ~0xfff` keeps bits 52..63 (XD, protection key, software bits), so the pointer returned is non-canonical.

**Bounds** (`MC_VmxVcpu.tla`).
- The guest boots the way a 64-bit kernel does, with four CR0 values: two exit (WP/NE clear) and two run natively (WP/NE set). With and without PG, this gives both the emulated and the native long-mode switches, and both directions of each.
- The guest moves PAE to CR4. EFER is 0 or LME|SCE. RFLAGS loaded by POPF or SYSRET has IF set; SYSCALL's SFMASK clears it.
- MOV to CR takes its source from RBX. RAX carries CPUID, RDMSR and RDTSC results, so a handler that decodes the wrong register reads another value.
- The SYSCALL MSRs hold Linux's STAR (`0x23 << 48 | 0x10 << 32`), a small LSTAR and an SFMASK of IF. The host's values differ from all of them, so a mix-up is visible.
- RIP stays below `MaxRip = 4`, and the only jump target is address 0. This is enough for an instruction at a fresh RIP, an instruction after a skip, and SYSCALL's return address.
- `HvaInsns` maps each instruction to itself or to OTHER. The bytes either are the instruction (host and guest memory coincide at that address) or are no fast-system-call encoding. Both the emulation and the panic path run for every SYSCALL and SYSRET.
- Two ICR modes: INIT, which `handle_wrmsr` filters (as it does STARTUP), and NMI, which it passes on. Two CPUID leaves, including the rewritten leaf 1 and the hypervisor leaf.
- With both guests, the run has 548 300 distinct states, depth 37, and takes about two minutes. About 40 seconds of that is the refinement check, which is evaluated on each of the 6.2 million transitions.

**Bounds of `E820` and `Ept`.**
- E820 uses a 3-bit address space, VMM range [2, 4), and raw maps of 2 or 3 entries over five start addresses and sizes 0, 1, 2, 3 and 6 (6 wraps), in both types. These bounds give nested, overlapping, adjacent, empty and wrapping entries, and tables that fill up. The run has capacities 4 and 2. At capacity 2 the `break` and the drop in `RangeAdd` both happen. At capacity 4 the range update has room to split an entry.
- VmxSetup uses eleven processors: the capability words of a recent core under five IA32_FEATURE_CONTROL settings; an older core without the optional controls (unlocked, and locked and enabled); and four that `kvm_init` must refuse. Exit reasons are 0 and 10 (handled) and 2 (no handler). All of them report the TRUE MSRs and write-back EPT, as every processor with EPT does. Without those, every entry fails (listed as hazards).
- Ept uses the real host addresses of the link layout (tables at 0x10201000, frames at 0x10400000 and 0x10600000), two kernel placements inside one frame, and three guest mappings (4 KiB, 2 MiB and 1 GiB leaves). With these, every level of both walkers and both large-page levels are exercised.

**Bounds of `GuestBoot`** (`MC_GuestBoot.tla`).
- Nine images: an xv6-style ELF32 kernel linked at 0x80100000 and loaded at 1 MiB, with a `PT_GNU_STACK` header first and a data segment with bss, once with a virtual and once with a physical `e_entry`; an identity-linked ELF64 at 1 MiB; a.out kludge kernels at 1 MiB and at 16 MiB; an ELF64 at 16 MiB (as Linux loads); no header; a header on neither a.out nor ELF; and `ELFCLASSNONE`.
- Three kernel placements: `Ept`'s two and a 4 KiB module in the last page of its frame, whose header search runs past the frame.
- With and without an initrd, and a two-entry memory map. This reaches every branch of `load_multiboot` and `load_elf_segment`, both panic paths among them.
- `CMDLINE_SIZE` is 16 rather than 1024. The copy depends on the size only through the rounds of the word loop and the boundary, and 16 gives two rounds. There are four command lines: empty, 9 characters (the NUL in the second word), 15 (the longest that fits) and 16 (one too long). Their characters include 0x01 and bytes with the high bit set, the cases `has_zero`'s borrow and `~a` exist for. Both alignments are tried.
- The run has 648 initial and 7 212 distinct states and takes about 30 seconds.

**Bounds of `Acpi`** (`MC_AcpiTables.tla`).
- There are 4 RSDP placements, each of revision 0 and 2: F segment only, EBDA only, a bad-checksum copy first, and a bad-extended-checksum copy first.
- There are 4 root-table entry lists: NULL and bad-checksum entries with FACS; more valid tables than the array; no MADT; and the plain case. A short RSDT is added on top.
- There are 6 MADTs: a lone x2APIC; two CPUs; the BSP after an AP with an I/O APIC and a repeat; a disabled CPU; three CPUs; and a truncated table.
- The hardware combines APIC enabled (xAPIC or x2APIC) or disabled with BSP ID 0 or 5.
- NR_CPUS = 2 and ACPI_MAX_TABLES = 3, so both limits are reached. MAX_LOCAL_APIC is Linux's 32768, so that guard never fires, as in the code.
- The boot run has 162 initial and 193 260 distinct states and takes about 20 seconds. Nothing before `acpi_table_init` reads the firmware, so `Boot` starts with `fw` unread and chooses the layout in `FirmwareRead`, once `trap_init` has returned. `cpu_init`, `tsc_init` and `trap_init` (the costly step, with its two properties) are therefore explored once per processor and machine, not once more for each of the 193 layouts. The behaviours of the code are the same.

**Bounds of `Tsc`** (`MC_Boot.tla`). The Coffee Lake core reports leaf 15H with ratio 266/2 and ECX 0, so its crystal comes from the model switch (model 9EH, 24 MHz). The APIC-disabled variant also names the crystal in ECX, so both crystal paths run. The Limited core has level 2, AMD has no leaf 15H, and the Pentium 4 and Centaur cores have lower levels, so those four fall back to the PIT. `PitKhz = {0, 3200000}` makes the PIT either fail, which leads to the 2 GHz default, or succeed. The products stay far below 2^31, where TLC would stop with an overflow error, so the 32-bit wrap of `crystal_khz * ebx_numerator` never happens in the model. It takes an EBX above 178 956 with a 24 MHz crystal.

**Bounds of `Idt`** (`MC_Boot.tla`).
- The 19 entry stubs are 16 bytes apart from 0x1000ff90, so that they straddle a 64 KiB boundary and `offset_middle` differs between gates.
- The IDT, the per-CPU entry area and the CPU stack are at distinct link addresses, so a gate or TSS pointer taken from the wrong object is visible.
- The PICs start as a PC BIOS leaves them: initialized with vector bases 08H and 70H and partly unmasked, so that the remap and the final masking both change something.
- All 256 vectors are checked; `trap_init` has no inputs besides these.

**Bounds of `Cpu`** (`MC_Boot.tla`). Six processors:
- a Coffee Lake core with LLC monitoring and a right-justified brand;
- the same core with Limit CPUID Maxval (basic leaves up to 2 only, an all-blank brand);
- the same core with the APIC disabled;
- a Zen 2 part (no VMX, family 17H through the extended family, extended leaves up to 80000020H, NUL-padded brand);
- a Pentium 4 (family 0FH, no brand leaves);
- a Centaur core, whose vendor `cpu_devs` does not list.

Between them every level check of `get_cpu_cap` is taken both ways, and every branch of the trim loop is reached. No processor has a base family from 7 to 14 with a nonzero extended model. There `x86_model`'s `fam >= 6` and the SDM's family 6 or 15 would differ, but such CPUs have the field reserved as zero.

## Not modelled, and why
- **APIC register programming, `uptime` and `udelay`, threads, consoles, and the libraries other than `strscpy`.** `uptime` and `udelay` scale 64-bit cycle counts, which are beyond TLC's integers, and only spend time; the PIT polling loop of `quick_pit_calibrate` is its result (see `Tsc`). `syscall_init` is never called, and `update_intr_gate` has no callers. The host's own handlers (`do_*`) are not modelled: `IdtConsistent` checks where a vector lands, not what the handler does. NMI, debug, breakpoint and machine-check have no gate in `def_idts`, so such an exception in host mode is itself a #NP; `IdtConsistent` states this as the faulting set, since nothing in the tree raises them. These are device register writes and formatting. `asm/apic.h` (the register constants and `read_apic_id`) is not in the tree. No VMM state depends on them, except the physical APIC, which `VmxVcpu` abstracts to its base MSR and the IPIs sent. `x2apic_init` and the AP path of `verify_apic` are never called, because only the BSP runs. Table printing is not modelled.
- **Host-state VMCS fields.** They are written once by `vmx_vcpu_setup` from the host's own registers, and no handler changes them. `VmxVcpu` does not model VMfail. VMXON, VMPTRLD and VMfail are in `VmxSetup`, where a VMfail comes from the launch state or the control fields.
- **Guest-state VMCS fields never written by `vmx_vcpu_setup`** (for example the guest PAT and BNDCFGS that the optional entry controls load). Without VMCLEAR they hold whatever the region held. No property of the model reads them.
- **The GPRs the handlers do not use, and CR2.** The world switch copies them unchanged, and no handler reads them.
- **`handle_ept_violation`.** It calls `vcpu->ept_handler`, but `struct kvm_vcpu` has no such member and nothing sets one. The model takes the `panic` branch. The next statement, `static uint64_t masks[] = {...}` at `vmx.c:1203`, also lacks its semicolon, so this part of `vmx.c` is work in progress.

- **`e820_print`, `e820_end_of_ram_pfn`.** The first only formats; the second has no caller.
- **The guest_params header of `kvm_init`.** The magic compare and the copy of `guest_params` and the e820 table are byte copies into the firmware frame; they do not touch the EPT or any table a walker reads.
- **`load_linux` and `start_multiboot`.** `load_linux` (bzImage) is declared in `firmware/boot.h` but not in the tree; the model ends the firmware in `halt`, which is `die`. `start_multiboot` is an assembly stub that is not in the tree either; it is the jump to `entry`.
- **Firmware divergences without a run.** The run budget is in use, so three differences from the multiboot and ELF specifications are hazards in `PROJECT.json`, not runs:
  - an ELF64 `e_entry` is truncated to 32 bits before translation. Adding a higher-half ELF64 image (entry 0xffffffff80100020, linked at 0xffffffff80100000, loaded at 1 MiB) to `MC_Images` makes `EntryIsSpecEntry` fail;
  - the search takes the magic alone (no checksum) in a window 116 bytes short of 8 KiB;
  - the a.out kludge copies from the image's first byte, which is what the specification gives only when `header_addr - load_addr` is the header's file offset.
- **The interruptibility clear of `vmx_skip_emulated_instruction`** (vmx.c:1393-1396). No modelled guest step sets STI or MOV-SS blocking, so the clear never changes a modelled state.
- **`gva2hva` with paging off.** The #UD it serves is SYSCALL/SYSRET, which only arise in 64-bit mode (listed as a hazard).

## Plan for the remaining parts
1. `VmxVcpu`, extended: the spec's SYSCALL/SYSRET symmetry property, and a liveness form of `VcpuArch` (a supported guest's issued instruction always retires).
2. `Firmware`: the `guest_params` header and jump header `kvm_init` writes, read by the firmware's entry code.
