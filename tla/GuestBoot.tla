------------------------------ MODULE GuestBoot ------------------------------
(***************************************************************************)
(* The guest's boot: kvm_init builds the EPT and copies the images (Ept),  *)
(* run_vcpu starts the guest at FIRMWARE_START, the firmware loads the     *)
(* kernel through the EPT (Firmware), and the kernel then builds its page  *)
(* tables and takes #UD exits (Ept).  An EPT violation of the firmware is  *)
(* the VMM's panic, as one of the kernel is.                               *)
(***************************************************************************)
EXTENDS Ept, Sequences

CONSTANTS
    Images,             \* kernel images, their size taken from the module
    Params,             \* guest_params without the kernel range
    MULTIBOOT_SEARCH,
    MultibootInfoSize,
    Cmdlines,           \* the module's command line, as memory from its first byte
    CMDLINE_SIZE        \* sizeof(guest_params.cmdline)

VARIABLES image, params, fstage, seg, entry, stores, multiboot_info,
          ept_mapped,      \* the frames the EPT kvm_init built maps
          module_cmdline,  \* the bytes at __va(mods[0].cmdline)
          cmdline,         \* guest_params.cmdline
          mbstage          \* multiboot_init: "cmdline", "done" or "panic"

F == INSTANCE Firmware
S == INSTANCE StrScpy

\* The 2 MiB frames the firmware reads or writes for image img placed at
\* ks: the header search, the a.out copy and bss, and each segment's
\* source and destination.  Mapped is only asked about these.
QueriedFrames(img, ks) ==
    LET o    == F!find_multiboot_header(img)
        aout == IF o # -1 /\ img.header[o].aout
                  THEN LET st == F!AoutStores(img.header[o])
                       IN F!Frames(ks, st[1].len) \cup F!Frames(st[1].dst, st[1].len)
                            \cup F!Frames(st[2].dst, st[2].len)
                ELSE {}
        elf  == UNION {F!Frames(ks + p.offset, p.filesz) \cup F!Frames(p.paddr, p.memsz)
                       : p \in Range(img.phdrs)}
    IN F!Frames(ks, F!SearchLength(img)) \cup aout \cup elf

\* Whether the EPT in m maps each of those frames.
EptMapped(m) ==
    [a \in QueriedFrames(image, params.kernel_start) |-> EptTranslate(m, W(a)) # Violation]

fwVars == <<image, params, fstage, seg, entry, stores, multiboot_info>>
eptVars == <<mem, kernel, setup, written, cr3, pg, hva>>
mbVars == <<module_cmdline, cmdline, mbstage>>
bootVars == <<vars, fwVars, ept_mapped, mbVars>>

\* guest_params.kernel_start and kernel_end come from the module the host
\* bootloader placed (multiboot_init); the image is that module.
BootInit ==
    /\ Init
    /\ image \in {[i EXCEPT !.size = kernel.last - kernel.start + 1] : i \in Images}
    /\ params \in {[p EXCEPT !.kernel_start = kernel.start, !.kernel_end = kernel.last + 1]
                   : p \in Params}
    /\ F!InitLoader
    /\ ept_mapped = [a \in QueriedFrames(image, params.kernel_start) |-> FALSE]
    /\ module_cmdline \in Cmdlines
    /\ cmdline = [i \in 0 .. CMDLINE_SIZE - 1 |-> 0]
    /\ mbstage = "cmdline"

\* multiboot_init copies the module's command line with strscpy and panics
\* when it reports -E2BIG.  guest_params is __packed and the bootloader's
\* string is anywhere, so either may be unaligned.
multiboot_cmdline ==
    /\ mbstage = "cmdline"
    /\ \E aligned \in BOOLEAN :
         LET r == S!strscpy(cmdline, module_cmdline, CMDLINE_SIZE, aligned)
         IN /\ cmdline' = r.dest
            /\ mbstage' = IF r.ret < 0 THEN "panic" ELSE "done"
    /\ UNCHANGED <<vars, fwVars, ept_mapped, module_cmdline>>

\* kvm_init (Ept), before the guest runs; the EPT it builds is not
\* changed afterwards, so which frames it maps is recorded here once.
HostBoot == mbstage = "done" /\ kvm_init /\ ept_mapped' = EptMapped(mem') /\ UNCHANGED <<fwVars, mbVars>>

\* One step of the firmware in the guest; an EPT violation panics.
FirmwareStep ==
    /\ phase = "guest"
    /\ F!FwNext
    /\ phase' = IF fstage' = "panic" THEN "panic" ELSE phase
    /\ UNCHANGED <<eptVars, ept_mapped, mbVars>>

\* The kernel, once start_multiboot has jumped to it.
KernelStep ==
    /\ fstage = "kernel"
    /\ \/ \E p \in setup.ptes \ written : GuestStorePte(p)
       \/ GuestLoadCr3
       \/ GuestEnablePaging
       \/ \E gva \in Gvas : UdExit(gva)
    /\ UNCHANGED <<fwVars, ept_mapped, mbVars>>

BootNext == multiboot_cmdline \/ HostBoot \/ FirmwareStep \/ KernelStep

\* main calls multiboot_init, kvm_init and then kvm_bsp_run unconditionally, and the
\* firmware is straight-line guest code that the vCPU keeps executing
\* (kvm_loop re-enters the guest after every exit).
BootSpec == BootInit /\ [][BootNext]_bootVars
            /\ WF_bootVars(multiboot_cmdline) /\ WF_bootVars(HostBoot) /\ WF_bootVars(FirmwareStep)

-----------------------------------------------------------------------------
(* Properties.                                                             *)

EntryIsSpecEntry == F!EntryIsSpecEntry
LoadedAsSpecSays == F!LoadedAsSpecSays

\* The frames spec.md (4.C3) says the EPT maps: that of FIRMWARE_START and
\* that of the kernel module.
SpecFrames == {0, (kernel.start \div SZ_2M) * SZ_2M}
InSpecFrames(a, len) == F!Frames(a, len) \subseteq SpecFrames

\* A kernel the firmware must start: a command line that fits
\* guest_params (multiboot_init panics otherwise), a multiboot header the specification
\* recognises, an a.out kludge or a 32- or 64-bit ELF image, and every
\* byte it reads or loads in the frames spec.md maps.
Supported ==
    LET o  == F!SpecHeader(image)
        h  == image.header[o]
        ks == params.kernel_start
    IN /\ Len(S!SrcString(module_cmdline)) < CMDLINE_SIZE
       /\ o # -1
       /\ InSpecFrames(ks, MULTIBOOT_SEARCH)
       /\ IF h.aout
            THEN \A b \in F!SpecImage(image) : InSpecFrames(b[1], 1)
          ELSE /\ image.elfmag /\ image.class \in {F!ELFCLASS32, F!ELFCLASS64}
               /\ \A p \in F!Loads(image) :
                    InSpecFrames(ks + p.offset, p.filesz) /\ InSpecFrames(p.paddr, p.memsz)

\* A supported kernel is eventually started: the header search, the
\* loaders' loop over the program headers and construct_tdp's two leaves
\* leave nothing on the way to start_multiboot that stops or faults.
SupportedKernelStarts == Supported => <>(fstage = "kernel")

\* strscpy keeps the comment above it for the command line: multiboot_init
\* panics on it only when it has CMDLINE_SIZE characters or more, and
\* otherwise guest_params.cmdline, which the firmware hands to the kernel,
\* is NUL-terminated and holds it, whether the word-at-a-time loop
\* (both pointers aligned) or the byte loop copied it.
CmdlineAsModule ==
    LET s == S!SrcString(module_cmdline)
    IN /\ mbstage = "done" =>
            /\ Len(s) < CMDLINE_SIZE
            /\ S!Terminated(cmdline, CMDLINE_SIZE)
            /\ S!BufString(cmdline, CMDLINE_SIZE) = s
       /\ mbstage = "panic" => Len(s) >= CMDLINE_SIZE
=============================================================================
