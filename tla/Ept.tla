--------------------------------- MODULE Ept ---------------------------------
(***************************************************************************)
(* The EPT that kvm_init builds (construct_tdp, src/vmm/kvm.c), the copies *)
(* of the firmware and the kernel into the two 2 MiB guest frames, and the *)
(* two software walkers of src/vmm/vmx.c: gpa2hpa over the EPT, and        *)
(* gva2hva over the guest's own page tables, which handle_exception_nmi    *)
(* uses to fetch the bytes at the guest RIP.                               *)
(*                                                                         *)
(* Host memory is the sparse function mem from 8-byte slot addresses to    *)
(* words; a slot never written reads as zero (the tables and the guest     *)
(* frames are static arrays in .bss).  __va and __pa are the identity      *)
(* (sys/types.h).  Addresses are X86Bits words, so bits 52..63 of an       *)
(* entry are kept.                                                         *)
(***************************************************************************)
EXTENDS X86Bits, TLC

CONSTANTS
    PML4Addr,     \* __pa(ept_pml4)
    PDPTAddr,     \* __pa(ept_pdpt_0_512g)
    PDAddr,       \* __pa(ept_pd_0_4g), four pages
    FirmwareMem,  \* __pa(guest_firmware_mem), 2 MiB aligned
    KernelMem,    \* __pa(guest_kernel_mem), 2 MiB aligned
    FirmwareSize, \* _binary_firmware_end - _binary_firmware_start
    Kernels,      \* [start, last]: guest_params.kernel_start and kernel_end - 1
    Setups,       \* the guest's paging structures: [cr3, ptes : {[at, val]}]
    Gvas          \* guest-virtual addresses of a #UD

FIRMWARE_START == 4096
SZ_2M == 2097152

\* kvm.c: EPTE_READ | EPTE_WRITE | EPTE_EXECUTE, EPTE_PSE
RWX == {0, 1, 2}
EPTE_PSE == {7}

\* vmx_set_tdp: __pa(ept_pml4) | VMX_EPT_DEFAULT_MT (6) | (3 << 3)
EPTP == W(PML4Addr) \cup {1, 2, 3, 4}

\* shifts[] and the test of masks[]: bits at or above shifts[i]
Shift == <<39, 30, 21, 12>>
Hi(w, s) == {b \in w : b >= s}

\* (x >> shifts[i]) & 0x1ff
Idx(x, i) == Val(Field(x, Shift[i + 1], 9))

\* Faulty variant: the index is not scaled by the size of an entry.
Slot_unscaled(base, idx) == base \cup W(idx)

\* &entries[idx] for a page-aligned table
Slot(base, idx) == base \cup Shl(W(idx), 3)

VARIABLES
    mem,      \* host memory: slot address -> word
    kernel,   \* guest_params.kernel_start and kernel_end - 1
    setup,    \* the paging structures this guest builds
    written,  \* the entries of setup the guest has stored so far
    cr3,      \* GUEST_CR3
    pg,       \* GUEST_CR0.PG
    phase,    \* "boot", "guest", "panic"
    hva       \* the last pointer gva2hva returned: [gva, res]

vars == <<mem, kernel, setup, written, cr3, pg, phase, hva>>

\* Outcomes that are not addresses, kept apart from every word by a bit
\* no word has: a failed assert, an EPT violation, a guest page fault.
AssertFailed == {64}
Violation == {65}
Fault == {66}
NotCopied == {67}

Read(m, a) == IF a \in DOMAIN m THEN m[a] ELSE {}
Write(m, a, v) == (a :> v) @@ m

-----------------------------------------------------------------------------
(* construct_tdp and the copies of kvm_init.                               *)

\* Faulty variant: the kernel's leaf is written without EPTE_PSE.
construct_tdp_no_pse(m, ks) ==
    LET m1 == Write(m, W(PML4Addr), W(PDPTAddr) \cup RWX)
        m2 == Write(m1, W(PDPTAddr), W(PDAddr) \cup RWX)
        m3 == Write(m2, W(PDAddr), W(FirmwareMem) \cup RWX \cup EPTE_PSE)
    IN Write(m3, Slot(W(PDAddr), ks \div SZ_2M), W(KernelMem) \cup RWX)

\* Entry 0 of the PML4 and of the PDPT, the firmware's leaf at PD index 0
\* and the kernel's at PD index kernel_start / 2 MiB, in this order.
construct_tdp(m, ks) ==
    LET m1 == Write(m, W(PML4Addr), W(PDPTAddr) \cup RWX)
        m2 == Write(m1, W(PDPTAddr), W(PDAddr) \cup RWX)
        m3 == Write(m2, W(PDAddr), W(FirmwareMem) \cup RWX \cup EPTE_PSE)
    IN Write(m3, Slot(W(PDAddr), ks \div SZ_2M), W(KernelMem) \cup RWX \cup EPTE_PSE)

\* __gfva and __gkva: the host address the memcpys of kvm_init put the
\* byte of guest-physical address x at.
gfva(x) == W(FirmwareMem) \cup W(x % SZ_2M)
gkva(x) == W(KernelMem) \cup W(x % SZ_2M)

\* Where the guest's byte x is in host memory after kvm_init, if anywhere.
Copied(k, x) ==
    CASE x \in FIRMWARE_START .. FIRMWARE_START + FirmwareSize - 1 -> gfva(x)
      [] x \in k.start .. k.last -> gkva(x)
      [] OTHER -> NotCopied

-----------------------------------------------------------------------------
(* gpa2hpa: the loop over the four levels; AssertFailed is a failed assert.    *)

RECURSIVE EptWalk(_, _, _, _)
EptWalk(m, tbl, gpa, i) ==
    LET e == Read(m, Slot(tbl, Idx(gpa, i)))
    IN CASE 0 \notin e -> AssertFailed
         [] 7 \in e /\ i \notin {1, 2} -> AssertFailed
         [] 7 \in e -> Hi(e, Shift[i + 1]) \cup Trunc(gpa, Shift[i + 1])
         [] i = 3 -> Hi(e, 12) \cup Trunc(gpa, 12)
         [] OTHER -> EptWalk(m, Hi(e, 12), gpa, i + 1)

gpa2hpa(m, eptp, gpa) == EptWalk(m, Hi(eptp, 12), gpa, 0)

-----------------------------------------------------------------------------
(* gva2hva: the guest's four levels, each table found through gpa2hpa.     *)

RECURSIVE GuestWalk(_, _, _, _)
\* Faulty variant: the next table is read at the guest-physical address
\* of the entry, without gpa2hpa.
GuestWalk_untranslated(m, tbl, gva, i) ==
    LET e == Read(m, Slot(tbl, Idx(gva, i)))
    IN CASE 0 \notin e -> AssertFailed
         [] 7 \in e /\ i \notin {1, 2} -> AssertFailed
         [] 7 \in e -> Hi(e, Shift[i + 1]) \cup Trunc(gva, Shift[i + 1])
         [] i = 3 -> Hi(e, 12) \cup Trunc(gva, 12)
         [] OTHER -> GuestWalk(m, Hi(e, 12), gva, i + 1)

GuestWalk(m, tbl, gva, i) ==
    LET e == Read(m, Slot(tbl, Idx(gva, i)))
        next == gpa2hpa(m, EPTP, Hi(e, 12))
    IN CASE 0 \notin e -> AssertFailed
         [] 7 \in e /\ i \notin {1, 2} -> AssertFailed
         [] 7 \in e -> Hi(e, Shift[i + 1]) \cup Trunc(gva, Shift[i + 1])
         [] i = 3 -> Hi(e, 12) \cup Trunc(gva, 12)
         [] next = AssertFailed -> AssertFailed
         [] OTHER -> GuestWalk(m, next, gva, i + 1)

gva2hva(m, gcr3, gva) ==
    LET root == gpa2hpa(m, EPTP, Hi(gcr3, 12))
    IN IF root = AssertFailed THEN AssertFailed ELSE GuestWalk(m, root, gva, 0)

-----------------------------------------------------------------------------
(* The architecture: the walks the processor does (SDM 28.2.2 for the EPT, *)
(* 4.5 for 4-level paging), with physical addresses in bits 12..51.        *)

PhysAddr(e, s) == {b \in e : s <= b /\ b <= 51}

RECURSIVE HwEptWalk(_, _, _, _)
HwEptWalk(m, tbl, gpa, i) ==
    LET e == Read(m, Slot(tbl, Idx(gpa, i)))
    IN CASE e \cap {0, 1, 2} = {} -> Violation
         [] 7 \in e /\ i \in {1, 2} -> PhysAddr(e, Shift[i + 1]) \cup Trunc(gpa, Shift[i + 1])
         [] i = 3 -> PhysAddr(e, 12) \cup Trunc(gpa, 12)
         [] OTHER -> HwEptWalk(m, PhysAddr(e, 12), gpa, i + 1)

\* The host-physical address of guest-physical gpa.
EptTranslate(m, gpa) == HwEptWalk(m, PhysAddr(EPTP, 12), gpa, 0)

RECURSIVE HwGuestWalk(_, _, _, _)
HwGuestWalk(m, tbl, gva, i) ==
    LET h == EptTranslate(m, tbl)
        e == IF h = Violation THEN {} ELSE Read(m, Slot(h, Idx(gva, i)))
    IN CASE 0 \notin e -> Fault
         [] 7 \in e /\ i \in {1, 2} -> PhysAddr(e, Shift[i + 1]) \cup Trunc(gva, Shift[i + 1])
         [] i = 3 -> PhysAddr(e, 12) \cup Trunc(gva, 12)
         [] OTHER -> HwGuestWalk(m, PhysAddr(e, 12), gva, i + 1)

\* The guest-physical address the guest's page tables map gva to.
GuestPhys(m, gcr3, gva) == HwGuestWalk(m, PhysAddr(gcr3, 12), gva, 0)

-----------------------------------------------------------------------------
(* The boot and the guest.                                                 *)

NoHva == [gva |-> 0, res |-> {68}]

Init ==
    /\ mem = <<>>
    /\ kernel \in Kernels
    /\ setup \in Setups
    /\ written = {}
    /\ cr3 = {}
    /\ pg = FALSE
    /\ phase = "boot"
    /\ hva = NoHva

\* kvm_init after hardware_setup: construct_tdp, then the copies of the
\* firmware and the kernel image (Copied); run_vcpu then starts the guest.
kvm_init ==
    /\ phase = "boot"
    /\ mem' = construct_tdp(mem, kernel.start)
    /\ phase' = "guest"
    /\ UNCHANGED <<kernel, setup, written, cr3, pg, hva>>

\* The guest stores one entry of its paging structures; the processor
\* translates the store through the EPT, and an EPT violation ends in the
\* panic of handle_ept_violation.
GuestStorePte(p) ==
    /\ phase = "guest"
    /\ LET h == EptTranslate(mem, W(p.at))
       IN IF h = Violation
          THEN phase' = "panic" /\ UNCHANGED mem
          ELSE mem' = Write(mem, h, p.val) /\ UNCHANGED phase
    /\ written' = written \cup {p}
    /\ UNCHANGED <<kernel, setup, cr3, pg, hva>>

\* MOV to CR3 (it exits, and handle_cr writes GUEST_CR3).
GuestLoadCr3 ==
    /\ phase = "guest"
    /\ cr3' = W(setup.cr3)
    /\ UNCHANGED <<mem, kernel, setup, written, pg, phase, hva>>

\* CR0.PG once the structures are complete and CR3 points at them.
GuestEnablePaging ==
    /\ phase = "guest" /\ ~pg
    /\ written = setup.ptes /\ cr3 = W(setup.cr3)
    /\ pg' = TRUE
    /\ UNCHANGED <<mem, kernel, setup, written, cr3, phase, hva>>

\* A #UD at a mapped guest RIP: handle_exception_nmi calls gva2hva(rip)
\* to read the instruction; a failed assert panics.
UdExit(gva) ==
    /\ phase = "guest" /\ pg
    /\ GuestPhys(mem, cr3, W(gva)) # Fault
    /\ LET res == gva2hva(mem, cr3, W(gva))
       IN /\ hva' = [gva |-> gva, res |-> res]
          /\ phase' = IF res = AssertFailed THEN "panic" ELSE phase
    /\ UNCHANGED <<mem, kernel, setup, written, cr3, pg>>

Next ==
    \/ kvm_init
    \/ \E p \in setup.ptes \ written : GuestStorePte(p)
    \/ GuestLoadCr3
    \/ GuestEnablePaging
    \/ \E gva \in Gvas : UdExit(gva)

Spec == Init /\ [][Next]_vars

-----------------------------------------------------------------------------
(* Properties.                                                             *)

\* Host memory is written only at 8-byte slots: every entries[idx] is
\* scaled by the size of an entry.
TypeOK ==
    /\ \A a \in DOMAIN mem : a \in Word /\ a \cap {0, 1, 2} = {} /\ mem[a] \in Word
    /\ phase \in {"boot", "guest", "panic"}
    /\ hva.res \in Word \cup {AssertFailed, NoHva.res}

\* After kvm_init, the EPT (walked as gpa2hpa walks it) takes every byte
\* of the firmware and of the kernel image to where kvm_init copied it:
\* the spec's two populated 2 MiB leaves.
EptMapsGuestImages ==
    phase # "boot" =>
        \A x \in {FIRMWARE_START, FIRMWARE_START + FirmwareSize - 1, kernel.start, kernel.last} :
            gpa2hpa(mem, EPTP, W(x)) = Copied(kernel, x)

\* The address gva2hva returns for the #UD's RIP is the guest-physical
\* address the guest's page tables map the RIP to: every table of the
\* guest's walk is found through the EPT.
GvaWalkFindsGuestPhys ==
    hva # NoHva => hva.res = GuestPhys(mem, cr3, W(hva.gva))

\* The spec of the walker: the pointer handle_exception_nmi reads the
\* instruction bytes from is the host address of the guest's RIP, the
\* guest-physical address translated through the EPT.
GvaTranslation ==
    hva # NoHva => hva.res = EptTranslate(mem, GuestPhys(mem, cr3, W(hva.gva)))

=============================================================================
