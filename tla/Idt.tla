--------------------------------- MODULE Idt ---------------------------------
(***************************************************************************)
(* trap_init (src/kernel/traps.c): the boot CPU's GDT and TSS              *)
(* (switch_to_new_gdt), the IDT (src/kernel/idt.c: idt_setup_traps,        *)
(* idt_setup_ist_traps, idt_setup_apic_and_irq_gates), the two 8259A PICs  *)
(* (i8259_init, src/kernel/i8259.c) and the MSRs trap_init writes.         *)
(*                                                                         *)
(* Addresses are words (X86Bits).  Symbols of the VMM image and the per-   *)
(* CPU areas are below 2^31, and __ENTRY_ADDR adds 0xffff800000000000,     *)
(* which sets bits 47..63 of an address below 2^47.  The hardware side is  *)
(* modelled too: how the CPU finds the handler, code segment and stack of  *)
(* a vector (Delivery), and how an 8259A takes the bytes written to its    *)
(* command and data ports (PicOut).                                        *)
(***************************************************************************)
EXTENDS X86Bits, SequencesExt

CONSTANTS
  HandlerAddr,  \* [entry stub -> link address]: divide_error, ..., spurious_interrupt
  EntryArea,    \* &cpu_entry_area of CPU 0 (gdt page, then tss, then exception_stacks)
  CpuStack,     \* &cpu_stacks[0]
  IdtAddr,      \* &idt_table
  InitialGs,    \* MSR_GS_BASE as head.S left it (initial_gs)
  BiosPics      \* the PIC states the firmware may leave

VARIABLES
  gdt,            \* the per-CPU GDT: entry -> descriptor
  tss,            \* the per-CPU TSS: sp0, ist[1..7], io_bitmap_base
  dtr,            \* GDTR, IDTR and TR
  idt_table,      \* vector -> gate
  system_vectors, \* the vectors set in system_vectors
  pic,            \* "master", "slave" -> the 8259A's state
  host_msr,       \* the MSRs trap_init writes
  trapped         \* trap_init has returned

ivars == <<gdt, tss, dtr, idt_table, system_vectors, pic, host_msr, trapped>>

(***************************************************************************)
(* Constants of asm/segment.h, asm/threads.h, asm/irq.h, asm/traps.h.      *)
(***************************************************************************)
Vectors == 0 .. 255                     \* IDT_ENTRIES, NR_VECTORS
GDT_ENTRIES == 16
GDT_ENTRY_KERNEL_CS == 2
GDT_ENTRY_TSS == 8
KERNEL_CS == GDT_ENTRY_KERNEL_CS * 8
PAGE_SIZE == 4096
CPU_STACK_SIZE == 4 * PAGE_SIZE
EXCEPTION_STACK_SIZE == PAGE_SIZE
NR_EXCEPTION_STACKS == 4
DOUBLEFAULT_STACK == 1
TSS_SIZE == 104                         \* sizeof(struct tss), packed
GATE_INTERRUPT == 14
DESC_TSS == 9
FIRST_EXTERNAL_VECTOR == 32
LOCAL_TIMER_VECTOR == 238
ERROR_APIC_VECTOR == 254
SPURIOUS_APIC_VECTOR == 255
X86_TRAP_DF == 8
ISA_IRQ_VECTOR(irq) ==
  LET b == FIRST_EXTERNAL_VECTOR + 16 IN (b - (b % 16)) + irq
PIC_CASCADE_IR == 2
MASTER_ICW4_DEFAULT == 1
SLAVE_ICW4_DEFAULT == 1

\* The per-CPU area: its gdt page, the TSS after it, the exception stacks
\* after the TSS (struct cpu_entry_area).
GdtAddr == EntryArea
TssAddr == EntryArea + PAGE_SIZE
EstacksAddr == TssAddr + TSS_SIZE

\* __ENTRY_ADDR(x) as a word.
ENTRY_ADDR(n) == W(n) \cup (47 .. 63)

\* Bit i of a natural number.
Bit(n, i) == (n \div 2^i) % 2 = 1

(***************************************************************************)
(* Descriptors.                                                            *)
(***************************************************************************)
\* GDT_ENTRY_INIT(flags, 0, 0xfffff): the fields the flags word sets.
GDT_ENTRY_INIT(flags) ==
  [type |-> flags % 16, s |-> (flags \div 16) % 2, dpl |-> (flags \div 32) % 4,
   p |-> (flags \div 128) % 2, l |-> (flags \div 8192) % 2,
   d |-> (flags \div 16384) % 2, base |-> {}]
NullDesc == [type |-> 0, s |-> 0, dpl |-> 0, p |-> 0, l |-> 0, d |-> 0, base |-> {}]

\* gdt_data[]: entries 0 and 1 are zero, 2..6 by designated initializers.
gdt_data == [i \in 0 .. 6 |->
               CASE i = 2 -> GDT_ENTRY_INIT(41115)     \* 0xa09b kernel CS
                 [] i = 3 -> GDT_ENTRY_INIT(49299)     \* 0xc093 kernel DS
                 [] i = 5 -> GDT_ENTRY_INIT(49395)     \* 0xc0f3 user DS
                 [] i = 6 -> GDT_ENTRY_INIT(41211)     \* 0xa0fb user CS
                 [] OTHER -> NullDesc]

\* An IDT gate; the static idt_table starts all zero.
ZeroGate == [offset_low |-> 0, segment |-> 0, ist |-> 0, type |-> 0, dpl |-> 0,
             p |-> 0, offset_middle |-> 0, offset_high |-> {}]

\* struct idt_data, as the G() macro fills it.
G(v, a, ist, type, dpl, seg) ==
  [vector |-> v, addr |-> a, ist |-> ist, type |-> type, dpl |-> dpl, segment |-> seg]
INTG(v, a) == G(v, a, 0, GATE_INTERRUPT, 0, KERNEL_CS)
SYSG(v, a) == G(v, a, 0, GATE_INTERRUPT, 3, KERNEL_CS)
ISTG(v, a, ist) == G(v, a, ist, GATE_INTERRUPT, 0, KERNEL_CS)

def_idts ==
  << INTG(0, "divide_error"), INTG(5, "bounds"), INTG(6, "invalid_op"),
     INTG(7, "device_not_available"), INTG(9, "coprocessor_segment_overrun"),
     INTG(10, "invalid_TSS"), INTG(11, "segment_not_present"),
     INTG(12, "stack_segment"), INTG(13, "general_protection"),
     INTG(14, "page_fault"), INTG(15, "spurious_interrupt_bug"),
     INTG(16, "coprocessor_error"), INTG(17, "alignment_check"),
     INTG(19, "simd_coprocessor_error"), INTG(8, "double_fault"),
     SYSG(4, "overflow") >>
apic_idts ==
  << INTG(LOCAL_TIMER_VECTOR, "apic_timer_interrupt"),
     INTG(SPURIOUS_APIC_VECTOR, "spurious_interrupt"),
     INTG(ERROR_APIC_VECTOR, "error_interrupt") >>
ist_idts == << ISTG(X86_TRAP_DF, "double_fault", DOUBLEFAULT_STACK) >>

\* idt_init_desc: the handler's entry address split into its three parts.
idt_init_desc(d) ==
  LET addr == ENTRY_ADDR(HandlerAddr[d.addr])
  IN  [offset_low |-> Val(Trunc(addr, 16)), segment |-> d.segment % 65536,
       ist |-> d.ist, type |-> d.type, dpl |-> d.dpl, p |-> 1,
       offset_middle |-> Val(Field(addr, 16, 16)), offset_high |-> Field(addr, 32, 32)]

\* idt_setup_from_table over s = [idt, sysv]: each entry written in turn,
\* its vector set in system_vectors when sys.
idt_setup_from_table(s, t, sys) ==
  FoldLeft(LAMBDA acc, d :
             [idt |-> [acc.idt EXCEPT ![d.vector] = idt_init_desc(d)],
              sysv |-> acc.sysv \cup (IF sys THEN {d.vector} ELSE {})],
           s, t)

\* set_intr_gate(n, addr): the gate of a zeroed idt_data with the vector,
\* address, KERNEL_CS, an interrupt type and P set (DPL 0, no IST).
set_intr_gate(n, a) == idt_init_desc(G(n, a, 0, GATE_INTERRUPT, 0, KERNEL_CS))

idt_setup_traps(s) == idt_setup_from_table(s, def_idts, TRUE)
idt_setup_ist_traps(s) == idt_setup_from_table(s, ist_idts, TRUE)

\* Faulty variant: every vector from FIRST_EXTERNAL_VECTOR on gets the
\* spurious gate, set or not.
idt_setup_apic_and_irq_gates_all(s) ==
  LET spurious == set_intr_gate(FIRST_EXTERNAL_VECTOR, "spurious_interrupt")
      s1 == idt_setup_from_table(s, apic_idts, TRUE)
      clear == FIRST_EXTERNAL_VECTOR .. 255
  IN  [idt |-> [v \in Vectors |->
                  IF v \in clear THEN spurious
                  ELSE s1.idt[v]],
       sysv |-> s1.sysv \cup clear]

\* The APIC gates, then set_intr_gate(v, spurious_interrupt) on every
\* vector from FIRST_EXTERNAL_VECTOR whose bit is still clear, setting the
\* bit first.  A vector's turn depends only on its own bit, so the loop
\* is one step; the gate does not depend on the vector, so it is built
\* once.
idt_setup_apic_and_irq_gates(s) ==
  LET spurious == set_intr_gate(FIRST_EXTERNAL_VECTOR, "spurious_interrupt")
      s1 == idt_setup_from_table(s, apic_idts, TRUE)
      clear == {v \in FIRST_EXTERNAL_VECTOR .. 255 : v \notin s1.sysv}
  IN  [idt |-> [v \in Vectors |->
                  IF v \in clear THEN spurious
                  ELSE s1.idt[v]],
       sysv |-> s1.sysv \cup clear]

(***************************************************************************)
(* switch_to_new_gdt on CPU 0.                                             *)
(***************************************************************************)
\* Faulty variant: IST pointer i at the start of stack i rather than its end.
ist_tops_low == [i \in 1 .. 7 |->
                   IF i <= NR_EXCEPTION_STACKS
                     THEN ENTRY_ADDR(EstacksAddr + EXCEPTION_STACK_SIZE * (i - 1))
                   ELSE {}]

\* tss->ist[i] = estacks + EXCEPTION_STACK_SIZE * (i + 1) for i below
\* NR_EXCEPTION_STACKS; the TSS counts IST1..IST7 from ist[0].
ist_tops == [i \in 1 .. 7 |->
               IF i <= NR_EXCEPTION_STACKS
                 THEN ENTRY_ADDR(EstacksAddr + EXCEPTION_STACK_SIZE * i)
               ELSE {}]

\* memcpy of gdt_data, load_gdt, the TSS fields, set_tss_desc (a present
\* available-TSS descriptor over entries 8 and 9) and load_tr_desc, which
\* marks it busy (type 11): the new GDT, TSS, GDTR and TR.
switch_to_new_gdt ==
  [gdt |-> [i \in 0 .. GDT_ENTRIES - 1 |->
              CASE i \in DOMAIN gdt_data -> gdt_data[i]
                [] i = GDT_ENTRY_TSS ->
                     [NullDesc EXCEPT !.type = DESC_TSS + 2, !.p = 1,
                                      !.base = ENTRY_ADDR(TssAddr)]
                [] OTHER -> gdt[i]],
   tss |-> [sp0 |-> ENTRY_ADDR(CpuStack + CPU_STACK_SIZE), ist |-> ist_tops,
            io_bitmap_base |-> 32768],
   gdtr |-> [base |-> ENTRY_ADDR(GdtAddr), limit |-> GDT_ENTRIES * 8 - 1],
   tr |-> GDT_ENTRY_TSS * 8]

\* idt_descr, which load_idt loads.
idt_descr == [base |-> ENTRY_ADDR(IdtAddr), limit |-> 256 * 16 - 1]

(***************************************************************************)
(* The 8259A: ICW1 on the command port starts initialization and clears   *)
(* the IMR; ICW2 (vector base), ICW3 when cascaded (ICW1 bit 1 clear) and  *)
(* ICW4 when ICW1 bit 0 asks for it follow on the data port; once ready, a *)
(* data-port byte is OCW1, the IMR.                                        *)
(***************************************************************************)
PicPorts == [p \in {32, 33, 160, 161} |-> IF p < 160 THEN "master" ELSE "slave"]

PicOut(ps, port, val) ==
  LET c == PicPorts[port]
      s == ps[c]
      next(icw4) == IF icw4 THEN "icw4" ELSE "ready"
  IN  [ps EXCEPT ![c] =
         CASE port % 2 = 0 /\ Bit(val, 4) ->
                [s EXCEPT !.mode = "icw2", !.imr = 0, !.sngl = Bit(val, 1),
                          !.ic4 = Bit(val, 0)]
           [] port % 2 = 0 -> s
           [] s.mode = "icw2" ->
                [s EXCEPT !.base = val - (val % 8),
                          !.mode = IF ~s.sngl THEN "icw3" ELSE next(s.ic4)]
           [] s.mode = "icw3" -> [s EXCEPT !.icw3 = val, !.mode = next(s.ic4)]
           [] s.mode = "icw4" -> [s EXCEPT !.icw4 = val, !.mode = "ready"]
           [] OTHER -> [s EXCEPT !.imr = val]]

\* Faulty variant: i8259_init without the master's ICW4.
i8259_writes_no_icw4 ==
  << <<33, 255>>, <<32, 17>>, <<33, ISA_IRQ_VECTOR(0)>>, <<33, 2^PIC_CASCADE_IR>>,
     <<160, 17>>, <<161, ISA_IRQ_VECTOR(8)>>, <<161, PIC_CASCADE_IR>>,
     <<161, SLAVE_ICW4_DEFAULT>>, <<33, 255>>, <<161, 255>> >>

\* i8259_init's outb sequence (the udelay after each outb_pic is time only).
i8259_writes ==
  << <<33, 255>>, <<32, 17>>, <<33, ISA_IRQ_VECTOR(0)>>, <<33, 2^PIC_CASCADE_IR>>,
     <<33, MASTER_ICW4_DEFAULT>>, <<160, 17>>, <<161, ISA_IRQ_VECTOR(8)>>,
     <<161, PIC_CASCADE_IR>>, <<161, SLAVE_ICW4_DEFAULT>>, <<33, 255>>,
     <<161, 255>> >>

i8259_init(ps) == FoldLeft(LAMBDA acc, w : PicOut(acc, w[1], w[2]), ps, i8259_writes)

(***************************************************************************)
(* The specification.                                                      *)
(***************************************************************************)
IdtInit ==
  /\ gdt = [i \in 0 .. GDT_ENTRIES - 1 |-> NullDesc]
  /\ tss = [sp0 |-> {}, ist |-> [i \in 1 .. 7 |-> {}], io_bitmap_base |-> 0]
  /\ dtr = [gdtr |-> [base |-> {}, limit |-> 0], idtr |-> [base |-> {}, limit |-> 0], tr |-> 0]
  /\ idt_table = [v \in Vectors |-> ZeroGate]
  /\ system_vectors = {}
  /\ pic \in BiosPics
  /\ host_msr = [gs_base |-> W(InitialGs), fs_base |-> {}, kernel_gs_base |-> {},
                 sysenter_cs |-> {}, sysenter_esp |-> {}, sysenter_eip |-> {}]
  /\ trapped = FALSE

\* trap_init: the new GDT and TSS, the trap gates and load_idt, the IST
\* gates, the PICs, the APIC and spurious gates, then the MSR writes (GS
\* base moved to the shared mapping).
trap_init ==
  LET g == switch_to_new_gdt
      s == idt_setup_apic_and_irq_gates(idt_setup_ist_traps(idt_setup_traps(
             [idt |-> idt_table, sysv |-> system_vectors])))
  IN  /\ ~trapped
      /\ gdt' = g.gdt
      /\ tss' = g.tss
      /\ dtr' = [gdtr |-> g.gdtr, idtr |-> idt_descr, tr |-> g.tr]
      /\ idt_table' = s.idt
      /\ system_vectors' = s.sysv
      /\ pic' = i8259_init(pic)
      /\ host_msr' = [host_msr EXCEPT !.gs_base = ENTRY_ADDR(Val(@)),
                        !.fs_base = {}, !.kernel_gs_base = {}, !.sysenter_cs = {},
                        !.sysenter_esp = {}, !.sysenter_eip = {}]
      /\ trapped' = TRUE

IdtNext == trap_init

IdtSpec == IdtInit /\ [][IdtNext]_ivars
(***************************************************************************)
(* The hardware: what the CPU does with a vector once IDTR and TR are      *)
(* loaded.  A gate beyond the IDT limit or without P is a fault; otherwise *)
(* it enters the gate's offset with the code descriptor its selector names *)
(* and, when the gate has an IST index, the stack the TSS that TR names    *)
(* holds at that index.                                                    *)
(***************************************************************************)
GateOffset(g) == W(g.offset_low) \cup Shl(W(g.offset_middle), 16) \cup Shl(g.offset_high, 32)

Faults(v) == v * 16 + 15 > dtr.idtr.limit \/ idt_table[v].p = 0

Delivery(g) ==
  LET tssOk == gdt[dtr.tr \div 8].base = ENTRY_ADDR(TssAddr)
  IN  [rip |-> GateOffset(g), cs |-> gdt[g.segment \div 8],
       rsp |-> CASE g.ist = 0 -> "current"
                 [] tssOk -> tss.ist[g.ist]
                 [] OTHER -> "unknown"]

(***************************************************************************)
(* What the kernel needs of the tables.  The handler of each vector is     *)
(* named by the DO_ERROR list and the __weak handlers of idt.c (an entry   *)
(* stub and its do_ function share the name), the vector numbers by       *)
(* asm/traps.h and asm/irq.h.                                              *)
(***************************************************************************)
TrapHandler ==
  (0 :> "divide_error") @@ (4 :> "overflow") @@ (5 :> "bounds")
  @@ (6 :> "invalid_op") @@ (7 :> "device_not_available")
  @@ (8 :> "double_fault") @@ (9 :> "coprocessor_segment_overrun")
  @@ (10 :> "invalid_TSS") @@ (11 :> "segment_not_present")
  @@ (12 :> "stack_segment") @@ (13 :> "general_protection")
  @@ (14 :> "page_fault") @@ (15 :> "spurious_interrupt_bug")
  @@ (16 :> "coprocessor_error") @@ (17 :> "alignment_check")
  @@ (19 :> "simd_coprocessor_error")

\* Every vector from FIRST_EXTERNAL_VECTOR on is an interrupt: the three
\* APIC vectors have their handlers, all others smp_spurious_interrupt.
HostHandler ==
  TrapHandler @@ (LOCAL_TIMER_VECTOR :> "apic_timer_interrupt")
  @@ (ERROR_APIC_VECTOR :> "error_interrupt")
  @@ [v \in FIRST_EXTERNAL_VECTOR .. 255 |-> "spurious_interrupt"]

\* A present DPL-0 64-bit code segment (L set, D clear).
KernelCode64(d) ==
  d.p = 1 /\ d.s = 1 /\ Bit(d.type, 3) /\ d.l = 1 /\ d.d = 0 /\ d.dpl = 0

\* Exception stack k (IST k) is the k-th EXCEPTION_STACK_SIZE block of
\* exception_stacks; a stack pointer starts at the block's end.
ExceptionStackEnd(k) ==
  ENTRY_ADDR(EstacksAddr + (k - 1) * EXCEPTION_STACK_SIZE + EXCEPTION_STACK_SIZE)

\* The IDT trap_init leaves, as the CPU sees it through IDTR, the GDT and
\* TR: each vector with a handler enters it in 64-bit kernel code, the
\* double fault on its own exception stack; the vectors without one fault.
\* Vectors that share a handler and a gate are decoded once.
\* system_vectors holds exactly the vectors with a gate.
IdtMatchesHandlers ==
  /\ \A v \in Vectors : Faults(v) = (v \notin DOMAIN HostHandler)
  /\ \A hg \in {<<HostHandler[v], idt_table[v]>> : v \in DOMAIN HostHandler} :
       LET d == Delivery(hg[2])
       IN  /\ d.rip = ENTRY_ADDR(HandlerAddr[hg[1]])
           /\ KernelCode64(d.cs)
           /\ d.rsp = IF hg[1] = HostHandler[X86_TRAP_DF]
                      THEN ExceptionStackEnd(DOUBLEFAULT_STACK)
                      ELSE "current"
  /\ system_vectors = {v \in Vectors : idt_table[v].p = 1}

\* Both PICs have taken the whole ICW sequence, are fully masked, deliver
\* IRQ 0..15 on 16 vectors above the exceptions, with the slave's ID the
\* master's cascade line, and each of those vectors has a gate, so an IRQ
\* a PIC raises once unmasked enters a handler.
PicsInitialized ==
  LET m == pic["master"]
      sl == pic["slave"]
      vecs == {m.base + i : i \in 0 .. 7} \cup {sl.base + i : i \in 0 .. 7}
  IN  /\ m.mode = "ready" /\ sl.mode = "ready"
      /\ m.imr = 255 /\ sl.imr = 255
      /\ Bit(m.icw3, sl.icw3 % 8) /\ sl.icw3 < 8
      /\ Cardinality(vecs) = 16
      /\ \A v \in vecs : v >= FIRST_EXTERNAL_VECTOR /\ ~Faults(v)
=============================================================================
