------------------------------- MODULE MC_Boot -------------------------------
EXTENDS Boot, MC_VmxSetup, MC_AcpiTables

(***************************************************************************)
(* Boot processors for cpu_init.  x86_model_id is scaled from 64 bytes to *)
(* 10 and the 48-byte brand string to at most 8; each brand leaf carries  *)
(* its bytes in EAX.                                                      *)
(***************************************************************************)
MC_ModelIdLen == 10

\* Extended leaf n and the NUL byte, as Cpu's Ext and NUL; written here
\* rather than taken through Boot's instance C, whose Processors is
\* MC_Processors itself.
ExtLeaf(n) == {31} \cup W(n)
NulByte == "NUL"

Regs(a, b, c, d) == [eax |-> a, ebx |-> b, ecx |-> c, edx |-> d]
Str(s) == Regs(s, <<>>, <<>>, <<>>)
NoBytes == Str(<<>>)

Intel == <<"Genu", "ineI", "ntel">>
Amd == <<"Auth", "enti", "cAMD">>
Centaur == <<"Cent", "aurH", "auls">>

\* CPUID.1:ECX VMX (5), x2APIC (21); CPUID.1:EDX FPU (0), APIC (9).
Leaf1(sig, ecx, edx) == <<W(1), 0>> :> Regs(W(sig), {}, ecx, edx)

\* Brand leaves 80000002H..80000004H.
Brand(s2, s3, s4) == (<<ExtLeaf(2), 0>> :> Str(s2)) @@ (<<ExtLeaf(3), 0>> :> Str(s3))
                       @@ (<<ExtLeaf(4), 0>> :> Str(s4))

\* A Coffee Lake core (signature 906EAH, family 6, model 9EH): basic
\* leaves up to 16H, LLC monitoring in 0FH, extended leaves up to
\* 80000008H; the brand string is right-justified.  Leaf 15H gives the
\* TSC/crystal ratio 266/2 and leaves the crystal (24 MHz) to the model.
CoffeeLakeLeaves ==
  Leaf1(591594, {0, 5, 21}, {0, 9})
  @@ (<<W(21), 0>> :> Regs(W(2), W(266), {}, {}))
  @@ (<<W(6), 0>> :> Regs({0, 1, 2}, {}, {}, {}))
  @@ (<<W(7), 0>> :> Regs({}, {7, 20}, {2}, {}))
  @@ (<<W(13), 1>> :> Regs({0, 1, 3}, {}, {}, {}))
  @@ (<<W(15), 0>> :> Regs({}, {}, {}, {1}))
  @@ (<<W(15), 1>> :> Regs({}, {}, {}, {0, 2}))
  @@ (<<ExtLeaf(1), 0>> :> Regs({}, {}, {0}, {11, 20, 29}))
  @@ (<<ExtLeaf(8), 0>> :> Regs({}, {9}, {}, {}))
  @@ Brand(<<" ", " ">>, <<"A">>, <<" ", "B">>)
CoffeeLake ==
  [level |-> 22, vendor |-> Intel, ext |-> ExtLeaf(8), leaves |-> CoffeeLakeLeaves]

\* The same core with the BIOS's Limit CPUID Maxval on: basic leaves only
\* up to 2, whose cache descriptors come back for leaves 6, 7, 0DH, 0FH.
\* The brand string is all blanks.
LimitedLeaves ==
  Leaf1(591594, {0, 5, 21}, {0, 9})
  @@ (<<W(2), 0>> :> Regs({0, 4}, {1}, {2}, {3}))
  @@ (<<ExtLeaf(1), 0>> :> Regs({}, {}, {0}, {11, 20, 29}))
  @@ Brand(<<" ", " ">>, <<"\t">>, <<" ">>)
Limited ==
  [level |-> 2, vendor |-> Intel, ext |-> ExtLeaf(8), leaves |-> LimitedLeaves]

\* A Zen 2 part (signature 830F10H, family 17H, model 31H): no VMX, no LLC
\* monitoring, extended leaves up to 80000020H; a brand string with
\* trailing blanks and NUL padding.
ZenLeaves ==
  Leaf1(8589072, {0}, {0, 9})
  @@ (<<W(7), 0>> :> Regs({}, {0, 3}, {}, {}))
  @@ (<<W(15), 1>> :> Regs({}, {}, {}, {0}))
  @@ (<<ExtLeaf(1), 0>> :> Regs({}, {}, {0, 2}, {11, 29}))
  @@ (<<ExtLeaf(7), 0>> :> Regs({}, {0, 1}, {}, {}))
  @@ (<<ExtLeaf(8), 0>> :> Regs({}, {0, 9}, {}, {}))
  @@ (<<ExtLeaf(10), 0>> :> Regs({}, {}, {}, {0, 3}))
  @@ Brand(<<"A", "B">>, <<" ", "\t">>, <<NulByte, "B">>)
Zen ==
  [level |-> 16, vendor |-> Amd, ext |-> ExtLeaf(32), leaves |-> ZenLeaves]

\* A Pentium 4 (signature F41H, family 0FH, model 4) with leaves up to 5
\* and no brand leaves.
P4Leaves ==
  Leaf1(3905, {0, 5}, {0, 9})
  @@ (<<ExtLeaf(1), 0>> :> Regs({}, {}, {0}, {11, 29}))
Pentium4 ==
  [level |-> 5, vendor |-> Intel, ext |-> ExtLeaf(1), leaves |-> P4Leaves]

\* A Centaur core (signature 6F2H): a vendor cpu_devs does not list, a
\* brand string that starts with a tab and has an inner blank.
CentaurLeaves ==
  Leaf1(1778, {0, 5, 21}, {0, 9})
  @@ (<<W(6), 0>> :> Regs({1}, {}, {}, {}))
  @@ (<<ExtLeaf(1), 0>> :> Regs({}, {}, {0}, {11, 29}))
  @@ Brand(<<"\t", "A">>, <<" ">>, <<"B", " ">>)
CentaurCpu ==
  [level |-> 6, vendor |-> Centaur, ext |-> ExtLeaf(4), leaves |-> CentaurLeaves]

\* The Coffee Lake core with the APIC disabled in IA32_APICBASE, which
\* clears CPUID.1:EDX.APIC, on a later microcode whose leaf 15H also
\* names the crystal in ECX (24 000 000 Hz).
ApicOff ==
  [CoffeeLake EXCEPT !.leaves[<<W(1), 0>>].edx = @ \ {9},
                     !.leaves[<<W(21), 0>>].ecx = W(24000000)]

\* quick_pit_calibrate fails (under an emulator) or measures 3.2 GHz.
MC_PitKhz == {0, 3200000}

MC_Processors == {CoffeeLake, Limited, Zen, Pentium4, CentaurCpu, ApicOff}
(***************************************************************************)
(* trap_init's symbols: the entry stubs 16 bytes apart from 0x1000ff90,   *)
(* so that they straddle a 64 KiB boundary and offset_middle differs      *)
(* between gates; the IDT, the per-CPU area and the stack in the image.   *)
(***************************************************************************)
\* A record literal, so that a lookup does not rebuild the table.
MC_HandlerAddr ==
  [ divide_error |-> 268500880,
    overflow |-> 268500896,
    bounds |-> 268500912,
    invalid_op |-> 268500928,
    device_not_available |-> 268500944,
    double_fault |-> 268500960,
    coprocessor_segment_overrun |-> 268500976,
    invalid_TSS |-> 268500992,
    segment_not_present |-> 268501008,
    stack_segment |-> 268501024,
    general_protection |-> 268501040,
    page_fault |-> 268501056,
    spurious_interrupt_bug |-> 268501072,
    coprocessor_error |-> 268501088,
    alignment_check |-> 268501104,
    simd_coprocessor_error |-> 268501120,
    apic_timer_interrupt |-> 268501136,
    error_interrupt |-> 268501152,
    spurious_interrupt |-> 268501168 ]
MC_IdtAddr == 269484032         \* 0x10100000
MC_EntryArea == 270532608       \* 0x10200000
MC_CpuStack == 271581184        \* 0x10300000
MC_InitialGs == 272629760       \* 0x10400000

\* The PICs as a PC BIOS leaves them: initialized, vectors 08H and 70H.
BiosPic(base, imr, icw3) ==
  [mode |-> "ready", imr |-> imr, base |-> base, sngl |-> FALSE, ic4 |-> TRUE,
   icw3 |-> icw3, icw4 |-> 1]
MC_BiosPics == {[master |-> BiosPic(8, 184, 4), slave |-> BiosPic(112, 143, 2)]}
=============================================================================
