------------------------------- MODULE MC_Ept -------------------------------
EXTENDS Ept

\* A host layout as the linker gives it: the three EPT tables in .bss
\* after the VMM image at VMM_START (0x10000000), then the two 2 MiB guest
\* frames.
MC_PML4Addr == 270540800     \* 0x10201000
MC_PDPTAddr == 270544896     \* 0x10202000
MC_PDAddr == 270548992       \* 0x10203000
MC_FirmwareMem == 272629760  \* 0x10400000
MC_KernelMem == 274726912    \* 0x10600000

\* Kernel modules as a bootloader places them, after the VMM image and
\* inside one 2 MiB frame.
MC_Kernels ==
    { [start |-> 276824064, last |-> 276889599],   \* 0x10800000 .. 0x1080ffff
      [start |-> 279973888, last |-> 280231935] }  \* 0x10b01000 .. 0x10b3ffff

\* Placements construct_tdp does not cover: a kernel module that crosses a
\* 2 MiB boundary (0x10bf0000 .. 0x10c0ffff), and one above 1 GiB
\* (0x40100000 .. 0x4010ffff).
MC_KernelsUnmapped ==
    { [start |-> 280952832, last |-> 281083903],
      [start |-> 1074790400, last |-> 1074855935] }

\* Paging structures the guest builds in its first frame: PML4 at 0x10000,
\* PDPT at 0x11000, PD at 0x12000, PT at 0x13000; the entries are
\* present and writable (0x3), PS (0x80) for the large pages.
Pte(at, n) == [at |-> at, val |-> W(n)]
Map2M == [cr3 |-> 65536,
          ptes |-> {Pte(65536, 69635), Pte(69632, 73731), Pte(73728, 131)}]
Map4K == [cr3 |-> 65536,
          ptes |-> {Pte(65536, 69635), Pte(69632, 73731), Pte(73728, 77827),
                    Pte(77832, 4099), Pte(77840, 8195)}]
Map1G == [cr3 |-> 65536,
          ptes |-> {Pte(65536, 69635), Pte(69632, 131)}]
MC_Setups == {Map2M, Map4K, Map1G}

\* A 4 KiB leaf that carries a protection key (bits 59..62) as a kernel
\* with PKU enabled writes it.
Map4KPkey == [cr3 |-> 65536,
              ptes |-> {Pte(65536, 69635), Pte(69632, 73731), Pte(73728, 77827),
                        [at |-> 77832, val |-> W(4099) \cup {59}]}]
MC_SetupsPkey == {Map4KPkey}

\* The firmware's entry and an address in its second page.
MC_Gvas == {4096, 8196}
==============================================================================
