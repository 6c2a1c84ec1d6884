---------------------------- MODULE MC_GuestBoot ----------------------------
EXTENDS GuestBoot, MC_Ept

\* GNU multiboot.h: the search window, and sizeof(struct multiboot_info).
MC_MULTIBOOT_SEARCH == 8192
MC_MultibootInfoSize == 116

\* A program header: type, file offset, p_vaddr (a word), p_paddr, sizes.
Ph(type, off, va, pa, fsz, msz) ==
    [type |-> type, offset |-> off, vaddr |-> va, paddr |-> pa, filesz |-> fsz, memsz |-> msz]
PT_GNU_STACK == 1685382481                  \* 0x6474e551
KERNBASE == {31}                            \* 0x80000000, as xv6 links

\* A multiboot header; checksum says whether magic + flags + checksum = 0.
Hdr(aout, ha, la, le, be, ea) ==
    [aout |-> aout, header_addr |-> ha, load_addr |-> la, load_end_addr |-> le,
     bss_end_addr |-> be, entry_addr |-> ea, checksum |-> TRUE]
ElfHdr == Hdr(FALSE, 0, 0, 0, 0, 0)

Image(magics, hdr, elfmag, class, e_entry, phdrs) ==
    [magics |-> magics, header |-> [o \in magics |-> hdr], elfmag |-> elfmag,
     class |-> class, e_entry |-> e_entry, phdrs |-> phdrs, size |-> 0]

\* A higher-half ELF32 kernel linked at 0x80100000 and loaded at 1 MiB:
\* the stack note first, text with the multiboot header, data with bss.
Xv6Phdrs ==
    << Ph(PT_GNU_STACK, 0, {}, 0, 0, 0),
       Ph(1, 4096, KERNBASE \cup W(1048576), 1048576, 32768, 32768),
       Ph(1, 36864, KERNBASE \cup W(1081344), 1081344, 4096, 12288) >>

MC_Images ==
    { \* e_entry virtual (0x8010000c), and physical (0x10000c)
      Image({4096}, ElfHdr, TRUE, 1, KERNBASE \cup W(1048588), Xv6Phdrs),
      Image({4096}, ElfHdr, TRUE, 1, W(1048588), Xv6Phdrs),
      \* an identity-linked ELF64 kernel at 1 MiB
      Image({4096}, ElfHdr, TRUE, 2, W(1048608),
            << Ph(1, 4096, W(1048576), 1048576, 8192, 16384) >>),
      \* spec.md's trivial a.out kludge kernel at 1 MiB
      Image({0}, Hdr(TRUE, 1048576, 1048576, 1056768, 1060864, 1048608),
            FALSE, 0, {}, <<>>),
      \* an a.out kludge kernel loaded at 16 MiB
      Image({0}, Hdr(TRUE, 16777216, 16777216, 16785408, 16789504, 16777216),
            FALSE, 0, {}, <<>>),
      \* an ELF64 kernel loaded at 16 MiB, as Linux is
      Image({4096}, ElfHdr, TRUE, 2, W(16777216),
            << Ph(1, 4096, W(16777216), 16777216, 8192, 8192) >>),
      \* no multiboot header (a bzImage); a header on neither a.out nor ELF;
      \* an ELF magic with class ELFCLASSNONE
      Image({}, ElfHdr, TRUE, 1, {}, <<>>),
      Image({0}, ElfHdr, FALSE, 0, {}, <<>>),
      Image({4096}, ElfHdr, TRUE, 0, {}, <<>>) }

\* The kernels of MC_Ept and a 4 KiB one in the last page of its 2 MiB
\* frame (0x10bff000), whose header search runs past the frame.
MC_BootKernels == MC_Kernels \cup {[start |-> 281014272, last |-> 281018367]}

\* With and without an initrd (the second module), two e820 entries.
MC_Params ==
    { [kernel_start |-> 0, kernel_end |-> 0, initrd_start |-> s, initrd_end |-> e,
       e820_entries |-> 2, e820_table |-> <<"low_ram", "high_ram", "unused">>]
      : <<s, e>> \in {<<0, 0>>, <<285212672, 285278208>>} }

\* sizeof(guest_params.cmdline) is 1024 (asm/setup.h); 16 gives two rounds
\* of the word loop and the boundary of the byte loop.
MC_CMDLINE_SIZE == 16

\* A command line of n characters, then its NUL and the bytes that follow
\* it in memory, which the word loop reads.  The characters include 0x01
\* and bytes with the high bit set, the cases has_zero's borrow and ~a
\* are there for.
CmdPattern == <<99, 129, 1, 61, 255, 128, 115>>
Cmdline(n) == [i \in 1 .. 24 |-> IF i <= n THEN CmdPattern[((i - 1) % 7) + 1]
                                 ELSE IF i = n + 1 THEN 0 ELSE 1]
\* Empty, inside the second word, the longest that fits, one too long.
MC_Cmdlines == {Cmdline(n) : n \in {0, 9, 15, 16}}
==============================================================================
