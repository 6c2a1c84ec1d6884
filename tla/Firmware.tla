------------------------------ MODULE Firmware ------------------------------
(***************************************************************************)
(* The guest firmware's multiboot loader (src/firmware/multiboot.c and     *)
(* elfload.h), run by the guest at FIRMWARE_START after kvm_init.          *)
(*                                                                         *)
(* The kernel image is a record: the offsets of the words equal to         *)
(* MULTIBOOT_HEADER_MAGIC and the header read at each, the ELF identity    *)
(* (magic, class), e_entry and the program headers.  Its bytes are         *)
(* abstracted to their offsets: a load is a store record, and the byte at  *)
(* a guest-physical address is the image offset of the last store over it *)
(* or "zero".  e_entry and p_vaddr are X86Bits words (a higher-half        *)
(* address needs bits 31..63); physical addresses, offsets and sizes are   *)
(* naturals.  Every access goes through the EPT: Mapped(a) says whether     *)
(* the 2 MiB frame of guest-physical a is mapped, and an access to a frame *)
(* that is not ends in the VMM's panic (handle_ept_violation).             *)
(***************************************************************************)
EXTENDS X86Bits, Sequences

CONSTANTS
    Images,               \* the kernel images
    MULTIBOOT_SEARCH,     \* sys/multiboot.h: 8192
    MultibootInfoSize     \* sizeof(struct multiboot_info)

\* Not in the tree: the GNU multiboot.h and elf.h values.
PT_LOAD == 1
ELFCLASS32 == 1
ELFCLASS64 == 2
SZ_1K == 1024
SZ_1M == 1048576
SZ_2M == 2097152
VMM_START == 268435456                   \* asm/setup.h: 0x10000000

VARIABLES
    image,            \* the module at guest_params->kernel_start
    params,           \* guest_params: kernel_start, initrd, e820 table
    fstage,           \* "search", "elf", "loaded", "kernel", "halt", "panic"
    seg,              \* the loop index i of load_elf (1-based)
    entry,            \* uint32_t entry
    stores,           \* the memcpy and memset of the loads, in order
    multiboot_info,   \* the info block passed to start_multiboot
    ept_mapped        \* guest-physical frame -> whether the EPT maps it

fwVars == <<image, params, fstage, seg, entry, stores, multiboot_info>>

-----------------------------------------------------------------------------
(* 64-bit word arithmetic and the accesses.                                *)

\* a < b as unsigned words: the highest bit where they differ is b's.
LtW(a, b) == LET d == (a \ b) \cup (b \ a) IN d # {} /\ Max(d) \in b

\* a - b modulo 2^64: bit i is a's xor b's xor the borrow into bit i,
\* which is taken exactly when a's low i bits are below b's.
SubW(a, b) == {i \in 0 .. 63 : ((i \in a) # (i \in b)) # LtW(Trunc(a, i), Trunc(b, i))}

\* (uint32_t)(a - b) for header fields: a length that wraps is at least
\* 2^31, which runs over every frame below 4 GiB that could be mapped.
WrapSub32(a, b) == IF a >= b THEN a - b ELSE 2^30

\* The 2 MiB frames a range of len bytes at a touches.
Frames(a, len) ==
    IF len = 0 THEN {} ELSE {f * SZ_2M : f \in (a \div SZ_2M) .. ((a + len - 1) \div SZ_2M)}
Mapped(f) == ept_mapped[f]
Reachable(a, len) == \A f \in Frames(a, len) : Mapped(f)

\* A byte is <<"image", offset>> or <<"zero", 0>> (<<"none", 0>>: not loaded).
Copy(dst, len, src) == [dst |-> dst, len |-> len, byte |-> <<"image", src>>]
Zero(dst, len) == [dst |-> dst, len |-> len, byte |-> <<"zero", 0>>]

-----------------------------------------------------------------------------
(* find_multiboot_header and load_multiboot.                               *)

\* Faulty variant: the search stops halfway through the window.
find_multiboot_header_half(img) ==
    LET found == {o \in img.magics : o % 4 = 0 /\ o < (MULTIBOOT_SEARCH - MultibootInfoSize) \div 2}
    IN IF found = {} THEN -1 ELSE Min(found)

\* The first 32-bit word below base + MULTIBOOT_SEARCH -
\* sizeof(struct multiboot_info) that holds the magic; -1 for NULL.
find_multiboot_header(img) ==
    LET found == {o \in img.magics : o % 4 = 0 /\ o < MULTIBOOT_SEARCH - MultibootInfoSize}
    IN IF found = {} THEN -1 ELSE Min(found)

\* The bytes of the image the search reads.
SearchLength(img) ==
    LET h == find_multiboot_header(img)
    IN IF h = -1 THEN MULTIBOOT_SEARCH - MultibootInfoSize ELSE h + 4

\* The memcpy and memset of the AOUT_KLUDGE branch.
AoutStores(h) ==
    << Copy(h.load_addr, WrapSub32(h.load_end_addr, h.load_addr), 0),
       Zero(h.load_end_addr, WrapSub32(h.bss_end_addr, h.load_end_addr)) >>

\* load_multiboot up to the loaders: no header returns (then load_linux,
\* which is not in the tree, and die); AOUT_KLUDGE copies the image from
\* its first byte and jumps to entry_addr; otherwise the ELF magic and
\* EI_CLASS choose load_elf32 or load_elf64, whose entry starts as the
\* uint32_t of e_entry.
load_multiboot ==
    /\ fstage = "search"
    /\ LET ks == params.kernel_start
           o  == find_multiboot_header(image)
           h  == image.header[o]
       IN IF ~Reachable(ks, SearchLength(image)) THEN fstage' = "panic" /\ UNCHANGED <<seg, entry, stores>>
          ELSE IF o = -1 THEN fstage' = "halt" /\ UNCHANGED <<seg, entry, stores>>
          ELSE IF h.aout
            THEN LET st == AoutStores(h)
                 IN IF ~Reachable(ks, st[1].len) \/ ~Reachable(st[1].dst, st[1].len)
                          \/ ~Reachable(st[2].dst, st[2].len)
                      THEN fstage' = "panic" /\ UNCHANGED <<seg, entry, stores>>
                    ELSE /\ stores' = stores \o st
                         /\ entry' = W(h.entry_addr)
                         /\ fstage' = "loaded"
                         /\ UNCHANGED seg
          ELSE IF image.elfmag /\ image.class \in {ELFCLASS32, ELFCLASS64}
            THEN fstage' = "elf" /\ seg' = 1 /\ entry' = Trunc(image.e_entry, 32)
                 /\ UNCHANGED stores
          ELSE fstage' = "halt" /\ UNCHANGED <<seg, entry, stores>>
    /\ UNCHANGED <<image, params, multiboot_info>>

-----------------------------------------------------------------------------
(* load_elf32 / load_elf64: one iteration of the program-header loop.     *)

\* Faulty variant: the entry is rebased on the segment's file offset.
TranslateEntry_offset(e, p) ==
    IF ~LtW(e, p.vaddr) /\ LET d == SubW(e, p.vaddr) IN d \subseteq 0 .. 30 /\ Val(d) < p.memsz
      THEN W(p.offset + Val(SubW(e, p.vaddr)))
    ELSE e

\* `if (entry >= p_vaddr && entry - p_vaddr < p_memsz) entry = p_paddr +
\* (entry - p_vaddr)`, with the uint32_t entry zero-extended to the width
\* of p_vaddr.
TranslateEntry(e, p) ==
    IF ~LtW(e, p.vaddr) /\ LET d == SubW(e, p.vaddr) IN d \subseteq 0 .. 30 /\ Val(d) < p.memsz
      THEN W(p.paddr + Val(SubW(e, p.vaddr)))
    ELSE e

\* Faulty variant: the bss is cleared from the start of the segment.
SegmentStores_from_dest(p) ==
    << Copy(p.paddr, p.filesz, p.offset), Zero(p.paddr, p.memsz - p.filesz) >>

\* memcpy(dest, hdr + p_offset, p_filesz); memset(dest + p_filesz, 0,
\* p_memsz - p_filesz).
SegmentStores(p) ==
    << Copy(p.paddr, p.filesz, p.offset), Zero(p.paddr + p.filesz, p.memsz - p.filesz) >>

load_elf_segment ==
    /\ fstage = "elf" /\ seg <= Len(image.phdrs)
    /\ LET p == image.phdrs[seg]
       IN IF p.type # PT_LOAD THEN UNCHANGED <<fstage, entry, stores>>
          ELSE IF ~Reachable(params.kernel_start + p.offset, p.filesz)
                  \/ ~Reachable(p.paddr, p.memsz)
            THEN fstage' = "panic" /\ UNCHANGED <<entry, stores>>
          ELSE /\ stores' = stores \o SegmentStores(p)
               /\ entry' = TranslateEntry(entry, p)
               /\ UNCHANGED fstage
    /\ seg' = seg + 1
    /\ UNCHANGED <<image, params, multiboot_info>>

-----------------------------------------------------------------------------
(* The info block and start_multiboot.                                     *)

\* The end of load_multiboot: flags MEMORY | CMDLINE | MODS | MEM_MAP,
\* mem_upper below VMM_START, the initrd as one module when its range is
\* not empty, the first e820_entries entries of guest_params' table as the
\* memory map (24 bytes each); then start_multiboot(entry, &multiboot_info).
start_multiboot ==
    /\ \/ fstage = "loaded"
       \/ fstage = "elf" /\ seg > Len(image.phdrs)
    /\ multiboot_info' =
         [flags |-> {"MEMORY", "CMDLINE", "MODS", "MEM_MAP"},
          mem_lower |-> 0,
          mem_upper |-> (VMM_START - SZ_1M) \div SZ_1K,
          mods_count |-> IF params.initrd_start < params.initrd_end THEN 1 ELSE 0,
          mods |-> IF params.initrd_start < params.initrd_end
                     THEN <<[mod_start |-> params.initrd_start, mod_end |-> params.initrd_end]>>
                   ELSE <<>>,
          mmap |-> SubSeq(params.e820_table, 1, params.e820_entries),
          mmap_length |-> params.e820_entries * 24]
    /\ fstage' = "kernel"
    /\ UNCHANGED <<image, params, seg, entry, stores>>

NoInfo == [flags |-> {}, mem_lower |-> 0, mem_upper |-> 0, mods_count |-> 0,
           mods |-> <<>>, mmap |-> <<>>, mmap_length |-> 0]

\* The firmware's state when the guest reaches main.
InitLoader ==
    /\ fstage = "search"
    /\ seg = 0
    /\ entry = {}
    /\ stores = <<>>
    /\ multiboot_info = NoInfo

FwNext == load_multiboot \/ load_elf_segment \/ start_multiboot

-----------------------------------------------------------------------------
(* The multiboot specification and the ELF format: what a loader does.     *)

\* The header the multiboot specification recognises: the first 32-bit
\* aligned magic whose header (48 bytes with the address fields) lies in
\* the first MULTIBOOT_SEARCH bytes and whose checksum holds; -1 if none.
SpecHeader(img) ==
    LET ok == {o \in img.magics : o % 4 = 0 /\ o + 48 <= MULTIBOOT_SEARCH
                                  /\ img.header[o].checksum}
    IN IF ok = {} THEN -1 ELSE Min(ok)

\* The PT_LOAD segments, and those whose virtual range holds e_entry.
Loads(img) == {img.phdrs[i] : i \in {j \in DOMAIN img.phdrs : img.phdrs[j].type = PT_LOAD}}
HoldsEntry(img) ==
    {p \in Loads(img) : ~LtW(img.e_entry, p.vaddr)
                        /\ LET d == SubW(img.e_entry, p.vaddr)
                           IN d \subseteq 0 .. 30 /\ Val(d) < p.memsz}

\* The entry the kernel must start at: entry_addr of an a.out kludge
\* header; the physical address of e_entry when a segment's virtual range
\* holds it; e_entry itself otherwise.
SpecEntry(img) ==
    LET h == img.header[SpecHeader(img)]
    IN CASE h.aout -> W(h.entry_addr)
         [] HoldsEntry(img) # {} ->
              LET p == CHOOSE q \in HoldsEntry(img) : TRUE
              IN W(p.paddr + Val(SubW(img.e_entry, p.vaddr)))
         [] OTHER -> img.e_entry

\* The byte the loads leave at guest-physical x.
ByteAt(x) ==
    LET over == SelectSeq(stores, LAMBDA s : s.dst <= x /\ x < s.dst + s.len)
        s == over[Len(over)]
    IN CASE over = <<>> -> <<"none", 0>>
         [] s.byte[1] = "zero" -> s.byte
         [] OTHER -> <<"image", s.byte[2] + (x - s.dst)>>

\* Where the image must be, as pairs <<address, byte>>: for an a.out kludge
\* header, the file from the offset the header's own address gives
\* (header_addr - load_addr before it) at load_addr, up to load_end_addr
\* (the whole file if 0), then zeros up to bss_end_addr (none if 0); for
\* ELF, each PT_LOAD segment's file bytes at p_paddr, then zeros up to
\* p_memsz.  The first and last byte of every part.
Ends(a, n) == IF n = 0 THEN {} ELSE {a, a + n - 1}
SpecImage(img) ==
    LET o == SpecHeader(img)
        h == img.header[o]
        off == o - (h.header_addr - h.load_addr)
        textEnd == IF h.load_end_addr = 0 THEN h.load_addr + img.size - off ELSE h.load_end_addr
        bss == IF h.bss_end_addr = 0 THEN 0 ELSE h.bss_end_addr - textEnd
    IN IF h.aout
         THEN {<<x, <<"image", off + x - h.load_addr>> >> : x \in Ends(h.load_addr, textEnd - h.load_addr)}
              \cup {<<x, <<"zero", 0>> >> : x \in Ends(textEnd, bss)}
       ELSE UNION {{<<x, <<"image", p.offset + x - p.paddr>> >> : x \in Ends(p.paddr, p.filesz)}
                   \cup {<<x, <<"zero", 0>> >> : x \in Ends(p.paddr + p.filesz, p.memsz - p.filesz)}
                   : p \in Loads(img)}

-----------------------------------------------------------------------------
(* Properties.                                                             *)

FwTypeOK ==
    /\ fstage \in {"search", "elf", "loaded", "kernel", "halt", "panic"}
    /\ entry \in SUBSET (0 .. 31)
    /\ \A i \in DOMAIN stores : stores[i].len \in Nat /\ stores[i].byte[1] \in {"image", "zero"}

\* When the firmware jumps to the kernel, it jumps to the entry the
\* multiboot header or the ELF header names, translated from virtual to
\* physical through the segment that holds it: load_elf's running
\* translation over every program header agrees with the ELF format.
EntryIsSpecEntry ==
    fstage = "kernel" => entry = SpecEntry(image)

\* When the firmware jumps to the kernel, every part of the image is where
\* the multiboot specification or the program headers place it, and each
\* bss reads as zero: the memcpy and memset arguments and their order.
LoadedAsSpecSays ==
    fstage = "kernel" => \A b \in SpecImage(image) : ByteAt(b[1]) = b[2]
=============================================================================
