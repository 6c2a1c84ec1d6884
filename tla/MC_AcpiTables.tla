--------------------------- MODULE MC_AcpiTables ---------------------------
(***************************************************************************)
(* Firmware layouts for Acpi.  Addresses are physical and real: the EBDA   *)
(* at segment 0x9FC0 (0x9FC00, the last KiB below 640 KiB), RSDPs in the   *)
(* F segment, and the tables in the last megabyte below 2 GiB.             *)
(***************************************************************************)
EXTENDS Integers, Sequences

\* A build for two CPUs, with initial_tables[] of three slots so that a
\* root table can list more tables than it holds; Linux's MAX_LOCAL_APIC.
MC_NR_CPUS == 2
MC_MAX_LOCAL_APIC == 32768
MC_ACPI_MAX_TABLES == 3

\* acpi_lapic_addr: the MADTs give the default base, 0xFEE00000.
MC_ApicDefault == "FEE00000"

EbdaSeg == 40896                         \* 0x9FC0
EbdaRsdp == 654336                       \* 0x9FC00
HiRsdp == 1010240                        \* 0xF6A40
HiStale == 983040                        \* 0xF0000, below HiRsdp

RSDT == 2147352576
XSDT == 2147352832
FACP == 2147353088
MADT == 2147353344
FACS == 2147353600
SSDT == 2147353856                       \* checksum fails
HPET == 2147354112

\* RSDPs: revision 0 (RSDT only) and 2 (XSDT too); a copy whose first 20
\* bytes do not sum to zero; a revision-2 one whose extended sum fails.
Rsdp(rev) == [sig |-> TRUE, sum |-> TRUE, xsum |-> TRUE, revision |-> rev,
              rsdt |-> RSDT, xsdt |-> IF rev >= 2 THEN XSDT ELSE 0]
BadSum == [Rsdp(2) EXCEPT !.sum = FALSE]
BadXsum == [Rsdp(2) EXCEPT !.xsum = FALSE]

\* Where the RSDP is: F segment only; EBDA only; a stale copy in the F
\* segment before the valid one; a bad-extended-sum copy before it.
Placements(rev) ==
  {[a \in {HiRsdp} |-> Rsdp(rev)],
   [a \in {EbdaRsdp} |-> Rsdp(rev)],
   [a \in {HiStale, HiRsdp} |-> IF a = HiStale THEN BadSum ELSE Rsdp(rev)],
   [a \in {HiStale, HiRsdp} |-> IF a = HiStale THEN BadXsum ELSE Rsdp(rev)]}

Table(sig, sum, len) ==
  [sig |-> sig, sum |-> sum, length |-> len, entries |-> <<>>,
   lapic |-> 0, subs |-> <<>>]
Root(sig, esize, es) ==
  [Table(sig, TRUE, 36 + esize * Len(es)) EXCEPT !.entries = es]

\* MADT subtables: LOCAL_APIC (8 bytes), LOCAL_X2APIC (16), IO_APIC (12).
Lapic(id, en) == [type |-> 0, id |-> id, enabled |-> en, length |-> 8]
X2apic(id, en) == [type |-> 9, id |-> id, enabled |-> en, length |-> 16]
Ioapic == [type |-> 1, id |-> 0, enabled |-> TRUE, length |-> 12]
RECURSIVE SubsLength(_)
SubsLength(ss) == IF ss = <<>> THEN 0 ELSE Head(ss).length + SubsLength(Tail(ss))
Madt(ss, cut) ==
  [Table("APIC", TRUE, 44 + SubsLength(ss) - cut) EXCEPT !.subs = ss,
                                                        !.lapic = MC_ApicDefault]

\* Two CPUs; the BSP listed after an AP, as x2APIC, with a repeat and an
\* I/O APIC between; a disabled (hotplug) CPU; three CPUs for NR_CPUS = 2;
\* a table length that cuts the last entry short; a single CPU.
MadtVariants ==
  {Madt(<<X2apic(0, TRUE)>>, 0),
   Madt(<<Lapic(0, TRUE), Lapic(1, TRUE)>>, 0),
   Madt(<<Lapic(1, TRUE), Ioapic, X2apic(0, TRUE), Lapic(1, TRUE)>>, 0),
   Madt(<<Lapic(0, TRUE), Lapic(1, FALSE)>>, 0),
   Madt(<<Lapic(0, TRUE), Lapic(1, TRUE), X2apic(2, TRUE)>>, 0),
   Madt(<<Lapic(0, TRUE), X2apic(1, TRUE)>>, 4)}

\* Root-table entry lists: NULL and bad-checksum entries; FACS (no
\* checksum); more valid tables than initial_tables[] holds, the MADT last;
\* no MADT at all.
EntryLists ==
  {<<FACP, MADT>>, <<SSDT, 0, MADT, FACS>>, <<FACP, FACS, HPET, MADT>>,
   <<FACP>>}

Firmware(rsdp, es, madt) ==
  [ebda |-> EbdaSeg, rsdp |-> rsdp,
   tables |-> [a \in {RSDT, XSDT, FACP, MADT, FACS, SSDT, HPET} |->
                 CASE a = RSDT -> Root("RSDT", 4, es)
                   [] a = XSDT -> Root("XSDT", 8, es)
                   [] a = FACP -> Table("FACP", TRUE, 276)
                   [] a = MADT -> madt
                   [] a = FACS -> Table("FACS", FALSE, 64)
                   [] a = SSDT -> Table("SSDT", FALSE, 512)
                   [] a = HPET -> Table("HPET", TRUE, 56)]]

MC_Firmwares ==
  {Firmware(p, es, m) : p \in Placements(0) \cup Placements(2),
                        es \in EntryLists, m \in MadtVariants}
  \cup {[Firmware([a \in {HiRsdp} |-> Rsdp(0)], <<FACP, MADT>>,
                   Madt(<<Lapic(0, TRUE)>>, 0))
           EXCEPT !.tables[RSDT].length = 36]}      \* an RSDT with no entry

\* The BSP: APIC enabled by the BIOS in xAPIC or x2APIC mode, or disabled;
\* APIC ID 0, or 5, which no MADT lists.
MC_Hardware ==
  {[apicBase |-> b, apicId |-> id] : b \in {{11}, {10, 11}, {}}, id \in {0, 5}}
============================================================================
