-------------------------------- MODULE Acpi --------------------------------
(***************************************************************************)
(* ACPI table discovery and the boot CPU's APIC bring-up, as main() runs  *)
(* them after multiboot_init: acpi_table_init (src/kernel/acpi.c) finds   *)
(* the RSDP with acpi_find_root_pointer (src/kernel/acpica/tbxfroot.c)    *)
(* and loads initial_tables[] from the RSDT or XSDT; apic_init            *)
(* (src/kernel/apic.c) picks xAPIC or x2APIC, finds the MADT and builds   *)
(* cpuid_to_apicid[] from its LOCAL_APIC and LOCAL_X2APIC entries.        *)
(*                                                                         *)
(* Firmware memory is abstracted to the structures the code reads: the    *)
(* RSDP-shaped paragraphs of the low megabyte (fw.rsdp, by physical       *)
(* address), the tables (fw.tables, by physical address, each with its    *)
(* signature, whether its bytes sum to zero, its length, and the entries  *)
(* of a root table or the subtables of a MADT), and the word the BIOS     *)
(* keeps at 0x40E, the EBDA segment (fw.ebda).  A checksum is the fact    *)
(* that the bytes sum to 0 modulo 256, which is all acpi_tb_checksum's    *)
(* callers test.                                                          *)
(***************************************************************************)
EXTENDS Integers, Sequences, SequencesExt

CONSTANTS
  Firmwares,       \* the firmware layouts the machine may boot with
  Hardware,        \* [apicBase : SUBSET {10, 11}, apicId : Nat]: the BSP's
                   \* IA32_APICBASE enable bits and its APIC ID
  NR_CPUS,         \* build-time bound of cpuid_to_apicid[]
  MAX_LOCAL_APIC,  \* max_entries of acpi_parse_madt_lapic_entries
  ACPI_MAX_TABLES, \* size of initial_tables[] (acpi.c:6)
  BAD_APICID,      \* the empty slot of cpuid_to_apicid[]
  APIC_DEFAULT_PHYS_BASE, \* initial acpi_lapic_addr (xapic.c:5)
  NULL

(* acconfig.h and actbl.h. *)
ACPI_EBDA_PTR_LOCATION == 1038          \* 0x40E
ACPI_EBDA_WINDOW_SIZE == 1024
ACPI_HI_RSDP_WINDOW_BASE == 917504      \* 0xE0000
ACPI_HI_RSDP_WINDOW_SIZE == 131072      \* 0x20000
ACPI_RSDP_SCAN_STEP == 16
HeaderSize == 36                        \* sizeof(struct acpi_table_header)
MadtSize == 44                          \* sizeof(struct acpi_table_madt)
ACPI_RSDT_ENTRY_SIZE == 4
ACPI_XSDT_ENTRY_SIZE == 8
ACPI_MADT_TYPE_LOCAL_APIC == 0
ACPI_MADT_TYPE_LOCAL_X2APIC == 9
\* sizeof the two processor subtables, for BAD_MADT_ENTRY.
EntrySize == [t \in {ACPI_MADT_TYPE_LOCAL_APIC, ACPI_MADT_TYPE_LOCAL_X2APIC} |->
                IF t = ACPI_MADT_TYPE_LOCAL_APIC THEN 8 ELSE 16]
\* IA32_APICBASE bits: 11 global enable, 10 x2APIC enable.
APICBASE_ENABLE == 11
APICBASE_X2APIC_ENABLE == 10

VARIABLES
  fw,                 \* the firmware (fixed)
  hw,                 \* the boot CPU's APIC (fixed)
  stage,              \* "acpi", "apic", "booted" or "halt"
  why,                \* the check that halted the boot
  rsdp,               \* the RSDP address acpi_find_root_pointer returned
  initial_tables,     \* initial_tables[0 .. Len - 1]; the rest are NULL
  apic,               \* the apic ops: "none", "xapic" or "x2apic"
  lapic_addr,         \* acpi_lapic_addr
  boot_cpu_physical_apicid,
  cpuid_to_apicid,
  nr_logical_cpuids

vars == <<fw, hw, stage, why, rsdp, initial_tables, apic, lapic_addr,
          boot_cpu_physical_apicid, cpuid_to_apicid, nr_logical_cpuids>>

(***************************************************************************)
(* tbxfroot.c and tbprint.c.                                               *)
(***************************************************************************)
\* acpi_tb_validate_rsdp: signature, then the 20-byte checksum, then the
\* 36-byte one for revision 2 and later.
acpi_tb_validate_rsdp(r) ==
  CASE ~r.sig                     -> "AE_BAD_SIGNATURE"
    [] ~r.sum                     -> "AE_BAD_CHECKSUM"
    [] r.revision >= 2 /\ ~r.xsum -> "AE_BAD_CHECKSUM"
    [] OTHER                      -> "AE_OK"

\* acpi_tb_scan_memory_for_rsdp: the paragraphs start, start + 16, ... below
\* start + length.  A paragraph that holds no RSDP-shaped structure fails
\* the signature test, so the loop goes from one such structure to the
\* next on the 16-byte grid.
RECURSIVE ScanFrom(_, _, _)
ScanFrom(f, rover, end) ==
  LET next == {a \in DOMAIN f.rsdp :
                 rover <= a /\ a < end /\ (a - rover) % ACPI_RSDP_SCAN_STEP = 0}
  IN  IF next = {} THEN NULL
      ELSE LET a == Min(next)
           IN  IF acpi_tb_validate_rsdp(f.rsdp[a]) = "AE_OK" THEN a
               ELSE ScanFrom(f, a + ACPI_RSDP_SCAN_STEP, end)

acpi_tb_scan_memory_for_rsdp(f, start, length) == ScanFrom(f, start, start + length)

\* acpi_find_root_pointer: the EBDA window, then E0000h-FFFFFh.  The code
\* shifts the constant ACPI_EBDA_PTR_LOCATION itself, where ACPICA reads
\* the 16-bit segment stored there, so the first window is 0x40E0 + 1 KiB
\* whatever fw.ebda holds.
acpi_find_root_pointer(f) ==
  LET pa  == ACPI_EBDA_PTR_LOCATION * 16
      low == IF pa > 1024 THEN acpi_tb_scan_memory_for_rsdp(f, pa, ACPI_EBDA_WINDOW_SIZE)
             ELSE NULL
  IN  IF low # NULL THEN low
      ELSE acpi_tb_scan_memory_for_rsdp(f, ACPI_HI_RSDP_WINDOW_BASE,
                                        ACPI_HI_RSDP_WINDOW_SIZE)

\* acpi_tb_verify_checksum: FACS and S3PT have no checksum.
acpi_tb_verify_checksum(t) == t.sig \in {"FACS", "S3PT"} \/ t.sum

(***************************************************************************)
(* acpi.c.                                                                 *)
(***************************************************************************)
\* The loop of acpi_tb_parse_root_table over the entries: NULL entries and
\* tables with a bad checksum are skipped; the loop stops when
\* initial_tables[] is full.
RECURSIVE LoadEntries(_, _, _)
\* Faulty variant: no stop when initial_tables[] is full.
LoadEntries_no_limit(f, entries, loaded) ==
  IF entries = <<>> THEN loaded
  ELSE LET a == Head(entries)
       IN  IF a = 0 \/ ~acpi_tb_verify_checksum(f.tables[a])
             THEN LoadEntries(f, Tail(entries), loaded)
           ELSE LoadEntries(f, Tail(entries), Append(loaded, a))

LoadEntries(f, entries, loaded) ==
  IF entries = <<>> THEN loaded
  ELSE LET a == Head(entries)
       IN  IF a = 0 \/ ~acpi_tb_verify_checksum(f.tables[a])
             THEN LoadEntries(f, Tail(entries), loaded)
           ELSE IF Len(loaded) + 1 = ACPI_MAX_TABLES
             THEN Append(loaded, a)
           ELSE LoadEntries(f, Tail(entries), Append(loaded, a))

\* acpi_tb_parse_root_table: the XSDT if the revision is above 1 and its
\* address is set, otherwise the RSDT; the length must hold one entry and
\* the table must checksum; the entry count is what the length holds.
acpi_tb_parse_root_table(f, addr) ==
  LET r     == f.rsdp[addr]
      xsdt  == r.revision > 1 /\ r.xsdt # 0
      root  == IF xsdt THEN r.xsdt ELSE r.rsdt
      esize == IF xsdt THEN ACPI_XSDT_ENTRY_SIZE ELSE ACPI_RSDT_ENTRY_SIZE
      t     == f.tables[root]
      count == (t.length - HeaderSize) \div esize
  IN  CASE t.length < HeaderSize + esize ->
             [status |-> "AE_INVALID_TABLE_LENGTH", tables |-> <<>>]
        [] ~acpi_tb_verify_checksum(t) ->
             [status |-> "AE_BAD_CHECKSUM", tables |-> <<>>]
        [] OTHER ->
             [status |-> "AE_OK",
              tables |-> LoadEntries(f, SubSeq(t.entries, 1, count), <<>>)]

\* acpi_table_init.
acpi_table_init ==
  /\ stage = "acpi"
  /\ LET found == acpi_find_root_pointer(fw)
         res   == acpi_tb_parse_root_table(fw, found)
     IN  IF found = NULL
           THEN stage' = "halt" /\ why' = "rsdp" /\ UNCHANGED <<rsdp, initial_tables>>
         ELSE /\ rsdp' = found
              /\ IF res.status # "AE_OK"
                   THEN stage' = "halt" /\ why' = "root" /\ UNCHANGED initial_tables
                 ELSE stage' = "apic" /\ initial_tables' = res.tables /\ UNCHANGED why
  /\ UNCHANGED <<fw, hw, apic, lapic_addr, boot_cpu_physical_apicid,
                 cpuid_to_apicid, nr_logical_cpuids>>

\* acpi_find_table: the outcomes of the search for signature id.  It
\* compares every slot of initial_tables[]; past the loaded ones the slot
\* is NULL and its signature is read through a NULL pointer, which either
\* faults or reads bytes that are not a table signature (and then every
\* later slot does the same and the loop ends with NULL).  An outcome is
\* the pointer returned, or a fault.
acpi_find_table(tables, id) ==
  LET hits == {i \in 1 .. Len(tables) : fw.tables[tables[i]].sig = id}
      Ret(p) == [fault |-> FALSE, table |-> p]
  IN  IF hits # {} THEN {Ret(tables[Min(hits)])}
      ELSE IF Len(tables) < ACPI_MAX_TABLES
        THEN {[fault |-> TRUE, table |-> NULL], Ret(NULL)}
      ELSE {Ret(NULL)}

(***************************************************************************)
(* apic.c.                                                                 *)
(***************************************************************************)
\* Faulty variant: a known APIC ID is allocated again.
acpi_register_lapic_no_dedup(s, apicid, enabled) ==
  CASE ~enabled -> [s EXCEPT !.stop = "hotplug"]
    [] apicid = s.bsp -> [s EXCEPT !.map[0] = apicid]
    [] s.nr >= NR_CPUS -> [s EXCEPT !.stop = "nr_cpus"]
    [] OTHER -> [s EXCEPT !.map[s.nr] = apicid, !.nr = @ + 1]

\* Faulty variant: nr_logical_cpuids is not incremented.
acpi_register_lapic_no_count(s, apicid, enabled) ==
  CASE ~enabled -> [s EXCEPT !.stop = "hotplug"]
    [] apicid = s.bsp -> [s EXCEPT !.map[0] = apicid]
    [] \E i \in 0 .. s.nr - 1 : s.map[i] = apicid -> s
    [] s.nr >= NR_CPUS -> [s EXCEPT !.stop = "nr_cpus"]
    [] OTHER -> [s EXCEPT !.map[s.nr] = apicid]

\* acpi_register_lapic on the walk's state s (s.bsp is
\* boot_cpu_physical_apicid): a disabled CPU panics (no
\* hotplug); the boot CPU takes logical ID 0; a known APIC ID is ignored;
\* a new one takes the next logical ID, and NR_CPUS of them panic.
acpi_register_lapic(s, apicid, enabled) ==
  CASE ~enabled -> [s EXCEPT !.stop = "hotplug"]
    [] apicid = s.bsp -> [s EXCEPT !.map[0] = apicid]
    [] \E i \in 0 .. s.nr - 1 : s.map[i] = apicid -> s
    [] s.nr >= NR_CPUS -> [s EXCEPT !.stop = "nr_cpus"]
    [] OTHER -> [s EXCEPT !.map[s.nr] = apicid, !.nr = @ + 1]

\* acpi_parse_lapic and acpi_parse_x2apic: BUG_ON(BAD_MADT_ENTRY), then
\* register the entry's APIC ID with its enabled flag.
ParseProcessor(s, e, off, end) ==
  IF off + EntrySize[e.type] > end \/ e.length < EntrySize[e.type]
    THEN [s EXCEPT !.stop = "bad_entry"]
  ELSE acpi_register_lapic(s, e.id, e.enabled)

\* The loop of acpi_table_parse_entries_array from the subtable at offset
\* off, the i-th of t.subs: while a subtable header fits before the end,
\* stop at max_entries matches, hand LOCAL_APIC and LOCAL_X2APIC entries
\* to their handler and count them, BUG_ON a zero length, step by length.
RECURSIVE EntriesFrom(_, _, _, _)
EntriesFrom(t, off, i, s) ==
  IF s.stop # "" \/ off + 2 >= t.length THEN s
  ELSE IF MAX_LOCAL_APIC # 0 /\ s.count >= MAX_LOCAL_APIC THEN s
  ELSE LET e  == t.subs[i]
           s1 == IF e.type \in DOMAIN EntrySize
                   THEN [ParseProcessor(s, e, off, t.length) EXCEPT !.count = @ + 1]
                 ELSE s
       IN  IF s1.stop # "" THEN s1
           ELSE IF e.length = 0 THEN [s1 EXCEPT !.stop = "bad_entry"]
           ELSE EntriesFrom(t, off + e.length, i + 1, s1)

\* acpi_parse_madt_lapic_entries on the MADT t, from the state of
\* cpuid_to_apicid[] and nr_logical_cpuids, with the BSP's ID bsp.
acpi_parse_madt_lapic_entries(t, bsp) ==
  EntriesFrom(t, MadtSize, 1,
              [map |-> cpuid_to_apicid, nr |-> nr_logical_cpuids,
               count |-> 0, stop |-> "", bsp |-> bsp])

\* verify_apic on the BSP: IA32_APICBASE must have the global enable bit;
\* the ops follow the x2APIC bit the BIOS left.  Its first check,
\* BUG_ON(!X86_FEATURE_APIC), stops the boot in the same case: CPUID.1
\* reports the APIC exactly when IA32_APICBASE enables it (Boot's
\* SameProcessor, and CapabilitiesFromReportedLeaves for cpu_info).
ApicOps(h) == IF APICBASE_X2APIC_ENABLE \in h.apicBase THEN "x2apic" ELSE "xapic"

Halt(reason) == stage' = "halt" /\ why' = reason

\* apic_init on the BSP, up to the MADT checks (the register writes of
\* clear_local_apic, setup_local_apic and lapic_setup_esr follow).
\* acpi_table_parse(MADT) sets acpi_lapic_addr or fails BUG_ON(r);
\* read_apic_id gives the BSP's ID; the entries are parsed; logical ID 0
\* must then be the BSP.
apic_init ==
  /\ stage = "apic"
  /\ IF APICBASE_ENABLE \notin hw.apicBase
       THEN Halt("xapic_disabled")
            /\ UNCHANGED <<apic, lapic_addr, boot_cpu_physical_apicid,
                           cpuid_to_apicid, nr_logical_cpuids>>
     ELSE
       /\ apic' = ApicOps(hw)
       /\ \E found \in acpi_find_table(initial_tables, "APIC") :
            CASE found.fault ->
                   Halt("fault")
                   /\ UNCHANGED <<lapic_addr, boot_cpu_physical_apicid,
                                  cpuid_to_apicid, nr_logical_cpuids>>
              [] found.table = NULL ->
                   Halt("no_madt")
                   /\ UNCHANGED <<lapic_addr, boot_cpu_physical_apicid,
                                  cpuid_to_apicid, nr_logical_cpuids>>
              [] OTHER ->
                   LET t == fw.tables[found.table]
                       s == acpi_parse_madt_lapic_entries(t, hw.apicId)
                   IN  /\ lapic_addr' = t.lapic
                       /\ boot_cpu_physical_apicid' = hw.apicId
                       /\ cpuid_to_apicid' = s.map
                       /\ nr_logical_cpuids' = s.nr
                       /\ CASE s.stop # "" -> Halt(s.stop)
                            [] s.map[0] # hw.apicId -> Halt("bsp")
                            [] OTHER -> stage' = "booted" /\ UNCHANGED why
  /\ UNCHANGED <<fw, hw, rsdp, initial_tables>>

\* The state before acpi_table_init on a machine of Hardware, whatever
\* its firmware.
InitMachine ==
  /\ hw \in Hardware
  /\ stage = "acpi"
  /\ why = "none"
  /\ rsdp = NULL
  /\ initial_tables = <<>>
  /\ apic = "none"
  /\ lapic_addr = APIC_DEFAULT_PHYS_BASE
  /\ boot_cpu_physical_apicid = BAD_APICID
  /\ cpuid_to_apicid = [i \in 0 .. NR_CPUS - 1 |-> BAD_APICID]
  /\ nr_logical_cpuids = 1

Init == fw \in Firmwares /\ InitMachine

Next == acpi_table_init \/ apic_init

Spec == Init /\ [][Next]_vars

(***************************************************************************)
(* Properties.                                                             *)
(***************************************************************************)
Phys == Nat \cup {NULL}

TypeOK ==
  /\ stage \in {"acpi", "apic", "booted", "halt"}
  /\ why \in {"none", "rsdp", "root", "xapic_disabled", "fault", "no_madt",
             "hotplug", "nr_cpus", "bad_entry", "bsp"}
  /\ rsdp \in Phys
  /\ initial_tables \in Seq(Nat) /\ Len(initial_tables) <= ACPI_MAX_TABLES
  /\ apic \in {"none", "xapic", "x2apic"}
  /\ cpuid_to_apicid \in [0 .. NR_CPUS - 1 -> Nat \cup {BAD_APICID}]
  /\ nr_logical_cpuids \in 1 .. NR_CPUS

\* The tables the ACPI specification says the OS should use: those the
\* XSDT lists when the RSDP is of revision 2 or later and gives one, those
\* the RSDT lists otherwise, less NULL entries and tables whose checksum
\* fails, the first ACPI_MAX_TABLES of them.
ExpectedTables(f, addr) ==
  LET r    == f.rsdp[addr]
      root == f.tables[IF r.revision >= 2 /\ r.xsdt # 0 THEN r.xsdt ELSE r.rsdt]
      ok   == SelectSeq(root.entries, LAMBDA a : a # 0 /\ acpi_tb_verify_checksum(f.tables[a]))
  IN  SubSeq(ok, 1, IF Len(ok) < ACPI_MAX_TABLES THEN Len(ok) ELSE ACPI_MAX_TABLES)

\* Once acpi_table_init has accepted the root table, initial_tables[] holds
\* exactly the expected tables in the root table's order: the entry count
\* taken from the length, the skips and the stop at a full array agree.
RootTablesLoaded ==
  rsdp # NULL /\ why # "root" => initial_tables = ExpectedTables(fw, rsdp)

\* The processor entries of a MADT.
Processors(t) ==
  {t.subs[i] : i \in {j \in DOMAIN t.subs : t.subs[j].type \in DOMAIN EntrySize}}
MadtOf(f, tables) ==
  f.tables[CHOOSE a \in {tables[i] : i \in DOMAIN tables} : f.tables[a].sig = "APIC"]

\* When the boot CPU finishes apic_init, cpuid_to_apicid[] gives each
\* processor of the MADT exactly one logical ID, the BSP ID 0, and the
\* slots from nr_logical_cpuids on are empty: the boot-CPU reservation,
\* the duplicate check and the allocation agree whatever the order and
\* the kind (xAPIC or x2APIC) of the entries.
CpuMapMatchesMadt ==
  stage = "booted" =>
    LET ids  == {e.id : e \in Processors(MadtOf(fw, initial_tables))}
        used == 0 .. nr_logical_cpuids - 1
    IN  /\ cpuid_to_apicid[0] = hw.apicId
        /\ {cpuid_to_apicid[i] : i \in used} = ids
        /\ \A i, j \in used : i # j => cpuid_to_apicid[i] # cpuid_to_apicid[j]
        /\ \A i \in (0 .. NR_CPUS - 1) \ used : cpuid_to_apicid[i] = BAD_APICID

\* The offset of the i-th subtable of the MADT t.
SubOffset(t, i) ==
  MadtSize + FoldSeq(LAMBDA e, acc : e.length + acc, 0, SubSeq(t.subs, 1, i - 1))

\* apic_init stops the boot on the MADT only for what its panics and BUGs
\* name: a disabled processor, more processors than NR_CPUS, a BSP the
\* MADT does not list, or a subtable whose header lies inside the table
\* and which has length zero or is a processor entry cut short.
ApicHaltJustified ==
  stage = "halt" =>
    LET t   == MadtOf(fw, initial_tables)
        ps  == Processors(t)
        ids == {e.id : e \in ps}
        short(i) == LET e == t.subs[i] IN
                      \/ e.length = 0
                      \/ e.type \in DOMAIN EntrySize
                         /\ \/ SubOffset(t, i) + EntrySize[e.type] > t.length
                            \/ e.length < EntrySize[e.type]
    IN  /\ why = "hotplug" => \E e \in ps : ~e.enabled
        /\ why = "bad_entry" =>
              \E i \in DOMAIN t.subs : SubOffset(t, i) + 2 < t.length /\ short(i)
        /\ why = "nr_cpus" => Cardinality(ids \cup {hw.apicId}) > NR_CPUS
        /\ why = "bsp" => hw.apicId \notin ids

\* The ACPI specification (5.2.5.1), which the comment of
\* acpi_find_root_pointer repeats: the RSDP is on a 16-byte boundary in
\* the first KiB of the EBDA, whose segment the BIOS stores at 0x40E, or
\* in E0000h-FFFFFh.  An RSDP there that validates is found.
RsdpFoundWhereSpecPlacesIt ==
  LET ebda == fw.ebda * 16
      inSpecWindow(a) ==
        \/ ebda > 1024 /\ ebda <= a /\ a < ebda + ACPI_EBDA_WINDOW_SIZE
        \/ ACPI_HI_RSDP_WINDOW_BASE <= a
           /\ a < ACPI_HI_RSDP_WINDOW_BASE + ACPI_HI_RSDP_WINDOW_SIZE
  IN  (\E a \in DOMAIN fw.rsdp :
          inSpecWindow(a) /\ a % 16 = 0 /\ acpi_tb_validate_rsdp(fw.rsdp[a]) = "AE_OK")
        => why # "rsdp"

============================================================================
