-------------------------------- MODULE E820 --------------------------------
(***************************************************************************)
(* The host's E820 memory map (src/kernel/e820.c) as multiboot_init        *)
(* (src/vmm/multiboot.c) builds it: the bootloader's entries are appended  *)
(* to a fixed-size table, the table is sanitized (overlaps removed, the    *)
(* highest type wins), the VMM's own image is checked to be RAM and is     *)
(* then re-typed RESERVED.  kvm_init later hands this table to the guest.  *)
(*                                                                         *)
(* Addresses are AW-bit unsigned integers, so that the code's uint64_t     *)
(* wrap-around (addr + size < addr) is kept.  A table is a sequence of     *)
(* [addr, size, type] records; its length is table->nr_entries.            *)
(***************************************************************************)
EXTENDS Naturals, Sequences, SequencesExt, FiniteSets

CONSTANTS
    AW,          \* width of an address (64 in the code)
    Capacities,  \* the values of E820_MAX_ENTRIES the build may have
    VmmStart,    \* __pa(_start)
    VmmEnd,      \* __pa(_end)
    Maps,        \* the memory maps a bootloader may pass (sequences of entries)
    Types        \* the e820 types the bootloader may report

Top == 2 ^ AW
Addr == 0 .. Top - 1
ULLONG_MAX == Top - 1

\* enum e820_type
E820_TYPE_RAM == 1
E820_TYPE_RESERVED == 2

ASSUME /\ \A c \in Capacities : c >= 2
       /\ VmmStart < VmmEnd /\ VmmEnd <= ULLONG_MAX
       /\ E820_TYPE_RAM \in Types /\ 0 \notin Types

Entry == [addr : Addr, size : Addr, type : Types]

\* entries[i].addr + entries[i].size, computed in uint64_t
EntryEnd(e) == (e.addr + e.size) % Top

\* The check that makes __e820_update_table bail out: the range wraps.
Wraps(e) == EntryEnd(e) < e.addr

VARIABLES
    capacity, \* E820_MAX_ENTRIES, ARRAY_SIZE(table->entries): fixed per build
    pc,      \* "init", then "done" or the panic that stopped multiboot_init
    table,   \* e820_table
    raw,     \* ghost: the table before e820_update_table
    sane,    \* ghost: the table after e820_update_table
    mmap     \* the bootloader's memory map (multiboot_info->mmap_addr)

vars == <<capacity, pc, table, raw, sane, mmap>>

-----------------------------------------------------------------------------
(* __e820_range_add: append, or drop the range when the table is full.     *)

\* Faulty variant: the bound check lets one entry past the array.
RangeAdd_off_by_one(t, e) == IF Len(t) > capacity THEN t ELSE Append(t, e)

RangeAdd(t, e) == IF Len(t) >= capacity THEN t ELSE Append(t, e)

-----------------------------------------------------------------------------
(* __e820_update_table.                                                    *)

\* A change point: an address and the index of the entry it comes from.
ChangePoints(t) ==
    UNION { {[addr |-> t[k].addr, entry |-> k], [addr |-> EntryEnd(t[k]), entry |-> k]}
            : k \in {k \in DOMAIN t : t[k].size # 0} }

\* cpcompare's test (ap->addr != ap->entry->addr): an end point.
IsEnd(t, p) == p.addr # t[p.entry].addr

\* Faulty variant: at one address, ends sort before starts.
CpBefore_ends_first(t, p, q) ==
    \/ p.addr < q.addr
    \/ p.addr = q.addr /\ IsEnd(t, p) /\ ~IsEnd(t, q)

\* cpcompare(p, q) < 0: lower address first; at one address, starts first.
CpBefore(t, p, q) ==
    \/ p.addr < q.addr
    \/ p.addr = q.addr /\ ~IsEnd(t, p) /\ IsEnd(t, q)

\* sort() is not stable and its source is not in the tree: every order
\* that is sorted for cpcompare is a possible outcome.
RECURSIVE SortedOrders(_, _)
SortedOrders(t, S) ==
    IF S = {} THEN {<<>>}
    ELSE UNION { {<<p>> \o o : o \in SortedOrders(t, S \ {p})}
                 : p \in {p \in S : ~\E q \in S : CpBefore(t, q, p)} }

MaxType(S) == IF S = {} THEN 0 ELSE CHOOSE x \in S : \A y \in S : y <= x

\* Faulty variant: an entry is closed even when its size is zero.
CloseEntry_keeps_empty(s, addr) ==
    Append(s.out, [addr |-> s.lastAddr, size |-> addr - s.lastAddr, type |-> s.lastType])

\* Closing the entry opened at last_addr when the type changes at addr:
\* new_nr_entries moves forward only if the new size is non-zero.
CloseEntry(s, addr) ==
    IF s.lastType # 0 /\ addr - s.lastAddr # 0
    THEN Append(s.out, [addr |-> s.lastAddr, size |-> addr - s.lastAddr, type |-> s.lastType])
    ELSE s.out

\* One iteration of the change-point loop.  The overlap list is a set:
\* its order is never observed.  new_entries[] is the sequence out, and
\* the loop breaks when ++new_nr_entries reaches max_nr_entries.
SanitizeStep(t, s, p) ==
    IF s.stop THEN s
    ELSE LET ov  == IF IsEnd(t, p) THEN s.overlap \ {p.entry}
                                   ELSE s.overlap \cup {p.entry}
             cur == MaxType({t[k].type : k \in ov})
             chg == cur # s.lastType
             out == IF chg THEN CloseEntry(s, p.addr) ELSE s.out
         IN [overlap  |-> ov,
             out      |-> out,
             stop     |-> Len(out) >= capacity,
             lastType |-> IF chg THEN cur ELSE s.lastType,
             lastAddr |-> IF chg /\ cur # 0 THEN p.addr ELSE s.lastAddr]

SanitizeInit == [overlap |-> {}, out |-> <<>>, stop |-> FALSE,
                 lastType |-> 0, lastAddr |-> 0]

\* The early returns of -1: fewer than two entries, or a wrapping entry.
UpdateTableFails(t) == Len(t) < 2 \/ \E k \in DOMAIN t : Wraps(t[k])

\* The tables the copy back of new_entries can produce.
UpdateTable(t) ==
    { FoldLeft(LAMBDA s, p : SanitizeStep(t, s, p), SanitizeInit, o).out
      : o \in SortedOrders(t, ChangePoints(t)) }

-----------------------------------------------------------------------------
(* e820_mapped_all: the loop over the table moving start forward.          *)

RECURSIVE MappedAllFrom(_, _, _, _, _)

\* Faulty variant: start moves to the end of every overlapping entry,
\* also of one that begins after start.
MappedAllFrom_no_head_check(t, i, start, end, type) ==
    IF i > Len(t) THEN FALSE
    ELSE LET e == t[i]
             skip == (type # 0 /\ e.type # type)
                     \/ e.addr >= end \/ EntryEnd(e) <= start
             st == IF ~skip THEN EntryEnd(e) ELSE start
         IN IF ~skip /\ st >= end THEN TRUE
            ELSE MappedAllFrom(t, i + 1, st, end, type)

MappedAllFrom(t, i, start, end, type) ==
    IF i > Len(t) THEN FALSE
    ELSE LET e == t[i]
             skip == (type # 0 /\ e.type # type)
                     \/ e.addr >= end \/ EntryEnd(e) <= start
             st == IF ~skip /\ e.addr <= start THEN EntryEnd(e) ELSE start
         IN IF ~skip /\ st >= end THEN TRUE
            ELSE MappedAllFrom(t, i + 1, st, end, type)

e820_mapped_all(t, start, end, type) == MappedAllFrom(t, 1, start, end, type)

-----------------------------------------------------------------------------
(* __e820_range_update.  The loop re-reads nr_entries, so it also visits   *)
(* the entries it appends.                                                 *)

\* Faulty variant: the entry is not shortened to the head.
SplitAround_keeps_entry(t, i, start, size, new) ==
    LET e == t[i]
    IN RangeAdd(RangeAdd(t, [addr |-> start, size |-> size, type |-> new]),
                [addr |-> start + size, size |-> EntryEnd(e) - (start + size), type |-> e.type])

\* Faulty variant: the tail is added with the new type.
SplitAround_tail_new_type(t, i, start, size, new) ==
    LET e == t[i]
        u == RangeAdd(RangeAdd(t, [addr |-> start, size |-> size, type |-> new]),
                      [addr |-> start + size, size |-> EntryEnd(e) - (start + size), type |-> new])
    IN [u EXCEPT ![i].size = start - e.addr]

\* The new range lies strictly inside entry i: add the range with the new
\* type and the tail with the old one, and shorten the entry to its head.
SplitAround(t, i, start, size, new) ==
    LET e == t[i]
        u == RangeAdd(RangeAdd(t, [addr |-> start, size |-> size, type |-> new]),
                      [addr |-> start + size, size |-> EntryEnd(e) - (start + size), type |-> e.type])
    IN [u EXCEPT ![i].size = start - e.addr]

\* The new range covers [fs, fe), the head or the tail of entry i: add
\* it with the new type, shrink the entry, and move its start if the head
\* was taken.
TrimPartial(t, i, fs, fe, new) ==
    LET u == [RangeAdd(t, [addr |-> fs, size |-> fe - fs, type |-> new])
                 EXCEPT ![i].size = @ - (fe - fs)]
    IN IF t[i].addr < fs THEN u ELSE [u EXCEPT ![i].addr = fe]

RECURSIVE RangeUpdateFrom(_, _, _, _, _, _)
RangeUpdateFrom(t, i, start, size, old, new) ==
    IF i > Len(t) THEN t
    ELSE LET e   == t[i]
             end == start + size
             ee  == EntryEnd(e)
             fs  == IF start > e.addr THEN start ELSE e.addr
             fe  == IF end < ee THEN end ELSE ee
             next(u) == RangeUpdateFrom(u, i + 1, start, size, old, new)
         IN CASE e.type # old -> next(t)
              [] e.addr >= start /\ ee <= end -> next([t EXCEPT ![i].type = new])
              [] e.addr < start /\ ee > end -> next(SplitAround(t, i, start, size, new))
              [] fs >= fe -> next(t)
              [] OTHER -> next(TrimPartial(t, i, fs, fe, new))

\* The size is clamped so that start + size does not wrap.
e820_range_update(t, start, size, old, new) ==
    LET sz == IF size > ULLONG_MAX - start THEN ULLONG_MAX - start ELSE size
    IN RangeUpdateFrom(t, 1, start, sz, old, new)

-----------------------------------------------------------------------------
(* multiboot_init, the statements that build the memory map.  The module   *)
(* list and the command line are inputs here: the code panics when there  *)
(* is no module or when strscpy reports that the command line is too long. *)
(* The BUG_ONs on the alignment of _start and _end hold by the linker      *)
(* script and are not modelled.                                            *)

\* The loop of e820_range_add_multiboot over the bootloader's entries,
\* from the empty e820_table; the e820_update_table it ends with is part
\* of multiboot_init below.
e820_range_add_multiboot(m) == FoldLeft(RangeAdd, <<>>, m)

Init ==
    /\ capacity \in Capacities
    /\ pc = "init"
    /\ table = <<>>
    /\ raw = <<>>
    /\ sane = <<>>
    /\ mmap \in Maps

multiboot_init ==
    /\ pc = "init"
    /\ \E hasMods, cmdlineFits \in BOOLEAN :
        LET added == e820_range_add_multiboot(mmap)
        IN /\ raw' = added
           /\ IF UpdateTableFails(added)
              THEN /\ pc' = "sanitize_failed"           \* panic in e820_update_table
                   /\ table' = added
                   /\ sane' = sane
              ELSE \E t \in UpdateTable(added) :
                   /\ sane' = t
                   /\ CASE ~hasMods -> pc' = "no_kernel" /\ table' = t
                        [] ~cmdlineFits -> pc' = "cmdline_too_long" /\ table' = t
                        [] ~e820_mapped_all(t, VmmStart, VmmEnd, E820_TYPE_RAM) ->
                              pc' = "vmm_not_ram" /\ table' = t
                        [] OTHER ->
                              /\ pc' = "done"
                              /\ table' = e820_range_update(t, VmmStart, VmmEnd - VmmStart,
                                                            E820_TYPE_RAM, E820_TYPE_RESERVED)
    /\ UNCHANGED <<capacity, mmap>>

Next == multiboot_init

Spec == Init /\ [][Next]_vars /\ WF_vars(Next)

-----------------------------------------------------------------------------
(* Properties.                                                             *)

TypeOK ==
    /\ capacity \in Capacities
    /\ pc \in {"init", "done", "sanitize_failed", "no_kernel",
                "cmdline_too_long", "vmm_not_ram"}
    /\ \A t \in {table, raw, sane} : t \in Seq(Entry) /\ Len(t) <= capacity

\* The type a table gives to address a: the highest type of the entries
\* that cover it (0 when none does), as the comment on __e820_update_table
\* defines it.  Only used for tables without wrapping entries.
CoverType(t, a) ==
    MaxType({t[k].type : k \in {k \in DOMAIN t : t[k].addr <= a /\ a < t[k].addr + t[k].size}})

Sanitized == pc \notin {"init", "sanitize_failed"}

\* e820_update_table returns a sorted table of non-empty, non-overlapping
\* entries in which touching entries differ in type, and which types
\* every address as the overlapping input did: everywhere when the output
\* had room, and below the end of its last entry when the loop broke
\* because new_entries was full.  The comment states the first part; the
\* second is what the break at "++new_nr_entries >= max_nr_entries" keeps.
SanitizedMapExact ==
    Sanitized =>
        /\ \A k \in DOMAIN sane : sane[k].size > 0
        /\ \A k \in 1 .. Len(sane) - 1 :
              /\ EntryEnd(sane[k]) <= sane[k + 1].addr
              /\ EntryEnd(sane[k]) = sane[k + 1].addr => sane[k].type # sane[k + 1].type
        /\ \A a \in Addr :
              (Len(sane) < capacity \/ a < EntryEnd(Last(sane)))
                  => CoverType(sane, a) = CoverType(raw, a)

\* e820_mapped_all, on the sorted table it is called on, answers whether
\* every address of [start, end) has the type asked for (any type for 0).
MappedAllCorrect ==
    Sanitized =>
        \A start, end \in Addr, type \in Types \cup {0} :
            start < end =>
              (e820_mapped_all(sane, start, end, type)
                 <=> \A a \in start .. end - 1 :
                       IF type = 0 THEN CoverType(sane, a) # 0
                                   ELSE CoverType(sane, a) = type)

VmmRange == VmmStart .. VmmEnd - 1

\* After multiboot_init, the entries of e820_table do not overlap and no
\* address of the VMM's image is RAM, nor any address that was not RAM
\* before, even when __e820_range_add dropped an entry of a full table.
VmmNeverRam ==
    pc = "done" =>
        /\ \A j, k \in DOMAIN table :
              j # k => EntryEnd(table[j]) <= table[k].addr \/ EntryEnd(table[k]) <= table[j].addr
        /\ \A a \in Addr :
              CoverType(table, a) = E820_TYPE_RAM => a \notin VmmRange /\ CoverType(sane, a) = E820_TYPE_RAM

\* When the table had room for the two entries e820_range_update may add,
\* the update retypes exactly the VMM's image and leaves every other
\* address with its type.
UpdatePreservesMap ==
    pc = "done" /\ Len(sane) + 2 <= capacity =>
        \A a \in Addr :
            CoverType(table, a) = IF a \in VmmRange THEN E820_TYPE_RESERVED
                                                  ELSE CoverType(sane, a)

\* sort() is not stable, yet the sanitized table does not depend on the
\* order it leaves change points of one address in.
SortOrderIrrelevant ==
    Sanitized => Cardinality(UpdateTable(raw)) = 1

\* The comment on __e820_update_table says -1 means the sanitizer did
\* nothing, as for a map of one entry, and is an error only for a wrapping
\* entry; e820_update_table panics on any -1.
SanitizeRejectsOnlyWrappingMaps ==
    pc = "sanitize_failed" => \E k \in DOMAIN raw : Wraps(raw[k])

=============================================================================
