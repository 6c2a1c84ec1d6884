------------------------------- MODULE MC_E820 -------------------------------
EXTENDS E820

\* Entries over a 3-bit address space: starts, sizes and two types that
\* give nested, touching, empty and wrapping ranges.
MC_Entries ==
    [addr : {0, 1, 2, 3, 5}, size : {0, 1, 2, 3, 6}, type : {E820_TYPE_RAM, E820_TYPE_RESERVED}]

\* Bootloader maps of two and three entries.
MC_Maps == UNION {[1 .. n -> MC_Entries] : n \in 2 .. 3}

\* Valid one-entry maps, as a machine with a single RAM region reports.
MC_MapsSingle ==
    {<<e>> : e \in {e \in MC_Entries : e.type = E820_TYPE_RAM /\ e.size # 0 /\ ~Wraps(e)}}

MC_Types == {E820_TYPE_RAM, E820_TYPE_RESERVED}
==============================================================================
