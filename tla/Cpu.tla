-------------------------------- MODULE Cpu --------------------------------
(***************************************************************************)
(* cpu_init (src/kernel/cpu.c): the boot CPU's cpuinfo_x86 from CPUID.     *)
(* cpu_detect reads the vendor string and the signature, get_cpu_vendor    *)
(* matches the vendor, get_cpu_cap fills the capability words from the     *)
(* leaves the processor reports, and get_model_name copies and trims the   *)
(* brand string.                                                           *)
(*                                                                         *)
(* A processor answers CPUID from a table of leaves; a leaf above the      *)
(* maximum of its range returns the highest basic leaf (SDM Vol. 2A,       *)
(* CPUID), so a leaf read without its level check yields another leaf's   *)
(* data.  32-bit registers are words (sets of 1-bits, X86Bits); the four   *)
(* vendor bytes of a register are one string, and the brand-string bytes  *)
(* of a register are a short sequence of characters.                       *)
(***************************************************************************)
EXTENDS X86Bits, SequencesExt

CONSTANTS
  Processors,   \* the boot processors cpu_init may run on (records below)
  ModelIdLen    \* sizeof(x86_model_id), scaled with the brand string

(***************************************************************************)
(* A processor: level, the maximum basic leaf (CPUID.0:EAX); vendor, the   *)
(* vendor registers EBX, EDX, ECX of leaf 0; ext, CPUID.80000000H:EAX;     *)
(* leaves, the registers of every other leaf it reports, by <<leaf,        *)
(* sub-leaf>>.                                                             *)
(***************************************************************************)
NUL == "NUL"
Space == {" ", "\t", "\n", "VT", "\f", "\r"}    \* isspace ("VT" is '\v')

X86_VENDOR_INTEL == 0
X86_VENDOR_AMD == 2
X86_VENDOR_UNKNOWN == 255

\* cpu_devs[]: c_ident[0] of intel_cpu_dev and amd_cpu_dev, with their vendors.
cpu_devs == <<[c_ident |-> <<"Genu", "ineI", "ntel">>, c_x86_vendor |-> X86_VENDOR_INTEL],
              [c_ident |-> <<"Auth", "enti", "cAMD">>, c_x86_vendor |-> X86_VENDOR_AMD]>>

\* enum cpuid_leafs: the words get_cpu_cap fills.
CapWords == {"CPUID_1_ECX", "CPUID_1_EDX", "CPUID_6_EAX", "CPUID_7_0_EBX",
             "CPUID_7_ECX", "CPUID_D_1_EAX", "CPUID_F_0_EDX", "CPUID_F_1_EDX",
             "CPUID_8000_0001_ECX", "CPUID_8000_0001_EDX", "CPUID_8000_0007_EBX",
             "CPUID_8000_0008_EBX", "CPUID_8000_000A_EDX"}

\* X86_FEATURE_CQM_LLC: bit 1 of CPUID_F_0_EDX (Linux cpufeatures.h).
X86_FEATURE_CQM_LLC == 1

\* The 32-bit leaf number 0x80000000 + n.
Ext(n) == {31} \cup W(n)

\* Unsigned a >= b of two words.
GeU(a, b) == a = b \/ Max((a \ b) \cup (b \ a)) \in a

ZeroRegs == [eax |-> {}, ebx |-> {}, ecx |-> {}, edx |-> {}]

\* What the processor reports for a leaf in range.
Answer(p, op, count) ==
  CASE op = W(0) -> [eax |-> W(p.level), ebx |-> p.vendor[1],
                     ecx |-> p.vendor[3], edx |-> p.vendor[2]]
    [] op = Ext(0) -> [ZeroRegs EXCEPT !.eax = p.ext]
    [] <<op, count>> \in DOMAIN p.leaves -> p.leaves[<<op, count>>]
    [] OTHER -> ZeroRegs

InRange(p, op) ==
  IF 31 \in op THEN Field(p.ext, 16, 16) = {15} /\ GeU(p.ext, op)
  ELSE Val(op) <= p.level

\* cpuid_count(op, count) / cpuid(op) (count 0) on processor p.
Cpuid(p, op, count) ==
  IF InRange(p, op) THEN Answer(p, op, count) ELSE Answer(p, W(p.level), 0)

VARIABLES
  proc,        \* the boot processor (fixed)
  cpu_info,    \* this CPU's struct cpuinfo_x86
  detected     \* cpu_init has returned

cvars == <<proc, cpu_info, detected>>

\* The zeroed per-CPU struct.
CpuInfo0 ==
  [x86 |-> 0, x86_vendor |-> 0, x86_model |-> 0, x86_mask |-> 0,
   extended_cpuid_level |-> {}, cpuid_level |-> 0,
   x86_capability |-> [w \in CapWords |-> {}],
   x86_vendor_id |-> <<NUL, NUL, NUL>>,
   x86_model_id |-> [i \in 0 .. ModelIdLen - 1 |-> NUL]]

(* The signature fields of CPUID.1:EAX (sig is a natural below 2^28). *)
x86_family(sig) ==
  LET x86 == (sig \div 2^8) % 16
  IN  IF x86 = 15 THEN x86 + ((sig \div 2^20) % 256) ELSE x86

x86_model(sig) ==
  LET model == (sig \div 2^4) % 16
  IN  IF x86_family(sig) >= 6 THEN model + ((sig \div 2^16) % 16) * 16 ELSE model

x86_stepping(sig) == sig % 16

\* Faulty variant: ECX stored at x86_vendor_id[4] and EDX at [8].
cpu_detect_swapped(c, p) ==
  LET r0 == Cpuid(p, W(0), 0)
      tfms == Val(Cpuid(p, W(1), 0).eax)
      c1 == [c EXCEPT !.cpuid_level = Val(r0.eax),
                      !.x86_vendor_id = <<r0.ebx, r0.ecx, r0.edx>>,
                      !.x86 = 4]
  IN  IF c1.cpuid_level >= 1
      THEN [c1 EXCEPT !.x86 = x86_family(tfms) % 256,
                      !.x86_model = x86_model(tfms) % 256,
                      !.x86_mask = x86_stepping(tfms)]
      ELSE c1

\* Leaf 0 into cpuid_level and x86_vendor_id[0], [8], [4]; family, model
\* and stepping from leaf 1, stored in uint8_t fields.
cpu_detect(c, p) ==
  LET r0 == Cpuid(p, W(0), 0)
      tfms == Val(Cpuid(p, W(1), 0).eax)
      c1 == [c EXCEPT !.cpuid_level = Val(r0.eax),
                      !.x86_vendor_id = <<r0.ebx, r0.edx, r0.ecx>>,
                      !.x86 = 4]
  IN  IF c1.cpuid_level >= 1
      THEN [c1 EXCEPT !.x86 = x86_family(tfms) % 256,
                      !.x86_model = x86_model(tfms) % 256,
                      !.x86_mask = x86_stepping(tfms)]
      ELSE c1

\* The first of cpu_devs whose ident matches the vendor string, else unknown.
get_cpu_vendor(c) ==
  LET hits == {i \in DOMAIN cpu_devs : cpu_devs[i].c_ident = c.x86_vendor_id}
  IN  [c EXCEPT !.x86_vendor = IF hits = {} THEN X86_VENDOR_UNKNOWN
                                ELSE cpu_devs[Min(hits)].c_x86_vendor]

\* Faulty variant: leaf 6 read whatever the level.
get_cpu_cap_no_level_6(c, p) ==
  LET lvl == c.cpuid_level
      r1 == Cpuid(p, W(1), 0)
      r7 == Cpuid(p, W(7), 0)
      f0 == Cpuid(p, W(15), 0)
      ext == Cpuid(p, Ext(0), 0).eax
      e1 == Cpuid(p, Ext(1), 0)
      cap == c.x86_capability
      capF0 == IF lvl >= 15 THEN f0.edx ELSE cap["CPUID_F_0_EDX"]
      new ==
        [w \in CapWords |->
          CASE w = "CPUID_1_ECX" /\ lvl >= 1 -> r1.ecx
            [] w = "CPUID_1_EDX" /\ lvl >= 1 -> r1.edx
            [] w = "CPUID_6_EAX" -> Cpuid(p, W(6), 0).eax
            [] w = "CPUID_7_0_EBX" /\ lvl >= 7 -> r7.ebx
            [] w = "CPUID_7_ECX" /\ lvl >= 7 -> r7.ecx
            [] w = "CPUID_D_1_EAX" /\ lvl >= 13 -> Cpuid(p, W(13), 1).eax
            [] w = "CPUID_F_0_EDX" -> capF0
            [] w = "CPUID_F_1_EDX" /\ lvl >= 15 /\ X86_FEATURE_CQM_LLC \in capF0 ->
                 Cpuid(p, W(15), 1).edx
            [] w = "CPUID_8000_0001_ECX" /\ Field(ext, 16, 16) = {15} /\ GeU(ext, Ext(1)) -> e1.ecx
            [] w = "CPUID_8000_0001_EDX" /\ Field(ext, 16, 16) = {15} /\ GeU(ext, Ext(1)) -> e1.edx
            [] w = "CPUID_8000_0007_EBX" /\ GeU(ext, Ext(7)) -> Cpuid(p, Ext(7), 0).ebx
            [] w = "CPUID_8000_0008_EBX" /\ GeU(ext, Ext(8)) -> Cpuid(p, Ext(8), 0).ebx
            [] w = "CPUID_8000_000A_EDX" /\ GeU(ext, Ext(10)) -> Cpuid(p, Ext(10), 0).edx
            [] OTHER -> cap[w]]
  IN  [c EXCEPT !.x86_capability = new, !.extended_cpuid_level = ext]

\* get_cpu_cap: each capability word from its leaf, when the level the
\* processor reports allows it; sub-leaf 0FH.1 only with CQM_LLC.
get_cpu_cap(c, p) ==
  LET lvl == c.cpuid_level
      r1 == Cpuid(p, W(1), 0)
      r7 == Cpuid(p, W(7), 0)
      f0 == Cpuid(p, W(15), 0)
      ext == Cpuid(p, Ext(0), 0).eax
      e1 == Cpuid(p, Ext(1), 0)
      cap == c.x86_capability
      capF0 == IF lvl >= 15 THEN f0.edx ELSE cap["CPUID_F_0_EDX"]
      new ==
        [w \in CapWords |->
          CASE w = "CPUID_1_ECX" /\ lvl >= 1 -> r1.ecx
            [] w = "CPUID_1_EDX" /\ lvl >= 1 -> r1.edx
            [] w = "CPUID_6_EAX" /\ lvl >= 6 -> Cpuid(p, W(6), 0).eax
            [] w = "CPUID_7_0_EBX" /\ lvl >= 7 -> r7.ebx
            [] w = "CPUID_7_ECX" /\ lvl >= 7 -> r7.ecx
            [] w = "CPUID_D_1_EAX" /\ lvl >= 13 -> Cpuid(p, W(13), 1).eax
            [] w = "CPUID_F_0_EDX" -> capF0
            [] w = "CPUID_F_1_EDX" /\ lvl >= 15 /\ X86_FEATURE_CQM_LLC \in capF0 ->
                 Cpuid(p, W(15), 1).edx
            [] w = "CPUID_8000_0001_ECX" /\ Field(ext, 16, 16) = {15} /\ GeU(ext, Ext(1)) -> e1.ecx
            [] w = "CPUID_8000_0001_EDX" /\ Field(ext, 16, 16) = {15} /\ GeU(ext, Ext(1)) -> e1.edx
            [] w = "CPUID_8000_0007_EBX" /\ GeU(ext, Ext(7)) -> Cpuid(p, Ext(7), 0).ebx
            [] w = "CPUID_8000_0008_EBX" /\ GeU(ext, Ext(8)) -> Cpuid(p, Ext(8), 0).ebx
            [] w = "CPUID_8000_000A_EDX" /\ GeU(ext, Ext(10)) -> Cpuid(p, Ext(10), 0).edx
            [] OTHER -> cap[w]]
  IN  [c EXCEPT !.x86_capability = new, !.extended_cpuid_level = ext]

\* The brand-string bytes of a register set: EAX, EBX, ECX, EDX in order.
RegBytes(r) == r.eax \o r.ebx \o r.ecx \o r.edx

\* Faulty variant: the NUL is written at s, over the last character kept.
RECURSIVE TrimLoop_at_s(_, _, _, _)
TrimLoop_at_s(buf, p, q, s) ==
  IF buf[p] = NUL THEN [buf EXCEPT ![s] = NUL]
  ELSE TrimLoop_at_s([buf EXCEPT ![q] = buf[p]], p + 1, q + 1,
                     IF buf[p] \notin Space THEN q ELSE s)

\* The trim loop of get_model_name from *p: copy *p to *q, noting in s the
\* last position that received a non-space; at the NUL, end after s.
RECURSIVE TrimLoop(_, _, _, _)
TrimLoop(buf, p, q, s) ==
  IF buf[p] = NUL THEN [buf EXCEPT ![s + 1] = NUL]
  ELSE TrimLoop([buf EXCEPT ![q] = buf[p]], p + 1, q + 1,
                IF buf[p] \notin Space THEN q ELSE s)

\* Leaves 80000002H..80000004H into x86_model_id, a NUL after them, then
\* leading spaces skipped and trailing whitespace cut.
get_model_name(c, p) ==
  IF ~GeU(c.extended_cpuid_level, Ext(4)) THEN c
  ELSE LET bytes == RegBytes(Cpuid(p, Ext(2), 0)) \o RegBytes(Cpuid(p, Ext(3), 0))
                      \o RegBytes(Cpuid(p, Ext(4), 0))
           old == c.x86_model_id
           buf == [i \in DOMAIN old |-> CASE i < Len(bytes) -> bytes[i + 1]
                                          [] i = Len(bytes) -> NUL
                                          [] OTHER -> old[i]]
           start == Min({i \in DOMAIN buf : buf[i] # " "})
       IN  [c EXCEPT !.x86_model_id = TrimLoop(buf, start, 0, 0)]

Init ==
  /\ proc \in Processors
  /\ cpu_info = CpuInfo0
  /\ detected = FALSE

\* cpu_init on the boot CPU.
cpu_init ==
  /\ ~detected
  /\ cpu_info' = get_model_name(get_cpu_cap(get_cpu_vendor(cpu_detect(cpu_info, proc)),
                                            proc), proc)
  /\ detected' = TRUE
  /\ UNCHANGED proc

Next == cpu_init

Spec == Init /\ [][Next]_cvars

-----------------------------------------------------------------------------
(* Reference values for Boot's properties: what the processor reports,    *)
(* stated from the SDM's definitions of the CPUID leaves rather than from  *)
(* cpu.c's code paths, as tables over the processors of the model.         *)

\* The string in a char buffer: the characters before the first NUL.
CString(buf) == [i \in 1 .. Min({k \in DOMAIN buf : buf[k] = NUL}) |-> buf[i - 1]]

\* The processor's brand string: the 48 bytes of 80000002H..80000004H up to
\* the first NUL.
BrandString(p) ==
  LET bytes == RegBytes(Answer(p, Ext(2), 0)) \o RegBytes(Answer(p, Ext(3), 0))
                 \o RegBytes(Answer(p, Ext(4), 0))
      nul == SelectInSeq(bytes, LAMBDA ch : ch = NUL)
  IN  IF nul = 0 THEN bytes ELSE SubSeq(bytes, 1, nul - 1)

\* A string without its leading spaces and trailing whitespace.
Trimmed(str) ==
  LET lo == Min({i \in 1 .. Len(str) : str[i] # " "})
      hi == Max({i \in 1 .. Len(str) : str[i] \notin Space})
  IN  SubSeq(str, lo, hi)

\* The SDM's display family and model of a signature (Vol. 2A, CPUID.1:EAX):
\* the extended model counts for family 6 and 15 only.
DisplayFamily(sig) ==
  IF (sig \div 2^8) % 16 = 15 THEN 15 + ((sig \div 2^20) % 256) ELSE (sig \div 2^8) % 16
DisplayModel(sig) ==
  IF (sig \div 2^8) % 16 \in {6, 15}
  THEN ((sig \div 2^4) % 16) + ((sig \div 2^16) % 16) * 16
  ELSE (sig \div 2^4) % 16

\* Where each capability word comes from: leaf, sub-leaf and register.
CapSource ==
  [CPUID_1_ECX |-> <<W(1), 0, "ecx">>, CPUID_1_EDX |-> <<W(1), 0, "edx">>,
   CPUID_6_EAX |-> <<W(6), 0, "eax">>, CPUID_7_0_EBX |-> <<W(7), 0, "ebx">>,
   CPUID_7_ECX |-> <<W(7), 0, "ecx">>, CPUID_D_1_EAX |-> <<W(13), 1, "eax">>,
   CPUID_F_0_EDX |-> <<W(15), 0, "edx">>, CPUID_F_1_EDX |-> <<W(15), 1, "edx">>,
   CPUID_8000_0001_ECX |-> <<Ext(1), 0, "ecx">>, CPUID_8000_0001_EDX |-> <<Ext(1), 0, "edx">>,
   CPUID_8000_0007_EBX |-> <<Ext(7), 0, "ebx">>, CPUID_8000_0008_EBX |-> <<Ext(8), 0, "ebx">>,
   CPUID_8000_000A_EDX |-> <<Ext(10), 0, "edx">>]

\* The SDM's validity of a leaf: in range, and sub-leaf 0FH.1 only when
\* CPUID.(0FH,0):EDX[1] says L3 monitoring exists.
Reports(p, w) ==
  /\ InRange(p, CapSource[w][1])
  /\ w = "CPUID_F_1_EDX" => X86_FEATURE_CQM_LLC \in Answer(p, W(15), 0).edx

\* The capability words the SDM's leaves give each processor: the register
\* of each leaf it reports, zero for the others.
ReportedCaps ==
  [p \in Processors |->
     [w \in CapWords |->
        IF Reports(p, w)
        THEN Answer(p, CapSource[w][1], CapSource[w][2])[CapSource[w][3]]
        ELSE {}]]

\* What the SDM says cpu_init must find on each processor: its vendor, and
\* its display family (as a uint8_t), model and stepping.
Identity ==
  [p \in Processors |->
     LET sig == Val(Answer(p, W(1), 0).eax)
     IN  [x86_vendor |-> CASE p.vendor = <<"Genu", "ineI", "ntel">> -> X86_VENDOR_INTEL
                           [] p.vendor = <<"Auth", "enti", "cAMD">> -> X86_VENDOR_AMD
                           [] OTHER -> X86_VENDOR_UNKNOWN,
          x86 |-> DisplayFamily(sig) % 256, x86_model |-> DisplayModel(sig),
          x86_mask |-> sig % 16]]

\* The model name each processor must get: its brand string trimmed, or
\* empty without brand leaves; processors whose brand string is all
\* whitespace are left out.
HasBrand(p) == GeU(p.ext, Ext(4))
ModelNames ==
  [p \in {q \in Processors :
            ~HasBrand(q) \/ \E i \in 1 .. Len(BrandString(q)) : BrandString(q)[i] \notin Space} |->
     IF HasBrand(p) THEN Trimmed(BrandString(p)) ELSE <<>>]
=============================================================================
