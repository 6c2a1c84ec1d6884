-------------------------------- MODULE Tsc --------------------------------
(***************************************************************************)
(* tsc_init (src/kernel/tsc.c): the TSC frequency in kHz, from CPUID leaf  *)
(* 15H on Intel processors that report it (native_calibrate_tsc), else     *)
(* from counting TSC cycles across PIT ticks (quick_pit_calibrate), else   *)
(* an assumed 2 GHz.  It reads the cpuinfo_x86 that cpu_init (Cpu) left.   *)
(*                                                                         *)
(* quick_pit_calibrate is a measurement: how many TSC cycles pass while    *)
(* the PIT's counter-2 MSB steps down depends on timing, and whether its   *)
(* 500 ppm error bound is met depends on how fast port I/O is (it fails    *)
(* under emulators).  Its result is a choice from PitKhz, where 0 is a     *)
(* failed calibration.                                                     *)
(***************************************************************************)
EXTENDS X86Bits

CONSTANTS
  Processors, ModelIdLen,
  PitKhz        \* what quick_pit_calibrate may return; 0 is failure

VARIABLES proc, cpu_info, detected,
  tsc_khz       \* static unsigned long tsc_khz; 0 until tsc_init

C == INSTANCE Cpu

tvars == <<proc, cpu_info, detected, tsc_khz>>

\* The model numbers of <asm/intel-family.h>, which asm/processor.h
\* includes and the tree does not carry (values of Linux's header).
INTEL_FAM6_SKYLAKE_MOBILE == 78       \* 0x4E
INTEL_FAM6_SKYLAKE_DESKTOP == 94      \* 0x5E
INTEL_FAM6_KABYLAKE_MOBILE == 142     \* 0x8E
INTEL_FAM6_KABYLAKE_DESKTOP == 158    \* 0x9E
INTEL_FAM6_SKYLAKE_X == 85            \* 0x55
INTEL_FAM6_ATOM_DENVERTON == 95       \* 0x5F
INTEL_FAM6_ATOM_GOLDMONT == 92        \* 0x5C

\* The switch on x86_model for a leaf 15H that leaves ECX zero.
CrystalKhzOfModel(model) ==
  CASE model \in {INTEL_FAM6_SKYLAKE_MOBILE, INTEL_FAM6_SKYLAKE_DESKTOP,
                  INTEL_FAM6_KABYLAKE_MOBILE, INTEL_FAM6_KABYLAKE_DESKTOP} -> 24000
    [] model \in {INTEL_FAM6_SKYLAKE_X, INTEL_FAM6_ATOM_DENVERTON} -> 25000
    [] model = INTEL_FAM6_ATOM_GOLDMONT -> 19200
    [] OTHER -> 0

\* Faulty variant: no cpuid_level check before leaf 15H.
native_calibrate_tsc_no_level(c, p) ==
  IF c.x86_vendor # C!X86_VENDOR_INTEL THEN 0
  ELSE LET r == C!Cpuid(p, W(21), 0)
           eax_denominator == Val(r.eax)
           ebx_numerator == Val(r.ebx)
           ecx_khz == Val(r.ecx) \div 1000
           crystal_khz == IF ecx_khz = 0 THEN CrystalKhzOfModel(c.x86_model) ELSE ecx_khz
       IN  IF ebx_numerator = 0 \/ eax_denominator = 0 THEN 0
           ELSE (crystal_khz * ebx_numerator) \div eax_denominator

\* native_calibrate_tsc: the vendor and level checks on boot_cpu_data,
\* cpuid(0x15), the zero-ratio check, crystal_khz from ECX or the model,
\* and the product in unsigned int arithmetic: it wraps at 2^32, and the
\* model's products stay below 2^31 (TLC stops with an overflow error
\* beyond), so no wrap is lost.
native_calibrate_tsc(c, p) ==
  IF c.x86_vendor # C!X86_VENDOR_INTEL \/ c.cpuid_level < 21 THEN 0
  ELSE LET r == C!Cpuid(p, W(21), 0)
           eax_denominator == Val(r.eax)
           ebx_numerator == Val(r.ebx)
           ecx_khz == Val(r.ecx) \div 1000
           crystal_khz == IF ecx_khz = 0 THEN CrystalKhzOfModel(c.x86_model) ELSE ecx_khz
       IN  IF ebx_numerator = 0 \/ eax_denominator = 0 THEN 0
           ELSE (crystal_khz * ebx_numerator) \div eax_denominator

\* quick_pit_calibrate with pit_verify_msb and pit_expect_msb: the outcome
\* of the measurement (see the header).
quick_pit_calibrate == PitKhz

TscInit == tsc_khz = 0

\* tsc_init: native calibration, the PIT if it returned 0, 2000000 if that
\* failed too.
tsc_init ==
  /\ detected
  /\ tsc_khz = 0
  /\ \E pit \in quick_pit_calibrate :
       LET native == native_calibrate_tsc(cpu_info, proc)
       IN  tsc_khz' = CASE native # 0 -> native
                        [] pit # 0 -> pit
                        [] OTHER -> 2000000
  /\ UNCHANGED <<proc, cpu_info, detected>>

Init == C!Init /\ TscInit

\* main(): cpu_init, then tsc_init.
Next ==
  \/ C!Next /\ UNCHANGED tsc_khz
  \/ tsc_init

Spec == Init /\ [][Next]_tvars

TscTypeOK == tsc_khz \in Nat
-----------------------------------------------------------------------------
(* Reference: the TSC frequency the SDM gives a processor (Vol. 3B,       *)
(* 18.7.3, and Vol. 2A, CPUID leaf 15H): on an Intel processor whose      *)
(* maximum basic leaf is at least 15H and whose leaf 15H has a nonzero    *)
(* ratio EBX/EAX, the core crystal clock times that ratio; the crystal is *)
(* ECX when ECX is nonzero, else the nominal clock of the SDM's table for *)
(* the display model (24 MHz for 6th and 7th generation Core, 25 MHz for  *)
(* Xeon Scalable and Denverton, 19.2 MHz for Goldmont).  The crystals of  *)
(* the model are whole kHz.  0 where the SDM names no frequency.          *)

SdmTscKhz(p) ==
  LET r == C!Answer(p, W(21), 0)
      sig == Val(C!Answer(p, W(1), 0).eax)
      crystal == IF r.ecx # {} THEN Val(r.ecx) \div 1000
                 ELSE CASE C!DisplayModel(sig) \in {78, 94, 142, 158} -> 24000
                        [] C!DisplayModel(sig) \in {85, 95} -> 25000
                        [] C!DisplayModel(sig) = 92 -> 19200
                        [] OTHER -> 0
  IN  IF p.vendor = <<"Genu", "ineI", "ntel">> /\ p.level >= 21
         /\ r.eax # {} /\ r.ebx # {} /\ C!DisplayFamily(sig) = 6
      THEN (crystal * Val(r.ebx)) \div Val(r.eax)
      ELSE 0

\* The values tsc_init may leave on a processor: the SDM's frequency where
\* there is one, else a successful PIT measurement or, if the PIT may
\* fail, the assumed 2 GHz.
TscChoices(p) ==
  IF SdmTscKhz(p) # 0 THEN {SdmTscKhz(p)}
  ELSE (PitKhz \ {0}) \cup (IF 0 \in PitKhz THEN {2000000} ELSE {})
=============================================================================
