------------------------------ MODULE X86Bits ------------------------------
(***************************************************************************)
(* 64-bit machine words as the set of their 1-bits, and the architectural  *)
(* bit and MSR constants the VMM uses.  A word is a subset of 0..63, so    *)
(* `a & b` is `a \cap b`, `a | b` is `a \cup b`, `a & ~b` is `a \ b`, and  *)
(* bits 31..63 are as easy as the low ones (TLC integers are 32-bit).      *)
(* Casts and shifts are modelled by what they do to the bits.              *)
(***************************************************************************)
EXTENDS Naturals, FiniteSetsExt

Word == SUBSET (0 .. 63)

\* The word of a natural number below 2^31.
W(n) == {i \in 0 .. 30 : (n \div 2^i) % 2 = 1}

\* The natural number of a word whose bits are all below 31.
Val(w) == MapThenSumSet(LAMBDA i : 2^i, w)

\* (uintN_t)w
Trunc(w, n) == {i \in w : i < n}

\* w >> n and w << n (64-bit)
Shr(w, n) == {i - n : i \in {j \in w : j >= n}}
Shl(w, n) == {i + n : i \in w} \cap (0 .. 63)

\* (w >> lo) & ((1 << width) - 1)
Field(w, lo, width) == Trunc(Shr(w, lo), width)

\* Addition of a small constant to a small word, modulo 2^width.
AddW(w, n, width) == W((Val(w) + n) % (2^width))

(* Control-register, EFER and RFLAGS bits (asm/processor-flags.h).         *)
X86_CR0_PE == {0}
X86_CR0_ET == {4}
X86_CR0_NE == {5}
X86_CR0_WP == {16}
X86_CR0_NW == {29}
X86_CR0_CD == {30}
X86_CR0_PG == {31}
X86_CR4_PAE == {5}
X86_CR4_VMXE == {13}
EFER_SCE == {0}
EFER_LME == {8}
EFER_LMA == {10}
EFER_NX == {11}
X86_RFLAGS_FIXED == {1}
X86_RFLAGS_TF == {8}
X86_RFLAGS_IF == {9}
X86_RFLAGS_RF == {16}

(* MSR indices.  0xC00000xx has bits 30 and 31 set.                        *)
HighMsr(n) == {30, 31} \cup W(n)
MSR_IA32_APICBASE == W(27)                 \* 0x1b
MSR_X2APIC_ICR == W(2048 + 48)             \* APIC_BASE_MSR + (APIC_ICR >> 4)
MSR_IA32_VMX_BASIC == W(1152)              \* 0x480
MSR_EFER == HighMsr(128)                   \* 0xc0000080
MSR_STAR == HighMsr(129)
MSR_LSTAR == HighMsr(130)
MSR_SYSCALL_MASK == HighMsr(132)
MSR_KERNEL_GS_BASE == HighMsr(258)         \* 0xc0000102
MSR_IA32_APICBASE_ENABLE == {11}
MSR_IA32_APICBASE_X2APIC_ENABLE == {10}

(* ICR delivery modes, (val & 0x700).                                      *)
APIC_DM_FIXED == {}
APIC_DM_NMI == {10}
APIC_DM_INIT == {8, 10}
APIC_DM_STARTUP == {9, 10}
=============================================================================
