------------------------------- MODULE StrScpy -------------------------------
(***************************************************************************)
(* strscpy (src/lib/string.c) with the word-at-a-time helpers of           *)
(* asm/word-at-a-time.h.  A byte is a natural below 256; an unsigned long  *)
(* is a function from its byte positions 0..7 (little-endian) to bytes,    *)
(* and its arithmetic is modulo 2^64, byte by byte with borrows and        *)
(* carries.  Source memory is a sequence of bytes (src[1] is *src); the    *)
(* destination is a function from 0..count-1 to bytes.                     *)
(***************************************************************************)
EXTENDS Naturals, Sequences, FiniteSetsExt, Bitwise

E2BIG == 7                      \* not in the tree: Linux's errno value

WordBytes == 0 .. 7             \* sizeof(unsigned long)

REPEAT_BYTE(x) == [i \in WordBytes |-> x]
ONE == [i \in WordBytes |-> IF i = 0 THEN 1 ELSE 0]

\* ~w, w & v.
WNot(w) == [i \in WordBytes |-> 255 - w[i]]
WAnd(w, v) == [i \in WordBytes |-> w[i] & v[i]]

\* a - b: byte i borrows exactly when a's bytes below i are below b's.
LowBelow(a, b, i) ==
    LET d == {k \in 0 .. i - 1 : a[k] # b[k]} IN d # {} /\ a[Max(d)] < b[Max(d)]
WSub(a, b) == [i \in WordBytes |-> (a[i] - b[i] - (IF LowBelow(a, b, i) THEN 1 ELSE 0)) % 256]

\* a * b: the column sums of the byte products, with their carries.
Column(a, b, k) == MapThenSumSet(LAMBDA j : a[j] * b[k - j], 0 .. k)
RECURSIVE CarryInto(_, _, _)
CarryInto(a, b, k) ==
    IF k = 0 THEN 0 ELSE (Column(a, b, k - 1) + CarryInto(a, b, k - 1)) \div 256
WMul(a, b) == [k \in WordBytes |-> (Column(a, b, k) + CarryInto(a, b, k)) % 256]

\* w >> 7.
WShr7(w) == [i \in WordBytes |-> w[i] \div 128 + (IF i < 7 THEN (w[i + 1] * 2) % 256 ELSE 0)]

\* 0x0001020304050608ul.
COUNT_MUL == [i \in WordBytes |-> <<8, 6, 5, 4, 3, 2, 1, 0>>[i + 1]]

\* mask * 0x0001020304050608ul >> 56: the top byte of the product.
count_masked_bytes(mask) == WMul(mask, COUNT_MUL)[7]

\* Faulty variant: without & ~a, a byte with its high bit set counts as zero.
has_zero_no_not(a) == WAnd(WSub(a, REPEAT_BYTE(1)), REPEAT_BYTE(128))

\* ((a - one_bits) & ~a) & high_bits.
has_zero(a) == WAnd(WAnd(WSub(a, REPEAT_BYTE(1)), WNot(a)), REPEAT_BYTE(128))

\* ((bits - 1) & ~bits) >> 7.
create_zero_mask(bits) == WShr7(WAnd(WSub(bits, ONE), WNot(bits)))

find_zero(mask) == count_masked_bytes(mask)

\* *(unsigned long *)(src+res), and the store to dest+res.
LoadWord(src, res) == [i \in WordBytes |-> src[res + i + 1]]
StoreWord(dest, res, w) ==
    [k \in DOMAIN dest |-> IF k - res \in WordBytes THEN w[k - res] ELSE dest[k]]

\* The byte loop, then the forced NUL when count runs out.
RECURSIVE ByteLoop(_, _, _, _)
ByteLoop(dest, src, res, count) ==
    IF count = 0
      THEN [ret |-> -E2BIG, dest |-> IF res # 0 THEN [dest EXCEPT ![res - 1] = 0] ELSE dest]
    ELSE LET c == src[res + 1]
             d == [dest EXCEPT ![res] = c]
         IN IF c = 0 THEN [ret |-> res, dest |-> d] ELSE ByteLoop(d, src, res + 1, count - 1)

\* The word loop while max >= sizeof(unsigned long); prep_zero_mask is
\* the identity and zero_bytemask(mask) is mask.
RECURSIVE WordLoop(_, _, _, _, _)
WordLoop(dest, src, res, count, max) ==
    IF max < 8 THEN ByteLoop(dest, src, res, count)
    ELSE LET c == LoadWord(src, res)
             data == has_zero(c)
         IN IF data # REPEAT_BYTE(0)
              THEN LET mask == create_zero_mask(data)
                   IN [ret |-> res + find_zero(mask), dest |-> StoreWord(dest, res, WAnd(c, mask))]
            ELSE WordLoop(StoreWord(dest, res, c), src, res + 8, count - 8, max - 8)

\* strscpy(dest, src, count); aligned says whether dest and src are both
\* aligned to sizeof(long), which alone lets the word loop run.
strscpy(dest, src, count, aligned) ==
    IF count = 0 THEN [ret |-> -E2BIG, dest |-> dest]
    ELSE WordLoop(dest, src, 0, count, IF aligned THEN count ELSE 0)

-----------------------------------------------------------------------------
(* C strings, for what the comment above strscpy promises.                 *)

\* The characters of the string at the start of src, before its NUL.
SrcString(src) ==
    LET nul == {i \in 1 .. Len(src) : src[i] = 0}
    IN SubSeq(src, 1, IF nul = {} THEN Len(src) ELSE Min(nul) - 1)

\* Whether a buffer of n bytes holds a NUL, and the string before it.
Terminated(buf, n) == \E i \in 0 .. n - 1 : buf[i] = 0
BufString(buf, n) ==
    LET nul == {i \in 0 .. n - 1 : buf[i] = 0}
    IN [i \in 1 .. Min(nul) |-> buf[i - 1]]
=============================================================================
