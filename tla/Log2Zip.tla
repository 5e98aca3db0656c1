----------------------------- MODULE Log2Zip --------------------------------
(***************************************************************************)
(* Bit lengths and variable-length integers of src/sphinxstd.h and        *)
(* src/std/log2_impl.h: sphLog2const and sphLog2 of both headers, in      *)
(* every build their #if branches select (GCC/clang __builtin_clz,        *)
(* Windows BitScanReverse, the portable loop), and sphCalcZippedLen /     *)
(* sphZipValue, the 7-bit big-endian encoding with continuation bit 0x80. *)
(* The argument u is chosen by Init and never changes: each state is one  *)
(* call, and the properties compare the code's results with reference     *)
(* definitions.                                                            *)
(*                                                                         *)
(* UW and LW are the widths of unsigned and of uint64_t (32 and 64 in the *)
(* code).  The algorithms depend on the width only through these two      *)
(* constants, so smaller ones keep every branch while TLC's integers hold  *)
(* every value of the wide type.                                          *)
(***************************************************************************)
EXTENDS Integers
LOCAL INSTANCE SequencesExt

CONSTANTS UW, LW

VARIABLE u

\* reference: the least k with v < 2^k, the number of bits v needs
BitsNeeded(v) == CHOOSE k \in 0..LW : v < 2^k /\ (k = 0 \/ 2^(k - 1) <= v)

\* x | 1
Or1(v) == IF v % 2 = 1 THEN v ELSE v + 1

\* the leading zeros of a non-zero w-bit word
RECURSIVE LeadingZeros(_, _)
LeadingZeros(v, w) == IF 2^(w - 1) <= v THEN 0 ELSE 1 + LeadingZeros(v, w - 1)

\* __builtin_clz of a w-bit word: undefined for 0, any count then
Clz(v, w) == IF v = 0 THEN 0..w ELSE {LeadingZeros(v, w)}

\* BitScanReverse: the index of the highest set bit (unset for 0, when the
\* call returns 0 and the callers above do not read it)
BitScanReverse(v) == BitsNeeded(v) - 1

\* sphinxstd.h sphLog2const: shift until nothing is left
RECURSIVE StdLog2const(_)
StdLog2const(v) == IF v = 0 THEN 0 ELSE 1 + StdLog2const(v \div 2)

\* sphLog2 without its test for zero
StdLog2NoZeroCheck(v) ==
  LET half == LW \div 2
      hi == v \div 2^half
      lo == v % 2^half IN
  {LW - c : c \in Clz(v, LW)}
  \cup {IF hi # 0 THEN half + 1 + BitScanReverse(hi) ELSE 1 + BitScanReverse(lo)}
  \cup {StdLog2const(v)}

\* sphinxstd.h sphLog2 (uint64_t): 0 for 0; otherwise 64 - clzll on GCC
\* and clang, the high DWORD's and then the low DWORD's BitScanReverse on
\* Windows, the shifting loop elsewhere.  The set holds what each build
\* returns.
StdLog2(v) ==
  LET half == LW \div 2
      hi == v \div 2^half
      lo == v % 2^half IN
  IF v = 0 THEN {0}
  ELSE {LW - c : c \in Clz(v, LW)}
       \cup {IF hi # 0 THEN half + 1 + BitScanReverse(hi) ELSE 1 + BitScanReverse(lo)}
       \cup {StdLog2const(v)}

\* log2_impl.h Log2constUINT: a do-while, so at least one bit
RECURSIVE Log2constUINT(_)
Log2constUINT(v) == 1 + (IF v \div 2 = 0 THEN 0 ELSE Log2constUINT(v \div 2))

\* log2_impl.h sphLog2const / sphLog2 of a w-bit unsigned type: w minus
\* clz (v | 1) on GCC and clang, 1 + BitScanReverse (v | 1) on Windows,
\* Log2constUINT elsewhere.
ImplLog2(v, w) ==
  {w - c : c \in Clz(Or1(v), w)} \cup {1 + BitScanReverse(Or1(v))} \cup {Log2constUINT(v)}

\* log2_impl.h sphLog2 (int) and (long long): the cast to the unsigned type
ImplLog2Signed(i, w) == ImplLog2(i % 2^w, w)

\* sphCalcZippedLen counting from the first byte, without its pre-shift
RECURSIVE ZipLoopNoPreShift(_, _)
ZipLoopNoPreShift(t, n) == IF t = 0 THEN n ELSE ZipLoopNoPreShift(t \div 128, n + 1)
CalcZippedLenNoPreShift(v) == ZipLoopNoPreShift(v, 1)

\* sphCalcZippedLen: one byte, plus one per further 7-bit group
\* (an arithmetic shift of a negative signed value never reaches 0, so
\* only unsigned arguments are given)
RECURSIVE ZipLoop(_, _)
ZipLoop(t, n) == IF t = 0 THEN n ELSE ZipLoop(t \div 128, n + 1)
CalcZippedLen(v) == ZipLoop(v \div 128, 1)

\* sphZipValue: the bytes fnPut receives, highest group first, all but the
\* last with 0x80 set
ZipValue(v) ==
  LET n == CalcZippedLen(v) IN
  [k \in 1..n |-> LET i == n - k IN
                  ((v \div 2^(7 * i)) % 128) + (IF i # 0 THEN 128 ELSE 0)]

\* reference decoder of the format
Unzip(z) == FoldLeft(LAMBDA acc, b : acc * 128 + (b % 128), 0, z)

\* the arguments tried: every value of up to UW + 1 bits, and around every
\* further power of two below 2^LW
Args == (0..(2^(UW + 1) - 1))
        \cup {2^k + d : k \in (UW + 1)..(LW - 1), d \in {-1, 0, 1}}
        \cup {2^LW - 1}

Init == u \in Args

Next == UNCHANGED u

-----------------------------------------------------------------------------
\* Every build of sphLog2 in sphinxstd.h, and sphLog2const, return the
\* number of bits the argument needs (0 for 0), the Windows build's split
\* into DWORDs included; log2_impl.h returns the same for non-zero
\* arguments of both widths and 1 for 0, in every build: no build depends
\* on __builtin_clz or BitScanReverse of 0.
Log2Agrees ==
  /\ StdLog2(u) = {BitsNeeded(u)}
  /\ StdLog2const(u) = BitsNeeded(u)
  /\ ImplLog2(u, LW) = {IF u = 0 THEN 1 ELSE BitsNeeded(u)}
  /\ u < 2^UW => ImplLog2(u, UW) = {IF u = 0 THEN 1 ELSE BitsNeeded(u)}

\* sphZipValue writes sphCalcZippedLen (v) bytes that decode to v, every
\* byte but the last flagged as continued, and no leading byte carrying
\* nothing (the encoding is the shortest one).
ZipRoundTrip ==
  LET z == ZipValue(u) IN
  /\ Len(z) = CalcZippedLen(u)
  /\ Unzip(z) = u
  /\ \A k \in 1..Len(z) : (z[k] >= 128) = (k < Len(z)) /\ z[k] < 256
  /\ Len(z) = 1 \/ z[1] # 128
=============================================================================
