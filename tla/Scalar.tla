------------------------------- MODULE Scalar ------------------------------
(***************************************************************************)
(* src/core/cmp.c, hash.c and print.c: what the ready-made comparators,     *)
(* hashes and printers make of a value, at a small width.  A float is its   *)
(* bits: a sign above a magnitude whose greatest values are the NaNs and,   *)
(* below them, the infinity.                                                *)
(*                                                                         *)
(* And src/core/rng.c, at a small word width: xoshiro256++ over four words, *)
(* its SplitMix seeder, and the draws made from a word.  The constants of   *)
(* the code are scaled with the width, so that the state still walks        *)
(* through every non-zero value.                                            *)
(***************************************************************************)
EXTENDS Integers, Sequences, Bitwise

CONSTANTS
    Bits,              \* the width of a hash and of a float's bits, 64 in the code
    Nans,              \* how many magnitudes are NaNs
    PrintDigits,       \* the significant digits a float is printed with, 6 decimal ones in the code
    HashSeed, FnvBasis, FnvPrime, Fmix1, Fmix2, FmixShift,  \* the constants of hash.c, scaled
    NullStr            \* a null char pointer

ASSUME ScalarAssumption ==
    /\ Bits \in Nat \ {0, 1} /\ Nans \in 1 .. 2 ^ (Bits - 1) - 2
    /\ PrintDigits \in 1 .. Bits
    /\ \A c \in {HashSeed, FnvBasis, FnvPrime, Fmix1, Fmix2} : c \in 0 .. 2 ^ Bits - 1
    /\ \A c \in {FnvPrime, Fmix1, Fmix2} : c % 2 = 1
    /\ FmixShift \in 1 .. Bits - 1

Half == 2 ^ (Bits - 1)
Floats == 0 .. 2 ^ Bits - 1
IsNan(f) == f % Half >= Half - Nans
IsInf(f) == f % Half = Half - Nans - 1
Negative(f) == f >= Half
FloatVal(f) == IF Negative(f) THEN -(f % Half) ELSE f % Half

CmpInt(a, b) == IF a > b THEN 1 ELSE IF a < b THEN -1 ELSE 0

\* broken: as C compares, where a NaN is neither less nor greater
CmpFloatNaive(a, b) == IF IsNan(a) \/ IsNan(b) THEN 0 ELSE CmpInt(FloatVal(a), FloatVal(b))

\* NaN after everything else and equal to NaN
CmpFloat(a, b) ==
    IF IsNan(a) /\ IsNan(b) THEN 0
    ELSE IF IsNan(a) THEN 1 ELSE IF IsNan(b) THEN -1
    ELSE CmpInt(FloatVal(a), FloatVal(b))

\* char is signed here; it is ordered as unsigned char
AsUnsigned(c) == c % 2 ^ Bits
CmpChar(a, b) == CmpInt(AsUnsigned(a), AsUnsigned(b))

\* the first char that differs decides, a string before the longer one it starts
StrCmp(a, b) ==
    LET walk[i \in Nat] ==
            IF i > Len(a) /\ i > Len(b) THEN 0
            ELSE IF i > Len(a) THEN -1 ELSE IF i > Len(b) THEN 1
            ELSE IF a[i] # b[i] THEN CmpChar(a[i], b[i]) ELSE walk[i + 1]
    IN  walk[1]

\* a string is where it is and what it says; null goes before every one
CmpCstr(a, b) ==
    IF a = b THEN 0
    ELSE IF a = NullStr THEN -1 ELSE IF b = NullStr THEN 1 ELSE StrCmp(a.text, b.text)

\* the ready-made comparator of a type, and the two forms made from it
Cmp(type, a, b) ==
    CASE type = "int" -> CmpInt(a, b)
      [] type = "float" -> CmpFloat(a, b)
      [] type = "char" -> CmpChar(a, b)
      [] type = "cstr" -> CmpCstr(a, b)

CmpDesc(type, a, b) == Cmp(type, b, a)
EqBy(type, a, b) == Cmp(type, a, b) = 0

-----------------------------------------------------------------------------
(* Hashes.                                                                  *)

XorHash == [a, b \in 0 .. 2 ^ Bits - 1 |-> a ^^ b]
XorShr(v) == XorHash[v, v \div 2 ^ FmixShift]

\* every step is one to one
HashMix(val) ==
    LET v1 == (XorShr(XorHash[val, HashSeed]) * Fmix1) % 2 ^ Bits
        v2 == (XorShr(v1) * Fmix2) % 2 ^ Bits
    IN  XorShr(v2)

\* a narrower signed value is widened by its sign
HashInt(val) == HashMix(val % 2 ^ Bits)

HashChar(c) == HashMix(AsUnsigned(c))

\* both zeros are one, and so are all NaNs; the NaN that stands for them is the first
HashFloat(f) == HashMix(IF IsNan(f) THEN Half - Nans ELSE IF FloatVal(f) = 0 THEN 0 ELSE f)

HashBytes(bytes) ==
    LET fnv[i \in Nat] ==
            IF i = 0 THEN FnvBasis ELSE (XorHash[fnv[i - 1], AsUnsigned(bytes[i])] * FnvPrime) % 2 ^ Bits
    IN  HashMix(fnv[Len(bytes)])

HashCstr(a) == IF a = NullStr THEN HashMix(0) ELSE HashBytes(a.text)

Hash(type, a) ==
    CASE type = "int" -> HashInt(a)
      [] type = "float" -> HashFloat(a)
      [] type = "char" -> HashChar(a)
      [] type = "cstr" -> HashCstr(a)

-----------------------------------------------------------------------------
(* Printers: the tokens that reach the stream.                              *)

\* the printable chars are the positive ones
Printable(c) == c > 0

\* %g: a magnitude rounded to its first PrintDigits digits, here binary ones, to the even one
\* of two that are as near; no digit is lost below 2 ^ PrintDigits
Significant(mag) ==
    LET last == CHOOSE e \in 0 .. Bits :
                    mag < 2 ^ (PrintDigits + e) /\ (e = 0 \/ mag >= 2 ^ (PrintDigits + e - 1))
        down == mag \div 2 ^ last
        rest == 2 * (mag % 2 ^ last)
        up == rest > 2 ^ last \/ (rest = 2 ^ last /\ down % 2 = 1)
    IN  (IF up THEN down + 1 ELSE down) * 2 ^ last

\* the specials are spelled out, a NaN without its sign
FprintDouble(f) ==
    IF IsNan(f) THEN <<"nan">>
    ELSE IF IsInf(f) THEN IF Negative(f) THEN <<"-inf">> ELSE <<"inf">>
    ELSE <<"digits", Negative(f), Significant(f % Half)>>

FprintChar(c) == IF Printable(c) THEN <<"char", c>> ELSE <<"hex", AsUnsigned(c)>>

FprintCstr(a) == IF a = NullStr THEN <<"null">> ELSE <<"quote">> \o a.text \o <<"quote">>

Fprint(type, a) ==
    CASE type = "int" -> <<"digits", a>>
      [] type = "float" -> FprintDouble(a)
      [] type = "char" -> FprintChar(a)
      [] type = "cstr" -> FprintCstr(a)

\* core/print.h: the first failed write is the result, whatever comes after
FprintJoin(acc, rc) == IF acc < 0 THEN acc ELSE IF rc < 0 THEN rc ELSE 0

\* [a, b, c]: every write is made, the failed ones too; rcs[k] is what the k-th returns
SpanFprint(len, rcs) ==
    LET walk[i \in Nat, rc \in Int, k \in Nat] ==
            IF i = len THEN [rc |-> FprintJoin(rc, rcs[k]), writes |-> k]
            ELSE IF i = 0 THEN walk[1, FprintJoin(rc, rcs[k]), k + 1]
            ELSE walk[i + 1, FprintJoin(FprintJoin(rc, rcs[k]), rcs[k + 1]), k + 2]
    IN  walk[0, rcs[1], 2]

\* to stdout, and a newline
SpanPrint(len, rcs) ==
    LET done == SpanFprint(len, rcs)
    IN  [rc |-> FprintJoin(done.rc, rcs[done.writes + 1]), writes |-> done.writes + 1]

-----------------------------------------------------------------------------
(* rng.c.                                                                   *)

CONSTANTS
    WordBits,       \* bits of a word, 64 in the code; a u32 draw has half of them
    Gamma, Mul1, Mul2,                \* SplitMix: the odd increment and multipliers
    MixShift1, MixShift2, MixShift3,  \* 30, 27, 31 in the code
    OutRot, StateShift, StateRot      \* 23, 17, 45 in the code

ASSUME RngAssumption ==
    /\ WordBits \in Nat \ {0, 1}
    /\ \A c \in {Gamma, Mul1, Mul2} : c \in 0 .. 2 ^ WordBits - 1 /\ c % 2 = 1
    /\ \A c \in {MixShift1, MixShift2, MixShift3, OutRot, StateShift, StateRot} : c \in 1 .. WordBits - 1

\* a word of 'bits' bits
Words(bits) == 0 .. 2 ^ bits - 1
Word == Words(WordBits)

XorWord == [a, b \in Word |-> a ^^ b]
Shl(v, n) == (v * 2 ^ n) % 2 ^ WordBits
Shr(v, n) == v \div 2 ^ n

\* a shift by the whole width would be undefined
Rotl(v, n) == (Shl(v, n) + Shr(v, WordBits - n)) % 2 ^ WordBits

SplitMix(state) ==
    LET v0 == (state + Gamma) % 2 ^ WordBits
        v1 == (XorWord[v0, Shr(v0, MixShift1)] * Mul1) % 2 ^ WordBits
        v2 == (XorWord[v1, Shr(v1, MixShift2)] * Mul2) % 2 ^ WordBits
    IN  [state |-> v0, word |-> XorWord[v2, Shr(v2, MixShift3)]]

FromSeed(seed) ==
    LET at[i \in 0 .. 4] == IF i = 0 THEN [state |-> seed, word |-> 0] ELSE SplitMix(at[i - 1].state)
    IN  [i \in 1 .. 4 |-> at[i].word]

Zeroed == <<0, 0, 0, 0>>

\* broken: a zeroed generator is stepped as it is
NextWordStuck(gen) ==
    LET s == gen
        s2 == XorWord[s[3], s[1]]
        s3 == XorWord[s[4], s[2]]
    IN  [gen |-> <<XorWord[s[1], s3], XorWord[s[2], s2], XorWord[s2, Shl(s[2], StateShift)], Rotl(s3, StateRot)>>,
         word |-> (Rotl((s[1] + s[4]) % 2 ^ WordBits, OutRot) + s[1]) % 2 ^ WordBits]

\* a zeroed generator starts as seed 0 would
NextWord(gen) ==
    LET s == IF gen = Zeroed THEN FromSeed(0) ELSE gen
        s2 == XorWord[s[3], s[1]]
        s3 == XorWord[s[4], s[2]]
    IN  [gen |-> <<XorWord[s[1], s3], XorWord[s[2], s2], XorWord[s2, Shl(s[2], StateShift)], Rotl(s3, StateRot)>>,
         word |-> (Rotl((s[1] + s[4]) % 2 ^ WordBits, OutRot) + s[1]) % 2 ^ WordBits]

\* the top half of a draw
TopHalf(word) == Shr(word, WordBits - WordBits \div 2)

-----------------------------------------------------------------------------
(* A bounded draw takes words until one is accepted; 'bits' is the width of *)
(* the words it takes, half the word for the u32 forms.                     *)

\* broken: every word is accepted
AcceptsAll(word, max, bits) == TRUE

\* the whole width needs no product; otherwise the low half of the product rejects the
\* words of the overrepresented slots
Accepts(word, max, bits) ==
    LET range == max + 1
        low == (word * range) % 2 ^ bits
        threshold == (2 ^ bits - range) % range
    IN  max = 2 ^ bits - 1 \/ low >= range \/ low >= threshold

\* the u64 form, one width up: the same method over a product of twice the width
DrawIn(word, max, bits) == IF max = 2 ^ bits - 1 THEN word ELSE (word * (max + 1)) \div 2 ^ bits

\* tda_rng_idx: the last index is the greatest answer
IdxMax(len) == len - 1

\* two's complement: a value past the greatest one comes back negative
ToSigned(v, bits) == IF v >= 2 ^ (bits - 1) THEN v - 2 ^ bits ELSE v

\* the width is computed in unsigned
RangeWidth(lo, hi, bits) == ((hi % 2 ^ bits) - (lo % 2 ^ bits)) % 2 ^ bits
InRange(lo, drawn, bits) == ToSigned(((lo % 2 ^ bits) + drawn) % 2 ^ bits, bits)

-----------------------------------------------------------------------------
(* Floats.  A float in [0, 1) is 'num' over 2 ^ FracBits.  A range is two   *)
(* points of the floats around it, counted in steps of the spacing there;   *)
(* the product is rounded to one of its neighbours.                         *)

FracBits == WordBits - 1

\* the top bits of a word: as many as a float holds whole
Fraction(word) == Shr(word, WordBits - FracBits)

\* the points lo + (hi - lo) * num / 2 ^ FracBits may round to
Rounded(lo, hi, num) ==
    LET exact == (hi - lo) * num
        down == exact \div 2 ^ FracBits
    IN  {lo + down, lo + (IF exact % 2 ^ FracBits = 0 THEN down ELSE down + 1)}

\* rounded up to hi, the answer steps back towards lo
FloatIn(lo, hi, val) == IF val < hi THEN val ELSE IF hi > lo THEN hi - 1 ELSE lo

\* the top bit
DrawBool(word) == Shr(word, WordBits - 1) # 0
=============================================================================
