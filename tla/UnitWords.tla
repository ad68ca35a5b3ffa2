----------------------------- MODULE UnitWords -----------------------------
(***************************************************************************)
(* The arithmetic the bodies of the execution units are written over:      *)
(* words of XLen bits that wrap, with the sign handled by hand, and a word *)
(* of memory as four bytes, the first lowest.                              *)
(***************************************************************************)
EXTENDS Integers, Bitwise

CONSTANTS
  XLen,       \* X_LEN, the width of a register; both ISAs have 32
  IlenBytes   \* ILEN_BYTES, the length of an instruction

Word == 0 .. 2^XLen - 1
SIGN == 2^(XLen - 1)
Ones == 2^XLen - 1

Wrap(n) == n % 2^XLen
Inv(a) == Ones - a
Flag(p) == IF p THEN 1 ELSE 0
Shl(a, sh) == Wrap(a * 2^sh)
Bits(a, high, low) == (a \div 2^low) % 2^(high - low + 1)

(* The low bits of an operand that count a shift, and how many they are.   *)
ShiftCount(b) == b % XLen
CountBits == CHOOSE n \in 0 .. XLen : 2^n = XLen

(* A value carries its own sign: (v ^ msk) - msk spreads the bit of msk.   *)
SpreadSign(v, msk) == Wrap((v ^^ msk) - msk)
SraUnfilled(a, sh) == shiftR(a, sh)
Sra(a, sh) == SpreadSign(shiftR(a, sh), shiftR(a & SIGN, sh))

(* Signed order is unsigned order with the sign bit flipped. *)
SignedLess(a, b) == (a ^^ SIGN) < (b ^^ SIGN)

-----------------------------------------------------------------------------
(***************************************************************************)
(* Multiplication and division, signed ones through the fill of the upper  *)
(* word and through magnitudes.  What a divider answers for a zero divisor *)
(* is open; the bodies choose another value then.                          *)
(***************************************************************************)
Widen(value, sign) == value + sign * Ones * 2^XLen

(* The upper word of the product of two wide operands, cut to their width. *)
HighWord(x, y) ==
    LET low(v) == v % 2^XLen
        top(v) == v \div 2^XLen
    IN  Wrap((low(x) * low(y)) \div 2^XLen + top(x) * low(y) + low(x) * top(y))

SignBit(a) == Bits(a, XLen - 1, XLen - 1)
Magnitude(a) == IF SignBit(a) = 1 THEN Wrap(-a) ELSE a
Divide(a, b) == IF b = 0 THEN 0 ELSE a \div b
Modulo(a, b) == IF b = 0 THEN 0 ELSE a % b

SignedQuotient(a, b) ==
    LET q == Divide(Magnitude(a), Magnitude(b))
    IN  IF SignBit(a) # SignBit(b) THEN Wrap(-q) ELSE q
SignedRemainder(a, b) ==
    LET r == Modulo(Magnitude(a), Magnitude(b))
    IN  IF SignBit(a) = 1 THEN Wrap(-r) ELSE r

-----------------------------------------------------------------------------
(***************************************************************************)
(* Bytes of a word.  The two low bits of an address pick the byte, and the *)
(* upper of the two picks the half.                                        *)
(***************************************************************************)
ByteBits == XLen \div 4
HalfBits == XLen \div 2
ByteOff(eff_addr) == (eff_addr % 4) * ByteBits
HalfOff(eff_addr) == (eff_addr & 2) * ByteBits

MergeUnmasked(word, data, off, bits) == word | Wrap((data % 2^bits) * 2^off)
Merge(word, data, off, bits) ==
    (word & Inv(Wrap((2^bits - 1) * 2^off))) | Wrap((data % 2^bits) * 2^off)
Extract(word, off, bits) == shiftR(word, off) % 2^bits
Sext(v, bits) == SpreadSign(v, 2^(bits - 1))
=============================================================================
