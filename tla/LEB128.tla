------------------------------- MODULE LEB128 -------------------------------
(***************************************************************************)
(* LEB128 / SLEB128 variable-length integers, as decoded and encoded by    *)
(* idk/common/leb128.py (class BaseLEB and its subclasses LEB and SLEB).   *)
(*                                                                         *)
(* A byte stream is a sequence of integers in 0..255; a position is the    *)
(* number of bytes already consumed (the BytesIO read position).  The      *)
(* masks of the code are arithmetic on bytes:                              *)
(*    b & 0x7f  =  b % 128        b & 0x80 # 0  =  b >= 128                *)
(*    b & 0x40 # 0  =  (b % 128) >= 64                                     *)
(* and (b & 0x7f) << shift is added to a result whose bits below shift are *)
(* the only ones set, so |= is +.  Python integers do not overflow.        *)
(***************************************************************************)
EXTENDS Integers, Sequences

Low7(b)     == b % 128
HasMore(b)  == b >= 128
SignBit(b)  == Low7(b) >= 64

(***************************************************************************)
(* BaseLEB.decode: read bytes from position pos of stream s until one      *)
(* without the continuation bit.  The result is a record: ok = FALSE when  *)
(* the stream ends first (ValueError 'unexpected end of data'); otherwise  *)
(* val is the number and pos the position after its last byte.  With      *)
(* signed = TRUE (SLEB) a set sign bit of the last byte sign-extends.      *)
(***************************************************************************)
RECURSIVE DecodeFrom(_, _, _, _, _)
DecodeFrom(s, pos, signed, result, shift) ==
    IF pos >= Len(s)
    THEN [ok |-> FALSE, val |-> 0, pos |-> pos]
    ELSE LET b    == s[pos + 1]
             acc  == result + Low7(b) * 2^shift
         IN  IF HasMore(b)
             THEN DecodeFrom(s, pos + 1, signed, acc, shift + 7)
             ELSE [ok  |-> TRUE,
                   val |-> IF signed /\ SignBit(b) THEN acc - 2^(shift + 7) ELSE acc,
                   pos |-> pos + 1]

Decode(s, pos, signed) == DecodeFrom(s, pos, signed, 0, 0)

(***************************************************************************)
(* BaseLEB.encode_iter: emit seven bits at a time, low bits first, setting *)
(* the continuation bit on every byte but the last.  value >>= 7 is floor  *)
(* division by 128, as \div is for a positive divisor.  Encoding a         *)
(* negative number unsigned raises ValueError; callers never do it and it  *)
(* is excluded by the domain of the values given to it.                    *)
(***************************************************************************)
\* Mutant: a negative value ends as soon as the rest is -1, whatever its
\* sign bit says.
RECURSIVE EncodeIgnoresSignBit(_, _)
EncodeIgnoresSignBit(value, signed) ==
    LET seven == value % 128
        rest  == value \div 128
        last  == IF signed
                 THEN \/ rest = 0 /\ seven < 64
                      \/ rest = -1
                 ELSE rest = 0
    IN  IF last THEN << seven >>
        ELSE << seven + 128 >> \o EncodeIgnoresSignBit(rest, signed)

RECURSIVE Encode(_, _)
Encode(value, signed) ==
    LET seven == value % 128
        rest  == value \div 128
        last  == IF signed
                 THEN \/ rest = 0 /\ seven < 64
                      \/ rest = -1 /\ seven >= 64
                 ELSE rest = 0
    IN  IF last THEN << seven >>
        ELSE << seven + 128 >> \o Encode(rest, signed)

=============================================================================
