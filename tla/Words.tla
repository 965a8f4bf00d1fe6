------------------------------- MODULE Words -------------------------------
(***************************************************************************)
(* Words of two bytes, as the processor's registers hold them.             *)
(***************************************************************************)
EXTENDS Integers

CONSTANTS
  ByteSize,    \* how many values a byte has, 256 in the machine
  RstSpacing   \* the distance of two RST vectors, 8 in the machine

ASSUME WordsAssumption == ByteSize \in Nat \ {0} /\ RstSpacing \in Nat

Byte == 0..(ByteSize - 1)
Word == 0..(ByteSize * ByteSize - 1)
Plus(w, n) == (w + n) % (ByteSize * ByteSize)
Low(w) == w % ByteSize
High(w) == w \div ByteSize
Join(h, l) == h * ByteSize + l
Vector(n) == (n * RstSpacing) % (ByteSize * ByteSize)
=============================================================================
