------------------------------ MODULE RingSize ------------------------------
(***************************************************************************)
(* The size of a shared ring (ring.h): as many entries as fit in the page  *)
(* after the header, rounded down to a power of two, so that an index that *)
(* runs on and wraps around always falls in the same slot.  The rounding   *)
(* is a tree of macros, each of which looks at half of the bits and hands  *)
(* the half with the highest bit to the next.  A shift is a division by a  *)
(* power of two, and a mask of high bits is tested by that division.       *)
(***************************************************************************)
EXTENDS Integers

RD2(x) == IF (x \div 2) % 2 # 0 THEN 2 ELSE x % 2
RD4(x) == IF (x \div 4) % 4 # 0 THEN 4 * RD2(x \div 4) ELSE RD2(x)
RD8(x) == IF (x \div 16) % 16 # 0 THEN 16 * RD4(x \div 16) ELSE RD4(x)

\* Mutant of RD16: the high byte is not shifted back.
RD16Unshifted(x) == IF (x \div 256) % 256 # 0 THEN RD8(x \div 256) ELSE RD8(x)

RD16(x) == IF (x \div 256) % 256 # 0 THEN 256 * RD8(x \div 256) ELSE RD8(x)
RD32(x) == IF x \div 65536 # 0 THEN 65536 * RD16(x \div 65536) ELSE RD16(x)

\* __CONST_RING_SIZE and __RING_SIZE: bytes is the size of the area, header
\* the offset of the entries in it, entry the size of one.
RingSizeOf(bytes, header, entry) == RD32((bytes - header) \div entry)

=============================================================================
