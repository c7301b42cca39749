-------------------------------- MODULE Ring --------------------------------
(***************************************************************************)
(* The index arithmetic of the shared ring (src/kernel/ring.h).            *)
(*                                                                         *)
(* Producer and consumer indices are free-running unsigned integers        *)
(* (RING_IDX): they are never reduced to the size of the ring, they wrap   *)
(* at 2^32, and only the access to a slot masks them.  IdxSpan stands for  *)
(* 2^32; the checked instances shrink it so that every index wraps.        *)
(***************************************************************************)
EXTENDS Integers

CONSTANTS
  RingSize,  \* nr_ents of both halves, and IDD_RING_SIZE: 32 for one page
  IdxSpan    \* number of values of a RING_IDX: 2^32

(***************************************************************************)
(* The size is a power of two, so it divides 2^32 and "& (size - 1)" is    *)
(* "% size".  Divisibility is all that is used.                            *)
(***************************************************************************)
ASSUME RingAssumption ==
  /\ RingSize \in Nat \ {0}
  /\ IdxSpan \in Nat
  /\ IdxSpan > RingSize
  /\ IdxSpan % RingSize = 0

RING_IDX == 0 .. IdxSpan - 1
Slots    == 0 .. RingSize - 1

\* Mutant of Succ: the index is not kept to the width of a RING_IDX.
SuccUnbounded(idx) == idx + 1

\* ++idx and a - b on a RING_IDX: unsigned, hence modulo IdxSpan.
Succ(idx)   == IF idx = IdxSpan - 1 THEN 0 ELSE idx + 1
Minus(a, b) == IF a >= b THEN a - b ELSE (a + IdxSpan) - b

\* The slot RING_GET_REQUEST and RING_GET_RESPONSE address.
SlotOf(idx) == idx % RingSize

RING_FREE_REQUESTS(prod_pvt, cons) == Minus(RingSize, Minus(prod_pvt, cons))
RING_FULL(prod_pvt, cons)          == RING_FREE_REQUESTS(prod_pvt, cons) = 0

RING_HAS_UNCONSUMED_RESPONSES(prod, cons) == Minus(prod, cons)

\* The smaller of the requests published and the responses there is room for.
RING_HAS_UNCONSUMED_REQUESTS(prod, cons, rsp_pvt) ==
  LET req == Minus(prod, cons)
      rsp == Minus(RingSize, Minus(cons, rsp_pvt))
  IN  IF req < rsp THEN req ELSE rsp

RING_REQUEST_CONS_OVERFLOW(cons, rsp_pvt) == Minus(cons, rsp_pvt) >= RingSize

\* The indices from a up to, but not including, b.
IdxRange(a, b) == {x \in RING_IDX : Minus(x, a) < Minus(b, a)}

=============================================================================
