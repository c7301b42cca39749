----------------------------- MODULE MCDataPath -----------------------------
(***************************************************************************)
(* Instance of DataPath for TLC: pages of two sectors; a whole page, a     *)
(* half, and two or three pages joined in the middle, as a read and as a   *)
(* write, at two places of the disk that let requests touch.               *)
(***************************************************************************)
EXTENDS DataPath, TLC

Seg(a, b) == [first |-> a, last |-> b]
Layouts == {<<Seg(0, 1)>>, <<Seg(1, 1)>>, <<Seg(1, 1), Seg(0, 1)>>,
            <<Seg(1, 1), Seg(0, 1), Seg(0, 0)>>, <<Seg(0, 1), Seg(0, 1)>>}
Geometries == {[dir |-> d, pos |-> s, segs |-> l] : d \in {READ, WRITE}, s \in {0, 2}, l \in Layouts}
                \cup {[dir |-> WRITE, pos |-> 1, segs |-> <<Seg(1, 1), Seg(0, 1)>>]}

Symmetry == Permutations(Request) \cup Permutations(Pending)
=============================================================================
