------------------------------- MODULE MCIdd --------------------------------
(***************************************************************************)
(* Instances of Idd for TLC.  Requests of the same kind and pending_req    *)
(* structures are interchangeable; the runs with temporal properties do    *)
(* without the symmetry.                                                   *)
(***************************************************************************)
EXTENDS Idd, TLC

Symmetry ==
  Permutations(Request \ NonFs) \cup Permutations(NonFs) \cup Permutations(Pending)

=============================================================================
